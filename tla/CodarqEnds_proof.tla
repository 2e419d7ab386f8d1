-------------------------- MODULE CodarqEnds_proof ---------------------------
(***************************************************************************)
(* The invariants of each end of CODARQ on its own: of the encoder, for    *)
(* every number of symbols, window size and redundancy, whatever feedback  *)
(* arrives, and of the decoder, whatever packets arrive in whatever order. *)
(***************************************************************************)
EXTENDS CodarqEncoder, CodarqDecoder, RlncLemmas

-----------------------------------------------------------------------------
(* Facts about plans.                                                      *)

(* The plan of one generation has as many packets as its to_send says.     *)
LEMMA PlannedSingle ==
  ASSUME NEW c, NEW g, c[g].to_send \in Nat
  PROVE  /\ IsFiniteSet(Planned(c, {g}))
         /\ Cardinality(Planned(c, {g})) = c[g].to_send
<1>1. Planned(c, {g}) = {g} \X (1 .. c[g].to_send)
  BY DEF Planned
<1>2. IsFiniteSet({g}) /\ Cardinality({g}) = 1
  BY FS_Singleton
<1> DEFINE n == c[g].to_send
<1>3. IsFiniteSet(1 .. n) /\ Cardinality(1 .. n) = n
  <2>1. n \in Nat
    OBVIOUS
  <2> HIDE DEF n
  <2>2. IsFiniteSet(1 .. n) /\ Cardinality(1 .. n) = IF 1 > n THEN 0 ELSE n - 1 + 1
    BY <2>1, FS_Interval
  <2>3. QED
    BY <2>1, <2>2
<1>4. /\ IsFiniteSet({g} \X (1 .. n))
      /\ Cardinality({g} \X (1 .. n)) = Cardinality({g}) * Cardinality(1 .. n)
  BY <1>2, <1>3, FS_Product, Zenon
<1>5. 1 * n = n
  OBVIOUS
<1>6. Cardinality({g} \X (1 .. n)) = n
  BY <1>2, <1>3, <1>4, <1>5, Zenon
<1>7. QED
  BY <1>1, <1>4, <1>6, Zenon

(* The plan of finitely many generations is finite.                        *)
LEMMA PlannedFinite ==
  ASSUME NEW c, NEW S, IsFiniteSet(S), \A g \in S : c[g].to_send \in Nat
  PROVE  IsFiniteSet(Planned(c, S))
<1> DEFINE T == {{g} \X (1 .. c[g].to_send) : g \in S}
           f == [g \in S |-> {g} \X (1 .. c[g].to_send)]
<1>1. f \in Surjection(S, T)
  BY DEF Surjection
<1>2. IsFiniteSet(T)
  BY <1>1, FS_Surjection
<1>3. \A t \in T : IsFiniteSet(t)
  <2>1. SUFFICES ASSUME NEW g \in S PROVE IsFiniteSet({g} \X (1 .. c[g].to_send))
    OBVIOUS
  <2>2. IsFiniteSet(Planned(c, {g}))
    BY PlannedSingle
  <2>3. QED
    BY <2>2 DEF Planned
<1>4. QED
  BY <1>2, <1>3, FS_UNION DEF Planned

(* The plans of different generations add up.                              *)
LEMMA PlannedUnion ==
  ASSUME NEW c, NEW S, NEW T, IsFiniteSet(S), IsFiniteSet(T), S \cap T = {},
         \A g \in S \cup T : c[g].to_send \in Nat
  PROVE  /\ Cardinality(Planned(c, S \cup T)) =
              Cardinality(Planned(c, S)) + Cardinality(Planned(c, T))
         /\ Cardinality(Planned(c, S)) \in Nat
         /\ Cardinality(Planned(c, T)) \in Nat
<1>1. IsFiniteSet(Planned(c, S)) /\ IsFiniteSet(Planned(c, T))
  BY PlannedFinite
<1>2. Planned(c, S \cup T) = Planned(c, S) \cup Planned(c, T)
  BY DEF Planned
<1>3. Planned(c, S) \cap Planned(c, T) = {}
  BY DEF Planned
<1> DEFINE P == Planned(c, S)
           Q == Planned(c, T)
<1>4. Cardinality(P \cup Q) = Cardinality(P) + Cardinality(Q) - Cardinality(P \cap Q)
  BY <1>1, FS_Union, Zenon
<1>5. Cardinality(P \cap Q) = 0
  BY <1>3, FS_EmptySet, Zenon
<1>6. Cardinality(P) \in Nat /\ Cardinality(Q) \in Nat
  BY <1>1, FS_CardinalityType, Zenon
<1>7. Cardinality(P \cup Q) = Cardinality(P) + Cardinality(Q)
  BY <1>4, <1>5, <1>6
<1>8. QED
  BY <1>2, <1>6, <1>7, Zenon

(* The plan depends on nothing but to_send.                                *)
LEMMA PlannedSame ==
  ASSUME NEW c, NEW d, NEW S, \A g \in S : c[g].to_send = d[g].to_send
  PROVE  Planned(c, S) = Planned(d, S)
  BY DEF Planned

(* One generation more, or one generation changed.                         *)
LEMMA PlannedChange ==
  ASSUME NEW c, NEW d, NEW S, NEW g, IsFiniteSet(S), g \notin S,
         \A h \in S : c[h].to_send \in Nat /\ d[h].to_send = c[h].to_send,
         d[g].to_send \in Nat
  PROVE  /\ Cardinality(Planned(d, S \cup {g})) =
              Cardinality(Planned(c, S)) + d[g].to_send
         /\ Cardinality(Planned(c, S)) \in Nat
<1>1. Planned(d, S) = Planned(c, S)
  BY PlannedSame
<1>2. IsFiniteSet({g}) /\ S \cap {g} = {}
  BY FS_Singleton
<1>3. \A h \in S \cup {g} : d[h].to_send \in Nat
  OBVIOUS
<1>4. /\ Cardinality(Planned(d, S \cup {g})) =
           Cardinality(Planned(d, S)) + Cardinality(Planned(d, {g}))
      /\ Cardinality(Planned(d, S)) \in Nat
  BY <1>2, <1>3, PlannedUnion
<1>5. Cardinality(Planned(d, {g})) = d[g].to_send
  BY PlannedSingle
<1>6. QED
  BY <1>1, <1>4, <1>5

-----------------------------------------------------------------------------
(* The inductive invariant.  The sum is inductive only together with the   *)
(* finiteness of the list, the timer only together with the sum.           *)
EncInv == EncTypeOK /\ EncPlanSum /\ EncNeverSilent /\ EncWindow

(* gen_newest is the generation of cont_newest.                            *)
LEMMA EncNewest ==
  ASSUME EncInv, EncActive # {}
  PROVE  enc_gen_newest \in EncActive /\ Max(EncActive) = enc_gen_newest
<1>1. EncActive \in SUBSET Nat /\ enc_gen_newest \in Nat
  BY DEF EncInv, EncTypeOK, EncActive, Generations
<1>2. PICK g \in EncActive : g <= enc_gen_newest /\ g .. enc_gen_newest \subseteq EncActive
  BY DEF EncInv, EncWindow
<1>3. enc_gen_newest \in EncActive
  BY <1>1, <1>2
<1>4. \A x \in EncActive : x <= enc_gen_newest
  BY DEF EncInv, EncWindow
<1>5. QED
  BY <1>1, <1>3, <1>4, MaxProperty

(* The sum rules out the failure of assert(found).                         *)
LEMMA EncInvFound == EncInv => EncAssertFound
<1>1. SUFFICES ASSUME EncInv, EncHasCoded PROVE EncWithCoded # {}
  BY DEF EncAssertFound
<1>2. Planned(enc_containers, EncActive) # {}
  BY <1>1, FS_EmptySet DEF EncInv, EncPlanSum, EncHasCoded
<1>3. PICK g \in EncActive : 1 .. enc_containers[g].to_send # {}
  BY <1>2 DEF Planned
<1>4. enc_containers[g].to_send \in Nat
  BY <1>1 DEF EncInv, EncTypeOK, EncActive, EncContainers
<1>5. QED
  BY <1>3, <1>4 DEF EncWithCoded

LEMMA EncInitInv == EncInit => EncInv
<1> SUFFICES ASSUME EncInit PROVE EncInv
  OBVIOUS
<1>1. EncActive = {}
  BY DEF EncInit, EncActive
<1>2. IsFiniteSet({}) /\ Cardinality({}) = 0
  BY FS_EmptySet
<1>3. EncTypeOK
  <2>1. 0 \in SeqNos
    BY SeqSpaceAssumption DEF SeqNos
  <2>2. DOMAIN enc_containers = {} /\ enc_containers \in [{} -> EncContainers]
    BY DEF EncInit
  <2>3. /\ enc_gen_newest = 0 /\ enc_seqno = 0 /\ enc_to_send = 0
        /\ enc_repair_timer = FALSE
    BY DEF EncInit
  <2>4. IsFiniteSet(DOMAIN enc_containers)
    BY <1>2, <2>2
  <2>5. enc_containers \in [DOMAIN enc_containers -> EncContainers]
    BY <2>2
  <2>6. DOMAIN enc_containers \subseteq Generations
    BY <2>2
  <2>7. enc_gen_newest \in Nat /\ enc_to_send \in Int
    BY <2>3
  <2>8. enc_repair_timer \in BOOLEAN
    BY <2>3, Zenon
  <2>9. QED
    BY <2>1, <2>3, <2>4, <2>5, <2>6, <2>7, <2>8, Zenon DEF EncTypeOK
<1>4. Planned(enc_containers, {}) = {}
  BY DEF Planned
<1>5. EncPlanSum
  BY <1>1, <1>2, <1>4 DEF EncInit, EncPlanSum
<1>6. EncNeverSilent
  BY <1>1 DEF EncNeverSilent
<1>7. EncWindow
  BY <1>1, <1>2, MaxContainersAssumption DEF EncWindow
<1>8. QED
  BY <1>3, <1>5, <1>6, <1>7 DEF EncInv

LEMMA EncPutSourceInv ==
  ASSUME EncInv, EncPutSource
  PROVE  EncInv'
<1> DEFINE gen == EncSourceGen
           old == EncOpen(gen)
           rank == old.rank + 1
           plan == IF rank = Symbols THEN 1 + Redundancy ELSE 1
           S == EncActive \ {gen}
           new == [old EXCEPT !.rank = rank, !.to_send = @ + plan]
<1>1. /\ EncTypeOK /\ EncPlanSum /\ EncNeverSilent /\ EncWindow
      /\ IsFiniteSet(EncActive) /\ EncActive \subseteq Generations /\ enc_gen_newest \in Nat
      /\ \A g \in EncActive : enc_containers[g] \in EncContainers
  BY DEF EncInv, EncTypeOK, EncActive
<1>2. /\ ~ EncFull
      /\ enc_containers' = [g \in EncActive \cup {gen} |->
                              IF g = gen THEN new ELSE enc_containers[g]]
      /\ enc_gen_newest' = gen
      /\ enc_to_send' = enc_to_send + plan
      /\ enc_seqno' = enc_seqno /\ enc_repair_timer' = enc_repair_timer
  BY DEF EncPutSource
<1>3. /\ gen \in Generations
      /\ old \in EncContainers /\ old.rank < Symbols
      /\ IsFiniteSet(EncActive \cup {gen})
      /\ Cardinality(EncActive \cup {gen}) <= MaxContainers
      /\ \A g \in EncActive : g <= gen /\ g .. gen \subseteq EncActive \cup {gen}
      /\ \A g \in EncActive : g < gen => enc_containers[g].rank = Symbols
      /\ Cardinality(Planned(enc_containers, EncActive)) =
           Cardinality(Planned(enc_containers, S)) + old.to_send
  <2>1. CASE EncNewestFull
    <3>1. gen = enc_gen_newest + 1
      BY <2>1 DEF EncSourceGen
    <3>2. gen \notin EncActive /\ gen \in Generations
      BY <1>1, <3>1 DEF EncWindow, Generations
    <3>3. old = [rank |-> 0, sent |-> 0, last_seqno |-> 0, to_send |-> 0]
      BY <3>2 DEF EncOpen
    <3>4. old \in EncContainers /\ old.rank < Symbols /\ old.to_send = 0
      BY <3>3, SymbolsAssumption, SeqSpaceAssumption DEF EncContainers, SeqNos
    <3>5. IsFiniteSet(EncActive \cup {gen}) /\ Cardinality(EncActive \cup {gen}) <= MaxContainers
      <4>1. Cardinality(EncActive) \in Nat /\ Cardinality(EncActive) < MaxContainers
        BY <1>1, <1>2, <2>1, FS_CardinalityType, MaxContainersAssumption DEF EncFull
      <4>2. /\ IsFiniteSet(EncActive \cup {gen})
            /\ Cardinality(EncActive \cup {gen}) = Cardinality(EncActive) + 1
        BY <1>1, <3>2, FS_AddElement
      <4>3. QED
        BY <4>1, <4>2, MaxContainersAssumption
    <3>6. ASSUME NEW g \in EncActive
          PROVE  g <= gen /\ g .. gen \subseteq EncActive \cup {gen}
      <4>1. /\ g \in Nat /\ g <= enc_gen_newest
            /\ g .. enc_gen_newest \subseteq EncActive
        BY <1>1 DEF EncWindow, Generations
      <4>2. g .. gen = (g .. enc_gen_newest) \cup {gen}
        BY <1>1, <4>1, <3>1
      <4>3. QED
        BY <1>1, <3>1, <4>1, <4>2
    <3>7. ASSUME NEW g \in EncActive PROVE enc_containers[g].rank = Symbols
      <4>1. Max(EncActive) = enc_gen_newest
        BY EncNewest
      <4>2. enc_containers[enc_gen_newest].rank = Symbols
        BY <2>1, <4>1 DEF EncNewestFull
      <4>3. g \in Nat /\ g <= enc_gen_newest
        BY <1>1 DEF EncWindow, Generations
      <4>4. QED
        BY <1>1, <4>2, <4>3 DEF EncWindow
    <3>8. S = EncActive
      BY <3>2
    <3>9. Cardinality(Planned(enc_containers, EncActive)) \in Nat
      BY <1>1, PlannedFinite, FS_CardinalityType DEF EncContainers
    <3>10. QED
      BY <3>2, <3>4, <3>5, <3>6, <3>7, <3>8, <3>9
  <2>2. CASE ~ EncNewestFull
    <3>1. EncActive # {} /\ gen = Max(EncActive) /\ enc_containers[gen].rank # Symbols
      BY <2>2 DEF EncSourceGen, EncNewestFull
    <3>2. gen = enc_gen_newest /\ gen \in EncActive
      BY <3>1, EncNewest
    <3>3. old = enc_containers[gen]
      BY <3>2 DEF EncOpen
    <3>4. old \in EncContainers /\ old.rank < Symbols /\ old.to_send \in Nat
      BY <1>1, <3>1, <3>2, <3>3, SymbolsAssumption DEF EncContainers
    <3>5. EncActive \cup {gen} = EncActive /\ EncActive = S \cup {gen} /\ gen \notin S
      BY <3>2
    <3>6. IsFiniteSet(S)
      BY <1>1, FS_Difference
    <3>7. Cardinality(Planned(enc_containers, S \cup {gen})) =
            Cardinality(Planned(enc_containers, S)) + enc_containers[gen].to_send
      <4>1. \A h \in EncActive : enc_containers[h].to_send \in Nat
        BY <1>1 DEF EncContainers
      <4>2. \A h \in S : enc_containers[h].to_send \in Nat
        BY <4>1
      <4>3. enc_containers[gen].to_send \in Nat
        BY <3>2, <4>1
      <4> HIDE DEF S, gen
      <4>4. QED
        <5>1. IsFiniteSet({gen}) /\ S \cap {gen} = {}
          BY <3>5, FS_Singleton
        <5>2. \A h \in S \cup {gen} : enc_containers[h].to_send \in Nat
          BY <4>2, <4>3
        <5>3. Cardinality(Planned(enc_containers, {gen})) = enc_containers[gen].to_send
          BY <4>3, PlannedSingle
        <5>4. QED
          BY <3>6, <5>1, <5>2, <5>3, PlannedUnion
    <3>8. QED
      BY <1>1, <3>2, <3>3, <3>4, <3>5, <3>7 DEF EncWindow
  <2>3. QED
    BY <2>1, <2>2
<1> HIDE DEF gen, old, S
<1>4. /\ rank \in 1 .. Symbols /\ plan \in Nat \ {0}
      /\ old.to_send \in Nat
      /\ new \in EncContainers
      /\ new.rank = rank /\ new.to_send = old.to_send + plan
  <2>1. old \in [rank : 0 .. Symbols, sent : 0 .. Symbols, last_seqno : SeqNos, to_send : Nat]
    BY <1>3 DEF EncContainers
  <2>2. rank \in 1 .. Symbols
    BY <1>3, <2>1, SymbolsAssumption
  <2>3. plan \in Nat \ {0}
    BY RedundancyAssumption
  <2> HIDE DEF rank, plan
  <2>4. new \in EncContainers
    <3>1. rank \in 0 .. Symbols /\ old.to_send + plan \in Nat
      BY <2>1, <2>2, <2>3, SymbolsAssumption
    <3> DEFINE n == old.to_send + plan
    <3>2. [old EXCEPT !.rank = rank] \in EncContainers
      BY <2>1, <3>1 DEF EncContainers
    <3>3. ASSUME NEW m \in Nat, NEW o \in EncContainers
          PROVE  [o EXCEPT !.to_send = m] \in EncContainers
      BY DEF EncContainers
    <3>4. new = [[old EXCEPT !.rank = rank] EXCEPT !.to_send = n]
      BY <2>1
    <3>5. QED
      BY <3>1, <3>2, <3>3, <3>4
  <2>5. QED
    BY <2>1, <2>2, <2>3, <2>4
<1>5. EncActive' = EncActive \cup {gen} /\ DOMAIN enc_containers' = EncActive \cup {gen}
  BY <1>2 DEF EncActive
<1> HIDE DEF rank, plan, new
<1>6. /\ enc_containers'[gen] = new
      /\ \A g \in EncActive : g # gen => enc_containers'[g] = enc_containers[g]
      /\ \A g \in EncActive' : enc_containers'[g] \in EncContainers
  BY <1>1, <1>2, <1>4, <1>5
<1>7. EncTypeOK'
  <2>1. enc_containers' \in [EncActive' -> EncContainers]
    BY <1>2, <1>5, <1>6
  <2>2. enc_to_send' \in Int
    BY <1>1, <1>2, <1>4 DEF EncTypeOK
  <2>3. QED
    BY <1>1, <1>2, <1>3, <1>5, <2>1, <2>2 DEF EncTypeOK, Generations, EncActive
<1>8. EncPlanSum'
  <2>1. IsFiniteSet(S) /\ gen \notin S /\ S \cup {gen} = EncActive' /\ S \subseteq EncActive
    BY <1>1, <1>5, FS_Difference DEF S
  <2>2. /\ Cardinality(Planned(enc_containers', S \cup {gen})) =
             Cardinality(Planned(enc_containers, S)) + enc_containers'[gen].to_send
        /\ Cardinality(Planned(enc_containers, S)) \in Nat
    <3>1. \A h \in S : /\ enc_containers[h].to_send \in Nat
                       /\ enc_containers'[h].to_send = enc_containers[h].to_send
      BY <1>1, <1>6, <2>1 DEF EncContainers
    <3>2. enc_containers'[gen].to_send \in Nat
      BY <1>4, <1>6
    <3>3. QED
      BY <2>1, <3>1, <3>2, PlannedChange
  <2>3. enc_to_send = Cardinality(Planned(enc_containers, S)) + old.to_send
    BY <1>1, <1>3 DEF EncPlanSum
  <2>4. enc_to_send' = Cardinality(Planned(enc_containers, S)) + new.to_send
    BY <1>2, <1>4, <2>2, <2>3
  <2>5. QED
    BY <1>6, <2>1, <2>2, <2>4 DEF EncPlanSum
<1>9. EncNeverSilent'
  <2>1. enc_to_send \in Nat
    BY <1>1, PlannedFinite, FS_CardinalityType DEF EncPlanSum, EncContainers
  <2>2. enc_to_send' >= 1
    BY <1>2, <1>4, <2>1
  <2>3. QED
    BY <2>2 DEF EncNeverSilent, EncHasCoded
<1>10. EncWindow'
  <2>1. \A g \in EncActive' : g <= gen
    BY <1>3, <1>5 DEF Generations
  <2>2. \A g \in EncActive' : g .. gen \subseteq EncActive'
    BY <1>3, <1>5 DEF Generations
  <2>3. \A g \in EncActive' : g < gen => enc_containers'[g].rank = Symbols
    BY <1>3, <1>5, <1>6 DEF Generations
  <2>4. QED
    BY <1>2, <1>3, <1>5, <2>1, <2>2, <2>3 DEF EncWindow
<1>11. QED
  BY <1>7, <1>8, <1>9, <1>10 DEF EncInv

-----------------------------------------------------------------------------
(* The calls that change one container and keep its rank: the sum follows  *)
(* if to_send follows to_send_cont.                                        *)
LEMMA EncChangeOne ==
  ASSUME EncInv, NEW g \in EncActive, NEW c \in EncContainers,
         enc_containers' = [enc_containers EXCEPT ![g] = c],
         c.rank = enc_containers[g].rank,
         enc_to_send' = enc_to_send + c.to_send - enc_containers[g].to_send,
         enc_gen_newest' = enc_gen_newest, enc_seqno' \in SeqNos,
         enc_repair_timer' \in BOOLEAN
  PROVE  EncTypeOK' /\ EncPlanSum' /\ EncWindow' /\ EncActive' = EncActive
<1> DEFINE S == EncActive \ {g}
<1>1. /\ EncTypeOK /\ EncPlanSum /\ EncWindow
      /\ IsFiniteSet(EncActive) /\ EncActive \subseteq Generations
      /\ enc_gen_newest \in Nat /\ enc_to_send \in Int
      /\ \A h \in EncActive : enc_containers[h] \in EncContainers
      /\ enc_containers \in [EncActive -> EncContainers]
  BY DEF EncInv, EncTypeOK, EncActive
<1>2. /\ EncActive' = EncActive /\ DOMAIN enc_containers' = EncActive
      /\ enc_containers'[g] = c
      /\ \A h \in EncActive : h # g => enc_containers'[h] = enc_containers[h]
      /\ enc_containers' \in [EncActive -> EncContainers]
  BY <1>1 DEF EncActive
<1>3. \A h \in EncActive : enc_containers[h].to_send \in Nat
  BY <1>1 DEF EncContainers
<1>4. c.to_send \in Nat
  BY DEF EncContainers
<1>5. IsFiniteSet(S) /\ g \notin S /\ S \cup {g} = EncActive
  BY <1>1, FS_Difference
<1> HIDE DEF S
<1>6. /\ Cardinality(Planned(enc_containers', S \cup {g})) =
           Cardinality(Planned(enc_containers, S)) + c.to_send
      /\ Cardinality(Planned(enc_containers, S)) \in Nat
  <2>1. \A h \in S : /\ enc_containers[h].to_send \in Nat
                     /\ enc_containers'[h].to_send = enc_containers[h].to_send
    BY <1>2, <1>3, <1>5
  <2>2. enc_containers'[g].to_send \in Nat
    BY <1>2, <1>4
  <2>3. /\ Cardinality(Planned(enc_containers', S \cup {g})) =
             Cardinality(Planned(enc_containers, S)) + enc_containers'[g].to_send
        /\ Cardinality(Planned(enc_containers, S)) \in Nat
    <3> DEFINE d == enc_containers'
    <3>1. \A h \in S : /\ enc_containers[h].to_send \in Nat
                       /\ d[h].to_send = enc_containers[h].to_send
      BY <2>1
    <3>2. d[g].to_send \in Nat
      BY <2>2
    <3> HIDE DEF d
    <3>3. /\ Cardinality(Planned(d, S \cup {g})) =
               Cardinality(Planned(enc_containers, S)) + d[g].to_send
          /\ Cardinality(Planned(enc_containers, S)) \in Nat
      BY <1>5, <3>1, <3>2, PlannedChange
    <3>4. QED
      BY <3>3 DEF d
  <2>4. QED
    BY <1>2, <2>3, Zenon
<1>7. Cardinality(Planned(enc_containers, S \cup {g})) =
        Cardinality(Planned(enc_containers, S)) + enc_containers[g].to_send
  <2>1. IsFiniteSet({g}) /\ S \cap {g} = {}
    BY <1>5, FS_Singleton
  <2>2. \A h \in S \cup {g} : enc_containers[h].to_send \in Nat
    BY <1>3, <1>5
  <2>3. Cardinality(Planned(enc_containers, {g})) = enc_containers[g].to_send
    BY <1>3, PlannedSingle
  <2>4. QED
    BY <1>5, <2>1, <2>2, <2>3, PlannedUnion
<1>8. EncPlanSum'
  <2>1. enc_to_send = Cardinality(Planned(enc_containers, S)) + enc_containers[g].to_send
    BY <1>1, <1>5, <1>7 DEF EncPlanSum
  <2>2. enc_to_send' = Cardinality(Planned(enc_containers, S)) + c.to_send
    BY <1>3, <1>4, <1>6, <2>1
  <2>3. QED
    BY <1>2, <1>5, <1>6, <2>2 DEF EncPlanSum
<1>9. EncTypeOK'
  <2>1. enc_to_send' \in Int
    BY <1>1, <1>3, <1>4
  <2>2. QED
    BY <1>1, <1>2, <2>1, Zenon DEF EncTypeOK
<1>10. EncWindow'
  <2>1. \A h \in EncActive : enc_containers'[h].rank = enc_containers[h].rank
    BY <1>2
  <2>2. QED
    BY <1>1, <1>2, <2>1 DEF EncWindow
<1>11. QED
  BY <1>2, <1>8, <1>9, <1>10

LEMMA EncGetCodedInv ==
  ASSUME EncInv, NEW vec, EncGetCoded(vec)
  PROVE  EncInv'
<1> DEFINE turn == EncTurn
           old == enc_containers[turn]
           new == EncTaken(old)
<1>1. /\ EncWithCoded # {} /\ EncWithCoded \subseteq EncActive
      /\ EncActive \subseteq Nat
      /\ \A h \in EncActive : enc_containers[h] \in EncContainers
      /\ enc_to_send \in Int
  BY DEF EncInv, EncTypeOK, EncActive, EncGetCoded, EncWithCoded, Generations
<1>2. turn \in EncActive /\ old.to_send >= 1
  <2>1. turn \in EncWithCoded
    BY <1>1, MinProperty DEF EncTurn
  <2>2. QED
    BY <1>1, <2>1 DEF EncWithCoded
<1>3. /\ enc_containers' = [enc_containers EXCEPT ![turn] = new]
      /\ enc_to_send' = enc_to_send - 1
      /\ enc_gen_newest' = enc_gen_newest
      /\ enc_seqno' = EncNextSeqno
      /\ enc_repair_timer' = ~ (enc_to_send' >= 1)
  BY DEF EncGetCoded
<1>4. EncNextSeqno \in SeqNos
  <2>1. enc_seqno + 1 \in Int
    BY DEF EncInv, EncTypeOK, SeqNos
  <2>2. QED
    BY <2>1, SeqSpaceAssumption DEF EncNextSeqno, SeqNos
<1>5. /\ new \in EncContainers
      /\ new.rank = old.rank /\ new.to_send = old.to_send - 1
  <2>1. old \in [rank : 0 .. Symbols, sent : 0 .. Symbols, last_seqno : SeqNos, to_send : Nat]
    BY <1>1, <1>2 DEF EncContainers
  <2> HIDE DEF old, turn
  <2>2. SystematicSent(old.rank, old.sent) \in 0 .. Symbols
    BY <2>1, SymbolsAssumption DEF SystematicSent
  <2>3. old.to_send - 1 \in Nat
    BY <1>2, <2>1
  <2>4. new = [old EXCEPT !.to_send = old.to_send - 1, !.last_seqno = EncNextSeqno,
                          !.sent = SystematicSent(old.rank, old.sent)]
    BY DEF EncTaken
  <2> HIDE DEF new
  <2>5. QED
    BY <1>4, <2>1, <2>2, <2>3, <2>4 DEF EncContainers
<1> HIDE DEF new, old, turn
<1>6. enc_to_send' = enc_to_send + new.to_send - enc_containers[turn].to_send
  <2>1. old.to_send \in Int
    <3>1. old \in EncContainers
      BY <1>1, <1>2 DEF old
    <3>2. QED
      BY <3>1 DEF EncContainers
  <2>2. QED
    BY <1>1, <1>3, <1>5, <2>1 DEF old
<1>7. enc_repair_timer' \in BOOLEAN
  BY <1>3
<1>8. EncTypeOK' /\ EncPlanSum' /\ EncWindow'
  BY <1>2, <1>3, <1>4, <1>5, <1>6, <1>7, EncChangeOne DEF old
<1>9. EncNeverSilent'
  BY <1>3 DEF EncNeverSilent, EncHasCoded
<1>10. QED
  BY <1>8, <1>9 DEF EncInv

LEMMA EncRepairTimeoutInv ==
  ASSUME EncInv, EncRepairTimeout
  PROVE  EncInv'
<1>1. CASE EncActive = {}
  <2>1. /\ enc_repair_timer' = FALSE
        /\ UNCHANGED <<enc_containers, enc_to_send, enc_gen_newest, enc_seqno>>
    BY <1>1 DEF EncRepairTimeout
  <2>2. EncActive' = {}
    BY <1>1, <2>1 DEF EncActive
  <2>3. EncTypeOK'
    BY <2>1, Zenon DEF EncInv, EncTypeOK
  <2>4. EncPlanSum' /\ EncWindow'
    BY <2>1 DEF EncInv, EncPlanSum, EncWindow, EncActive
  <2>5. QED
    BY <2>2, <2>3, <2>4 DEF EncInv, EncNeverSilent
<1>2. CASE EncActive # {}
  <2> DEFINE g == Min(EncActive)
             old == enc_containers[g]
             new == [old EXCEPT !.to_send = @ + 1]
  <2>1. EncActive \subseteq Nat /\ enc_to_send \in Int /\ enc_seqno \in SeqNos
    BY DEF EncInv, EncTypeOK, EncActive, Generations
  <2>2. g \in EncActive
    BY <1>2, <2>1, MinProperty
  <2>3. /\ enc_containers' = [enc_containers EXCEPT ![g] = new]
        /\ enc_to_send' = enc_to_send + 1
        /\ enc_gen_newest' = enc_gen_newest /\ enc_seqno' = enc_seqno
        /\ enc_repair_timer' = TRUE
    BY <1>2 DEF EncRepairTimeout
  <2>4. old \in EncContainers
    BY <2>2 DEF EncInv, EncTypeOK, EncActive
  <2> HIDE DEF g, old
  <2>5. new \in EncContainers /\ new.rank = old.rank /\ new.to_send = old.to_send + 1
    BY <2>4 DEF EncContainers
  <2>6. old.to_send \in Nat
    BY <2>4 DEF EncContainers
  <2> HIDE DEF new
  <2>7. enc_to_send' = enc_to_send + new.to_send - enc_containers[g].to_send
    BY <2>1, <2>3, <2>5, <2>6 DEF old
  <2>8. enc_repair_timer' \in BOOLEAN /\ enc_seqno' \in SeqNos
    BY <2>1, <2>3, Zenon
  <2>9. EncTypeOK' /\ EncPlanSum' /\ EncWindow'
    BY <2>2, <2>3, <2>5, <2>7, <2>8, EncChangeOne DEF old
  <2>10. QED
    BY <2>3, <2>9 DEF EncInv, EncNeverSilent
<1>3. QED
  BY <1>1, <1>2

LEMMA EncPutFeedbackInv ==
  ASSUME EncInv, NEW fb \in Feedbacks, EncPutFeedback(fb)
  PROVE  EncInv'
<1> DEFINE kept == {g \in EncActive : g > fb.decoded}
           gone == EncActive \ kept
           accepted == EncAccepts(kept, fb)
           rest == kept \ accepted
<1>1. /\ EncTypeOK /\ EncPlanSum /\ EncWindow
      /\ IsFiniteSet(EncActive) /\ EncActive \subseteq Generations
      /\ enc_gen_newest \in Nat /\ enc_seqno \in SeqNos
      /\ \A h \in EncActive : enc_containers[h] \in EncContainers
  BY DEF EncInv, EncTypeOK, EncActive
<1>2. /\ enc_containers' = [g \in kept |->
                             IF g \in accepted
                             THEN [enc_containers[g] EXCEPT !.to_send = fb.missing[g]]
                             ELSE enc_containers[g]]
      /\ enc_gen_newest' = IF kept = {} THEN enc_gen_newest ELSE Max(kept)
      /\ enc_to_send' = enc_to_send - Cardinality(Planned(enc_containers, gone))
                          + Cardinality(Planned(enc_containers', accepted))
      /\ enc_repair_timer' = ~ (enc_to_send' >= 1)
      /\ enc_seqno' = enc_seqno
  BY DEF EncPutFeedback
<1>3. /\ fb.decoded \in Nat
      /\ \A g \in DOMAIN fb.missing : fb.missing[g] \in Nat
  BY RankSpaceAssumption DEF Feedbacks, RankDiffs
<1>4. /\ accepted \subseteq kept /\ accepted \subseteq DOMAIN fb.missing
      /\ \A g \in accepted : enc_containers[g].to_send = 0
  BY DEF EncAccepts
<1>5. /\ kept \subseteq EncActive /\ gone \subseteq EncActive /\ rest \subseteq EncActive
      /\ gone \cup kept = EncActive /\ gone \cap kept = {}
      /\ accepted \cup rest = kept /\ accepted \cap rest = {}
  BY <1>4
<1>6. /\ IsFiniteSet(kept) /\ IsFiniteSet(gone)
      /\ IsFiniteSet(accepted) /\ IsFiniteSet(rest)
  BY <1>1, <1>4, <1>5, FS_Subset
<1>7. EncActive' = kept /\ DOMAIN enc_containers' = kept
  BY <1>2 DEF EncActive
<1>8. kept # {} => Max(kept) = enc_gen_newest
  <2>1. SUFFICES ASSUME NEW g \in kept PROVE Max(kept) = enc_gen_newest
    OBVIOUS
  <2>2. enc_gen_newest \in EncActive
    BY EncNewest, <1>5
  <2>3. \A h \in EncActive : h \in Nat /\ h <= enc_gen_newest
    BY <1>1 DEF EncWindow, Generations
  <2>4. enc_gen_newest \in kept
    BY <1>1, <1>3, <2>2, <2>3
  <2>5. kept \subseteq Nat /\ \A h \in kept : h <= enc_gen_newest
    BY <2>3
  <2> HIDE DEF kept
  <2>6. QED
    BY <2>4, <2>5, MaxProperty
<1>9. enc_gen_newest' = enc_gen_newest
  BY <1>2, <1>8
<1>10. \A g \in kept : g \in Nat /\ g > fb.decoded /\ g .. enc_gen_newest \subseteq kept
  <2>1. SUFFICES ASSUME NEW g \in kept PROVE g \in Nat /\ g .. enc_gen_newest \subseteq kept
    OBVIOUS
  <2>2. g \in Nat /\ g > fb.decoded /\ g .. enc_gen_newest \subseteq EncActive
    BY <1>1 DEF EncWindow, Generations
  <2>3. QED
    BY <1>1, <1>3, <2>2
<1>11. \A g \in EncActive : enc_containers[g].to_send \in Nat
  BY <1>1 DEF EncContainers
<1>12. \A g \in kept : /\ enc_containers'[g] \in EncContainers
                       /\ enc_containers'[g].rank = enc_containers[g].rank
                       /\ enc_containers'[g].to_send \in Nat
                       /\ g \notin accepted => enc_containers'[g] = enc_containers[g]
  <2>1. SUFFICES ASSUME NEW g \in kept
                 PROVE  /\ enc_containers'[g] \in EncContainers
                        /\ enc_containers'[g].rank = enc_containers[g].rank
                        /\ g \notin accepted => enc_containers'[g] = enc_containers[g]
    BY DEF EncContainers
  <2>2. enc_containers[g] \in EncContainers
    BY <1>1, <1>5
  <2>3. CASE g \in accepted
    <3>1. fb.missing[g] \in Nat
      BY <1>3, <1>4, <2>3
    <3>2. enc_containers'[g] = [enc_containers[g] EXCEPT !.to_send = fb.missing[g]]
      BY <1>2, <2>3
    <3>3. QED
      BY <2>2, <2>3, <3>1, <3>2 DEF EncContainers
  <2>4. CASE g \notin accepted
    BY <1>2, <2>2, <2>4
  <2>5. QED
    BY <2>3, <2>4
<1> HIDE DEF kept, gone, accepted, rest
<1>13. /\ enc_to_send = Cardinality(Planned(enc_containers, gone))
                          + Cardinality(Planned(enc_containers, kept))
       /\ Cardinality(Planned(enc_containers, gone)) \in Nat
       /\ Cardinality(Planned(enc_containers, kept)) \in Nat
  BY <1>1, <1>5, <1>6, <1>11, PlannedUnion DEF EncPlanSum
<1>14. Planned(enc_containers, kept) = Planned(enc_containers, rest)
  <2>1. Planned(enc_containers, accepted) = {}
    BY <1>4 DEF Planned
  <2>2. Planned(enc_containers, accepted \cup rest) =
          Planned(enc_containers, accepted) \cup Planned(enc_containers, rest)
    BY DEF Planned
  <2>3. QED
    BY <1>5, <2>1, <2>2
<1>15. Planned(enc_containers', rest) = Planned(enc_containers, rest)
  <2>1. \A g \in rest : enc_containers'[g].to_send = enc_containers[g].to_send
    BY <1>5, <1>12
  <2>2. QED
    BY <2>1, PlannedSame
<1>16. /\ Cardinality(Planned(enc_containers', kept)) =
            Cardinality(Planned(enc_containers', accepted))
              + Cardinality(Planned(enc_containers', rest))
       /\ Cardinality(Planned(enc_containers', accepted)) \in Nat
       /\ Cardinality(Planned(enc_containers', rest)) \in Nat
  BY <1>5, <1>6, <1>12, PlannedUnion
<1>17. EncPlanSum'
  BY <1>2, <1>7, <1>13, <1>14, <1>15, <1>16 DEF EncPlanSum
<1>18. EncTypeOK'
  <2>1. enc_containers' \in [kept -> EncContainers]
    BY <1>2, <1>7, <1>12
  <2>2. enc_to_send' \in Int
    BY <1>2, <1>13, <1>16
  <2>3. enc_repair_timer' \in BOOLEAN
    BY <1>2
  <2>4. kept \subseteq Generations
    BY <1>1, <1>5
  <2>5. QED
    BY <1>1, <1>2, <1>6, <1>7, <1>9, <2>1, <2>2, <2>3, <2>4, Zenon DEF EncTypeOK
<1>19. EncNeverSilent'
  BY <1>2 DEF EncNeverSilent, EncHasCoded
<1>20. EncWindow'
  <2>1. Cardinality(kept) <= MaxContainers
    <3>1. /\ Cardinality(kept) <= Cardinality(EncActive)
          /\ Cardinality(kept) \in Nat /\ Cardinality(EncActive) \in Nat
          /\ Cardinality(EncActive) <= MaxContainers
      BY <1>1, <1>5, <1>6, FS_Subset, FS_CardinalityType DEF EncWindow
    <3>2. QED
      BY <3>1, MaxContainersAssumption
  <2>2. \A g \in kept : /\ g <= enc_gen_newest
                        /\ g < enc_gen_newest => enc_containers'[g].rank = Symbols
    BY <1>1, <1>5, <1>12 DEF EncWindow
  <2>3. QED
    BY <1>7, <1>9, <1>10, <2>1, <2>2 DEF EncWindow
<1>21. QED
  BY <1>17, <1>18, <1>19, <1>20 DEF EncInv

-----------------------------------------------------------------------------
LEMMA EncNextInv ==
  ASSUME EncInv, [EncNext(Feedbacks)]_encVars
  PROVE  EncInv'
<1>1. CASE EncPutSource
  BY <1>1, EncPutSourceInv
<1>2. ASSUME NEW vec \in Vectors, EncGetCoded(vec) PROVE EncInv'
  BY <1>2, EncGetCodedInv
<1>3. CASE EncRepairTimeout
  BY <1>3, EncRepairTimeoutInv
<1>4. ASSUME NEW fb \in Feedbacks, EncPutFeedback(fb) PROVE EncInv'
  BY <1>4, EncPutFeedbackInv
<1>5. CASE UNCHANGED encVars
  BY <1>5, Zenon DEF encVars, EncInv, EncTypeOK, EncPlanSum, EncNeverSilent, EncWindow,
                     EncActive, EncHasCoded
<1>6. QED
  BY <1>1, <1>2, <1>3, <1>4, <1>5 DEF EncNext

(* The invariants hold of every encoder, whatever reports it is given.     *)
THEOREM EncInvariant == EncSpec => []EncInv
<1>1. QED
  BY EncInitInv, EncNextInv, PTL DEF EncSpec

(* Type correctness of the encoder.                                        *)
THEOREM EncTypeCorrect == EncSpec => []EncTypeOK
<1>1. EncInv => EncTypeOK
  BY DEF EncInv
<1>2. QED
  BY <1>1, EncInvariant, PTL

(* to_send is at all times the sum of the plans of the containers.         *)
THEOREM EncSumCorrect == EncSpec => []EncPlanSum
<1>1. EncInv => EncPlanSum
  BY DEF EncInv
<1>2. QED
  BY <1>1, EncInvariant, PTL

(* The assertion of nck_codarq_enc_get_coded never fails.                  *)
THEOREM EncAssertionHolds == EncSpec => []EncAssertFound
  BY EncInvFound, EncInvariant, PTL

(* The encoder never falls silent while it holds a generation.             *)
THEOREM EncKeepsRepairing == EncSpec => []EncNeverSilent
<1>1. EncInv => EncNeverSilent
  BY DEF EncInv
<1>2. QED
  BY <1>1, EncInvariant, PTL

(* The open generations form a window of at most max_containers.           *)
THEOREM EncWindowCorrect == EncSpec => []EncWindow
<1>1. EncInv => EncWindow
  BY DEF EncInv
<1>2. QED
  BY <1>1, EncInvariant, PTL

-----------------------------------------------------------------------------
(* The decoder.                                                            *)

(* A container with all its symbols delivered is gone.                     *)
DecUndelivered == \A g \in DecActive : dec_containers[g].index < Symbols

(* Only the oldest open generation is ever delivered from.                 *)
DecInTurn ==
  \A g \in DecActive : g > dec_gen_oldest_deleted + 1 => dec_containers[g].index = 0

(* The inductive invariant: where the open generations lie decides that    *)
(* put_coded finds a container, and with the positions in them that        *)
(* get_source goes from slot to slot.                                      *)
DecInv == DecTypeOK /\ DecContiguous /\ DecUndelivered /\ DecInTurn

-----------------------------------------------------------------------------
(* The ends of the list of open generations.                               *)
LEMMA DecEnds ==
  ASSUME DecInv, DecActive # {}
  PROVE  /\ Min(DecActive) = dec_gen_oldest_deleted + 1
         /\ Max(DecActive) = dec_gen_newest
         /\ dec_gen_oldest_deleted + 1 \in DecActive
         /\ dec_gen_newest \in DecActive
<1>1. /\ dec_gen_oldest_deleted \in Nat /\ dec_gen_newest \in Nat
      /\ DecActive = (dec_gen_oldest_deleted + 1) .. dec_gen_newest
  BY DEF DecInv, DecTypeOK, DecContiguous
<1>2. /\ dec_gen_oldest_deleted + 1 \in DecActive /\ dec_gen_newest \in DecActive
      /\ DecActive \in SUBSET Nat
      /\ \A g \in DecActive : dec_gen_oldest_deleted + 1 <= g /\ g <= dec_gen_newest
  BY <1>1
<1>3. Max(DecActive) = dec_gen_newest
  BY <1>2, MaxProperty
<1>4. Min(DecActive) \in DecActive /\ Min(DecActive) <= dec_gen_oldest_deleted + 1
  BY <1>2, MinProperty
<1>5. Min(DecActive) = dec_gen_oldest_deleted + 1
  BY <1>1, <1>2, <1>4
<1>6. QED
  BY <1>2, <1>3, <1>5

LEMMA DecInitInv == DecInit => DecInv
<1> SUFFICES ASSUME DecInit PROVE DecInv
  OBVIOUS
<1>1. /\ DecActive = {1} /\ dec_containers = [g \in {1} |-> NewDecContainer]
      /\ dec_gen_newest = 1 /\ dec_gen_oldest_deleted = 0 /\ dec_last_seqno = 0
      /\ dec_has_feedback = FALSE /\ dec_fb_timer = FALSE /\ dec_lost = FALSE
  BY DEF DecInit, DecActive
<1>2. NewDecContainer \in DecContainers
  BY SpanType, SymbolsAssumption DEF NewDecContainer, DecContainers
<1>3. dec_last_seqno \in SeqNos
  BY <1>1, SeqSpaceAssumption DEF SeqNos
<1>4. DOMAIN dec_containers \subseteq Generations
  BY <1>1 DEF Generations
<1>5. dec_containers \in [DOMAIN dec_containers -> DecContainers]
  BY <1>1, <1>2
<1>6. dec_gen_newest \in Nat /\ dec_gen_oldest_deleted \in Nat
  BY <1>1
<1>7. dec_has_feedback \in BOOLEAN /\ dec_fb_timer \in BOOLEAN /\ dec_lost \in BOOLEAN
  BY <1>1, Zenon
<1>8. DecTypeOK
  BY <1>3, <1>4, <1>5, <1>6, <1>7, Zenon DEF DecTypeOK
<1>9. DecContiguous
  BY <1>1 DEF DecContiguous
<1>10. DecUndelivered /\ DecInTurn
  BY <1>1, SymbolsAssumption DEF DecUndelivered, DecInTurn, NewDecContainer
<1>11. QED
  BY <1>8, <1>9, <1>10 DEF DecInv

-----------------------------------------------------------------------------
(* A container after a packet was read into it.                            *)
LEMMA DecReadType ==
  ASSUME NEW c \in DecContainers, NEW pkt \in CodedPackets
  PROVE  DecRead(c, pkt) \in DecContainers /\ DecRead(c, pkt).index = c.index
<1>1. /\ pkt.rank \in 0 .. Symbols /\ pkt.vec \in Vectors
  BY DEF CodedPackets
<1> DEFINE s == IF Rank(c.span) < Symbols THEN ReadPayload(c.span, pkt.vec) ELSE c.span
<1>2. s \in SUBSET Vectors
  BY <1>1, SpanType DEF DecContainers
<1>3. DecRead(c, pkt) = [c EXCEPT !.enc_rank = pkt.rank, !.span = s]
  BY DEF DecRead
<1> HIDE DEF s
<1>4. QED
  BY <1>1, <1>2, <1>3 DEF DecContainers

(* The list after the loop of put_coded: consecutive again, and it ends    *)
(* with the generation of the packet if that is a new one.                 *)
LEMMA DecOpenedList ==
  ASSUME DecInv, NEW gen \in Generations,
         gen > dec_gen_oldest_deleted, DecFindsContainer(gen)
  PROVE  LET conts == DecWithOpened(DecOpened(gen))
             newest == IF gen \in DecActive THEN dec_gen_newest ELSE gen
         IN  /\ DOMAIN conts = (dec_gen_oldest_deleted + 1) .. newest
             /\ gen \in DOMAIN conts /\ newest \in Nat
             /\ dec_gen_oldest_deleted <= newest /\ dec_gen_newest <= newest
             /\ Max(DOMAIN conts) = newest
             /\ \A g \in DOMAIN conts :
                  /\ conts[g] \in DecContainers
                  /\ conts[g].index =
                       IF g \in DecActive THEN dec_containers[g].index ELSE 0
<1> DEFINE opened == DecOpened(gen)
           conts == DecWithOpened(opened)
           newest == IF gen \in DecActive THEN dec_gen_newest ELSE gen
<1>1. /\ dec_gen_oldest_deleted \in Nat /\ dec_gen_newest \in Nat /\ gen \in Nat \ {0}
      /\ DecActive = (dec_gen_oldest_deleted + 1) .. dec_gen_newest
      /\ dec_gen_oldest_deleted <= dec_gen_newest
      /\ \A g \in DecActive : dec_containers[g] \in DecContainers
  BY DEF DecInv, DecTypeOK, DecContiguous, DecActive, Generations
<1>2. DOMAIN conts = DecActive \cup opened
  BY DEF DecWithOpened
<1>3. /\ DecActive \cup opened = (dec_gen_oldest_deleted + 1) .. newest
      /\ DecActive \cap opened = {}
      /\ gen \in DecActive \cup opened
      /\ newest \in Nat /\ dec_gen_newest <= newest
  <2>1. CASE gen \in DecActive
    BY <1>1, <2>1 DEF DecOpened
  <2>2. CASE gen \notin DecActive
    <3>1. opened = (dec_gen_newest + 1) .. gen /\ gen > dec_gen_newest
      BY <2>2 DEF DecOpened, DecFindsContainer
    <3>2. QED
      BY <1>1, <2>2, <3>1
  <2>3. QED
    BY <2>1, <2>2
<1> HIDE DEF opened
<1>4. NewDecContainer \in DecContainers /\ NewDecContainer.index = 0
  BY SpanType, SymbolsAssumption DEF NewDecContainer, DecContainers
<1>5. ASSUME NEW g \in DOMAIN conts
      PROVE  /\ conts[g] \in DecContainers
             /\ conts[g].index = IF g \in DecActive THEN dec_containers[g].index ELSE 0
  <2>1. CASE g \in opened
    BY <1>2, <1>3, <1>4, <2>1 DEF DecWithOpened
  <2>2. CASE g \notin opened
    <3>1. g \in DecActive
      BY <1>2, <2>2
    <3>2. \/ conts[g] = [dec_containers[g] EXCEPT !.enc_rank = Symbols]
          \/ conts[g] = dec_containers[g]
      BY <1>2, <2>2 DEF DecWithOpened
    <3>3. dec_containers[g] \in DecContainers
      BY <1>1, <3>1
    <3>4. QED
      BY <3>1, <3>2, <3>3, SymbolsAssumption DEF DecContainers
  <2>3. QED
    BY <2>1, <2>2
<1> HIDE DEF conts, newest
<1>6. Max(DOMAIN conts) = newest
  <2>1. newest \in DOMAIN conts /\ DOMAIN conts \in SUBSET Nat
    BY <1>1, <1>2, <1>3
  <2>2. \A g \in DOMAIN conts : g <= newest
    BY <1>1, <1>2, <1>3
  <2>3. QED
    BY <2>1, <2>2, MaxProperty
<1>7. dec_gen_oldest_deleted <= newest
  BY <1>1, <1>3
<1>8. QED
  BY <1>2, <1>3, <1>5, <1>6, <1>7 DEF conts, newest, opened

-----------------------------------------------------------------------------
(* put_coded, with what the link needs besides the invariant.              *)
LEMMA DecPutCodedInv ==
  ASSUME DecInv, NEW pkt \in CodedPackets, DecPutCoded(pkt)
  PROVE  /\ DecInv'
         /\ dec_gen_oldest_deleted' = dec_gen_oldest_deleted
         /\ \/ dec_gen_newest' = dec_gen_newest
            \/ dec_gen_newest' = pkt.generation
         /\ DecPosition' = DecPosition
<1> DEFINE gen == pkt.generation
           opened == DecWithOpened(DecOpened(gen))
<1>1. /\ gen \in Generations /\ pkt.seqno \in SeqNos
      /\ dec_last_seqno \in SeqNos
      /\ dec_has_feedback \in BOOLEAN /\ dec_fb_timer \in BOOLEAN /\ ~ dec_lost
      /\ DecTypeOK /\ DecContiguous /\ DecUndelivered /\ DecInTurn
  BY DEF CodedPackets, DecInv, DecTypeOK, DecPutCoded
<1>2. dec_last_seqno' \in SeqNos /\ dec_gen_oldest_deleted' = dec_gen_oldest_deleted
  BY <1>1 DEF DecPutCoded
<1>3. CASE gen <= dec_gen_oldest_deleted
  <2>1. /\ UNCHANGED <<dec_containers, dec_gen_newest, dec_fb_timer, dec_lost>>
        /\ dec_has_feedback' = TRUE
    BY <1>1, <1>3 DEF DecPutCoded, DecTypeOK, Generations
  <2>2. DecTypeOK'
    BY <1>1, <1>2, <2>1, Zenon DEF DecTypeOK
  <2>3. DecContiguous' /\ DecUndelivered' /\ DecInTurn' /\ DecPosition' = DecPosition
    BY <1>1, <1>2, <2>1 DEF DecContiguous, DecUndelivered, DecInTurn, DecPosition, DecActive
  <2>4. QED
    BY <1>2, <2>1, <2>2, <2>3 DEF DecInv
<1>4. CASE gen > dec_gen_oldest_deleted
  <2>1. DecFindsContainer(gen)
    BY <1>1, <1>4 DEF DecFindsContainer, DecContiguous, DecTypeOK, Generations
  <2>2. /\ dec_containers' = [opened EXCEPT ![gen] = DecRead(@, pkt)]
        /\ dec_gen_newest' = Max(DOMAIN opened)
        /\ dec_has_feedback' = TRUE
        /\ dec_fb_timer' = (dec_fb_timer \/ FbTimeout)
        /\ UNCHANGED dec_lost
    BY <1>1, <1>4, <2>1 DEF DecPutCoded, DecTypeOK, Generations
  <2> DEFINE newest == IF gen \in DecActive THEN dec_gen_newest ELSE gen
  <2>3. /\ DOMAIN opened = (dec_gen_oldest_deleted + 1) .. newest
        /\ gen \in DOMAIN opened /\ newest \in Nat
        /\ dec_gen_oldest_deleted <= newest
        /\ Max(DOMAIN opened) = newest
        /\ \A g \in DOMAIN opened :
             /\ opened[g] \in DecContainers
             /\ opened[g].index = IF g \in DecActive THEN dec_containers[g].index ELSE 0
    BY <1>1, <1>4, <2>1, DecOpenedList
  <2> HIDE DEF opened
  <2>4. /\ DOMAIN dec_containers' = DOMAIN opened /\ DecActive' = DOMAIN opened
        /\ \A g \in DOMAIN opened :
             /\ g # gen => dec_containers'[g] = opened[g]
             /\ g = gen => dec_containers'[g] = DecRead(opened[g], pkt)
    BY <2>2 DEF DecActive
  <2>5. ASSUME NEW g \in DOMAIN opened
        PROVE  /\ dec_containers'[g] \in DecContainers
               /\ dec_containers'[g].index =
                    IF g \in DecActive THEN dec_containers[g].index ELSE 0
    BY <2>3, <2>4, DecReadType
  <2>6. dec_gen_newest' = newest
    BY <2>2, <2>3
  <2>7. DecTypeOK'
    <3>1. dec_containers' \in [DOMAIN opened -> DecContainers]
      BY <2>2, <2>4, <2>5
    <3>2. DOMAIN opened \subseteq Generations
      BY <1>1, <2>3 DEF DecTypeOK, Generations
    <3>3. dec_fb_timer' \in BOOLEAN
      BY <2>2
    <3>4. QED
      BY <1>1, <1>2, <2>2, <2>3, <2>4, <2>6, <3>1, <3>2, <3>3, Zenon DEF DecTypeOK
  <2>8. DecContiguous'
    BY <1>1, <1>2, <2>2, <2>3, <2>4, <2>6 DEF DecContiguous
  <2>9. DecUndelivered'
    BY <1>1, <2>4, <2>5, SymbolsAssumption DEF DecUndelivered
  <2>10. DecInTurn'
    BY <1>1, <1>2, <2>4, <2>5 DEF DecInTurn
  <2>11. DecPosition' = DecPosition
    <3>1. DecInv' /\ DecActive' # {}
      BY <2>3, <2>4, <2>7, <2>8, <2>9, <2>10 DEF DecInv
    <3>2. Min(DecActive') = dec_gen_oldest_deleted + 1 /\ Min(DecActive') \in DOMAIN opened
      <4>1. DecActive' \in SUBSET Nat
        BY <1>1, <2>3, <2>4 DEF DecTypeOK
      <4>2. /\ dec_gen_oldest_deleted + 1 \in DecActive'
            /\ \A g \in DecActive' : dec_gen_oldest_deleted + 1 <= g
        BY <1>1, <2>3, <2>4 DEF DecTypeOK, Generations
      <4>3. Min(DecActive') \in DecActive' /\ Min(DecActive') <= dec_gen_oldest_deleted + 1
        BY <4>1, <4>2, MinProperty
      <4>4. QED
        BY <1>1, <2>4, <4>1, <4>2, <4>3 DEF DecTypeOK
    <3>3. CASE DecActive = {}
      BY <1>2, <2>5, <3>1, <3>2, <3>3 DEF DecPosition
    <3>4. CASE DecActive # {}
      <4>1. Min(DecActive) = dec_gen_oldest_deleted + 1 /\ Min(DecActive) \in DecActive
        BY <3>4, DecEnds
      <4>2. QED
        BY <1>2, <2>5, <3>1, <3>2, <3>4, <4>1 DEF DecPosition
    <3>5. QED
      BY <3>3, <3>4
  <2>12. QED
    BY <1>2, <2>6, <2>7, <2>8, <2>9, <2>10, <2>11 DEF DecInv
<1>5. QED
  BY <1>1, <1>3, <1>4 DEF DecTypeOK, Generations

(* get_source: one slot further, and the list loses its first generation   *)
(* exactly when that generation is through.                                *)
LEMMA DecGetSourceInv ==
  ASSUME DecInv, DecGetSource
  PROVE  /\ DecInv'
         /\ dec_gen_newest' = dec_gen_newest
         /\ dec_gen_oldest_deleted <= dec_gen_oldest_deleted'
         /\ DecPosition' = DecPosition + 1
<1> DEFINE oldest == Min(DecActive)
           index == dec_containers[oldest].index + 1
           rest == DecActive \ {oldest}
<1>1. /\ DecTypeOK /\ DecContiguous /\ DecUndelivered /\ DecInTurn
      /\ dec_gen_oldest_deleted \in Nat /\ dec_gen_newest \in Nat
      /\ DecActive = (dec_gen_oldest_deleted + 1) .. dec_gen_newest
      /\ DecActive # {} /\ DecActive \subseteq Generations
      /\ \A g \in DecActive : dec_containers[g] \in DecContainers
      /\ dec_containers \in [DecActive -> DecContainers]
      /\ UNCHANGED <<dec_last_seqno, dec_has_feedback, dec_fb_timer, dec_lost>>
  BY DEF DecInv, DecTypeOK, DecContiguous, DecActive, DecGetSource, DecHasSource
<1>2. oldest = dec_gen_oldest_deleted + 1 /\ oldest \in DecActive
      /\ dec_gen_newest \in DecActive
  BY <1>1, DecEnds
<1>3. index \in 1 .. Symbols /\ dec_containers[oldest].index \in Nat
  <2>1. dec_containers[oldest] \in DecContainers /\ dec_containers[oldest].index < Symbols
    BY <1>1, <1>2 DEF DecUndelivered
  <2> HIDE DEF oldest
  <2>2. QED
    BY <2>1, SymbolsAssumption DEF DecContainers
<1>4. DecPosition = dec_gen_oldest_deleted * Symbols + dec_containers[oldest].index
  BY <1>1 DEF DecPosition
<1>5. CASE index = Symbols
  <2>1. /\ dec_containers' = [g \in rest |-> dec_containers[g]]
        /\ dec_gen_oldest_deleted' = oldest
        /\ dec_gen_newest' = IF rest = {} THEN dec_gen_newest ELSE Max(rest)
    BY <1>5 DEF DecGetSource, DecDrained
  <2>2. rest = (oldest + 1) .. dec_gen_newest /\ rest \subseteq DecActive
    BY <1>1, <1>2
  <2>3. dec_gen_newest' = dec_gen_newest
    <3>1. CASE rest # {}
      <4>1. /\ rest \in SUBSET Nat /\ dec_gen_newest \in rest
            /\ \A g \in rest : g <= dec_gen_newest
        BY <1>1, <1>2, <2>2, <3>1
      <4> HIDE DEF rest
      <4>2. QED
        BY <2>1, <3>1, <4>1, MaxProperty
    <3>2. QED
      BY <2>1, <3>1
  <2>4. DecActive' = rest /\ DOMAIN dec_containers' = rest
        /\ \A g \in rest : dec_containers'[g] = dec_containers[g]
    BY <2>1 DEF DecActive
  <2> HIDE DEF rest
  <2>5. DecTypeOK'
    <3>1. dec_containers' \in [rest -> DecContainers]
      BY <1>1, <2>1, <2>2
    <3>2. rest \subseteq Generations /\ oldest \in Nat
      BY <1>1, <1>2, <2>2
    <3>3. QED
      BY <1>1, <2>1, <2>3, <2>4, <3>1, <3>2, Zenon DEF DecTypeOK
  <2>6. DecContiguous'
    BY <1>1, <1>2, <2>1, <2>2, <2>3, <2>4 DEF DecContiguous
  <2>7. \A g \in rest : dec_containers'[g].index = 0
    BY <1>1, <1>2, <2>2, <2>4 DEF DecInTurn
  <2>8. DecUndelivered' /\ DecInTurn'
    BY <2>4, <2>7, SymbolsAssumption DEF DecUndelivered, DecInTurn
  <2>9. DecPosition' = oldest * Symbols
    <3>1. CASE rest = {}
      <4>1. DecPosition' = oldest * Symbols + 0
        BY <2>1, <2>4, <3>1 DEF DecPosition
      <4>2. oldest * Symbols \in Nat
        BY <1>1, <1>2, SymbolsAssumption
      <4>3. QED
        BY <4>1, <4>2
    <3>2. CASE rest # {}
      <4>1. Min(rest) \in rest
        BY <1>1, <2>2, <3>2, MinProperty DEF Generations
      <4>2. DecPosition' = oldest * Symbols + 0
        BY <2>1, <2>4, <2>7, <3>2, <4>1 DEF DecPosition
      <4>3. oldest * Symbols \in Nat
        BY <1>1, <1>2, SymbolsAssumption
      <4>4. QED
        BY <4>2, <4>3
    <3>3. QED
      BY <3>1, <3>2
  <2>10. oldest * Symbols = dec_gen_oldest_deleted * Symbols + Symbols
    <3>1. \A a, b \in Nat : (a + 1) * b = a * b + b
      OBVIOUS
    <3>2. QED
      BY <1>1, <1>2, <3>1, SymbolsAssumption
  <2>11. DecPosition' = DecPosition + 1
    <3>1. dec_gen_oldest_deleted * Symbols \in Nat
      BY <1>1, SymbolsAssumption
    <3> HIDE DEF oldest
    <3>2. QED
      BY <1>3, <1>4, <1>5, <2>9, <2>10, <3>1
  <2>12. dec_gen_oldest_deleted <= dec_gen_oldest_deleted'
    BY <1>1, <1>2, <2>1
  <2>13. QED
    BY <2>3, <2>5, <2>6, <2>8, <2>11, <2>12 DEF DecInv
<1>6. CASE index # Symbols
  <2>1. /\ dec_containers' = [dec_containers EXCEPT ![oldest].index = index]
        /\ UNCHANGED <<dec_gen_oldest_deleted, dec_gen_newest>>
    BY <1>6 DEF DecGetSource, DecDrained
  <2> DEFINE new == [dec_containers[oldest] EXCEPT !.index = index]
  <2>2. dec_containers' = [dec_containers EXCEPT ![oldest] = new]
    BY <2>1
  <2>3. new \in DecContainers /\ new.index = index
    <3>1. dec_containers[oldest] \in DecContainers
      BY <1>1, <1>2
    <3>2. index \in 0 .. Symbols
      BY <1>3
    <3> HIDE DEF oldest, index
    <3>3. QED
      BY <3>1, <3>2 DEF DecContainers
  <2> HIDE DEF new, index, oldest
  <2>4. /\ DecActive' = DecActive /\ DOMAIN dec_containers' = DecActive
        /\ dec_containers'[oldest] = new
        /\ \A g \in DecActive : g # oldest => dec_containers'[g] = dec_containers[g]
        /\ dec_containers' \in [DecActive -> DecContainers]
    BY <1>1, <1>2, <2>2, <2>3 DEF DecActive
  <2>5. DecTypeOK'
    BY <1>1, <2>1, <2>4, Zenon DEF DecTypeOK
  <2>6. DecContiguous'
    BY <1>1, <2>1, <2>4 DEF DecContiguous
  <2>7. DecUndelivered'
    BY <1>1, <1>3, <1>6, <2>3, <2>4, SymbolsAssumption DEF DecUndelivered
  <2>8. DecInTurn'
    BY <1>1, <1>2, <2>1, <2>4 DEF DecInTurn
  <2>9. DecPosition' = dec_gen_oldest_deleted * Symbols + index
    BY <1>1, <2>1, <2>3, <2>4 DEF DecPosition, oldest
  <2>10. DecPosition' = DecPosition + 1
    <3>1. dec_gen_oldest_deleted * Symbols \in Nat
      BY <1>1, SymbolsAssumption
    <3>2. index = dec_containers[oldest].index + 1
      BY DEF index
    <3>3. QED
      BY <1>3, <1>4, <2>9, <3>1, <3>2
  <2>11. QED
    BY <1>1, <2>1, <2>5, <2>6, <2>7, <2>8, <2>10 DEF DecInv
<1>7. QED
  BY <1>5, <1>6

(* The calls that touch only the feedback flag and the timer.              *)
LEMMA DecFeedbackInv ==
  ASSUME DecInv,
         DecSendFeedback \/ DecGetFeedback \/ UNCHANGED decVars
  PROVE  /\ DecInv'
         /\ UNCHANGED <<dec_containers, dec_gen_newest, dec_gen_oldest_deleted>>
         /\ DecPosition' = DecPosition
<1>1. /\ UNCHANGED <<dec_containers, dec_gen_newest, dec_gen_oldest_deleted,
                     dec_last_seqno, dec_lost>>
  BY DEF DecSendFeedback, DecGetFeedback, decVars
<1>2. dec_has_feedback' \in BOOLEAN /\ dec_fb_timer' \in BOOLEAN
  BY DEF DecInv, DecTypeOK, DecSendFeedback, DecGetFeedback, decVars
<1>3. DecTypeOK'
  BY <1>1, <1>2, Zenon DEF DecInv, DecTypeOK
<1>4. /\ DecContiguous' /\ DecUndelivered' /\ DecInTurn'
      /\ DecPosition' = DecPosition
  BY <1>1 DEF DecInv, DecContiguous, DecUndelivered, DecInTurn, DecPosition, DecActive
<1>5. QED
  BY <1>1, <1>3, <1>4 DEF DecInv

-----------------------------------------------------------------------------
(* Every step keeps the invariant, and get_source is the only one that     *)
(* moves the position, by one slot.                                        *)
LEMMA DecNextInv ==
  ASSUME DecInv, [DecNext(CodedPackets)]_decVars
  PROVE  DecInv' /\ (DecPosition' = DecPosition \/ (DecGetSource /\ DecPosition' = DecPosition + 1))
<1>1. ASSUME NEW pkt \in CodedPackets, DecPutCoded(pkt)
      PROVE  DecInv' /\ DecPosition' = DecPosition
  BY <1>1, DecPutCodedInv
<1>2. CASE DecGetSource
  BY <1>2, DecGetSourceInv
<1>3. CASE DecSendFeedback \/ DecGetFeedback \/ UNCHANGED decVars
  BY <1>3, DecFeedbackInv
<1>4. QED
  BY <1>1, <1>2, <1>3 DEF DecNext

(* The invariants hold of every decoder, whatever packets it is given.     *)
THEOREM DecInvariant == DecSpec => []DecInv
<1>1. DecInv /\ [DecNext(CodedPackets)]_decVars => DecInv'
  BY DecNextInv
<1>2. QED
  BY <1>1, DecInitInv, PTL DEF DecSpec

(* Type correctness of the decoder.                                        *)
THEOREM DecTypeCorrect == DecSpec => []DecTypeOK
<1>1. DecInv => DecTypeOK
  BY DEF DecInv
<1>2. QED
  BY <1>1, DecInvariant, PTL

(* The assertion of nck_codarq_dec_put_coded never fails and its loop      *)
(* always ends, because the open generations are consecutive.              *)
THEOREM DecAlwaysFinds == DecSpec => []DecContiguous
<1>1. DecInv => DecContiguous
  BY DEF DecInv
<1>2. QED
  BY <1>1, DecInvariant, PTL

(* The decoder delivers slot by slot.                                      *)
THEOREM DecInOrder == DecSpec => DecSlotBySlot
<1>1. DecInv /\ [DecNext(CodedPackets)]_decVars =>
        [DecPosition' = DecPosition + (IF DecGetSource THEN 1 ELSE 0)]_decVars
  <2>1. SUFFICES ASSUME DecInv, [DecNext(CodedPackets)]_decVars, ~ UNCHANGED decVars
                 PROVE  DecPosition' = DecPosition + (IF DecGetSource THEN 1 ELSE 0)
    OBVIOUS
  <2>2. DecPosition \in Nat
    <3>1. CASE DecActive = {}
      BY <2>1, <3>1, SymbolsAssumption DEF DecPosition, DecInv, DecTypeOK
    <3>2. CASE DecActive # {}
      <4>1. dec_containers[Min(DecActive)] \in DecContainers
        BY <2>1, <3>2, DecEnds DEF DecInv, DecTypeOK, DecActive
      <4>2. dec_containers[Min(DecActive)].index \in Nat
        BY <4>1 DEF DecContainers
      <4>3. dec_gen_oldest_deleted * Symbols \in Nat
        BY <2>1, SymbolsAssumption DEF DecInv, DecTypeOK
      <4>4. QED
        BY <3>2, <4>2, <4>3 DEF DecPosition
    <3>3. QED
      BY <3>1, <3>2
  <2>3. CASE DecGetSource
    BY <2>1, <2>3, DecGetSourceInv
  <2>4. CASE ~ DecGetSource
    BY <2>1, <2>2, <2>4, DecNextInv
  <2>5. QED
    BY <2>3, <2>4
<1>2. QED
  BY <1>1, DecInvariant, PTL DEF DecSpec, DecSlotBySlot

=============================================================================
