---------------------------- MODULE NckNet_proof ----------------------------
(***************************************************************************)
(* Theorems about NckNet: for the networks of GSAW, NOACK and PACE, which  *)
(* send one generation after the other (Successive), from the folds over   *)
(* sets on for those of Tetrys (Elastic), and at the end for those of      *)
(* NOCODE whose paths keep the order (Buffering).                          *)
(***************************************************************************)
EXTENDS NckNet, RlncLemmas

Slots == Generations \X Indices

(* The networks: GSAW has no recoder, and credits are whole packets.       *)
Successive(o) ==
  /\ o.protocol \in {"gsaw", "noack", "pace"}
  /\ o.protocol = "gsaw" => ~o.relay
  /\ o.redundancy \in Nat

Packets == [generation : Generations, rank : 0 .. Symbols, vec : Vectors]

-----------------------------------------------------------------------------
(* The invariant.  Slots ascend, and a vector combines symbols that were   *)
(* put in, those of the set known.                                         *)
Ascends(slots) == \A i, j \in DOMAIN slots : i < j => Before(slots[i], slots[j])

Origin(generation, vec, known) == SlotsOf(generation, vec) \subseteq known

SpanOrigin(d, known) == \A v \in d.span : Origin(d.generation, v, known)

(* The sender: its next slot is a new one.                                 *)
EncOk(e) ==
  /\ {"protocol", "generation", "rank", "sent"} \subseteq DOMAIN e
  /\ e.protocol = opt.protocol
  /\ e.generation \in Generations /\ e.rank \in 0 .. Symbols /\ e.sent \in Nat
  /\ e.protocol # "pace" =>
       /\ {"full", "complete", "limit"} \subseteq DOMAIN e
       /\ e.full \in BOOLEAN /\ e.complete \in BOOLEAN
       /\ e.rank = Symbols => e.full \/ e.complete
  /\ e.protocol = "pace" => "to_send" \in DOMAIN e
  /\ e.protocol = "noack" => e.limit \in Int /\ e.redundancy = opt.redundancy
                             /\ "redundancy" \in DOMAIN e

SentOk ==
  /\ sent \in Seq(Slots) /\ Ascends(sent) /\ Len(sent) <= opt.source
  /\ \A n \in DOMAIN sent : \/ sent[n] = <<enc.generation, enc.rank>>
                            \/ Before(sent[n], <<enc.generation, enc.rank>>)
  /\ SlotsOf(enc.generation, 1 .. enc.rank) \subseteq Range(sent)

(* Decoders and recoders.                                                  *)
CoderFields == {"protocol", "generation", "span", "index", "flush", "queue", "read", "eager"}

Coder(d) ==
  /\ CoderFields \subseteq DOMAIN d /\ d = [x \in DOMAIN d |-> d[x]]
  /\ d.protocol = opt.protocol
  /\ d.generation \in Nat /\ d.span \in SUBSET Vectors /\ d.index \in 0 .. Symbols
  /\ d.flush \in BOOLEAN /\ d.queue \in Seq(Slots) /\ d.read \in Seq(Slots)

(* What was handed out, what is queued and what is yet to come ascend.     *)
InTurn(d) ==
  /\ Ascends(d.read) /\ Ascends(d.queue)
  /\ \A s \in Range(d.read), t \in Range(d.queue) : Before(s, t)
  /\ \A s \in Range(d.read) \cup Range(d.queue) : Before(s, <<d.generation, d.index + 1>>)

(* A decoder that was flushed stands at a decoded symbol or at the end.    *)
Aligned(d) == d.index = Symbols \/ {d.index + 1} \in d.span

DecOk(d, known) ==
  /\ Coder(d) /\ InTurn(d) /\ SpanOrigin(d, known)
  /\ Range(d.read) \cup Range(d.queue) \subseteq known
  /\ d.flush => Aligned(d)
  /\ d.protocol = "gsaw" => d.queue = <<>>

(* PACE's decoder and recoder count their rank and report it.  A report    *)
(* stays true: spans grow, and generations are left for later ones.        *)
Tells(c, fb) ==
  \/ c.generation > fb.generation
  \/ c.generation = fb.generation /\ Rank(c.span) >= fb.rank

RatedFields == {"rank", "feedback_generation", "feedback_rank"}

Rated(c) ==
  /\ RatedFields \subseteq DOMAIN c /\ c.rank \in 0 .. Symbols /\ c.rank <= Rank(c.span)
  /\ c.feedback_generation \in Nat /\ c.feedback_rank \in 0 .. Symbols
  /\ HasReport(c) => Tells(c, ReportOf(c))

RecCore(r, known) == Coder(r) /\ SpanOrigin(r, known) /\ r.generation \in Generations

RecOk(r, known) == RecCore(r, known) /\ (r.protocol = "pace" => Rated(r))

Reports == [generation : Nat, rank : 0 .. Symbols]

FeedbackOk ==
  /\ dec.generation \in Generations /\ Rated(dec)
  /\ back \in Seq(Reports) /\ \A fb \in Range(back) : Tells(dec, fb)
  /\ echo \in Seq(Reports) /\ \A fb \in Range(echo) : opt.relay /\ Tells(rec, fb)

PathsOk ==
  /\ down \in Seq(Packets) /\ air \in Seq(Packets)
  /\ \A p \in Range(down) \cup Range(air) : Origin(p.generation, p.vec, Range(sent))
  /\ opt.protocol = "noack" => back = <<>> /\ echo = <<>>
  /\ opt.protocol = "pace" => FeedbackOk

NetInv ==
  /\ opt \in Options
  /\ EncOk(enc) /\ SentOk
  /\ DecOk(dec, Range(sent))
  /\ opt.relay => RecOk(rec, Range(sent))
  /\ PathsOk

-----------------------------------------------------------------------------
(* The members of a finite set of numbers, the smallest first, are all of  *)
(* them, each once.                                                        *)
LEMMA InOrderMembers ==
  ASSUME NEW S \in SUBSET Nat, IsFiniteSet(S)
  PROVE  /\ InOrder(S) \in Seq(S) /\ Len(InOrder(S)) = Cardinality(S)
         /\ \A n, m \in DOMAIN InOrder(S) : n < m => InOrder(S)[n] < InOrder(S)[m]
         /\ Range(InOrder(S)) = S
<1> DEFINE N == Cardinality(S)
           upto(i) == {j \in S : j <= i}
           count == [i \in S |-> Cardinality(upto(i))]
<1>1. N \in Nat
  BY FS_CardinalityType
<1>2. ASSUME NEW i \in S
      PROVE  IsFiniteSet(upto(i)) /\ count[i] \in 1 .. N
  <2>1. upto(i) \subseteq S /\ {i} \subseteq upto(i)
    OBVIOUS
  <2>2. IsFiniteSet(upto(i)) /\ Cardinality(upto(i)) <= N
    BY <2>1, FS_Subset
  <2>3. Cardinality({i}) = 1 /\ Cardinality({i}) <= Cardinality(upto(i))
    BY <2>1, <2>2, FS_Subset, FS_Singleton
  <2>4. Cardinality(upto(i)) \in Nat
    BY <2>2, FS_CardinalityType
  <2> HIDE DEF N, upto
  <2> QED
    BY <1>1, <2>2, <2>3, <2>4
<1>3. ASSUME NEW i \in S, NEW j \in S, i < j PROVE count[i] < count[j]
  <2>1. upto(i) \subseteq upto(j) \ {j} /\ j \in upto(j)
    <3>1. \A x \in S : x \in Nat
      OBVIOUS
    <3>2. ASSUME NEW x \in upto(i) PROVE x \in upto(j) /\ x # j
      <4>1. x \in S /\ x <= i
        OBVIOUS
      <4> QED
        BY <1>3, <3>1, <4>1
    <3>3. j \in upto(j)
      BY <3>1
    <3> HIDE DEF upto
    <3> QED
      BY <3>2, <3>3
  <2>2. IsFiniteSet(upto(j) \ {j}) /\ Cardinality(upto(j) \ {j}) = Cardinality(upto(j)) - 1
    BY <1>2, <2>1, FS_RemoveElement
  <2>3. Cardinality(upto(i)) <= Cardinality(upto(j) \ {j})
    BY <2>1, <2>2, FS_Subset
  <2>4. count[i] \in Nat /\ count[j] \in Nat
    BY <1>1, <1>2
  <2>5. count[i] <= count[j] - 1
    BY <2>2, <2>3
  <2> HIDE DEF count
  <2> QED
    BY <2>4, <2>5
<1>4. \A i, j \in S : count[i] = count[j] => i = j
  <2> SUFFICES ASSUME NEW i \in S, NEW j \in S, i # j PROVE count[i] # count[j]
    OBVIOUS
  <2>1. i < j \/ j < i
    OBVIOUS
  <2>2. count[i] \in Nat /\ count[j] \in Nat
    BY <1>1, <1>2
  <2> HIDE DEF count
  <2> QED
    BY <1>3, <2>1, <2>2
<1>5. ASSUME NEW n \in 1 .. N PROVE \E i \in S : count[i] = n
  <2> SUFFICES ASSUME \A i \in S : count[i] # n PROVE FALSE
    OBVIOUS
  <2> DEFINE T == 1 .. N \ {n}
  <2>1. IsFiniteSet(1 .. N) /\ Cardinality(1 .. N) = N
    BY <1>1, FS_Interval
  <2>2. IsFiniteSet(T) /\ Cardinality(T) = N - 1
    BY <2>1, FS_RemoveElement
  <2>3. count \in [S -> T]
    BY <1>2
  <2> HIDE DEF count, T
  <2>4. Cardinality(T) < Cardinality(S)
    BY <1>1, <2>2
  <2>5. \E x, y \in S : x # y /\ count[x] = count[y]
    BY <2>2, <2>3, <2>4, FS_PigeonHole
  <2> QED
    BY <1>4, <2>5
<1> DEFINE s == InOrder(S)
<1> DEFINE nth(n) == CHOOSE i \in S : Cardinality(upto(i)) = n
<1>6. DOMAIN s = 1 .. N /\ s = [n \in 1 .. N |-> s[n]]
  <2>1. s = [n \in 1 .. N |-> nth(n)]
    BY DEF InOrder
  <2> HIDE DEF s, nth, N
  <2> QED
    BY <2>1
<1>7. ASSUME NEW n \in 1 .. N PROVE s[n] \in S /\ count[s[n]] = n
  <2>1. s[n] = CHOOSE i \in S : Cardinality(upto(i)) = n
    BY DEF InOrder
  <2>2. \E i \in S : Cardinality(upto(i)) = n
    BY <1>5
  <2>3. s[n] \in S /\ Cardinality(upto(s[n])) = n
    <3> HIDE DEF s, upto
    <3> QED
      BY <2>1, <2>2
  <2> HIDE DEF s, upto
  <2> QED
    BY <2>3
<1> HIDE DEF s, count, upto
<1>8. s \in Seq(S) /\ Len(s) = N
  <2> HIDE DEF N
  <2> QED
    BY <1>1, <1>6, <1>7
<1>9. \A n, m \in 1 .. N : n < m => s[n] < s[m]
  <2> SUFFICES ASSUME NEW n \in 1 .. N, NEW m \in 1 .. N, n < m, ~ (s[n] < s[m]) PROVE FALSE
    OBVIOUS
  <2>1. s[m] < s[n] \/ s[m] = s[n]
    <3>1. s[m] \in Nat /\ s[n] \in Nat
      BY <1>7
    <3> QED
      BY <3>1
  <2>2. count[s[m]] < count[s[n]] \/ s[m] = s[n]
    BY <1>3, <1>7, <2>1
  <2> HIDE DEF N
  <2> QED
    BY <1>1, <1>7, <2>2
<1>10. Range(s) = S
  <2>1. ASSUME NEW i \in S PROVE i \in Range(s)
    <3>1. count[i] \in 1 .. N
      BY <1>2
    <3>2. count[s[count[i]]] = count[i]
      BY <1>7, <3>1
    <3>3. s[count[i]] = i
      BY <1>4, <1>7, <3>1, <3>2
    <3> QED
      BY <1>6, <3>1, <3>3 DEF Range
  <2> QED
    BY <1>6, <1>7, <2>1 DEF Range
<1> QED
  BY <1>6, <1>8, <1>9, <1>10 DEF s

(* kodo_skip_undecoded stops at the first decoded symbol, or at the end.   *)
LEMMA SkipStops ==
  ASSUME NEW span, NEW index \in 0 .. Symbols
  PROVE  LET at == SkipUndecoded(span, index)
         IN /\ at \in index .. Symbols
            /\ at = Symbols \/ {at + 1} \in span
            /\ \A i \in index + 1 .. at : {i} \notin span
<1> DEFINE ready == {i \in index .. Symbols - 1 : IsSymbolUncoded(span, i + 1)}
           at == SkipUndecoded(span, index)
<1>1. CASE ready = {}
  <2>1. Max({index, Symbols}) = Symbols
    <3>1. {index, Symbols} \in SUBSET Nat /\ \A x \in {index, Symbols} : x <= Symbols
      BY SymbolsAssumption
    <3> QED
      BY <3>1, MaxProperty
  <2>2. at = Symbols
    BY <1>1, <2>1 DEF SkipUndecoded
  <2>3. ASSUME NEW i \in index + 1 .. Symbols PROVE {i} \notin span
    <3>1. i - 1 \in index .. Symbols - 1 /\ (i - 1) + 1 = i
      BY SymbolsAssumption
    <3>2. ~IsSymbolUncoded(span, (i - 1) + 1)
      BY <1>1, <3>1
    <3> QED
      BY <3>1, <3>2 DEF IsSymbolUncoded
  <2> HIDE DEF at
  <2> QED
    BY <2>2, <2>3, SymbolsAssumption DEF at
<1>2. CASE ready # {}
  <2>1. ready \in SUBSET Nat
    BY SymbolsAssumption
  <2>2. Min(ready) \in ready /\ \A x \in ready : Min(ready) <= x
    <3> HIDE DEF ready
    <3> QED
      BY <1>2, <2>1, MinProperty
  <2>3. at = Min(ready)
    BY <1>2 DEF SkipUndecoded
  <2>4. at \in index .. Symbols - 1 /\ {at + 1} \in span
    <3> HIDE DEF at
    <3> QED
      BY <2>2, <2>3 DEF IsSymbolUncoded
  <2>5. ASSUME NEW i \in index + 1 .. at, {i} \in span PROVE FALSE
    <3> HIDE DEF at
    <3>1. i - 1 \in index .. Symbols - 1 /\ (i - 1) + 1 = i /\ i - 1 < at
      BY <2>4, SymbolsAssumption
    <3>2. IsSymbolUncoded(span, (i - 1) + 1)
      BY <2>5, <3>1 DEF IsSymbolUncoded
    <3>3. i - 1 \in ready
      BY <3>1, <3>2
    <3> HIDE DEF ready
    <3> QED
      BY <2>2, <2>3, <2>4, <3>1, <3>3
  <2> HIDE DEF at
  <2> QED
    BY <2>4, <2>5, SymbolsAssumption DEF at
<1> QED
  BY <1>1, <1>2

-----------------------------------------------------------------------------
(* Sequences of slots that get a later one, or lose their first.           *)
LEMMA RangeAppend ==
  ASSUME NEW S, NEW s \in Seq(S), NEW x \in S
  PROVE  /\ Append(s, x) \in Seq(S) /\ Range(Append(s, x)) = Range(s) \cup {x}
         /\ Len(Append(s, x)) = Len(s) + 1
         /\ \A i \in 1 .. Len(s) : Append(s, x)[i] = s[i]
         /\ Append(s, x)[Len(s) + 1] = x
<1> DEFINE t == Append(s, x)
<1>1. /\ t \in Seq(S) /\ Len(t) = Len(s) + 1 /\ Len(s) \in Nat
      /\ \A i \in 1 .. Len(s) : t[i] = s[i]
      /\ t[Len(s) + 1] = x
  BY AppendProperties
<1>2. DOMAIN s = 1 .. Len(s) /\ DOMAIN t = 1 .. Len(s) + 1
  BY <1>1
<1> HIDE DEF t
<1>3. ASSUME NEW i \in 1 .. Len(s) + 1 PROVE t[i] \in Range(s) \cup {x}
  <2>1. CASE i \in 1 .. Len(s)
    BY <1>1, <1>2, <2>1 DEF Range
  <2>2. CASE i = Len(s) + 1
    BY <1>1, <2>2
  <2> QED
    BY <1>1, <2>1, <2>2
<1>4. ASSUME NEW i \in 1 .. Len(s) PROVE s[i] \in Range(t)
  <2>1. i \in 1 .. Len(s) + 1
    BY <1>1
  <2> QED
    BY <1>1, <1>2, <2>1 DEF Range
<1>5. x \in Range(t)
  <2>1. Len(s) + 1 \in 1 .. Len(s) + 1
    BY <1>1
  <2> QED
    BY <1>1, <1>2, <2>1 DEF Range
<1>6. Range(t) = Range(s) \cup {x}
  BY <1>2, <1>3, <1>4, <1>5 DEF Range
<1> QED
  BY <1>1, <1>6 DEF t

LEMMA RangeTail ==
  ASSUME NEW S, NEW s \in Seq(S), s # <<>>
  PROVE  /\ Head(s) \in Range(s) /\ Range(s) \subseteq S /\ Tail(s) \in Seq(S)
         /\ Len(Tail(s)) = Len(s) - 1 /\ Head(s) = s[1] /\ Len(s) \in Nat \ {0}
         /\ \A i \in 1 .. Len(s) - 1 : Tail(s)[i] = s[i + 1]
         /\ Range(s) = Range(Tail(s)) \cup {Head(s)}
<1> DEFINE t == Tail(s)
<1>1. /\ t \in Seq(S) /\ Len(t) = Len(s) - 1 /\ Head(s) = s[1] /\ Len(s) \in Nat /\ Len(s) # 0
      /\ \A i \in 1 .. Len(t) : t[i] = s[i + 1]
  BY HeadTailProperties
<1>2. DOMAIN s = 1 .. Len(s) /\ DOMAIN t = 1 .. Len(s) - 1
  BY <1>1
<1> HIDE DEF t
<1>3. ASSUME NEW i \in 1 .. Len(s) - 1 PROVE t[i] \in Range(s)
  <2>1. i + 1 \in 1 .. Len(s) /\ t[i] = s[i + 1]
    BY <1>1
  <2> QED
    BY <1>2, <2>1 DEF Range
<1>4. ASSUME NEW i \in 1 .. Len(s) PROVE s[i] \in Range(t) \cup {Head(s)}
  <2>1. CASE i = 1
    BY <1>1, <2>1
  <2>2. CASE i # 1
    <3>1. i - 1 \in 1 .. Len(s) - 1 /\ (i - 1) + 1 = i
      BY <1>1, <2>2
    <3>2. t[i - 1] = s[i]
      BY <1>1, <3>1
    <3> QED
      BY <1>2, <3>1, <3>2 DEF Range
  <2> QED
    BY <2>1, <2>2
<1>5. Head(s) \in Range(s)
  <2>1. 1 \in 1 .. Len(s)
    BY <1>1
  <2> QED
    BY <1>1, <1>2, <2>1 DEF Range
<1>6. Range(s) \subseteq S
  BY <1>2 DEF Range
<1>7. Range(s) = Range(t) \cup {Head(s)}
  BY <1>2, <1>3, <1>4, <1>5 DEF Range
<1> QED
  BY <1>1, <1>5, <1>6, <1>7 DEF t

LEMMA AscendsAppend ==
  ASSUME NEW S, NEW s \in Seq(S), NEW x \in S, Ascends(s), \A t \in Range(s) : Before(t, x)
  PROVE  Ascends(Append(s, x))
<1> DEFINE t == Append(s, x)
<1>1. /\ t \in Seq(S) /\ Len(t) = Len(s) + 1 /\ Len(s) \in Nat
      /\ \A i \in 1 .. Len(s) : t[i] = s[i]
      /\ t[Len(s) + 1] = x
  BY AppendProperties
<1>2. DOMAIN s = 1 .. Len(s) /\ DOMAIN t = 1 .. Len(s) + 1
  BY <1>1
<1> HIDE DEF t
<1>3. ASSUME NEW i \in 1 .. Len(s) + 1, NEW j \in 1 .. Len(s) + 1, i < j
      PROVE  Before(t[i], t[j])
  <2>1. i \in 1 .. Len(s)
    BY <1>1, <1>3
  <2>2. CASE j = Len(s) + 1
    <3>1. s[i] \in Range(s)
      BY <1>2, <2>1 DEF Range
    <3> QED
      BY <1>1, <2>1, <2>2, <3>1
  <2>3. CASE j \in 1 .. Len(s)
    <3>1. Before(s[i], s[j])
      BY <1>2, <1>3, <2>1, <2>3 DEF Ascends
    <3> QED
      BY <1>1, <2>1, <2>3, <3>1
  <2> QED
    BY <1>1, <2>2, <2>3
<1>4. Ascends(t)
  BY <1>2, <1>3 DEF Ascends
<1> QED
  BY <1>4 DEF t

LEMMA AscendsTail ==
  ASSUME NEW S, NEW s \in Seq(S), s # <<>>, Ascends(s)
  PROVE  Ascends(Tail(s)) /\ \A t \in Range(Tail(s)) : Before(Head(s), t)
<1> DEFINE u == Tail(s)
<1>1. /\ u \in Seq(S) /\ Len(u) = Len(s) - 1 /\ Head(s) = s[1] /\ Len(s) \in Nat \ {0}
      /\ \A i \in 1 .. Len(s) - 1 : u[i] = s[i + 1]
  BY RangeTail
<1>2. DOMAIN s = 1 .. Len(s) /\ DOMAIN u = 1 .. Len(s) - 1
  BY <1>1
<1> HIDE DEF u
<1>3. ASSUME NEW i \in 1 .. Len(s) - 1, NEW j \in 1 .. Len(s) - 1, i < j
      PROVE  Before(u[i], u[j])
  <2>1. i + 1 \in DOMAIN s /\ j + 1 \in DOMAIN s /\ i + 1 < j + 1
    BY <1>1, <1>2, <1>3
  <2>2. Before(s[i + 1], s[j + 1])
    BY <2>1 DEF Ascends
  <2> QED
    BY <1>1, <2>2
<1>4. ASSUME NEW i \in 1 .. Len(s) - 1 PROVE Before(Head(s), u[i])
  <2>1. 1 \in DOMAIN s /\ i + 1 \in DOMAIN s /\ 1 < i + 1
    BY <1>1, <1>2
  <2>2. Before(s[1], s[i + 1])
    BY <2>1 DEF Ascends
  <2> QED
    BY <1>1, <2>2
<1>5. Ascends(u) /\ \A t \in Range(u) : Before(Head(s), t)
  BY <1>2, <1>3, <1>4 DEF Ascends, Range
<1> QED
  BY <1>5 DEF u

(* Slots are ordered.                                                      *)
LEMMA BeforeOrders ==
  ASSUME NEW s \in Nat \X Nat, NEW t \in Nat \X Nat
  PROVE  /\ ~Before(s, s) /\ ~(Before(s, t) /\ Before(t, s))
         /\ Before(s, t) \/ s = t \/ Before(t, s)
         /\ \A u \in Nat \X Nat : Before(s, t) /\ Before(t, u) => Before(s, u)
<1>1. s = <<s[1], s[2]>> /\ t = <<t[1], t[2]>>
      /\ s[1] \in Nat /\ s[2] \in Nat /\ t[1] \in Nat /\ t[2] \in Nat
  OBVIOUS
<1>2. Before(s, t) \/ s = t \/ Before(t, s)
  <2>1. s[1] # t[1] \/ s[2] # t[2] \/ s = t
    BY <1>1
  <2> QED
    BY <1>1, <2>1 DEF Before
<1>3. ASSUME NEW u \in Nat \X Nat, Before(s, t), Before(t, u) PROVE Before(s, u)
  <2>1. u[1] \in Nat /\ u[2] \in Nat
    OBVIOUS
  <2> QED
    BY <1>1, <1>3, <2>1 DEF Before
<1>4. ~Before(s, s) /\ ~(Before(s, t) /\ Before(t, s))
  BY <1>1 DEF Before
<1> QED
  BY <1>2, <1>3, <1>4

LEMMA SlotNumbers ==
  /\ Slots \subseteq Nat \X Nat
  /\ \A s \in Slots : s[1] \in Generations /\ s[2] \in Indices /\ s = <<s[1], s[2]>>
  /\ \A g \in Generations, i \in Indices : <<g, i>> \in Slots
BY SymbolsAssumption DEF Slots, Generations, Indices

-----------------------------------------------------------------------------
(* What a call that hands out symbols leaves of a coder.                   *)
Taken == {"read", "queue", "index"}

Same(n, d) == DOMAIN n = DOMAIN d /\ \A x \in DOMAIN d \ Taken : n[x] = d[x]

LEMMA SameFields ==
  ASSUME NEW d, NEW n, Coder(d), Same(n, d)
  PROVE  /\ n.protocol = d.protocol /\ n.generation = d.generation /\ n.span = d.span
         /\ n.flush = d.flush /\ n.eager = d.eager
BY DEF Coder, Same, CoderFields, Taken

LEMMA SameTrans ==
  ASSUME NEW d, NEW m, NEW n, Same(m, d), Same(n, m)
  PROVE  Same(n, d)
BY DEF Same

(* Is the next symbol of the generation decoded?                           *)
Due(d) == d.index < Symbols /\ {d.index + 1} \in d.span

Upcoming(d) == <<d.generation, d.index + 1>>

(* get_source takes the head of the queue, or the next symbol and moves    *)
(* the index.                                                              *)
TakesQueue(d, n) ==
  /\ d.queue # <<>> /\ n.read = Append(d.read, Head(d.queue)) /\ n.queue = Tail(d.queue)
  /\ n.index = d.index

TakesNext(d, n) ==
  /\ Due(d) /\ n.read = Append(d.read, Upcoming(d)) /\ n.queue = d.queue
  /\ n.index \in d.index + 1 .. Symbols
  /\ \A i \in d.index + 2 .. n.index : {i} \notin d.span
  /\ d.flush => n.index = Symbols \/ {n.index + 1} \in d.span

LEMMA NextSlot ==
  ASSUME NEW known \in SUBSET Slots, NEW d, Coder(d), SpanOrigin(d, known), NEW i,
         {i} \in d.span
  PROVE  <<d.generation, i>> \in known /\ d.generation \in Generations
<1>1. <<d.generation, i>> \in SlotsOf(d.generation, {i})
  BY DEF SlotsOf
<1>2. <<d.generation, i>> \in known
  BY <1>1 DEF SpanOrigin, Origin
<1> QED
  BY <1>2 DEF Slots

LEMMA TakesNextIs ==
  ASSUME NEW known \in SUBSET Slots, NEW d, Coder(d), SpanOrigin(d, known), Due(d)
  PROVE  LET n == TakeAtIndex(d)
         IN Coder(n) /\ Same(n, d) /\ TakesNext(d, n)
<1> DEFINE at == IF d.flush THEN SkipUndecoded(d.span, d.index + 1) ELSE d.index + 1
           n == [d EXCEPT !.read = Append(@, Upcoming(d)), !.index = at]
<1>1. /\ d.index \in 0 .. Symbols - 1 /\ {d.index + 1} \in d.span
      /\ d.read \in Seq(Slots) /\ d.queue \in Seq(Slots)
  BY SymbolsAssumption DEF Coder, Due
<1>2. Upcoming(d) \in Slots
  BY <1>1, NextSlot DEF Upcoming
<1>3. Append(d.read, Upcoming(d)) \in Seq(Slots)
  BY <1>1, <1>2, RangeAppend
<1>4. /\ at \in d.index + 1 .. Symbols
      /\ \A i \in d.index + 2 .. at : {i} \notin d.span
      /\ d.flush => at = Symbols \/ {at + 1} \in d.span
  <2>1. d.index + 1 \in 0 .. Symbols /\ (d.index + 1) + 1 = d.index + 2
    BY <1>1, SymbolsAssumption
  <2>2. CASE d.flush
    <3>1. /\ at \in d.index + 1 .. Symbols
          /\ at = Symbols \/ {at + 1} \in d.span
          /\ \A i \in (d.index + 1) + 1 .. at : {i} \notin d.span
      BY <2>1, <2>2, SkipStops
    <3> HIDE DEF at
    <3> QED
      BY <2>1, <3>1
  <2>3. CASE ~d.flush
    <3>1. at = d.index + 1
      BY <2>3
    <3> HIDE DEF at
    <3>2. \A i \in d.index + 2 .. at : FALSE
      BY <1>1, <3>1
    <3> QED
      BY <1>1, <2>1, <2>3, <3>1, <3>2
  <2> HIDE DEF at
  <2> QED
    BY <2>2, <2>3
<1>5. TakeAtIndex(d) = n
  BY DEF TakeAtIndex, Upcoming
<1> HIDE DEF at
<1>6. /\ DOMAIN n = DOMAIN d /\ n = [x \in DOMAIN n |-> n[x]]
      /\ n.read = Append(d.read, Upcoming(d)) /\ n.index = at /\ n.queue = d.queue
      /\ \A x \in DOMAIN d \ Taken : n[x] = d[x]
  BY DEF Coder, CoderFields, Taken
<1> HIDE DEF n
<1>7. Same(n, d)
  BY <1>6 DEF Same
<1>8. Coder(n)
  <2>1. n.index \in 0 .. Symbols
    BY <1>1, <1>4, <1>6, SymbolsAssumption
  <2>2. CoderFields \subseteq DOMAIN n
    BY <1>6 DEF Coder
  <2> QED
    BY <1>1, <1>3, <1>6, <1>7, <2>1, <2>2, SameFields DEF Coder
<1>9. TakesNext(d, n)
  BY <1>4, <1>6 DEF TakesNext
<1> QED
  BY <1>5, <1>7, <1>8, <1>9

LEMMA TakesWhat ==
  ASSUME NEW known \in SUBSET Slots, NEW d, Coder(d), SpanOrigin(d, known),
         QueueHasSource(d)
  PROVE  LET n == QueueGetSource(d)
         IN /\ Coder(n) /\ Same(n, d)
            /\ TakesQueue(d, n) \/ (d.queue = <<>> /\ TakesNext(d, n))
<1>1. CASE d.queue # <<>>
  <2> DEFINE n == [d EXCEPT !.read = Append(@, Head(d.queue)), !.queue = Tail(@)]
  <2>1. d.read \in Seq(Slots) /\ d.queue \in Seq(Slots)
    BY DEF Coder
  <2>2. Head(d.queue) \in Slots /\ Tail(d.queue) \in Seq(Slots)
    BY <1>1, <2>1, RangeTail
  <2>3. Append(d.read, Head(d.queue)) \in Seq(Slots)
    BY <2>1, <2>2, RangeAppend
  <2>4. QueueGetSource(d) = n
    BY <1>1 DEF QueueGetSource
  <2>5. /\ DOMAIN n = DOMAIN d /\ n = [x \in DOMAIN n |-> n[x]]
        /\ n.read = Append(d.read, Head(d.queue)) /\ n.queue = Tail(d.queue)
        /\ n.index = d.index
        /\ \A x \in DOMAIN d \ Taken : n[x] = d[x]
    BY DEF Coder, CoderFields, Taken
  <2> HIDE DEF n
  <2>6. Same(n, d)
    BY <2>5 DEF Same
  <2>7. Coder(n)
    <3>1. CoderFields \subseteq DOMAIN n
      BY <2>5 DEF Coder
    <3> QED
      BY <2>2, <2>3, <2>5, <2>6, <3>1, SameFields DEF Coder
  <2>8. TakesQueue(d, n)
    BY <1>1, <2>5 DEF TakesQueue
  <2> QED
    BY <2>4, <2>6, <2>7, <2>8
<1>2. CASE d.queue = <<>>
  <2>1. Due(d)
    BY <1>2 DEF QueueHasSource, Due, IsSymbolUncoded
  <2>2. QueueGetSource(d) = TakeAtIndex(d)
    BY <1>2 DEF QueueGetSource
  <2> QED
    BY <1>2, <2>1, <2>2, TakesNextIs
<1> QED
  BY <1>1, <1>2

-----------------------------------------------------------------------------
(* Nothing that is decoded or was handed out is lost.                      *)
Kept(d, n) == QueuePending(d) \cup Range(d.read) \subseteq QueuePending(n) \cup Range(n.read)

Extends(r, s) == Len(r) <= Len(s) /\ \A j \in 1 .. Len(r) : s[j] = r[j]

(* One call of a decoder.                                                  *)
Goes(d, n) == Kept(d, n) /\ Extends(d.read, n.read)

LEMMA GoesTrans ==
  ASSUME NEW d, NEW m, NEW n, Coder(d), Coder(m), Coder(n), Goes(d, m), Goes(m, n)
  PROVE  Goes(d, n)
<1>1. Len(d.read) \in Nat /\ Len(m.read) \in Nat /\ Len(n.read) \in Nat
  BY DEF Coder
<1>2. Extends(d.read, n.read)
  <2>1. Len(d.read) <= Len(m.read) /\ Len(m.read) <= Len(n.read)
    BY DEF Goes, Extends
  <2>2. ASSUME NEW j \in 1 .. Len(d.read) PROVE n.read[j] = d.read[j]
    <3>1. j \in 1 .. Len(m.read)
      BY <1>1, <2>1
    <3> QED
      BY <3>1 DEF Goes, Extends
  <2> QED
    BY <1>1, <2>1, <2>2 DEF Extends
<1> QED
  BY <1>2 DEF Goes, Kept

LEMMA GoesStill ==
  ASSUME NEW d, NEW n, Coder(d), n.read = d.read, QueuePending(d) \subseteq QueuePending(n)
  PROVE  Goes(d, n)
<1>1. Len(d.read) \in Nat
  BY DEF Coder
<1> QED
  BY <1>1 DEF Goes, Kept, Extends

(* As one call, except that a later generation begins with a queue of its  *)
(* own, over what was still in the queue of the one before.                *)
Over(d, n) ==
  /\ QueuePending(d) \cup Range(d.read)
       \subseteq QueuePending(n) \cup Range(n.read)
                   \cup (IF d.generation < n.generation THEN Range(d.queue) ELSE {})
  /\ Extends(d.read, n.read)

LEMMA OverGoes ==
  ASSUME NEW d, NEW n
  PROVE  /\ Goes(d, n) => Over(d, n)
         /\ Over(d, n) /\ d.queue = <<>> => Goes(d, n)
<1>1. d.queue = <<>> => Range(d.queue) = {}
  BY DEF Range
<1> QED
  BY <1>1 DEF Goes, Kept, Over

LEMMA OverTrans ==
  ASSUME NEW d, NEW m, NEW n, Coder(d), Coder(m), Coder(n)
  PROVE  /\ Goes(d, m) /\ Over(m, n) /\ m.generation = d.generation
             /\ Range(m.queue) \subseteq Range(d.queue) => Over(d, n)
         /\ Over(d, m) /\ Goes(m, n) /\ n.generation = m.generation => Over(d, n)
<1>1. Len(d.read) \in Nat /\ Len(m.read) \in Nat /\ Len(n.read) \in Nat
  BY DEF Coder
<1>2. ASSUME Extends(d.read, m.read), Extends(m.read, n.read) PROVE Extends(d.read, n.read)
  <2>1. Len(d.read) <= Len(m.read) /\ Len(m.read) <= Len(n.read)
    BY <1>2 DEF Extends
  <2>2. ASSUME NEW j \in 1 .. Len(d.read) PROVE n.read[j] = d.read[j]
    <3>1. j \in 1 .. Len(m.read)
      BY <1>1, <2>1
    <3> QED
      BY <1>2, <3>1 DEF Extends
  <2> QED
    BY <1>1, <2>1, <2>2 DEF Extends
<1> QED
  BY <1>2 DEF Goes, Kept, Over

(* Slots of one generation, and of a later one.                            *)
LEMMA UpcomingLater ==
  ASSUME NEW s \in Slots, NEW g \in Nat, NEW i \in Nat, Before(s, <<g, i>>), NEW h \in Nat,
         NEW j \in Nat, g < h \/ (g = h /\ i <= j)
  PROVE  Before(s, <<h, j>>)
<1>1. s[1] \in Nat /\ s[2] \in Nat
  BY SlotNumbers
<1> QED
  BY <1>1 DEF Before

LEMMA TakeInTurn ==
  ASSUME NEW known \in SUBSET Slots, NEW d, DecOk(d, known), NEW n, Coder(n), Same(n, d),
         TakesQueue(d, n) \/ (d.queue = <<>> /\ TakesNext(d, n))
  PROVE  /\ DecOk(n, known) /\ Goes(d, n) /\ Len(n.read) = Len(d.read) + 1
         /\ d.queue = <<>> => n.queue = <<>>
         /\ Range(n.queue) \subseteq Range(d.queue)
<1>0. /\ Coder(d) /\ InTurn(d) /\ SpanOrigin(d, known)
      /\ Range(d.read) \cup Range(d.queue) \subseteq known
      /\ d.read \in Seq(Slots) /\ d.queue \in Seq(Slots) /\ d.generation \in Nat
      /\ d.index \in 0 .. Symbols /\ Symbols \in Nat
  BY SymbolsAssumption DEF DecOk, Coder
<1>1. /\ n.protocol = d.protocol /\ n.generation = d.generation /\ n.span = d.span
      /\ n.flush = d.flush
  BY <1>0, SameFields
<1>2. SpanOrigin(n, known)
  BY <1>0, <1>1 DEF SpanOrigin
<1>3. CASE TakesQueue(d, n)
  <2>1. /\ d.queue # <<>> /\ n.read = Append(d.read, Head(d.queue)) /\ n.queue = Tail(d.queue)
        /\ n.index = d.index
    BY <1>3 DEF TakesQueue
  <2>2. /\ Head(d.queue) \in Range(d.queue) /\ Head(d.queue) \in Slots
        /\ Range(d.queue) = Range(n.queue) \cup {Head(d.queue)}
    BY <1>0, <2>1, RangeTail
  <2>3. /\ Range(n.read) = Range(d.read) \cup {Head(d.queue)}
        /\ Len(n.read) = Len(d.read) + 1
        /\ \A i \in 1 .. Len(d.read) : n.read[i] = d.read[i]
    BY <1>0, <2>1, <2>2, RangeAppend
  <2>4. Ascends(n.queue) /\ \A t \in Range(n.queue) : Before(Head(d.queue), t)
    BY <1>0, <2>1, AscendsTail DEF InTurn
  <2>5. Ascends(n.read)
    BY <1>0, <2>1, <2>2, AscendsAppend DEF InTurn
  <2>6. InTurn(n)
    BY <1>0, <1>1, <2>1, <2>2, <2>3, <2>4, <2>5 DEF InTurn
  <2>7. n.flush => Aligned(n)
    BY <1>1, <2>1 DEF DecOk, Aligned
  <2>8. DecOk(n, known)
    BY <1>0, <1>1, <1>2, <2>1, <2>2, <2>3, <2>6, <2>7 DEF DecOk
  <2>9. Kept(d, n)
    BY <1>1, <2>1, <2>2, <2>3 DEF Kept, QueuePending, Range
  <2>10. Extends(d.read, n.read)
    <3>1. Len(d.read) \in Nat
      BY <1>0
    <3> QED
      BY <2>3, <3>1 DEF Extends
  <2> QED
    BY <2>1, <2>2, <2>3, <2>8, <2>9, <2>10 DEF Goes
<1>4. CASE d.queue = <<>> /\ TakesNext(d, n)
  <2> DEFINE u == Upcoming(d)
  <2>1. /\ Due(d) /\ n.read = Append(d.read, u) /\ n.queue = <<>>
        /\ n.index \in d.index + 1 .. Symbols
        /\ \A i \in d.index + 2 .. n.index : {i} \notin d.span
        /\ d.flush => n.index = Symbols \/ {n.index + 1} \in d.span
    BY <1>4 DEF TakesNext
  <2>2. u \in known /\ u \in Slots
    BY <1>0, <2>1, NextSlot DEF Due, Upcoming
  <2>3. /\ Range(n.read) = Range(d.read) \cup {u}
        /\ Len(n.read) = Len(d.read) + 1
        /\ \A i \in 1 .. Len(d.read) : n.read[i] = d.read[i]
    BY <1>0, <2>1, <2>2, RangeAppend
  <2>4. Range(d.queue) = {} /\ Range(n.queue) = {} /\ Ascends(n.queue)
    BY <1>4, <2>1 DEF Range, Ascends
  <2>5. \A s \in Range(d.read) : Before(s, u) /\ s \in Slots
    BY <1>0 DEF InTurn, Upcoming
  <2>6. Ascends(n.read)
    BY <1>0, <2>1, <2>2, <2>5, AscendsAppend DEF InTurn
  <2>7. ASSUME NEW s \in Range(n.read) PROVE Before(s, <<n.generation, n.index + 1>>)
    <3>1. CASE s = u
      BY <1>0, <1>1, <2>1, <3>1 DEF Upcoming, Before
    <3>2. CASE s \in Range(d.read)
      <4>1. Before(s, <<d.generation, d.index + 1>>) /\ s \in Slots
        BY <2>5, <3>2 DEF Upcoming
      <4>2. d.index + 1 \in Nat /\ n.index + 1 \in Nat /\ d.index + 1 <= n.index + 1
        BY <1>0, <2>1
      <4> QED
        BY <1>0, <1>1, <4>1, <4>2, UpcomingLater
    <3> QED
      BY <2>3, <3>1, <3>2
  <2>8. InTurn(n)
    BY <2>4, <2>6, <2>7 DEF InTurn
  <2>9. n.flush => Aligned(n)
    BY <1>1, <2>1 DEF Aligned
  <2>10. DecOk(n, known)
    BY <1>0, <1>1, <1>2, <2>1, <2>2, <2>3, <2>4, <2>8, <2>9 DEF DecOk
  <2>11. Kept(d, n)
    <3>1. ASSUME NEW i \in Ready(d.span, d.index)
          PROVE  <<d.generation, i>> = u \/ i \in Ready(n.span, n.index)
      <4>1. i \in d.index + 1 .. Symbols /\ IsSymbolUncoded(d.span, i)
        BY DEF Ready
      <4>2. CASE i = d.index + 1
        BY <4>2 DEF Upcoming
      <4>3. CASE i \in d.index + 2 .. n.index
        BY <2>1, <4>1, <4>3 DEF IsSymbolUncoded
      <4>4. CASE i \in n.index + 1 .. Symbols
        BY <1>1, <4>1, <4>4 DEF Ready
      <4> QED
        BY <1>0, <2>1, <4>1, <4>2, <4>3, <4>4
    <3>2. ASSUME NEW s \in QueuePending(d) PROVE s \in QueuePending(n) \cup Range(n.read)
      <4>1. PICK i \in Ready(d.span, d.index) : s = <<d.generation, i>>
        BY <2>4 DEF QueuePending, Range, SlotsOf
      <4>2. CASE i \in Ready(n.span, n.index)
        BY <1>1, <4>1, <4>2 DEF QueuePending, SlotsOf
      <4>3. CASE s = u
        BY <2>3, <4>3
      <4> QED
        BY <3>1, <4>1, <4>2, <4>3
    <3> QED
      BY <2>3, <3>2 DEF Kept
  <2>12. Extends(d.read, n.read)
    <3>1. Len(d.read) \in Nat
      BY <1>0
    <3> QED
      BY <2>3, <3>1 DEF Extends
  <2> QED
    BY <2>1, <2>3, <2>4, <2>10, <2>11, <2>12 DEF Goes
<1> QED
  BY <1>3, <1>4

LEMMA TakeOk ==
  ASSUME NEW known \in SUBSET Slots, NEW d, DecOk(d, known), QueueHasSource(d)
  PROVE  LET n == QueueGetSource(d)
         IN /\ DecOk(n, known) /\ Same(n, d) /\ Goes(d, n) /\ Len(n.read) = Len(d.read) + 1
            /\ d.queue = <<>> => n.queue = <<>>
            /\ Range(n.queue) \subseteq Range(d.queue)
<1>1. Coder(d) /\ SpanOrigin(d, known)
  BY DEF DecOk
<1> DEFINE n == QueueGetSource(d)
<1>2. Coder(n) /\ Same(n, d) /\ (TakesQueue(d, n) \/ (d.queue = <<>> /\ TakesNext(d, n)))
  BY <1>1, TakesWhat
<1> HIDE DEF n
<1>3. /\ DecOk(n, known) /\ Goes(d, n) /\ Len(n.read) = Len(d.read) + 1
      /\ d.queue = <<>> => n.queue = <<>>
      /\ Range(n.queue) \subseteq Range(d.queue)
  BY <1>2, TakeInTurn
<1> QED
  BY <1>2, <1>3 DEF n

-----------------------------------------------------------------------------
(* on_source_ready: what every taken symbol preserves the callback does.   *)
LEMMA SourceReadyIn ==
  ASSUME NEW T, NEW d \in T, \A x \in T : QueueHasSource(x) => QueueGetSource(x) \in T
  PROVE  QueueSourceReady(d) \in T
<1> DEFINE K == 2 * Symbols
           slots == [n \in 1 .. K |-> n]
           take(x, n) == IF QueueHasSource(x) THEN QueueGetSource(x) ELSE x
           st == [x \in (1 .. K) \X T |-> take(x[2], slots[x[1]])]
           Rec(g) == [s \in SUBSET (1 .. K) |->
                       IF s = {} THEN d ELSE take(g[s \ {Max(s)}], slots[Max(s)])]
           it == CHOOSE g : g = Rec(g)
<1>1. K \in Nat
  BY SymbolsAssumption
<1>2. \A x \in T : \A k \in 1 .. K : take(x, slots[k]) \in T
  OBVIOUS
<1>3. st \in [(1 .. K) \X T -> T]
  <2> HIDE DEF take, slots, K
  <2> QED
    BY <1>2
<1>4. PICK g \in [SUBSET (1 .. K) -> T] : Folds(g, K, d, st)
  <2> HIDE DEF st, K, take, slots, Rec, it
  <2> QED
    BY <1>1, <1>3, FoldExists
<1>5. g = Rec(g)
  <2> HIDE DEF take, slots, K
  <2>1. ASSUME NEW s \in SUBSET (1 .. K)
        PROVE  g[s] = IF s = {} THEN d ELSE take(g[s \ {Max(s)}], slots[Max(s)])
    <3>1. CASE s = {}
      BY <3>1, <1>4 DEF Folds
    <3>2. CASE s # {}
      <4>1. Max(s) \in 1 .. K /\ s \ {Max(s)} \in SUBSET (1 .. K)
        BY <1>1, <3>2, MaxOf
      <4>2. g[s \ {Max(s)}] \in T
        BY <4>1
      <4>3. st[<<Max(s), g[s \ {Max(s)}]>>] = take(g[s \ {Max(s)}], slots[Max(s)])
        BY <4>1, <4>2
      <4> QED
        BY <3>2, <1>4, <4>3 DEF Folds
    <3> QED
      BY <3>1, <3>2
  <2> QED
    BY <2>1
<1>6. it = Rec(it)
  <2> HIDE DEF Rec
  <2> QED
    BY <1>5
<1>7. QueueSourceReady(d) \in {d, it[1 .. K]}
  <2>1. DOMAIN slots = 1 .. K
    OBVIOUS
  <2>2. FoldLeft(take, d, slots) = it[1 .. K]
    BY <2>1 DEF FoldLeft, MapThenFoldSet
  <2> HIDE DEF it
  <2> QED
    BY <2>2 DEF QueueSourceReady
<1>8. it[{}] \in T
  <2>1. {} \in SUBSET (1 .. K)
    OBVIOUS
  <2> HIDE DEF it, take, slots, K
  <2> QED
    BY <1>6, <2>1
<1>9. ASSUME NEW s \in SUBSET (1 .. K), s # {}, it[s \ {Max(s)}] \in T PROVE it[s] \in T
  <2>1. Max(s) \in 1 .. K
    <3> HIDE DEF K
    <3> QED
      BY <1>1, <1>9, MaxOf
  <2>2. it[s] = take(it[s \ {Max(s)}], slots[Max(s)])
    <3> HIDE DEF it, take, slots, K
    <3> QED
      BY <1>6, <1>9
  <2> HIDE DEF it, take, slots, K
  <2> QED
    BY <1>9, <2>1, <2>2, <1>2
<1>10. it[1 .. K] \in T
  <2> HIDE DEF it, take, slots, K
  <2> QED
    BY <1>8, <1>9, <1>1, FoldTyped
<1> QED
  BY <1>7, <1>10

(* Records that differ from d in what the callback changes.                *)
Steps(d) == [DOMAIN d -> {d[f] : f \in DOMAIN d} \cup Seq(Slots) \cup 0 .. Symbols]

LEMMA StepsMember ==
  ASSUME NEW d, NEW n, Coder(d), Coder(n), Same(n, d)
  PROVE  n \in Steps(d)
<1>1. DOMAIN n = DOMAIN d /\ n = [f \in DOMAIN n |-> n[f]]
  BY DEF Same, Coder
<1>2. ASSUME NEW f \in DOMAIN d
      PROVE  n[f] \in {d[g] : g \in DOMAIN d} \cup Seq(Slots) \cup 0 .. Symbols
  <2>1. CASE f \in Taken
    BY <2>1 DEF Coder, Taken
  <2>2. CASE f \notin Taken
    BY <2>2 DEF Same
  <2> QED
    BY <2>1, <2>2
<1> QED
  BY <1>1, <1>2 DEF Steps

LEMMA SourceReadyKeeps ==
  ASSUME NEW known \in SUBSET Slots, NEW d, Coder(d), SpanOrigin(d, known)
  PROVE  LET n == QueueSourceReady(d) IN Coder(n) /\ Same(n, d)
<1> DEFINE T == {x \in Steps(d) : Coder(x) /\ Same(x, d)}
<1>1. Same(d, d)
  BY DEF Same
<1>2. d \in T
  BY <1>1, StepsMember
<1>3. ASSUME NEW x \in T, QueueHasSource(x) PROVE QueueGetSource(x) \in T
  <2> DEFINE n == QueueGetSource(x)
  <2>1. Coder(x) /\ Same(x, d)
    OBVIOUS
  <2>2. SpanOrigin(x, known)
    BY <2>1, SameFields DEF SpanOrigin
  <2>3. Coder(n) /\ Same(n, x)
    BY <1>3, <2>1, <2>2, TakesWhat
  <2> HIDE DEF n
  <2>4. Same(n, d)
    BY <2>1, <2>3, SameTrans
  <2>5. n \in Steps(d)
    BY <2>3, <2>4, StepsMember
  <2>6. n \in T
    BY <2>3, <2>4, <2>5
  <2> QED
    BY <2>6 DEF n
<1>4. QueueSourceReady(d) \in T
  <2> HIDE DEF T
  <2> QED
    BY <1>2, <1>3, SourceReadyIn
<1> QED
  BY <1>4

LEMMA SourceReadyOk ==
  ASSUME NEW known \in SUBSET Slots, NEW d, DecOk(d, known)
  PROVE  LET n == QueueSourceReady(d)
         IN /\ DecOk(n, known) /\ Same(n, d) /\ Goes(d, n)
            /\ d.queue = <<>> => n.queue = <<>>
            /\ Range(n.queue) \subseteq Range(d.queue)
<1> DEFINE Reached(x) == /\ DecOk(x, known) /\ Same(x, d) /\ Goes(d, x)
                         /\ d.queue = <<>> => x.queue = <<>>
                         /\ Range(x.queue) \subseteq Range(d.queue)
           T == {x \in Steps(d) : Reached(x)}
<1>0. Coder(d)
  BY DEF DecOk
<1>1. Reached(d)
  BY <1>0, GoesStill DEF Same
<1>2. d \in T
  BY <1>0, <1>1, StepsMember
<1>3. ASSUME NEW x \in T, QueueHasSource(x) PROVE QueueGetSource(x) \in T
  <2> DEFINE n == QueueGetSource(x)
  <2>1. /\ DecOk(x, known) /\ Same(x, d) /\ Goes(d, x) /\ Coder(x)
        /\ d.queue = <<>> => x.queue = <<>>
        /\ Range(x.queue) \subseteq Range(d.queue)
    BY DEF DecOk
  <2>3. /\ DecOk(n, known) /\ Same(n, x) /\ Goes(x, n)
        /\ x.queue = <<>> => n.queue = <<>>
        /\ Range(n.queue) \subseteq Range(x.queue)
    BY <1>3, <2>1, TakeOk
  <2> HIDE DEF n
  <2>4. Same(n, d) /\ Coder(n)
    BY <2>1, <2>3, SameTrans DEF DecOk
  <2>5. n \in Steps(d)
    BY <1>0, <2>4, StepsMember
  <2>6. Goes(d, n)
    BY <1>0, <2>1, <2>3, <2>4, GoesTrans
  <2>7. n \in T
    BY <2>1, <2>3, <2>4, <2>5, <2>6
  <2> QED
    BY <2>7 DEF n
<1>4. QueueSourceReady(d) \in T
  <2> HIDE DEF T
  <2> QED
    BY <1>2, <1>3, SourceReadyIn
<1> QED
  BY <1>4

-----------------------------------------------------------------------------
(* What the calls of a decoder do to it, one effect after the other.       *)
Alike(n, d, changed) ==
  /\ DOMAIN n = DOMAIN d /\ n = [x \in DOMAIN n |-> n[x]]
  /\ \A x \in DOMAIN d \ changed : n[x] = d[x]

(* Fields that the invariant does not speak of.                            *)
LEMMA AlikeOk ==
  ASSUME NEW known, NEW d, NEW n, DecOk(d, known), NEW changed,
         changed \cap CoderFields = {}, Alike(n, d, changed)
  PROVE  DecOk(n, known) /\ Goes(d, n)
<1>1. Coder(d)
  BY DEF DecOk
<1>2. \A x \in CoderFields : n[x] = d[x]
  BY <1>1 DEF Alike, Coder
<1>3. /\ n.protocol = d.protocol /\ n.generation = d.generation /\ n.span = d.span
      /\ n.index = d.index /\ n.flush = d.flush /\ n.queue = d.queue /\ n.read = d.read
      /\ n.eager = d.eager
  BY <1>2 DEF CoderFields
<1>4. Coder(n)
  BY <1>1, <1>3 DEF Coder, Alike
<1>5. DecOk(n, known)
  BY <1>3, <1>4 DEF DecOk, InTurn, SpanOrigin, Aligned
<1>6. QueuePending(n) = QueuePending(d)
  BY <1>3 DEF QueuePending
<1> QED
  BY <1>1, <1>3, <1>5, <1>6, GoesStill

(* The index moves over what is not decoded.                               *)
LEMMA SkipOk ==
  ASSUME NEW known, NEW d, DecOk(d, known), NEW n, Alike(n, d, {"flush", "index"}),
         n.flush = TRUE, n.index = SkipUndecoded(d.span, d.index)
  PROVE  DecOk(n, known) /\ Goes(d, n) /\ n.queue = d.queue
<1>1. /\ Coder(d) /\ d.index \in 0 .. Symbols /\ d.read \in Seq(Slots)
      /\ d.queue \in Seq(Slots) /\ d.generation \in Nat /\ Symbols \in Nat
  BY SymbolsAssumption DEF DecOk, Coder
<1>2. /\ n.protocol = d.protocol /\ n.generation = d.generation /\ n.span = d.span
      /\ n.queue = d.queue /\ n.read = d.read /\ n.eager = d.eager
  BY <1>1 DEF Alike, Coder, CoderFields
<1>3. /\ n.index \in d.index .. Symbols
      /\ n.index = Symbols \/ {n.index + 1} \in d.span
      /\ \A i \in d.index + 1 .. n.index : {i} \notin d.span
  BY <1>1, SkipStops
<1>4. n.index \in 0 .. Symbols /\ d.index <= n.index
  BY <1>1, <1>3
<1>5. Coder(n)
  BY <1>1, <1>2, <1>4 DEF Coder, Alike
<1>6. ASSUME NEW s \in Range(d.read) \cup Range(d.queue)
      PROVE  Before(s, <<n.generation, n.index + 1>>)
  <2>1. s \in Slots /\ Before(s, <<d.generation, d.index + 1>>)
    BY <1>1 DEF DecOk, InTurn, Range
  <2>2. d.index + 1 \in Nat /\ n.index + 1 \in Nat /\ d.index + 1 <= n.index + 1
    BY <1>1, <1>4
  <2> QED
    BY <1>1, <1>2, <2>1, <2>2, UpcomingLater
<1>7. DecOk(n, known)
  BY <1>2, <1>3, <1>5, <1>6 DEF DecOk, InTurn, SpanOrigin, Aligned
<1>8. Ready(d.span, d.index) \subseteq Ready(n.span, n.index)
  <2> SUFFICES ASSUME NEW i \in Ready(d.span, d.index) PROVE i \in Ready(n.span, n.index)
    OBVIOUS
  <2>1. i \in d.index + 1 .. Symbols /\ {i} \in d.span
    BY DEF Ready, IsSymbolUncoded
  <2>2. i \notin d.index + 1 .. n.index
    BY <1>3, <2>1
  <2>3. i \in n.index + 1 .. Symbols
    BY <1>1, <1>4, <2>1, <2>2
  <2> QED
    BY <1>2, <2>1, <2>3 DEF Ready, IsSymbolUncoded
<1>9. QueuePending(d) \subseteq QueuePending(n)
  BY <1>2, <1>8 DEF QueuePending, SlotsOf
<1> QED
  BY <1>1, <1>2, <1>7, <1>9, GoesStill

(* A packet of the generation is read.                                     *)
LEMMA ReadOk ==
  ASSUME NEW known, NEW d, DecOk(d, known), NEW v \in Vectors,
         Origin(d.generation, v, known), NEW n, NEW changed,
         changed \cap CoderFields \subseteq {"span"}, Alike(n, d, changed),
         n.span = ReadPayload(d.span, v)
  PROVE  DecOk(n, known) /\ Goes(d, n) /\ n.queue = d.queue
<1>1. Coder(d) /\ d.span \in SUBSET Vectors
  BY DEF DecOk, Coder
<1>2. \A x \in CoderFields \ {"span"} : n[x] = d[x]
  BY <1>1 DEF Alike, Coder
<1>3. /\ n.protocol = d.protocol /\ n.generation = d.generation
      /\ n.index = d.index /\ n.flush = d.flush /\ n.queue = d.queue /\ n.read = d.read
      /\ n.eager = d.eager
  BY <1>2 DEF CoderFields
<1>4. n.span \in SUBSET Vectors /\ d.span \subseteq n.span
  BY <1>1, SpanType DEF ReadPayload
<1>5. Coder(n)
  BY <1>1, <1>3, <1>4 DEF Coder, Alike
<1>6. SpanOrigin(n, known)
  <2> SUFFICES ASSUME NEW w \in n.span PROVE SlotsOf(d.generation, w) \subseteq known
    BY <1>3 DEF SpanOrigin, Origin
  <2>1. SlotsOf(d.generation, v) \subseteq known
    BY DEF Origin
  <2>2. \A u \in d.span : SlotsOf(d.generation, u) \subseteq known
    BY DEF DecOk, SpanOrigin, Origin
  <2>3. PICK u \in d.span : w = u \/ w = Plus(u, v)
    BY DEF ReadPayload
  <2> QED
    BY <2>1, <2>2, <2>3 DEF SlotsOf, Plus
<1>7. n.flush => Aligned(n)
  BY <1>3, <1>4 DEF DecOk, Aligned
<1>8. DecOk(n, known)
  BY <1>3, <1>5, <1>6, <1>7 DEF DecOk, InTurn
<1>9. QueuePending(d) \subseteq QueuePending(n)
  BY <1>3, <1>4 DEF QueuePending, SlotsOf, Ready, IsSymbolUncoded
<1> QED
  BY <1>1, <1>3, <1>8, <1>9, GoesStill

(* kodo_flush_source queues the symbols of the generation, in their order. *)
LEMMA FlushQueueOk ==
  ASSUME NEW known \in SUBSET Slots, NEW d, Coder(d), SpanOrigin(d, known)
  PROVE  LET q == FlushQueue(d)
         IN /\ q \in Seq(Slots) /\ Ascends(q)
            /\ Range(q) = SlotsOf(d.generation, Ready(d.span, d.index))
            /\ Range(q) \subseteq known
<1> DEFINE R == Ready(d.span, d.index)
           s == InOrder(R)
           q == [n \in DOMAIN s |-> <<d.generation, s[n]>>]
<1>1. d.index \in 0 .. Symbols /\ Symbols \in Nat /\ d.generation \in Nat
  BY SymbolsAssumption DEF Coder
<1>2. R \in SUBSET Nat /\ IsFiniteSet(R)
  <2>1. R \subseteq 1 .. Symbols /\ R \subseteq Nat
    BY <1>1 DEF Ready
  <2>2. IsFiniteSet(1 .. Symbols)
    BY <1>1, FS_Interval
  <2> QED
    BY <2>1, <2>2, FS_Subset
<1>3. \A i \in R : <<d.generation, i>> \in known /\ <<d.generation, i>> \in Slots
  BY NextSlot DEF Ready, IsSymbolUncoded
<1>4. /\ s \in Seq(R) /\ Range(s) = R
      /\ \A n, m \in DOMAIN s : n < m => s[n] < s[m]
  <2> HIDE DEF R, s
  <2> QED
    BY <1>2, InOrderMembers DEF s
<1>5. FlushQueue(d) = q
  BY DEF FlushQueue
<1> HIDE DEF R, s
<1>6. Len(s) \in Nat /\ DOMAIN s = 1 .. Len(s) /\ \A n \in DOMAIN s : s[n] \in R
  BY <1>4
<1>7. q \in Seq(Slots) /\ DOMAIN q = DOMAIN s
  BY <1>3, <1>6
<1>8. Ascends(q)
  BY <1>4, <1>7 DEF Ascends, Before
<1>9. Range(q) = SlotsOf(d.generation, R)
  BY <1>4, <1>7 DEF Range, SlotsOf
<1>10. Range(q) \subseteq known
  BY <1>3, <1>9 DEF SlotsOf
<1> QED
  BY <1>5, <1>7, <1>8, <1>9, <1>10 DEF R

(* A later generation begins with what is left of the one before.          *)
LEMMA NextOk ==
  ASSUME NEW known \in SUBSET Slots, NEW d, DecOk(d, known),
         NEW n, NEW changed, changed \cap CoderFields
           \subseteq {"queue", "generation", "index", "flush", "span"},
         Alike(n, d, changed), n.generation \in Nat, n.generation > d.generation,
         n.index = 0, n.flush = FALSE, n.span = EmptySpan, n.queue \in Seq(Slots),
         Ascends(n.queue), d.protocol = "gsaw" => n.queue = <<>>,
         Range(n.queue) = SlotsOf(d.generation, Ready(d.span, d.index)),
         Range(n.queue) \subseteq known
  PROVE  DecOk(n, known) /\ Over(d, n)
<1>1. /\ Coder(d) /\ d.index \in 0 .. Symbols /\ d.read \in Seq(Slots)
      /\ d.generation \in Nat /\ Symbols \in Nat
  BY SymbolsAssumption DEF DecOk, Coder
<1>2. \A x \in {"protocol", "read", "eager"} : n[x] = d[x]
  BY <1>1 DEF Alike, Coder, CoderFields
<1>3. n.protocol = d.protocol /\ n.read = d.read /\ n.eager = d.eager
  BY <1>2
<1>4. Coder(n)
  <2>1. n.span \in SUBSET Vectors
    BY SpanType
  <2>2. n.index \in 0 .. Symbols
    BY <1>1
  <2>3. CoderFields \subseteq DOMAIN n /\ n = [x \in DOMAIN n |-> n[x]]
    BY <1>1 DEF Coder, Alike
  <2> QED
    BY <1>1, <1>3, <2>1, <2>2, <2>3 DEF Coder
<1>5. SpanOrigin(n, known)
  BY DEF SpanOrigin, Origin, SlotsOf, EmptySpan
<1>6. ASSUME NEW s \in Range(d.read) PROVE s \in Slots /\ Before(s, <<d.generation, d.index + 1>>)
  BY <1>1 DEF DecOk, InTurn, Range
<1>7. ASSUME NEW t \in Range(n.queue)
      PROVE  \E i \in d.index + 1 .. Symbols : t = <<d.generation, i>>
  BY DEF SlotsOf, Ready
<1>8. \A s \in Range(n.read), t \in Range(n.queue) : Before(s, t)
  <2> SUFFICES ASSUME NEW s \in Range(d.read), NEW t \in Range(n.queue) PROVE Before(s, t)
    BY <1>3
  <2>1. PICK i \in d.index + 1 .. Symbols : t = <<d.generation, i>>
    BY <1>7
  <2>2. d.index + 1 \in Nat /\ i \in Nat /\ d.index + 1 <= i
    BY <1>1
  <2> QED
    BY <1>1, <1>6, <2>1, <2>2, UpcomingLater
<1>9. ASSUME NEW s \in Range(n.read) \cup Range(n.queue)
      PROVE  Before(s, <<n.generation, n.index + 1>>)
  <2>1. CASE s \in Range(d.read)
    <3>1. s \in Slots /\ Before(s, <<d.generation, d.index + 1>>)
      BY <1>6, <2>1
    <3>2. s[1] \in Nat /\ s[2] \in Nat
      BY <3>1, SlotNumbers
    <3>3. s[1] < n.generation
      BY <1>1, <3>1, <3>2 DEF Before
    <3> QED
      BY <3>3 DEF Before
  <2>2. CASE s \in Range(n.queue)
    <3>1. s[1] = d.generation
      BY <1>7, <2>2
    <3> QED
      BY <1>1, <3>1 DEF Before
  <2> QED
    BY <1>3, <2>1, <2>2
<1>10. DecOk(n, known)
  BY <1>3, <1>4, <1>5, <1>8, <1>9 DEF DecOk, InTurn
<1>11. QueuePending(d) \subseteq QueuePending(n) \cup Range(d.queue)
  BY DEF QueuePending, Range
<1>12. d.generation < n.generation /\ Len(d.read) \in Nat
  BY <1>1, <1>4 DEF Coder
<1> QED
  BY <1>3, <1>10, <1>11, <1>12 DEF Over, Extends

-----------------------------------------------------------------------------
(* The calls of the decoders.                                              *)
LEMMA GoesOn ==
  ASSUME NEW known, NEW d, NEW m, NEW n, DecOk(d, known), DecOk(m, known), DecOk(n, known),
         Goes(d, m), Goes(m, n)
  PROVE  Goes(d, n)
BY GoesTrans DEF DecOk

LEMMA OverOn ==
  ASSUME NEW known, NEW d, NEW m, NEW n, DecOk(d, known), DecOk(m, known), DecOk(n, known),
         Over(d, m), Goes(m, n), n.generation = m.generation
  PROVE  Over(d, n)
BY OverTrans DEF DecOk

LEMMA GoesOver ==
  ASSUME NEW known, NEW d, NEW m, NEW n, DecOk(d, known), DecOk(m, known), DecOk(n, known),
         Goes(d, m), m.generation = d.generation, Range(m.queue) \subseteq Range(d.queue),
         Over(m, n)
  PROVE  Over(d, n)
BY OverTrans DEF DecOk

Skipped(d) == [d EXCEPT !.flush = TRUE, !.index = SkipUndecoded(d.span, d.index)]

LEMMA SkippedOk ==
  ASSUME NEW known, NEW d, DecOk(d, known)
  PROVE  LET n == Skipped(d)
         IN /\ DecOk(n, known) /\ Goes(d, n) /\ n.queue = d.queue /\ n.flush
            /\ Alike(n, d, Taken \cup {"flush"})
<1> DEFINE n == Skipped(d)
<1>1. /\ Alike(n, d, {"flush", "index"}) /\ n.flush = TRUE
      /\ n.index = SkipUndecoded(d.span, d.index)
  BY DEF Skipped, DecOk, Coder, CoderFields, Alike
<1> HIDE DEF n
<1>2. DecOk(n, known) /\ Goes(d, n) /\ n.queue = d.queue
  BY <1>1, SkipOk
<1>3. Alike(n, d, Taken \cup {"flush"})
  BY <1>1 DEF Alike, Taken
<1> QED
  BY <1>1, <1>2, <1>3 DEF n

(* The application is told of the new symbols.                             *)
LEMMA ToldOk ==
  ASSUME NEW known \in SUBSET Slots, NEW d, DecOk(d, known)
  PROVE  LET n == QueueSourceReady(Skipped(d))
         IN /\ DecOk(n, known) /\ Goes(d, n) /\ n.flush /\ (d.queue = <<>> => n.queue = <<>>)
            /\ Alike(n, d, Taken \cup {"flush"}) /\ Range(n.queue) \subseteq Range(d.queue)
<1> DEFINE m == Skipped(d)
           n == QueueSourceReady(m)
<1>1. /\ DecOk(m, known) /\ Goes(d, m) /\ m.queue = d.queue /\ m.flush
      /\ Alike(m, d, Taken \cup {"flush"})
  BY SkippedOk
<1> HIDE DEF m
<1>2. /\ DecOk(n, known) /\ Same(n, m) /\ Goes(m, n)
      /\ m.queue = <<>> => n.queue = <<>>
      /\ Range(n.queue) \subseteq Range(m.queue)
  BY <1>1, SourceReadyOk
<1> HIDE DEF n
<1>3. n.flush = m.flush /\ n = [x \in DOMAIN n |-> n[x]]
  BY <1>1, <1>2, SameFields DEF DecOk, Coder
<1>4. Alike(n, d, Taken \cup {"flush"})
  BY <1>1, <1>2, <1>3 DEF Alike, Same
<1>5. Goes(d, n)
  BY <1>1, <1>2, GoesOn
<1> QED
  BY <1>1, <1>2, <1>3, <1>4, <1>5 DEF m, n

LEMMA FlushSourceOk ==
  ASSUME NEW known \in SUBSET Slots, NEW d, DecOk(d, known),
         d.protocol \in {"gsaw", "noack", "pace"}
  PROVE  LET n == NckDecFlushSource(d)
         IN /\ DecOk(n, known) /\ Goes(d, n) /\ n.flush /\ (d.queue = <<>> => n.queue = <<>>)
            /\ Alike(n, d, Taken \cup {"flush"}) /\ Range(n.queue) \subseteq Range(d.queue)
<1>1. CASE d.protocol = "gsaw"
  <2>1. NckDecFlushSource(d) = Skipped(d)
    BY <1>1 DEF NckDecFlushSource, GsawDecFlushSource, Skipped
  <2> QED
    BY <2>1, SkippedOk
<1>2. CASE d.protocol = "pace"
  <2>1. NckDecFlushSource(d) = QueueSourceReady(Skipped(d))
    BY <1>2 DEF NckDecFlushSource, PaceDecFlushSource, Skipped
  <2> QED
    BY <2>1, ToldOk
<1>3. CASE d.protocol = "noack" /\ ~d.flush
  <2>1. NckDecFlushSource(d) = QueueSourceReady(Skipped(d))
    BY <1>3 DEF NckDecFlushSource, NoackDecFlushSource, Skipped
  <2> QED
    BY <2>1, ToldOk
<1>4. CASE d.protocol = "noack" /\ d.flush
  <2>1. NckDecFlushSource(d) = d
    BY <1>4 DEF NckDecFlushSource, NoackDecFlushSource
  <2>2. Goes(d, d) /\ Alike(d, d, Taken \cup {"flush"})
    BY GoesStill DEF DecOk, Coder, Alike
  <2> QED
    BY <1>4, <2>1, <2>2
<1> QED
  BY <1>1, <1>2, <1>3, <1>4

LEMMA GetSourceOk ==
  ASSUME NEW known \in SUBSET Slots, NEW d, DecOk(d, known),
         d.protocol \in {"gsaw", "noack", "pace"}
  PROVE  /\ NckDecHasSource(d) <=> QueueHasSource(d)
         /\ NckDecHasSource(d) => NckDecGetSource(d) = QueueGetSource(d)
<1>1. CASE d.protocol = "gsaw"
  <2>1. d.queue = <<>>
    BY <1>1 DEF DecOk
  <2> QED
    BY <1>1, <2>1 DEF NckDecHasSource, NckDecGetSource, GsawDecHasSource, GsawDecGetSource,
                      QueueHasSource, QueueGetSource
<1>2. CASE d.protocol = "noack"
  BY <1>2 DEF NckDecHasSource, NckDecGetSource, NoackDecHasSource, NoackDecGetSource
<1>3. CASE d.protocol = "pace"
  BY <1>3 DEF NckDecHasSource, NckDecGetSource, PaceDecHasSource, PaceDecGetSource
<1> QED
  BY <1>1, <1>2, <1>3

(* GSAW's decoder opens the next generation when it has handed out this    *)
(* one, and begins with the first it hears of.                             *)
LEMMA GsawOpenOk ==
  ASSUME NEW known \in SUBSET Slots, NEW d, DecOk(d, known), d.protocol = "gsaw"
  PROVE  LET n == GsawDecOpen(d)
         IN DecOk(n, known) /\ Goes(d, n) /\ n.protocol = "gsaw"
<1> DEFINE n == [d EXCEPT !.generation = @ + 1, !.index = 0, !.flush = FALSE,
                          !.span = EmptySpan]
<1>0. Coder(d) /\ d.queue = <<>> /\ d.generation \in Nat /\ Symbols \in Nat
  BY SymbolsAssumption DEF DecOk, Coder
<1>1. CASE ~GsawDecComplete(d)
  <2>1. GsawDecOpen(d) = d
    BY <1>1 DEF GsawDecOpen
  <2> QED
    BY <1>0, <2>1, GoesStill
<1>2. CASE GsawDecComplete(d)
  <2> DEFINE changed == {"generation", "index", "flush", "span"}
  <2>1. GsawDecOpen(d) = n
    BY <1>2 DEF GsawDecOpen
  <2>2. /\ Alike(n, d, changed) /\ n.generation = d.generation + 1 /\ n.index = 0
        /\ n.flush = FALSE /\ n.span = EmptySpan /\ n.queue = d.queue
        /\ n.protocol = d.protocol
    BY <1>0 DEF Coder, CoderFields, Alike
  <2> HIDE DEF n
  <2>3. Ready(d.span, d.index) = {}
    BY <1>0, <1>2 DEF GsawDecComplete, Ready
  <2>4. /\ n.queue \in Seq(Slots) /\ Ascends(n.queue)
        /\ Range(n.queue) = SlotsOf(d.generation, Ready(d.span, d.index))
        /\ Range(n.queue) \subseteq known
    BY <1>0, <2>2, <2>3 DEF Ascends, Range, SlotsOf
  <2>5. n.generation \in Nat /\ n.generation > d.generation
    BY <1>0, <2>2
  <2>6. changed \cap CoderFields \subseteq {"queue", "generation", "index", "flush", "span"}
    BY DEF CoderFields
  <2>7. DecOk(n, known) /\ Goes(d, n)
    <3> HIDE DEF changed
    <3> QED
      BY <1>0, <2>2, <2>4, <2>5, <2>6, NextOk, OverGoes
  <2> QED
    BY <2>1, <2>2, <2>7 DEF n
<1> QED
  BY <1>1, <1>2

LEMMA GsawFirstOk ==
  ASSUME NEW known \in SUBSET Slots, NEW d, DecOk(d, known), d.protocol = "gsaw",
         d.generation = 0, NEW g \in Generations
  PROVE  LET n == [d EXCEPT !.generation = g]
         IN DecOk(n, known) /\ Goes(d, n) /\ n.protocol = "gsaw" /\ n.generation = g
<1> DEFINE n == [d EXCEPT !.generation = g]
<1>0. /\ Coder(d) /\ d.queue = <<>> /\ Symbols \in Nat /\ d.index \in 0 .. Symbols
      /\ d.read \in Seq(Slots) /\ g \in Nat /\ g # 0
  BY SymbolsAssumption DEF DecOk, Coder, Generations
<1>1. /\ DOMAIN n = DOMAIN d /\ n = [x \in DOMAIN n |-> n[x]]
      /\ n.protocol = d.protocol /\ n.generation = g /\ n.span = d.span
      /\ n.index = d.index /\ n.flush = d.flush /\ n.queue = d.queue /\ n.read = d.read
      /\ n.eager = d.eager
  BY <1>0 DEF Coder, CoderFields
<1> HIDE DEF n
<1>2. Coder(n)
  BY <1>0, <1>1 DEF Coder
<1>3. \A v \in d.span : v = {}
  <2> SUFFICES ASSUME NEW v \in d.span, NEW i \in v PROVE FALSE
    OBVIOUS
  <2>1. <<0, i>> \in SlotsOf(d.generation, v)
    BY DEF SlotsOf
  <2>2. <<0, i>> \in Slots
    BY <2>1 DEF DecOk, SpanOrigin, Origin
  <2>3. 0 \in Generations
    BY <2>2 DEF Slots
  <2> QED
    BY <2>3 DEF Generations
<1>4. SpanOrigin(n, known)
  BY <1>1, <1>3 DEF SpanOrigin, Origin, SlotsOf
<1>5. ASSUME NEW s \in Range(n.read) \cup Range(n.queue)
      PROVE  Before(s, <<n.generation, n.index + 1>>)
  <2>1. s \in Slots /\ Before(s, <<0, d.index + 1>>)
    BY <1>0, <1>1 DEF DecOk, InTurn, Range
  <2>2. d.index + 1 \in Nat
    BY <1>0
  <2>3. Before(s, <<g, d.index + 1>>)
    BY <1>0, <2>1, <2>2, SlotNumbers DEF Before, Generations
  <2> QED
    BY <1>1, <2>3
<1>6. DecOk(n, known)
  BY <1>1, <1>2, <1>4, <1>5 DEF DecOk, InTurn, Aligned
<1>7. Ready(d.span, d.index) = {}
  BY <1>3 DEF Ready, IsSymbolUncoded
<1>8. QueuePending(d) \subseteq QueuePending(n)
  BY <1>1, <1>7 DEF QueuePending, SlotsOf
<1>9. Goes(d, n)
  BY <1>0, <1>1, <1>8, GoesStill
<1> QED
  BY <1>1, <1>6, <1>9 DEF n

(* A packet is read and the application is told of what is new.            *)
LEMMA ReadToldOk ==
  ASSUME NEW known \in SUBSET Slots, NEW d, DecOk(d, known), NEW pkt \in Packets,
         Origin(pkt.generation, pkt.vec, known), d.generation = pkt.generation,
         NEW n, NEW changed, changed \cap CoderFields \subseteq {"span"},
         Alike(n, d, changed), n.span = ReadPayload(d.span, pkt.vec)
  PROVE  LET m == QueueSourceReady(n)
         IN DecOk(m, known) /\ Goes(d, m) /\ m.generation = d.generation
<1> DEFINE m == QueueSourceReady(n)
<1>1. pkt.vec \in Vectors
  BY DEF Packets
<1>2. DecOk(n, known) /\ Goes(d, n)
  BY <1>1, ReadOk
<1>3. DecOk(m, known) /\ Goes(n, m) /\ Same(m, n)
  BY <1>2, SourceReadyOk
<1> HIDE DEF m
<1>4. Goes(d, m)
  BY <1>2, <1>3, GoesOn
<1>5. n.generation = d.generation
  BY DEF DecOk, Coder, CoderFields, Alike
<1>6. m.generation = n.generation
  BY <1>2, <1>3, SameFields DEF DecOk
<1> QED
  BY <1>3, <1>4, <1>5, <1>6 DEF m

LEMMA GsawPutCodedOk ==
  ASSUME NEW known \in SUBSET Slots, NEW d, DecOk(d, known), d.protocol = "gsaw",
         NEW pkt \in Packets, Origin(pkt.generation, pkt.vec, known)
  PROVE  LET n == GsawDecPutCoded(d, pkt) IN DecOk(n, known) /\ Goes(d, n)
<1> DEFINE open == GsawDecOpen(d)
           at   == IF open.generation = 0 THEN [open EXCEPT !.generation = pkt.generation]
                   ELSE open
           read == [at EXCEPT !.span = ReadPayload(@, pkt.vec)]
           told == IF pkt.rank = Rank(read.span)
                   THEN Report(read, pkt.generation, pkt.rank) ELSE read
           away == Report(at, pkt.generation, Symbols)
           n == GsawDecPutCoded(d, pkt)
<1>1. n = IF at.generation < pkt.generation THEN away
          ELSE IF at.generation > pkt.generation THEN at
          ELSE QueueSourceReady(told)
  BY DEF GsawDecPutCoded
<1> HIDE DEF n
<1>2. DecOk(open, known) /\ Goes(d, open) /\ open.protocol = "gsaw"
  BY GsawOpenOk
<1> HIDE DEF open
<1>3. DecOk(at, known) /\ Goes(d, at)
  <2>1. pkt.generation \in Generations
    BY DEF Packets
  <2>2. CASE open.generation = 0
    <3>1. DecOk(at, known) /\ Goes(open, at)
      BY <1>2, <2>1, <2>2, GsawFirstOk
    <3> HIDE DEF at
    <3> QED
      BY <1>2, <3>1, GoesOn
  <2>3. CASE open.generation # 0
    BY <1>2, <2>3
  <2> QED
    BY <2>2, <2>3
<1> HIDE DEF at
<1>4. Coder(at) /\ at.generation \in Nat /\ pkt.generation \in Nat
  BY <1>3 DEF DecOk, Coder, Packets, Generations
<1>5. CASE at.generation < pkt.generation
  <2>1. Alike(away, at, {"feedback_generation", "feedback_rank"})
    BY <1>4 DEF Report, Alike, Coder
  <2>2. {"feedback_generation", "feedback_rank"} \cap CoderFields = {}
    BY DEF CoderFields
  <2> HIDE DEF away
  <2>3. DecOk(away, known) /\ Goes(at, away)
    BY <1>3, <2>1, <2>2, AlikeOk
  <2>4. Goes(d, away)
    BY <1>3, <2>3, GoesOn
  <2>5. n = away
    BY <1>1, <1>5
  <2> QED
    BY <2>3, <2>4, <2>5 DEF n
<1>6. CASE at.generation > pkt.generation
  <2>1. n = at
    BY <1>1, <1>4, <1>6
  <2> QED
    BY <1>3, <2>1 DEF n
<1>7. CASE at.generation = pkt.generation
  <2> DEFINE changed == {"feedback_generation", "feedback_rank", "span"}
             m == QueueSourceReady(told)
  <2>1. Alike(told, at, changed) /\ told.span = ReadPayload(at.span, pkt.vec)
    <3>1. Alike(read, at, {"span"}) /\ read.span = ReadPayload(at.span, pkt.vec)
      BY <1>4 DEF Alike, Coder, CoderFields
    <3> HIDE DEF read
    <3>2. Alike(told, read, {"feedback_generation", "feedback_rank"})
      BY <3>1 DEF Report, Alike
    <3>3. told.span = read.span
      BY <1>4, <3>1, <3>2 DEF Alike, Coder, CoderFields
    <3> HIDE DEF told
    <3> QED
      BY <3>1, <3>2, <3>3 DEF Alike
  <2>2. changed \cap CoderFields \subseteq {"span"}
    BY DEF CoderFields
  <2> HIDE DEF told, changed
  <2>3. DecOk(m, known) /\ Goes(at, m)
    BY <1>3, <1>7, <2>1, <2>2, ReadToldOk
  <2> HIDE DEF m
  <2>4. Goes(d, m)
    BY <1>3, <2>3, GoesOn
  <2>5. n = m
    BY <1>1, <1>4, <1>7 DEF m
  <2> QED
    BY <2>3, <2>4, <2>5 DEF n
<1> QED
  BY <1>4, <1>5, <1>6, <1>7 DEF n

LEMMA NoackPutCodedOk ==
  ASSUME NEW known \in SUBSET Slots, NEW d, DecOk(d, known), d.protocol = "noack",
         NEW pkt \in Packets, Origin(pkt.generation, pkt.vec, known)
  PROVE  LET n == NoackDecPutCoded(d, pkt) IN DecOk(n, known) /\ Over(d, n)
<1> DEFINE at   == IF d.generation = pkt.generation THEN d ELSE NoackDecNext(d, pkt.generation)
           read == [at EXCEPT !.span = ReadPayload(@, pkt.vec),
                              !.timer = IF at.flush THEN @ ELSE d.timeout]
           n == NoackDecPutCoded(d, pkt)
           m == QueueSourceReady(read)
<1>0. pkt.generation \in Nat /\ d.generation \in Nat
  BY DEF DecOk, Coder, Packets, Generations
<1>1. n = IF d.generation > pkt.generation THEN d ELSE m
  BY DEF NoackDecPutCoded
<1> HIDE DEF n
<1>2. CASE d.generation > pkt.generation
  <2>1. n = d
    BY <1>1, <1>2
  <2> QED
    BY <2>1, GoesStill, OverGoes DEF n, DecOk
<1>3. CASE ~(d.generation > pkt.generation)
  <2>1. DecOk(at, known) /\ Over(d, at) /\ at.generation = pkt.generation
    <3>1. CASE d.generation = pkt.generation
      <4>1. at = d
        BY <3>1
      <4> QED
        BY <3>1, <4>1, GoesStill, OverGoes DEF DecOk
    <3>2. CASE d.generation # pkt.generation
      <4> DEFINE over == IF NoackDecComplete(d) THEN d ELSE NoackDecFlushSource(d)
                 q == FlushQueue(over)
                 next == [over EXCEPT !.queue = q, !.generation = pkt.generation,
                                      !.index = 0, !.flush = FALSE, !.span = EmptySpan]
                 changed == {"queue", "generation", "index", "flush", "span"}
      <4>1. at = next
        BY <3>2 DEF NoackDecNext
      <4>2. /\ DecOk(over, known) /\ Goes(d, over) /\ Range(over.queue) \subseteq Range(d.queue)
            /\ over.generation = d.generation /\ over.protocol = "noack"
        <5>1. CASE NoackDecComplete(d)
          BY <5>1, GoesStill DEF DecOk
        <5>2. CASE ~NoackDecComplete(d)
          <6>1. over = NckDecFlushSource(d)
            BY <5>2 DEF NckDecFlushSource
          <6> HIDE DEF over
          <6>2. DecOk(over, known) /\ Goes(d, over) /\ Range(over.queue) \subseteq Range(d.queue)
                /\ Alike(over, d, Taken \cup {"flush"})
            BY <6>1, FlushSourceOk
          <6>3. over.generation = d.generation /\ over.protocol = d.protocol
            BY <6>2 DEF Alike, Taken, DecOk, Coder, CoderFields
          <6> QED
            BY <6>2, <6>3
        <5> QED
          BY <5>1, <5>2
      <4> HIDE DEF over
      <4>3. /\ q \in Seq(Slots) /\ Ascends(q) /\ Range(q) \subseteq known
            /\ Range(q) = SlotsOf(over.generation, Ready(over.span, over.index))
        BY <4>2, FlushQueueOk DEF DecOk
      <4> HIDE DEF q
      <4>4. /\ Alike(next, over, changed) /\ next.generation = pkt.generation
            /\ next.index = 0 /\ next.flush = FALSE /\ next.span = EmptySpan
            /\ next.queue = q
        BY <4>2 DEF DecOk, Coder, CoderFields, Alike
      <4>5. changed \cap CoderFields \subseteq {"queue", "generation", "index", "flush", "span"}
        BY DEF CoderFields
      <4> HIDE DEF next, changed
      <4>6. next.generation \in Nat /\ next.generation > over.generation
        BY <1>0, <1>3, <3>2, <4>2, <4>4
      <4>7. DecOk(next, known) /\ Over(over, next)
        BY <4>2, <4>3, <4>4, <4>5, <4>6, NextOk
      <4>8. Over(d, next)
        BY <4>2, <4>7, GoesOver
      <4> QED
        BY <4>1, <4>4, <4>7, <4>8
    <3> QED
      BY <3>1, <3>2
  <2> HIDE DEF at
  <2> DEFINE altered == {"span", "timer"}
  <2>2. Alike(read, at, altered) /\ read.span = ReadPayload(at.span, pkt.vec)
    BY <2>1 DEF DecOk, Coder, CoderFields, Alike
  <2>3. altered \cap CoderFields \subseteq {"span"}
    BY DEF CoderFields
  <2> HIDE DEF read, altered
  <2>4. DecOk(m, known) /\ Goes(at, m) /\ m.generation = at.generation
    BY <2>1, <2>2, <2>3, ReadToldOk
  <2> HIDE DEF m
  <2>5. Over(d, m)
    BY <2>1, <2>4, OverOn
  <2>6. n = m
    BY <1>1, <1>3
  <2> QED
    BY <2>4, <2>5, <2>6 DEF n
<1> QED
  BY <1>2, <1>3

LEMMA PacePutCodedOk ==
  ASSUME NEW known \in SUBSET Slots, NEW d, DecOk(d, known), d.protocol = "pace",
         NEW pkt \in Packets, Origin(pkt.generation, pkt.vec, known)
  PROVE  LET n == PaceDecPutCoded(d, pkt) IN DecOk(n, known) /\ Over(d, n)
<1> DEFINE at   == IF d.generation < pkt.generation THEN PaceDecNext(d, pkt.generation) ELSE d
           span == ReadPayload(at.span, pkt.vec)
           read == [at EXCEPT !.span = span, !.rank = Rank(span), !.fb_timer = d.timeout]
           told == IF PaceReports(read, pkt) THEN Report(read, read.generation, read.rank)
                   ELSE read
           m == QueueSourceReady(told)
           last == [m EXCEPT !.prev_rank = Rank(span)]
           n == PaceDecPutCoded(d, pkt)
<1>0. pkt.generation \in Nat /\ d.generation \in Nat
  BY DEF DecOk, Coder, Packets, Generations
<1>1. n = IF d.generation > pkt.generation THEN d ELSE last
  BY DEF PaceDecPutCoded
<1> HIDE DEF n
<1>2. CASE d.generation > pkt.generation
  <2>1. n = d
    BY <1>1, <1>2
  <2> QED
    BY <2>1, GoesStill, OverGoes DEF n, DecOk
<1>3. CASE ~(d.generation > pkt.generation)
  <2>1. DecOk(at, known) /\ Over(d, at) /\ at.generation = pkt.generation
    <3>1. CASE ~(d.generation < pkt.generation)
      <4>1. at = d
        BY <3>1
      <4>2. d.generation = pkt.generation
        BY <1>0, <1>3, <3>1
      <4> QED
        BY <4>1, <4>2, GoesStill, OverGoes DEF DecOk
    <3>2. CASE d.generation < pkt.generation
      <4> DEFINE over == PaceDecFlushSource(d)
                 q == FlushQueue(over)
                 rep == Report(over, 0, 0)
                 next == [rep EXCEPT !.queue = q, !.generation = pkt.generation, !.rank = 0,
                                     !.index = 0, !.flush = FALSE, !.span = EmptySpan]
                 changed == {"queue", "generation", "rank", "index", "flush", "span",
                             "feedback_generation", "feedback_rank"}
      <4>1. at = next
        BY <3>2 DEF PaceDecNext
      <4>2. /\ DecOk(over, known) /\ Goes(d, over) /\ Range(over.queue) \subseteq Range(d.queue)
            /\ over.generation = d.generation /\ over.protocol = "pace"
        <5>1. over = NckDecFlushSource(d)
          BY DEF NckDecFlushSource
        <5> HIDE DEF over
        <5>2. DecOk(over, known) /\ Goes(d, over) /\ Range(over.queue) \subseteq Range(d.queue)
              /\ Alike(over, d, Taken \cup {"flush"})
          BY <5>1, FlushSourceOk
        <5>3. over.generation = d.generation /\ over.protocol = d.protocol
          BY <5>2 DEF Alike, Taken, DecOk, Coder, CoderFields
        <5> QED
          BY <5>2, <5>3
      <4> HIDE DEF over
      <4>3. /\ q \in Seq(Slots) /\ Ascends(q) /\ Range(q) \subseteq known
            /\ Range(q) = SlotsOf(over.generation, Ready(over.span, over.index))
        BY <4>2, FlushQueueOk DEF DecOk
      <4> HIDE DEF q
      <4>4. /\ Alike(next, over, changed) /\ next.generation = pkt.generation
            /\ next.index = 0 /\ next.flush = FALSE /\ next.span = EmptySpan
            /\ next.queue = q
        <5>1. Alike(rep, over, {"feedback_generation", "feedback_rank"})
          BY <4>2 DEF Report, DecOk, Coder, Alike
        <5> HIDE DEF rep
        <5>2. /\ DOMAIN next = DOMAIN rep /\ next = [x \in DOMAIN next |-> next[x]]
              /\ \A x \in DOMAIN rep \ changed : next[x] = rep[x]
          OBVIOUS
        <5>3. CoderFields \subseteq DOMAIN rep
          BY <4>2, <5>1 DEF Alike, DecOk, Coder
        <5>4. /\ next.generation = pkt.generation
              /\ next.index = 0 /\ next.flush = FALSE /\ next.span = EmptySpan
              /\ next.queue = q
          BY <5>3 DEF CoderFields
        <5> HIDE DEF next
        <5>5. Alike(next, over, changed)
          BY <5>1, <5>2 DEF Alike
        <5> QED
          BY <5>4, <5>5
      <4>5. changed \cap CoderFields \subseteq {"queue", "generation", "index", "flush", "span"}
        BY DEF CoderFields
      <4> HIDE DEF next, changed
      <4>6. next.generation \in Nat /\ next.generation > over.generation
        BY <1>0, <3>2, <4>2, <4>4
      <4>7. DecOk(next, known) /\ Over(over, next)
        BY <4>2, <4>3, <4>4, <4>5, <4>6, NextOk
      <4>8. Over(d, next)
        BY <4>2, <4>7, GoesOver
      <4> QED
        BY <4>1, <4>4, <4>7, <4>8
    <3> QED
      BY <3>1, <3>2
  <2> HIDE DEF at
  <2> DEFINE altered == {"span", "rank", "fb_timer", "feedback_generation", "feedback_rank"}
  <2>2. Alike(told, at, altered) /\ told.span = ReadPayload(at.span, pkt.vec)
    <3>1. Alike(read, at, {"span", "rank", "fb_timer"}) /\ read.span = span
      BY <2>1 DEF Alike, DecOk, Coder, CoderFields
    <3> HIDE DEF read
    <3>2. Alike(told, read, {"feedback_generation", "feedback_rank"})
      BY <3>1 DEF Report, Alike
    <3>3. told.span = read.span
      BY <2>1, <3>1, <3>2 DEF Alike, DecOk, Coder, CoderFields
    <3> HIDE DEF told
    <3> QED
      BY <3>1, <3>2, <3>3 DEF Alike
  <2>3. altered \cap CoderFields \subseteq {"span"}
    BY DEF CoderFields
  <2> HIDE DEF told, altered, span
  <2>4. DecOk(m, known) /\ Goes(at, m) /\ m.generation = at.generation
    BY <2>1, <2>2, <2>3, ReadToldOk
  <2> HIDE DEF m
  <2>5. Alike(last, m, {"prev_rank"}) /\ {"prev_rank"} \cap CoderFields = {}
    BY <2>4 DEF Alike, DecOk, Coder, CoderFields
  <2> HIDE DEF last
  <2>6. DecOk(last, known) /\ Goes(m, last)
    BY <2>4, <2>5, AlikeOk
  <2>7. Over(d, last)
    <3>1. last.generation = m.generation
      BY <2>4, <2>5 DEF Alike, DecOk, Coder, CoderFields
    <3>2. Over(d, m)
      BY <2>1, <2>4, OverOn
    <3> QED
      BY <2>4, <2>6, <3>1, <3>2, OverOn
  <2>8. n = last
    BY <1>1, <1>3
  <2> QED
    BY <2>6, <2>7, <2>8 DEF n
<1> QED
  BY <1>2, <1>3

-----------------------------------------------------------------------------
(* The calls of the recoders.                                              *)
LEMMA CoreReady ==
  ASSUME NEW known \in SUBSET Slots, NEW r, RecCore(r, known)
  PROVE  LET n == QueueSourceReady(r)
         IN RecCore(n, known) /\ Same(n, r) /\ Alike(n, r, Taken)
<1> DEFINE n == QueueSourceReady(r)
<1>1. Coder(n) /\ Same(n, r)
  BY SourceReadyKeeps DEF RecCore
<1> HIDE DEF n
<1>2. n.generation = r.generation /\ n.span = r.span /\ n = [x \in DOMAIN n |-> n[x]]
  BY <1>1, SameFields DEF RecCore, Coder
<1>3. RecCore(n, known) /\ Alike(n, r, Taken)
  BY <1>1, <1>2 DEF RecCore, SpanOrigin, Alike, Same
<1> QED
  BY <1>1, <1>3 DEF n

LEMMA CoreAlike ==
  ASSUME NEW known, NEW r, RecCore(r, known), NEW n, NEW changed,
         changed \cap CoderFields \subseteq {"flush", "index"}, Alike(n, r, changed),
         n.flush \in BOOLEAN, n.index \in 0 .. Symbols
  PROVE  RecCore(n, known) /\ n.protocol = r.protocol /\ n.span = r.span
         /\ n.generation = r.generation /\ n.queue = r.queue
<1>1. Coder(r)
  BY DEF RecCore
<1>2. \A x \in CoderFields \ {"flush", "index"} : n[x] = r[x]
  BY <1>1 DEF Alike, Coder
<1>3. /\ n.protocol = r.protocol /\ n.generation = r.generation /\ n.span = r.span
      /\ n.queue = r.queue /\ n.read = r.read /\ n.eager = r.eager
  BY <1>2 DEF CoderFields
<1>4. CoderFields \subseteq DOMAIN n /\ n = [x \in DOMAIN n |-> n[x]]
  BY <1>1 DEF Coder, Alike
<1>5. Coder(n)
  BY <1>1, <1>3, <1>4 DEF Coder
<1> QED
  BY <1>3, <1>5 DEF RecCore, SpanOrigin

LEMMA CoreRead ==
  ASSUME NEW known, NEW r, RecCore(r, known), NEW v \in Vectors,
         Origin(r.generation, v, known), NEW n, NEW changed,
         changed \cap CoderFields \subseteq {"span"}, Alike(n, r, changed),
         n.span = ReadPayload(r.span, v)
  PROVE  RecCore(n, known) /\ n.protocol = r.protocol /\ n.generation = r.generation
<1>1. Coder(r) /\ r.span \in SUBSET Vectors
  BY DEF RecCore, Coder
<1>2. \A x \in CoderFields \ {"span"} : n[x] = r[x]
  BY <1>1 DEF Alike, Coder
<1>3. /\ n.protocol = r.protocol /\ n.generation = r.generation
      /\ n.index = r.index /\ n.flush = r.flush /\ n.queue = r.queue /\ n.read = r.read
      /\ n.eager = r.eager
  BY <1>2 DEF CoderFields
<1>4. n.span \in SUBSET Vectors
  BY <1>1, SpanType
<1>5. CoderFields \subseteq DOMAIN n /\ n = [x \in DOMAIN n |-> n[x]]
  BY <1>1 DEF Coder, Alike
<1>6. Coder(n)
  BY <1>1, <1>3, <1>4, <1>5 DEF Coder
<1>7. SpanOrigin(n, known)
  <2> SUFFICES ASSUME NEW w \in n.span PROVE SlotsOf(r.generation, w) \subseteq known
    BY <1>3 DEF SpanOrigin, Origin
  <2>1. SlotsOf(r.generation, v) \subseteq known
    BY DEF Origin
  <2>2. \A u \in r.span : SlotsOf(r.generation, u) \subseteq known
    BY DEF RecCore, SpanOrigin, Origin
  <2>3. PICK u \in r.span : w = u \/ w = Plus(u, v)
    BY DEF ReadPayload
  <2> QED
    BY <2>1, <2>2, <2>3 DEF SlotsOf, Plus
<1> QED
  BY <1>3, <1>6, <1>7 DEF RecCore

LEMMA CoreNext ==
  ASSUME NEW known, NEW r, RecCore(r, known), NEW n, NEW changed,
         changed \cap CoderFields
           \subseteq {"queue", "generation", "index", "flush", "span"},
         Alike(n, r, changed), n.generation \in Generations, n.index = 0, n.flush = FALSE,
         n.span = EmptySpan, n.queue \in Seq(Slots)
  PROVE  RecCore(n, known) /\ n.protocol = r.protocol
<1>1. Coder(r) /\ Symbols \in Nat
  BY SymbolsAssumption DEF RecCore
<1>2. \A x \in {"protocol", "read", "eager"} : n[x] = r[x]
  BY <1>1 DEF Alike, Coder, CoderFields
<1>3. n.protocol = r.protocol /\ n.read = r.read /\ n.eager = r.eager
  BY <1>2
<1>4. n.span \in SUBSET Vectors
  BY SpanType
<1>5. n.index \in 0 .. Symbols /\ n.generation \in Nat
  BY <1>1 DEF Generations
<1>6. CoderFields \subseteq DOMAIN n /\ n = [x \in DOMAIN n |-> n[x]]
  BY <1>1 DEF Coder, Alike
<1>7. Coder(n)
  BY <1>1, <1>3, <1>4, <1>5, <1>6, Zenon DEF Coder
<1>8. SpanOrigin(n, known)
  BY DEF SpanOrigin, Origin, SlotsOf, EmptySpan
<1> QED
  BY <1>3, <1>7, <1>8 DEF RecCore

LEMMA NoackRecPutCodedOk ==
  ASSUME NEW known \in SUBSET Slots, NEW r, RecCore(r, known), NEW pkt \in Packets,
         Origin(pkt.generation, pkt.vec, known)
  PROVE  LET n == NoackRecPutCoded(r, pkt) IN RecCore(n, known) /\ n.protocol = r.protocol
<1> DEFINE at   == IF r.generation = pkt.generation THEN r ELSE NoackRecNext(r, pkt.generation)
           read == [at EXCEPT !.span = ReadPayload(@, pkt.vec),
                              !.timer = IF at.flush THEN @ ELSE r.timeout]
           paid == IF Rank(read.span) > Rank(at.span) THEN [read EXCEPT !.limit = @ + 1]
                   ELSE read
           m == QueueSourceReady(paid)
           n == NoackRecPutCoded(r, pkt)
<1>1. n = IF r.generation > pkt.generation THEN r ELSE m
  BY DEF NoackRecPutCoded
<1>2. pkt.vec \in Vectors /\ pkt.generation \in Generations
  BY DEF Packets
<1> HIDE DEF n
<1>3. RecCore(at, known) /\ at.generation = pkt.generation /\ at.protocol = r.protocol
  <2>1. CASE r.generation = pkt.generation
    BY <2>1
  <2>2. CASE r.generation # pkt.generation
    <3> DEFINE told == NoackRecFlushSource(r)
               so == QueueSourceReady(told)
               next == [so EXCEPT !.generation = pkt.generation, !.index = 0, !.flush = FALSE,
                                  !.limit = 0, !.span = EmptySpan]
               changed == {"generation", "index", "flush", "limit", "span"}
    <3>1. at = next
      BY <2>2 DEF NoackRecNext
    <3>2. RecCore(told, known) /\ told.protocol = r.protocol
      <4>1. Alike(told, r, {"flush"}) /\ told.flush = TRUE /\ told.index = r.index
            /\ {"flush"} \cap CoderFields \subseteq {"flush", "index"} /\ r.index \in 0 .. Symbols
        BY DEF NoackRecFlushSource, RecCore, Coder, CoderFields, Alike
      <4> HIDE DEF told
      <4> QED
        BY <4>1, CoreAlike
    <3> HIDE DEF told
    <3>3. RecCore(so, known) /\ so.protocol = r.protocol
      <4>1. RecCore(so, known) /\ Same(so, told)
        BY <3>2, CoreReady
      <4> QED
        BY <3>2, <4>1, SameFields DEF RecCore
    <3> HIDE DEF so
    <3>4. /\ Alike(next, so, changed) /\ next.generation = pkt.generation /\ next.index = 0
          /\ next.flush = FALSE /\ next.span = EmptySpan /\ next.queue = so.queue
          /\ so.queue \in Seq(Slots)
      BY <3>3 DEF RecCore, Coder, CoderFields, Alike
    <3>5. changed \cap CoderFields \subseteq {"queue", "generation", "index", "flush", "span"}
      BY DEF CoderFields
    <3> HIDE DEF next, changed
    <3>6. RecCore(next, known) /\ next.protocol = so.protocol
      BY <1>2, <3>3, <3>4, <3>5, CoreNext
    <3> QED
      BY <3>1, <3>3, <3>4, <3>6
  <2> QED
    BY <2>1, <2>2
<1> HIDE DEF at
<1>4. RecCore(read, known) /\ read.protocol = r.protocol
  <2> DEFINE changed == {"span", "timer"}
  <2>1. Alike(read, at, changed) /\ read.span = ReadPayload(at.span, pkt.vec)
    BY <1>3 DEF RecCore, Coder, CoderFields, Alike
  <2>2. changed \cap CoderFields \subseteq {"span"}
    BY DEF CoderFields
  <2> HIDE DEF read, changed
  <2> QED
    BY <1>2, <1>3, <2>1, <2>2, CoreRead
<1> HIDE DEF read
<1>5. RecCore(paid, known) /\ paid.protocol = r.protocol
  <2>1. Alike(paid, read, {"limit"}) /\ {"limit"} \cap CoderFields \subseteq {"flush", "index"}
    BY <1>4 DEF RecCore, Coder, CoderFields, Alike
  <2>2. paid.flush = read.flush /\ paid.index = read.index
    BY <1>4, <2>1 DEF RecCore, Coder, CoderFields, Alike
  <2>3. paid.flush \in BOOLEAN /\ paid.index \in 0 .. Symbols
    BY <1>4, <2>2 DEF RecCore, Coder
  <2> HIDE DEF paid
  <2> QED
    BY <1>4, <2>1, <2>3, CoreAlike
<1> HIDE DEF paid
<1>6. RecCore(m, known) /\ m.protocol = r.protocol
  <2>1. RecCore(m, known) /\ Same(m, paid)
    BY <1>5, CoreReady
  <2> QED
    BY <1>5, <2>1, SameFields DEF RecCore
<1> HIDE DEF m
<1> QED
  BY <1>1, <1>6 DEF n

-----------------------------------------------------------------------------
(* PACE's receivers only go on.                                            *)
Further(c, n) ==
  \/ n.generation > c.generation
  \/ n.generation = c.generation /\ Rank(n.span) >= Rank(c.span)

Numbered(c) == c.generation \in Nat /\ c.span \in SUBSET Vectors

LEMMA TellsOn ==
  ASSUME NEW c, NEW n, Numbered(c), Numbered(n), Further(c, n), NEW fb,
         fb.generation \in Nat, fb.rank \in Nat, Tells(c, fb)
  PROVE  Tells(n, fb)
<1>1. Rank(c.span) \in Nat /\ Rank(n.span) \in Nat
  BY RankType, SymbolsAssumption DEF Numbered
<1> QED
  BY <1>1 DEF Numbered, Further, Tells

LEMMA FurtherOn ==
  ASSUME NEW c, NEW m, NEW n, Numbered(c), Numbered(m), Numbered(n), Further(c, m),
         Further(m, n)
  PROVE  Further(c, n)
<1>1. Rank(c.span) \in Nat /\ Rank(m.span) \in Nat /\ Rank(n.span) \in Nat
  BY RankType, SymbolsAssumption DEF Numbered
<1> QED
  BY <1>1 DEF Numbered, Further

LEMMA FurtherSame ==
  ASSUME NEW c, NEW n, Numbered(c), n.generation = c.generation, n.span = c.span
  PROVE  Further(c, n)
<1>1. Rank(c.span) \in Nat
  BY RankType, SymbolsAssumption DEF Numbered
<1> QED
  BY <1>1 DEF Further

(* What its report speaks of does not change.                              *)
LEMMA RatedAlike ==
  ASSUME NEW c, Rated(c), NEW n, NEW changed, Alike(n, c, changed),
         changed \cap RatedFields = {}, n.generation = c.generation, n.span = c.span
  PROVE  Rated(n)
<1>1. \A x \in RatedFields : n[x] = c[x]
  BY DEF Alike, Rated
<1>2. /\ n.rank = c.rank /\ n.feedback_generation = c.feedback_generation
      /\ n.feedback_rank = c.feedback_rank
  BY <1>1 DEF RatedFields
<1> QED
  BY <1>2 DEF Rated, Alike, HasReport, ReportOf, Tells

LEMMA PaceSkipOk ==
  ASSUME NEW known \in SUBSET Slots, NEW r, RecCore(r, known)
  PROVE  LET n == QueueSourceReady(Skipped(r))
         IN RecCore(n, known) /\ Alike(n, r, Taken \cup {"flush"})
<1> DEFINE m == Skipped(r)
           n == QueueSourceReady(m)
<1>1. /\ Alike(m, r, {"flush", "index"}) /\ m.flush = TRUE
      /\ m.index = SkipUndecoded(r.span, r.index)
  BY DEF Skipped, RecCore, Coder, CoderFields, Alike
<1> HIDE DEF m
<1>2. m.index \in 0 .. Symbols
  <2>1. r.index \in 0 .. Symbols /\ Symbols \in Nat
    BY SymbolsAssumption DEF RecCore, Coder
  <2>2. SkipUndecoded(r.span, r.index) \in r.index .. Symbols
    BY <2>1, SkipStops
  <2> QED
    BY <1>1, <2>1, <2>2
<1>3. RecCore(m, known)
  <2>1. {"flush", "index"} \cap CoderFields \subseteq {"flush", "index"}
    OBVIOUS
  <2> QED
    BY <1>1, <1>2, <2>1, CoreAlike
<1>4. RecCore(n, known) /\ Alike(n, m, Taken)
  BY <1>3, CoreReady
<1> HIDE DEF n
<1>5. Alike(n, r, Taken \cup {"flush"})
  BY <1>1, <1>4 DEF Alike, Taken
<1> QED
  BY <1>4, <1>5 DEF m, n

(* A later generation: no report is left.                                  *)
LEMMA PaceNextOk ==
  ASSUME NEW known \in SUBSET Slots, NEW r, RecCore(r, known), Rated(r), NEW n,
         NEW g \in Generations, g > r.generation, NEW changed,
         changed \cap CoderFields
           \subseteq {"queue", "generation", "index", "flush", "span"},
         Alike(n, QueueSourceReady(Skipped(r)), changed),
         n.queue = FlushQueue(QueueSourceReady(Skipped(r))),
         n.generation = g, n.index = 0, n.flush = FALSE, n.span = EmptySpan,
         n.rank = 0, n.feedback_generation = 0, n.feedback_rank = 0
  PROVE  RecCore(n, known) /\ Rated(n) /\ Further(r, n) /\ n.protocol = r.protocol
<1> DEFINE over == QueueSourceReady(Skipped(r))
<1>1. RecCore(over, known) /\ Alike(over, r, Taken \cup {"flush"})
  BY PaceSkipOk
<1>2. Alike(n, over, changed) /\ n.queue = FlushQueue(over)
  OBVIOUS
<1> HIDE DEF over
<1>3. n.queue \in Seq(Slots)
  BY <1>1, <1>2, FlushQueueOk DEF RecCore
<1>4. RecCore(n, known) /\ n.protocol = over.protocol
  BY <1>1, <1>2, <1>3, CoreNext
<1>5. over.protocol = r.protocol
  BY <1>1 DEF Alike, Taken, RecCore, Coder, CoderFields
<1>6. Rated(n)
  <2>1. RatedFields \subseteq DOMAIN n
    BY <1>1, <1>2 DEF Alike, Rated
  <2>2. Rank(n.span) \in 0 .. Symbols /\ Symbols \in Nat
    BY RankType, SpanType, SymbolsAssumption
  <2> QED
    BY <2>1, <2>2 DEF Rated, HasReport
<1>7. Further(r, n)
  BY DEF Further
<1> QED
  BY <1>4, <1>5, <1>6, <1>7

(* A packet is read, and perhaps reported.                                 *)
LEMMA PaceReadOk ==
  ASSUME NEW known \in SUBSET Slots, NEW r, RecCore(r, known), Rated(r), NEW pkt \in Packets,
         Origin(pkt.generation, pkt.vec, known), r.generation = pkt.generation,
         NEW n, NEW changed, changed \cap CoderFields \subseteq {"span"},
         Alike(n, r, changed), n.span = ReadPayload(r.span, pkt.vec), n.rank = Rank(n.span),
         \/ /\ n.feedback_generation = r.feedback_generation
            /\ n.feedback_rank = r.feedback_rank
         \/ n.feedback_generation = r.generation /\ n.feedback_rank = n.rank,
         NEW last, Alike(last, QueueSourceReady(n), {"prev_rank"})
  PROVE  RecCore(last, known) /\ Rated(last) /\ Further(r, last) /\ last.protocol = r.protocol
<1> DEFINE m == QueueSourceReady(n)
<1>1. pkt.vec \in Vectors
  BY DEF Packets
<1>2. RecCore(n, known) /\ n.protocol = r.protocol /\ n.generation = r.generation
  BY <1>1, CoreRead
<1>3. RecCore(m, known) /\ Alike(m, n, Taken)
  BY <1>2, CoreReady
<1> HIDE DEF m
<1>4. /\ RecCore(last, known) /\ last.protocol = m.protocol /\ last.span = m.span
      /\ last.generation = m.generation
  <2>1. {"prev_rank"} \cap CoderFields \subseteq {"flush", "index"} /\ Alike(last, m, {"prev_rank"})
    BY DEF CoderFields, m
  <2>2. last.flush = m.flush /\ last.index = m.index
    BY <1>3, <2>1 DEF Alike, RecCore, Coder, CoderFields
  <2>3. last.flush \in BOOLEAN /\ last.index \in 0 .. Symbols
    BY <1>3, <2>2 DEF RecCore, Coder
  <2> QED
    BY <1>3, <2>1, <2>3, CoreAlike
<1>5. m.protocol = n.protocol /\ m.span = n.span /\ m.generation = n.generation
  BY <1>2, <1>3 DEF Alike, Taken, RecCore, Coder, CoderFields
<1>6. /\ r.span \in SUBSET Vectors /\ n.span \in SUBSET Vectors
      /\ r.generation \in Nat /\ Rank(r.span) <= Rank(n.span)
      /\ Rank(r.span) \in 0 .. Symbols /\ Rank(n.span) \in 0 .. Symbols /\ Symbols \in Nat
  BY <1>1, <1>2, RankType, RankMonotone, SymbolsAssumption DEF RecCore, Coder
<1>7. Rated(n)
  <2>1. RatedFields \subseteq DOMAIN n
    BY DEF Rated, Alike
  <2>2. CASE n.feedback_generation = r.generation /\ n.feedback_rank = n.rank
    BY <1>2, <1>6, <2>1, <2>2 DEF Rated, HasReport, ReportOf, Tells
  <2>3. CASE /\ n.feedback_generation = r.feedback_generation
             /\ n.feedback_rank = r.feedback_rank
    BY <1>2, <1>6, <2>1, <2>3 DEF Rated, HasReport, ReportOf, Tells
  <2> QED
    BY <2>2, <2>3
<1>8. Rated(m)
  BY <1>3, <1>5, <1>7, RatedAlike DEF Taken, RatedFields
<1>9. Rated(last)
  BY <1>4, <1>8, RatedAlike DEF RatedFields, m
<1>10. Further(r, last)
  BY <1>2, <1>4, <1>5, <1>6 DEF Further
<1> QED
  BY <1>2, <1>4, <1>5, <1>9, <1>10

LEMMA PaceRecPutCodedOk ==
  ASSUME NEW known \in SUBSET Slots, NEW r, RecCore(r, known), Rated(r), NEW pkt \in Packets,
         Origin(pkt.generation, pkt.vec, known)
  PROVE  LET n == PaceRecPutCoded(r, pkt)
         IN RecCore(n, known) /\ Rated(n) /\ Further(r, n) /\ n.protocol = r.protocol
<1> DEFINE at   == IF r.generation < pkt.generation THEN PaceRecNext(r, pkt.generation) ELSE r
           span == ReadPayload(at.span, pkt.vec)
           read == [at EXCEPT !.span = span, !.rank = Rank(span), !.fb_timer = r.timeout]
           told == IF PaceReports(read, pkt) THEN Report(read, read.generation, read.rank)
                   ELSE read
           news == [told EXCEPT !.to_send = @ + r.pace_redundancy]
           paid == IF told.rank = told.prev_rank THEN told
                   ELSE IF told.rank = Symbols THEN PaceRecFlushCoded(news) ELSE news
           last == [QueueSourceReady(paid) EXCEPT !.prev_rank = Rank(span)]
           n == PaceRecPutCoded(r, pkt)
<1>0. pkt.generation \in Generations /\ pkt.generation \in Nat /\ r.generation \in Nat
      /\ Numbered(r)
  BY DEF RecCore, Coder, Packets, Generations, Numbered
<1>1. n = IF r.generation > pkt.generation THEN r ELSE last
  BY DEF PaceRecPutCoded
<1> HIDE DEF n
<1>2. CASE r.generation > pkt.generation
  <2>1. n = r
    BY <1>1, <1>2
  <2> QED
    BY <1>0, <2>1, FurtherSame DEF n
<1>3. CASE ~(r.generation > pkt.generation)
  <2>1. /\ RecCore(at, known) /\ Rated(at) /\ Further(r, at) /\ at.protocol = r.protocol
        /\ at.generation = pkt.generation
    <3>1. CASE ~(r.generation < pkt.generation)
      <4>1. at = r
        BY <3>1
      <4>2. r.generation = pkt.generation
        BY <1>0, <1>3, <3>1
      <4> QED
        BY <1>0, <4>1, <4>2, FurtherSame
    <3>2. CASE r.generation < pkt.generation
      <4> DEFINE over == QueueSourceReady(Skipped(r))
                 rep == Report(over, 0, 0)
                 q == FlushQueue(over)
                 next == [rep EXCEPT !.queue = q, !.generation = pkt.generation, !.rank = 0,
                            !.prev_rank = 0, !.index = 0, !.flush = FALSE, !.to_send = 0,
                            !.last_fb_rank = 0, !.span = EmptySpan]
                 changed == {"queue", "generation", "rank", "prev_rank", "index", "flush",
                             "to_send", "last_fb_rank", "span", "feedback_generation",
                             "feedback_rank"}
      <4>1. at = next
        BY <3>2 DEF PaceRecNext, PaceRecFlushSource, Skipped
      <4>2. RecCore(over, known) /\ Alike(over, r, Taken \cup {"flush"})
        BY PaceSkipOk
      <4>3. RatedFields \subseteq DOMAIN over /\ CoderFields \subseteq DOMAIN over
        BY <4>2 DEF Rated, Alike, RecCore, Coder
      <4> HIDE DEF over, q
      <4>4. /\ Alike(rep, over, {"feedback_generation", "feedback_rank"})
            /\ rep.feedback_generation = 0 /\ rep.feedback_rank = 0
        BY <4>2, <4>3 DEF Report, RecCore, Coder, Alike, RatedFields
      <4>5. RatedFields \subseteq DOMAIN rep /\ CoderFields \subseteq DOMAIN rep
        BY <4>3, <4>4 DEF Alike
      <4> HIDE DEF rep
      <4>6. /\ DOMAIN next = DOMAIN rep /\ next = [x \in DOMAIN next |-> next[x]]
            /\ \A x \in DOMAIN rep \ changed : next[x] = rep[x]
        OBVIOUS
      <4>7. /\ next.generation = pkt.generation
            /\ next.index = 0 /\ next.flush = FALSE /\ next.span = EmptySpan
            /\ next.queue = q /\ next.rank = 0
            /\ next.feedback_generation = 0 /\ next.feedback_rank = 0
        BY <4>4, <4>5 DEF CoderFields, RatedFields
      <4> HIDE DEF next
      <4>8. Alike(next, over, changed)
        BY <4>4, <4>6 DEF Alike
      <4>9. changed \cap CoderFields \subseteq {"queue", "generation", "index", "flush", "span"}
        BY DEF CoderFields
      <4>10. pkt.generation > r.generation
        BY <1>0, <3>2
      <4> HIDE DEF changed
      <4>11. RecCore(next, known) /\ Rated(next) /\ Further(r, next) /\ next.protocol = r.protocol
        BY <1>0, <4>7, <4>8, <4>9, <4>10, PaceNextOk DEF over, q
      <4> QED
        BY <4>1, <4>7, <4>11
    <3> QED
      BY <3>1, <3>2
  <2> HIDE DEF at
  <2> DEFINE altered == {"span", "rank", "fb_timer", "feedback_generation", "feedback_rank",
                         "to_send"}
  <2>2. RatedFields \subseteq DOMAIN at /\ CoderFields \subseteq DOMAIN at
    BY <2>1 DEF Rated, RecCore, Coder
  <2>3. /\ Alike(read, at, {"span", "rank", "fb_timer"}) /\ read.span = span
        /\ read.rank = Rank(span) /\ read.feedback_generation = at.feedback_generation
        /\ read.feedback_rank = at.feedback_rank /\ read.generation = at.generation
    BY <2>1, <2>2 DEF Alike, RecCore, Coder, CoderFields, RatedFields
  <2>4. RatedFields \subseteq DOMAIN read /\ CoderFields \subseteq DOMAIN read
    BY <2>2, <2>3 DEF Alike
  <2> HIDE DEF read
  <2>5. /\ Alike(told, read, {"feedback_generation", "feedback_rank"})
        /\ told.span = span /\ told.rank = Rank(span)
        /\ \/ /\ told.feedback_generation = at.feedback_generation
              /\ told.feedback_rank = at.feedback_rank
           \/ told.feedback_generation = at.generation /\ told.feedback_rank = told.rank
    <3>1. CASE PaceReports(read, pkt)
      <4>1. told = Report(read, read.generation, read.rank)
        BY <3>1
      <4> HIDE DEF told
      <4> QED
        BY <2>3, <2>4, <4>1 DEF Report, Alike, CoderFields, RatedFields
    <3>2. CASE ~PaceReports(read, pkt)
      <4>1. told = read
        BY <3>2
      <4> HIDE DEF told
      <4> QED
        BY <2>3, <4>1 DEF Alike
    <3> QED
      BY <3>1, <3>2
  <2>6. RatedFields \subseteq DOMAIN told /\ CoderFields \subseteq DOMAIN told
    BY <2>4, <2>5 DEF Alike
  <2> HIDE DEF told
  <2>7. Alike(paid, told, {"to_send"})
    <3>1. Alike(news, told, {"to_send"}) /\ Alike(told, told, {"to_send"})
      BY <2>5 DEF Alike
    <3> HIDE DEF news
    <3>2. Alike(PaceRecFlushCoded(news), told, {"to_send"})
      BY <3>1 DEF PaceRecFlushCoded, Alike
    <3> QED
      BY <3>1, <3>2
  <2>8. /\ paid.span = told.span /\ paid.rank = told.rank
        /\ paid.feedback_generation = told.feedback_generation
        /\ paid.feedback_rank = told.feedback_rank
    BY <2>6, <2>7 DEF Alike, CoderFields, RatedFields
  <2> HIDE DEF paid
  <2>9. Alike(paid, at, altered)
    BY <2>3, <2>5, <2>7 DEF Alike
  <2>10. altered \cap CoderFields \subseteq {"span"}
    BY DEF CoderFields
  <2>11. /\ paid.span = ReadPayload(at.span, pkt.vec) /\ paid.rank = Rank(paid.span)
         /\ \/ /\ paid.feedback_generation = at.feedback_generation
               /\ paid.feedback_rank = at.feedback_rank
            \/ paid.feedback_generation = at.generation /\ paid.feedback_rank = paid.rank
    BY <2>5, <2>8
  <2> HIDE DEF altered, span
  <2>12. Alike(last, QueueSourceReady(paid), {"prev_rank"})
    <3>1. RecCore(paid, known)
      <4>1. pkt.vec \in Vectors
        BY DEF Packets
      <4> QED
        BY <2>1, <2>9, <2>10, <2>11, <4>1, CoreRead
    <3>2. RecCore(QueueSourceReady(paid), known)
      BY <3>1, CoreReady
    <3> QED
      BY <3>2 DEF RecCore, Coder, Alike
  <2> HIDE DEF last
  <2>13. RecCore(last, known) /\ Rated(last) /\ Further(at, last) /\ last.protocol = at.protocol
    BY <2>1, <2>9, <2>10, <2>11, <2>12, PaceReadOk
  <2>14. Further(r, last)
    BY <1>0, <2>1, <2>13, FurtherOn DEF RecCore, Coder, Numbered
  <2>15. n = last
    BY <1>1, <1>3
  <2> QED
    BY <2>1, <2>13, <2>14, <2>15 DEF n
<1> QED
  BY <1>2, <1>3

LEMMA PaceDecPutCodedRated ==
  ASSUME NEW known \in SUBSET Slots, NEW d, RecCore(d, known), Rated(d), NEW pkt \in Packets,
         Origin(pkt.generation, pkt.vec, known)
  PROVE  LET n == PaceDecPutCoded(d, pkt)
         IN RecCore(n, known) /\ Rated(n) /\ Further(d, n)
<1> DEFINE at   == IF d.generation < pkt.generation THEN PaceDecNext(d, pkt.generation) ELSE d
           span == ReadPayload(at.span, pkt.vec)
           read == [at EXCEPT !.span = span, !.rank = Rank(span), !.fb_timer = d.timeout]
           told == IF PaceReports(read, pkt) THEN Report(read, read.generation, read.rank)
                   ELSE read
           last == [QueueSourceReady(told) EXCEPT !.prev_rank = Rank(span)]
           n == PaceDecPutCoded(d, pkt)
<1>0. pkt.generation \in Generations /\ pkt.generation \in Nat /\ d.generation \in Nat
      /\ Numbered(d)
  BY DEF RecCore, Coder, Packets, Generations, Numbered
<1>1. n = IF d.generation > pkt.generation THEN d ELSE last
  BY DEF PaceDecPutCoded
<1> HIDE DEF n
<1>2. CASE d.generation > pkt.generation
  <2>1. n = d
    BY <1>1, <1>2
  <2> QED
    BY <1>0, <2>1, FurtherSame DEF n
<1>3. CASE ~(d.generation > pkt.generation)
  <2>1. /\ RecCore(at, known) /\ Rated(at) /\ Further(d, at) /\ at.generation = pkt.generation
    <3>1. CASE ~(d.generation < pkt.generation)
      <4>1. at = d
        BY <3>1
      <4>2. d.generation = pkt.generation
        BY <1>0, <1>3, <3>1
      <4> QED
        BY <1>0, <4>1, <4>2, FurtherSame
    <3>2. CASE d.generation < pkt.generation
      <4> DEFINE over == QueueSourceReady(Skipped(d))
                 rep == Report(over, 0, 0)
                 q == FlushQueue(over)
                 next == [rep EXCEPT !.queue = q, !.generation = pkt.generation, !.rank = 0,
                                     !.index = 0, !.flush = FALSE, !.span = EmptySpan]
                 changed == {"queue", "generation", "rank", "index", "flush", "span",
                             "feedback_generation", "feedback_rank"}
      <4>1. at = next
        BY <3>2 DEF PaceDecNext, PaceDecFlushSource, Skipped
      <4>2. RecCore(over, known) /\ Alike(over, d, Taken \cup {"flush"})
        BY PaceSkipOk
      <4>3. RatedFields \subseteq DOMAIN over /\ CoderFields \subseteq DOMAIN over
        BY <4>2 DEF Rated, Alike, RecCore, Coder
      <4> HIDE DEF over, q
      <4>4. /\ Alike(rep, over, {"feedback_generation", "feedback_rank"})
            /\ rep.feedback_generation = 0 /\ rep.feedback_rank = 0
        BY <4>2, <4>3 DEF Report, RecCore, Coder, Alike, RatedFields
      <4>5. RatedFields \subseteq DOMAIN rep /\ CoderFields \subseteq DOMAIN rep
        BY <4>3, <4>4 DEF Alike
      <4> HIDE DEF rep
      <4>6. /\ DOMAIN next = DOMAIN rep /\ next = [x \in DOMAIN next |-> next[x]]
            /\ \A x \in DOMAIN rep \ changed : next[x] = rep[x]
        OBVIOUS
      <4>7. /\ next.generation = pkt.generation
            /\ next.index = 0 /\ next.flush = FALSE /\ next.span = EmptySpan
            /\ next.queue = q /\ next.rank = 0
            /\ next.feedback_generation = 0 /\ next.feedback_rank = 0
        BY <4>4, <4>5, <4>6 DEF CoderFields, RatedFields
      <4> HIDE DEF next
      <4>8. Alike(next, over, changed)
        BY <4>4, <4>6 DEF Alike
      <4>9. changed \cap CoderFields \subseteq {"queue", "generation", "index", "flush", "span"}
        BY DEF CoderFields
      <4>10. pkt.generation > d.generation
        BY <1>0, <3>2
      <4> HIDE DEF changed
      <4>11. RecCore(next, known) /\ Rated(next) /\ Further(d, next)
        BY <1>0, <4>7, <4>8, <4>9, <4>10, PaceNextOk DEF over, q
      <4> QED
        BY <4>1, <4>7, <4>11
    <3> QED
      BY <3>1, <3>2
  <2> HIDE DEF at
  <2> DEFINE altered == {"span", "rank", "fb_timer", "feedback_generation", "feedback_rank"}
  <2>2. RatedFields \subseteq DOMAIN at /\ CoderFields \subseteq DOMAIN at
    BY <2>1 DEF Rated, RecCore, Coder
  <2>3. /\ Alike(read, at, {"span", "rank", "fb_timer"}) /\ read.span = span
        /\ read.rank = Rank(span) /\ read.feedback_generation = at.feedback_generation
        /\ read.feedback_rank = at.feedback_rank /\ read.generation = at.generation
    BY <2>1, <2>2 DEF Alike, RecCore, Coder, CoderFields, RatedFields
  <2>4. RatedFields \subseteq DOMAIN read /\ CoderFields \subseteq DOMAIN read
    BY <2>2, <2>3 DEF Alike
  <2> HIDE DEF read
  <2>5. /\ Alike(told, read, {"feedback_generation", "feedback_rank"})
        /\ told.span = span /\ told.rank = Rank(span)
        /\ \/ /\ told.feedback_generation = at.feedback_generation
              /\ told.feedback_rank = at.feedback_rank
           \/ told.feedback_generation = at.generation /\ told.feedback_rank = told.rank
    <3>1. CASE PaceReports(read, pkt)
      <4>1. told = Report(read, read.generation, read.rank)
        BY <3>1
      <4> HIDE DEF told
      <4> QED
        BY <2>3, <2>4, <4>1 DEF Report, Alike, CoderFields, RatedFields
    <3>2. CASE ~PaceReports(read, pkt)
      <4>1. told = read
        BY <3>2
      <4> HIDE DEF told
      <4> QED
        BY <2>3, <4>1 DEF Alike
    <3> QED
      BY <3>1, <3>2
  <2> HIDE DEF told
  <2>6. Alike(told, at, altered)
    BY <2>3, <2>5 DEF Alike
  <2>7. altered \cap CoderFields \subseteq {"span"}
    BY DEF CoderFields
  <2>8. told.span = ReadPayload(at.span, pkt.vec) /\ told.rank = Rank(told.span)
    BY <2>5
  <2> HIDE DEF altered, span
  <2>9. Alike(last, QueueSourceReady(told), {"prev_rank"})
    <3>1. RecCore(told, known)
      <4>1. pkt.vec \in Vectors
        BY DEF Packets
      <4> QED
        BY <2>1, <2>6, <2>7, <2>8, <4>1, CoreRead
    <3>2. RecCore(QueueSourceReady(told), known)
      BY <3>1, CoreReady
    <3> QED
      BY <3>2 DEF RecCore, Coder, Alike
  <2> HIDE DEF last
  <2>10. RecCore(last, known) /\ Rated(last) /\ Further(at, last)
    BY <2>1, <2>5, <2>6, <2>7, <2>8, <2>9, PaceReadOk
  <2>11. Further(d, last)
    BY <1>0, <2>1, <2>10, FurtherOn DEF RecCore, Coder, Numbered
  <2>12. n = last
    BY <1>1, <1>3
  <2> QED
    BY <2>10, <2>11, <2>12 DEF n
<1> QED
  BY <1>2, <1>3

-----------------------------------------------------------------------------
(* The calls of the encoders: a symbol goes into the next slot, and        *)
(* nothing else moves the slot.                                            *)
EncPut(e, n) ==
  \/ n.generation = e.generation /\ n.rank = e.rank + 1
  \/ n.generation = e.generation + 1 /\ n.rank = 1

EncStill(e, n) == n.generation = e.generation /\ n.rank = e.rank

LEMMA GsawEncPutOk ==
  ASSUME NEW e, EncOk(e), e.protocol = "gsaw", ~e.full
  PROVE  LET n == GsawEncPutSource(e) IN EncOk(n) /\ EncPut(e, n)
<1> DEFINE open == GsawEncOpen(e)
           put == [open EXCEPT !.rank = @ + 1]
           n == IF put.rank = Symbols THEN GsawEncFlush(put)
                ELSE [put EXCEPT !.limit = @ + GsawShare(e)]
<1>0. /\ {"protocol", "generation", "rank", "sent", "full", "complete", "limit"} \subseteq DOMAIN e
      /\ e.generation \in Nat \ {0} /\ e.rank \in 0 .. Symbols /\ e.sent \in Nat
      /\ e.complete \in BOOLEAN /\ (e.rank = Symbols => e.complete) /\ Symbols \in Nat \ {0}
      /\ e.protocol = opt.protocol /\ e.full \in BOOLEAN
  BY SymbolsAssumption DEF EncOk, Generations
<1>1. GsawEncPutSource(e) = n
  BY DEF GsawEncPutSource
<1>2. /\ DOMAIN open = DOMAIN e /\ open.protocol = e.protocol
      /\ open.generation \in Nat \ {0} /\ open.sent \in Nat /\ open.complete \in BOOLEAN
      /\ open.full \in BOOLEAN /\ open.rank \in 0 .. Symbols - 1
      /\ \/ open.generation = e.generation /\ open.rank = e.rank
         \/ open.generation = e.generation + 1 /\ open.rank = 0
  <2>1. CASE ~e.complete
    <3>1. open = e
      BY <2>1 DEF GsawEncOpen
    <3> HIDE DEF open
    <3> QED
      BY <1>0, <2>1, <3>1
  <2>2. CASE e.complete
    <3>1. open = [e EXCEPT !.generation = @ + 1, !.rank = 0, !.sent = 0,
                           !.complete = FALSE, !.full = FALSE]
      BY <2>2 DEF GsawEncOpen
    <3> HIDE DEF open
    <3> QED
      BY <1>0, <3>1
  <2> QED
    BY <2>1, <2>2
<1> HIDE DEF open
<1>3. /\ DOMAIN put = DOMAIN e /\ put.protocol = e.protocol
      /\ put.generation = open.generation /\ put.sent = open.sent
      /\ put.complete = open.complete /\ put.full = open.full /\ put.rank = open.rank + 1
  BY <1>0, <1>2
<1> HIDE DEF put
<1>4. /\ DOMAIN n = DOMAIN e /\ n.protocol = e.protocol
      /\ n.generation = open.generation /\ n.sent = open.sent
      /\ n.complete = open.complete /\ n.full \in BOOLEAN /\ n.rank = open.rank + 1
      /\ n.rank = Symbols => n.full
  <2>1. CASE put.rank = Symbols
    <3>1. n = [put EXCEPT !.limit = @ + GsawShare(put), !.full = TRUE]
      BY <2>1 DEF GsawEncFlush
    <3> HIDE DEF n
    <3> QED
      BY <1>0, <1>3, <3>1
  <2>2. CASE put.rank # Symbols
    <3>1. n = [put EXCEPT !.limit = @ + GsawShare(e)]
      BY <2>2
    <3> HIDE DEF n
    <3> QED
      BY <1>0, <1>2, <1>3, <2>2, <3>1
  <2> QED
    BY <2>1, <2>2
<1> HIDE DEF n
<1>5. n.rank \in 0 .. Symbols
  BY <1>0, <1>2, <1>4
<1>6. EncOk(n)
  BY <1>0, <1>2, <1>4, <1>5 DEF EncOk, Generations
<1>7. EncPut(e, n)
  BY <1>2, <1>4 DEF EncPut
<1> QED
  BY <1>1, <1>6, <1>7 DEF n

LEMMA NoackEncPutOk ==
  ASSUME NEW e, EncOk(e), e.protocol = "noack", ~e.full, opt.redundancy \in Nat
  PROVE  LET n == NoackEncPutSource(e) IN EncOk(n) /\ EncPut(e, n)
<1> DEFINE open == NoackEncOpen(e)
           put == [open EXCEPT !.rank = @ + 1, !.limit = @ + 1, !.timer = e.timeout]
           n == IF put.rank = Symbols THEN NoackEncFlush(put) ELSE put
<1>0. /\ {"protocol", "generation", "rank", "sent", "full", "complete", "limit",
          "redundancy"} \subseteq DOMAIN e
      /\ e.generation \in Nat \ {0} /\ e.rank \in 0 .. Symbols /\ e.sent \in Nat
      /\ e.complete \in BOOLEAN /\ (e.rank = Symbols => e.complete) /\ Symbols \in Nat \ {0}
      /\ e.protocol = opt.protocol /\ e.full \in BOOLEAN /\ e.limit \in Int
      /\ e.redundancy = opt.redundancy
  BY SymbolsAssumption DEF EncOk, Generations
<1>1. NoackEncPutSource(e) = n
  BY DEF NoackEncPutSource
<1>2. /\ DOMAIN open = DOMAIN e /\ open.protocol = e.protocol
      /\ open.generation \in Nat \ {0} /\ open.sent \in Nat /\ open.complete \in BOOLEAN
      /\ open.full \in BOOLEAN /\ open.rank \in 0 .. Symbols - 1
      /\ open.limit = e.limit /\ open.redundancy = e.redundancy
      /\ \/ open.generation = e.generation /\ open.rank = e.rank
         \/ open.generation = e.generation + 1 /\ open.rank = 0
  <2>1. CASE ~e.complete
    <3>1. open = e
      BY <2>1 DEF NoackEncOpen
    <3> HIDE DEF open
    <3> QED
      BY <1>0, <2>1, <3>1
  <2>2. CASE e.complete
    <3>1. open = [e EXCEPT !.generation = @ + 1, !.rank = 0, !.complete = FALSE,
                           !.full = FALSE, !.sent = SystematicStart(e.systematic)]
      BY <2>2 DEF NoackEncOpen
    <3>2. SystematicStart(e.systematic) \in Nat
      BY <1>0 DEF SystematicStart
    <3> HIDE DEF open
    <3> QED
      BY <1>0, <3>1, <3>2
  <2> QED
    BY <2>1, <2>2
<1> HIDE DEF open
<1>3. /\ DOMAIN put = DOMAIN e /\ put.protocol = e.protocol
      /\ put.generation = open.generation /\ put.sent = open.sent
      /\ put.complete = open.complete /\ put.full = open.full /\ put.rank = open.rank + 1
      /\ put.limit = e.limit + 1 /\ put.redundancy = e.redundancy
  BY <1>0, <1>2
<1> HIDE DEF put
<1>4. /\ DOMAIN n = DOMAIN e /\ n.protocol = e.protocol
      /\ n.generation = open.generation /\ n.sent = open.sent
      /\ n.complete = open.complete /\ n.full \in BOOLEAN /\ n.rank = open.rank + 1
      /\ n.rank = Symbols => n.full
      /\ n.limit \in Int /\ n.redundancy = e.redundancy
  <2>1. CASE put.rank = Symbols
    <3>1. n = [put EXCEPT !.limit = @ + put.redundancy, !.full = TRUE]
      BY <2>1 DEF NoackEncFlush
    <3> HIDE DEF n
    <3>2. put.limit + put.redundancy \in Int
      BY <1>0, <1>3
    <3> QED
      BY <1>0, <1>3, <3>1, <3>2
  <2>2. CASE put.rank # Symbols
    <3>1. n = put
      BY <2>2
    <3> HIDE DEF n
    <3> QED
      BY <1>0, <1>2, <1>3, <2>2, <3>1
  <2> QED
    BY <2>1, <2>2
<1> HIDE DEF n
<1>5. n.rank \in 0 .. Symbols
  BY <1>0, <1>2, <1>4
<1>6. EncOk(n)
  BY <1>0, <1>2, <1>4, <1>5 DEF EncOk, Generations
<1>7. EncPut(e, n)
  BY <1>2, <1>4 DEF EncPut
<1> QED
  BY <1>1, <1>6, <1>7 DEF n

LEMMA PaceEncPutOk ==
  ASSUME NEW e, EncOk(e), e.protocol = "pace"
  PROVE  LET n == PaceEncPutSource(e) IN EncOk(n) /\ EncPut(e, n)
<1> DEFINE at == IF e.rank = Symbols THEN PaceEncNext(e) ELSE e
           put == [at EXCEPT !.rank = @ + 1, !.to_send = @ + e.pace_redundancy]
           n == IF put.rank = Symbols THEN PaceEncFlush(put) ELSE put
<1>0. /\ {"protocol", "generation", "rank", "sent"} \subseteq DOMAIN e
      /\ e.generation \in Nat \ {0} /\ e.rank \in 0 .. Symbols /\ e.sent \in Nat
      /\ e.protocol = opt.protocol /\ Symbols \in Nat \ {0}
  BY SymbolsAssumption DEF EncOk, Generations
<1>1. PaceEncPutSource(e) = n
  BY DEF PaceEncPutSource
<1>2. /\ DOMAIN at = DOMAIN e /\ at.protocol = e.protocol
      /\ at.generation \in Nat \ {0} /\ at.sent \in Nat /\ at.rank \in 0 .. Symbols - 1
      /\ \/ at.generation = e.generation /\ at.rank = e.rank
         \/ at.generation = e.generation + 1 /\ at.rank = 0
  BY <1>0 DEF PaceEncNext
<1> HIDE DEF at
<1>3. /\ DOMAIN put = DOMAIN e /\ put.protocol = e.protocol
      /\ put.generation = at.generation /\ put.sent = at.sent /\ put.rank = at.rank + 1
  BY <1>0, <1>2
<1> HIDE DEF put
<1>4. /\ DOMAIN n = DOMAIN e /\ n.protocol = e.protocol
      /\ n.generation = at.generation /\ n.sent = at.sent /\ n.rank = at.rank + 1
  BY <1>0, <1>3 DEF PaceEncFlush
<1> HIDE DEF n
<1>5. n.rank \in 0 .. Symbols
  BY <1>0, <1>2, <1>4
<1>6. EncOk(n)
  BY <1>0, <1>2, <1>4, <1>5 DEF EncOk, Generations
<1>7. EncPut(e, n)
  BY <1>2, <1>4 DEF EncPut
<1> QED
  BY <1>1, <1>6, <1>7 DEF n

LEMMA EncPutOk ==
  ASSUME NEW e, EncOk(e), Successive(opt), ~NckEncFull(e)
  PROVE  LET n == NckEncPutSource(e)
         IN EncOk(n) /\ EncPut(e, n) /\ NckEncSlot(n) = <<n.generation, n.rank>>
<1>1. e.protocol \in {"gsaw", "noack", "pace"} /\ opt.redundancy \in Nat
      /\ e.protocol = opt.protocol
  BY DEF EncOk, Successive
<1> DEFINE n == NckEncPutSource(e)
<1>2. EncOk(n) /\ EncPut(e, n)
  <2>1. CASE e.protocol = "gsaw"
    BY <2>1, GsawEncPutOk DEF NckEncFull, NckEncPutSource
  <2>2. CASE e.protocol = "noack"
    BY <1>1, <2>2, NoackEncPutOk DEF NckEncFull, NckEncPutSource
  <2>3. CASE e.protocol = "pace"
    BY <2>3, PaceEncPutOk DEF NckEncPutSource
  <2> QED
    BY <1>1, <2>1, <2>2, <2>3
<1> HIDE DEF n
<1>3. n.protocol \in {"gsaw", "noack", "pace"}
  BY <1>1, <1>2 DEF EncOk
<1>4. NckEncSlot(n) = <<n.generation, n.rank>>
  BY <1>3 DEF NckEncSlot
<1> QED
  BY <1>2, <1>4 DEF n

LEMMA SentGrows ==
  ASSUME NEW e, e.sent \in Nat, e.rank \in Nat
  PROVE  SystematicSent(e.rank, e.sent) \in Nat
BY DEF SystematicSent

LEMMA EncGetCodedOk ==
  ASSUME NEW e, EncOk(e), Successive(opt), NckEncHasCoded(e)
  PROVE  LET n == NckEncGetCoded(e) IN EncOk(n) /\ EncStill(e, n)
<1> DEFINE n == NckEncGetCoded(e)
<1>0. /\ {"protocol", "generation", "rank", "sent"} \subseteq DOMAIN e
      /\ e.generation \in Generations /\ e.rank \in 0 .. Symbols /\ e.sent \in Nat
      /\ e.protocol = opt.protocol /\ opt.protocol \in {"gsaw", "noack", "pace"}
      /\ SystematicSent(e.rank, e.sent) \in Nat
  BY SentGrows, SymbolsAssumption DEF EncOk, Successive
<1>1. CASE e.protocol = "gsaw"
  <2>1. n = [e EXCEPT !.sent = SystematicSent(e.rank, e.sent), !.limit = @ - Symbols]
    BY <1>1 DEF NckEncGetCoded, GsawEncGetCoded
  <2> HIDE DEF n
  <2>2. /\ DOMAIN n = DOMAIN e /\ n.protocol = e.protocol /\ n.generation = e.generation
        /\ n.rank = e.rank /\ n.sent \in Nat /\ n.full = e.full /\ n.complete = e.complete
    BY <1>0, <1>1, <2>1 DEF EncOk
  <2>3. EncOk(n)
    BY <1>0, <1>1, <2>2 DEF EncOk
  <2> QED
    BY <2>2, <2>3 DEF n, EncStill
<1>2. CASE e.protocol = "noack"
  <2>0. /\ {"full", "complete", "limit", "redundancy"} \subseteq DOMAIN e
        /\ e.full \in BOOLEAN /\ e.complete \in BOOLEAN /\ e.limit \in Int
        /\ e.rank = Symbols => e.full \/ e.complete
    BY <1>0, <1>2 DEF EncOk
  <2>1. n = [e EXCEPT !.sent = SystematicSent(e.rank, e.sent), !.limit = @ - 1,
                      !.complete = @ \/ (e.limit = 1 /\ e.full),
                      !.full = @ /\ e.limit > 1]
    BY <1>2 DEF NckEncGetCoded, NoackEncGetCoded
  <2> HIDE DEF n
  <2>2. e.limit > 0
    BY <1>2 DEF NckEncHasCoded, NoackEncHasCoded
  <2>3. /\ DOMAIN n = DOMAIN e /\ n.protocol = e.protocol /\ n.generation = e.generation
        /\ n.rank = e.rank /\ n.sent \in Nat /\ n.redundancy = e.redundancy
        /\ n.limit = e.limit - 1
    BY <1>0, <2>0, <2>1
  <2>4. /\ n.full = (e.full /\ e.limit > 1)
        /\ n.complete = (e.complete \/ (e.limit = 1 /\ e.full))
    BY <2>0, <2>1
  <2>5. /\ n.limit \in Int /\ n.full \in BOOLEAN /\ n.complete \in BOOLEAN
        /\ n.rank = Symbols => n.full \/ n.complete
    BY <2>0, <2>2, <2>3, <2>4
  <2>6. EncOk(n)
    BY <1>0, <1>2, <2>0, <2>3, <2>5 DEF EncOk
  <2> QED
    BY <2>3, <2>6 DEF n, EncStill
<1>3. CASE e.protocol = "pace"
  <2>1. n = [e EXCEPT !.sent = SystematicSent(e.rank, e.sent), !.to_send = @ - 100]
    BY <1>3 DEF NckEncGetCoded, PaceEncGetCoded
  <2> HIDE DEF n
  <2>2. /\ DOMAIN n = DOMAIN e /\ n.protocol = e.protocol /\ n.generation = e.generation
        /\ n.rank = e.rank /\ n.sent \in Nat
    BY <1>0, <2>1
  <2>3. EncOk(n)
    BY <1>0, <1>3, <2>2 DEF EncOk
  <2> QED
    BY <2>2, <2>3 DEF n, EncStill
<1> QED
  BY <1>0, <1>1, <1>2, <1>3

(* Flushing, by the application or by a timer.                             *)
LEMMA NoackEncFlushOk ==
  ASSUME NEW e, EncOk(e), Successive(opt), e.protocol = "noack"
  PROVE  /\ LET n == NoackEncFlush(e) IN EncOk(n) /\ EncStill(e, n)
         /\ LET n == NoackEncTimeout(e) IN EncOk(n) /\ EncStill(e, n)
<1>0. /\ {"protocol", "generation", "rank", "sent", "full", "complete", "limit",
          "redundancy"} \subseteq DOMAIN e
      /\ e.complete \in BOOLEAN /\ e.full \in BOOLEAN /\ e.limit \in Int
      /\ e.redundancy = opt.redundancy /\ opt.redundancy \in Nat
  BY DEF EncOk, Successive
<1>1. ASSUME NEW x, EncOk(x), x.protocol = "noack"
      PROVE  EncOk(NoackEncFlush(x)) /\ EncStill(x, NoackEncFlush(x))
  <2> DEFINE n == NoackEncFlush(x)
  <2>0. /\ {"protocol", "generation", "rank", "sent", "full", "complete", "limit",
            "redundancy"} \subseteq DOMAIN x
        /\ x.complete \in BOOLEAN /\ x.limit \in Int
        /\ x.redundancy = opt.redundancy
    BY <1>1 DEF EncOk
  <2>1. n = [x EXCEPT !.limit = @ + x.redundancy, !.full = TRUE]
    BY DEF NoackEncFlush
  <2> HIDE DEF n
  <2>2. x.limit + x.redundancy \in Int
    BY <1>0, <2>0
  <2>3. /\ DOMAIN n = DOMAIN x /\ n.protocol = x.protocol /\ n.generation = x.generation
        /\ n.rank = x.rank /\ n.sent = x.sent /\ n.redundancy = x.redundancy
        /\ n.limit \in Int /\ n.full = TRUE /\ n.complete = x.complete
    BY <2>0, <2>1, <2>2
  <2>4. EncOk(n)
    BY <1>1, <2>0, <2>3 DEF EncOk
  <2> QED
    BY <2>3, <2>4 DEF n, EncStill
<1> DEFINE m == [e EXCEPT !.timer = FALSE]
<1>2. EncOk(m) /\ EncStill(e, m) /\ m.protocol = "noack"
  <2>1. /\ DOMAIN m = DOMAIN e /\ m.protocol = e.protocol /\ m.generation = e.generation
        /\ m.rank = e.rank /\ m.sent = e.sent /\ m.redundancy = e.redundancy
        /\ m.limit = e.limit /\ m.full = e.full /\ m.complete = e.complete
    BY <1>0
  <2> HIDE DEF m
  <2> QED
    BY <1>0, <2>1 DEF EncOk, EncStill
<1> HIDE DEF m
<1>3. EncOk(NoackEncFlush(m)) /\ EncStill(m, NoackEncFlush(m))
  BY <1>1, <1>2
<1>4. NoackEncTimeout(e) = NoackEncFlush(m)
  BY DEF NoackEncTimeout, m
<1> QED
  BY <1>1, <1>2, <1>3, <1>4 DEF EncStill

LEMMA EncFlushCodedOk ==
  ASSUME NEW e, EncOk(e), Successive(opt)
  PROVE  LET n == NckEncFlushCoded(e) IN EncOk(n) /\ EncStill(e, n)
<1> DEFINE n == NckEncFlushCoded(e)
<1>0. /\ {"protocol", "generation", "rank", "sent"} \subseteq DOMAIN e
      /\ e.protocol = opt.protocol /\ opt.protocol \in {"gsaw", "noack", "pace"}
  BY DEF EncOk, Successive
<1>1. CASE e.protocol = "gsaw"
  <2>1. n = [e EXCEPT !.limit = @ + GsawShare(e), !.full = TRUE]
    BY <1>1 DEF NckEncFlushCoded, GsawEncFlush
  <2> HIDE DEF n
  <2>2. /\ DOMAIN n = DOMAIN e /\ n.protocol = e.protocol /\ n.generation = e.generation
        /\ n.rank = e.rank /\ n.sent = e.sent /\ n.full = TRUE /\ n.complete = e.complete
    BY <1>0, <1>1, <2>1 DEF EncOk
  <2>3. EncOk(n)
    BY <1>0, <1>1, <2>2 DEF EncOk
  <2> QED
    BY <2>2, <2>3 DEF n, EncStill
<1>2. CASE e.protocol = "noack"
  BY <1>2, NoackEncFlushOk DEF NckEncFlushCoded
<1>3. CASE e.protocol = "pace"
  <2>1. n = [e EXCEPT !.to_send = @ + e.tail_redundancy]
    BY <1>3 DEF NckEncFlushCoded, PaceEncFlush
  <2> HIDE DEF n
  <2>2. /\ DOMAIN n = DOMAIN e /\ n.protocol = e.protocol /\ n.generation = e.generation
        /\ n.rank = e.rank /\ n.sent = e.sent
    BY <1>0, <2>1
  <2>3. EncOk(n)
    BY <1>0, <1>3, <2>2 DEF EncOk
  <2> QED
    BY <2>2, <2>3 DEF n, EncStill
<1> QED
  BY <1>0, <1>1, <1>2, <1>3

LEMMA EncTimeoutOk ==
  ASSUME NEW e, EncOk(e), Successive(opt), NckEncTimer(e)
  PROVE  LET n == NckEncTimeout(e) IN EncOk(n) /\ EncStill(e, n)
<1>1. e.protocol = "noack"
  BY DEF NckEncTimer, EncOk, Successive
<1> QED
  BY <1>1, NoackEncFlushOk DEF NckEncTimeout

LEMMA EncPutFeedbackOk ==
  ASSUME NEW e, EncOk(e), Successive(opt), e.protocol # "noack", NEW fb
  PROVE  LET n == NckEncPutFeedback(e, fb) IN EncOk(n) /\ EncStill(e, n)
<1> DEFINE n == NckEncPutFeedback(e, fb)
<1>0. /\ {"protocol", "generation", "rank", "sent"} \subseteq DOMAIN e
      /\ e.protocol = opt.protocol /\ opt.protocol \in {"gsaw", "noack", "pace"}
  BY DEF EncOk, Successive
<1>1. CASE e.protocol = "gsaw"
  <2>0. {"full", "complete", "limit"} \subseteq DOMAIN e
    BY <1>0, <1>1 DEF EncOk
  <2>1. /\ DOMAIN n = DOMAIN e /\ n.protocol = e.protocol /\ n.generation = e.generation
        /\ n.rank = e.rank /\ n.sent = e.sent
        /\ \/ n.full = e.full /\ n.complete = e.complete
           \/ n.full = FALSE /\ n.complete = TRUE
    <3>1. CASE fb.generation # e.generation
      <4>1. n = e
        BY <1>1, <3>1 DEF NckEncPutFeedback, GsawEncPutFeedback
      <4> HIDE DEF n
      <4> QED
        BY <4>1
    <3>2. CASE fb.generation = e.generation /\ fb.rank >= e.rank
      <4>1. n = [e EXCEPT !.complete = TRUE, !.limit = @ % Symbols, !.full = FALSE]
        BY <1>1, <3>2 DEF NckEncPutFeedback, GsawEncPutFeedback
      <4> HIDE DEF n
      <4> QED
        BY <1>0, <2>0, <4>1
    <3>3. CASE fb.generation = e.generation /\ ~(fb.rank >= e.rank)
      <4>1. n = [e EXCEPT !.limit = @ + (e.rank - fb.rank) * GsawShare(e)]
        BY <1>1, <3>3 DEF NckEncPutFeedback, GsawEncPutFeedback
      <4> HIDE DEF n
      <4> QED
        BY <1>0, <2>0, <4>1
    <3> QED
      BY <3>1, <3>2, <3>3
  <2> HIDE DEF n
  <2>2. EncOk(n)
    BY <1>0, <1>1, <2>1 DEF EncOk
  <2> QED
    BY <2>1, <2>2 DEF n, EncStill
<1>3. CASE e.protocol = "pace"
  <2>1. /\ DOMAIN n = DOMAIN e /\ n.protocol = e.protocol /\ n.generation = e.generation
        /\ n.rank = e.rank /\ n.sent = e.sent
    BY <1>0, <1>3 DEF NckEncPutFeedback, PaceEncPutFeedback
  <2> HIDE DEF n
  <2>2. EncOk(n)
    BY <1>0, <1>3, <2>1 DEF EncOk
  <2> QED
    BY <2>1, <2>2 DEF n, EncStill
<1> QED
  BY <1>0, <1>1, <1>3

(* A packet combines symbols of the generation that were put in.           *)
LEMMA EncPacketsOk ==
  ASSUME NEW e, EncOk(e), Successive(opt), NEW pkt \in NckEncPackets(e)
  PROVE  pkt \in Packets /\ pkt.generation = e.generation /\ pkt.vec \subseteq 1 .. e.rank
<1>0. /\ e.generation \in Generations /\ e.rank \in 0 .. Symbols /\ e.sent \in Nat
      /\ e.protocol \in {"gsaw", "noack", "pace"} /\ Symbols \in Nat
  BY SymbolsAssumption DEF EncOk, Successive
<1>1. \A v \in Payloads(e.rank, e.sent) : v \subseteq 1 .. e.rank
  BY <1>0 DEF Payloads
<1>2. 1 .. e.rank \subseteq Indices /\ 0 \in 0 .. Symbols
  BY <1>0 DEF Indices
<1>3. \E v \in Payloads(e.rank, e.sent), r \in {0, e.rank} :
        pkt = [generation |-> e.generation, rank |-> r, vec |-> v]
  BY <1>0 DEF NckEncPackets, GsawEncPackets, NoackEncPackets, PaceEncPackets
<1> QED
  BY <1>0, <1>1, <1>2, <1>3 DEF Packets, Vectors

-----------------------------------------------------------------------------
(* Every call of a recoder.                                                *)
LEMMA CoreNumbered ==
  ASSUME NEW known, NEW r, RecCore(r, known)
  PROVE  Numbered(r)
BY DEF RecCore, Coder, Numbered

RecMoves(r, n, known) ==
  RecOk(n, known) /\ n.protocol = r.protocol /\ (r.protocol = "pace" => Further(r, n))

(* Calls that leave span and report alone.                                 *)
LEMMA RecStill ==
  ASSUME NEW known, NEW r, RecOk(r, known), NEW n, RecCore(n, known), NEW changed,
         Alike(n, r, changed), changed \cap RatedFields = {}, n.protocol = r.protocol,
         n.generation = r.generation, n.span = r.span
  PROVE  RecMoves(r, n, known)
<1>1. Numbered(r)
  BY CoreNumbered DEF RecOk
<1>2. Further(r, n)
  BY <1>1, FurtherSame
<1>3. r.protocol = "pace" => Rated(n)
  BY RatedAlike DEF RecOk
<1> QED
  BY <1>2, <1>3 DEF RecMoves, RecOk

LEMMA RecAlike ==
  ASSUME NEW known, NEW r, RecOk(r, known), NEW n, NEW changed, Alike(n, r, changed),
         changed \cap RatedFields = {}, changed \cap CoderFields \subseteq {"flush"},
         n.flush \in BOOLEAN
  PROVE  RecMoves(r, n, known)
<1>1. RecCore(r, known)
  BY DEF RecOk
<1>2. n.index \in 0 .. Symbols
  BY <1>1 DEF RecCore, Coder, CoderFields, Alike
<1>3. changed \cap CoderFields \subseteq {"flush", "index"}
  OBVIOUS
<1>4. /\ RecCore(n, known) /\ n.protocol = r.protocol /\ n.span = r.span
      /\ n.generation = r.generation
  BY <1>1, <1>2, <1>3, CoreAlike
<1> QED
  BY <1>4, RecStill

LEMMA RecReport ==
  ASSUME NEW known, NEW r, RecOk(r, known), r.protocol = "pace", NEW n,
         Alike(n, r, {"fb_timer", "feedback_generation", "feedback_rank"}),
         \/ n.feedback_generation = 0 /\ n.feedback_rank = r.feedback_rank
         \/ n.feedback_generation = r.generation /\ n.feedback_rank = r.rank
  PROVE  RecMoves(r, n, known)
<1> DEFINE changed == {"fb_timer", "feedback_generation", "feedback_rank"}
<1>1. RecCore(r, known) /\ Rated(r) /\ Coder(r)
  BY DEF RecOk, RecCore
<1>2. n.flush = r.flush /\ n.index = r.index /\ n.rank = r.rank
  BY <1>1 DEF Coder, CoderFields, Alike, Rated, RatedFields
<1>3. n.flush \in BOOLEAN /\ n.index \in 0 .. Symbols
  BY <1>1, <1>2 DEF Coder
<1>4. changed \cap CoderFields \subseteq {"flush", "index"}
  BY DEF CoderFields
<1>5. /\ RecCore(n, known) /\ n.protocol = r.protocol /\ n.span = r.span
      /\ n.generation = r.generation
  <2> HIDE DEF changed
  <2> QED
    BY <1>1, <1>3, <1>4, CoreAlike DEF changed
<1>6. Numbered(r) /\ Further(r, n)
  BY <1>1, <1>5, CoreNumbered, FurtherSame
<1>7. Rated(n)
  <2>1. RatedFields \subseteq DOMAIN n
    BY <1>1 DEF Rated, Alike
  <2>2. r.rank \in 0 .. Symbols /\ r.rank <= Rank(r.span) /\ r.generation \in Nat
        /\ r.feedback_rank \in 0 .. Symbols
    BY <1>1 DEF Rated, Coder
  <2> QED
    BY <1>2, <1>5, <2>1, <2>2 DEF Rated, HasReport, ReportOf, Tells
<1> QED
  BY <1>5, <1>6, <1>7 DEF RecMoves, RecOk

LEMMA RecPutCodedOk ==
  ASSUME NEW known \in SUBSET Slots, NEW r, RecOk(r, known), r.protocol \in {"noack", "pace"},
         NEW pkt \in Packets, Origin(pkt.generation, pkt.vec, known)
  PROVE  RecMoves(r, NckRecPutCoded(r, pkt), known)
<1>1. CASE r.protocol = "noack"
  BY <1>1, NoackRecPutCodedOk DEF RecOk, RecMoves, NckRecPutCoded
<1>2. CASE r.protocol = "pace"
  BY <1>2, PaceRecPutCodedOk DEF RecOk, RecMoves, NckRecPutCoded
<1> QED
  BY <1>1, <1>2

LEMMA RecGetCodedOk ==
  ASSUME NEW known, NEW r, RecOk(r, known), r.protocol \in {"noack", "pace"}
  PROVE  RecMoves(r, NckRecGetCoded(r), known)
<1> DEFINE n == NckRecGetCoded(r)
           changed == {"limit", "complete", "to_send"}
<1>1. Coder(r)
  BY DEF RecOk, RecCore
<1>2. Alike(n, r, changed)
  BY <1>1 DEF NckRecGetCoded, NoackRecGetCoded, PaceRecGetCoded, Alike, Coder
<1> HIDE DEF n
<1>3. n.flush \in BOOLEAN
  BY <1>1, <1>2 DEF Alike, Coder, CoderFields
<1>4. changed \cap RatedFields = {} /\ changed \cap CoderFields \subseteq {"flush"}
  BY DEF RatedFields, CoderFields
<1> HIDE DEF changed
<1> QED
  BY <1>2, <1>3, <1>4, RecAlike DEF n

LEMMA RecGetSourceOk ==
  ASSUME NEW known \in SUBSET Slots, NEW r, RecOk(r, known), r.protocol \in {"noack", "pace"},
         NckRecHasSource(r)
  PROVE  RecMoves(r, NckRecGetSource(r), known)
<1> DEFINE n == NckRecGetSource(r)
<1>1. Coder(r) /\ SpanOrigin(r, known)
  BY DEF RecOk, RecCore
<1>2. Coder(n) /\ Same(n, r)
  <2>1. CASE r.protocol = "noack"
    <3>1. Due(r) /\ n = TakeAtIndex(r)
      BY <2>1 DEF NckRecHasSource, NoackRecHasSource, NckRecGetSource, NoackRecGetSource, Due,
                  IsSymbolUncoded
    <3> QED
      BY <1>1, <3>1, TakesNextIs
  <2>2. CASE r.protocol = "pace"
    <3>1. QueueHasSource(r) /\ n = QueueGetSource(r)
      BY <2>2 DEF NckRecHasSource, PaceRecHasSource, NckRecGetSource, PaceRecGetSource
    <3> QED
      BY <1>1, <3>1, TakesWhat
  <2> QED
    BY <2>1, <2>2
<1> HIDE DEF n
<1>3. n.protocol = r.protocol /\ n.generation = r.generation /\ n.span = r.span
  BY <1>1, <1>2, SameFields
<1>4. RecCore(n, known)
  BY <1>2, <1>3 DEF RecOk, RecCore, SpanOrigin
<1>5. Alike(n, r, Taken) /\ Taken \cap RatedFields = {}
  BY <1>2 DEF Same, Alike, Coder, Taken, RatedFields
<1> QED
  BY <1>3, <1>4, <1>5, RecStill DEF n

LEMMA RecPutFeedbackOk ==
  ASSUME NEW known, NEW r, RecOk(r, known), NEW fb
  PROVE  RecMoves(r, NckRecPutFeedback(r, fb), known)
<1> DEFINE n == NckRecPutFeedback(r, fb)
           changed == {"last_fb_rank", "to_send"}
<1>1. Coder(r)
  BY DEF RecOk, RecCore
<1>2. Alike(n, r, changed)
  BY <1>1 DEF NckRecPutFeedback, PaceRecPutFeedback, Alike, Coder
<1> HIDE DEF n
<1>3. n.flush \in BOOLEAN
  BY <1>1, <1>2 DEF Alike, Coder, CoderFields
<1>4. changed \cap RatedFields = {} /\ changed \cap CoderFields \subseteq {"flush"}
  BY DEF RatedFields, CoderFields
<1> HIDE DEF changed
<1> QED
  BY <1>2, <1>3, <1>4, RecAlike DEF n

LEMMA RecGetFeedbackOk ==
  ASSUME NEW known, NEW r, RecOk(r, known), r.protocol = "pace"
  PROVE  RecMoves(r, NckRecGetFeedback(r), known)
<1> DEFINE n == NckRecGetFeedback(r)
<1>1. Coder(r) /\ Rated(r)
  BY DEF RecOk, RecCore
<1>2. /\ Alike(n, r, {"fb_timer", "feedback_generation", "feedback_rank"})
      /\ n.feedback_generation = 0 /\ n.feedback_rank = r.feedback_rank
  BY <1>1 DEF NckRecGetFeedback, PaceRecGetFeedback, Reported, Alike, Coder, Rated, RatedFields
<1> HIDE DEF n
<1> QED
  BY <1>2, RecReport DEF n

LEMMA RecTimeoutOk ==
  ASSUME NEW known, NEW r, RecOk(r, known), NckRecTimer(r)
  PROVE  RecMoves(r, NckRecTimeout(r), known)
<1> DEFINE n == NckRecTimeout(r)
<1>1. Coder(r)
  BY DEF RecOk, RecCore
<1>2. CASE r.protocol = "noack"
  <2> DEFINE changed == {"timer", "limit", "flush"}
  <2>1. Alike(n, r, changed) /\ n.flush = TRUE
    <3> DEFINE m == [r EXCEPT !.timer = FALSE]
               k == [m EXCEPT !.limit = @ + m.redundancy]
    <3>1. n = [k EXCEPT !.flush = TRUE]
      BY <1>2 DEF NckRecTimeout, NoackRecTimeout, NoackRecFlushSource, NoackRecFlushCoded
    <3>2. Alike(m, r, {"timer"})
      BY <1>1 DEF Alike, Coder
    <3> HIDE DEF m, n
    <3>3. Alike(k, r, {"timer", "limit"})
      BY <3>2 DEF Alike
    <3> HIDE DEF k
    <3>4. "flush" \in DOMAIN k
      BY <1>1, <3>3 DEF Alike, Coder, CoderFields
    <3> QED
      BY <3>1, <3>3, <3>4 DEF Alike
  <2> HIDE DEF n
  <2>2. changed \cap RatedFields = {} /\ changed \cap CoderFields \subseteq {"flush"}
    BY DEF RatedFields, CoderFields
  <2> HIDE DEF changed
  <2> QED
    BY <2>1, <2>2, RecAlike DEF n
<1>3. CASE r.protocol = "pace"
  <2>1. Rated(r)
    BY <1>3 DEF RecOk
  <2>2. /\ Alike(n, r, {"fb_timer", "feedback_generation", "feedback_rank"})
        /\ n.feedback_generation = r.generation /\ n.feedback_rank = r.rank
    BY <1>1, <1>3, <2>1 DEF NckRecTimeout, PaceRecFbTimeout, Report, Alike, Coder, Rated,
                            RatedFields
  <2> HIDE DEF n
  <2> QED
    BY <1>3, <2>2, RecReport DEF n
<1> QED
  BY <1>2, <1>3 DEF NckRecTimer

(* A recoder combines what it has received.                                *)
LEMMA RecPacketsOk ==
  ASSUME NEW known, NEW r, RecOk(r, known), r.protocol \in {"noack", "pace"},
         NEW pkt \in NckRecPackets(r)
  PROVE  pkt \in Packets /\ Origin(pkt.generation, pkt.vec, known)
<1>0. /\ r.generation \in Generations /\ r.span \in SUBSET Vectors
      /\ \A v \in r.span : Origin(r.generation, v, known)
      /\ 0 \in 0 .. Symbols /\ (r.protocol = "pace" => r.rank \in 0 .. Symbols)
  BY SymbolsAssumption DEF RecOk, RecCore, Coder, SpanOrigin, Rated
<1>1. \E v \in r.span, k \in 0 .. Symbols :
        pkt = [generation |-> r.generation, rank |-> k, vec |-> v]
  BY <1>0 DEF NckRecPackets, NoackRecPackets, PaceRecPackets
<1> QED
  BY <1>0, <1>1 DEF Packets

-----------------------------------------------------------------------------
(* Every call of a decoder.                                                *)
DecRated(d) == d.protocol = "pace" => d.generation \in Generations /\ Rated(d)

DecMoves(d, n, known) ==
  /\ DecOk(n, known) /\ Over(d, n) /\ DecRated(n) /\ n.protocol = d.protocol
  /\ d.protocol = "pace" => Further(d, n)

LEMMA DecFields ==
  ASSUME NEW known, NEW d, DecOk(d, known)
  PROVE  Coder(d) /\ Numbered(d) /\ d.protocol = opt.protocol /\ SpanOrigin(d, known)
BY DEF DecOk, Coder, Numbered

LEMMA DecStill ==
  ASSUME NEW known, NEW d, DecOk(d, known), DecRated(d), NEW n, DecOk(n, known), Goes(d, n),
         NEW changed, Alike(n, d, changed), changed \cap RatedFields = {},
         n.generation = d.generation, n.span = d.span
  PROVE  DecMoves(d, n, known)
<1>1. n.protocol = d.protocol /\ Numbered(d)
  BY DecFields
<1>2. Further(d, n)
  BY <1>1, FurtherSame
<1>3. DecRated(n)
  BY <1>1, RatedAlike DEF DecRated
<1> QED
  BY <1>1, <1>2, <1>3, OverGoes DEF DecMoves

LEMMA DecReport ==
  ASSUME NEW known, NEW d, DecOk(d, known), DecRated(d), NEW n, NEW changed,
         changed \cap CoderFields = {}, Alike(n, d, changed),
         d.protocol = "pace" =>
           /\ n.rank = d.rank
           /\ \/ n.feedback_generation = 0 /\ n.feedback_rank = d.feedback_rank
              \/ n.feedback_generation = d.generation /\ n.feedback_rank = d.rank
  PROVE  DecMoves(d, n, known)
<1>1. DecOk(n, known) /\ Goes(d, n)
  BY AlikeOk
<1>2. Coder(d) /\ Numbered(d) /\ n.protocol = d.protocol
  BY <1>1, DecFields
<1>3. n.generation = d.generation /\ n.span = d.span
  BY <1>2 DEF Alike, Coder, CoderFields
<1>4. Further(d, n)
  BY <1>2, <1>3, FurtherSame
<1>5. ASSUME d.protocol = "pace" PROVE Rated(n)
  <2>1. RatedFields \subseteq DOMAIN n /\ Rated(d)
    BY <1>5 DEF DecRated, Rated, Alike
  <2>2. d.rank \in 0 .. Symbols /\ d.rank <= Rank(d.span) /\ d.generation \in Nat
        /\ d.feedback_rank \in 0 .. Symbols
    BY <1>2, <2>1 DEF Rated, Coder
  <2> QED
    BY <1>3, <1>5, <2>1, <2>2 DEF Rated, HasReport, ReportOf, Tells
<1> QED
  BY <1>1, <1>2, <1>3, <1>4, <1>5, OverGoes DEF DecMoves, DecRated

Successives == {"gsaw", "noack", "pace"}

LEMMA DecPutCodedMoves ==
  ASSUME NEW known \in SUBSET Slots, NEW d, DecOk(d, known), DecRated(d),
         d.protocol \in Successives,
         NEW pkt \in Packets, Origin(pkt.generation, pkt.vec, known),
         NEW n \in NckDecPutCodeds(d, pkt)
  PROVE  DecMoves(d, n, known)
<1>1. Coder(d) /\ SpanOrigin(d, known)
  BY DecFields
<1>2. CASE d.protocol = "gsaw"
  <2>1. n = GsawDecPutCoded(d, pkt)
    BY <1>2 DEF NckDecPutCodeds
  <2>2. DecOk(n, known) /\ Goes(d, n)
    BY <1>2, <2>1, GsawPutCodedOk
  <2>3. n.protocol = d.protocol
    BY <2>2, DecFields
  <2> QED
    BY <1>2, <2>2, <2>3, OverGoes DEF DecMoves, DecRated
<1>3. CASE d.protocol = "noack"
  <2>1. n = NoackDecPutCoded(d, pkt)
    BY <1>3 DEF NckDecPutCodeds
  <2>2. DecOk(n, known) /\ Over(d, n)
    BY <1>3, <2>1, NoackPutCodedOk
  <2>3. n.protocol = d.protocol
    BY <2>2, DecFields
  <2> QED
    BY <1>3, <2>2, <2>3 DEF DecMoves, DecRated
<1>4. CASE d.protocol = "pace"
  <2>1. n = PaceDecPutCoded(d, pkt)
    BY <1>4 DEF NckDecPutCodeds
  <2>2. DecOk(n, known) /\ Over(d, n)
    BY <1>4, <2>1, PacePutCodedOk
  <2>3. n.protocol = d.protocol
    BY <2>2, DecFields
  <2>4. RecCore(d, known) /\ Rated(d)
    BY <1>1, <1>4 DEF DecRated, RecCore
  <2>5. RecCore(n, known) /\ Rated(n) /\ Further(d, n)
    BY <2>1, <2>4, PaceDecPutCodedRated
  <2> QED
    BY <2>2, <2>3, <2>5 DEF DecMoves, DecRated, RecCore
<1> QED
  BY <1>2, <1>3, <1>4 DEF Successives

LEMMA DecGetSourceMoves ==
  ASSUME NEW known \in SUBSET Slots, NEW d, DecOk(d, known), DecRated(d),
         d.protocol \in Successives, NckDecHasSource(d)
  PROVE  LET n == NckDecGetSource(d)
         IN DecMoves(d, n, known) /\ Len(n.read) = Len(d.read) + 1
            /\ n.flush = d.flush /\ n.protocol = d.protocol
<1> DEFINE n == NckDecGetSource(d)
<1>1. QueueHasSource(d) /\ n = QueueGetSource(d)
  BY GetSourceOk DEF Successives
<1> HIDE DEF n
<1>2. DecOk(n, known) /\ Same(n, d) /\ Goes(d, n) /\ Len(n.read) = Len(d.read) + 1
  BY <1>1, TakeOk
<1>3. Coder(d) /\ Coder(n)
  BY <1>2, DecFields
<1>4. /\ n.generation = d.generation /\ n.span = d.span /\ n.flush = d.flush
      /\ n.protocol = d.protocol
  BY <1>2, <1>3, SameFields
<1>5. Alike(n, d, Taken) /\ Taken \cap RatedFields = {}
  BY <1>2, <1>3 DEF Same, Alike, Coder, Taken, RatedFields
<1>6. DecMoves(d, n, known)
  BY <1>2, <1>4, <1>5, DecStill
<1> QED
  BY <1>2, <1>4, <1>6 DEF n

LEMMA DecFlushSourceMoves ==
  ASSUME NEW known \in SUBSET Slots, NEW d, DecOk(d, known), DecRated(d),
         d.protocol \in Successives
  PROVE  LET n == NckDecFlushSource(d) IN DecMoves(d, n, known) /\ n.flush
<1> DEFINE n == NckDecFlushSource(d)
           changed == Taken \cup {"flush"}
<1>1. DecOk(n, known) /\ Goes(d, n) /\ n.flush /\ Alike(n, d, changed)
  BY FlushSourceOk DEF Successives
<1> HIDE DEF n
<1>2. n.generation = d.generation /\ n.span = d.span
  BY <1>1, DecFields DEF Alike, Taken, Coder, CoderFields
<1>3. changed \cap RatedFields = {}
  BY DEF Taken, RatedFields
<1> HIDE DEF changed
<1>4. DecMoves(d, n, known)
  BY <1>1, <1>2, <1>3, DecStill
<1> QED
  BY <1>1, <1>4 DEF n

LEMMA DecGetFeedbackMoves ==
  ASSUME NEW known, NEW d, DecOk(d, known), DecRated(d), d.protocol \in {"gsaw", "pace"}
  PROVE  DecMoves(d, NckDecGetFeedback(d), known)
<1> DEFINE n == NckDecGetFeedback(d)
<1>0. Coder(d)
  BY DecFields
<1>1. n = [d EXCEPT !.feedback_generation = 0]
  BY DEF NckDecGetFeedback, GsawDecGetFeedback, PaceDecGetFeedback, Reported
<1> HIDE DEF n
<1>2. Alike(n, d, {"feedback_generation"})
  BY <1>0, <1>1 DEF Alike, Coder
<1>3. {"feedback_generation"} \cap CoderFields = {}
  BY DEF CoderFields
<1>4. d.protocol = "pace" =>
        n.rank = d.rank /\ n.feedback_generation = 0 /\ n.feedback_rank = d.feedback_rank
  BY <1>1 DEF DecRated, Rated, RatedFields
<1> QED
  BY <1>2, <1>3, <1>4, DecReport DEF n

LEMMA DecTimeoutMoves ==
  ASSUME NEW known \in SUBSET Slots, NEW d, DecOk(d, known), DecRated(d), NckDecTimer(d)
  PROVE  DecMoves(d, NckDecTimeout(d), known)
<1> DEFINE n == NckDecTimeout(d)
<1>0. Coder(d)
  BY DecFields
<1>1. CASE d.protocol = "pace"
  <2> DEFINE changed == {"fb_timer", "feedback_generation", "feedback_rank"}
             m == [d EXCEPT !.fb_timer = FALSE]
  <2>1. n = Report(m, d.generation, d.rank)
    BY <1>1 DEF NckDecTimeout, PaceDecFbTimeout
  <2>2. Alike(m, d, {"fb_timer"})
    BY <1>0 DEF Alike, Coder
  <2>3. RatedFields \subseteq DOMAIN m
    BY <1>1, <2>2 DEF DecRated, Rated, Alike
  <2> HIDE DEF m, n
  <2>4. /\ Alike(n, d, changed) /\ n.rank = d.rank
        /\ n.feedback_generation = d.generation /\ n.feedback_rank = d.rank
    <3>1. Alike(n, m, {"feedback_generation", "feedback_rank"})
      BY <2>1, <2>2 DEF Report, Alike
    <3>2. n.feedback_generation = d.generation /\ n.feedback_rank = d.rank
      BY <2>1, <2>3 DEF Report, RatedFields
    <3>3. n.rank = d.rank
      BY <2>2, <2>3, <3>1 DEF Alike, RatedFields
    <3> QED
      BY <2>2, <3>1, <3>2, <3>3 DEF Alike
  <2>5. changed \cap CoderFields = {}
    BY DEF CoderFields
  <2> HIDE DEF changed
  <2> QED
    BY <2>4, <2>5, DecReport DEF n
<1>2. CASE d.protocol = "noack"
  <2> DEFINE m == [d EXCEPT !.timer = FALSE]
  <2>1. n = NoackDecFlushSource(m)
    BY <1>2 DEF NckDecTimeout, NoackDecTimeout
  <2>2. Alike(m, d, {"timer"}) /\ {"timer"} \cap CoderFields = {}
    BY <1>0 DEF Alike, Coder, CoderFields
  <2> HIDE DEF m, n
  <2>3. DecOk(m, known) /\ Goes(d, m) /\ m.protocol = d.protocol
    BY <2>2, AlikeOk, DecFields
  <2>4. n = NckDecFlushSource(m)
    BY <1>2, <2>1, <2>3 DEF NckDecFlushSource
  <2>5. DecOk(n, known) /\ Goes(m, n)
    BY <1>2, <2>3, <2>4, FlushSourceOk
  <2>6. Goes(d, n) /\ n.protocol = d.protocol
    BY <2>3, <2>5, GoesOn, DecFields
  <2> QED
    BY <1>2, <2>5, <2>6, OverGoes DEF DecMoves, DecRated, n
<1> QED
  BY <1>1, <1>2 DEF NckDecTimer

-----------------------------------------------------------------------------
(* The invariant.                                                          *)
LEMMA NetFacts ==
  ASSUME NetInv, Successive(opt)
  PROVE  /\ sent \in Seq(Slots) /\ Range(sent) \in SUBSET Slots
         /\ DecOk(dec, Range(sent)) /\ DecRated(dec) /\ Coder(dec)
         /\ dec.protocol = opt.protocol /\ opt.protocol \in Successives
         /\ EncOk(enc) /\ enc.protocol = opt.protocol
         /\ opt.relay => /\ RecOk(rec, Range(sent)) /\ rec.protocol = opt.protocol
                         /\ rec.protocol \in {"noack", "pace"}
<1>1. sent \in Seq(Slots) /\ Range(sent) \in SUBSET Slots
  BY DEF NetInv, SentOk, Range
<1>2. DecOk(dec, Range(sent)) /\ Coder(dec) /\ dec.protocol = opt.protocol
  BY DecFields DEF NetInv
<1>3. DecRated(dec)
  BY <1>2 DEF DecRated, NetInv, PathsOk, FeedbackOk
<1>4. opt.protocol \in Successives /\ (opt.protocol = "gsaw" => ~opt.relay)
  BY DEF Successive, Successives
<1>5. opt.relay => RecOk(rec, Range(sent)) /\ rec.protocol = opt.protocol
  BY DEF NetInv, RecOk, RecCore, Coder
<1>6. EncOk(enc) /\ enc.protocol = opt.protocol
  BY DEF NetInv, EncOk
<1> QED
  BY <1>1, <1>2, <1>3, <1>4, <1>5, <1>6 DEF Successives

LEMMA FeedbackKeeps ==
  ASSUME NetInv, Successive(opt), opt.protocol = "pace", opt' = opt, sent' = sent,
         DecMoves(dec, dec', Range(sent)) \/ dec' = dec,
         opt.relay => (RecMoves(rec, rec', Range(sent)) \/ rec' = rec),
         back' \in Seq(Reports), \A fb \in Range(back') : Tells(dec, fb),
         echo' \in Seq(Reports), \A fb \in Range(echo') : opt.relay /\ Tells(rec, fb)
  PROVE  FeedbackOk'
<1>1. /\ DecOk(dec, Range(sent)) /\ DecRated(dec) /\ dec.protocol = "pace"
      /\ opt.relay => RecOk(rec, Range(sent)) /\ rec.protocol = "pace"
  BY NetFacts
<1>2. \A fb \in Range(back') : fb \in Reports
  BY DEF Range
<1>3. \A fb \in Range(echo') : fb \in Reports
  BY DEF Range
<1>4. \A fb \in Reports : fb.generation \in Nat /\ fb.rank \in Nat
  BY SymbolsAssumption DEF Reports
<1>5. dec'.generation \in Generations /\ Rated(dec')
  BY <1>1 DEF DecMoves, DecRated
<1>6. ASSUME NEW fb \in Range(back') PROVE Tells(dec', fb)
  <2>1. CASE dec' = dec
    <3>1. Tells(dec, fb)
      OBVIOUS
    <3> QED
      BY <2>1, <3>1
  <2>2. CASE DecMoves(dec, dec', Range(sent))
    <3>1. Numbered(dec) /\ Numbered(dec') /\ Further(dec, dec')
      BY <1>1, <2>2, DecFields DEF DecMoves
    <3> QED
      BY <1>2, <1>4, <3>1, TellsOn
  <2> QED
    BY <2>1, <2>2
<1>7. ASSUME NEW fb \in Range(echo') PROVE opt.relay /\ Tells(rec', fb)
  <2>0. opt.relay /\ Tells(rec, fb)
    OBVIOUS
  <2>1. CASE rec' = rec
    BY <2>0, <2>1
  <2>2. CASE RecMoves(rec, rec', Range(sent))
    <3>1. Numbered(rec) /\ Numbered(rec') /\ Further(rec, rec')
      BY <1>1, <2>0, <2>2, CoreNumbered DEF RecMoves, RecOk
    <3> QED
      BY <1>3, <1>4, <2>0, <3>1, TellsOn
  <2> QED
    BY <2>0, <2>1, <2>2
<1>8. Rated(dec)' /\ \A fb \in Range(back') : Tells(dec', fb)
  BY <1>5, <1>6 DEF Rated, Tells, HasReport, ReportOf
<1> QED
  BY <1>5, <1>7, <1>8 DEF FeedbackOk, Tells

LEMMA NetKeeps ==
  ASSUME NetInv, Successive(opt), opt' = opt, sent' = sent,
         EncOk(enc') /\ EncStill(enc, enc'),
         DecMoves(dec, dec', Range(sent)) \/ dec' = dec,
         opt.relay => (RecMoves(rec, rec', Range(sent)) \/ rec' = rec),
         down' \in Seq(Packets), air' \in Seq(Packets),
         \A p \in Range(down') \cup Range(air') : Origin(p.generation, p.vec, Range(sent)),
         opt.protocol = "noack" => back' = <<>> /\ echo' = <<>>,
         opt.protocol = "pace" =>
           /\ back' \in Seq(Reports) /\ \A fb \in Range(back') : Tells(dec, fb)
           /\ echo' \in Seq(Reports) /\ \A fb \in Range(echo') : opt.relay /\ Tells(rec, fb)
  PROVE  NetInv'
<1>1. EncOk(enc)'
  BY DEF EncOk
<1>2. SentOk'
  BY DEF EncStill, NetInv, SentOk, Ascends
<1>3. DecOk(dec', Range(sent))
  BY DEF NetInv, DecMoves
<1>4. DecOk(dec, Range(sent))'
  BY <1>3 DEF DecOk, Coder, InTurn, SpanOrigin, Aligned, Origin, Ascends
<1>5. opt.relay => RecOk(rec', Range(sent))
  BY DEF NetInv, RecMoves
<1>6. (opt.relay => RecOk(rec, Range(sent)))'
  BY <1>5 DEF RecOk, RecCore, Coder, SpanOrigin, Origin, Rated, HasReport, ReportOf, Tells
<1>7. opt.protocol = "pace" => FeedbackOk'
  BY FeedbackKeeps
<1>8. PathsOk'
  BY <1>7 DEF PathsOk, Origin
<1>9. opt' \in Options
  BY DEF NetInv
<1> QED
  BY <1>1, <1>2, <1>4, <1>6, <1>8, <1>9 DEF NetInv

LEMMA KnownGrows ==
  ASSUME NEW K, NEW L, K \subseteq L
  PROVE  /\ \A d : DecOk(d, K) => DecOk(d, L)
         /\ \A r : RecOk(r, K) => RecOk(r, L)
         /\ \A g, v : Origin(g, v, K) => Origin(g, v, L)
BY DEF DecOk, RecOk, RecCore, SpanOrigin, Origin

LEMMA NetInit ==
  ASSUME Init, Successive(opt)
  PROVE  NetInv
<1>0. opt \in Options /\ Successive(opt) /\ opt.source \in Nat /\ opt.redundancy \in Nat
  BY NetAssumption DEF Init, Successive
<1>1. /\ opt.protocol \in Successives /\ (opt.protocol = "gsaw" => ~opt.relay)
      /\ Symbols \in Nat \ {0} /\ 1 \in Generations /\ 0 \in 0 .. Symbols
      /\ EmptySpan \in SUBSET Vectors
  BY <1>0, SpanType, SymbolsAssumption DEF Successive, Successives, Generations
<1>2. sent = <<>> /\ Range(sent) = {}
  BY DEF Init, Range
<1>3. EncOk(enc)
  <2>1. CASE opt.protocol = "gsaw"
    <3>1. enc = GsawEncStart(opt)
      BY <2>1 DEF Init, NckEncStart
    <3> QED
      BY <1>1, <2>1, <3>1 DEF EncOk, GsawEncStart
  <2>2. CASE opt.protocol = "noack"
    <3>1. enc = NoackEncStart(opt)
      BY <2>2 DEF Init, NckEncStart
    <3>2. SystematicStart(opt.systematic) \in Nat
      BY <1>1 DEF SystematicStart
    <3> QED
      BY <1>0, <1>1, <2>2, <3>1, <3>2 DEF EncOk, NoackEncStart
  <2>3. CASE opt.protocol = "pace"
    <3>1. enc = PaceEncStart(opt)
      BY <2>3 DEF Init, NckEncStart
    <3> QED
      BY <1>1, <2>3, <3>1 DEF EncOk, PaceEncStart
  <2> QED
    BY <1>1, <2>1, <2>2, <2>3 DEF Successives
<1>4. SentOk
  <2>1. enc.rank = 0
    <3>1. enc = NckEncStart(opt)
      BY DEF Init
    <3> QED
      BY <1>1, <3>1 DEF NckEncStart, Successives, GsawEncStart, NoackEncStart, PaceEncStart
  <2>2. SlotsOf(enc.generation, 1 .. enc.rank) = {}
    BY <2>1 DEF SlotsOf
  <2> QED
    BY <1>0, <1>2, <2>2 DEF SentOk, Ascends
<1>5. /\ Coder(dec) /\ dec.protocol = opt.protocol /\ dec.read = <<>> /\ dec.queue = <<>>
      /\ dec.span = EmptySpan /\ dec.flush = FALSE
      /\ dec.protocol = "pace" => dec.generation = 1 /\ Rated(dec)
  <2>1. CASE opt.protocol = "gsaw"
    <3>1. dec = GsawDecStart(opt)
      BY <2>1 DEF Init, NckDecStart
    <3> QED
      BY <1>1, <2>1, <3>1 DEF Coder, CoderFields, GsawDecStart
  <2>2. CASE opt.protocol = "noack"
    <3>1. dec = NoackDecStart(opt)
      BY <2>2 DEF Init, NckDecStart
    <3> QED
      BY <1>1, <2>2, <3>1 DEF Coder, CoderFields, NoackDecStart
  <2>3. CASE opt.protocol = "pace"
    <3>1. dec = PaceDecStart(opt)
      BY <2>3 DEF Init, NckDecStart
    <3>2. Coder(dec)
      BY <1>1, <2>3, <3>1 DEF Coder, CoderFields, PaceDecStart
    <3>3. dec.span = EmptySpan /\ Rank(dec.span) \in 0 .. Symbols
      BY <1>1, <3>1, RankType DEF PaceDecStart
    <3>4. Rated(dec)
      BY <1>1, <3>1, <3>3 DEF Rated, RatedFields, HasReport, PaceDecStart
    <3> QED
      BY <2>3, <3>1, <3>2, <3>4 DEF PaceDecStart
  <2> QED
    BY <1>1, <2>1, <2>2, <2>3 DEF Successives
<1>6. \A g, K : \A v \in EmptySpan : Origin(g, v, K)
  BY DEF EmptySpan, Origin, SlotsOf
<1>7. DecOk(dec, Range(sent))
  <2>1. Range(dec.read) = {} /\ Range(dec.queue) = {}
    BY <1>5 DEF Range
  <2>2. InTurn(dec)
    BY <1>5, <2>1 DEF InTurn, Ascends
  <2>3. SpanOrigin(dec, Range(sent))
    BY <1>5, <1>6 DEF SpanOrigin
  <2> QED
    BY <1>5, <2>1, <2>2, <2>3 DEF DecOk
<1>8. ASSUME opt.relay PROVE RecOk(rec, Range(sent))
  <2>1. CASE opt.protocol = "noack"
    <3>1. rec = NoackRecStart(opt)
      BY <1>8, <2>1 DEF Init, NckRecStart
    <3>2. Coder(rec) /\ rec.span = EmptySpan /\ rec.generation = 1 /\ rec.protocol = "noack"
      BY <1>1, <2>1, <3>1 DEF Coder, CoderFields, NoackRecStart
    <3> QED
      BY <1>1, <1>6, <3>2 DEF RecOk, RecCore, SpanOrigin
  <2>2. CASE opt.protocol = "pace"
    <3>1. rec = PaceRecStart(opt)
      BY <1>8, <2>2 DEF Init, NckRecStart
    <3>2. Coder(rec) /\ rec.span = EmptySpan /\ rec.generation = 1
      BY <1>1, <2>2, <3>1 DEF Coder, CoderFields, PaceRecStart
    <3>3. Rank(rec.span) \in 0 .. Symbols
      BY <1>1, <3>2, RankType
    <3>4. Rated(rec)
      BY <1>1, <3>1, <3>3 DEF Rated, RatedFields, HasReport, PaceRecStart
    <3> QED
      BY <1>1, <1>6, <3>2, <3>4 DEF RecOk, RecCore, SpanOrigin
  <2> QED
    BY <1>1, <1>8, <2>1, <2>2 DEF Successives
<1>9. PathsOk
  <2>1. down = <<>> /\ air = <<>> /\ back = <<>> /\ echo = <<>>
    BY DEF Init
  <2>2. Range(down) = {} /\ Range(air) = {} /\ Range(back) = {} /\ Range(echo) = {}
    BY <2>1 DEF Range
  <2>3. opt.protocol = "pace" => FeedbackOk
    BY <1>1, <1>5, <2>1, <2>2 DEF FeedbackOk
  <2> QED
    BY <2>1, <2>2, <2>3 DEF PathsOk
<1> QED
  BY <1>0, <1>3, <1>4, <1>7, <1>8, <1>9 DEF NetInv

LEMMA NetPutSource ==
  ASSUME NetInv, Successive(opt), PutSource
  PROVE  /\ NetInv' /\ dec' = dec
         /\ \E slot \in Slots : sent' = Append(sent, slot) /\ \A s \in Range(sent) : Before(s, slot)
<1> DEFINE slot == <<enc'.generation, enc'.rank>>
           K == Range(sent)
<1>0. /\ sent \in Seq(Slots) /\ K \in SUBSET Slots /\ DecOk(dec, K)
      /\ EncOk(enc) /\ (opt.relay => RecOk(rec, K)) /\ Len(sent) \in Nat
  BY NetFacts
<1>1. /\ ~NckEncFull(enc) /\ enc' = NckEncPutSource(enc)
      /\ sent' = Append(sent, NckEncSlot(enc')) /\ Len(sent) # opt.source
      /\ UNCHANGED <<opt, rec, dec, down, air, back, echo>>
  BY DEF PutSource, AtEnd, paths
<1>2. EncOk(enc') /\ EncPut(enc, enc') /\ NckEncSlot(enc') = slot
  BY <1>0, <1>1, EncPutOk
<1>3. /\ enc.generation \in Nat /\ enc.rank \in 0 .. Symbols /\ Symbols \in Nat
      /\ enc'.generation \in Generations /\ enc'.rank \in 0 .. Symbols
  BY <1>0, <1>2, SymbolsAssumption DEF EncOk, Generations
<1>4. slot \in Slots
  <2>1. enc'.rank \in 1 .. Symbols
    BY <1>2, <1>3 DEF EncPut
  <2> QED
    BY <1>3, <2>1 DEF Slots, Indices
<1>5. \A s \in K : s \in Slots /\ Before(s, slot)
  <2> SUFFICES ASSUME NEW n \in DOMAIN sent PROVE Before(sent[n], slot)
    BY <1>0 DEF Range
  <2>1. sent[n] = <<enc.generation, enc.rank>> \/ Before(sent[n], <<enc.generation, enc.rank>>)
    BY DEF NetInv, SentOk
  <2>2. Before(<<enc.generation, enc.rank>>, slot)
    BY <1>2, <1>3 DEF Before, EncPut
  <2>3. sent[n] \in Nat \X Nat /\ slot \in Nat \X Nat /\ <<enc.generation, enc.rank>> \in Nat \X Nat
    BY <1>0, <1>3, <1>4, SlotNumbers
  <2> QED
    BY <2>1, <2>2, <2>3, BeforeOrders
<1>6. /\ sent' \in Seq(Slots) /\ Range(sent') = K \cup {slot} /\ Len(sent') = Len(sent) + 1
      /\ \A i \in 1 .. Len(sent) : sent'[i] = sent[i]
      /\ sent'[Len(sent) + 1] = slot
  <2>1. sent' = Append(sent, slot)
    BY <1>1, <1>2
  <2> HIDE DEF slot
  <2> QED
    BY <1>0, <1>4, <2>1, RangeAppend
<1>7. SentOk'
  <2>1. Ascends(sent')
    <3>1. sent' = Append(sent, slot) /\ Ascends(sent)
      BY <1>1, <1>2 DEF NetInv, SentOk
    <3> HIDE DEF slot
    <3>2. Ascends(Append(sent, slot))
      BY <1>0, <1>4, <1>5, <3>1, AscendsAppend
    <3> QED
      BY <3>1, <3>2
  <2>2. Len(sent') <= opt.source
    <3>1. opt.source \in Nat /\ Len(sent) <= opt.source
      BY NetAssumption DEF NetInv, SentOk
    <3> QED
      BY <1>0, <1>1, <1>6, <3>1
  <2>3. \A n \in DOMAIN sent' : sent'[n] = slot \/ Before(sent'[n], slot)
    BY <1>5, <1>6 DEF Range
  <2>4. SlotsOf(enc'.generation, 1 .. enc'.rank) \subseteq Range(sent')
    <3> SUFFICES ASSUME NEW i \in 1 .. enc'.rank PROVE <<enc'.generation, i>> \in K \cup {slot}
      BY <1>6 DEF SlotsOf
    <3>1. CASE i = enc'.rank
      BY <3>1
    <3>2. CASE i # enc'.rank
      <4>1. enc'.generation = enc.generation /\ i \in 1 .. enc.rank
        BY <1>2, <1>3, <3>2 DEF EncPut
      <4>2. SlotsOf(enc.generation, 1 .. enc.rank) \subseteq K
        BY DEF NetInv, SentOk
      <4> QED
        BY <4>1, <4>2 DEF SlotsOf
    <3> QED
      BY <3>1, <3>2
  <2>5. Ascends(sent)'
    BY <2>1 DEF Ascends
  <2> QED
    BY <1>1, <1>6, <2>2, <2>3, <2>4, <2>5 DEF SentOk
<1> DEFINE L == Range(sent')
<1>8. K \subseteq L
  BY <1>6
<1>9. EncOk(enc)'
  BY <1>1, <1>2 DEF EncOk
<1>10. DecOk(dec, L) /\ (opt.relay => RecOk(rec, L))
       /\ \A p \in Range(down) \cup Range(air) : Origin(p.generation, p.vec, L)
  <2>1. \A p \in Range(down) \cup Range(air) : Origin(p.generation, p.vec, K)
    BY DEF NetInv, PathsOk
  <2> HIDE DEF K, L
  <2> QED
    BY <1>0, <1>8, <2>1, KnownGrows
<1>11. DecOk(dec, Range(sent))'
  BY <1>1, <1>10 DEF DecOk, Coder, InTurn, SpanOrigin, Aligned, Origin, Ascends
<1>12. (opt.relay => RecOk(rec, Range(sent)))'
  BY <1>1, <1>10 DEF RecOk, RecCore, Coder, SpanOrigin, Origin, Rated, HasReport, ReportOf, Tells
<1>13. FeedbackOk => FeedbackOk'
  BY <1>1 DEF FeedbackOk, Rated, HasReport, ReportOf, Tells
<1>14. PathsOk'
  BY <1>1, <1>10, <1>13 DEF NetInv, PathsOk, Origin
<1>15. opt' \in Options
  BY <1>1 DEF NetInv
<1>16. NetInv'
  BY <1>7, <1>9, <1>11, <1>12, <1>14, <1>15 DEF NetInv
<1> QED
  BY <1>1, <1>2, <1>4, <1>5, <1>16

-----------------------------------------------------------------------------
(* The steps.                                                              *)
LEMMA PathDrop ==
  ASSUME NEW S, NEW s \in Seq(S), NEW i \in Heads(s)
  PROVE  /\ s[i] \in Range(s) /\ RemoveAt(s, i) \in Seq(S)
         /\ Range(RemoveAt(s, i)) \subseteq Range(s)
<1>1. i \in DOMAIN s
  BY DEF Heads
<1> QED
  BY <1>1, RemoveAtType DEF Range

(* The decoder goes on, or nothing is put in.                              *)
NetGoes == sent' = sent /\ (dec' = dec \/ DecMoves(dec, dec', Range(sent)))

LEMMA NetPacketSteps ==
  ASSUME NetInv, Successive(opt),
         \/ NckEncHasCoded(enc) /\ \E pkt \in NckEncPackets(enc) : SendCoded(pkt)
         \/ RelayReceive
         \/ opt.relay /\ NckRecHasCoded(rec) /\ \E pkt \in NckRecPackets(rec) : RelaySend(pkt)
         \/ DecReceive
         \/ Lose
  PROVE  NetInv' /\ NetGoes
<1> DEFINE K == Range(sent)
<1>0. /\ K \in SUBSET Slots /\ DecOk(dec, K) /\ DecRated(dec) /\ EncOk(enc) /\ EncStill(enc, enc)
      /\ dec.protocol = opt.protocol /\ opt.protocol \in Successives /\ enc.protocol = opt.protocol
      /\ opt.relay => RecOk(rec, K) /\ rec.protocol \in {"noack", "pace"}
  BY NetFacts DEF EncStill
<1>1. /\ down \in Seq(Packets) /\ air \in Seq(Packets)
      /\ \A p \in Range(down) \cup Range(air) : Origin(p.generation, p.vec, K)
      /\ Range(down) \subseteq Packets /\ Range(air) \subseteq Packets
  <2>1. /\ down \in Seq(Packets) /\ air \in Seq(Packets)
        /\ \A p \in Range(down) \cup Range(air) : Origin(p.generation, p.vec, K)
    BY DEF NetInv, PathsOk
  <2>2. ASSUME NEW S, NEW s \in Seq(S)
        PROVE  Range(s) \subseteq S
    <3>1. DOMAIN s = 1 .. Len(s) /\ \A i \in 1 .. Len(s) : s[i] \in S
      OBVIOUS
    <3> QED
      BY <3>1 DEF Range
  <2> QED
    BY <2>1, <2>2
<1>2. /\ opt.protocol = "noack" => back = <<>> /\ echo = <<>>
      /\ opt.protocol = "pace" =>
           /\ back \in Seq(Reports) /\ \A fb \in Range(back) : Tells(dec, fb)
           /\ echo \in Seq(Reports) /\ \A fb \in Range(echo) : opt.relay /\ Tells(rec, fb)
  BY DEF NetInv, PathsOk, FeedbackOk
<1>3. ASSUME NckEncHasCoded(enc), NEW pkt \in NckEncPackets(enc), SendCoded(pkt)
      PROVE  NetInv' /\ NetGoes
  <2>1. /\ enc' = NckEncGetCoded(enc) /\ down' = Append(down, pkt)
        /\ UNCHANGED <<opt, rec, dec, air, back, echo, sent>>
    BY <1>3 DEF SendCoded
  <2>2. EncOk(enc') /\ EncStill(enc, enc')
    BY <1>0, <1>3, <2>1, EncGetCodedOk
  <2>3. pkt \in Packets /\ Origin(pkt.generation, pkt.vec, K)
    <3>1. pkt \in Packets /\ pkt.generation = enc.generation /\ pkt.vec \subseteq 1 .. enc.rank
      BY <1>0, <1>3, EncPacketsOk
    <3>2. SlotsOf(enc.generation, 1 .. enc.rank) \subseteq K
      BY DEF NetInv, SentOk
    <3> QED
      BY <3>1, <3>2 DEF Origin, SlotsOf
  <2>4. down' \in Seq(Packets) /\ Range(down') = Range(down) \cup {pkt}
    BY <1>1, <2>1, <2>3, RangeAppend
  <2>5. \A p \in Range(down') \cup Range(air') : Origin(p.generation, p.vec, K)
    BY <1>1, <2>1, <2>3, <2>4
  <2>6. NetInv'
    BY <1>1, <1>2, <2>1, <2>2, <2>4, <2>5, NetKeeps
  <2> QED
    BY <2>1, <2>6 DEF NetGoes
<1>4. CASE RelayReceive
  <2>1. PICK i \in Heads(down) : rec' = NckRecPutCoded(rec, down[i]) /\ down' = RemoveAt(down, i)
    BY <1>4 DEF RelayReceive
  <2>2. opt.relay /\ UNCHANGED <<opt, enc, dec, air, back, echo, sent>>
    BY <1>4 DEF RelayReceive
  <2>3. down[i] \in Range(down) /\ down' \in Seq(Packets) /\ Range(down') \subseteq Range(down)
    BY <1>1, <2>1, PathDrop
  <2>4. RecMoves(rec, rec', K)
    BY <1>0, <1>1, <2>1, <2>2, <2>3, RecPutCodedOk
  <2>5. \A p \in Range(down') \cup Range(air') : Origin(p.generation, p.vec, K)
    BY <1>1, <2>2, <2>3
  <2>6. NetInv'
    BY <1>0, <1>1, <1>2, <2>2, <2>3, <2>4, <2>5, NetKeeps
  <2> QED
    BY <2>2, <2>6 DEF NetGoes
<1>5. ASSUME opt.relay, NEW pkt \in NckRecPackets(rec), RelaySend(pkt)
      PROVE  NetInv' /\ NetGoes
  <2>1. /\ rec' = NckRecGetCoded(rec) /\ air' = Append(air, pkt)
        /\ UNCHANGED <<opt, enc, dec, down, back, echo, sent>>
    BY <1>5 DEF RelaySend
  <2>2. RecMoves(rec, rec', K)
    BY <1>0, <1>5, <2>1, RecGetCodedOk
  <2>3. pkt \in Packets /\ Origin(pkt.generation, pkt.vec, K)
    BY <1>0, <1>5, RecPacketsOk
  <2>4. air' \in Seq(Packets) /\ Range(air') = Range(air) \cup {pkt}
    BY <1>1, <2>1, <2>3, RangeAppend
  <2>5. \A p \in Range(down') \cup Range(air') : Origin(p.generation, p.vec, K)
    BY <1>1, <2>1, <2>3, <2>4
  <2>6. NetInv'
    BY <1>0, <1>1, <1>2, <2>1, <2>2, <2>4, <2>5, NetKeeps
  <2> QED
    BY <2>1, <2>6 DEF NetGoes
<1>6. CASE DecReceive
  <2>1. UNCHANGED <<opt, enc, rec, back, echo, sent>>
    BY <1>6 DEF DecReceive
  <2>2. ASSUME NEW pkt \in Packets, Origin(pkt.generation, pkt.vec, K),
               dec' \in NckDecPutCodeds(dec, pkt)
        PROVE  DecMoves(dec, dec', K)
    BY <1>0, <2>2, DecPutCodedMoves
  <2>3. /\ down' \in Seq(Packets) /\ air' \in Seq(Packets)
        /\ Range(down') \subseteq Range(down) /\ Range(air') \subseteq Range(air)
        /\ DecMoves(dec, dec', K)
    <3>1. ASSUME NEW i \in Heads(down), Receive(down, i), down' = RemoveAt(down, i), air' = air
          PROVE  /\ down' \in Seq(Packets) /\ air' \in Seq(Packets)
                 /\ Range(down') \subseteq Range(down) /\ Range(air') \subseteq Range(air)
                 /\ DecMoves(dec, dec', K)
      <4>1. down[i] \in Range(down) /\ down' \in Seq(Packets) /\ Range(down') \subseteq Range(down)
        BY <1>1, <3>1, PathDrop
      <4> QED
        BY <1>1, <2>2, <3>1, <4>1 DEF Receive
    <3>2. ASSUME NEW i \in Heads(air), Receive(air, i), air' = RemoveAt(air, i), down' = down
          PROVE  /\ down' \in Seq(Packets) /\ air' \in Seq(Packets)
                 /\ Range(down') \subseteq Range(down) /\ Range(air') \subseteq Range(air)
                 /\ DecMoves(dec, dec', K)
      <4>1. air[i] \in Range(air) /\ air' \in Seq(Packets) /\ Range(air') \subseteq Range(air)
        BY <1>1, <3>2, PathDrop
      <4> QED
        BY <1>1, <2>2, <3>2, <4>1 DEF Receive
    <3> QED
      BY <1>6, <3>1, <3>2 DEF DecReceive
  <2>4. \A p \in Range(down') \cup Range(air') : Origin(p.generation, p.vec, K)
    BY <1>1, <2>3
  <2>5. NetInv'
    BY <1>0, <1>2, <2>1, <2>3, <2>4, NetKeeps
  <2> QED
    BY <2>1, <2>3, <2>5 DEF NetGoes
<1>7. CASE Lose
  <2>1. UNCHANGED <<opt, enc, rec, dec, back, sent>>
    BY <1>7 DEF Lose, coders
  <2>2. /\ down' \in Seq(Packets) /\ air' \in Seq(Packets)
        /\ Range(down') \subseteq Range(down) /\ Range(air') \subseteq Range(air)
    <3>1. down' = down \/ (down # <<>> /\ down' = Tail(down))
      BY <1>7 DEF Lose
    <3>2. air' = air \/ (air # <<>> /\ air' = Tail(air))
      BY <1>7 DEF Lose
    <3>3. ASSUME NEW s \in Seq(Packets), s # <<>>
          PROVE  Tail(s) \in Seq(Packets) /\ Range(Tail(s)) \subseteq Range(s)
      BY <3>3, RangeTail
    <3> QED
      BY <1>1, <3>1, <3>2, <3>3
  <2>3. echo' = echo \/ (echo # <<>> /\ echo' = Tail(echo))
    BY <1>7 DEF Lose
  <2>4. opt.protocol = "noack" => echo' = <<>>
    BY <1>2, <2>3
  <2>5. opt.protocol = "pace" => echo' \in Seq(Reports) /\ Range(echo') \subseteq Range(echo)
    <3>1. ASSUME NEW s \in Seq(Reports), s # <<>>
          PROVE  Tail(s) \in Seq(Reports) /\ Range(Tail(s)) \subseteq Range(s)
      BY <3>1, RangeTail
    <3>2. ASSUME opt.protocol = "pace"
          PROVE  echo' \in Seq(Reports) /\ Range(echo') \subseteq Range(echo)
      <4>1. echo \in Seq(Reports)
        BY <1>2, <3>2
      <4>2. CASE echo' = echo
        BY <4>1, <4>2
      <4>3. CASE echo # <<>> /\ echo' = Tail(echo)
        BY <3>1, <4>1, <4>3
      <4> QED
        BY <2>3, <4>2, <4>3
    <3> QED
      BY <3>2
  <2>6. \A p \in Range(down') \cup Range(air') : Origin(p.generation, p.vec, K)
    BY <1>1, <2>2
  <2>7. NetInv'
    BY <1>0, <1>2, <2>1, <2>2, <2>4, <2>5, <2>6, NetKeeps
  <2> QED
    BY <2>1, <2>7 DEF NetGoes
<1> QED
  BY <1>3, <1>4, <1>5, <1>6, <1>7

LEMMA NetCoderSteps ==
  ASSUME NetInv, Successive(opt),
         \/ RelayTake \/ WriteOutput \/ EncTimer \/ RecTimer \/ DecTimer
         \/ FlushCoded \/ FlushSource
  PROVE  NetInv' /\ NetGoes
<1> DEFINE K == Range(sent)
<1>0. /\ K \in SUBSET Slots /\ DecOk(dec, K) /\ DecRated(dec) /\ EncOk(enc) /\ EncStill(enc, enc)
      /\ dec.protocol = opt.protocol /\ opt.protocol \in Successives /\ enc.protocol = opt.protocol
      /\ opt.relay => RecOk(rec, K) /\ rec.protocol \in {"noack", "pace"}
  BY NetFacts DEF EncStill
<1>1. /\ down \in Seq(Packets) /\ air \in Seq(Packets)
      /\ \A p \in Range(down) \cup Range(air) : Origin(p.generation, p.vec, K)
  BY DEF NetInv, PathsOk
<1>2. /\ opt.protocol = "noack" => back = <<>> /\ echo = <<>>
      /\ opt.protocol = "pace" =>
           /\ back \in Seq(Reports) /\ \A fb \in Range(back) : Tells(dec, fb)
           /\ echo \in Seq(Reports) /\ \A fb \in Range(echo) : opt.relay /\ Tells(rec, fb)
  BY DEF NetInv, PathsOk, FeedbackOk
<1>3. /\ UNCHANGED <<opt, down, air, back, echo, sent>>
      /\ \/ EncOk(enc') /\ EncStill(enc, enc') /\ dec' = dec /\ rec' = rec
         \/ enc' = enc /\ dec' = dec /\ (opt.relay => RecMoves(rec, rec', K))
         \/ enc' = enc /\ rec' = rec /\ DecMoves(dec, dec', K)
  <2>1. CASE RelayTake
    BY <1>0, <2>1, RecGetSourceOk DEF RelayTake, paths
  <2>2. CASE WriteOutput
    BY <1>0, <2>2, DecGetSourceMoves DEF WriteOutput, paths
  <2>3. CASE EncTimer
    BY <1>0, <2>3, EncTimeoutOk DEF EncTimer, paths
  <2>4. CASE RecTimer
    BY <1>0, <2>4, RecTimeoutOk DEF RecTimer, paths
  <2>5. CASE DecTimer
    BY <1>0, <2>5, DecTimeoutMoves DEF DecTimer, paths
  <2>6. CASE FlushCoded
    BY <1>0, <2>6, EncFlushCodedOk DEF FlushCoded, paths
  <2>7. CASE FlushSource
    BY <1>0, <2>7, DecFlushSourceMoves DEF FlushSource, paths
  <2> QED
    BY <2>1, <2>2, <2>3, <2>4, <2>5, <2>6, <2>7
<1>4. NetInv'
  BY <1>0, <1>1, <1>2, <1>3, NetKeeps
<1> QED
  BY <1>3, <1>4 DEF NetGoes

LEMMA NetFeedbackSteps ==
  ASSUME NetInv, Successive(opt),
         \/ SendFeedback
         \/ \E heard \in SUBSET Listeners : HearFeedback(heard)
         \/ RelayFeedback
         \/ HearEcho
  PROVE  NetInv' /\ NetGoes
<1> DEFINE K == Range(sent)
<1>0. /\ K \in SUBSET Slots /\ DecOk(dec, K) /\ DecRated(dec) /\ EncOk(enc) /\ EncStill(enc, enc)
      /\ dec.protocol = opt.protocol /\ opt.protocol \in Successives /\ enc.protocol = opt.protocol
      /\ opt.relay => RecOk(rec, K) /\ rec.protocol = opt.protocol
      /\ Coder(dec)
  BY NetFacts DEF EncStill
<1>1. /\ down \in Seq(Packets) /\ air \in Seq(Packets)
      /\ \A p \in Range(down) \cup Range(air) : Origin(p.generation, p.vec, K)
  BY DEF NetInv, PathsOk
<1>2. /\ opt.protocol = "noack" => back = <<>> /\ echo = <<>>
      /\ opt.protocol = "pace" =>
           /\ back \in Seq(Reports) /\ \A fb \in Range(back) : Tells(dec, fb)
           /\ echo \in Seq(Reports) /\ \A fb \in Range(echo) : opt.relay /\ Tells(rec, fb)
  BY DEF NetInv, PathsOk, FeedbackOk
<1>3. ASSUME NEW c, Rated(c), HasReport(c)
      PROVE  ReportOf(c) \in Reports /\ Tells(c, ReportOf(c))
  BY <1>3 DEF Rated, ReportOf, Reports
<1>4. CASE SendFeedback
  <2>1. /\ NckDecHasFeedback(dec) /\ dec' = NckDecGetFeedback(dec)
        /\ UNCHANGED <<opt, enc, rec, down, air, echo, sent>>
    BY <1>4 DEF SendFeedback
  <2>2. PICK fb \in NckDecFeedbacks(dec, 0 .. opt.source) : back' = Append(back, fb)
    BY <1>4 DEF SendFeedback
  <2>3. dec.protocol \in {"gsaw", "pace"}
    BY <1>0, <2>1 DEF NckDecHasFeedback, Successives
  <2>4. DecMoves(dec, dec', K)
    BY <1>0, <2>1, <2>3, DecGetFeedbackMoves
  <2>5. ASSUME opt.protocol = "pace"
        PROVE  back' \in Seq(Reports) /\ \A r \in Range(back') : Tells(dec, r)
    <3>1. fb = ReportOf(dec) /\ HasReport(dec) /\ Rated(dec)
      BY <1>0, <2>1, <2>5 DEF NckDecFeedbacks, NckDecHasFeedback, PaceDecHasFeedback, DecRated
    <3>2. fb \in Reports /\ Tells(dec, fb)
      BY <1>3, <3>1
    <3>3. back' \in Seq(Reports) /\ Range(back') = Range(back) \cup {fb}
      BY <1>2, <2>2, <2>5, <3>2, RangeAppend
    <3> QED
      BY <1>2, <2>5, <3>2, <3>3
  <2>6. NetInv'
    BY <1>0, <1>1, <1>2, <2>1, <2>3, <2>4, <2>5, NetKeeps
  <2> QED
    BY <2>1, <2>4, <2>6 DEF NetGoes
<1>5. ASSUME NEW heard \in SUBSET Listeners, HearFeedback(heard) PROVE NetInv' /\ NetGoes
  <2>1. /\ back # <<>> /\ back' = Tail(back) /\ UNCHANGED <<opt, dec, down, air, echo, sent>>
        /\ enc' = IF "enc" \in heard THEN NckEncPutFeedback(enc, Head(back)) ELSE enc
        /\ rec' = IF "rec" \in heard THEN NckRecPutFeedback(rec, Head(back)) ELSE rec
    BY <1>5 DEF HearFeedback
  <2>2. opt.protocol # "noack"
    BY <1>2, <2>1
  <2>3. EncOk(enc') /\ EncStill(enc, enc')
    BY <1>0, <2>1, <2>2, EncPutFeedbackOk
  <2>4. opt.relay => RecMoves(rec, rec', K) \/ rec' = rec
    BY <1>0, <2>1, RecPutFeedbackOk
  <2>5. opt.protocol = "pace" => back' \in Seq(Reports) /\ Range(back') \subseteq Range(back)
    BY <1>2, <2>1, RangeTail
  <2>6. NetInv'
    BY <1>1, <1>2, <2>1, <2>2, <2>3, <2>4, <2>5, NetKeeps
  <2> QED
    BY <2>1, <2>6 DEF NetGoes
<1>6. CASE RelayFeedback
  <2>1. /\ opt.relay /\ NckRecHasFeedback(rec) /\ echo' = Append(echo, ReportOf(rec))
        /\ rec' = NckRecGetFeedback(rec) /\ UNCHANGED <<opt, enc, dec, down, air, back, sent>>
    BY <1>6 DEF RelayFeedback
  <2>2. rec.protocol = "pace" /\ HasReport(rec) /\ opt.protocol = "pace" /\ Rated(rec)
    BY <1>0, <2>1 DEF NckRecHasFeedback, PaceRecHasFeedback, RecOk
  <2>3. RecMoves(rec, rec', K)
    BY <1>0, <2>1, <2>2, RecGetFeedbackOk
  <2>4. ReportOf(rec) \in Reports /\ Tells(rec, ReportOf(rec))
    BY <1>3, <2>2
  <2>5. echo' \in Seq(Reports) /\ Range(echo') = Range(echo) \cup {ReportOf(rec)}
    BY <1>2, <2>1, <2>2, <2>4, RangeAppend
  <2>6. NetInv'
    BY <1>0, <1>1, <1>2, <2>1, <2>2, <2>3, <2>4, <2>5, NetKeeps
  <2> QED
    BY <2>1, <2>6 DEF NetGoes
<1>7. CASE HearEcho
  <2>1. /\ echo # <<>> /\ echo' = Tail(echo) /\ enc' = NckEncPutFeedback(enc, Head(echo))
        /\ UNCHANGED <<opt, rec, dec, down, air, back, sent>>
    BY <1>7 DEF HearEcho
  <2>2. opt.protocol # "noack"
    BY <1>2, <2>1
  <2>3. EncOk(enc') /\ EncStill(enc, enc')
    BY <1>0, <2>1, <2>2, EncPutFeedbackOk
  <2>4. opt.protocol = "pace" => echo' \in Seq(Reports) /\ Range(echo') \subseteq Range(echo)
    BY <1>2, <2>1, RangeTail
  <2>5. NetInv'
    BY <1>1, <1>2, <2>1, <2>2, <2>3, <2>4, NetKeeps
  <2> QED
    BY <2>1, <2>5 DEF NetGoes
<1> QED
  BY <1>4, <1>5, <1>6, <1>7

(* Every step of a network.                                                *)
Puts ==
  /\ dec' = dec
  /\ \E slot \in Slots : sent' = Append(sent, slot) /\ \A s \in Range(sent) : Before(s, slot)

LEMMA NetSteps ==
  ASSUME NetInv, Successive(opt), [Next]_vars
  PROVE  NetInv' /\ (NetGoes \/ Puts)
<1>1. CASE PutSource
  BY <1>1, NetPutSource DEF Puts
<1>2. CASE \/ NckEncHasCoded(enc) /\ \E pkt \in NckEncPackets(enc) : SendCoded(pkt)
           \/ RelayReceive
           \/ opt.relay /\ NckRecHasCoded(rec) /\ \E pkt \in NckRecPackets(rec) : RelaySend(pkt)
           \/ DecReceive
           \/ Lose
  BY <1>2, NetPacketSteps
<1>3. CASE \/ RelayTake \/ WriteOutput \/ EncTimer \/ RecTimer \/ DecTimer
           \/ FlushCoded \/ FlushSource
  BY <1>3, NetCoderSteps
<1>4. CASE \/ SendFeedback \/ RelayFeedback \/ HearEcho
           \/ \E heard \in SUBSET Listeners : HearFeedback(heard)
  BY <1>4, NetFeedbackSteps
<1>5. CASE UNCHANGED vars
  <2>1. UNCHANGED <<opt, enc, rec, dec, down, air, back, echo, sent>>
    BY <1>5 DEF vars
  <2>2. /\ EncOk(enc') /\ EncStill(enc, enc')
        /\ down' \in Seq(Packets) /\ air' \in Seq(Packets)
        /\ \A p \in Range(down') \cup Range(air') : Origin(p.generation, p.vec, Range(sent))
        /\ opt.protocol = "noack" => back' = <<>> /\ echo' = <<>>
        /\ opt.protocol = "pace" =>
             /\ back' \in Seq(Reports) /\ \A fb \in Range(back') : Tells(dec, fb)
             /\ echo' \in Seq(Reports) /\ \A fb \in Range(echo') : opt.relay /\ Tells(rec, fb)
    BY <2>1 DEF NetInv, PathsOk, FeedbackOk, EncStill
  <2>3. NetInv'
    BY <2>1, <2>2, NetKeeps
  <2> QED
    BY <2>1, <2>3 DEF NetGoes
<1> QED
  BY <1>1, <1>2, <1>3, <1>4, <1>5 DEF Next

(* Nobody changes the options.                                             *)
LEMMA OptionsStay ==
  ASSUME [Next]_vars
  PROVE  opt' = opt
BY DEF Next, vars, PutSource, SendCoded, RelayReceive, RelaySend, RelayTake, DecReceive,
       WriteOutput, SendFeedback, HearFeedback, RelayFeedback, HearEcho, Lose, EncTimer,
       RecTimer, DecTimer, FlushCoded, FlushSource

(* The networks of GSAW, NOACK and PACE, whatever they lose or reorder,    *)
(* keep the invariant: packets combine symbols that were put in, coders    *)
(* hold and hand out such symbols only, what was handed out, queued and is *)
(* yet to come ascends, and reports stay true of who wrote them.           *)
THEOREM NetInvariant == Spec /\ Successive(opt) => [](NetInv /\ Successive(opt))
<1>1. Init /\ Successive(opt) => NetInv
  BY NetInit
<1>2. NetInv /\ Successive(opt) /\ [Next]_vars => (NetInv /\ Successive(opt))'
  <2>1. opt' = opt => Successive(opt)' = Successive(opt)
    BY DEF Successive
  <2> QED
    BY <2>1, NetSteps, OptionsStay
<1> QED
  BY <1>1, <1>2, PTL DEF Spec

-----------------------------------------------------------------------------
(* The stream: symbols by their places in what was put in.                 *)
Place(slots, slot) ==
  IF slot \in Range(slots) THEN CHOOSE n \in DOMAIN slots : slots[n] = slot ELSE 0

Handed(slots, read) == [n \in DOMAIN read |-> Place(slots, read[n])]

LEMMA PlaceIs ==
  ASSUME NEW s \in Seq(Slots), Ascends(s), NEW n \in DOMAIN s
  PROVE  Place(s, s[n]) = n
<1>1. s[n] \in Range(s)
  BY DEF Range
<1>2. \A m \in DOMAIN s : s[m] = s[n] => m = n
  <2> SUFFICES ASSUME NEW m \in DOMAIN s, s[m] = s[n], m # n PROVE FALSE
    OBVIOUS
  <2>1. m \in Nat /\ n \in Nat /\ s[n] \in Nat \X Nat
    BY SlotNumbers
  <2>2. m < n \/ n < m
    BY <2>1
  <2>3. Before(s[n], s[n])
    BY <2>2 DEF Ascends
  <2> QED
    BY <2>1, <2>3, BeforeOrders
<1> QED
  BY <1>1, <1>2 DEF Place

LEMMA PlaceAscends ==
  ASSUME NEW s \in Seq(Slots), Ascends(s), NEW t \in Range(s), NEW u \in Range(s), Before(t, u)
  PROVE  Place(s, t) \in DOMAIN s /\ Place(s, u) \in DOMAIN s /\ Place(s, t) < Place(s, u)
<1>1. PICK n \in DOMAIN s : s[n] = t
  BY DEF Range
<1>2. PICK m \in DOMAIN s : s[m] = u
  BY DEF Range
<1>3. Place(s, t) = n /\ Place(s, u) = m
  BY <1>1, <1>2, PlaceIs
<1>4. n < m
  <2> SUFFICES ASSUME ~(n < m) PROVE FALSE
    OBVIOUS
  <2>1. n \in Nat /\ m \in Nat /\ t \in Nat \X Nat /\ u \in Nat \X Nat
    BY <1>1, <1>2, SlotNumbers
  <2>2. m < n \/ m = n
    BY <2>1
  <2>3. Before(u, t) \/ u = t
    BY <1>1, <1>2, <2>2 DEF Ascends
  <2> QED
    BY <2>1, <2>3, BeforeOrders
<1> QED
  BY <1>3, <1>4

LEMMA HandedType ==
  ASSUME NEW s \in Seq(Slots), Ascends(s), NEW r \in Seq(Slots), Range(r) \subseteq Range(s)
  PROVE  /\ Handed(s, r) \in Seq(1 .. Len(s)) /\ Len(Handed(s, r)) = Len(r)
         /\ \A i \in 1 .. Len(r) : Handed(s, r)[i] = Place(s, r[i])
         /\ Ascends(r) => \A i, j \in 1 .. Len(r) : i < j => Handed(s, r)[i] < Handed(s, r)[j]
<1>1. ASSUME NEW i \in 1 .. Len(r)
      PROVE  Place(s, r[i]) \in 1 .. Len(s) /\ r[i] \in Range(s)
  <2>1. r[i] \in Range(s)
    <3>1. i \in DOMAIN r
      OBVIOUS
    <3>2. r[i] \in Range(r)
      BY <3>1 DEF Range
    <3> QED
      BY <3>2
  <2>2. PICK n \in DOMAIN s : s[n] = r[i]
    BY <2>1 DEF Range
  <2> QED
    BY <2>1, <2>2, PlaceIs
<1>2. Handed(s, r) = [n \in 1 .. Len(r) |-> Place(s, r[n])] /\ Len(r) \in Nat
  BY DEF Handed
<1>3. Handed(s, r) \in Seq(1 .. Len(s)) /\ Len(Handed(s, r)) = Len(r)
  BY <1>1, <1>2
<1>4. ASSUME Ascends(r), NEW i \in 1 .. Len(r), NEW j \in 1 .. Len(r), i < j
      PROVE  Handed(s, r)[i] < Handed(s, r)[j]
  <2>1. Before(r[i], r[j])
    BY <1>4 DEF Ascends
  <2> QED
    BY <1>1, <1>2, <2>1, PlaceAscends
<1> QED
  BY <1>2, <1>3, <1>4

(* New symbols get the places after the old ones.                          *)
LEMMA HandedPut ==
  ASSUME NEW s \in Seq(Slots), Ascends(s), NEW slot \in Slots,
         \A t \in Range(s) : Before(t, slot),
         NEW r \in Seq(Slots), Range(r) \subseteq Range(s)
  PROVE  Handed(Append(s, slot), r) = Handed(s, r)
<1> DEFINE u == Append(s, slot)
<1>1. /\ u \in Seq(Slots) /\ Ascends(u) /\ DOMAIN s \subseteq DOMAIN u
      /\ \A n \in DOMAIN s : u[n] = s[n]
  <2>1. u \in Seq(Slots) /\ Len(u) = Len(s) + 1 /\ Len(s) \in Nat
        /\ \A i \in 1 .. Len(s) : u[i] = s[i]
    BY RangeAppend
  <2>2. Ascends(u)
    BY AscendsAppend
  <2> HIDE DEF u
  <2> QED
    BY <2>1, <2>2
<1> HIDE DEF u
<1>2. ASSUME NEW i \in DOMAIN r PROVE Place(u, r[i]) = Place(s, r[i])
  <2>1. PICK n \in DOMAIN s : s[n] = r[i]
    BY DEF Range
  <2>2. Place(s, s[n]) = n /\ Place(u, u[n]) = n /\ u[n] = s[n]
    BY <1>1, PlaceIs
  <2> QED
    BY <2>1, <2>2
<1> QED
  BY <1>2 DEF Handed, u

LEMMA UptoSize ==
  ASSUME NEW m \in Nat
  PROVE  IsFiniteSet(1 .. m) /\ Cardinality(1 .. m) = m
BY FS_Interval

(* Ascending numbers are no more than there are.                           *)
LEMMA AscendingWithin ==
  ASSUME NEW M \in Nat, NEW h \in Seq(1 .. M), \A i, j \in 1 .. Len(h) : i < j => h[i] < h[j]
  PROVE  Len(h) <= M
<1> SUFFICES ASSUME M < Len(h) PROVE FALSE
  <2>1. Len(h) \in Nat
    OBVIOUS
  <2> QED
    BY <2>1
<1> DEFINE N == Len(h)
<1>1. /\ h \in Seq(1 .. M) /\ \A i, j \in 1 .. N : i < j => h[i] < h[j]
      /\ N \in Nat /\ M < N /\ N = Len(h)
  OBVIOUS
<1> HIDE DEF N
<1>3. h \in [1 .. N -> 1 .. M]
  <2>1. ASSUME NEW S, NEW t \in Seq(S)
        PROVE  t \in [1 .. Len(t) -> S]
    OBVIOUS
  <2> QED
    BY <1>1, <2>1
<1>4. /\ IsFiniteSet(1 .. M) /\ Cardinality(1 .. M) = M
      /\ IsFiniteSet(1 .. N) /\ Cardinality(1 .. N) = N
  BY <1>1, UptoSize
<1>5. \E x, y \in 1 .. N : x # y /\ h[x] = h[y]
  BY <1>1, <1>3, <1>4, FS_PigeonHole
<1>6. PICK x \in 1 .. N, y \in 1 .. N : x # y /\ h[x] = h[y]
  BY <1>5
<1>7. (x < y \/ y < x) /\ h[x] \in 1 .. M /\ h[y] \in 1 .. M
  BY <1>1, <1>3, <1>6
<1> QED
  BY <1>1, <1>6, <1>7

(* Places that go on from others are later ones.                           *)
LEMMA PlacesOn ==
  ASSUME NEW N \in Nat, NEW old \in Seq(1 .. N), NEW new \in Seq(1 .. N), Extends(old, new),
         \A i, j \in 1 .. Len(new) : i < j => new[i] < new[j]
  PROVE  LET newest == IF old = <<>> THEN 0 ELSE old[Len(old)]
         IN \/ new = old
            \/ \E length \in 1 .. N : \E numbers \in [1 .. length -> newest + 1 .. N] :
                 /\ \A i, j \in DOMAIN numbers : i < j => numbers[i] < numbers[j]
                 /\ new = old \o numbers
<1> DEFINE newest == IF old = <<>> THEN 0 ELSE old[Len(old)]
           R == Len(old)
           Q == Len(new)
           length == Q - R
           numbers == [k \in 1 .. length |-> new[R + k]]
<1>1. R \in Nat /\ Q \in Nat /\ N \in Nat /\ R <= Q
  BY DEF Extends
<1>2. /\ old \in Seq(1 .. N) /\ Len(old) = R
      /\ new \in Seq(1 .. N) /\ Len(new) = Q
  OBVIOUS
<1>3. \A i \in 1 .. R : new[i] = old[i]
  BY DEF Extends
<1>8. \A i, j \in 1 .. Q : i < j => new[i] < new[j]
  OBVIOUS
<1>9. Q <= N
  BY AscendingWithin
<1> HIDE DEF R, Q
<1>6. \A i \in 1 .. Q : new[i] \in 1 .. N
  BY <1>1, <1>2
<1>4. CASE length = 0
  <2>1. Q = R
    BY <1>1, <1>4
  <2>2. new = old
    <3>1. new = [i \in 1 .. R |-> new[i]] /\ old = [i \in 1 .. R |-> old[i]]
      BY <1>2, <2>1
    <3> QED
      BY <1>3, <3>1
  <2> QED
    BY <2>2
<1>5. CASE length # 0
  <2>1. length \in Nat \ {0} /\ R + length = Q
    BY <1>1, <1>5
  <2>0. /\ numbers = [k \in 1 .. length |-> new[R + k]]
        /\ \A k \in 1 .. length : numbers[k] = new[R + k]
    OBVIOUS
  <2> HIDE DEF numbers, length
  <2>2. newest \in 0 .. N /\ \A k \in 1 .. length : new[R + k] \in newest + 1 .. N
    <3>1. CASE old = <<>>
      <4>1. newest = 0
        BY <3>1
      <4>2. ASSUME NEW k \in 1 .. length PROVE new[R + k] \in 1 .. N
        <5>1. R + k \in 1 .. Q
          BY <1>1, <2>1
        <5> QED
          BY <1>6, <5>1
      <4> HIDE DEF newest
      <4> QED
        BY <1>1, <4>1, <4>2
    <3>2. CASE old # <<>>
      <4>1. R \in 1 .. Q /\ R \in 1 .. R /\ newest = old[R]
        <5>1. Len(old) = R /\ R # 0
          BY <1>2, <3>2
        <5> QED
          BY <1>1, <3>2, <5>1
      <4>2. newest \in 1 .. N /\ newest = new[R]
        BY <1>3, <1>6, <4>1
      <4>3. ASSUME NEW k \in 1 .. length PROVE new[R + k] \in newest + 1 .. N
        <5>1. R + k \in 1 .. Q /\ R < R + k
          BY <1>1, <2>1
        <5>2. new[R] < new[R + k] /\ new[R + k] \in 1 .. N
          BY <1>6, <1>8, <4>1, <5>1
        <5> HIDE DEF newest
        <5> QED
          BY <1>1, <4>2, <5>2
      <4> HIDE DEF newest
      <4> QED
        BY <1>1, <4>2, <4>3
    <3> QED
      BY <3>1, <3>2
  <2> HIDE DEF newest
  <2>3. numbers \in [1 .. length -> newest + 1 .. N] /\ DOMAIN numbers = 1 .. length
    BY <2>0, <2>2
  <2>4. ASSUME NEW i \in 1 .. length, NEW j \in 1 .. length, i < j
        PROVE  numbers[i] < numbers[j]
    <3>1. R + i \in 1 .. Q /\ R + j \in 1 .. Q /\ R + i < R + j
      BY <1>1, <2>1, <2>4
    <3> QED
      BY <1>8, <2>0, <3>1
  <2>5. length <= N
    BY <1>1, <1>9, <2>1
  <2>6. new = old \o numbers
    <3>1. numbers \in Seq(1 .. N) /\ Len(numbers) = length
      <4>1. numbers \in [1 .. length -> 1 .. N]
        <5>1. newest + 1 .. N \subseteq 1 .. N
          BY <1>1, <2>2
        <5> QED
          BY <2>3, <5>1
      <4>2. ASSUME NEW m \in Nat, NEW S, NEW f \in [1 .. m -> S] PROVE f \in Seq(S) /\ Len(f) = m
        OBVIOUS
      <4> QED
        BY <2>1, <4>1, <4>2
    <3> DEFINE both == old \o numbers
    <3>2. /\ both \in Seq(1 .. N) /\ Len(both) = R + length
          /\ \A i \in 1 .. R + length :
               both[i] = IF i <= R THEN old[i] ELSE numbers[i - R]
      <4>1. old \in Seq(1 .. N) /\ Len(old) = R
        BY <1>2
      <4>2. /\ both \in Seq(1 .. N) /\ Len(both) = Len(old) + Len(numbers)
            /\ \A i \in 1 .. Len(old) + Len(numbers) :
                 both[i] = IF i <= Len(old) THEN old[i] ELSE numbers[i - Len(old)]
        BY <3>1, <4>1, ConcatProperties
      <4> HIDE DEF both
      <4> QED
        BY <3>1, <4>1, <4>2
    <3>3. Len(both) = Q
      BY <2>1, <3>2
    <3> HIDE DEF both
    <3>4. ASSUME NEW i \in 1 .. Q PROVE both[i] = new[i]
      <4>1. CASE i <= R
        <5>1. i \in 1 .. R
          BY <1>1, <4>1
        <5>2. both[i] = old[i]
          BY <2>1, <3>2, <4>1
        <5> QED
          BY <1>3, <5>1, <5>2
      <4>2. CASE ~(i <= R)
        <5>1. i - R \in 1 .. length /\ R + (i - R) = i
          BY <1>1, <2>1, <4>2
        <5>2. both[i] = numbers[i - R]
          BY <2>1, <3>2, <4>2
        <5> QED
          BY <2>0, <5>1, <5>2
      <4> QED
        BY <4>1, <4>2
    <3>5. both = [i \in 1 .. Q |-> both[i]] /\ new = [i \in 1 .. Q |-> new[i]]
      BY <1>2, <3>2, <3>3
    <3>6. both = new
      BY <3>4, <3>5
    <3> QED
      BY <3>6 DEF both
  <2>7. length \in 1 .. N
    BY <1>1, <2>1, <2>5
  <2>9. \A i, j \in DOMAIN numbers : i < j => numbers[i] < numbers[j]
    BY <2>3, <2>4
  <2>10. \E l \in 1 .. N : \E m \in [1 .. l -> newest + 1 .. N] :
           (\A i, j \in DOMAIN m : i < j => m[i] < m[j]) /\ new = old \o m
    BY <2>3, <2>6, <2>7, <2>9
  <2> QED
    BY <2>10 DEF newest
<1> QED
  BY <1>4, <1>5

(* Ascending slots of a sequence are no more than those of it.             *)
LEMMA AscendingFits ==
  ASSUME NEW s \in Seq(Slots), Ascends(s), NEW r \in Seq(Slots), Ascends(r),
         Range(r) \subseteq Range(s)
  PROVE  Len(r) <= Len(s)
<1> DEFINE h == Handed(s, r)
           M == Len(s)
<1>1. h \in Seq(1 .. M) /\ Len(h) = Len(r) /\ M \in Nat
  BY HandedType
<1>2. \A i, j \in 1 .. Len(h) : i < j => h[i] < h[j]
  BY HandedType
<1> HIDE DEF h, M
<1>3. Len(h) <= M
  BY <1>1, <1>2, AscendingWithin
<1> QED
  BY <1>1, <1>3 DEF M

(* What is handed out next has later places.                               *)
LEMMA HandedOn ==
  ASSUME NEW s \in Seq(Slots), Ascends(s), NEW r \in Seq(Slots), NEW q \in Seq(Slots),
         Range(r) \subseteq Range(s), Range(q) \subseteq Range(s), Ascends(q), Extends(r, q)
  PROVE  LET old == Handed(s, r)
             new == Handed(s, q)
             newest == IF old = <<>> THEN 0 ELSE old[Len(old)]
         IN \/ new = old
            \/ \E length \in 1 .. Len(s) : \E numbers \in [1 .. length -> newest + 1 .. Len(s)] :
                 /\ \A i, j \in DOMAIN numbers : i < j => numbers[i] < numbers[j]
                 /\ new = old \o numbers
<1> DEFINE old == Handed(s, r)
           new == Handed(s, q)
           N == Len(s)
<1>1. N \in Nat /\ Len(r) \in Nat /\ Len(q) \in Nat /\ Len(r) <= Len(q)
      /\ \A i \in 1 .. Len(r) : q[i] = r[i]
  BY DEF Extends
<1>2. /\ old \in Seq(1 .. N) /\ Len(old) = Len(r)
      /\ new \in Seq(1 .. N) /\ Len(new) = Len(q)
      /\ \A i \in 1 .. Len(r) : old[i] = Place(s, r[i])
      /\ \A i \in 1 .. Len(q) : new[i] = Place(s, q[i])
      /\ \A i, j \in 1 .. Len(q) : i < j => new[i] < new[j]
  BY HandedType
<1> HIDE DEF old, new, N
<1>3. Extends(old, new)
  <2> SUFFICES ASSUME NEW i \in 1 .. Len(r) PROVE new[i] = old[i]
    BY <1>1, <1>2 DEF Extends
  <2>1. i \in 1 .. Len(q) /\ q[i] = r[i]
    BY <1>1
  <2> QED
    BY <1>2, <2>1
<1>4. \A i, j \in 1 .. Len(new) : i < j => new[i] < new[j]
  BY <1>2
<1>5. LET newest == IF old = <<>> THEN 0 ELSE old[Len(old)]
      IN \/ new = old
         \/ \E length \in 1 .. N : \E numbers \in [1 .. length -> newest + 1 .. N] :
              /\ \A i, j \in DOMAIN numbers : i < j => numbers[i] < numbers[j]
              /\ new = old \o numbers
  BY <1>1, <1>2, <1>3, <1>4, PlacesOn
<1> QED
  BY <1>5 DEF old, new, N

LEMMA StreamIs ==
  /\ [n \in DOMAIN dec.read |-> PlaceOf(dec.read[n])] = Handed(sent, dec.read)
  /\ [n \in DOMAIN dec.read |-> PlaceOf(dec.read[n])]' = Handed(sent', dec'.read)
BY DEF PlaceOf, Place, Handed

LEMMA NetStream ==
  ASSUME NetInv, Successive(opt), NetInv', NetGoes \/ Puts
  PROVE  [Stream!Next]_(Stream!vars)
<1> DEFINE old == [n \in DOMAIN dec.read |-> PlaceOf(dec.read[n])]
<1>1. old = Handed(sent, dec.read) /\ old' = Handed(sent', dec'.read)
  BY StreamIs
<1> HIDE DEF old
<1>2. /\ sent \in Seq(Slots) /\ Ascends(sent)
      /\ dec.read \in Seq(Slots) /\ Range(dec.read) \subseteq Range(sent)
  BY DEF NetInv, SentOk, DecOk, Coder
<1>3. CASE Puts
  <2>1. PICK slot \in Slots : sent' = Append(sent, slot) /\ \A s \in Range(sent) : Before(s, slot)
    BY <1>3 DEF Puts
  <2>2. dec' = dec
    BY <1>3 DEF Puts
  <2>3. old' = old
    BY <1>1, <1>2, <2>1, <2>2, HandedPut
  <2>4. Len(sent)' = Len(sent) + 1
    BY <1>2, <2>1, RangeAppend
  <2> QED
    BY <2>3, <2>4 DEF Stream!Next, Stream!Put, old
<1>4. CASE NetGoes
  <2>1. sent' = sent
    BY <1>4 DEF NetGoes
  <2>2. CASE dec' = dec
    <3>1. old' = old
      BY <1>1, <2>1, <2>2
    <3> QED
      BY <2>1, <3>1 DEF Stream!vars, old
  <2>3. CASE DecMoves(dec, dec', Range(sent))
    <3>1. /\ dec'.read \in Seq(Slots) /\ Range(dec'.read) \subseteq Range(sent)
          /\ Ascends(dec'.read) /\ Extends(dec.read, dec'.read)
      BY <2>3 DEF DecMoves, DecOk, Coder, InTurn, Over
    <3> DEFINE newest == IF old = <<>> THEN 0 ELSE old[Len(old)]
    <3>2. \/ old' = old
          \/ \E length \in 1 .. Len(sent) : \E numbers \in [1 .. length -> newest + 1 .. Len(sent)] :
               /\ \A i, j \in DOMAIN numbers : i < j => numbers[i] < numbers[j]
               /\ old' = old \o numbers
      BY <1>1, <1>2, <2>1, <3>1, HandedOn
    <3>3. CASE old' = old
      BY <2>1, <3>3 DEF Stream!vars, old
    <3>4. CASE /\ old' # old
               /\ \E length \in 1 .. Len(sent) :
                    \E numbers \in [1 .. length -> newest + 1 .. Len(sent)] :
                      /\ \A i, j \in DOMAIN numbers : i < j => numbers[i] < numbers[j]
                      /\ old' = old \o numbers
      <4>1. Stream!Deliver
        BY <2>1, <3>4 DEF Stream!Deliver, Stream!Newest, Stream!Ascending, old
      <4> QED
        BY <4>1 DEF Stream!Next
    <3> QED
      BY <3>2, <3>3, <3>4
  <2> QED
    BY <1>4, <2>2, <2>3 DEF NetGoes
<1> QED
  BY <1>3, <1>4

(* The networks of GSAW, NOACK and PACE implement a lossy stream (every    *)
(* get_source): with loss, reordering, recoding, timers and flushes, each  *)
(* symbol that is handed out was put in after all those before it.         *)
THEOREM NetImplementsStream == Spec /\ Successive(opt) => StreamSpec
<1>1. Init /\ Successive(opt) => Stream!Init
  <2>1. ASSUME Init, Successive(opt) PROVE sent = <<>> /\ dec.read = <<>>
    <3>1. opt.protocol \in {"gsaw", "noack", "pace"} /\ dec = NckDecStart(opt)
      BY <2>1 DEF Init, Successive
    <3>2. dec.read = <<>>
      BY <3>1 DEF NckDecStart, GsawDecStart, NoackDecStart, PaceDecStart
    <3> QED
      BY <2>1, <3>2 DEF Init
  <2>2. ASSUME sent = <<>>, dec.read = <<>>
        PROVE  Len(sent) = 0 /\ [n \in DOMAIN dec.read |-> PlaceOf(dec.read[n])] = <<>>
    <3>1. DOMAIN dec.read = 1 .. 0 /\ Len(sent) = 0
      BY <2>2
    <3> QED
      BY <3>1
  <2> QED
    BY <2>1, <2>2 DEF Stream!Init
<1>2. NetInv /\ Successive(opt) /\ [Next]_vars => [Stream!Next]_(Stream!vars)
  BY NetSteps, NetStream
<1> QED
  BY <1>1, <1>2, NetInvariant, PTL DEF Spec, StreamSpec, Stream!Spec

(* A GSAW, NOACK or PACE decoder drops no decoded symbol except what a     *)
(* later generation of NOACK or PACE writes over: the queue of the         *)
(* generation before, where the application has left it there              *)
(* (kodo_flush_source and the queues).                                     *)
THEOREM NetOverwritesUnread == Spec /\ Successive(opt) => OnlyUnreadIsOverwritten
<1> DEFINE Keeps == NckPending(dec) \subseteq NckPending(dec') \cup Range(dec'.read)
                                               \cup NckOverwritten(dec, dec')
<1>1. ASSUME NetInv, Successive(opt), [Next]_vars PROVE Keeps
  <2>1. /\ dec.protocol = opt.protocol /\ opt.protocol \in {"gsaw", "noack", "pace"}
        /\ dec.protocol = "gsaw" => dec.queue = <<>>
    BY <1>1, NetFacts DEF Successives, NetInv, DecOk
  <2>2. NckPending(dec) = QueuePending(dec)
    BY <2>1 DEF NckPending
  <2>3. CASE dec' = dec
    BY <2>3
  <2>4. CASE DecMoves(dec, dec', Range(sent))
    <3>1. dec'.protocol = dec.protocol /\ Over(dec, dec')
      BY <2>4 DEF DecMoves
    <3>2. NckPending(dec') = QueuePending(dec')
      BY <2>1, <3>1 DEF NckPending
    <3>3. CASE dec.protocol \in {"noack", "pace"}
      BY <2>2, <3>1, <3>2, <3>3 DEF Over, NckOverwritten
    <3>4. CASE dec.protocol = "gsaw"
      BY <2>1, <2>2, <3>1, <3>2, <3>4, OverGoes DEF Goes, Kept
    <3> QED
      BY <2>1, <3>3, <3>4
  <2> QED
    BY <1>1, <2>3, <2>4, NetSteps DEF NetGoes, Puts
<1>2. NetInv /\ Successive(opt) /\ [Next]_vars => [Keeps]_vars
  BY <1>1
<1> QED
  BY <1>2, NetInvariant, PTL DEF Spec, OnlyUnreadIsOverwritten


-----------------------------------------------------------------------------
(* The flush: the application takes symbols until there are none.          *)
(* A flushed decoder has the next symbol when it has one.                  *)
LEMMA FlushedHas ==
  ASSUME NEW known, NEW d, DecOk(d, known), d.flush, QueuePending(d) # {}
  PROVE  QueueHasSource(d)
<1>1. d.queue \in Seq(Slots) /\ d.index \in 0 .. Symbols /\ Symbols \in Nat
  BY SymbolsAssumption DEF DecOk, Coder
<1>2. CASE d.queue = <<>>
  <2>1. {d.queue[n] : n \in DOMAIN d.queue} = {}
    BY <1>2
  <2>2. PICK i : i \in Ready(d.span, d.index)
    BY <2>1 DEF QueuePending, SlotsOf
  <2>3. d.index < Symbols
    BY <1>1, <2>2 DEF Ready
  <2>4. {d.index + 1} \in d.span
    BY <1>1, <2>3 DEF DecOk, Aligned
  <2> QED
    BY <2>3, <2>4 DEF QueueHasSource, IsSymbolUncoded
<1> QED
  BY <1>2 DEF QueueHasSource

Take(x) == IF NckDecHasSource(x) THEN NckDecGetSource(x) ELSE x

Taking(d, N) ==
  LET take(x, n) == IF NckDecHasSource(x) THEN NckDecGetSource(x) ELSE x
  IN FoldLeft(take, d, [n \in 1 .. N |-> n])

(* The calls one by one.                                                   *)
LEMMA TakingSteps ==
  ASSUME NEW T, NEW d \in T, {Take(x) : x \in T} \subseteq T, NEW N \in Nat
  PROVE  \E f \in [0 .. N -> T] :
           /\ f[0] = d /\ f[N] = Taking(d, N)
           /\ \A n \in 0 .. N - 1 : f[n + 1] = Take(f[n])
<1> DEFINE slots == [n \in 1 .. N |-> n]
           take(x, n) == IF NckDecHasSource(x) THEN NckDecGetSource(x) ELSE x
           st == [x \in (1 .. N) \X T |-> Take(x[2])]
           Rec(g) == [s \in SUBSET (1 .. N) |->
                       IF s = {} THEN d ELSE take(g[s \ {Max(s)}], slots[Max(s)])]
           it == CHOOSE g : g = Rec(g)
<1>1. \A x, n : take(x, n) = Take(x)
  BY DEF Take
<1>2. st \in [(1 .. N) \X T -> T]
  <2> HIDE DEF take, slots
  <2> QED
    OBVIOUS
<1>3. PICK g \in [SUBSET (1 .. N) -> T] : Folds(g, N, d, st)
  <2> HIDE DEF st, take, slots, Rec, it
  <2> QED
    BY <1>2, FoldExists
<1>4. g = Rec(g)
  <2> HIDE DEF take, slots
  <2>1. ASSUME NEW s \in SUBSET (1 .. N)
        PROVE  g[s] = IF s = {} THEN d ELSE take(g[s \ {Max(s)}], slots[Max(s)])
    <3>1. CASE s = {}
      BY <3>1, <1>3 DEF Folds
    <3>2. CASE s # {}
      <4>1. Max(s) \in 1 .. N /\ s \ {Max(s)} \in SUBSET (1 .. N)
        BY <3>2, MaxOf
      <4>2. g[s \ {Max(s)}] \in T
        BY <4>1
      <4>3. st[<<Max(s), g[s \ {Max(s)}]>>] = Take(g[s \ {Max(s)}])
        BY <4>1, <4>2
      <4> QED
        BY <3>2, <1>1, <1>3, <4>3 DEF Folds
    <3> QED
      BY <3>1, <3>2
  <2> QED
    BY <2>1
<1>5. it = Rec(it)
  <2> HIDE DEF Rec
  <2> QED
    BY <1>4
<1>6. Taking(d, N) = it[1 .. N]
  <2>1. DOMAIN slots = 1 .. N
    OBVIOUS
  <2>2. FoldLeft(take, d, slots) = it[1 .. N]
    BY <2>1 DEF FoldLeft, MapThenFoldSet
  <2> HIDE DEF it
  <2> QED
    BY <2>2 DEF Taking
<1>7. it[{}] = d
  <2>1. {} \in SUBSET (1 .. N)
    OBVIOUS
  <2> HIDE DEF it, take, slots
  <2> QED
    BY <1>5, <2>1
<1>8. ASSUME NEW s \in SUBSET (1 .. N), s # {}
      PROVE  it[s] = Take(it[s \ {Max(s)}])
  <2> HIDE DEF it, take, slots
  <2>1. it[s] = take(it[s \ {Max(s)}], slots[Max(s)])
    BY <1>5, <1>8
  <2> QED
    BY <1>1, <2>1
<1> HIDE DEF it, take, slots, st, Rec
<1>9. \A s \in SUBSET (1 .. N) : it[s] \in T
  <2>1. it[{}] \in T
    BY <1>7
  <2>2. \A s \in SUBSET (1 .. N) : s # {} /\ it[s \ {Max(s)}] \in T => it[s] \in T
    BY <1>8
  <2> QED
    BY <2>1, <2>2, FoldTyped
<1> DEFINE f == [n \in 0 .. N |-> it[1 .. n]]
<1>10. f \in [0 .. N -> T]
  <2>1. \A n \in 0 .. N : 1 .. n \in SUBSET (1 .. N)
    OBVIOUS
  <2> QED
    BY <1>9, <2>1
<1>11. f[0] = d
  <2>1. 1 .. 0 = {}
    OBVIOUS
  <2> QED
    BY <1>7, <2>1
<1>12. ASSUME NEW n \in 0 .. N - 1 PROVE f[n + 1] = Take(f[n])
  <2> DEFINE s == 1 .. n + 1
  <2>1. s \in SUBSET (1 .. N) /\ s \in SUBSET Nat /\ n + 1 \in s /\ \A k \in s : k <= n + 1
    OBVIOUS
  <2>2. s \ {n + 1} = 1 .. n
    OBVIOUS
  <2>3. f[n + 1] = it[s] /\ f[n] = it[1 .. n]
    OBVIOUS
  <2> HIDE DEF s, f
  <2>4. Max(s) = n + 1
    BY <2>1, MaxProperty
  <2> QED
    BY <1>8, <2>1, <2>2, <2>3, <2>4
<1>13. f[N] = Taking(d, N)
  BY <1>6
<1> QED
  BY <1>10, <1>11, <1>12, <1>13

(* N calls hand out N symbols, or all there are.                           *)
LEMMA TakingOk ==
  ASSUME NEW known \in SUBSET Slots, NEW d, DecOk(d, known), d.protocol \in Successives,
         NEW N \in Nat
  PROVE  LET x == Taking(d, N)
         IN /\ DecOk(x, known) /\ Same(x, d) /\ Kept(d, x)
            /\ Len(x.read) >= N \/ ~NckDecHasSource(x)
<1> DEFINE T == {x \in Steps(d) : DecOk(x, known) /\ Same(x, d) /\ Kept(d, x)}
<1>1. d \in T
  <2>1. Coder(d) /\ Same(d, d) /\ Kept(d, d)
    BY DEF DecOk, Same, Kept
  <2> QED
    BY <2>1, StepsMember
<1>2. ASSUME NEW x \in T
      PROVE  /\ Take(x) \in T
             /\ NckDecHasSource(x) => Len(Take(x).read) = Len(x.read) + 1
             /\ ~NckDecHasSource(x) => Take(x) = x
  <2>1. DecOk(x, known) /\ Same(x, d) /\ Kept(d, x)
    OBVIOUS
  <2>2. Coder(d) /\ x.protocol \in Successives
    BY <2>1, SameFields DEF DecOk
  <2>3. CASE NckDecHasSource(x)
    <3> DEFINE n == QueueGetSource(x)
    <3>1. QueueHasSource(x) /\ Take(x) = n
      BY <2>1, <2>2, <2>3, GetSourceOk DEF Successives, Take
    <3>2. DecOk(n, known) /\ Same(n, x) /\ Goes(x, n) /\ Len(n.read) = Len(x.read) + 1
      BY <2>1, <3>1, TakeOk
    <3> HIDE DEF n
    <3>3. Coder(x) /\ Coder(n) /\ Same(n, d)
      BY <2>1, <2>2, <3>2, SameTrans DEF DecOk
    <3>4. Kept(d, n)
      BY <2>1, <3>2 DEF Goes, Kept
    <3>5. n \in T
      BY <2>2, <3>2, <3>3, <3>4, StepsMember
    <3> HIDE DEF T
    <3> QED
      BY <2>3, <3>1, <3>2, <3>5
  <2>4. CASE ~NckDecHasSource(x)
    <3> HIDE DEF T
    <3> QED
      BY <2>4 DEF Take
  <2> QED
    BY <2>3, <2>4
<1>3. PICK f \in [0 .. N -> T] :
        /\ f[0] = d /\ f[N] = Taking(d, N)
        /\ \A n \in 0 .. N - 1 : f[n + 1] = Take(f[n])
  <2> HIDE DEF T
  <2>1. {Take(x) : x \in T} \subseteq T
    BY <1>2
  <2> QED
    BY <1>1, <2>1, TakingSteps
<1>4. \A n \in 0 .. N : Len(f[n].read) \in Nat
  <2>1. \A x \in T : Len(x.read) \in Nat
    BY DEF DecOk, Coder
  <2> HIDE DEF T
  <2> QED
    BY <2>1
<1> DEFINE done(x, n) == Len(x.read) >= n \/ ~NckDecHasSource(x)
           Z == {n \in 0 .. N : done(f[n], n)}
<1> HIDE DEF T
<1>5. 0 \in Z
  BY <1>4
<1>6. ASSUME NEW n \in 0 .. N - 1, n \in Z PROVE n + 1 \in Z
  <2>1. n + 1 \in 0 .. N /\ n \in 0 .. N /\ f[n] \in T /\ f[n + 1] = Take(f[n])
    BY <1>3
  <2>2. done(f[n], n)
    BY <1>6
  <2>3. CASE NckDecHasSource(f[n])
    <3>1. Len(f[n + 1].read) = Len(f[n].read) + 1 /\ Len(f[n].read) >= n
      BY <1>2, <2>1, <2>2, <2>3
    <3> QED
      BY <1>4, <2>1, <3>1
  <2>4. CASE ~NckDecHasSource(f[n])
    BY <1>2, <2>1, <2>4
  <2> QED
    BY <2>3, <2>4
<1>7. f[N] \in T /\ done(f[N], N)
  <2>1. N \in Z
    <3> HIDE DEF Z
    <3> QED
      BY <1>5, <1>6, LeastIndex
  <2> QED
    BY <2>1
<1> QED
  BY <1>3, <1>7 DEF T

LEMMA NetFlush ==
  ASSUME NetInv, Successive(opt)
  PROVE  FlushedIsAvailable
<1> DEFINE K == Range(sent)
           d == NckDecFlushSource(dec)
           x == Taking(d, opt.source)
<1>1. /\ K \in SUBSET Slots /\ DecOk(dec, K) /\ dec.protocol \in Successives
      /\ opt.source \in Nat /\ sent \in Seq(Slots) /\ Ascends(sent) /\ Len(sent) <= opt.source
  BY NetFacts, NetAssumption DEF NetInv, SentOk
<1>2. /\ DecOk(d, K) /\ Goes(dec, d) /\ d.flush /\ Alike(d, dec, Taken \cup {"flush"})
  BY <1>1, FlushSourceOk DEF Successives
<1> HIDE DEF d, K
<1>3. Coder(dec) /\ Coder(d) /\ d.protocol \in Successives
  BY <1>1, <1>2 DEF DecOk, Coder
<1>4. /\ DecOk(x, K) /\ Same(x, d) /\ Kept(d, x)
      /\ Len(x.read) >= opt.source \/ ~NckDecHasSource(x)
  BY <1>1, <1>2, <1>3, TakingOk
<1> HIDE DEF x
<1>5. x.flush /\ x.protocol \in Successives
  BY <1>2, <1>3, <1>4, SameFields
<1>6. QueuePending(x) = {}
  <2> SUFFICES ASSUME QueuePending(x) # {} PROVE FALSE
    OBVIOUS
  <2> DEFINE n == QueueGetSource(x)
  <2>1. QueueHasSource(x)
    BY <1>4, <1>5, FlushedHas
  <2>2. NckDecHasSource(x)
    BY <1>1, <1>4, <1>5, <2>1, GetSourceOk DEF Successives
  <2>3. DecOk(n, K) /\ Len(n.read) = Len(x.read) + 1
    BY <1>1, <1>4, <2>1, TakeOk
  <2> HIDE DEF n
  <2>4. n.read \in Seq(Slots) /\ Ascends(n.read) /\ Range(n.read) \subseteq Range(sent)
    BY <2>3 DEF DecOk, Coder, InTurn, K
  <2>5. Len(n.read) <= Len(sent)
    BY <1>1, <2>4, AscendingFits
  <2>6. Len(x.read) \in Nat /\ Len(sent) \in Nat
    BY <1>1, <1>4 DEF DecOk, Coder
  <2> QED
    BY <1>1, <1>4, <2>2, <2>3, <2>5, <2>6
<1>7. QueuePending(dec) \subseteq Range(x.read)
  BY <1>2, <1>4, <1>6 DEF Goes, Kept
<1>8. NckPending(dec) = QueuePending(dec)
  BY <1>1 DEF NckPending, Successives
<1>9. TakenAfter(d) = Range(x.read)
  BY DEF TakenAfter, Taking, x
<1> QED
  BY <1>7, <1>8, <1>9 DEF FlushedIsAvailable, d

(* nckernel.h:196-203: after nck_flush_source has_source and get_source    *)
(* hand out every symbol that a GSAW, NOACK or PACE decoder had decoded,   *)
(* those behind missing symbols too.                                       *)
THEOREM NetFlushAvailable == Spec /\ Successive(opt) => []FlushedIsAvailable
<1>1. NetInv /\ Successive(opt) => FlushedIsAvailable
  BY NetFlush
<1> QED
  BY <1>1, NetInvariant, PTL


-----------------------------------------------------------------------------
(* What feedback makes an encoder give up.                                 *)
LEMMA PaceGivesUp ==
  ASSUME NEW e, EncOk(e), e.protocol = "pace", NEW fb, NEW c, c.protocol = "pace",
         c.generation \in Nat, Rank(c.span) \in Nat, fb \in Reports, Tells(c, fb),
         NEW slot \in NckEncCovers(e) \ NckEncCovers(PaceEncPutFeedback(e, fb))
  PROVE  NckSettled(c, slot)
<1> DEFINE n == PaceEncPutFeedback(e, fb)
<1>1. "to_send" \in DOMAIN e /\ {"protocol", "generation", "rank"} \subseteq DOMAIN e
      /\ e.generation \in Generations /\ e.rank \in 0 .. Symbols
  BY DEF EncOk
<1>2. /\ n.generation = e.generation /\ n.rank = e.rank /\ n.protocol = e.protocol
      /\ n.to_send = IF PaceStops(e, fb) THEN 0 ELSE e.to_send
  BY <1>1 DEF PaceEncPutFeedback
<1> HIDE DEF n
<1>3. /\ NckEncCovers(e) = IF PaceEncHasCoded(e) THEN SlotsOf(e.generation, 1 .. e.rank) ELSE {}
      /\ NckEncCovers(n) = IF PaceEncHasCoded(n) THEN SlotsOf(e.generation, 1 .. e.rank) ELSE {}
  BY <1>2 DEF NckEncCovers
<1>4. slot \in NckEncCovers(e) /\ slot \notin NckEncCovers(n)
  BY DEF n
<1>5. PaceEncHasCoded(e) /\ ~PaceEncHasCoded(n) /\ slot \in SlotsOf(e.generation, 1 .. e.rank)
  BY <1>3, <1>4
<1>6. PaceStops(e, fb)
  BY <1>2, <1>5 DEF PaceEncHasCoded
<1>7. slot[1] = e.generation /\ slot[2] \in 1 .. e.rank
  BY <1>5 DEF SlotsOf
<1>8. fb.generation = e.generation /\ fb.rank = e.rank
  BY <1>6 DEF PaceStops
<1>9. c.generation > slot[1] \/ (c.generation = slot[1] /\ Rank(c.span) >= slot[2])
  <2>1. e.rank \in Nat /\ slot[2] \in Nat /\ slot[2] <= e.rank
    BY <1>1, <1>7, SymbolsAssumption
  <2> QED
    BY <1>7, <1>8, <2>1 DEF Tells
<1> QED
  BY <1>9 DEF NckSettled

LEMMA NetGivesUp ==
  ASSUME NetInv, Successive(opt), opt.protocol = "pace", [Next]_vars,
         back' # back \/ echo' # echo,
         NEW slot \in NckEncCovers(enc) \ NckEncCovers(enc')
  PROVE  \E c \in Receivers : NckSettled(c, slot)
<1>1. /\ EncOk(enc) /\ enc.protocol = "pace" /\ dec.protocol = "pace"
      /\ opt.relay => rec.protocol = "pace"
  BY NetFacts
<1>2. /\ back \in Seq(Reports) /\ \A fb \in Range(back) : Tells(dec, fb)
      /\ echo \in Seq(Reports) /\ \A fb \in Range(echo) : opt.relay /\ Tells(rec, fb)
  BY DEF NetInv, PathsOk, FeedbackOk
<1>3. /\ dec.generation \in Nat /\ Rank(dec.span) \in Nat
      /\ opt.relay => rec.generation \in Nat /\ Rank(rec.span) \in Nat
  <2>1. \A c : Coder(c) => c.generation \in Nat /\ Rank(c.span) \in Nat
    BY RankType, SymbolsAssumption DEF Coder
  <2>2. Coder(dec) /\ (opt.relay => Coder(rec))
    BY NetFacts DEF RecOk, RecCore
  <2> QED
    BY <2>1, <2>2
<1>4. enc' # enc
  OBVIOUS
<1>5. ASSUME NEW heard \in SUBSET Listeners, HearFeedback(heard)
      PROVE  \E c \in Receivers : NckSettled(c, slot)
  <2> DEFINE fb == Head(back)
  <2>1. back # <<>> /\ enc' = NckEncPutFeedback(enc, fb)
    BY <1>4, <1>5 DEF HearFeedback
  <2>2. fb \in Reports /\ fb \in Range(back)
    BY <1>2, <2>1, RangeTail
  <2>3. enc' = PaceEncPutFeedback(enc, fb)
    BY <1>1, <2>1 DEF NckEncPutFeedback
  <2> HIDE DEF fb
  <2>4. NckSettled(dec, slot)
    BY <1>1, <1>2, <1>3, <2>2, <2>3, PaceGivesUp
  <2> QED
    BY <2>4 DEF Receivers
<1>6. CASE HearEcho
  <2> DEFINE fb == Head(echo)
  <2>1. echo # <<>> /\ enc' = NckEncPutFeedback(enc, fb)
    BY <1>6 DEF HearEcho
  <2>2. fb \in Reports /\ fb \in Range(echo)
    BY <1>2, <2>1, RangeTail
  <2>3. enc' = PaceEncPutFeedback(enc, fb)
    BY <1>1, <2>1 DEF NckEncPutFeedback
  <2> HIDE DEF fb
  <2>4. opt.relay /\ Tells(rec, fb)
    BY <1>2, <2>2
  <2>5. NckSettled(rec, slot)
    BY <1>1, <1>3, <2>2, <2>3, <2>4, PaceGivesUp
  <2> QED
    BY <2>4, <2>5 DEF Receivers
<1>7. (\E heard \in SUBSET Listeners : HearFeedback(heard)) \/ HearEcho
  <2>1. ASSUME UNCHANGED <<back, echo>> PROVE FALSE
    BY <2>1
  <2> QED
    BY <1>4, <2>1 DEF Next, vars, PutSource, SendCoded, RelayReceive, RelaySend, RelayTake,
       DecReceive, WriteOutput, SendFeedback, RelayFeedback, Lose, EncTimer,
       RecTimer, DecTimer, FlushCoded, FlushSource, paths, coders
<1> QED
  BY <1>5, <1>6, <1>7

(* Feedback makes PACE's encoder give up symbols only when its decoder or  *)
(* its recoder has as many packets as it takes, or is at a later           *)
(* generation, however late the report is (nck_pace_enc_put_feedback);     *)
(* NOACK's encoder hears none.                                             *)
THEOREM NetGivesUpSettled ==
  Spec /\ Successive(opt) /\ opt.protocol # "gsaw" => GivenUpIsSettled
<1> DEFINE J == NetInv /\ Successive(opt) /\ opt.protocol # "gsaw"
<1>1. ASSUME J, [Next]_vars, back' # back \/ echo' # echo,
             NEW slot \in NckEncCovers(enc) \ NckEncCovers(enc')
      PROVE  \E c \in Receivers : NckSettled(c, slot)
  <2>1. NetInv'
    BY <1>1, NetSteps
  <2>2. opt.protocol = "noack" => back = <<>> /\ echo = <<>>
    BY <1>1 DEF NetInv, PathsOk
  <2>3. opt'.protocol = "noack" => back' = <<>> /\ echo' = <<>>
    BY <2>1 DEF NetInv, PathsOk
  <2>4. opt.protocol # "noack"
    BY <1>1, <2>2, <2>3, OptionsStay
  <2>5. opt.protocol = "pace"
    BY <1>1, <2>4 DEF Successive
  <2> QED
    BY <1>1, <2>5, NetGivesUp
<1>2. J /\ [Next]_vars =>
        [(back' # back \/ echo' # echo) =>
           \A slot \in NckEncCovers(enc) \ NckEncCovers(enc') :
             \E c \in Receivers : NckSettled(c, slot)]_vars
  BY <1>1
<1>3. [Next]_vars /\ opt.protocol # "gsaw" => (opt.protocol # "gsaw")'
  BY OptionsStay
<1>4. Spec /\ opt.protocol # "gsaw" => [](opt.protocol # "gsaw")
  BY <1>3, PTL DEF Spec
<1> QED
  BY <1>2, <1>4, NetInvariant, PTL DEF Spec, GivenUpIsSettled

-----------------------------------------------------------------------------
(* Folds over sets: what holds of the empty set, and of a set if it holds  *)
(* without the element that is chosen from it, holds of every finite set.  *)
Pick(s) == CHOOSE x \in s : TRUE

LEMMA PickIn ==
  ASSUME NEW s, s # {}
  PROVE  Pick(s) \in s
BY DEF Pick

LEMMA SetInduction ==
  ASSUME NEW S, IsFiniteSet(S), NEW Z, {} \in Z,
         \A s \in SUBSET S : s # {} /\ s \ {Pick(s)} \in Z => s \in Z
  PROVE  S \in Z
<1> DEFINE K == Cardinality(S)
           Y == {n \in 0 .. K : \A s \in SUBSET S : Cardinality(s) = n => s \in Z}
<1>1. K \in Nat
  BY FS_CardinalityType
<1>2. \A s \in SUBSET S : IsFiniteSet(s)
  BY FS_Subset
<1>3. 0 \in Y
  <2>1. \A s \in SUBSET S : Cardinality(s) = 0 => s = {}
    BY <1>2, FS_EmptySet
  <2>2. 0 \in 0 .. K
    BY <1>1
  <2> QED
    BY <2>1, <2>2
<1>4. ASSUME NEW n \in 0 .. K - 1, n \in Y PROVE n + 1 \in Y
  <2>1. n + 1 \in 0 .. K /\ n \in Nat
    BY <1>1
  <2>2. ASSUME NEW s \in SUBSET S, Cardinality(s) = n + 1 PROVE s \in Z
    <3>0. Cardinality(s) = n + 1 /\ n \in Nat /\ IsFiniteSet(s)
      BY <1>2, <2>1, <2>2
    <3> HIDE DEF K, Y
    <3>1. s # {}
      <4>1. Cardinality({}) = 0
        BY FS_EmptySet
      <4> QED
        BY <3>0, <4>1
    <3>2. Pick(s) \in s
      BY <3>1, PickIn
    <3>3. Cardinality(s \ {Pick(s)}) = n
      <4>1. Cardinality(s \ {Pick(s)}) = Cardinality(s) - 1
        BY <3>0, <3>2, FS_RemoveElement
      <4> QED
        BY <3>0, <4>1
    <3>4. s \ {Pick(s)} \in Z
      BY <1>4, <3>3 DEF Y
    <3> QED
      BY <3>1, <3>4
  <2> QED
    BY <2>1, <2>2
<1>5. K \in Y
  <2> HIDE DEF Y, K
  <2> QED
    BY <1>1, <1>3, <1>4, LeastIndex
<1> QED
  BY <1>5

SetFolds(g, S, base, st) ==
  \A s \in SUBSET S : g[s] = IF s = {} THEN base ELSE st[<<Pick(s), g[s \ {Pick(s)}]>>]

(* There is such a function, whatever the step does.                       *)
LEMMA SetFoldExists ==
  ASSUME NEW S, IsFiniteSet(S), NEW T, NEW base \in T, NEW st \in [S \X T -> T]
  PROVE  \E g \in [SUBSET S -> T] : SetFolds(g, S, base, st)
<1> DEFINE K == Cardinality(S)
           Upto(n) == {s \in SUBSET S : Cardinality(s) <= n}
           Good(g, n) == \A s \in Upto(n) :
             g[s] = IF s = {} THEN base ELSE st[<<Pick(s), g[s \ {Pick(s)}]>>]
           Z == {n \in 0 .. K : \E g \in [Upto(n) -> T] : Good(g, n)}
<1>1. K \in Nat
  BY FS_CardinalityType
<1>2. \A s \in SUBSET S : IsFiniteSet(s) /\ Cardinality(s) \in 0 .. K
  <2>1. \A s \in SUBSET S : IsFiniteSet(s) /\ Cardinality(s) <= K
    BY FS_Subset
  <2>2. \A s \in SUBSET S : Cardinality(s) \in Nat
    BY <2>1, FS_CardinalityType
  <2> HIDE DEF K
  <2> QED
    BY <1>1, <2>1, <2>2
<1>3. ASSUME NEW s \in SUBSET S, s # {}
      PROVE  Pick(s) \in S /\ Cardinality(s \ {Pick(s)}) = Cardinality(s) - 1
             /\ s \ {Pick(s)} \in SUBSET S
  BY <1>2, <1>3, PickIn, FS_RemoveElement
<1>4. 0 \in Z
  <2> DEFINE g == [s \in Upto(0) |-> base]
  <2>1. \A s \in Upto(0) : s = {}
    <3>1. \A s \in SUBSET S : Cardinality(s) <= 0 => Cardinality(s) = 0
      BY <1>2
    <3> QED
      BY <1>2, <3>1, FS_EmptySet
  <2>2. g \in [Upto(0) -> T]
    OBVIOUS
  <2>3. Good(g, 0)
    BY <2>1
  <2>4. 0 \in 0 .. K
    BY <1>1
  <2> HIDE DEF g, Good
  <2> QED
    BY <2>2, <2>3, <2>4
<1>5. ASSUME NEW n \in 0 .. K - 1, n \in Z PROVE n + 1 \in Z
  <2>0. n + 1 \in 0 .. K /\ n \in Nat
    BY <1>1
  <2>1. PICK g \in [Upto(n) -> T] : Good(g, n)
    BY <1>5
  <2> DEFINE h == [s \in Upto(n + 1) |->
                     IF s = {} THEN base ELSE st[<<Pick(s), g[s \ {Pick(s)}]>>]]
  <2>2. \A s \in Upto(n + 1) : s # {} => Pick(s) \in S /\ s \ {Pick(s)} \in Upto(n)
    <3> SUFFICES ASSUME NEW s \in Upto(n + 1), s # {}
                 PROVE  Pick(s) \in S /\ s \ {Pick(s)} \in Upto(n)
      OBVIOUS
    <3>1. s \in SUBSET S /\ Cardinality(s) <= n + 1 /\ Cardinality(s) \in Nat
      BY <1>2
    <3>2. Cardinality(s) - 1 <= n
      BY <2>0, <3>1
    <3> QED
      BY <1>3, <3>1, <3>2
  <2>3. h \in [Upto(n + 1) -> T]
    <3> SUFFICES ASSUME NEW s \in Upto(n + 1), s # {}
                 PROVE  st[<<Pick(s), g[s \ {Pick(s)}]>>] \in T
      OBVIOUS
    <3> HIDE DEF Upto
    <3>1. g[s \ {Pick(s)}] \in T /\ Pick(s) \in S
      BY <2>1, <2>2
    <3> QED
      BY <3>1
  <2>4. \A s \in Upto(n) : s \in Upto(n + 1) /\ h[s] = g[s]
    <3>1. \A s \in Upto(n) : s \in Upto(n + 1)
      <4> SUFFICES ASSUME NEW s \in SUBSET S, Cardinality(s) <= n
                   PROVE  Cardinality(s) <= n + 1
        OBVIOUS
      <4> QED
        BY <1>2, <2>0
    <3> HIDE DEF Upto
    <3> QED
      BY <2>1, <3>1
  <2>5. Good(h, n + 1)
    <3> HIDE DEF Upto
    <3> QED
      BY <2>2, <2>4
  <2> HIDE DEF h, Good, Upto
  <2> QED
    BY <2>0, <2>3, <2>5
<1>6. K \in Z
  <2> HIDE DEF Z, K
  <2> QED
    BY <1>1, <1>4, <1>5, LeastIndex
<1>7. PICK g \in [Upto(K) -> T] : Good(g, K)
  BY <1>6
<1>8. Upto(K) = SUBSET S
  <2> HIDE DEF K
  <2> QED
    BY <1>1, <1>2
<1> HIDE DEF K, Upto
<1>9. g \in [SUBSET S -> T]
  BY <1>7, <1>8
<1>10. SetFolds(g, S, base, st)
  BY <1>7, <1>8 DEF SetFolds
<1> QED
  BY <1>9, <1>10

-----------------------------------------------------------------------------
(* Tetrys.  A number is gone once the encoder has let go of it; a decoder  *)
(* has seen it when it is before the next one to hand out, or the pivot of *)
(* a row.                                                                  *)
Elastic(o) == o.protocol = "tetrys" /\ ~o.relay /\ o.zero = FALSE /\ o.window \in Nat

Upto(top) == 0 .. top - 1

Gone(e) == Upto(e.source_id) \ e.window

Seen(d, x) == x < d.next_id \/ x \in TetrysPivots(d)

(* No row is zero, and none has the pivot of another.                      *)
Reduced(rows) ==
  /\ {} \notin rows
  /\ \A r, s \in rows : r # s => Pivot(r) \notin s

LEMMA RowPivot ==
  ASSUME NEW top \in Nat, NEW r \in SUBSET Upto(top), r # {}
  PROVE  Pivot(r) \in r /\ Pivot(r) \in Upto(top) /\ \A x \in r : Pivot(r) <= x
<1>1. r \in SUBSET Nat
  BY DEF Upto
<1>2. Pivot(r) = Min(r)
  BY DEF Pivot, Min
<1>3. Min(r) \in r /\ \A x \in r : Min(r) <= x
  BY <1>1, MinProperty
<1> QED
  BY <1>2, <1>3

LEMMA RowsFinite ==
  ASSUME NEW top \in Nat, NEW rows \in SUBSET SUBSET Upto(top)
  PROVE  IsFiniteSet(rows)
<1>1. IsFiniteSet(Upto(top))
  BY FS_Interval DEF Upto
<1>2. IsFiniteSet(SUBSET Upto(top))
  BY <1>1, FS_SUBSET
<1> QED
  BY <1>2, FS_Subset

(* eliminate_with_symbols: what is left of a vector has no pivot of the    *)
(* rows and begins no earlier; nothing is left only of one that had some.  *)
Left(v, vec, rows, done) ==
  /\ \A x \in v : \E y \in vec : y <= x
  /\ \A r \in rows : Pivot(r) \in v <=> Pivot(r) \in vec /\ r \notin done
  /\ v = vec \/ \E r \in rows : Pivot(r) \in vec

LEMMA ReducedStep ==
  ASSUME NEW top \in Nat, NEW rows \in SUBSET SUBSET Upto(top), Reduced(rows),
         NEW vec \in SUBSET Upto(top), NEW v \in SUBSET Upto(top),
         NEW done, NEW row \in rows, row \notin done, Left(v, vec, rows, done)
  PROVE  LET w == IF Pivot(row) \in vec THEN Plus(v, row) ELSE v
         IN w \in SUBSET Upto(top) /\ Left(w, vec, rows, done \cup {row})
<1>1. \A r \in rows : r # {} /\ r \in SUBSET Upto(top)
  BY DEF Reduced
<1>2. \A r \in rows : Pivot(r) \in r
  BY <1>1, RowPivot
<1>3. \A x \in row : Pivot(row) <= x
  BY <1>1, RowPivot
<1>4. \A r \in rows : r # row => Pivot(r) \notin row
  BY DEF Reduced
<1>5. \A r \in rows : r # row => Pivot(r) # Pivot(row)
  BY <1>2, <1>4
<1>6. CASE Pivot(row) \in vec
  <2> DEFINE w == Plus(v, row)
  <2>1. w \in SUBSET Upto(top)
    BY <1>1 DEF Plus
  <2>2. \A x \in w : \E y \in vec : y <= x
    BY <1>3, <1>6 DEF Plus, Left
  <2>3. ASSUME NEW r \in rows
        PROVE  Pivot(r) \in w <=> Pivot(r) \in vec /\ r \notin done \cup {row}
    <3>1. Pivot(r) \in v <=> Pivot(r) \in vec /\ r \notin done
      BY DEF Left
    <3>2. CASE r = row
      BY <1>2, <1>6, <3>1, <3>2 DEF Plus
    <3>3. CASE r # row
      BY <1>4, <3>1, <3>3 DEF Plus
    <3> QED
      BY <3>2, <3>3
  <2> QED
    BY <1>6, <2>1, <2>2, <2>3 DEF Left
<1>7. CASE Pivot(row) \notin vec
  BY <1>5, <1>7 DEF Left
<1> QED
  BY <1>6, <1>7

LEMMA ReducedIs ==
  ASSUME NEW top \in Nat, NEW d, d.rows \in SUBSET SUBSET Upto(top), Reduced(d.rows),
         NEW vec \in SUBSET Upto(top)
  PROVE  LET v == TetrysReduced(d, vec)
         IN v \in SUBSET Upto(top) /\ Left(v, vec, d.rows, d.rows)
<1> DEFINE S == d.rows
           T == SUBSET Upto(top)
           op(r, v) == IF Pivot(r) \in vec THEN Plus(v, r) ELSE v
           st == [x \in S \X T |-> op(x[1], x[2])]
           Rec(g) == [s \in SUBSET S |->
                       IF s = {} THEN vec
                       ELSE op(CHOOSE x \in s : TRUE, g[s \ {CHOOSE x \in s : TRUE}])]
           it == CHOOSE g : g = Rec(g)
<1>1. IsFiniteSet(S)
  BY RowsFinite
<1>2. ASSUME NEW r \in S, NEW v \in T PROVE op(r, v) \in T
  BY DEF Plus
<1>3. st \in [S \X T -> T]
  <2> HIDE DEF op, T
  <2> QED
    BY <1>2
<1>4. PICK g \in [SUBSET S -> T] : SetFolds(g, S, vec, st)
  <2>1. vec \in T
    OBVIOUS
  <2> HIDE DEF st, S, T, op, Rec, it
  <2> QED
    BY <1>1, <1>3, <2>1, SetFoldExists
<1>5. g = Rec(g)
  <2> HIDE DEF op, S, T
  <2>1. ASSUME NEW s \in SUBSET S
        PROVE  g[s] = IF s = {} THEN vec ELSE op(Pick(s), g[s \ {Pick(s)}])
    <3>1. CASE s = {}
      BY <3>1, <1>4 DEF SetFolds
    <3>2. CASE s # {}
      <4>1. Pick(s) \in S /\ s \ {Pick(s)} \in SUBSET S
        BY <3>2, PickIn
      <4>2. g[s \ {Pick(s)}] \in T
        BY <4>1
      <4>3. st[<<Pick(s), g[s \ {Pick(s)}]>>] = op(Pick(s), g[s \ {Pick(s)}])
        BY <4>1, <4>2
      <4> QED
        BY <3>2, <1>4, <4>3 DEF SetFolds
    <3> QED
      BY <3>1, <3>2
  <2> QED
    BY <2>1 DEF Pick
<1>6. it = Rec(it)
  <2> HIDE DEF Rec
  <2> QED
    BY <1>5
<1>7. TetrysReduced(d, vec) = it[S]
  BY DEF TetrysReduced, FoldSet, MapThenFoldSet
<1> DEFINE Z == {s \in SUBSET S : it[s] \in T /\ Left(it[s], vec, S, s)}
<1>8. {} \in Z
  <2>1. it[{}] = vec
    <3> HIDE DEF it, op, S
    <3> QED
      BY <1>6
  <2>2. \A x \in vec : x <= x
    BY DEF Upto
  <2> HIDE DEF it
  <2> QED
    BY <2>1, <2>2 DEF Left
<1>9. ASSUME NEW s \in SUBSET S, s # {}, s \ {Pick(s)} \in Z PROVE s \in Z
  <2> DEFINE r == Pick(s)
             v == it[s \ {r}]
  <2>1. r \in s
    BY <1>9, PickIn
  <2>2. it[s] = op(r, v)
    <3> HIDE DEF it, op, S
    <3> QED
      BY <1>6, <1>9 DEF Pick
  <2>3. v \in T /\ Left(v, vec, S, s \ {r})
    <3> HIDE DEF it
    <3> QED
      BY <1>9
  <2>4. (s \ {r}) \cup {r} = s
    BY <2>1
  <2>5. r \in S /\ r \notin s \ {r}
    BY <2>1
  <2> HIDE DEF it, r, v
  <2>6. op(r, v) \in SUBSET Upto(top) /\ Left(op(r, v), vec, S, (s \ {r}) \cup {r})
    BY <2>3, <2>5, ReducedStep
  <2> QED
    BY <2>2, <2>4, <2>6
<1>10. S \in Z
  <2> HIDE DEF Z, S
  <2> QED
    BY <1>1, <1>8, <1>9, SetInduction
<1> QED
  BY <1>7, <1>10

LEMMA PivotIs ==
  ASSUME NEW top \in Nat, NEW v \in SUBSET Upto(top), NEW i \in v, \A x \in v : i <= x
  PROVE  Pivot(v) = i
<1>1. Pivot(v) \in v /\ Pivot(v) \in Upto(top) /\ Pivot(v) <= i
  BY RowPivot
<1> QED
  BY <1>1 DEF Upto

-----------------------------------------------------------------------------
(* The decoder: its rows are in reduced form, the pointer that is set      *)
(* stands on a row, and what was handed out ascends and lies before it.    *)
Elastics(top) ==
  [protocol : {"tetrys"}, rows : SUBSET SUBSET Upto(top), next : BOOLEAN,
   next_id : 0 .. top, oldest_id : 0 .. top, max_window_size : {opt.window},
   has_feedback : BOOLEAN, read : Seq({1} \X Nat), eager : {opt.eager}, failed : {FALSE}]

HandedOut(d) ==
  /\ \A i \in DOMAIN d.read : d.read[i][2] < d.next_id
  /\ \A i, j \in DOMAIN d.read : i < j => d.read[i][2] < d.read[j][2]

Core(d, top) ==
  /\ d \in Elastics(top)
  /\ Reduced(d.rows)
  /\ d.next => d.next_id \in TetrysPivots(d)
  /\ HandedOut(d)

(* What reading a packet does to the rows: there are more pivots, and what *)
(* was decoded is.                                                         *)
Richer(n, d) ==
  /\ n = [d EXCEPT !.rows = n.rows, !.next = n.next]
  /\ TetrysPivots(d) \subseteq TetrysPivots(n)
  /\ \A x \in Nat : {x} \in d.rows => {x} \in n.rows

LEMMA RowFacts ==
  ASSUME NEW top \in Nat, NEW d, Core(d, top)
  PROVE  /\ d.rows \in SUBSET SUBSET Upto(top) /\ Reduced(d.rows)
         /\ \A r \in d.rows : /\ r # {} /\ Pivot(r) \in r /\ Pivot(r) \in Upto(top)
                              /\ Pivot(r) \in TetrysPivots(d)
                              /\ \A x \in r : Pivot(r) <= x
         /\ TetrysPivots(d) \subseteq Upto(top)
         /\ \A id \in TetrysPivots(d) : TetrysRow(d, id) \in d.rows
                                        /\ Pivot(TetrysRow(d, id)) = id
<1>1. d.rows \in SUBSET SUBSET Upto(top) /\ Reduced(d.rows)
  BY DEF Core, Elastics
<1>2. \A r \in d.rows : r # {} /\ r \in SUBSET Upto(top)
  BY <1>1 DEF Reduced
<1>3. \A r \in d.rows : Pivot(r) \in r /\ Pivot(r) \in Upto(top) /\ \A x \in r : Pivot(r) <= x
  BY <1>2, RowPivot
<1>4. \A id \in TetrysPivots(d) : \E r \in d.rows : Pivot(r) = id
  BY DEF TetrysPivots
<1>5. \A id \in TetrysPivots(d) : TetrysRow(d, id) \in d.rows /\ Pivot(TetrysRow(d, id)) = id
  BY <1>4 DEF TetrysRow
<1> QED
  BY <1>1, <1>2, <1>3, <1>4, <1>5 DEF TetrysPivots

LEMMA RicherTrans ==
  ASSUME NEW d, NEW e, NEW f, Richer(e, d), Richer(f, e)
  PROVE  Richer(f, d)
BY DEF Richer

LEMMA InsertNewOk ==
  ASSUME NEW top \in Nat, NEW d, Core(d, top),
         NEW row \in SUBSET Upto(top), row # {}, \A r \in d.rows : Pivot(r) \notin row
  PROVE  LET n == TetrysInsertNew(d, row)
         IN Core(n, top) /\ Richer(n, d) /\ row \in n.rows
<1> DEFINE p == Pivot(row)
           f(r) == IF p \in r THEN Plus(r, row) ELSE r
           n == TetrysInsertNew(d, row)
<1>1. /\ d.rows \in SUBSET SUBSET Upto(top) /\ Reduced(d.rows)
      /\ \A r \in d.rows : /\ r # {} /\ Pivot(r) \in r /\ Pivot(r) \in Upto(top)
                           /\ \A x \in r : Pivot(r) <= x
  BY RowFacts
<1>2. p \in row /\ p \in Upto(top) /\ \A x \in row : p <= x
  BY RowPivot
<1>3. ASSUME NEW r \in d.rows
      PROVE  /\ f(r) \in SUBSET Upto(top) /\ Pivot(f(r)) = Pivot(r) /\ p \notin f(r)
             /\ \A x \in f(r) : x \in r \/ x \in row
  <2>1. Pivot(r) \notin row /\ p \in row
    BY <1>2
  <2>2. CASE p \notin r
    BY <1>1, <2>2
  <2>3. CASE p \in r
    <3>1. f(r) = Plus(r, row)
      BY <2>3
    <3>2. f(r) \in SUBSET Upto(top) /\ Pivot(r) \in f(r)
      BY <1>1, <2>1, <3>1 DEF Plus
    <3>3. p \notin f(r) /\ \A x \in f(r) : x \in r \/ x \in row
      BY <2>1, <2>3, <3>1 DEF Plus
    <3>4. \A x \in f(r) : Pivot(r) <= x
      <4> SUFFICES ASSUME NEW x \in row PROVE Pivot(r) <= x
        BY <1>1, <3>3
      <4>1. Pivot(r) <= p /\ p <= x /\ {p, x, Pivot(r)} \subseteq Upto(top)
        BY <1>1, <1>2, <2>3
      <4> HIDE DEF p
      <4> QED
        BY <4>1 DEF Upto
    <3> HIDE DEF f, p
    <3> QED
      BY <3>2, <3>3, <3>4, PivotIs
  <2> QED
    BY <2>2, <2>3
<1>4. n.rows = {f(r) : r \in d.rows} \cup {row} /\ n.next = (d.next \/ p = d.next_id)
      /\ n = [d EXCEPT !.rows = n.rows, !.next = n.next]
  BY DEF TetrysInsertNew, Core, Elastics
<1> HIDE DEF n, f
<1>0. /\ \A s \in n.rows : s = row \/ \E r \in d.rows : s = f(r)
      /\ row \in n.rows /\ \A r \in d.rows : f(r) \in n.rows
  BY <1>4
<1>5. n.rows \in SUBSET SUBSET Upto(top)
  <2>1. \A s \in n.rows : s \in SUBSET Upto(top)
    BY <1>0, <1>3
  <2> QED
    BY <2>1
<1>6. Reduced(n.rows)
  <2>1. {} \notin n.rows
    <3>1. \A r \in d.rows : f(r) # {}
      <4> SUFFICES ASSUME NEW r \in d.rows, f(r) = {} PROVE FALSE
        OBVIOUS
      <4>1. Pivot(r) \in r /\ Pivot(r) \notin row
        BY <1>1
      <4> QED
        BY <4>1 DEF f, Plus
    <3> QED
      BY <1>0, <3>1
  <2>2. ASSUME NEW r \in d.rows, NEW s \in d.rows, f(r) # f(s) PROVE Pivot(f(r)) \notin f(s)
    <3>1. r # s /\ Pivot(r) \notin s /\ Pivot(r) \notin row
      BY <1>1, <2>2 DEF Reduced
    <3> QED
      BY <1>3, <3>1
  <2>3. \A r \in d.rows : Pivot(f(r)) \notin row /\ Pivot(row) \notin f(r)
    BY <1>3
  <2> QED
    BY <1>0, <2>1, <2>2, <2>3 DEF Reduced
<1>7. TetrysPivots(n) = TetrysPivots(d) \cup {p}
  <2>1. \A r \in d.rows : Pivot(f(r)) = Pivot(r)
    BY <1>3
  <2>2. \A i : i \in TetrysPivots(n) <=> \E s \in n.rows : i = Pivot(s)
    BY DEF TetrysPivots
  <2>3. \A i : i \in TetrysPivots(d) <=> \E s \in d.rows : i = Pivot(s)
    BY DEF TetrysPivots
  <2>4. \A i : i \in TetrysPivots(n) <=> i \in TetrysPivots(d) \/ i = p
    BY <1>0, <2>1, <2>2, <2>3
  <2> QED
    BY <2>4
<1>8. ASSUME NEW x \in Nat, {x} \in d.rows PROVE {x} \in n.rows
  <2>1. Pivot({x}) = x
    BY <1>1, <1>8
  <2>2. x # p
    BY <1>2, <1>8, <2>1
  <2>3. f({x}) = {x}
    BY <2>2 DEF f
  <2> QED
    BY <1>4, <1>8, <2>3
<1>9. Richer(n, d)
  BY <1>4, <1>7, <1>8 DEF Richer
<1>10. Core(n, top)
  <2>1. n \in Elastics(top) /\ n.read = d.read /\ n.next_id = d.next_id
    BY <1>4, <1>5 DEF Core, Elastics
  <2>2. n.next => n.next_id \in TetrysPivots(n)
    BY <1>4, <1>7, <2>1 DEF Core
  <2>3. HandedOut(n)
    BY <2>1 DEF Core, HandedOut
  <2> QED
    BY <1>6, <2>1, <2>2, <2>3 DEF Core
<1> QED
  BY <1>4, <1>9, <1>10 DEF n

LEMMA AddCodedOk ==
  ASSUME NEW top \in Nat, NEW d, Core(d, top), NEW vec \in SUBSET Upto(top)
  PROVE  LET n == TetrysAddCoded(d, vec)
         IN /\ Core(n, top) /\ Richer(n, d)
            /\ vec # {} => \E r \in n.rows : \E y \in vec : y <= Pivot(r)
<1> DEFINE row == TetrysReduced(d, vec)
           n == TetrysAddCoded(d, vec)
<1>1. d.rows \in SUBSET SUBSET Upto(top) /\ Reduced(d.rows)
  BY RowFacts
<1>2. row \in SUBSET Upto(top) /\ Left(row, vec, d.rows, d.rows)
  BY <1>1, ReducedIs
<1>3. n = IF row = {} THEN d ELSE TetrysInsertNew(d, row)
  BY DEF TetrysAddCoded
<1> HIDE DEF row, n
<1>4. \A r \in d.rows : Pivot(r) \notin row
  BY <1>2 DEF Left
<1>5. CASE row = {}
  <2>1. n = d
    BY <1>3, <1>5
  <2>2. Richer(d, d)
    BY DEF Richer, Core, Elastics
  <2>3. vec # {} => \E r \in d.rows : \E y \in vec : y <= Pivot(r)
    <3>1. \A y \in vec : y <= y
      BY DEF Upto
    <3> QED
      BY <1>2, <1>5, <3>1 DEF Left
  <2> QED
    BY <2>1, <2>2, <2>3 DEF n
<1>6. CASE row # {}
  <2>1. Core(n, top) /\ Richer(n, d) /\ row \in n.rows
    BY <1>2, <1>3, <1>4, <1>6, InsertNewOk
  <2>2. \E y \in vec : y <= Pivot(row)
    BY <1>2, <1>6, RowPivot DEF Left
  <2> QED
    BY <2>1, <2>2 DEF n
<1> QED
  BY <1>5, <1>6

LEMMA InsertSourceOk ==
  ASSUME NEW top \in Nat, NEW d, Core(d, top), NEW id \in Upto(top)
  PROVE  LET n == TetrysInsertSource(d, id)
         IN Core(n, top) /\ Richer(n, d) /\ id \in TetrysPivots(n)
<1> DEFINE n == TetrysInsertSource(d, id)
           row == TetrysRow(d, id)
<1>0. /\ d.rows \in SUBSET SUBSET Upto(top) /\ Reduced(d.rows)
      /\ \A r \in d.rows : /\ r # {} /\ Pivot(r) \in r /\ Pivot(r) \in Upto(top)
                           /\ \A x \in r : Pivot(r) <= x
      /\ {id} \in SUBSET Upto(top) /\ {id} # {}
  BY RowFacts
<1>1. Pivot({id}) = id
  <2>1. \A x \in {id} : id <= x
    BY DEF Upto
  <2> QED
    BY <2>1, <1>0, PivotIs
<1>2. CASE id \notin TetrysPivots(d)
  <2>1. n = TetrysInsertNew(d, {id})
    BY <1>2 DEF TetrysInsertSource
  <2>2. \A r \in d.rows : Pivot(r) \notin {id}
    BY <1>2 DEF TetrysPivots
  <2> HIDE DEF n
  <2>3. Core(n, top) /\ Richer(n, d) /\ {id} \in n.rows
    BY <1>0, <2>1, <2>2, InsertNewOk
  <2>4. id \in TetrysPivots(n)
    BY <1>1, <2>3 DEF TetrysPivots
  <2> QED
    BY <2>3, <2>4 DEF n
<1>3. CASE id \in TetrysPivots(d)
  <2>0. row \in d.rows /\ Pivot(row) = id /\ row \in SUBSET Upto(top)
    BY <1>0, <1>3, RowFacts
  <2>1. CASE row = {id}
    <3>1. n = d
      BY <1>3, <2>1 DEF TetrysInsertSource
    <3>2. Richer(d, d)
      BY DEF Richer, Core, Elastics
    <3> QED
      BY <1>3, <3>1, <3>2
  <2>2. CASE row # {id}
    <3> DEFINE m == [d EXCEPT !.rows = (@ \ {row}) \cup {{id}},
                              !.next = @ \/ id = d.next_id]
    <3>1. n = TetrysAddCoded(m, row)
      BY <1>3, <2>2 DEF TetrysInsertSource
    <3>2. /\ m.rows = (d.rows \ {row}) \cup {{id}} /\ m.next = (d.next \/ id = d.next_id)
          /\ m = [d EXCEPT !.rows = m.rows, !.next = m.next]
          /\ m \in Elastics(top) /\ m.read = d.read /\ m.next_id = d.next_id
      BY <1>0 DEF Core, Elastics
    <3> HIDE DEF m, n, row
    <3>3. Reduced(m.rows)
      <4>1. \A r \in d.rows : r # row => Pivot(r) # id /\ id \notin r
        BY <1>0, <2>0 DEF Reduced
      <4> QED
        <5>1. \A s \in m.rows : s = {id} \/ (s \in d.rows /\ s # row)
          BY <3>2
        <5>2. {} \notin m.rows
          BY <1>0, <5>1
        <5>3. ASSUME NEW r \in m.rows, NEW s \in m.rows, r # s PROVE Pivot(r) \notin s
          <6>1. CASE r = {id}
            BY <1>1, <4>1, <5>1, <5>3, <6>1
          <6>2. CASE r # {id} /\ s = {id}
            BY <4>1, <5>1, <6>2
          <6>3. CASE r # {id} /\ s # {id}
            BY <1>0, <5>1, <5>3, <6>3 DEF Reduced
          <6> QED
            BY <6>1, <6>2, <6>3
        <5> QED
          BY <5>2, <5>3 DEF Reduced
    <3>4. TetrysPivots(m) = TetrysPivots(d)
      <4>1. \A i : i \in TetrysPivots(m) <=> \E s \in m.rows : i = Pivot(s)
        BY DEF TetrysPivots
      <4>2. \A i : i \in TetrysPivots(d) <=> \E s \in d.rows : i = Pivot(s)
        BY DEF TetrysPivots
      <4>3. \A s : s \in m.rows <=> s = {id} \/ (s \in d.rows /\ s # row)
        BY <3>2
      <4>4. \A i : i \in TetrysPivots(m) <=> i \in TetrysPivots(d)
        BY <1>1, <2>0, <4>1, <4>2, <4>3
      <4> QED
        BY <4>4
    <3>5. \A x \in Nat : {x} \in d.rows => {x} \in m.rows
      <4> SUFFICES ASSUME NEW x \in Nat, {x} = row PROVE FALSE
        BY <3>2
      <4>1. id \in row
        BY <1>0, <2>0
      <4> QED
        BY <4>1, <2>2
    <3>6. Core(m, top) /\ Richer(m, d)
      <4>1. HandedOut(m)
        BY <3>2 DEF Core, HandedOut
      <4>2. m.next => m.next_id \in TetrysPivots(m)
        BY <1>3, <3>2, <3>4 DEF Core
      <4> QED
        BY <3>2, <3>3, <3>4, <3>5, <4>1, <4>2 DEF Core, Richer
    <3>7. Core(n, top) /\ Richer(n, m)
      BY <2>0, <3>1, <3>6, AddCodedOk
    <3>8. Richer(n, d)
      BY <3>6, <3>7, RicherTrans
    <3>9. id \in TetrysPivots(n)
      BY <1>3, <3>8 DEF Richer
    <3> QED
      BY <3>7, <3>8, <3>9 DEF n
  <2> QED
    BY <2>1, <2>2
<1> QED
  BY <1>2, <1>3

-----------------------------------------------------------------------------
(* evict_outdated_symbols.  When all that is outdated was seen, the rows   *)
(* that go were handed out, and the pointer passes over no row.            *)
Outdated(d) == {id \in TetrysPivots(d) : id < d.oldest_id}

SeenOutdated(d) == \A x \in Upto(d.oldest_id) : Seen(d, x)

Moved(n, d) ==
  /\ n = [d EXCEPT !.rows = n.rows, !.next = n.next, !.next_id = n.next_id]
  /\ n.next \in BOOLEAN /\ n.next_id \in Nat
  /\ n.next => n.next_id \in TetrysPivots(n)
  /\ n.rows \subseteq d.rows /\ d.next_id <= n.next_id
  /\ \A r \in d.rows \ n.rows : Pivot(r) < n.next_id /\ Pivot(r) < d.oldest_id
  /\ \A p \in TetrysPivots(d) : d.next_id <= p => n.next_id <= p

(* ... after the first k outdated rows.                                    *)
EvictedUpto(x, d, k) ==
  /\ Moved(x, d)
  /\ \A r \in d.rows \ x.rows : \E j \in 1 .. k : Pivot(r) = InOrder(Outdated(d))[j]
  /\ ~x.next => \A j \in 1 .. k : InOrder(Outdated(d))[j] < d.next_id
  /\ ~x.next => x.next_id = d.next_id
  /\ x.next_id = d.next_id \/ x.next_id < d.oldest_id

LEMMA OutdatedRows ==
  ASSUME NEW top \in Nat, NEW d, Core(d, top)
  PROVE  LET old == InOrder(Outdated(d)) K == Len(old)
         IN /\ K \in Nat /\ DOMAIN old = 1 .. K
            /\ \A j \in 1 .. K : old[j] \in TetrysPivots(d) /\ old[j] < d.oldest_id
            /\ \A i, j \in 1 .. K : i < j => old[i] < old[j]
            /\ \A p \in TetrysPivots(d) : p < d.oldest_id => \E j \in 1 .. K : p = old[j]
<1> DEFINE S == Outdated(d)
           old == InOrder(S)
<1>1. S \in SUBSET Nat /\ IsFiniteSet(S)
  <2>1. TetrysPivots(d) \subseteq Upto(top) /\ IsFiniteSet(Upto(top))
    BY RowFacts, FS_Interval DEF Upto
  <2>2. S \subseteq Upto(top)
    BY <2>1 DEF Outdated
  <2>3. IsFiniteSet(S)
    BY <2>1, <2>2, FS_Subset
  <2> QED
    BY <2>2, <2>3 DEF Upto
<1> HIDE DEF S
<1>2. /\ old \in Seq(S)
      /\ \A i, j \in DOMAIN old : i < j => old[i] < old[j]
      /\ Range(old) = S
  BY <1>1, InOrderMembers
<1> HIDE DEF old
<1>3. Len(old) \in Nat /\ DOMAIN old = 1 .. Len(old)
  BY <1>2
<1>4. \A x : x \in S <=> \E j \in DOMAIN old : x = old[j]
  BY <1>2 DEF Range
<1> QED
  BY <1>2, <1>3, <1>4 DEF S, old, Outdated

LEMMA EvictRowOk ==
  ASSUME NEW top \in Nat, NEW d, Core(d, top), SeenOutdated(d),
         NEW k \in Nat, k + 1 <= Len(InOrder(Outdated(d))),
         NEW x, EvictedUpto(x, d, k)
  PROVE  EvictedUpto(TetrysEvictRow(x, InOrder(Outdated(d))[k + 1]), d, k + 1)
<1> DEFINE old == InOrder(Outdated(d))
           K == Len(old)
           id == old[k + 1]
           row == TetrysRow(x, id)
           n == TetrysEvictRow(x, id)
<1>1. /\ K \in Nat
      /\ \A j \in 1 .. K : old[j] \in TetrysPivots(d) /\ old[j] < d.oldest_id
      /\ \A i, j \in 1 .. K : i < j => old[i] < old[j]
      /\ \A p \in TetrysPivots(d) : p < d.oldest_id => \E j \in 1 .. K : p = old[j]
  BY OutdatedRows
<1>2. /\ d.rows \in SUBSET SUBSET Upto(top) /\ Reduced(d.rows)
      /\ \A r \in d.rows : /\ Pivot(r) \in r /\ Pivot(r) \in Upto(top)
                           /\ \A y \in r : Pivot(r) <= y
      /\ TetrysPivots(d) \subseteq Upto(top)
  BY RowFacts
<1>3. d.next_id \in Nat /\ d.oldest_id \in Nat
  BY DEF Core, Elastics
<1>4. k + 1 \in 1 .. K /\ \A j \in 1 .. k : j \in 1 .. K /\ j < k + 1
  <2>1. k + 1 <= K
    OBVIOUS
  <2> HIDE DEF old, K
  <2> QED
    BY <1>1, <2>1
<1> HIDE DEF old, K
<1>5. id \in TetrysPivots(d) /\ id < d.oldest_id /\ id \in Upto(top)
      /\ \A j \in 1 .. k : old[j] < id
  BY <1>1, <1>2, <1>4
<1> HIDE DEF id
<1>6. Moved(x, d)
  BY DEF EvictedUpto
<1>7. row \in x.rows /\ row \in d.rows /\ Pivot(row) = id
  <2>1. PICK r \in d.rows : Pivot(r) = id
    BY <1>5 DEF TetrysPivots
  <2>2. r \in x.rows
    <3> SUFFICES ASSUME r \notin x.rows PROVE FALSE
      OBVIOUS
    <3>1. PICK j \in 1 .. k : Pivot(r) = old[j]
      BY <2>1 DEF EvictedUpto, old
    <3>2. id < id
      BY <1>5, <2>1, <3>1
    <3> QED
      BY <1>5, <3>2 DEF Upto
  <2> QED
    BY <1>6, <2>1, <2>2 DEF TetrysRow, Moved
<1> HIDE DEF row
<1>8. x.oldest_id = d.oldest_id /\ DOMAIN x = DOMAIN d /\ x.next_id \in Nat
      /\ {"rows", "next", "next_id"} \subseteq DOMAIN x
  BY <1>6 DEF Moved, Core, Elastics
<1>9. CASE x.next_id <= id
  <2>1. row = {id} \/ Pivot(row \ {id}) >= x.oldest_id
    <3> SUFFICES ASSUME row # {id} PROVE Pivot(row \ {id}) >= d.oldest_id
      BY <1>8
    <3>1. row \ {id} # {} /\ row \ {id} \in SUBSET Upto(top) /\ row \in SUBSET Upto(top)
      BY <1>2, <1>7
    <3>2. PICK y \in row \ {id} : y = Pivot(row \ {id})
      BY <3>1, RowPivot
    <3>3. y \in Upto(top) /\ id <= y /\ y # id
      BY <1>2, <1>7, <3>1
    <3>4. y \notin TetrysPivots(d)
      <4> SUFFICES ASSUME NEW r \in d.rows, y = Pivot(r) PROVE FALSE
        BY DEF TetrysPivots
      <4>1. r # row
        BY <1>7, <3>3
      <4> QED
        BY <1>2, <1>7, <4>1 DEF Reduced
    <3>5. ~ (y < d.next_id)
      BY <1>3, <1>5, <1>6, <1>8, <1>9, <3>3 DEF Upto, Moved
    <3>6. y \notin Upto(d.oldest_id)
      BY <3>4, <3>5 DEF SeenOutdated, Seen
    <3> QED
      BY <1>3, <3>2, <3>3, <3>6 DEF Upto
  <2>2. n = IF ~x.next THEN [x EXCEPT !.next = TRUE, !.next_id = id] ELSE x
    BY <1>9, <2>1 DEF TetrysEvictRow, row
  <2> HIDE DEF n
  <2>3. CASE x.next
    <3>1. n = x
      BY <2>2, <2>3
    <3>2. \A r \in d.rows \ x.rows : \E j \in 1 .. k + 1 : Pivot(r) = old[j]
      BY DEF EvictedUpto, old
    <3> QED
      BY <2>3, <3>1, <3>2 DEF EvictedUpto, n, id, old
  <2>4. CASE ~x.next
    <3>1. /\ n = [x EXCEPT !.next = TRUE, !.next_id = id] /\ n.next = TRUE /\ n.next_id = id
          /\ n.rows = x.rows
      BY <1>8, <2>2, <2>4
    <3>2. n = [d EXCEPT !.rows = n.rows, !.next = n.next, !.next_id = n.next_id]
      BY <1>6, <3>1 DEF Moved, Core, Elastics
    <3>3. n.next_id \in TetrysPivots(n)
      BY <1>7, <3>1 DEF TetrysPivots
    <3>4. d.next_id <= id /\ id \in Nat
      BY <1>3, <1>5, <1>6, <1>8, <1>9 DEF Moved, Upto
    <3>5. ASSUME NEW p \in TetrysPivots(d), d.next_id <= p PROVE id <= p
      <4> SUFFICES ASSUME p < id PROVE FALSE
        BY <1>2, <1>5 DEF Upto
      <4>1. p < d.oldest_id /\ p \in Nat
        BY <1>2, <1>3, <1>5 DEF Upto
      <4>2. PICK j \in 1 .. K : p = old[j]
        BY <1>1, <4>1
      <4>3. j \in 1 .. k
        <5> SUFFICES ASSUME ~ (j <= k) PROVE FALSE
          BY <1>1, <4>2
        <5>1. j = k + 1 \/ k + 1 < j
          BY <1>1
        <5>2. id = p \/ id < p
          BY <1>1, <1>4, <4>2, <5>1 DEF id
        <5> QED
          BY <1>5, <4>1, <5>2 DEF Upto
      <4>4. p < d.next_id
        BY <2>4, <4>2, <4>3 DEF EvictedUpto, old
      <4> QED
        BY <1>3, <3>5, <4>1, <4>4
    <3>6. \A r \in d.rows \ x.rows : Pivot(r) < id /\ Pivot(r) < d.oldest_id
      <4>1. \A r \in d.rows \ x.rows : \E j \in 1 .. k : Pivot(r) = old[j]
        BY DEF EvictedUpto, old
      <4> QED
        BY <1>1, <1>4, <1>5, <4>1
    <3>7. Moved(n, d)
      BY <1>6, <3>1, <3>2, <3>3, <3>4, <3>5, <3>6 DEF Moved
    <3>8. \A r \in d.rows \ n.rows : \E j \in 1 .. k + 1 : Pivot(r) = old[j]
      BY <3>1 DEF EvictedUpto, old
    <3> QED
      BY <1>5, <3>1, <3>7, <3>8 DEF EvictedUpto, n, id, old
  <2> QED
    BY <2>3, <2>4
<1>10. CASE ~ (x.next_id <= id)
  <2>0. id < x.next_id /\ id \in Nat
    BY <1>5, <1>8, <1>10 DEF Upto
  <2>1. n = [x EXCEPT !.rows = x.rows \ {row}, !.next = (x.next /\ ~(x.next /\ x.next_id = id)),
                      !.next_id = IF x.next /\ x.next_id = id THEN x.next_id + 1 ELSE x.next_id]
    BY <1>10 DEF TetrysEvictRow, row
  <2>2. x.next_id # id /\ x.next \in BOOLEAN
    BY <1>6, <2>0 DEF Moved
  <2>3. n = [x EXCEPT !.rows = x.rows \ {row}, !.next = x.next, !.next_id = x.next_id]
    BY <2>1, <2>2
  <2>4. n.rows = x.rows \ {row} /\ n.next = x.next /\ n.next_id = x.next_id
        /\ n = [d EXCEPT !.rows = n.rows, !.next = n.next, !.next_id = n.next_id]
    <3>1. n.rows = x.rows \ {row} /\ n.next = x.next /\ n.next_id = x.next_id
      BY <1>8, <2>3
    <3>2. x = [d EXCEPT !.rows = x.rows, !.next = x.next, !.next_id = x.next_id]
      BY <1>6 DEF Moved
    <3> QED
      BY <1>8, <2>3, <3>1, <3>2
  <2> HIDE DEF n
  <2>5. n.next => n.next_id \in TetrysPivots(n)
    BY <1>6, <1>7, <2>2, <2>4 DEF Moved, TetrysPivots
  <2>6. \A r \in d.rows \ n.rows : r = row \/ r \in d.rows \ x.rows
    BY <2>4
  <2>7. Moved(n, d)
    BY <1>5, <1>6, <1>7, <2>0, <2>4, <2>5, <2>6 DEF Moved
  <2>8. \A r \in d.rows \ n.rows : \E j \in 1 .. k + 1 : Pivot(r) = old[j]
    <3>1. \A r \in d.rows \ x.rows : \E j \in 1 .. k + 1 : Pivot(r) = old[j]
      BY DEF EvictedUpto, old
    <3>2. k + 1 \in 1 .. k + 1
      OBVIOUS
    <3> QED
      BY <1>7, <2>6, <3>1, <3>2 DEF id
  <2>9. ~n.next => \A j \in 1 .. k + 1 : old[j] < d.next_id
    <3>1. ~n.next => x.next_id = d.next_id /\ \A j \in 1 .. k : old[j] < d.next_id
      BY <2>4 DEF EvictedUpto, old
    <3>2. \A j \in 1 .. k + 1 : j \in 1 .. k \/ j = k + 1
      OBVIOUS
    <3> QED
      BY <2>0, <3>1, <3>2 DEF id
  <2> QED
    BY <2>4, <2>7, <2>8, <2>9 DEF EvictedUpto, n, id, old
<1> QED
  BY <1>9, <1>10

(* What the loop works on: all but three fields stay as they are.          *)
Loose(d, top) ==
  [protocol : {d.protocol}, rows : SUBSET SUBSET Upto(top), next : BOOLEAN, next_id : Nat,
   oldest_id : {d.oldest_id}, max_window_size : {d.max_window_size},
   has_feedback : {d.has_feedback}, read : {d.read}, eager : {d.eager},
   failed : {d.failed}]

LEMMA EvictedAll ==
  ASSUME NEW top \in Nat, NEW d, Core(d, top), SeenOutdated(d)
  PROVE  EvictedUpto(FoldLeft(TetrysEvictRow, d, InOrder(Outdated(d))), d,
                     Len(InOrder(Outdated(d))))
<1> DEFINE old == InOrder(Outdated(d))
           K == Len(old)
           T == Loose(d, top)
           op(x, k) == TetrysEvictRow(x, old[k])
           st == [x \in (1 .. K) \X T |-> op(x[2], x[1])]
           Rec(g) == [s \in SUBSET (1 .. K) |->
                       IF s = {} THEN d ELSE op(g[s \ {Max(s)}], Max(s))]
           it == CHOOSE g : g = Rec(g)
<1>1. K \in Nat /\ DOMAIN old = 1 .. K /\ \A k \in 1 .. K : old[k] \in Nat
  <2>1. /\ K \in Nat /\ DOMAIN old = 1 .. K /\ \A k \in 1 .. K : old[k] \in TetrysPivots(d)
        /\ TetrysPivots(d) \subseteq Upto(top)
    BY OutdatedRows, RowFacts
  <2> HIDE DEF old, K
  <2> QED
    BY <2>1 DEF Upto
<1>2. d \in T
  BY DEF Core, Elastics, Loose
<1>3. ASSUME NEW x \in T, NEW k \in 1 .. K PROVE op(x, k) \in T
  <2>1. old[k] \in Nat
    BY <1>1
  <2> DEFINE id == old[k]
             row == TetrysRow(x, id)
             wanted == x.next_id <= id
             at == IF wanted /\ ~x.next THEN [x EXCEPT !.next = TRUE, !.next_id = id] ELSE x
             useful == row = {id} \/ Pivot(row \ {id}) >= x.oldest_id
             isNext == at.next /\ at.next_id = id
             cut == [at EXCEPT !.rows = @ \ {row}, !.next = @ /\ ~isNext,
                               !.next_id = IF isNext THEN @ + 1 ELSE @]
  <2>2. op(x, k) = IF wanted /\ useful THEN at ELSE cut
    <3> HIDE DEF old
    <3>1. d.oldest_id = x.oldest_id
      BY DEF Loose
    <3> QED
      BY <3>1 DEF TetrysEvictRow
  <2> HIDE DEF old, row, useful, wanted, op
  <2>3. at \in T
    <3>1. id \in Nat
      BY <2>1
    <3> HIDE DEF id
    <3> QED
      BY <3>1 DEF Loose
  <2> HIDE DEF at
  <2>4. cut \in T
    <3> DEFINE b == at.next /\ ~isNext
               i == IF isNext THEN at.next_id + 1 ELSE at.next_id
               r == at.rows \ {row}
    <3>1. cut = [at EXCEPT !.rows = r, !.next = b, !.next_id = i]
      OBVIOUS
    <3>2. at.next \in BOOLEAN /\ at.next_id \in Nat /\ at.rows \in SUBSET SUBSET Upto(top)
      BY <2>3 DEF Loose
    <3>3. b \in BOOLEAN
      OBVIOUS
    <3>4. i \in Nat
      BY <3>2
    <3>5. r \in SUBSET SUBSET Upto(top)
      BY <3>2
    <3> HIDE DEF b, i, r, cut
    <3> QED
      BY <2>3, <3>1, <3>3, <3>4, <3>5 DEF Loose
  <2> HIDE DEF cut, T
  <2> QED
    BY <2>2, <2>3, <2>4
<1>4. st \in [(1 .. K) \X T -> T]
  <2> HIDE DEF op, T, K
  <2> QED
    BY <1>3
<1>5. PICK g \in [SUBSET (1 .. K) -> T] : Folds(g, K, d, st)
  <2> HIDE DEF st, K, T, op, Rec, it
  <2> QED
    BY <1>1, <1>2, <1>4, FoldExists
<1>6. g = Rec(g)
  <2> HIDE DEF op, T, K
  <2>1. ASSUME NEW s \in SUBSET (1 .. K)
        PROVE  g[s] = IF s = {} THEN d ELSE op(g[s \ {Max(s)}], Max(s))
    <3>1. CASE s = {}
      BY <3>1, <1>5 DEF Folds
    <3>2. CASE s # {}
      <4>1. Max(s) \in 1 .. K /\ s \ {Max(s)} \in SUBSET (1 .. K)
        BY <1>1, <3>2, MaxOf
      <4>2. g[s \ {Max(s)}] \in T
        BY <4>1
      <4>3. st[<<Max(s), g[s \ {Max(s)}]>>] = op(g[s \ {Max(s)}], Max(s))
        BY <4>1, <4>2
      <4> QED
        BY <3>2, <1>5, <4>3 DEF Folds
    <3> QED
      BY <3>1, <3>2
  <2> QED
    BY <2>1
<1>7. it = Rec(it)
  <2> HIDE DEF Rec
  <2> QED
    BY <1>6
<1>8. FoldLeft(TetrysEvictRow, d, old) = it[1 .. K]
  <2> HIDE DEF old, K
  <2> QED
    BY <1>1 DEF FoldLeft, MapThenFoldSet
<1> DEFINE Z == {k \in 0 .. K : EvictedUpto(it[1 .. k], d, k)}
<1>9. 0 \in Z
  <2>1. it[1 .. 0] = d
    <3>1. 1 .. 0 = {}
      OBVIOUS
    <3> HIDE DEF it, op, K
    <3> QED
      BY <1>7, <3>1
  <2>2. Moved(d, d)
    <3>1. d = [d EXCEPT !.rows = d.rows, !.next = d.next, !.next_id = d.next_id]
          /\ d.next \in BOOLEAN /\ d.next_id \in Nat
          /\ (d.next => d.next_id \in TetrysPivots(d))
      <4>1. d.next_id \in 0 .. top /\ d.next \in BOOLEAN
        BY DEF Core, Elastics
      <4>2. d = [d EXCEPT !.rows = d.rows, !.next = d.next, !.next_id = d.next_id]
        BY DEF Core, Elastics
      <4> QED
        BY <4>1, <4>2 DEF Core
    <3>2. d.next_id <= d.next_id
      BY <3>1
    <3> QED
      BY <3>1, <3>2 DEF Moved
  <2>3. EvictedUpto(d, d, 0)
    BY <2>2 DEF EvictedUpto
  <2> HIDE DEF it, K
  <2> QED
    BY <1>1, <2>1, <2>3
<1>10. ASSUME NEW k \in 0 .. K - 1, k \in Z PROVE k + 1 \in Z
  <2> DEFINE s == 1 .. k + 1
             x == it[1 .. k]
  <2>1. k \in Nat /\ k + 1 \in 0 .. K /\ k + 1 <= K
    <3> HIDE DEF K
    <3> QED
      BY <1>1
  <2>2. s \in SUBSET (1 .. K) /\ s # {} /\ k + 1 \in s
    <3> HIDE DEF K
    <3> QED
      BY <1>1, <2>1
  <2>3. Max(s) = k + 1
    <3>1. s \in SUBSET Nat /\ \A j \in s : j <= k + 1
      BY <2>1
    <3> QED
      BY <2>2, <3>1, MaxProperty
  <2>4. s \ {k + 1} = 1 .. k
    BY <2>1
  <2>5. it[s] = op(x, k + 1)
    <3> HIDE DEF it, op, K, s
    <3> QED
      BY <1>7, <2>2, <2>3, <2>4
  <2>6. EvictedUpto(x, d, k)
    <3> HIDE DEF it, K
    <3> QED
      BY <1>10
  <2> HIDE DEF x, s
  <2>7. EvictedUpto(op(x, k + 1), d, k + 1)
    BY <2>1, <2>6, EvictRowOk
  <2> HIDE DEF it, op, K
  <2> QED
    BY <2>1, <2>5, <2>7 DEF s
<1>11. K \in Z
  <2> HIDE DEF Z, K
  <2> QED
    BY <1>1, <1>9, <1>10, LeastIndex
<1> QED
  BY <1>8, <1>11

LEMMA EvictOk ==
  ASSUME NEW top \in Nat, NEW d, Core(d, top), SeenOutdated(d)
  PROVE  LET n == TetrysEvict(d) IN Core(n, top) /\ Moved(n, d)
<1> DEFINE old == InOrder(Outdated(d))
           K == Len(old)
           left == FoldLeft(TetrysEvictRow, d, old)
           rest == {id \in TetrysPivots(left) : id >= d.oldest_id}
           id == IF left.next THEN left.next_id ELSE d.oldest_id
           n == TetrysEvict(d)
<1>1. EvictedUpto(left, d, K)
  BY EvictedAll
<1> HIDE DEF left, K
<1>2. /\ d.rows \in SUBSET SUBSET Upto(top) /\ Reduced(d.rows)
      /\ TetrysPivots(d) \subseteq Upto(top)
  BY RowFacts
<1>3. Moved(left, d) /\ left.oldest_id = d.oldest_id
  BY <1>1 DEF EvictedUpto, Moved, Core, Elastics
<1>4. n = IF rest = {} \/ left.next_id >= d.oldest_id THEN left
          ELSE [left EXCEPT !.next_id = id, !.next = left.next \/ id = Min(rest)]
  BY <1>3 DEF TetrysEvict, left, Outdated
<1>5. ~left.next => /\ left.next_id = d.next_id
                    /\ \A p \in TetrysPivots(d) : p < d.oldest_id => p < d.next_id
  <2>1. \A p \in TetrysPivots(d) : p < d.oldest_id => \E j \in 1 .. K : p = old[j]
    BY OutdatedRows DEF K
  <2> QED
    BY <1>1, <2>1 DEF EvictedUpto
<1>6. d.next_id \in 0 .. top /\ d.oldest_id \in 0 .. top
  BY DEF Core, Elastics
<1> HIDE DEF n
<1>7. Moved(n, d) /\ n.next_id \in 0 .. top
  <2>1. left.next_id \in 0 .. top
    BY <1>1, <1>3, <1>6 DEF EvictedUpto, Moved
  <2>2. CASE n = left
    BY <1>3, <2>1, <2>2
  <2>3. CASE n # left
    <3>1. /\ n = [left EXCEPT !.next_id = id, !.next = left.next \/ id = Min(rest)]
          /\ rest # {} /\ ~ (left.next_id >= d.oldest_id)
      BY <1>4, <2>3
    <3>2. ~left.next
      <4> SUFFICES ASSUME left.next PROVE n = left
        BY <2>3
      <4> QED
        BY <1>3, <3>1 DEF Moved, Core, Elastics
    <3>3. id = d.oldest_id
      BY <3>2
    <3> DEFINE b == d.oldest_id = Min(rest)
    <3>4. n = [left EXCEPT !.next_id = d.oldest_id, !.next = b]
      BY <3>1, <3>2, <3>3
    <3>5. /\ n.next_id = d.oldest_id /\ n.next = b /\ n.rows = left.rows
          /\ n = [d EXCEPT !.rows = n.rows, !.next = n.next, !.next_id = n.next_id]
      <4>1. left = [d EXCEPT !.rows = left.rows, !.next = left.next, !.next_id = left.next_id]
        BY <1>3 DEF Moved
      <4>2. DOMAIN d = {"protocol", "rows", "next", "next_id", "oldest_id", "max_window_size",
                        "has_feedback", "read", "eager", "failed"}
        BY DEF Core, Elastics
      <4> HIDE DEF b
      <4> QED
        BY <3>4, <4>1, <4>2
    <3>6. b => d.oldest_id \in TetrysPivots(n)
      <4>1. rest \subseteq TetrysPivots(left) /\ TetrysPivots(left) \subseteq TetrysPivots(d)
        BY <1>3 DEF Moved, TetrysPivots
      <4>2. rest \in SUBSET Nat
        BY <1>2, <4>1 DEF Upto
      <4> HIDE DEF rest
      <4>3. Min(rest) \in rest
        BY <3>1, <4>2, MinProperty
      <4> QED
        BY <3>5, <4>1, <4>3 DEF TetrysPivots
    <3>7. d.next_id <= d.oldest_id
      BY <1>5, <1>6, <3>1, <3>2
    <3>8. \A p \in TetrysPivots(d) : d.next_id <= p => d.oldest_id <= p
      <4>1. \A p \in TetrysPivots(d) : p \in Nat
        BY <1>2 DEF Upto
      <4> QED
        BY <1>5, <1>6, <3>2, <4>1
    <3>9. \A r \in d.rows \ left.rows : Pivot(r) < d.oldest_id
      BY <1>3 DEF Moved
    <3>10. n.next \in BOOLEAN /\ n.next_id \in Nat
      BY <1>6, <3>5
    <3>11. left.rows \subseteq d.rows
      BY <1>3 DEF Moved
    <3> HIDE DEF b
    <3> QED
      BY <1>6, <3>5, <3>6, <3>7, <3>8, <3>9, <3>10, <3>11 DEF Moved
  <2> QED
    BY <2>2, <2>3
<1>8. Core(n, top)
  <2>1. n \in Elastics(top) /\ n.rows \subseteq d.rows /\ n.read = d.read
    BY <1>2, <1>7 DEF Moved, Core, Elastics
  <2>2. Reduced(n.rows)
    BY <1>2, <2>1 DEF Reduced
  <2>3. HandedOut(n)
    <3>1. \A i \in DOMAIN d.read : d.read[i][2] \in Nat
      BY DEF Core, Elastics
    <3>2. d.next_id <= n.next_id /\ n.next_id \in Nat /\ d.next_id \in Nat
      BY <1>6, <1>7 DEF Moved
    <3> QED
      BY <2>1, <3>1, <3>2 DEF Core, HandedOut
  <2> QED
    BY <1>7, <2>1, <2>2, <2>3 DEF Core, Moved
<1> QED
  BY <1>7, <1>8 DEF n

-----------------------------------------------------------------------------
(* What the calls of the decoder lead to: what it has seen it has seen     *)
(* ever after, and what is decoded stays to be taken or was handed out.    *)
Onward(d, n) ==
  /\ d.next_id <= n.next_id
  /\ \A x \in Nat : Seen(d, x) => Seen(n, x)
  /\ \A x \in Nat : {x} \in d.rows /\ d.next_id <= x =>
       \/ {x} \in n.rows /\ n.next_id <= x
       \/ \E j \in DOMAIN n.read : n.read[j] = <<1, x>>
  /\ Extends(d.read, n.read)

LEMMA CoreNumbers ==
  ASSUME NEW top \in Nat, NEW d, Core(d, top)
  PROVE  /\ d.next_id \in Nat /\ d.next_id <= top /\ d.oldest_id \in Nat
         /\ d.oldest_id <= top /\ Len(d.read) \in Nat /\ DOMAIN d.read = 1 .. Len(d.read)
<1>1. d.next_id \in 0 .. top /\ d.oldest_id \in 0 .. top /\ d.read \in Seq({1} \X Nat)
  BY DEF Core, Elastics
<1>2. Len(d.read) \in Nat /\ DOMAIN d.read = 1 .. Len(d.read)
  BY <1>1
<1>3. \A i \in 0 .. top : i \in Nat /\ i <= top
  OBVIOUS
<1> QED
  BY <1>1, <1>2, <1>3

LEMMA CoreFields ==
  ASSUME NEW top \in Nat, NEW d, Core(d, top)
  PROVE  /\ DOMAIN d = {"protocol", "rows", "next", "next_id", "oldest_id", "max_window_size",
                        "has_feedback", "read", "eager", "failed"}
         /\ d.next \in BOOLEAN /\ d.has_feedback \in BOOLEAN /\ d.eager = opt.eager
         /\ d.max_window_size = opt.window /\ d.protocol = "tetrys" /\ d.failed = FALSE
BY DEF Core, Elastics

LEMMA PivotNumbers ==
  ASSUME NEW top \in Nat, NEW d, Core(d, top)
  PROVE  /\ TetrysPivots(d) \in SUBSET Nat
         /\ \A r \in d.rows : Pivot(r) \in Nat /\ Pivot(r) \in TetrysPivots(d)
<1>1. Upto(top) \subseteq Nat
  BY DEF Upto
<1> QED
  BY <1>1, RowFacts

LEMMA OnwardTrans ==
  ASSUME NEW top \in Nat, NEW d, NEW m, NEW n, Core(d, top), Core(m, top), Core(n, top),
         Onward(d, m), Onward(m, n)
  PROVE  Onward(d, n)
<1>1. /\ {d.next_id, m.next_id, n.next_id} \subseteq Nat
      /\ {Len(d.read), Len(m.read), Len(n.read)} \subseteq Nat
      /\ DOMAIN d.read = 1 .. Len(d.read) /\ DOMAIN m.read = 1 .. Len(m.read)
      /\ DOMAIN n.read = 1 .. Len(n.read)
  BY CoreNumbers
<1>2. /\ Extends(d.read, m.read) /\ Extends(m.read, n.read)
      /\ d.next_id <= m.next_id /\ m.next_id <= n.next_id
  BY DEF Onward
<1>3. Extends(d.read, n.read)
  <2>1. Len(d.read) <= Len(m.read) /\ Len(m.read) <= Len(n.read)
    BY <1>2 DEF Extends
  <2>2. ASSUME NEW j \in 1 .. Len(d.read) PROVE n.read[j] = d.read[j]
    <3>1. j \in 1 .. Len(m.read)
      BY <1>1, <2>1
    <3> QED
      BY <1>2, <3>1 DEF Extends
  <2> QED
    BY <1>1, <2>1, <2>2 DEF Extends
<1>4. d.next_id <= n.next_id
  BY <1>1, <1>2
<1>5. \A x \in Nat : Seen(d, x) => Seen(n, x)
  BY DEF Onward
<1>6. ASSUME NEW x \in Nat, {x} \in d.rows, d.next_id <= x
      PROVE  \/ {x} \in n.rows /\ n.next_id <= x
             \/ \E j \in DOMAIN n.read : n.read[j] = <<1, x>>
  <2>1. CASE {x} \in m.rows /\ m.next_id <= x
    BY <2>1 DEF Onward
  <2>2. CASE \E j \in DOMAIN m.read : m.read[j] = <<1, x>>
    <3>1. PICK j \in 1 .. Len(m.read) : m.read[j] = <<1, x>>
      BY <1>1, <2>2
    <3>2. Len(m.read) <= Len(n.read) /\ n.read[j] = m.read[j]
      BY <1>2 DEF Extends
    <3>3. j \in DOMAIN n.read
      BY <1>1, <3>2
    <3> QED
      BY <3>1, <3>2, <3>3
  <2> QED
    BY <1>6, <2>1, <2>2 DEF Onward
<1> QED
  BY <1>3, <1>4, <1>5, <1>6 DEF Onward

LEMMA ExtendsItself ==
  ASSUME NEW top \in Nat, NEW d, Core(d, top), NEW s, s = d.read
  PROVE  Extends(d.read, s)
BY CoreNumbers DEF Extends

LEMMA RicherOn ==
  ASSUME NEW top \in Nat, NEW d, NEW n, Core(d, top), Core(n, top), Richer(n, d)
  PROVE  /\ Onward(d, n) /\ n.oldest_id = d.oldest_id /\ n.read = d.read
         /\ n.has_feedback = d.has_feedback /\ n.next_id = d.next_id
<1>1. n.oldest_id = d.oldest_id /\ n.read = d.read /\ n.has_feedback = d.has_feedback
      /\ n.next_id = d.next_id
  <2>1. n = [d EXCEPT !.rows = n.rows, !.next = n.next]
    BY DEF Richer
  <2> QED
    BY <2>1, CoreFields
<1>2. d.next_id <= n.next_id
  BY <1>1, CoreNumbers
<1>3. Extends(d.read, n.read)
  BY <1>1, ExtendsItself
<1>4. \A x \in Nat : Seen(d, x) => Seen(n, x)
  BY <1>1 DEF Seen, Richer
<1>5. \A x \in Nat : {x} \in d.rows /\ d.next_id <= x => {x} \in n.rows /\ n.next_id <= x
  BY <1>1 DEF Richer
<1> QED
  BY <1>1, <1>2, <1>3, <1>4, <1>5 DEF Onward

LEMMA MovedOn ==
  ASSUME NEW top \in Nat, NEW d, NEW n, Core(d, top), Core(n, top), Moved(n, d)
  PROVE  /\ Onward(d, n) /\ n.oldest_id = d.oldest_id /\ n.read = d.read
         /\ n.has_feedback = d.has_feedback
         /\ \A r \in d.rows : d.oldest_id <= Pivot(r) => r \in n.rows
<1>1. n.oldest_id = d.oldest_id /\ n.read = d.read /\ n.has_feedback = d.has_feedback
  <2>1. n = [d EXCEPT !.rows = n.rows, !.next = n.next, !.next_id = n.next_id]
    BY DEF Moved
  <2> QED
    BY <2>1, CoreFields
<1>2. /\ d.next_id \in Nat /\ n.next_id \in Nat /\ d.oldest_id \in Nat /\ d.next_id <= n.next_id
      /\ \A r \in d.rows : Pivot(r) \in Nat /\ Pivot(r) \in TetrysPivots(d)
      /\ TetrysPivots(d) \in SUBSET Nat
  BY CoreNumbers, PivotNumbers DEF Moved
<1>3. Extends(d.read, n.read)
  BY <1>1, ExtendsItself
<1>4. ASSUME NEW x \in Nat, Seen(d, x) PROVE Seen(n, x)
  <2>1. CASE x < d.next_id
    BY <1>2, <2>1 DEF Seen
  <2>2. CASE x \in TetrysPivots(d)
    <3>1. PICK r \in d.rows : x = Pivot(r)
      BY <2>2 DEF TetrysPivots
    <3>2. CASE r \in n.rows
      BY <3>1, <3>2 DEF Seen, TetrysPivots
    <3>3. CASE r \notin n.rows
      BY <3>1, <3>3 DEF Seen, Moved
    <3> QED
      BY <3>2, <3>3
  <2> QED
    BY <1>4, <2>1, <2>2 DEF Seen
<1>5. ASSUME NEW x \in Nat, {x} \in d.rows, d.next_id <= x
      PROVE  {x} \in n.rows /\ n.next_id <= x
  <2>1. Pivot({x}) = x
    BY <1>5, RowFacts
  <2>2. n.next_id <= x
    BY <1>2, <1>5, <2>1 DEF Moved
  <2>3. ~ (x < n.next_id)
    BY <1>2, <2>2
  <2> QED
    BY <1>5, <2>1, <2>2, <2>3 DEF Moved
<1>6. ASSUME NEW r \in d.rows, d.oldest_id <= Pivot(r) PROVE r \in n.rows
  <2>1. ~ (Pivot(r) < d.oldest_id)
    BY <1>2, <1>6
  <2> QED
    BY <2>1 DEF Moved
<1> QED
  BY <1>1, <1>2, <1>3, <1>4, <1>5, <1>6 DEF Onward

(* nck_tetrys_dec_get_source                                               *)
Handing(d, n) ==
  /\ Onward(d, n) /\ n.oldest_id = d.oldest_id /\ n.has_feedback = d.has_feedback
  /\ \A r \in d.rows : d.oldest_id <= Pivot(r) => r \in n.rows

LEMMA HandingTrans ==
  ASSUME NEW top \in Nat, NEW d, NEW m, NEW n, Core(d, top), Core(m, top), Core(n, top),
         Handing(d, m), Handing(m, n)
  PROVE  Handing(d, n)
BY OnwardTrans DEF Handing

LEMMA HandingStill ==
  ASSUME NEW top \in Nat, NEW d, Core(d, top)
  PROVE  Handing(d, d)
<1>1. Extends(d.read, d.read) /\ d.next_id <= d.next_id
  BY CoreNumbers, ExtendsItself
<1> QED
  BY <1>1 DEF Handing, Onward

LEMMA SeenOutdatedOn ==
  ASSUME NEW top \in Nat, NEW d, NEW n, Core(d, top), SeenOutdated(d), Handing(d, n)
  PROVE  SeenOutdated(n)
<1>1. Upto(d.oldest_id) \subseteq Nat
  BY CoreNumbers DEF Upto
<1> QED
  BY <1>1 DEF SeenOutdated, Handing, Onward

LEMMA TookOk ==
  ASSUME NEW top \in Nat, NEW d, Core(d, top), TetrysDecHasSource(d),
         NEW b \in BOOLEAN, b => d.next_id + 1 \in TetrysPivots(d)
  PROVE  LET n == [d EXCEPT !.read = Append(@, <<1, d.next_id>>), !.next_id = @ + 1, !.next = b]
         IN Core(n, top) /\ Handing(d, n) /\ n.rows = d.rows /\ n.next_id = d.next_id + 1
<1> DEFINE it == <<1, d.next_id>>
           n == [d EXCEPT !.read = Append(@, it), !.next_id = @ + 1, !.next = b]
<1>0. d.read \in Seq({1} \X Nat)
  BY DEF Core, Elastics
<1>1. /\ d.next_id \in Nat /\ Len(d.read) \in Nat
      /\ DOMAIN d.read = 1 .. Len(d.read) /\ d.oldest_id \in Nat
  BY CoreNumbers
<1>2. d.next_id \in TetrysPivots(d) /\ d.next_id + 1 <= top /\ d.next_id + 1 \in 0 .. top
  <2>1. d.next_id \in TetrysPivots(d) /\ TetrysPivots(d) \subseteq Upto(top)
    BY RowFacts DEF Core, TetrysDecHasSource
  <2> QED
    BY <1>1, <2>1 DEF Upto
<1>3. it \in {1} \X Nat
  BY <1>1
<1>4. /\ n.read = Append(d.read, it) /\ n.next_id = d.next_id + 1 /\ n.next = b
      /\ n.rows = d.rows /\ n.oldest_id = d.oldest_id /\ n.has_feedback = d.has_feedback
  BY CoreFields
<1>5. /\ n.read \in Seq({1} \X Nat) /\ Len(n.read) = Len(d.read) + 1
      /\ DOMAIN n.read = 1 .. Len(d.read) + 1
      /\ \A j \in 1 .. Len(d.read) : n.read[j] = d.read[j]
      /\ n.read[Len(d.read) + 1] = it
  <2> HIDE DEF it, n
  <2> QED
    BY <1>0, <1>1, <1>3, <1>4
<1>6. n \in Elastics(top)
  <2> DEFINE s == n.read
             m == d.next_id + 1
  <2>1. n = [d EXCEPT !.read = s, !.next_id = m, !.next = b]
    OBVIOUS
  <2>2. s \in Seq({1} \X Nat) /\ m \in 0 .. top
    BY <1>2, <1>5
  <2>3. d \in Elastics(top)
    BY DEF Core
  <2> HIDE DEF s, m, n
  <2> QED
    BY <2>1, <2>2, <2>3 DEF Elastics
<1> HIDE DEF n
<1>7. HandedOut(n)
  <2>1. \A j \in 1 .. Len(d.read) : d.read[j][2] \in Nat /\ d.read[j][2] < d.next_id
    <3>1. \A j \in 1 .. Len(d.read) : d.read[j] \in {1} \X Nat
      BY <1>0, <1>1
    <3>2. \A j \in 1 .. Len(d.read) : d.read[j][2] \in Nat
      BY <3>1
    <3> QED
      BY <1>1, <3>2 DEF Core, HandedOut
  <2>2. \A i, j \in 1 .. Len(d.read) : i < j => d.read[i][2] < d.read[j][2]
    BY <1>1 DEF Core, HandedOut
  <2>3. it[2] = d.next_id
    OBVIOUS
  <2> HIDE DEF it
  <2>4. \A j \in 1 .. Len(d.read) + 1 : j \in 1 .. Len(d.read) \/ j = Len(d.read) + 1
    BY <1>1
  <2>5. ASSUME NEW j \in DOMAIN n.read
        PROVE  n.read[j][2] < d.next_id + 1
    <3>1. CASE j \in 1 .. Len(d.read)
      <4>1. n.read[j][2] \in Nat /\ n.read[j][2] < d.next_id
        BY <1>5, <2>1, <3>1
      <4> QED
        BY <1>1, <4>1
    <3>2. CASE j = Len(d.read) + 1
      <4>1. n.read[j][2] = d.next_id
        BY <1>5, <2>3, <3>2
      <4> QED
        BY <1>1, <4>1
    <3> QED
      BY <1>5, <2>4, <3>1, <3>2
  <2>6. ASSUME NEW i \in DOMAIN n.read, NEW j \in DOMAIN n.read, i < j
        PROVE  n.read[i][2] < n.read[j][2]
    <3>1. i \in 1 .. Len(d.read)
      BY <1>1, <1>5, <2>6
    <3>2. CASE j \in 1 .. Len(d.read)
      BY <1>5, <2>2, <2>6, <3>1, <3>2
    <3>3. CASE j = Len(d.read) + 1
      BY <1>5, <2>1, <2>3, <3>1, <3>3
    <3> QED
      BY <1>5, <2>4, <3>2, <3>3
  <2> QED
    BY <1>4, <2>5, <2>6 DEF HandedOut
<1>8. Core(n, top)
  <2>1. TetrysPivots(n) = TetrysPivots(d) /\ Reduced(n.rows)
    BY <1>4 DEF TetrysPivots, Core
  <2> QED
    BY <1>4, <1>6, <1>7, <2>1 DEF Core
<1>9. Onward(d, n)
  <2>1. Extends(d.read, n.read)
    BY <1>1, <1>5 DEF Extends
  <2>2. \A x \in Nat : Seen(d, x) => Seen(n, x)
    <3>1. TetrysPivots(n) = TetrysPivots(d)
      BY <1>4 DEF TetrysPivots
    <3> QED
      BY <1>1, <1>4, <3>1 DEF Seen
  <2>3. ASSUME NEW x \in Nat, {x} \in d.rows, d.next_id <= x
        PROVE  \/ {x} \in n.rows /\ n.next_id <= x
               \/ \E j \in DOMAIN n.read : n.read[j] = <<1, x>>
    <3>1. CASE x = d.next_id
      <4>1. Len(d.read) + 1 \in DOMAIN n.read
        BY <1>1, <1>5
      <4> QED
        BY <1>5, <3>1, <4>1
    <3>2. CASE x # d.next_id
      BY <1>1, <1>4, <2>3, <3>2
    <3> QED
      BY <3>1, <3>2
  <2>4. d.next_id <= n.next_id
    BY <1>1, <1>4
  <2> QED
    BY <2>1, <2>2, <2>3, <2>4 DEF Onward
<1> QED
  BY <1>4, <1>8, <1>9 DEF Handing, n, it

LEMMA TetrysGetSourceOk ==
  ASSUME NEW top \in Nat, NEW d, Core(d, top), SeenOutdated(d), TetrysDecHasSource(d)
  PROVE  LET n == TetrysDecGetSource(d) IN Core(n, top) /\ SeenOutdated(n) /\ Handing(d, n)
<1> DEFINE n == TetrysDecGetSource(d)
           with(b) == [d EXCEPT !.read = Append(@, <<1, d.next_id>>), !.next_id = @ + 1, !.next = b]
           took == with(FALSE)
           later == {id \in TetrysPivots(d) : id > d.next_id}
           b == later # {} /\ Min(later) = took.next_id
<1>1. n = IF took.next_id < took.oldest_id THEN TetrysEvict(took) ELSE [took EXCEPT !.next = b]
  BY DEF TetrysDecGetSource
<1>2. Core(took, top) /\ Handing(d, took) /\ took.rows = d.rows /\ took.next_id = d.next_id + 1
  BY TookOk
<1>3. CASE took.next_id < took.oldest_id
  <2>1. n = TetrysEvict(took)
    BY <1>1, <1>3
  <2> HIDE DEF took, n
  <2>2. SeenOutdated(took)
    BY <1>2, SeenOutdatedOn
  <2>3. Core(n, top) /\ Moved(n, took)
    BY <1>2, <2>1, <2>2, EvictOk
  <2>4. Handing(took, n)
    BY <1>2, <2>3, MovedOn DEF Handing
  <2>5. Handing(d, n)
    BY <1>2, <2>3, <2>4, HandingTrans
  <2>6. SeenOutdated(n)
    BY <2>5, SeenOutdatedOn
  <2> QED
    BY <2>3, <2>5, <2>6 DEF n
<1>4. CASE ~ (took.next_id < took.oldest_id)
  <2>1. n = [took EXCEPT !.next = b]
    BY <1>1, <1>4
  <2>2. [took EXCEPT !.next = b] = with(b)
    BY CoreFields
  <2>3. b \in BOOLEAN
    OBVIOUS
  <2>4. b => d.next_id + 1 \in TetrysPivots(d)
    <3> SUFFICES ASSUME b PROVE d.next_id + 1 \in TetrysPivots(d)
      OBVIOUS
    <3>1. later # {} /\ Min(later) = d.next_id + 1
      BY <1>2
    <3>2. later \in SUBSET Nat /\ later \subseteq TetrysPivots(d)
      BY RowFacts DEF Upto
    <3> HIDE DEF later
    <3> QED
      BY <3>1, <3>2, MinProperty
  <2> HIDE DEF b, n, took
  <2>5. Core(n, top) /\ Handing(d, n)
    BY <2>1, <2>2, <2>3, <2>4, TookOk
  <2>6. SeenOutdated(n)
    BY <2>5, SeenOutdatedOn
  <2> QED
    BY <2>5, <2>6 DEF n
<1> QED
  BY <1>3, <1>4
-----------------------------------------------------------------------------
(* on_source_ready, in any number of calls.                                *)
LEMMA TetrysReadyOk ==
  ASSUME NEW top \in Nat, NEW d, Core(d, top), SeenOutdated(d), opt.window \in Nat
  PROVE  LET n == TetrysSourceReady(d) IN Core(n, top) /\ SeenOutdated(n) /\ Handing(d, n)
<1> DEFINE T == {x \in Elastics(top) : Core(x, top) /\ SeenOutdated(x) /\ Handing(d, x)}
           K == 2 * d.max_window_size
           slots == [n \in 1 .. K |-> n]
           take(x, n) == IF TetrysDecHasSource(x) THEN TetrysDecGetSource(x) ELSE x
           st == [x \in (1 .. K) \X T |-> take(x[2], slots[x[1]])]
           Rec(g) == [s \in SUBSET (1 .. K) |->
                       IF s = {} THEN d ELSE take(g[s \ {Max(s)}], slots[Max(s)])]
           it == CHOOSE g : g = Rec(g)
<1>0. d \in T
  <2>1. d \in Elastics(top) /\ Handing(d, d)
    BY HandingStill DEF Core
  <2> QED
    BY <2>1
<1>1. K \in Nat
  <2>1. d.max_window_size = opt.window
    BY CoreFields
  <2> QED
    BY <2>1
<1>2. \A x \in T : \A k \in 1 .. K : take(x, slots[k]) \in T
  <2> SUFFICES ASSUME NEW x \in T, TetrysDecHasSource(x) PROVE TetrysDecGetSource(x) \in T
    OBVIOUS
  <2> DEFINE n == TetrysDecGetSource(x)
  <2>1. Core(x, top) /\ SeenOutdated(x) /\ Handing(d, x)
    OBVIOUS
  <2>2. Core(n, top) /\ SeenOutdated(n) /\ Handing(x, n)
    BY <2>1, TetrysGetSourceOk
  <2> HIDE DEF n
  <2>3. Handing(d, n) /\ n \in Elastics(top)
    BY <2>1, <2>2, HandingTrans DEF Core
  <2>4. n \in T
    BY <2>2, <2>3
  <2> QED
    BY <2>4 DEF n
<1>3. st \in [(1 .. K) \X T -> T]
  <2> HIDE DEF take, slots, K, T
  <2> QED
    BY <1>2
<1>4. PICK g \in [SUBSET (1 .. K) -> T] : Folds(g, K, d, st)
  <2> HIDE DEF st, K, T, take, slots, Rec, it
  <2> QED
    BY <1>0, <1>1, <1>3, FoldExists
<1>5. g = Rec(g)
  <2> HIDE DEF take, slots, K, T
  <2>1. ASSUME NEW s \in SUBSET (1 .. K)
        PROVE  g[s] = IF s = {} THEN d ELSE take(g[s \ {Max(s)}], slots[Max(s)])
    <3>1. CASE s = {}
      BY <3>1, <1>4 DEF Folds
    <3>2. CASE s # {}
      <4>1. Max(s) \in 1 .. K /\ s \ {Max(s)} \in SUBSET (1 .. K)
        BY <1>1, <3>2, MaxOf
      <4>2. g[s \ {Max(s)}] \in T
        BY <4>1
      <4>3. st[<<Max(s), g[s \ {Max(s)}]>>] = take(g[s \ {Max(s)}], slots[Max(s)])
        BY <4>1, <4>2
      <4> QED
        BY <3>2, <1>4, <4>3 DEF Folds
    <3> QED
      BY <3>1, <3>2
  <2> QED
    BY <2>1
<1>6. it = Rec(it)
  <2> HIDE DEF Rec
  <2> QED
    BY <1>5
<1>7. TetrysSourceReady(d) \in {d, it[1 .. K]}
  <2>1. DOMAIN slots = 1 .. K
    OBVIOUS
  <2>2. FoldLeft(take, d, slots) = it[1 .. K]
    BY <2>1 DEF FoldLeft, MapThenFoldSet
  <2> HIDE DEF it
  <2> QED
    BY <2>2 DEF TetrysSourceReady
<1> HIDE DEF T
<1>8. it[{}] \in T
  <2>1. {} \in SUBSET (1 .. K)
    OBVIOUS
  <2> HIDE DEF it, take, slots, K
  <2> QED
    BY <1>0, <1>6, <2>1
<1>9. ASSUME NEW s \in SUBSET (1 .. K), s # {}, it[s \ {Max(s)}] \in T PROVE it[s] \in T
  <2>1. Max(s) \in 1 .. K
    <3> HIDE DEF K
    <3> QED
      BY <1>1, <1>9, MaxOf
  <2>2. it[s] = take(it[s \ {Max(s)}], slots[Max(s)])
    <3> HIDE DEF it, take, slots, K
    <3> QED
      BY <1>6, <1>9
  <2> HIDE DEF it, take, slots, K
  <2> QED
    BY <1>9, <2>1, <2>2, <1>2
<1>10. it[1 .. K] \in T
  <2> HIDE DEF it, take, slots, K
  <2> QED
    BY <1>8, <1>9, <1>1, FoldTyped
<1>11. TetrysSourceReady(d) \in T
  BY <1>0, <1>7, <1>10
<1> QED
  BY <1>11 DEF T

(* The fields that rows and pointer do not depend on.                      *)
With(d, o, f) == [d EXCEPT !.oldest_id = o, !.has_feedback = f]

LEMMA CoreWith ==
  ASSUME NEW top \in Nat, NEW d, Core(d, top), NEW o \in 0 .. top, NEW f \in BOOLEAN,
         NEW n, n = With(d, o, f)
  PROVE  /\ Core(n, top) /\ Onward(d, n) /\ n.rows = d.rows /\ n.next_id = d.next_id
         /\ n.oldest_id = o /\ n.has_feedback = f
<1>1. /\ n.rows = d.rows /\ n.next_id = d.next_id /\ n.next = d.next /\ n.read = d.read
      /\ n.oldest_id = o /\ n.has_feedback = f
  BY CoreFields DEF With
<1>2. n \in Elastics(top)
  BY DEF Core, Elastics, With
<1>3. TetrysPivots(n) = TetrysPivots(d)
  BY <1>1 DEF TetrysPivots
<1>4. Core(n, top)
  BY <1>1, <1>2, <1>3 DEF Core, HandedOut
<1>5. Onward(d, n)
  <2>1. d.next_id <= n.next_id /\ Extends(d.read, n.read)
    BY <1>1, CoreNumbers, ExtendsItself
  <2> QED
    BY <1>1, <1>3, <2>1 DEF Onward, Seen
<1> QED
  BY <1>1, <1>4, <1>5

(* What is asked of a packet that comes in.                                *)
Readable(pkt, d, top) ==
  /\ pkt.oldest \in Upto(top)
  /\ pkt.repair => /\ pkt.vec # {} /\ pkt.vec \in SUBSET Upto(top)
                   /\ \A y \in pkt.vec : pkt.oldest <= y
                   /\ \A x \in Upto(pkt.oldest) : Seen(d, x)

(* A row at or after the oldest symbol, so that feedback can be given.     *)
HasRow(d) == \E r \in d.rows : d.oldest_id <= Pivot(r)

Held(d) == HasRow(d) \/ (d.rows = {} /\ d.oldest_id = 0 /\ ~d.has_feedback)

LEMMA TetrysReadOk ==
  ASSUME NEW top \in Nat, NEW d, Core(d, top), SeenOutdated(d), Held(d),
         NEW pkt, Readable(pkt, d, top)
  PROVE  LET n == IF pkt.repair
                  THEN TetrysAddCoded(TetrysEvict([d EXCEPT !.oldest_id = pkt.oldest]), pkt.vec)
                  ELSE TetrysInsertSource(d, pkt.oldest)
         IN Core(n, top) /\ Onward(d, n) /\ SeenOutdated(n) /\ HasRow(n)
<1>0. pkt.oldest \in Upto(top) /\ pkt.oldest \in 0 .. top /\ pkt.oldest \in Nat
  BY DEF Readable, Upto
<1>1. CASE pkt.repair
  <2> DEFINE m == [d EXCEPT !.oldest_id = pkt.oldest]
             e == TetrysEvict(m)
             n == TetrysAddCoded(e, pkt.vec)
  <2>0. m = With(d, pkt.oldest, d.has_feedback)
    BY DEF Core, Elastics, With
  <2>1. /\ Core(m, top) /\ Onward(d, m) /\ m.oldest_id = pkt.oldest
        /\ d.has_feedback \in BOOLEAN
    <3>1. d.has_feedback \in BOOLEAN
      BY CoreFields
    <3> HIDE DEF m
    <3> QED
      BY <1>0, <2>0, <3>1, CoreWith
  <2> HIDE DEF m
  <2>2. SeenOutdated(m)
    <3>1. \A x \in Upto(pkt.oldest) : Seen(d, x) /\ x \in Nat
      BY <1>1 DEF Readable, Upto
    <3> QED
      BY <2>1, <3>1 DEF SeenOutdated, Onward
  <2>3. Core(e, top) /\ Moved(e, m)
    BY <2>1, <2>2, EvictOk
  <2> HIDE DEF e
  <2>4. Onward(m, e) /\ e.oldest_id = pkt.oldest
    BY <2>1, <2>3, MovedOn
  <2>5. /\ pkt.vec # {} /\ pkt.vec \in SUBSET Upto(top) /\ pkt.vec \in SUBSET Nat
        /\ \A y \in pkt.vec : pkt.oldest <= y
    BY <1>1 DEF Readable, Upto
  <2>6. /\ Core(n, top) /\ Richer(n, e)
        /\ \E r \in n.rows : \E y \in pkt.vec : y <= Pivot(r)
    BY <2>3, <2>5, AddCodedOk
  <2> HIDE DEF n
  <2>7. Onward(e, n) /\ n.oldest_id = pkt.oldest
    BY <2>3, <2>4, <2>6, RicherOn
  <2>8. Onward(d, n)
    BY <2>1, <2>3, <2>4, <2>6, <2>7, OnwardTrans
  <2>9. SeenOutdated(n)
    <3>1. \A x \in Upto(pkt.oldest) : Seen(d, x) /\ x \in Nat
      BY <1>1 DEF Readable, Upto
    <3> QED
      BY <2>7, <2>8, <3>1 DEF SeenOutdated, Onward
  <2>10. HasRow(n)
    <3>1. PICK r \in n.rows : \E y \in pkt.vec : y <= Pivot(r)
      BY <2>6
    <3>2. PICK y \in pkt.vec : y <= Pivot(r)
      BY <3>1
    <3>3. Pivot(r) \in Nat
      BY <2>6, PivotNumbers
    <3>4. pkt.oldest <= Pivot(r)
      BY <1>0, <2>5, <3>2, <3>3
    <3> QED
      BY <2>7, <3>4 DEF HasRow
  <2> QED
    BY <1>1, <2>6, <2>8, <2>9, <2>10 DEF n, e, m
<1>2. CASE ~pkt.repair
  <2> DEFINE n == TetrysInsertSource(d, pkt.oldest)
  <2>1. Core(n, top) /\ Richer(n, d) /\ pkt.oldest \in TetrysPivots(n)
    BY <1>0, InsertSourceOk
  <2> HIDE DEF n
  <2>2. Onward(d, n) /\ n.oldest_id = d.oldest_id
    BY <2>1, RicherOn
  <2>3. SeenOutdated(n)
    <3>1. Upto(d.oldest_id) \subseteq Nat
      BY CoreNumbers DEF Upto
    <3> QED
      BY <2>2, <3>1 DEF SeenOutdated, Onward
  <2>4. HasRow(n)
    <3>1. \E p \in TetrysPivots(n) : d.oldest_id <= p
      <4>1. CASE HasRow(d)
        BY <2>1, <4>1 DEF HasRow, Richer, TetrysPivots
      <4>2. CASE d.oldest_id = 0
        BY <1>0, <2>1, <4>2
      <4> QED
        BY <4>1, <4>2 DEF Held
    <3> QED
      BY <2>2, <3>1 DEF HasRow, TetrysPivots
  <2> QED
    BY <1>2, <2>1, <2>2, <2>3, <2>4 DEF n
<1> QED
  BY <1>1, <1>2

LEMMA TetrysPutCodedOk ==
  ASSUME NEW top \in Nat, NEW d, Core(d, top), SeenOutdated(d), Held(d), opt.window \in Nat,
         NEW pkt, Readable(pkt, d, top)
  PROVE  LET n == TetrysDecPutCoded(d, pkt)
         IN Core(n, top) /\ Onward(d, n) /\ SeenOutdated(n) /\ HasRow(n)
<1> DEFINE m == IF pkt.repair
                THEN TetrysAddCoded(TetrysEvict([d EXCEPT !.oldest_id = pkt.oldest]), pkt.vec)
                ELSE TetrysInsertSource(d, pkt.oldest)
           h == [m EXCEPT !.has_feedback = TRUE]
           n == TetrysDecPutCoded(d, pkt)
<1>1. Core(m, top) /\ Onward(d, m) /\ SeenOutdated(m) /\ HasRow(m)
  BY TetrysReadOk
<1>2. n = TetrysSourceReady(h)
  BY DEF TetrysDecPutCoded
<1> HIDE DEF m, n
<1>3. h = With(m, m.oldest_id, TRUE)
  BY <1>1 DEF Core, Elastics, With
<1>4. m.oldest_id \in 0 .. top
  BY <1>1 DEF Core, Elastics
<1> HIDE DEF h
<1>5. /\ Core(h, top) /\ Onward(m, h) /\ h.rows = m.rows /\ h.oldest_id = m.oldest_id
      /\ h.next_id = m.next_id
  <2> DEFINE f == TRUE
  <2>1. f \in BOOLEAN /\ h = With(m, m.oldest_id, f)
    BY <1>3
  <2> HIDE DEF f
  <2> QED
    BY <1>1, <1>4, <2>1, CoreWith
<1>6. SeenOutdated(h) /\ HasRow(h)
  BY <1>1, <1>5 DEF SeenOutdated, HasRow, Seen, TetrysPivots
<1>7. Core(n, top) /\ SeenOutdated(n) /\ Handing(h, n)
  BY <1>2, <1>5, <1>6, TetrysReadyOk
<1>8. Onward(d, n)
  <2>1. Onward(h, n)
    BY <1>7 DEF Handing
  <2>2. Onward(d, h)
    BY <1>1, <1>5, OnwardTrans
  <2> QED
    BY <1>5, <1>7, <2>1, <2>2, OnwardTrans
<1>9. HasRow(n)
  BY <1>6, <1>7 DEF Handing, HasRow
<1> QED
  BY <1>7, <1>8, <1>9 DEF n
-----------------------------------------------------------------------------
(* Feedback: what a list of missing numbers says was seen.                 *)
Claims(missing) == {x \in Nat : x < Max(missing) /\ x \notin missing}

LEMMA TopOf ==
  ASSUME NEW top \in Nat, NEW S \in SUBSET Upto(top), S # {}
  PROVE  \E m \in S : \A x \in S : x <= m
<1> DEFINE U == {u \in Nat : \A x \in S : x <= u}
           m == Min(U)
<1>1. S \in SUBSET Nat /\ \A x \in S : x <= top
  BY DEF Upto
<1>2. top \in U /\ U \in SUBSET Nat
  BY <1>1
<1>3. m \in U /\ \A u \in U : m <= u
  <2> HIDE DEF U
  <2> QED
    BY <1>2, MinProperty
<1>4. m \in Nat /\ \A x \in S : x <= m
  BY <1>3
<1> HIDE DEF m
<1>5. m \in S
  <2> SUFFICES ASSUME m \notin S PROVE FALSE
    OBVIOUS
  <2>1. \A x \in S : x <= m - 1
    BY <1>1, <1>4
  <2>2. m - 1 \in Nat
    <3>1. PICK x \in S : x <= m - 1
      BY <2>1
    <3>2. x \in Nat
      BY <1>1
    <3> QED
      BY <1>4, <3>1, <3>2
  <2>3. m <= m - 1
    BY <1>3, <2>1, <2>2
  <2> QED
    BY <1>4, <2>3
<1> QED
  BY <1>4, <1>5

LEMMA MaxIs ==
  ASSUME NEW S \in SUBSET Int, NEW m \in S, \A x \in S : x <= m
  PROVE  Max(S) = m
<1>1. \A x \in S : x \in Int /\ m \in Int /\ m >= x
  OBVIOUS
<1>2. \A x \in S : (\A y \in S : x >= y) => x = m
  BY <1>1
<1> QED
  BY <1>1, <1>2 DEF Max

LEMMA MissingIs ==
  ASSUME NEW top \in Nat, NEW d, Core(d, top), d.rows # {}
  PROVE  \E m \in 0 .. top :
           /\ TetrysMissing(d) = (d.next_id .. m) \ TetrysPivots(d)
           /\ m \in TetrysMissing(d)
<1> DEFINE P == TetrysPivots(d)
           S == P \cup {d.next_id - 1}
<1>1. P \in SUBSET Upto(top) /\ P # {} /\ P \in SUBSET Nat /\ \A x \in P : x <= top - 1
  <2>1. P \in SUBSET Upto(top) /\ P # {}
    BY RowFacts DEF TetrysPivots
  <2> HIDE DEF P
  <2> QED
    BY <2>1 DEF Upto
<1>2. d.next_id \in Nat /\ d.next_id <= top
  BY CoreNumbers
<1> HIDE DEF P
<1>3. PICK p \in P : \A x \in P : x <= p
  BY <1>1, TopOf
<1> DEFINE last == IF p < d.next_id - 1 THEN d.next_id - 1 ELSE p
<1>4. p \in Nat /\ p <= top - 1
  BY <1>1, <1>3
<1>5. last \in S /\ S \in SUBSET Int /\ \A x \in S : x <= last
  <2>1. last \in {p, d.next_id - 1} /\ p <= last /\ d.next_id - 1 <= last /\ last \in Int
    BY <1>2, <1>4
  <2> HIDE DEF last
  <2>2. \A x \in P : x \in Nat /\ x <= p
    BY <1>1, <1>3
  <2>3. last \in S /\ S \in SUBSET Int
    <3>1. last \in S
      BY <1>3, <2>1
    <3>2. d.next_id - 1 \in Int /\ P \in SUBSET Int
      BY <1>1, <1>2
    <3> QED
      BY <3>1, <3>2
  <2>4. \A x \in P : x <= last
    BY <1>4, <2>1, <2>2
  <2> QED
    BY <2>1, <2>3, <2>4
<1>6. Max(S) = last
  <2> HIDE DEF last, S
  <2> QED
    BY <1>5, MaxIs
<1>7. TetrysMissing(d) = (d.next_id .. last + 1) \ P
  BY <1>6 DEF TetrysMissing, P
<1>8. last + 1 \in 0 .. top /\ d.next_id <= last + 1 /\ last \in Int
  BY <1>2, <1>4
<1> HIDE DEF last
<1>9. last + 1 \notin P
  BY <1>5, <1>8
<1>10. last + 1 \in TetrysMissing(d)
  BY <1>2, <1>7, <1>8, <1>9
<1> QED
  BY <1>7, <1>8, <1>10 DEF P

LEMMA TetrysMissingOk ==
  ASSUME NEW top \in Nat, NEW d, Core(d, top), d.rows # {}
  PROVE  LET M == TetrysMissing(d)
         IN /\ M \in SUBSET (0 .. top) /\ Max(M) \in M /\ M \ {Max(M)} \in SUBSET Upto(top)
            /\ \A x \in Claims(M) : Seen(d, x)
            /\ \A x \in M : ~Seen(d, x)
<1> DEFINE M == TetrysMissing(d)
           P == TetrysPivots(d)
<1>1. PICK m \in 0 .. top : M = (d.next_id .. m) \ P /\ m \in M
  BY MissingIs
<1>2. d.next_id \in Nat /\ m \in Nat /\ m <= top
  BY CoreNumbers
<1> HIDE DEF M, P
<1>3. M \in SUBSET Nat /\ \A x \in M : x <= m
  BY <1>1, <1>2
<1>4. Max(M) = m
  BY <1>1, <1>3, MaxProperty
<1>5. M \in SUBSET (0 .. top) /\ M \ {m} \in SUBSET Upto(top)
  BY <1>2, <1>3 DEF Upto
<1>6. \A x \in Claims(M) : Seen(d, x)
  <2> SUFFICES ASSUME NEW x \in Nat, x < m, x \notin M PROVE x < d.next_id \/ x \in P
    BY <1>4 DEF Claims, Seen, P
  <2> QED
    BY <1>1, <1>2
<1>7. \A x \in M : ~Seen(d, x)
  BY <1>1, <1>2 DEF Seen, P
<1> QED
  BY <1>1, <1>4, <1>5, <1>6, <1>7 DEF M

(* nck_tetrys_dec_get_feedback: a decoder misses at most what the encoder  *)
(* keeps, and the number after the last one it has.                        *)
LEMMA TetrysFeedbackOk ==
  ASSUME NEW top \in Nat, NEW d, Core(d, top), SeenOutdated(d), Held(d), d.has_feedback,
         NEW window \in SUBSET Upto(top), opt.window \in Nat,
         Cardinality(window) <= opt.window,
         \A x \in Upto(top) \ window : Seen(d, x)
  PROVE  LET n == TetrysDecGetFeedback(d)
         IN Core(n, top) /\ Onward(d, n) /\ SeenOutdated(n) /\ HasRow(n)
<1> DEFINE M == TetrysMissing(d)
           m == Max(M)
           n == TetrysDecGetFeedback(d)
<1>1. HasRow(d) /\ d.rows # {}
  BY DEF Held, HasRow
<1>2. /\ M \in SUBSET (0 .. top) /\ m \in M /\ M \ {m} \in SUBSET Upto(top)
      /\ \A x \in M : ~Seen(d, x)
  BY <1>1, TetrysMissingOk
<1>3. M \ {m} \in SUBSET window
  <2> HIDE DEF M, m
  <2> QED
    BY <1>2
<1>4. Cardinality(M) <= opt.window + 1
  <2>1. IsFiniteSet(Upto(top))
    BY FS_Interval DEF Upto
  <2>2. IsFiniteSet(window) /\ Cardinality(window) \in Nat
    BY <2>1, FS_Subset, FS_CardinalityType
  <2> HIDE DEF M, m
  <2>3. IsFiniteSet(M \ {m}) /\ Cardinality(M \ {m}) <= Cardinality(window)
        /\ Cardinality(M \ {m}) \in Nat
    BY <1>3, <2>2, FS_Subset, FS_CardinalityType
  <2>4. (M \ {m}) \cup {m} = M /\ m \notin M \ {m}
    BY <1>2
  <2>5. Cardinality(M) = Cardinality(M \ {m}) + 1
    BY <2>3, <2>4, FS_AddElement
  <2> QED
    BY <2>2, <2>3, <2>5
<1>5. d.max_window_size = opt.window /\ d.failed = FALSE
  BY CoreFields
<1>6. n = With(d, d.oldest_id, FALSE)
  <2>1. ~ (Cardinality(M) > d.max_window_size + 1)
    <3>1. Cardinality(M) \in Nat
      <4>1. IsFiniteSet(0 .. top)
        BY FS_Interval
      <4> HIDE DEF M
      <4> QED
        BY <1>2, <4>1, FS_Subset, FS_CardinalityType
    <3> HIDE DEF M
    <3> QED
      BY <1>4, <1>5, <3>1
  <2>2. n = [d EXCEPT !.has_feedback = FALSE, !.failed = FALSE]
    BY <1>5, <2>1 DEF TetrysDecGetFeedback
  <2> HIDE DEF n
  <2> QED
    BY <2>2 DEF With, Core, Elastics
<1> HIDE DEF n
<1>7. Core(n, top) /\ Onward(d, n) /\ n.rows = d.rows /\ n.next_id = d.next_id
      /\ n.oldest_id = d.oldest_id
  <2> DEFINE f == FALSE
  <2>1. f \in BOOLEAN /\ n = With(d, d.oldest_id, f) /\ d.oldest_id \in 0 .. top
    BY <1>6 DEF Core, Elastics
  <2> HIDE DEF f
  <2> QED
    BY <2>1, CoreWith
<1>8. SeenOutdated(n) /\ HasRow(n)
  BY <1>1, <1>7 DEF SeenOutdated, HasRow, Seen, TetrysPivots
<1> QED
  BY <1>7, <1>8 DEF n
-----------------------------------------------------------------------------
(* The encoder.                                                            *)
EncoderFields == {"protocol", "window", "max_window_size", "source_id", "next", "rc", "timer",
                  "timeout", "zero", "failed"}

ElasticEnc(e) ==
  /\ DOMAIN e = EncoderFields /\ e.protocol = "tetrys"
  /\ e.source_id \in Nat /\ e.window \in SUBSET Upto(e.source_id)
  /\ e.max_window_size = opt.window /\ Cardinality(e.window) <= opt.window
  /\ e.next = e.source_id \/ e.next \in e.window
  /\ e.zero = FALSE /\ e.failed = FALSE

Unmoved(e, n) == n.source_id = e.source_id /\ n.window = e.window

LEMMA ElasticWindow ==
  ASSUME NEW e, ElasticEnc(e)
  PROVE  /\ IsFiniteSet(e.window) /\ Cardinality(e.window) \in Nat
         /\ e.window \in SUBSET Nat /\ e.source_id \notin e.window
         /\ \A x \in e.window : x < e.source_id
<1>1. IsFiniteSet(Upto(e.source_id))
  BY FS_Interval DEF ElasticEnc, Upto
<1>2. IsFiniteSet(e.window) /\ Cardinality(e.window) \in Nat
  BY <1>1, FS_Subset, FS_CardinalityType DEF ElasticEnc
<1>3. \A x \in Upto(e.source_id) : x \in Nat /\ x < e.source_id
  BY DEF ElasticEnc, Upto
<1>4. ~ (e.source_id < e.source_id)
  BY DEF ElasticEnc
<1> QED
  BY <1>2, <1>3, <1>4 DEF ElasticEnc

(* nck_tetrys_enc_put_source: nothing has to leave an encoder that is not  *)
(* full.                                                                   *)
LEMMA ElasticPut ==
  ASSUME NEW e, ElasticEnc(e), ~TetrysEncFull(e), opt.window \in Nat
  PROVE  LET n == TetrysEncPutSource(e)
         IN ElasticEnc(n) /\ n.source_id = e.source_id + 1
            /\ n.window = e.window \cup {e.source_id}
<1> DEFINE id == e.source_id
           all == e.window \cup {id}
           n == TetrysEncPutSource(e)
<1>1. /\ IsFiniteSet(e.window) /\ Cardinality(e.window) \in Nat /\ id \notin e.window
      /\ e.window \in SUBSET Upto(id) /\ id \in Nat /\ e.max_window_size = opt.window
      /\ e.next = id \/ e.next \in e.window
  BY ElasticWindow DEF ElasticEnc
<1>2. Cardinality(all) = Cardinality(e.window) + 1
  BY <1>1, FS_AddElement
<1>3. ~ (Cardinality(e.window) >= opt.window)
  BY <1>1 DEF TetrysEncFull
<1>4. ~ (Cardinality(all) > opt.window) /\ Cardinality(all) <= opt.window
  <2> HIDE DEF all
  <2> QED
    BY <1>1, <1>2, <1>3
<1>5. n = [e EXCEPT !.source_id = id + 1, !.window = all \ {}, !.timer = FALSE,
                    !.next = IF e.next \in {} THEN TetrysFollowing(all, e.next, id + 1)
                             ELSE e.next]
  BY <1>1, <1>4 DEF TetrysEncPutSource
<1>6. n = [e EXCEPT !.source_id = id + 1, !.window = all, !.timer = FALSE, !.next = e.next]
  <2>1. all \ {} = all
    OBVIOUS
  <2> HIDE DEF n
  <2> QED
    BY <1>5, <2>1
<1> HIDE DEF n
<1>7. /\ n.source_id = id + 1 /\ n.window = all /\ n.next = e.next /\ DOMAIN n = EncoderFields
      /\ n.protocol = "tetrys" /\ n.max_window_size = opt.window
      /\ n.zero = FALSE /\ n.failed = FALSE
  BY <1>6 DEF ElasticEnc, EncoderFields
<1>8. all \in SUBSET Upto(id + 1)
  BY <1>1 DEF Upto
<1> QED
  BY <1>1, <1>4, <1>7, <1>8 DEF ElasticEnc, n

LEMMA ElasticFollowing ==
  ASSUME NEW e, ElasticEnc(e), NEW id
  PROVE  LET next == TetrysFollowing(e.window, id, e.source_id)
         IN next = e.source_id \/ next \in e.window
<1> DEFINE later == {j \in e.window : j > id}
<1>1. later \in SUBSET Nat /\ later \subseteq e.window
  BY ElasticWindow
<1>2. CASE later = {}
  BY <1>2 DEF TetrysFollowing
<1>3. CASE later # {}
  <2>1. TetrysFollowing(e.window, id, e.source_id) = Min(later)
    BY <1>3 DEF TetrysFollowing
  <2> HIDE DEF later
  <2> QED
    BY <1>1, <1>3, <2>1, MinProperty
<1> QED
  BY <1>2, <1>3

LEMMA ElasticGetCoded ==
  ASSUME NEW e, ElasticEnc(e)
  PROVE  LET n == TetrysEncGetCoded(e) IN ElasticEnc(n) /\ Unmoved(e, n)
<1> DEFINE rc == Step(e.rc)
           next == IF TetrysEncRepair(e) THEN e.next
                   ELSE TetrysFollowing(e.window, e.next, e.source_id)
           s == [e EXCEPT !.rc = rc, !.next = next]
           timer == s.timer \/ (e.timeout /\ ~TetrysEncHasCoded(s))
           n == TetrysEncGetCoded(e)
<1>1. next = e.source_id \/ next \in e.window
  BY ElasticFollowing DEF ElasticEnc
<1>2. n = [s EXCEPT !.timer = timer]
  BY DEF TetrysEncGetCoded
<1> HIDE DEF rc, next, timer, n
<1>3. /\ n.source_id = e.source_id /\ n.window = e.window /\ n.next = next
      /\ DOMAIN n = EncoderFields
      /\ n.protocol = "tetrys" /\ n.max_window_size = opt.window
      /\ n.zero = FALSE /\ n.failed = FALSE
  BY <1>2 DEF ElasticEnc, EncoderFields
<1>4. /\ e.source_id \in Nat /\ e.window \in SUBSET Upto(e.source_id)
      /\ Cardinality(e.window) <= opt.window
  BY DEF ElasticEnc
<1>5. ElasticEnc(n) /\ Unmoved(e, n)
  BY <1>1, <1>3, <1>4 DEF ElasticEnc, Unmoved
<1> QED
  BY <1>5 DEF n

(* What a packet of the encoder may name.                                  *)
Vectored(p, e) ==
  /\ p.oldest \in Upto(e.source_id)
  /\ p.repair => /\ p.vec # {} /\ p.vec \in SUBSET Upto(e.source_id)
                 /\ \A y \in p.vec : p.oldest <= y
                 /\ Upto(p.oldest) \subseteq Gone(e)

ElasticPackets == [repair : BOOLEAN, oldest : Nat, vec : SUBSET Nat]

LEMMA ElasticPacketsOk ==
  ASSUME NEW e, ElasticEnc(e), TetrysEncHasCoded(e), NEW p \in TetrysEncPackets(e)
  PROVE  p \in ElasticPackets /\ Vectored(p, e)
<1>0. /\ e.window # {} /\ e.window \in SUBSET Nat /\ e.window \in SUBSET Upto(e.source_id)
      /\ e.source_id \in Nat /\ e.zero = FALSE
  BY ElasticWindow DEF TetrysEncHasCoded, ElasticEnc
<1>1. CASE TetrysEncRepair(e)
  <2> DEFINE m == Min(e.window)
  <2>1. m \in e.window /\ \A y \in e.window : m <= y
    BY <1>0, MinProperty
  <2>2. PICK v \in SUBSET e.window : v # {} /\ p = [repair |-> TRUE, oldest |-> m, vec |-> v]
    BY <1>0, <1>1 DEF TetrysEncPackets
  <2> HIDE DEF m
  <2>3. p.repair = TRUE /\ p.oldest = m /\ p.vec = v /\ p \in ElasticPackets
    BY <1>0, <2>1, <2>2 DEF ElasticPackets
  <2>4. Upto(m) \subseteq Gone(e)
    <3> SUFFICES ASSUME NEW x \in Upto(m) PROVE x \in Upto(e.source_id) /\ x \notin e.window
      BY DEF Gone
    <3>1. m \in Nat /\ m < e.source_id /\ x \in Nat /\ x < m
      BY <1>0, <2>1 DEF Upto
    <3> QED
      BY <1>0, <2>1, <3>1 DEF Upto
  <2> QED
    BY <1>0, <2>1, <2>2, <2>3, <2>4 DEF Vectored
<1>2. CASE ~TetrysEncRepair(e)
  <2>1. p = [repair |-> FALSE, oldest |-> e.next, vec |-> {e.next}]
    BY <1>2 DEF TetrysEncPackets
  <2>2. e.next \in e.window
    BY <1>2 DEF TetrysEncRepair, ElasticEnc
  <2>3. p.repair = FALSE /\ p.oldest = e.next /\ p \in ElasticPackets
    BY <1>0, <2>1, <2>2 DEF ElasticPackets
  <2> QED
    BY <1>0, <2>2, <2>3 DEF Vectored
<1> QED
  BY <1>1, <1>2

(* nck_tetrys_enc_flush_coded and the timer                                *)
LEMMA ElasticFlush ==
  ASSUME NEW e, ElasticEnc(e)
  PROVE  LET n == TetrysEncFlush(e) IN ElasticEnc(n) /\ Unmoved(e, n)
<1> DEFINE n == TetrysEncFlush(e)
           rc == DualReset(e.rc, TRUE, Cardinality(e.window))
<1>1. n = e \/ n = [e EXCEPT !.rc = rc]
  BY DEF TetrysEncFlush
<1> HIDE DEF n, rc
<1>2. /\ n.source_id = e.source_id /\ n.window = e.window /\ n.next = e.next
      /\ DOMAIN n = EncoderFields /\ n.protocol = "tetrys" /\ n.max_window_size = opt.window
      /\ n.zero = FALSE /\ n.failed = FALSE
  BY <1>1 DEF ElasticEnc, EncoderFields
<1>3. ElasticEnc(n) /\ Unmoved(e, n)
  BY <1>2 DEF ElasticEnc, Unmoved
<1> QED
  BY <1>3 DEF n

LEMMA ElasticTimeout ==
  ASSUME NEW e, ElasticEnc(e)
  PROVE  LET n == TetrysEncTimeout(e) IN ElasticEnc(n) /\ Unmoved(e, n)
<1> DEFINE m == [e EXCEPT !.timer = FALSE]
<1>1. ElasticEnc(m) /\ Unmoved(e, m)
  BY DEF ElasticEnc, EncoderFields, Unmoved
<1> HIDE DEF m
<1>2. ElasticEnc(TetrysEncFlush(m)) /\ Unmoved(m, TetrysEncFlush(m))
  BY <1>1, ElasticFlush
<1> QED
  BY <1>1, <1>2 DEF Unmoved, TetrysEncTimeout, m

(* nck_tetrys_enc_put_feedback, of feedback that names no number it has    *)
(* let go.                                                                 *)
LEMMA ElasticPutFeedback ==
  ASSUME NEW e, ElasticEnc(e), NEW missing \in SUBSET Nat, missing \cap Gone(e) = {},
         opt.window \in Nat
  PROVE  LET n == TetrysEncPutFeedback(e, missing)
         IN ElasticEnc(n) /\ n.source_id = e.source_id
            /\ n.window = e.window \ Claims(missing)
<1> DEFINE seen == TetrysSeen(e, missing)
           next == IF e.next \in seen THEN e.source_id ELSE e.next
           timer == e.timeout /\ e.window # seen
           n == TetrysEncPutFeedback(e, missing)
<1>0. /\ e.window \in SUBSET Nat /\ e.window \in SUBSET Upto(e.source_id) /\ e.source_id \in Nat
      /\ e.failed = FALSE /\ IsFiniteSet(e.window) /\ Cardinality(e.window) \in Nat
  BY ElasticWindow DEF ElasticEnc
<1>1. e.window \ seen = e.window \ Claims(missing)
  BY <1>0 DEF TetrysSeen, Claims
<1>2. ~ \E m \in missing \ e.window, id \in e.window : id > m
  <2> SUFFICES ASSUME NEW m \in missing, m \notin e.window, NEW id \in e.window, id > m
               PROVE  FALSE
    OBVIOUS
  <2>1. m \in Nat /\ id \in Nat /\ id < e.source_id
    BY <1>0 DEF Upto
  <2>2. m \in Upto(e.source_id)
    BY <1>0, <2>1 DEF Upto
  <2> QED
    BY <2>2 DEF Gone
<1>3. n = [e EXCEPT !.window = e.window \ seen, !.next = next, !.timer = timer, !.failed = FALSE]
  BY <1>0, <1>2 DEF TetrysEncPutFeedback
<1> HIDE DEF n, timer, seen, next
<1>4. /\ n.source_id = e.source_id /\ n.window = e.window \ seen /\ n.next = next
      /\ DOMAIN n = EncoderFields /\ n.protocol = "tetrys" /\ n.max_window_size = opt.window
      /\ n.zero = FALSE /\ n.failed = FALSE
  BY <1>3 DEF ElasticEnc, EncoderFields
<1>5. next = e.source_id \/ next \in e.window \ seen
  BY DEF ElasticEnc, next
<1>6. Cardinality(n.window) <= opt.window
  <2>1. Cardinality(e.window \ seen) <= Cardinality(e.window) /\ IsFiniteSet(e.window \ seen)
    BY <1>0, FS_Subset
  <2>2. Cardinality(e.window \ seen) \in Nat
    BY <2>1, FS_CardinalityType
  <2>3. Cardinality(e.window) <= opt.window
    BY DEF ElasticEnc
  <2> QED
    BY <1>0, <1>4, <2>1, <2>2, <2>3
<1> QED
  BY <1>0, <1>1, <1>4, <1>5, <1>6 DEF ElasticEnc, n
-----------------------------------------------------------------------------
(* The invariant of Tetrys' network.  What the encoder has let go the      *)
(* decoder has seen; packets name what the encoder has and begin after     *)
(* what it has let go; a report claims what the decoder has seen, names    *)
(* nothing that is gone, and no later report takes back what it claims.    *)
ReportsOk(b, d, e) ==
  /\ b \in Seq(SUBSET Nat)
  /\ \A i \in DOMAIN b : /\ b[i] \cap Gone(e) = {}
                         /\ \A x \in Claims(b[i]) : Seen(d, x)
  /\ \A i, j \in DOMAIN b : i < j => Claims(b[i]) \cap b[j] = {}

Numbers(slots, top) ==
  /\ slots \in Seq({1} \X Nat) /\ Len(slots) = top
  /\ \A i \in 1 .. top : slots[i] = <<1, i - 1>>

Holds(d, top) == Core(d, top) /\ SeenOutdated(d) /\ Held(d)

Fits(d, e) == \A x \in Gone(e) : Seen(d, x)

Pipe(path, e) ==
  path \in Seq(ElasticPackets) /\ \A p \in Range(path) : Vectored(p, e)

ElasticInv ==
  /\ ElasticEnc(enc) /\ Holds(dec, enc.source_id) /\ Fits(dec, enc)
  /\ Numbers(sent, enc.source_id)
  /\ Pipe(down, enc) /\ ReportsOk(back, dec, enc)
  /\ air = <<>> /\ echo = <<>>

LEMMA GoneGrows ==
  ASSUME NEW e, ElasticEnc(e), NEW n, ElasticEnc(n),
         e.source_id <= n.source_id, n.window \subseteq e.window \cup {e.source_id}
  PROVE  Gone(e) \subseteq Gone(n) /\ Upto(e.source_id) \subseteq Upto(n.source_id)
<1>1. e.source_id \in Nat /\ n.source_id \in Nat
  BY DEF ElasticEnc
<1>2. Upto(e.source_id) \subseteq Upto(n.source_id) /\ e.source_id \notin Upto(e.source_id)
  BY <1>1 DEF Upto
<1> QED
  BY <1>2 DEF Gone

LEMMA PipeOn ==
  ASSUME NEW e, ElasticEnc(e), NEW n, ElasticEnc(n),
         e.source_id <= n.source_id, n.window \subseteq e.window \cup {e.source_id},
         NEW path, Pipe(path, e)
  PROVE  Pipe(path, n)
BY GoneGrows DEF Pipe, Vectored

LEMMA GoneNumbers ==
  ASSUME NEW e, ElasticEnc(e)
  PROVE  Gone(e) \in SUBSET Nat
BY DEF ElasticEnc, Gone, Upto

LEMMA ReportsOn ==
  ASSUME NEW b, NEW d, NEW e, ReportsOk(b, d, e), NEW n, Onward(d, n)
  PROVE  ReportsOk(b, n, e)
<1>1. \A m : Claims(m) \subseteq Nat
  BY DEF Claims
<1> QED
  BY <1>1 DEF ReportsOk, Onward

(* A decoder after a call of it.                                           *)
DecOn(d, n, top) == n = d \/ (Holds(n, top) /\ Onward(d, n))

LEMMA ElasticKeeps ==
  ASSUME ElasticInv, opt' = opt, sent' = sent, ElasticEnc(enc'), Unmoved(enc, enc'),
         DecOn(dec, dec', enc.source_id),
         down' \in Seq(ElasticPackets), \A p \in Range(down') : Vectored(p, enc),
         ReportsOk(back', dec', enc), air' = <<>>, echo' = <<>>
  PROVE  ElasticInv'
<1>1. ElasticEnc(enc) /\ enc.source_id \in Nat
  BY DEF ElasticInv, ElasticEnc
<1>2. ElasticEnc(enc)'
  BY DEF ElasticEnc
<1>3. Gone(enc') = Gone(enc) /\ enc'.source_id = enc.source_id
  BY DEF Gone, Unmoved
<1>4. Holds(dec', enc'.source_id)
  BY <1>3 DEF DecOn, ElasticInv
<1>5. Holds(dec, enc.source_id)'
  BY <1>4 DEF Holds, Core, Elastics
<1>6. Fits(dec', enc')
  <2>1. Gone(enc) \in SUBSET Nat /\ \A x \in Gone(enc) : Seen(dec, x)
    BY <1>1, GoneNumbers DEF ElasticInv, Fits
  <2>2. \A x \in Gone(enc) : Seen(dec', x)
    BY <2>1 DEF DecOn, Onward
  <2> QED
    BY <1>3, <2>2 DEF Fits
<1>7. Numbers(sent', enc'.source_id)
  BY <1>3 DEF ElasticInv
<1>8. Pipe(down', enc')
  BY <1>3 DEF Pipe, Vectored
<1>9. ReportsOk(back', dec', enc')
  BY <1>3 DEF ReportsOk
<1> QED
  BY <1>2, <1>5, <1>6, <1>7, <1>8, <1>9 DEF ElasticInv

LEMMA ElasticFacts ==
  ASSUME ElasticInv
  PROVE  /\ enc.protocol = "tetrys" /\ dec.protocol = "tetrys" /\ enc.source_id \in Nat
         /\ ElasticEnc(enc) /\ Unmoved(enc, enc)
         /\ Core(dec, enc.source_id) /\ SeenOutdated(dec) /\ Held(dec)
         /\ Fits(dec, enc) /\ Numbers(sent, enc.source_id)
         /\ down \in Seq(ElasticPackets) /\ \A p \in Range(down) : Vectored(p, enc)
         /\ ReportsOk(back, dec, enc) /\ back \in Seq(SUBSET Nat)
         /\ air = <<>> /\ echo = <<>>
<1>1. /\ ElasticEnc(enc) /\ Holds(dec, enc.source_id) /\ Fits(dec, enc)
      /\ Numbers(sent, enc.source_id)
      /\ Pipe(down, enc) /\ ReportsOk(back, dec, enc) /\ air = <<>> /\ echo = <<>>
  BY DEF ElasticInv
<1>2. enc.source_id \in Nat /\ enc.protocol = "tetrys"
  BY <1>1 DEF ElasticEnc
<1>3. Core(dec, enc.source_id) /\ SeenOutdated(dec) /\ Held(dec)
  BY <1>1 DEF Holds
<1>4. dec.protocol = "tetrys"
  BY <1>2, <1>3, CoreFields
<1> QED
  BY <1>1, <1>2, <1>3, <1>4 DEF Pipe, ReportsOk, Unmoved

(* What a step does: the decoder goes on, symbols are put in or not, and   *)
(* the encoder lets go only of what the decoder has seen.                  *)
ElasticGoes ==
  /\ dec' = dec \/ (Core(dec', enc.source_id) /\ Onward(dec, dec'))
  /\ sent' = sent \/ (dec' = dec /\ sent' = Append(sent, <<1, enc.source_id>>))
  /\ \A x \in enc.window \ enc'.window : Seen(dec, x)

LEMMA ElasticGoesOn ==
  ASSUME ElasticInv, opt' = opt, sent' = sent, ElasticEnc(enc'), Unmoved(enc, enc'),
         DecOn(dec, dec', enc.source_id),
         down' \in Seq(ElasticPackets), \A p \in Range(down') : Vectored(p, enc),
         back' = back, air' = <<>>, echo' = <<>>
  PROVE  ElasticInv' /\ ElasticGoes
<1>1. ElasticInv'
  <2>1. ReportsOk(back', dec', enc)
    BY ReportsOn DEF DecOn, ElasticInv
  <2> QED
    BY <2>1, ElasticKeeps
<1>2. ElasticGoes
  BY DEF ElasticGoes, DecOn, Holds, Unmoved
<1> QED
  BY <1>1, <1>2

LEMMA ElasticStarts ==
  ASSUME Init, Elastic(opt)
  PROVE  ElasticInv
<1> DEFINE rc == DualInit(opt.window \div 2, 1)
<1>0. /\ opt.protocol = "tetrys" /\ opt.zero = FALSE /\ opt.window \in Nat
      /\ enc = NckEncStart(opt) /\ dec = NckDecStart(opt)
      /\ down = <<>> /\ air = <<>> /\ back = <<>> /\ echo = <<>> /\ sent = <<>>
  BY DEF Init, Elastic
<1>1. enc = TetrysEncStart(opt) /\ dec = TetrysDecStart(opt)
  BY <1>0 DEF NckEncStart, NckDecStart
<1>2. enc = [protocol |-> "tetrys", window |-> {}, max_window_size |-> opt.window, source_id |-> 0,
             next |-> 0, rc |-> rc, timer |-> FALSE,
             timeout |-> opt.timeout, zero |-> FALSE, failed |-> FALSE]
  BY <1>0, <1>1 DEF TetrysEncStart
<1> HIDE DEF rc
<1>3. Cardinality({}) = 0
  BY FS_EmptySet
<1>4. ElasticEnc(enc)
  BY <1>0, <1>2, <1>3 DEF ElasticEnc, EncoderFields
<1>5. enc.source_id = 0 /\ Upto(0) = {}
  BY <1>2 DEF Upto
<1>6. dec = [protocol |-> "tetrys", rows |-> {}, next |-> FALSE, next_id |-> 0, oldest_id |-> 0,
             max_window_size |-> opt.window, has_feedback |-> FALSE, read |-> <<>>,
             eager |-> opt.eager, failed |-> FALSE]
  BY <1>1 DEF TetrysDecStart
<1>7. Core(dec, 0)
  <2>1. dec \in Elastics(0)
    BY <1>6 DEF Elastics
  <2>2. HandedOut(dec)
    BY <1>6 DEF HandedOut
  <2> QED
    BY <1>6, <2>1, <2>2 DEF Core, Reduced
<1>8. SeenOutdated(dec) /\ Held(dec)
  BY <1>5, <1>6 DEF SeenOutdated, Held
<1>9. Fits(dec, enc)
  BY <1>5 DEF Fits, Gone
<1>10. Numbers(sent, 0)
  BY <1>0 DEF Numbers
<1>11. Pipe(down, enc)
  BY <1>0 DEF Pipe, Range
<1>12. ReportsOk(back, dec, enc)
  BY <1>0 DEF ReportsOk
<1> QED
  BY <1>0, <1>4, <1>5, <1>7, <1>8, <1>9, <1>10, <1>11, <1>12 DEF ElasticInv, Holds

LEMMA CoreGrows ==
  ASSUME NEW top \in Nat, NEW d, Core(d, top)
  PROVE  Core(d, top + 1)
<1>1. Upto(top) \subseteq Upto(top + 1) /\ 0 .. top \subseteq 0 .. top + 1
  BY DEF Upto
<1>2. d \in Elastics(top)
  BY DEF Core
<1>3. d \in Elastics(top + 1)
  BY <1>1, <1>2 DEF Elastics
<1> QED
  BY <1>3 DEF Core

LEMMA ElasticPutStep ==
  ASSUME ElasticInv, Elastic(opt), PutSource
  PROVE  ElasticInv' /\ ElasticGoes
<1> DEFINE top == enc.source_id
<1>0. /\ enc.protocol = "tetrys" /\ top \in Nat /\ ElasticEnc(enc)
      /\ Core(dec, top) /\ SeenOutdated(dec) /\ Held(dec) /\ Fits(dec, enc)
      /\ Numbers(sent, top) /\ ReportsOk(back, dec, enc) /\ air = <<>> /\ echo = <<>>
  BY ElasticFacts
<1>1. /\ ~NckEncFull(enc) /\ enc' = NckEncPutSource(enc) /\ sent' = Append(sent, NckEncSlot(enc'))
      /\ opt' = opt /\ dec' = dec /\ down' = down /\ back' = back /\ air' = air /\ echo' = echo
  BY DEF PutSource, paths
<1>2. ~TetrysEncFull(enc) /\ enc' = TetrysEncPutSource(enc)
  BY <1>0, <1>1 DEF NckEncFull, NckEncPutSource
<1>3. ElasticEnc(enc') /\ enc'.source_id = top + 1 /\ enc'.window = enc.window \cup {top}
  BY <1>0, <1>2, ElasticPut DEF Elastic
<1>4. ElasticEnc(enc)'
  BY <1>1, <1>3 DEF ElasticEnc
<1>5. Gone(enc') = Gone(enc)
  <2>1. Upto(top + 1) = Upto(top) \cup {top} /\ top \notin Upto(top)
    BY <1>0 DEF Upto
  <2> QED
    BY <1>3, <2>1 DEF Gone
<1>6. Holds(dec, enc.source_id)'
  <2>1. Core(dec, top + 1)
    BY <1>0, CoreGrows
  <2>2. Holds(dec', enc'.source_id)
    BY <1>0, <1>1, <1>3, <2>1 DEF Holds
  <2> QED
    BY <1>1, <2>2 DEF Holds, Core, Elastics
<1>7. Fits(dec', enc')
  BY <1>0, <1>1, <1>5 DEF Fits
<1>8. Numbers(sent', enc'.source_id) /\ sent' = Append(sent, <<1, top>>)
  <2>1. NckEncSlot(enc') = <<1, top>>
    <3>1. enc'.protocol = "tetrys" /\ enc'.source_id - 1 = top
      BY <1>0, <1>3 DEF ElasticEnc
    <3> QED
      BY <3>1 DEF NckEncSlot
  <2>2. sent \in Seq({1} \X Nat) /\ Len(sent) = top /\ \A i \in 1 .. top : sent[i] = <<1, i - 1>>
    BY <1>0 DEF Numbers
  <2>3. <<1, top>> \in {1} \X Nat
    BY <1>0
  <2>4. /\ Append(sent, <<1, top>>) \in Seq({1} \X Nat)
        /\ Len(Append(sent, <<1, top>>)) = Len(sent) + 1
        /\ \A i \in 1 .. Len(sent) : Append(sent, <<1, top>>)[i] = sent[i]
        /\ Append(sent, <<1, top>>)[Len(sent) + 1] = <<1, top>>
    BY <2>2, <2>3, RangeAppend
  <2> DEFINE more == Append(sent, <<1, top>>)
  <2> HIDE DEF more
  <2>5. \A i \in 1 .. top + 1 : more[i] = <<1, i - 1>>
    <3> SUFFICES ASSUME NEW i \in 1 .. top + 1 PROVE more[i] = <<1, i - 1>>
      OBVIOUS
    <3>1. i \in 1 .. top \/ (i = top + 1 /\ i - 1 = top)
      BY <1>0
    <3>2. CASE i \in 1 .. top
      BY <2>2, <2>4, <3>2 DEF more
    <3>3. CASE i = top + 1 /\ i - 1 = top
      BY <2>2, <2>4, <3>3 DEF more
    <3> QED
      BY <3>1, <3>2, <3>3
  <2>6. Numbers(more, top + 1)
    BY <2>2, <2>4, <2>5 DEF Numbers, more
  <2> QED
    BY <1>1, <1>3, <2>1, <2>6 DEF more
<1>9. Pipe(down', enc')
  <2>1. top <= enc'.source_id /\ enc'.window \subseteq enc.window \cup {top}
    BY <1>0, <1>3
  <2>2. Pipe(down, enc)
    BY DEF ElasticInv
  <2> QED
    BY <1>0, <1>1, <1>3, <2>1, <2>2, PipeOn
<1>10. ReportsOk(back', dec', enc')
  BY <1>0, <1>1, <1>5 DEF ReportsOk
<1>11. ElasticInv'
  BY <1>0, <1>1, <1>4, <1>6, <1>7, <1>8, <1>9, <1>10 DEF ElasticInv
<1>12. ElasticGoes
  BY <1>1, <1>3, <1>8 DEF ElasticGoes
<1> QED
  BY <1>11, <1>12

(* The steps that leave the encoder's window and the feedback alone.       *)
LEMMA ElasticPacketSteps ==
  ASSUME ElasticInv, Elastic(opt),
         \/ NckEncHasCoded(enc) /\ \E pkt \in NckEncPackets(enc) : SendCoded(pkt)
         \/ DecReceive
         \/ Lose
  PROVE  ElasticInv' /\ ElasticGoes
<1> DEFINE top == enc.source_id
<1>0. /\ enc.protocol = "tetrys" /\ dec.protocol = "tetrys" /\ top \in Nat /\ ElasticEnc(enc)
      /\ Unmoved(enc, enc) /\ Core(dec, top) /\ SeenOutdated(dec) /\ Held(dec) /\ Fits(dec, enc)
      /\ down \in Seq(ElasticPackets) /\ \A p \in Range(down) : Vectored(p, enc)
      /\ air = <<>> /\ echo = <<>>
  BY ElasticFacts
<1>1. opt.window \in Nat /\ ~opt.relay
  BY DEF Elastic
<1>2. ASSUME NckEncHasCoded(enc), NEW pkt \in NckEncPackets(enc), SendCoded(pkt)
      PROVE  ElasticInv' /\ ElasticGoes
  <2>1. /\ enc' = NckEncGetCoded(enc) /\ down' = Append(down, pkt)
        /\ opt' = opt /\ dec' = dec /\ air' = air /\ back' = back /\ echo' = echo /\ sent' = sent
    BY <1>2 DEF SendCoded
  <2>2. enc' = TetrysEncGetCoded(enc) /\ TetrysEncHasCoded(enc) /\ pkt \in TetrysEncPackets(enc)
    BY <1>0, <1>2, <2>1 DEF NckEncGetCoded, NckEncHasCoded, NckEncPackets
  <2>3. ElasticEnc(enc') /\ Unmoved(enc, enc')
    BY <1>0, <2>2, ElasticGetCoded
  <2>4. pkt \in ElasticPackets /\ Vectored(pkt, enc)
    BY <1>0, <2>2, ElasticPacketsOk
  <2>5. down' \in Seq(ElasticPackets) /\ Range(down') = Range(down) \cup {pkt}
    BY <1>0, <2>1, <2>4, RangeAppend
  <2>6. \A p \in Range(down') : Vectored(p, enc)
    BY <1>0, <2>4, <2>5
  <2>7. DecOn(dec, dec', top)
    BY <2>1 DEF DecOn
  <2> QED
    BY <1>0, <2>1, <2>3, <2>5, <2>6, <2>7, ElasticGoesOn
<1>3. CASE DecReceive
  <2>1. PICK i \in Heads(down) : Receive(down, i) /\ down' = RemoveAt(down, i) /\ air' = air
    BY <1>1, <1>3 DEF DecReceive
  <2>2. enc' = enc /\ opt' = opt /\ back' = back /\ echo' = echo /\ sent' = sent
    BY <1>3 DEF DecReceive
  <2>3. /\ down[i] \in Range(down) /\ down' \in Seq(ElasticPackets)
        /\ Range(down') \subseteq Range(down)
    BY <1>0, <2>1, PathDrop
  <2> DEFINE pkt == down[i]
  <2>4. Vectored(pkt, enc)
    BY <1>0, <2>3
  <2>5. Readable(pkt, dec, top)
    BY <1>0, <2>4 DEF Readable, Vectored, Fits
  <2>6. dec' = TetrysDecPutCoded(dec, pkt)
    <3>1. dec' \in NckDecPutCodeds(dec, pkt)
      BY <2>1 DEF Receive
    <3> QED
      BY <1>0, <3>1 DEF NckDecPutCodeds
  <2> HIDE DEF pkt
  <2>7. Core(dec', top) /\ Onward(dec, dec') /\ SeenOutdated(dec') /\ HasRow(dec')
    BY <1>0, <1>1, <2>5, <2>6, TetrysPutCodedOk
  <2>8. DecOn(dec, dec', top)
    BY <2>7 DEF DecOn, Holds, Held
  <2>9. ElasticEnc(enc') /\ Unmoved(enc, enc') /\ air' = <<>> /\ echo' = <<>>
    BY <1>0, <2>1, <2>2
  <2>10. \A p \in Range(down') : Vectored(p, enc)
    BY <1>0, <2>3
  <2> QED
    BY <2>2, <2>3, <2>8, <2>9, <2>10, ElasticGoesOn
<1>4. CASE Lose
  <2>1. down # <<>> /\ down' = Tail(down) /\ air' = air /\ echo' = echo
    BY <1>0, <1>4 DEF Lose
  <2>2. enc' = enc /\ dec' = dec /\ opt' = opt /\ back' = back /\ sent' = sent
    BY <1>4 DEF Lose, coders
  <2>3. down' \in Seq(ElasticPackets) /\ Range(down') \subseteq Range(down)
    BY <1>0, <2>1, RangeTail
  <2>4. ElasticEnc(enc') /\ Unmoved(enc, enc') /\ DecOn(dec, dec', top)
    BY <1>0, <2>2 DEF DecOn
  <2>5. \A p \in Range(down') : Vectored(p, enc)
    BY <1>0, <2>3
  <2>6. air' = <<>> /\ echo' = <<>>
    BY <1>0, <2>1
  <2> QED
    BY <2>2, <2>3, <2>4, <2>5, <2>6, ElasticGoesOn
<1> QED
  BY <1>2, <1>3, <1>4

LEMMA HeldOn ==
  ASSUME NEW d, NEW n, HasRow(d), Handing(d, n)
  PROVE  HasRow(n)
BY DEF HasRow, Handing

LEMMA ElasticCoderSteps ==
  ASSUME ElasticInv, Elastic(opt),
         \/ WriteOutput
         \/ EncTimer
         \/ RecTimer
         \/ DecTimer
         \/ FlushCoded
         \/ FlushSource
  PROVE  ElasticInv' /\ ElasticGoes
<1> DEFINE top == enc.source_id
<1>0. /\ enc.protocol = "tetrys" /\ dec.protocol = "tetrys" /\ top \in Nat /\ ElasticEnc(enc)
      /\ Unmoved(enc, enc) /\ Core(dec, top) /\ SeenOutdated(dec) /\ Held(dec)
      /\ down \in Seq(ElasticPackets) /\ \A p \in Range(down) : Vectored(p, enc)
      /\ air = <<>> /\ echo = <<>>
  BY ElasticFacts
<1>1. /\ opt' = opt /\ sent' = sent /\ down' = down /\ air' = air /\ back' = back /\ echo' = echo
  BY DEF WriteOutput, EncTimer, RecTimer, DecTimer, FlushCoded, FlushSource, paths
<1>2. /\ down' \in Seq(ElasticPackets) /\ (\A p \in Range(down') : Vectored(p, enc))
      /\ air' = <<>> /\ echo' = <<>>
  BY <1>0, <1>1
<1>3. SUFFICES ElasticEnc(enc') /\ Unmoved(enc, enc') /\ DecOn(dec, dec', top)
  BY <1>1, <1>2, ElasticGoesOn
<1>4. CASE WriteOutput
  <2>1. enc' = enc /\ NckDecHasSource(dec) /\ dec' = NckDecGetSource(dec)
    BY <1>4 DEF WriteOutput
  <2>2. TetrysDecHasSource(dec) /\ dec' = TetrysDecGetSource(dec)
    BY <1>0, <2>1 DEF NckDecHasSource, NckDecGetSource
  <2>3. Core(dec', top) /\ SeenOutdated(dec') /\ Handing(dec, dec')
    BY <1>0, <2>2, TetrysGetSourceOk
  <2>4. HasRow(dec)
    BY <1>0, <2>2 DEF TetrysDecHasSource, Held
  <2>5. HasRow(dec')
    BY <2>3, <2>4, HeldOn
  <2> QED
    BY <1>0, <2>1, <2>3, <2>5 DEF DecOn, Holds, Held, Handing
<1>5. CASE EncTimer
  <2>1. dec' = dec /\ enc' = TetrysEncTimeout(enc)
    BY <1>0, <1>5 DEF EncTimer, NckEncTimeout
  <2> QED
    BY <1>0, <2>1, ElasticTimeout DEF DecOn
<1>6. CASE RecTimer
  BY <1>0, <1>6 DEF RecTimer, DecOn
<1>7. CASE DecTimer
  BY <1>0, <1>7 DEF DecTimer, NckDecTimer
<1>8. CASE FlushCoded
  <2>1. dec' = dec /\ enc' = TetrysEncFlush(enc)
    BY <1>0, <1>8 DEF FlushCoded, NckEncFlushCoded
  <2> QED
    BY <1>0, <2>1, ElasticFlush DEF DecOn
<1>9. CASE FlushSource
  <2>1. enc' = enc /\ dec' = dec
    BY <1>0, <1>9 DEF FlushSource, NckDecFlushSource
  <2> QED
    BY <1>0, <2>1 DEF DecOn
<1> QED
  BY <1>4, <1>5, <1>6, <1>7, <1>8, <1>9

(* Feedback is sent ...                                                    *)
LEMMA ReportsAppend ==
  ASSUME NEW b, NEW d, NEW e, ReportsOk(b, d, e), NEW fb \in SUBSET Nat, fb \cap Gone(e) = {},
         \A x \in Claims(fb) : Seen(d, x), \A x \in fb : ~Seen(d, x)
  PROVE  ReportsOk(Append(b, fb), d, e)
<1> DEFINE c == Append(b, fb)
           n == Len(b)
<1>1. /\ b \in Seq(SUBSET Nat) /\ DOMAIN b = 1 .. n /\ n \in Nat
      /\ \A i \in 1 .. n : b[i] \cap Gone(e) = {} /\ \A x \in Claims(b[i]) : Seen(d, x)
      /\ \A i, j \in 1 .. n : i < j => Claims(b[i]) \cap b[j] = {}
  BY DEF ReportsOk
<1>2. /\ c \in Seq(SUBSET Nat) /\ Len(c) = n + 1
      /\ \A i \in 1 .. n : c[i] = b[i]
      /\ c[n + 1] = fb
  BY <1>1, RangeAppend
<1>3. DOMAIN c = 1 .. n + 1
  BY <1>2
<1> HIDE DEF c, n
<1>4. \A i \in 1 .. n + 1 : i \in 1 .. n \/ i = n + 1
  BY <1>1
<1>5. \A i \in 1 .. n + 1 : c[i] \cap Gone(e) = {} /\ \A x \in Claims(c[i]) : Seen(d, x)
  BY <1>1, <1>2, <1>4
<1>6. ASSUME NEW i \in 1 .. n + 1, NEW j \in 1 .. n + 1, i < j
      PROVE  Claims(c[i]) \cap c[j] = {}
  <2>1. i \in 1 .. n
    BY <1>1, <1>6
  <2>2. CASE j \in 1 .. n
    BY <1>1, <1>2, <1>6, <2>1, <2>2
  <2>3. CASE j = n + 1
    BY <1>1, <1>2, <2>1, <2>3
  <2> QED
    BY <1>4, <2>2, <2>3
<1>7. ReportsOk(c, d, e)
  BY <1>2, <1>3, <1>5, <1>6 DEF ReportsOk
<1> QED
  BY <1>7 DEF c

LEMMA ElasticSendFeedback ==
  ASSUME ElasticInv, Elastic(opt), SendFeedback
  PROVE  ElasticInv' /\ ElasticGoes
<1> DEFINE top == enc.source_id
           M == TetrysMissing(dec)
<1>0. /\ dec.protocol = "tetrys" /\ top \in Nat /\ ElasticEnc(enc)
      /\ Unmoved(enc, enc) /\ Core(dec, top) /\ SeenOutdated(dec) /\ Held(dec) /\ Fits(dec, enc)
      /\ down \in Seq(ElasticPackets) /\ (\A p \in Range(down) : Vectored(p, enc))
      /\ ReportsOk(back, dec, enc) /\ air = <<>> /\ echo = <<>>
  BY ElasticFacts
<1>1. /\ NckDecHasFeedback(dec) /\ dec' = NckDecGetFeedback(dec)
      /\ opt' = opt /\ enc' = enc /\ down' = down /\ air' = air /\ echo' = echo /\ sent' = sent
  BY DEF SendFeedback
<1>2. PICK fb \in NckDecFeedbacks(dec, 0 .. opt.source) : back' = Append(back, fb)
  BY DEF SendFeedback
<1>3. dec.has_feedback /\ dec' = TetrysDecGetFeedback(dec)
  BY <1>0, <1>1 DEF NckDecHasFeedback, NckDecGetFeedback
<1>4. dec.rows # {}
  BY <1>0, <1>3 DEF Held, HasRow
<1>5. fb = M
  BY <1>0, <1>2, <1>4 DEF NckDecFeedbacks, TetrysFeedbacks
<1>6. /\ M \in SUBSET (0 .. top) /\ (\A x \in Claims(M) : Seen(dec, x))
      /\ \A x \in M : ~Seen(dec, x)
  BY <1>0, <1>4, TetrysMissingOk
<1> HIDE DEF M
<1>7. M \in SUBSET Nat /\ M \cap Gone(enc) = {}
  <2>1. M \in SUBSET Nat
    BY <1>0, <1>6
  <2>2. \A x \in Gone(enc) : Seen(dec, x)
    BY <1>0 DEF Fits
  <2>3. M \cap Gone(enc) = {}
    BY <1>6, <2>2
  <2> QED
    BY <2>1, <2>3
<1>8. ReportsOk(back', dec, enc)
  BY <1>0, <1>2, <1>5, <1>6, <1>7, ReportsAppend
<1>9. Core(dec', top) /\ Onward(dec, dec') /\ SeenOutdated(dec') /\ HasRow(dec')
  <2>1. /\ enc.window \in SUBSET Upto(top) /\ opt.window \in Nat
        /\ Cardinality(enc.window) <= opt.window
    BY <1>0 DEF ElasticEnc, Elastic
  <2>2. \A x \in Upto(top) \ enc.window : Seen(dec, x)
    BY <1>0 DEF Fits, Gone
  <2> HIDE DEF top
  <2> QED
    BY <1>0, <1>3, <2>1, <2>2, TetrysFeedbackOk
<1>10. ReportsOk(back', dec', enc)
  BY <1>8, <1>9, ReportsOn
<1>11. DecOn(dec, dec', top)
  BY <1>9 DEF DecOn, Holds, Held
<1>12. /\ ElasticEnc(enc') /\ Unmoved(enc, enc') /\ down' \in Seq(ElasticPackets)
       /\ (\A p \in Range(down') : Vectored(p, enc)) /\ air' = <<>> /\ echo' = <<>>
  BY <1>0, <1>1
<1>13. ElasticInv'
  BY <1>1, <1>10, <1>11, <1>12, ElasticKeeps
<1>14. ElasticGoes
  BY <1>1, <1>9 DEF ElasticGoes
<1> QED
  BY <1>13, <1>14

(* ... and reaches the encoder or not.                                     *)
LEMMA ReportsTail ==
  ASSUME NEW b, b # <<>>, NEW d, NEW e, ReportsOk(b, d, e),
         NEW n, Gone(n) \subseteq Gone(e) \cup Claims(Head(b))
  PROVE  ReportsOk(Tail(b), d, n)
<1> DEFINE c == Tail(b)
           m == Len(b) - 1
<1>1. /\ b \in Seq(SUBSET Nat) /\ DOMAIN b = 1 .. Len(b)
      /\ \A i \in DOMAIN b : b[i] \cap Gone(e) = {} /\ \A x \in Claims(b[i]) : Seen(d, x)
      /\ \A i, j \in DOMAIN b : i < j => Claims(b[i]) \cap b[j] = {}
  BY DEF ReportsOk
<1>2. /\ c \in Seq(SUBSET Nat) /\ Len(c) = m /\ Head(b) = b[1] /\ Len(b) \in Nat \ {0}
      /\ \A i \in 1 .. m : c[i] = b[i + 1]
  BY <1>1, RangeTail
<1>3. DOMAIN c = 1 .. m
  BY <1>2
<1>4. m \in Nat /\ Len(b) = m + 1
  BY <1>2
<1> HIDE DEF c, m
<1>5. \A i \in 1 .. m : i + 1 \in DOMAIN b /\ 1 \in DOMAIN b /\ 1 < i + 1
  BY <1>1, <1>4
<1>6. \A i \in 1 .. m : c[i] \cap Gone(n) = {} /\ \A x \in Claims(c[i]) : Seen(d, x)
  BY <1>1, <1>2, <1>5
<1>7. ASSUME NEW i \in 1 .. m, NEW j \in 1 .. m, i < j
      PROVE  Claims(c[i]) \cap c[j] = {}
  <2>1. i + 1 < j + 1
    BY <1>4, <1>7
  <2> QED
    BY <1>1, <1>2, <1>5, <2>1
<1>8. ReportsOk(c, d, n)
  BY <1>2, <1>3, <1>6, <1>7 DEF ReportsOk
<1> QED
  BY <1>8 DEF c

LEMMA ElasticHearFeedback ==
  ASSUME ElasticInv, Elastic(opt), NEW heard \in SUBSET Listeners, HearFeedback(heard)
  PROVE  ElasticInv' /\ ElasticGoes
<1> DEFINE top == enc.source_id
           fb == Head(back)
<1>0. /\ enc.protocol = "tetrys" /\ top \in Nat /\ ElasticEnc(enc)
      /\ Core(dec, top) /\ SeenOutdated(dec) /\ Held(dec) /\ Fits(dec, enc)
      /\ Numbers(sent, top) /\ ReportsOk(back, dec, enc) /\ back \in Seq(SUBSET Nat)
      /\ air = <<>> /\ echo = <<>>
  BY ElasticFacts
<1>1. /\ back # <<>> /\ back' = Tail(back)
      /\ enc' = IF "enc" \in heard THEN NckEncPutFeedback(enc, fb) ELSE enc
      /\ opt' = opt /\ dec' = dec /\ down' = down /\ air' = air /\ echo' = echo /\ sent' = sent
  BY DEF HearFeedback
<1>2. /\ fb \in SUBSET Nat /\ fb \cap Gone(enc) = {} /\ \A x \in Claims(fb) : Seen(dec, x)
  <2>1. fb = back[1] /\ 1 \in DOMAIN back /\ fb \in SUBSET Nat
    <3>1. fb = back[1] /\ Len(back) \in Nat \ {0}
      BY <1>0, <1>1, RangeTail
    <3>2. 1 \in DOMAIN back
      BY <1>0, <3>1
    <3>3. back[1] \in SUBSET Nat
      BY <1>0, <3>2
    <3> QED
      BY <3>1, <3>2, <3>3
  <2> QED
    BY <1>0, <2>1 DEF ReportsOk
<1>3. /\ ElasticEnc(enc') /\ enc'.source_id = top /\ enc'.window \subseteq enc.window
      /\ enc.window \ enc'.window \subseteq Claims(fb)
  <2>1. CASE enc' = enc
    BY <1>0, <2>1
  <2>2. CASE enc' = NckEncPutFeedback(enc, fb)
    <3>1. enc' = TetrysEncPutFeedback(enc, fb)
      BY <1>0, <2>2 DEF NckEncPutFeedback
    <3> HIDE DEF fb
    <3>2. ElasticEnc(enc') /\ enc'.source_id = top /\ enc'.window = enc.window \ Claims(fb)
      BY <1>0, <1>2, <3>1, ElasticPutFeedback DEF Elastic
    <3> QED
      BY <3>2
  <2> QED
    BY <1>1, <2>1, <2>2
<1>4. ElasticEnc(enc)'
  BY <1>1, <1>3 DEF ElasticEnc
<1>5. Gone(enc') \subseteq Gone(enc) \cup Claims(fb)
  BY <1>3 DEF Gone
<1>6. Fits(dec', enc')
  BY <1>0, <1>1, <1>2, <1>5 DEF Fits
<1>7. Holds(dec, enc.source_id)'
  <2>1. Holds(dec', enc'.source_id)
    BY <1>0, <1>1, <1>3 DEF Holds
  <2> QED
    BY <1>1, <2>1 DEF Holds, Core, Elastics
<1>8. Numbers(sent', enc'.source_id)
  BY <1>0, <1>1, <1>3
<1>9. Pipe(down', enc')
  <2>1. top <= enc'.source_id /\ enc'.window \subseteq enc.window \cup {top}
    BY <1>0, <1>3
  <2>2. Pipe(down, enc)
    BY DEF ElasticInv
  <2> QED
    BY <1>0, <1>1, <1>3, <2>1, <2>2, PipeOn
<1>10. ReportsOk(back', dec', enc')
  BY <1>0, <1>1, <1>5, ReportsTail
<1>11. ElasticInv'
  BY <1>0, <1>1, <1>4, <1>6, <1>7, <1>8, <1>9, <1>10 DEF ElasticInv
<1>12. ElasticGoes
  BY <1>1, <1>2, <1>3 DEF ElasticGoes
<1> QED
  BY <1>11, <1>12

LEMMA ElasticSteps ==
  ASSUME ElasticInv, Elastic(opt), [Next]_vars
  PROVE  ElasticInv' /\ ElasticGoes
<1>0. /\ ElasticEnc(enc) /\ Unmoved(enc, enc) /\ echo = <<>> /\ air = <<>> /\ ~opt.relay
      /\ down \in Seq(ElasticPackets) /\ \A p \in Range(down) : Vectored(p, enc)
  BY ElasticFacts DEF Elastic
<1>1. CASE PutSource
  BY <1>1, ElasticPutStep
<1>2. CASE \/ NckEncHasCoded(enc) /\ \E pkt \in NckEncPackets(enc) : SendCoded(pkt)
           \/ DecReceive
           \/ Lose
  BY <1>2, ElasticPacketSteps
<1>3. CASE WriteOutput \/ EncTimer \/ RecTimer \/ DecTimer \/ FlushCoded \/ FlushSource
  BY <1>3, ElasticCoderSteps
<1>4. CASE SendFeedback
  BY <1>4, ElasticSendFeedback
<1>5. CASE \E heard \in SUBSET Listeners : HearFeedback(heard)
  BY <1>5, ElasticHearFeedback
<1>6. CASE \/ RelayReceive \/ RelayTake \/ RelayFeedback \/ HearEcho
           \/ opt.relay /\ NckRecHasCoded(rec) /\ \E pkt \in NckRecPackets(rec) : RelaySend(pkt)
  BY <1>0, <1>6 DEF RelayReceive, RelayTake, RelayFeedback, HearEcho
<1>7. CASE UNCHANGED vars
  <2>1. /\ opt' = opt /\ sent' = sent /\ enc' = enc /\ dec' = dec /\ down' = down
        /\ back' = back /\ air' = air /\ echo' = echo
    BY <1>7 DEF vars
  <2>2. /\ ElasticEnc(enc') /\ Unmoved(enc, enc') /\ DecOn(dec, dec', enc.source_id)
        /\ down' \in Seq(ElasticPackets) /\ (\A p \in Range(down') : Vectored(p, enc))
        /\ air' = <<>> /\ echo' = <<>>
    BY <1>0, <2>1 DEF DecOn
  <2> QED
    BY <2>1, <2>2, ElasticGoesOn
<1> QED
  BY <1>1, <1>2, <1>3, <1>4, <1>5, <1>6, <1>7 DEF Next

(* The networks of Tetrys keep their invariant: whatever is lost, late or  *)
(* overtaken, feedback names nothing that the encoder has let go, claims   *)
(* what was seen, and packets begin after what is gone.                    *)
THEOREM ElasticInvariant == Spec /\ Elastic(opt) => [](ElasticInv /\ Elastic(opt))
<1>1. Init /\ Elastic(opt) => ElasticInv
  BY ElasticStarts
<1>2. ElasticInv /\ Elastic(opt) /\ [Next]_vars => (ElasticInv /\ Elastic(opt))'
  <2> SUFFICES ASSUME ElasticInv, Elastic(opt), [Next]_vars
               PROVE  ElasticInv' /\ Elastic(opt')
    OBVIOUS
  <2>1. ElasticInv'
    BY ElasticSteps
  <2>2. opt' = opt
    BY OptionsStay
  <2> QED
    BY <2>1, <2>2
<1> QED
  BY <1>1, <1>2, PTL DEF Spec

-----------------------------------------------------------------------------
(* The assertions of Tetrys' coders hold in a network with loss,           *)
(* reordering, timers and flushes: feedback never names a symbol that the  *)
(* encoder has let go (encoder.c:289), and always has room for what is     *)
(* missing (decoder.c:648, 657).                                           *)
THEOREM TetrysAssertsHold == Spec /\ Elastic(opt) => []NoAssertFails
<1>1. ElasticInv => NoAssertFails
  <2> SUFFICES ASSUME ElasticInv PROVE ~enc.failed /\ ~dec.failed
    BY DEF NoAssertFails
  <2>1. enc.failed = FALSE
    BY ElasticFacts DEF ElasticEnc
  <2>2. dec.failed = FALSE
    BY ElasticFacts, CoreFields
  <2> QED
    BY <2>1, <2>2
<1> QED
  BY <1>1, ElasticInvariant, PTL

LEMMA TetrysPending ==
  ASSUME NEW top \in Nat, NEW d, Core(d, top)
  PROVE  /\ NckPending(d) = {<<1, id>> : id \in {i \in TetrysPivots(d) : i >= d.next_id /\ {i} \in d.rows}}
         /\ TetrysPivots(d) \in SUBSET Nat /\ d.next_id \in Nat
         /\ \A i \in Nat : {i} \in d.rows => i \in TetrysPivots(d)
<1>1. d.protocol = "tetrys" /\ d.next_id \in Nat /\ TetrysPivots(d) \in SUBSET Nat
  BY CoreFields, CoreNumbers, PivotNumbers
<1>2. NckPending(d) = {<<1, id>> : id \in {i \in TetrysPivots(d) : i >= d.next_id /\ {i} \in d.rows}}
  BY <1>1 DEF NckPending
<1>3. ASSUME NEW i \in Nat, {i} \in d.rows PROVE i \in TetrysPivots(d)
  <2>1. Pivot({i}) \in {i} /\ Pivot({i}) \in TetrysPivots(d)
    BY <1>3, RowFacts
  <2> QED
    BY <2>1
<1> QED
  BY <1>1, <1>2, <1>3

(* No decoded symbol is lost to the application of a Tetrys decoder: a row *)
(* that is evicted was handed out, or is of no use (evict_outdated_symbols *)
(* and the pointer next).                                                  *)
THEOREM TetrysDropsNothing == Spec /\ Elastic(opt) => OnlyUnreadIsOverwritten
<1>1. ASSUME ElasticInv, Elastic(opt), [Next]_vars
      PROVE  NckPending(dec) \subseteq NckPending(dec') \cup Range(dec'.read)
  <2> DEFINE top == enc.source_id
  <2>1. top \in Nat /\ Core(dec, top) /\ ElasticGoes
    BY <1>1, ElasticFacts, ElasticSteps
  <2>2. CASE dec' = dec
    BY <2>2
  <2>3. CASE Core(dec', top) /\ Onward(dec, dec')
    <3> HIDE DEF top
    <3>1. ASSUME NEW s \in NckPending(dec) PROVE s \in NckPending(dec') \cup Range(dec'.read)
      <4>1. PICK x \in Nat : s = <<1, x>> /\ x >= dec.next_id /\ {x} \in dec.rows
        <5>1. /\ NckPending(dec) = {<<1, id>> : id \in {i \in TetrysPivots(dec) :
                                                         i >= dec.next_id /\ {i} \in dec.rows}}
              /\ TetrysPivots(dec) \in SUBSET Nat
          BY <2>1, TetrysPending
        <5> QED
          BY <3>1, <5>1
      <4>2. dec.next_id \in Nat /\ dec.next_id <= x
        BY <2>1, <4>1, CoreNumbers
      <4>3. \/ {x} \in dec'.rows /\ dec'.next_id <= x
            \/ \E j \in DOMAIN dec'.read : dec'.read[j] = <<1, x>>
        BY <2>3, <4>1, <4>2 DEF Onward
      <4>4. CASE {x} \in dec'.rows /\ dec'.next_id <= x
        <5>1. x \in TetrysPivots(dec') /\ dec'.next_id \in Nat
          BY <2>1, <2>3, <4>4, TetrysPending
        <5>2. x >= dec'.next_id
          BY <4>4, <5>1
        <5> QED
          BY <2>1, <2>3, <4>1, <4>4, <5>1, <5>2, TetrysPending
      <4>5. CASE \E j \in DOMAIN dec'.read : dec'.read[j] = <<1, x>>
        BY <4>1, <4>5 DEF Range
      <4> QED
        BY <4>3, <4>4, <4>5
    <3> QED
      BY <3>1
  <2> QED
    BY <2>1, <2>2, <2>3 DEF ElasticGoes
<1>2. ElasticInv /\ Elastic(opt) /\ [Next]_vars
        => [NckPending(dec) \subseteq NckPending(dec') \cup Range(dec'.read)
                                     \cup NckOverwritten(dec, dec')]_vars
  BY <1>1
<1> QED
  BY <1>2, ElasticInvariant, PTL DEF Spec, OnlyUnreadIsOverwritten

(* Tetrys' encoder gives up only symbols that the decoder has seen, also   *)
(* when feedback is lost or late (nck_tetrys_enc_put_feedback).            *)
THEOREM TetrysGivesUpTheSettled == Spec /\ Elastic(opt) => GivenUpIsSettled
<1>1. ASSUME ElasticInv, Elastic(opt), [Next]_vars,
             NEW slot \in NckEncCovers(enc) \ NckEncCovers(enc')
      PROVE  \E c \in Receivers : NckSettled(c, slot)
  <2>1. /\ enc.protocol = "tetrys" /\ dec.protocol = "tetrys" /\ ElasticInv' /\ ElasticGoes
    BY <1>1, ElasticFacts, ElasticSteps
  <2>2. enc'.protocol = "tetrys"
    BY <2>1 DEF ElasticInv, ElasticEnc
  <2>3. NckEncCovers(enc) = {<<1, id>> : id \in enc.window}
        /\ NckEncCovers(enc') = {<<1, id>> : id \in enc'.window}
    BY <2>1, <2>2 DEF NckEncCovers
  <2>4. PICK x \in enc.window \ enc'.window : slot = <<1, x>>
    BY <2>3
  <2>5. Seen(dec, x)
    BY <2>1 DEF ElasticGoes
  <2>6. NckSettled(dec, slot)
    BY <2>1, <2>4, <2>5 DEF NckSettled, Seen
  <2> QED
    BY <2>6 DEF Receivers
<1>2. ElasticInv /\ Elastic(opt) /\ [Next]_vars
        => [(back' # back \/ echo' # echo) =>
              \A slot \in NckEncCovers(enc) \ NckEncCovers(enc') :
                \E c \in Receivers : NckSettled(c, slot)]_vars
  BY <1>1
<1> QED
  BY <1>2, ElasticInvariant, PTL DEF Spec, GivenUpIsSettled

LEMMA PlaceOfNumber ==
  ASSUME NEW top \in Nat, NEW s, Numbers(s, top), NEW x \in Nat, x < top
  PROVE  Place(s, <<1, x>>) = x + 1
<1>1. DOMAIN s = 1 .. top /\ \A n \in 1 .. top : s[n] = <<1, n - 1>>
  <2>1. s \in Seq({1} \X Nat) /\ Len(s) = top /\ \A n \in 1 .. top : s[n] = <<1, n - 1>>
    BY DEF Numbers
  <2> QED
    BY <2>1
<1>2. x + 1 \in 1 .. top /\ (x + 1) - 1 = x
  OBVIOUS
<1>3. s[x + 1] = <<1, x>>
  BY <1>1, <1>2
<1>4. <<1, x>> \in Range(s)
  BY <1>1, <1>2, <1>3 DEF Range
<1>5. ASSUME NEW n \in DOMAIN s, s[n] = <<1, x>> PROVE n = x + 1
  <2>1. n \in 1 .. top /\ <<1, n - 1>> = <<1, x>>
    BY <1>1, <1>5
  <2>2. n - 1 = x
    BY <2>1
  <2> QED
    BY <2>1, <2>2
<1> DEFINE p == CHOOSE n \in DOMAIN s : s[n] = <<1, x>>
<1>6. p \in DOMAIN s /\ s[p] = <<1, x>>
  BY <1>1, <1>2, <1>3
<1>7. Place(s, <<1, x>>) = p
  BY <1>4 DEF Place
<1> HIDE DEF p
<1> QED
  BY <1>5, <1>6, <1>7

(* The places of what a decoder has handed out.                            *)
Counted(h, d, top) ==
  /\ h = [i \in 1 .. Len(d.read) |-> d.read[i][2] + 1]
  /\ h \in Seq(1 .. top) /\ Len(h) = Len(d.read) /\ Len(d.read) \in Nat
  /\ \A i \in 1 .. Len(d.read) : h[i] = d.read[i][2] + 1
  /\ \A i, j \in 1 .. Len(h) : i < j => h[i] < h[j]

LEMMA HandedNumbers ==
  ASSUME NEW top \in Nat, NEW s, Numbers(s, top), NEW d, Core(d, top)
  PROVE  Counted(Handed(s, d.read), d, top)
<1> DEFINE n == Len(d.read)
           num == [i \in 1 .. n |-> d.read[i][2]]
           h == Handed(s, d.read)
<1>1. /\ n \in Nat /\ DOMAIN d.read = 1 .. n /\ d.next_id \in Nat /\ d.next_id <= top
  BY CoreNumbers
<1>2. /\ \A i \in 1 .. n : d.read[i] \in {1} \X Nat
  <2>1. d.read \in Seq({1} \X Nat)
    BY DEF Core, Elastics
  <2> QED
    BY <2>1
<1>3. \A i \in 1 .. n : num[i] \in Nat /\ d.read[i] = <<1, num[i]>> /\ d.read[i][2] = num[i]
  BY <1>2
<1>4. /\ \A i \in 1 .. n : num[i] < d.next_id
      /\ \A i, j \in 1 .. n : i < j => num[i] < num[j]
  BY <1>1 DEF Core, HandedOut
<1> HIDE DEF num
<1>5. ASSUME NEW i \in 1 .. n PROVE Place(s, d.read[i]) = num[i] + 1 /\ num[i] + 1 \in 1 .. top
  <2>1. num[i] \in Nat /\ num[i] < top
    BY <1>1, <1>3, <1>4
  <2>2. Place(s, <<1, num[i]>>) = num[i] + 1
    BY <2>1, PlaceOfNumber
  <2>3. num[i] + 1 \in 1 .. top
    BY <2>1
  <2>4. d.read[i] = <<1, num[i]>>
    BY <1>3
  <2> QED
    BY <2>2, <2>3, <2>4, Zenon
<1>6. h = [i \in 1 .. n |-> num[i] + 1]
  BY <1>1, <1>5 DEF Handed
<1> HIDE DEF h, n
<1>7. h \in [1 .. n -> 1 .. top] /\ \A i \in 1 .. n : h[i] = num[i] + 1
  BY <1>5, <1>6
<1>8. h \in Seq(1 .. top) /\ Len(h) = n
  <2>1. ASSUME NEW m \in Nat, NEW S, NEW f \in [1 .. m -> S] PROVE f \in Seq(S) /\ Len(f) = m
    OBVIOUS
  <2> QED
    BY <1>1, <1>7, <2>1
<1>9. \A i, j \in 1 .. n : i < j => h[i] < h[j]
  <2> SUFFICES ASSUME NEW i \in 1 .. n, NEW j \in 1 .. n, i < j PROVE h[i] < h[j]
    OBVIOUS
  <2>1. num[i] < num[j] /\ num[i] \in Nat /\ num[j] \in Nat
    BY <1>3, <1>4
  <2>2. num[i] + 1 < num[j] + 1
    BY <2>1
  <2> QED
    BY <1>7, <2>2
<1>10. h = [i \in 1 .. n |-> d.read[i][2] + 1]
  BY <1>3, <1>6
<1>11. \A i \in 1 .. n : h[i] = d.read[i][2] + 1
  BY <1>10
<1> QED
  BY <1>1, <1>8, <1>9, <1>10, <1>11 DEF h, n, Counted

LEMMA ElasticStream ==
  ASSUME ElasticInv, ElasticInv', ElasticGoes
  PROVE  [Stream!Next]_(Stream!vars)
<1> DEFINE old == [n \in DOMAIN dec.read |-> PlaceOf(dec.read[n])]
           top == enc.source_id
<1>1. old = Handed(sent, dec.read) /\ old' = Handed(sent', dec'.read)
  BY StreamIs
<1> HIDE DEF old
<1>2. top \in Nat /\ Core(dec, top) /\ Numbers(sent, top) /\ Len(sent) = top
  BY ElasticFacts DEF Numbers
<1>3. CASE dec' = dec /\ sent' = Append(sent, <<1, top>>)
  <2>1. sent \in Seq({1} \X Nat) /\ <<1, top>> \in {1} \X Nat
    BY <1>2 DEF Numbers
  <2>2. Len(sent') = Len(sent) + 1
    BY <1>3, <2>1, RangeAppend
  <2>3. Numbers(sent', top + 1)
    <3>1. Numbers(sent', enc'.source_id)
      BY DEF ElasticInv
    <3>2. Len(sent') = enc'.source_id
      BY <3>1 DEF Numbers
    <3>3. enc'.source_id = top + 1
      BY <1>2, <2>2, <3>2
    <3> QED
      BY <3>1, <3>3
  <2>4. Core(dec, top + 1) /\ top + 1 \in Nat
    BY <1>2, CoreGrows
  <2>5. Handed(sent, dec.read) = Handed(sent', dec.read)
    <3> HIDE DEF top
    <3>1. Handed(sent, dec.read) = [i \in 1 .. Len(dec.read) |-> dec.read[i][2] + 1]
      BY <1>2, HandedNumbers DEF Counted
    <3>2. Handed(sent', dec.read) = [i \in 1 .. Len(dec.read) |-> dec.read[i][2] + 1]
      BY <2>3, <2>4, HandedNumbers DEF Counted
    <3> QED
      BY <3>1, <3>2
  <2>6. old' = old
    BY <1>1, <1>3, <2>5
  <2> QED
    BY <2>2, <2>6 DEF Stream!Next, Stream!Put, old
<1>4. CASE sent' = sent /\ dec' = dec
  <2>1. old' = old
    BY <1>1, <1>4
  <2> QED
    BY <1>4, <2>1 DEF Stream!vars, old
<1>5. CASE sent' = sent /\ Core(dec', top) /\ Onward(dec, dec')
  <2> DEFINE newest == IF old = <<>> THEN 0 ELSE old[Len(old)]
             new == Handed(sent, dec'.read)
  <2>0. old' = new
    BY <1>1, <1>5
  <2>1. /\ old \in Seq(1 .. top) /\ Len(old) = Len(dec.read) /\ Len(dec.read) \in Nat
        /\ \A i \in 1 .. Len(dec.read) : old[i] = dec.read[i][2] + 1
    <3>1. Counted(Handed(sent, dec.read), dec, top)
      BY <1>2, HandedNumbers
    <3> HIDE DEF top
    <3> QED
      BY <1>1, <3>1 DEF Counted
  <2>2. /\ new \in Seq(1 .. top) /\ Len(new) = Len(dec'.read) /\ Len(dec'.read) \in Nat
        /\ \A i \in 1 .. Len(dec'.read) : new[i] = dec'.read[i][2] + 1
        /\ \A i, j \in 1 .. Len(new) : i < j => new[i] < new[j]
    <3>1. Counted(new, dec', top)
      BY <1>2, <1>5, HandedNumbers
    <3> HIDE DEF top, new
    <3> QED
      BY <3>1 DEF Counted
  <2> HIDE DEF new
  <2>3. Len(dec.read) <= Len(dec'.read) /\ \A j \in 1 .. Len(dec.read) : dec'.read[j] = dec.read[j]
    BY <1>5 DEF Onward, Extends
  <2>4. Extends(old, new)
    <3> SUFFICES ASSUME NEW j \in 1 .. Len(dec.read) PROVE new[j] = old[j]
      BY <2>1, <2>2, <2>3 DEF Extends
    <3>1. j \in 1 .. Len(dec'.read)
      BY <2>1, <2>2, <2>3
    <3> QED
      BY <2>1, <2>2, <2>3, <3>1
  <2>5. \/ new = old
        \/ \E length \in 1 .. top : \E numbers \in [1 .. length -> newest + 1 .. top] :
             /\ \A i, j \in DOMAIN numbers : i < j => numbers[i] < numbers[j]
             /\ new = old \o numbers
    <3> HIDE DEF top
    <3> QED
      BY <1>2, <2>1, <2>2, <2>4, PlacesOn
  <2>6. CASE new = old
    BY <1>5, <2>0, <2>6 DEF Stream!vars, old
  <2>7. CASE /\ new # old
             /\ \E length \in 1 .. top :
                  \E numbers \in [1 .. length -> newest + 1 .. top] :
                    /\ \A i, j \in DOMAIN numbers : i < j => numbers[i] < numbers[j]
                    /\ new = old \o numbers
    <3>1. \E length \in 1 .. Len(sent) :
            \E numbers \in [1 .. length -> newest + 1 .. Len(sent)] :
              /\ \A i, j \in DOMAIN numbers : i < j => numbers[i] < numbers[j]
              /\ old' = old \o numbers
      BY <1>2, <2>0, <2>7
    <3>2. Stream!Deliver
      BY <1>5, <2>0, <2>7, <3>1 DEF Stream!Deliver, Stream!Newest, Stream!Ascending, old
    <3> QED
      BY <3>2 DEF Stream!Next
  <2> QED
    BY <2>5, <2>6, <2>7
<1> QED
  BY <1>3, <1>4, <1>5 DEF ElasticGoes

(* Tetrys' network implements a lossy stream (every get_source): with      *)
(* loss, reordering, late feedback, timers and flushes each symbol that is *)
(* handed out was put in after all those before it.                        *)
THEOREM TetrysImplementsStream == Spec /\ Elastic(opt) => StreamSpec
<1>1. Init /\ Elastic(opt) => Stream!Init
  <2>1. ASSUME Init, Elastic(opt) PROVE sent = <<>> /\ dec.read = <<>>
    <3>1. dec = TetrysDecStart(opt)
      BY <2>1 DEF Init, Elastic, NckDecStart
    <3> QED
      BY <2>1, <3>1 DEF Init, TetrysDecStart
  <2>2. ASSUME sent = <<>>, dec.read = <<>>
        PROVE  Len(sent) = 0 /\ [n \in DOMAIN dec.read |-> PlaceOf(dec.read[n])] = <<>>
    <3>1. DOMAIN dec.read = 1 .. 0 /\ Len(sent) = 0
      BY <2>2
    <3> QED
      BY <3>1
  <2> QED
    BY <2>1, <2>2 DEF Stream!Init
<1>2. ElasticInv /\ Elastic(opt) /\ [Next]_vars => [Stream!Next]_(Stream!vars)
  BY ElasticSteps, ElasticStream
<1> QED
  BY <1>1, <1>2, ElasticInvariant, PTL DEF Spec, StreamSpec, Stream!Spec

-----------------------------------------------------------------------------
(* NOCODE, over paths that keep the order: each coder buffers one symbol,  *)
(* and symbols stay in the order in which they were put in.                *)
Buffering(o) == o.protocol = "nocode" /\ o.reorder = FALSE

Singles == {[generation |-> 1, rank |-> 0, vec |-> {n}] : n \in Nat \ {0}}

Number(p) == Pivot(p.vec)

OnPath(path) == {Number(p) : p \in Range(path)}

InLine(path) ==
  /\ path \in Seq(Singles)
  /\ \A i, j \in DOMAIN path : i < j => Number(path[i]) < Number(path[j])

Buffered(n) == {n} \ {0}

Waiting(r, relay) == IF relay /\ r.has_coded THEN {r.len} ELSE {}

Read(d) == {slot[2] : slot \in Range(d.read)}

(* From the application that was handed symbols up to those still to be    *)
(* put in.                                                                 *)
Levels ==
  <<Read(dec), Buffered(dec.len), OnPath(air),
    Waiting(rec, opt.relay), OnPath(down), Buffered(enc.len), {n \in Nat : n > enc.count}>>

Chain(L) == \A i, j \in 1 .. 7 : i < j => \A x \in L[i], y \in L[j] : x < y

NocodeEncs == [protocol : {"nocode"}, count : Nat, len : Nat]

NocodeDecs ==
  [protocol : {"nocode"}, len : Nat, read : Seq({1} \X (Nat \ {0})), eager : {opt.eager}]

NocodeRecs ==
  [protocol : {"nocode"}, len : Nat, has_source : BOOLEAN, has_coded : BOOLEAN,
   read : Seq({1} \X Nat), eager : {opt.eager}]

ReadInLine(d) == \A i, j \in DOMAIN d.read : i < j => d.read[i][2] < d.read[j][2]

Counts(slots, n) ==
  slots \in Seq({1} \X Nat) /\ Len(slots) = n /\ \A i \in 1 .. n : slots[i] = <<1, i>>

BufferInv ==
  /\ enc \in NocodeEncs /\ dec \in NocodeDecs /\ ReadInLine(dec)
  /\ dec.eager => dec.len = 0
  /\ IF opt.relay THEN rec \in NocodeRecs /\ (rec.has_coded => rec.len > 0)
     ELSE rec = NoRelay /\ air = <<>>
  /\ InLine(down) /\ InLine(air) /\ back = <<>> /\ echo = <<>>
  /\ Counts(sent, enc.count)
  /\ Chain(Levels)

LEMMA PassOn ==
  ASSUME NEW L, NEW M, Chain(L), NEW a \in 1 .. 7, NEW b \in 1 .. 7, a <= b, NEW x \in L[b],
         \A i \in 1 .. 7 : i # a => M[i] \subseteq L[i],
         M[a] \subseteq L[a] \cup {x},
         \A j \in 1 .. 7 : a < j /\ j <= b => \A y \in M[j] : x < y
  PROVE  Chain(M)
<1> SUFFICES ASSUME NEW i \in 1 .. 7, NEW j \in 1 .. 7, i < j, NEW u \in M[i], NEW v \in M[j]
             PROVE  u < v
  BY DEF Chain
<1>1. CASE u \in L[i] /\ v \in L[j]
  BY <1>1 DEF Chain
<1>2. CASE u \in L[i] /\ j = a /\ v = x
  <2>1. i < b
    BY <1>2
  <2> QED
    BY <1>2, <2>1 DEF Chain
<1>3. CASE i = a /\ u = x /\ j # a
  <2>1. CASE j <= b
    BY <1>3, <2>1
  <2>2. CASE b < j
    <3>1. v \in L[j]
      BY <1>3
    <3> QED
      BY <1>3, <2>2, <3>1 DEF Chain
  <2> QED
    BY <2>1, <2>2
<1> QED
  BY <1>1, <1>2, <1>3

LEMMA SingleNumber ==
  ASSUME NEW p \in Singles
  PROVE  Number(p) \in Nat \ {0} /\ p.vec = {Number(p)}
<1>1. PICK n \in Nat \ {0} : p = [generation |-> 1, rank |-> 0, vec |-> {n}]
  BY DEF Singles
<1>2. p.vec = {n}
  BY <1>1
<1>3. Pivot({n}) = n
  BY DEF Pivot
<1> QED
  BY <1>2, <1>3 DEF Number

LEMMA InLineAppend ==
  ASSUME NEW path, InLine(path), NEW n \in Nat \ {0}, \A x \in OnPath(path) : x < n,
         NEW p, p = [generation |-> 1, rank |-> 0, vec |-> {n}]
  PROVE  InLine(Append(path, p)) /\ OnPath(Append(path, p)) = OnPath(path) \cup {n}
<1> DEFINE m == Len(path)
           q == Append(path, p)
<1>0. p = [generation |-> 1, rank |-> 0, vec |-> {n}]
  OBVIOUS
<1>1. p \in Singles /\ Number(p) = n
  <2>1. Pivot({n}) = n
    BY DEF Pivot
  <2> QED
    BY <2>1 DEF Singles, Number
<1>2. path \in Seq(Singles) /\ m \in Nat /\ DOMAIN path = 1 .. m
      /\ \A i, j \in 1 .. m : i < j => Number(path[i]) < Number(path[j])
  BY DEF InLine
<1>3. /\ q \in Seq(Singles) /\ Range(q) = Range(path) \cup {p} /\ Len(q) = m + 1
      /\ \A i \in 1 .. m : q[i] = path[i]
      /\ q[m + 1] = p
  <2>1. path \in Seq(Singles) /\ p \in Singles
    BY <1>1, <1>2
  <2>2. ASSUME NEW w \in Singles, w = p
        PROVE  /\ Append(path, w) \in Seq(Singles) /\ Range(Append(path, w)) = Range(path) \cup {w}
               /\ Len(Append(path, w)) = Len(path) + 1
               /\ \A i \in 1 .. Len(path) : Append(path, w)[i] = path[i]
               /\ Append(path, w)[Len(path) + 1] = w
    BY <2>1, RangeAppend
  <2> QED
    BY <2>1, <2>2
<1>4. DOMAIN q = 1 .. m + 1
  BY <1>3
<1>5. \A i \in 1 .. m : Number(path[i]) < n
  <2>1. \A i \in 1 .. m : path[i] \in Range(path)
    BY <1>2 DEF Range
  <2> QED
    BY <2>1 DEF OnPath
<1> HIDE DEF q, m
<1>6. ASSUME NEW i \in 1 .. m + 1, NEW j \in 1 .. m + 1, i < j
      PROVE  Number(q[i]) < Number(q[j])
  <2>1. i \in 1 .. m
    BY <1>2, <1>6
  <2>2. j \in 1 .. m \/ j = m + 1
    BY <1>2
  <2> QED
    BY <1>1, <1>2, <1>3, <1>5, <1>6, <2>1, <2>2
<1>7. InLine(q)
  BY <1>3, <1>4, <1>6 DEF InLine
<1>8. OnPath(q) = OnPath(path) \cup {n}
  <2>1. Range(q) = Range(path) \cup {p} /\ Number(p) = n
    BY <1>1, <1>3
  <2>2. \A y : y \in OnPath(q) <=> y \in OnPath(path) \/ y = Number(p)
    BY <2>1 DEF OnPath
  <2> QED
    BY <2>1, <2>2
<1> QED
  BY <1>7, <1>8 DEF q

LEMMA InLineTail ==
  ASSUME NEW path, InLine(path), path # <<>>
  PROVE  /\ InLine(Tail(path)) /\ OnPath(Tail(path)) \subseteq OnPath(path)
         /\ Head(path) \in Singles /\ Number(Head(path)) \in OnPath(path)
         /\ \A x \in OnPath(Tail(path)) : Number(Head(path)) < x
<1> DEFINE m == Len(path) - 1
           q == Tail(path)
<1>1. path \in Seq(Singles) /\ DOMAIN path = 1 .. Len(path)
      /\ \A i, j \in DOMAIN path : i < j => Number(path[i]) < Number(path[j])
  BY DEF InLine
<1>2. /\ Head(path) \in Range(path) /\ Range(path) \subseteq Singles /\ q \in Seq(Singles)
      /\ Len(q) = m /\ Head(path) = path[1] /\ Len(path) \in Nat \ {0}
      /\ \A i \in 1 .. m : q[i] = path[i + 1]
      /\ Range(path) = Range(q) \cup {Head(path)}
  BY <1>1, RangeTail
<1>3. DOMAIN q = 1 .. m
  BY <1>2
<1>4. m \in Nat /\ Len(path) = m + 1
  BY <1>2
<1> HIDE DEF m, q
<1>5. \A i \in 1 .. m : i + 1 \in DOMAIN path /\ 1 \in DOMAIN path /\ 1 < i + 1
  BY <1>1, <1>4
<1>6. ASSUME NEW i \in 1 .. m, NEW j \in 1 .. m, i < j
      PROVE  Number(q[i]) < Number(q[j])
  <2>1. i + 1 < j + 1
    BY <1>4, <1>6
  <2> QED
    BY <1>1, <1>2, <1>5, <2>1
<1>7. InLine(q)
  BY <1>2, <1>3, <1>6 DEF InLine
<1>8. \A x \in OnPath(q) : Number(path[1]) < x
  <2> SUFFICES ASSUME NEW i \in 1 .. m PROVE Number(path[1]) < Number(q[i])
    BY <1>3 DEF OnPath, Range
  <2> QED
    BY <1>1, <1>2, <1>5
<1> QED
  BY <1>2, <1>7, <1>8 DEF OnPath, q

LEMMA HeadOnly ==
  ASSUME opt.reorder = FALSE, NEW path, InLine(path), NEW i \in Heads(path)
  PROVE  path # <<>> /\ path[i] = Head(path) /\ RemoveAt(path, i) = Tail(path)
<1>1. path \in Seq(Singles) /\ i = 1 /\ i \in DOMAIN path
  BY DEF Heads, InLine
<1>2. path # <<>>
  BY <1>1
<1>3. RemoveAt(path, 1) = Tail(path)
  <2>1. SubSeq(path, 1, 0) = <<>> /\ SubSeq(path, 2, Len(path)) = Tail(path)
    BY <1>1, <1>2
  <2>2. RemoveAt(path, 1) = SubSeq(path, 1, 0) \o SubSeq(path, 2, Len(path))
    BY DEF RemoveAt
  <2>3. <<>> \o Tail(path) = Tail(path)
    <3>1. Tail(path) \in Seq(Singles)
      BY <1>1, <1>2
    <3> QED
      BY <3>1
  <2> QED
    BY <2>1, <2>2, <2>3
<1> QED
  BY <1>1, <1>2, <1>3

(* nck_nocode_dec_get_source and nck_nocode_dec_put_coded                  *)
LEMMA NocodeTake ==
  ASSUME NEW d \in NocodeDecs, ReadInLine(d), d.len > 0, \A x \in Read(d) : x < d.len
  PROVE  LET e == NocodeDecGetSource(d)
         IN /\ e \in NocodeDecs /\ ReadInLine(e) /\ e.len = 0 /\ Extends(d.read, e.read)
            /\ Read(e) = Read(d) \cup {d.len} /\ <<1, d.len>> \in Range(e.read)
<1> DEFINE e == NocodeDecGetSource(d)
           m == Len(d.read)
           n == d.len
           q == Append(d.read, <<1, n>>)
<1>1. /\ d.read \in Seq({1} \X (Nat \ {0})) /\ n \in Nat \ {0} /\ m \in Nat /\ DOMAIN d.read = 1 .. m
      /\ \A i, j \in 1 .. m : i < j => d.read[i][2] < d.read[j][2]
  <2>1. d.read \in Seq({1} \X (Nat \ {0})) /\ n \in Nat
    BY DEF NocodeDecs
  <2>2. n > 0
    OBVIOUS
  <2>3. n \in Nat \ {0}
    BY <2>1, <2>2
  <2>4. m \in Nat /\ DOMAIN d.read = 1 .. m
    BY <2>1
  <2> QED
    BY <2>1, <2>3, <2>4 DEF ReadInLine
<1>2. <<1, n>> \in {1} \X (Nat \ {0}) /\ <<1, n>>[2] = n
  BY <1>1
<1>3. /\ q \in Seq({1} \X (Nat \ {0})) /\ Range(q) = Range(d.read) \cup {<<1, n>>} /\ Len(q) = m + 1
      /\ \A i \in 1 .. m : q[i] = d.read[i]
      /\ q[m + 1] = <<1, n>>
  <2>1. ASSUME NEW w \in {1} \X (Nat \ {0}), w = <<1, n>>
        PROVE  /\ Append(d.read, w) \in Seq({1} \X (Nat \ {0}))
               /\ Range(Append(d.read, w)) = Range(d.read) \cup {w}
               /\ Len(Append(d.read, w)) = Len(d.read) + 1
               /\ \A i \in 1 .. Len(d.read) : Append(d.read, w)[i] = d.read[i]
               /\ Append(d.read, w)[Len(d.read) + 1] = w
    BY <1>1, RangeAppend
  <2> QED
    BY <1>2, <2>1
<1>4. DOMAIN q = 1 .. m + 1
  BY <1>3
<1>5. e = [d EXCEPT !.read = q, !.len = 0]
  BY DEF NocodeDecGetSource
<1>6. \A i \in 1 .. m : d.read[i][2] < n
  <2>1. \A i \in 1 .. m : d.read[i] \in Range(d.read)
    BY <1>1 DEF Range
  <2> QED
    BY <2>1 DEF Read
<1> HIDE DEF q, e
<1>7. e \in NocodeDecs /\ e.read = q /\ e.len = 0
  BY <1>3, <1>5 DEF NocodeDecs
<1> HIDE DEF m, n
<1>8. ASSUME NEW i \in 1 .. m + 1, NEW j \in 1 .. m + 1, i < j PROVE q[i][2] < q[j][2]
  <2>1. i \in 1 .. m
    BY <1>1, <1>8
  <2>2. CASE j \in 1 .. m
    BY <1>1, <1>3, <1>8, <2>1, <2>2
  <2>3. CASE j = m + 1
    BY <1>2, <1>3, <1>6, <2>1, <2>3
  <2> QED
    BY <1>1, <2>2, <2>3
<1>9. ReadInLine(e)
  BY <1>4, <1>7, <1>8 DEF ReadInLine
<1>10. Extends(d.read, e.read)
  BY <1>1, <1>3, <1>7 DEF Extends, m
<1>11. Read(e) = Read(d) \cup {n}
  <2>1. \A y : y \in Read(e) <=> y \in Read(d) \/ y = n
    BY <1>2, <1>3, <1>7 DEF Read
  <2> QED
    BY <2>1
<1>12. <<1, n>> \in Range(e.read)
  BY <1>3, <1>7
<1> QED
  BY <1>7, <1>9, <1>10, <1>11, <1>12 DEF e, n

(* A decoder that was read from, or buffers one symbol more.               *)
Gets(d, e, n) ==
  /\ e \in NocodeDecs /\ ReadInLine(e) /\ Extends(d.read, e.read)
  /\ e.eager => e.len = 0
  /\ \/ e.len = n /\ Read(e) = Read(d)
     \/ d.eager /\ e.len = 0 /\ Read(e) = Read(d) \cup {n}

LEMMA NocodePut ==
  ASSUME NEW d \in NocodeDecs, ReadInLine(d), NEW p \in Singles,
         \A x \in Read(d) : x < Number(p)
  PROVE  Gets(d, NocodeDecPutCoded(d, p), Number(p))
<1> DEFINE n == Number(p)
           got == [d EXCEPT !.len = n]
           e == NocodeDecPutCoded(d, p)
<1>1. n \in Nat \ {0} /\ Pivot(p.vec) = n
  BY SingleNumber DEF Number
<1>2. e = IF d.eager THEN NocodeDecGetSource(got) ELSE got
  BY <1>1 DEF NocodeDecPutCoded
<1> HIDE DEF n, e
<1>3. got \in NocodeDecs /\ got.read = d.read /\ got.len = n /\ got.eager = d.eager
  BY <1>1 DEF NocodeDecs
<1> HIDE DEF got
<1>4. ReadInLine(got) /\ Read(got) = Read(d) /\ got.len > 0 /\ \A x \in Read(got) : x < got.len
  BY <1>1, <1>3 DEF ReadInLine, Read, n
<1>5. CASE e = got /\ ~d.eager
  <2>1. Extends(d.read, e.read)
    <3>1. d.read \in Seq({1} \X (Nat \ {0}))
      BY DEF NocodeDecs
    <3>2. e.read = d.read /\ Len(d.read) \in Nat
      BY <1>3, <1>5, <3>1
    <3> QED
      BY <3>2 DEF Extends
  <2> QED
    BY <1>3, <1>4, <1>5, <2>1 DEF Gets, n, e
<1>6. CASE e = NocodeDecGetSource(got) /\ d.eager
  <2>1. /\ e \in NocodeDecs /\ ReadInLine(e) /\ e.len = 0 /\ Extends(got.read, e.read)
        /\ Read(e) = Read(got) \cup {got.len}
    BY <1>3, <1>4, <1>6, NocodeTake
  <2> QED
    BY <1>3, <1>4, <1>6, <2>1 DEF Gets, n, e
<1> QED
  BY <1>2, <1>5, <1>6

(* What a step does: symbols are put in or not, and a symbol that can be   *)
(* handed out stays, was, or has another in its place.                     *)
BufferGoes ==
  /\ sent' = sent \/ (dec' = dec /\ sent' = Append(sent, <<1, enc.count + 1>>))
  /\ Extends(dec.read, dec'.read)
  /\ dec.len # 0 => dec'.len # 0 \/ <<1, dec.len>> \in Range(dec'.read)

LEMMA BufferStill ==
  ASSUME dec \in NocodeDecs, dec' = dec, sent' = sent
  PROVE  BufferGoes
<1>1. dec.read \in Seq({1} \X (Nat \ {0}))
  BY DEF NocodeDecs
<1>2. Len(dec.read) \in Nat
  BY <1>1
<1> QED
  BY <1>2 DEF BufferGoes, Extends

LEMMA SevenLevels ==
  ASSUME NEW i \in 1 .. 7
  PROVE  i = 1 \/ i = 2 \/ i = 3 \/ i = 4 \/ i = 5 \/ i = 6 \/ i = 7
OBVIOUS

LEMMA LevelsAre ==
  /\ Levels[1] = Read(dec) /\ Levels[2] = Buffered(dec.len) /\ Levels[3] = OnPath(air)
  /\ Levels[4] = Waiting(rec, opt.relay) /\ Levels[5] = OnPath(down)
  /\ Levels[6] = Buffered(enc.len) /\ Levels[7] = {n \in Nat : n > enc.count}
BY DEF Levels

LEMMA LevelsNext ==
  /\ Levels'[1] = Read(dec') /\ Levels'[2] = Buffered(dec'.len) /\ Levels'[3] = OnPath(air')
  /\ Levels'[4] = Waiting(rec', opt'.relay) /\ Levels'[5] = OnPath(down')
  /\ Levels'[6] = Buffered(enc'.len) /\ Levels'[7] = {n \in Nat : n > enc'.count}
BY DEF Levels, Read

LEMMA BufferPut ==
  ASSUME BufferInv, Buffering(opt), PutSource
  PROVE  BufferInv' /\ BufferGoes
<1> DEFINE n == enc.count + 1
<1>1. /\ enc \in NocodeEncs /\ dec \in NocodeDecs /\ enc.protocol = "nocode" /\ enc.count \in Nat
      /\ Counts(sent, enc.count) /\ Chain(Levels) /\ n \in Nat
  BY DEF BufferInv, NocodeEncs
<1>2. /\ ~NckEncFull(enc) /\ enc' = NckEncPutSource(enc) /\ sent' = Append(sent, NckEncSlot(enc'))
      /\ opt' = opt /\ rec' = rec /\ dec' = dec
      /\ down' = down /\ back' = back /\ air' = air /\ echo' = echo
  BY DEF PutSource, paths
<1>3. enc' = [enc EXCEPT !.count = n, !.len = n]
  BY <1>1, <1>2 DEF NckEncPutSource, NocodeEncPutSource
<1>4. enc' \in NocodeEncs /\ enc'.count = n /\ enc'.len = n /\ enc'.protocol = "nocode"
  BY <1>1, <1>3 DEF NocodeEncs
<1>5. sent' = Append(sent, <<1, n>>)
  BY <1>2, <1>4 DEF NckEncSlot
<1>6. Counts(sent', n)
  <2>1. sent \in Seq({1} \X Nat) /\ Len(sent) = enc.count
        /\ \A i \in 1 .. enc.count : sent[i] = <<1, i>>
    BY <1>1 DEF Counts
  <2>2. <<1, n>> \in {1} \X Nat
    BY <1>1
  <2> DEFINE more == Append(sent, <<1, n>>)
  <2>3. /\ more \in Seq({1} \X Nat) /\ Len(more) = Len(sent) + 1
        /\ \A i \in 1 .. Len(sent) : more[i] = sent[i]
        /\ more[Len(sent) + 1] = <<1, n>>
    BY <2>1, <2>2, RangeAppend
  <2> HIDE DEF more
  <2>4. \A i \in 1 .. n : i \in 1 .. enc.count \/ i = n
    BY <1>1
  <2>5. \A i \in 1 .. n : more[i] = <<1, i>>
    BY <2>1, <2>3, <2>4
  <2>6. Counts(more, n)
    BY <2>1, <2>3, <2>5 DEF Counts
  <2> QED
    BY <1>5, <2>6 DEF more
<1>7. Chain(Levels')
  <2>1. n \in Levels[7]
    BY <1>1, LevelsAre
  <2>2. Levels'[6] \subseteq Levels[6] \cup {n}
    BY <1>4, LevelsNext DEF Buffered
  <2>3. Levels'[7] \subseteq Levels[7] /\ \A y \in Levels'[7] : n < y
    BY <1>1, <1>4, LevelsAre, LevelsNext
  <2>4. \A i \in 1 .. 7 : i # 6 => Levels'[i] \subseteq Levels[i]
    BY <1>2, <2>3, LevelsAre, LevelsNext, SevenLevels
  <2>5. \A j \in 1 .. 7 : 6 < j /\ j <= 7 => \A y \in Levels'[j] : n < y
    BY <2>3, SevenLevels
  <2>6. 6 \in 1 .. 7 /\ 7 \in 1 .. 7 /\ 6 <= 7
    OBVIOUS
  <2> HIDE DEF n
  <2> QED
    BY <1>1, <2>1, <2>2, <2>4, <2>5, <2>6, PassOn
<1>8. BufferInv'
  BY <1>2, <1>4, <1>6, <1>7 DEF BufferInv, Chain, NocodeDecs, NocodeRecs, ReadInLine
<1>9. BufferGoes
  <2>1. Len(dec.read) \in Nat
    BY <1>1 DEF NocodeDecs
  <2> QED
    BY <1>2, <1>5, <2>1 DEF BufferGoes, Extends
<1> QED
  BY <1>8, <1>9

LEMMA ChainKept ==
  ASSUME NEW L, NEW M, Chain(L), \A i \in 1 .. 7 : M[i] \subseteq L[i]
  PROVE  Chain(M)
BY DEF Chain

LEMMA BufferFacts ==
  ASSUME BufferInv
  PROVE  /\ enc \in NocodeEncs /\ dec \in NocodeDecs /\ ReadInLine(dec)
         /\ enc.protocol = "nocode" /\ dec.protocol = "nocode"
         /\ opt.relay => rec \in NocodeRecs /\ rec.protocol = "nocode"
                         /\ (rec.has_coded => rec.len > 0)
         /\ ~opt.relay => rec = NoRelay /\ air = <<>>
         /\ InLine(down) /\ InLine(air) /\ back = <<>> /\ echo = <<>>
         /\ Chain(Levels)
BY DEF BufferInv, NocodeEncs, NocodeDecs, NocodeRecs

LEMMA BufferSend ==
  ASSUME BufferInv, Buffering(opt),
         NckEncHasCoded(enc), NEW pkt \in NckEncPackets(enc), SendCoded(pkt)
  PROVE  BufferInv' /\ BufferGoes
<1> DEFINE n == enc.len
<1>1. /\ enc \in NocodeEncs /\ dec \in NocodeDecs /\ enc.protocol = "nocode"
      /\ InLine(down) /\ InLine(air) /\ Chain(Levels)
  BY BufferFacts
<1>2. /\ enc' = NckEncGetCoded(enc) /\ down' = Append(down, pkt)
      /\ opt' = opt /\ rec' = rec /\ dec' = dec /\ sent' = sent
      /\ back' = back /\ air' = air /\ echo' = echo
  BY DEF SendCoded
<1>3. n \in Nat \ {0} /\ pkt = [generation |-> 1, rank |-> 0, vec |-> {n}]
  BY <1>1 DEF NckEncHasCoded, NocodeEncHasCoded, NckEncPackets, NocodeEncPackets, NocodeEncs
<1>4. enc' = [enc EXCEPT !.len = 0]
  BY <1>1, <1>2 DEF NckEncGetCoded, NocodeEncGetCoded
<1>5. enc' \in NocodeEncs /\ enc'.count = enc.count /\ enc'.len = 0
  BY <1>1, <1>4 DEF NocodeEncs
<1>6. n \in Levels[6]
  BY <1>3, LevelsAre DEF Buffered
<1>7. \A x \in OnPath(down) : x < n
  <2>1. \A x \in Levels[5] : x < n
    BY <1>1, <1>6 DEF Chain
  <2> QED
    BY <2>1, LevelsAre
<1>8. InLine(down') /\ OnPath(down') = OnPath(down) \cup {n}
  <2> HIDE DEF n
  <2> QED
    BY <1>1, <1>2, <1>3, <1>7, InLineAppend
<1>9. Chain(Levels')
  <2>1. Levels'[5] \subseteq Levels[5] \cup {n}
    BY <1>8, LevelsAre, LevelsNext
  <2>2. Levels'[6] = {}
    BY <1>5, LevelsNext DEF Buffered
  <2>3. \A i \in 1 .. 7 : i # 5 => Levels'[i] \subseteq Levels[i]
    BY <1>2, <1>5, <2>2, LevelsAre, LevelsNext, SevenLevels
  <2>4. \A j \in 1 .. 7 : 5 < j /\ j <= 6 => \A y \in Levels'[j] : n < y
    BY <2>2, SevenLevels
  <2>5. 5 \in 1 .. 7 /\ 6 \in 1 .. 7 /\ 5 <= 6
    OBVIOUS
  <2> HIDE DEF n
  <2> QED
    BY <1>1, <1>6, <2>1, <2>3, <2>4, <2>5, PassOn
<1>10. BufferInv'
  BY <1>2, <1>5, <1>8, <1>9 DEF BufferInv, Chain, NocodeDecs, NocodeRecs, ReadInLine, InLine
<1> QED
  BY <1>1, <1>2, <1>10, BufferStill

(* nck_nocode_rec_get_source and nck_nocode_rec_put_coded                  *)
LEMMA NocodeRecTake ==
  ASSUME NEW r \in NocodeRecs
  PROVE  LET e == NocodeRecGetSource(r)
         IN e \in NocodeRecs /\ e.len = r.len /\ e.has_coded = r.has_coded
<1> DEFINE q == Append(r.read, <<1, r.len>>)
<1>1. q \in Seq({1} \X Nat)
  <2>1. r.read \in Seq({1} \X Nat) /\ <<1, r.len>> \in {1} \X Nat
    BY DEF NocodeRecs
  <2> QED
    BY <2>1, RangeAppend
<1>2. NocodeRecGetSource(r) = [r EXCEPT !.read = q, !.has_source = FALSE]
  BY DEF NocodeRecGetSource
<1> HIDE DEF q
<1> QED
  BY <1>1, <1>2 DEF NocodeRecs

LEMMA NocodeRecPut ==
  ASSUME NEW r \in NocodeRecs, NEW p \in Singles
  PROVE  LET e == NocodeRecPutCoded(r, p)
         IN e \in NocodeRecs /\ e.len = Number(p) /\ e.len > 0 /\ e.has_coded = TRUE
<1> DEFINE n == Number(p)
           got == [r EXCEPT !.len = n, !.has_source = TRUE, !.has_coded = TRUE]
           e == NocodeRecPutCoded(r, p)
<1>1. n \in Nat \ {0} /\ Pivot(p.vec) = n
  BY SingleNumber DEF Number
<1>2. e = got \/ e = NocodeRecGetSource(got)
  BY <1>1 DEF NocodeRecPutCoded
<1> HIDE DEF n, e
<1>3. got \in NocodeRecs /\ got.len = n /\ got.has_coded = TRUE
  BY <1>1 DEF NocodeRecs
<1> HIDE DEF got
<1>4. NocodeRecGetSource(got) \in NocodeRecs /\ NocodeRecGetSource(got).len = n
      /\ NocodeRecGetSource(got).has_coded = TRUE
  BY <1>3, NocodeRecTake
<1>5. e \in NocodeRecs /\ e.len = n /\ e.has_coded = TRUE
  BY <1>2, <1>3, <1>4
<1> QED
  BY <1>1, <1>5 DEF e, n

LEMMA BufferRelay ==
  ASSUME BufferInv, Buffering(opt),
         \/ RelayReceive
         \/ opt.relay /\ NckRecHasCoded(rec) /\ \E pkt \in NckRecPackets(rec) : RelaySend(pkt)
         \/ RelayTake
  PROVE  BufferInv' /\ BufferGoes
<1>0. /\ enc \in NocodeEncs /\ dec \in NocodeDecs /\ ReadInLine(dec)
      /\ rec \in NocodeRecs /\ rec.protocol = "nocode" /\ (rec.has_coded => rec.len > 0)
      /\ InLine(down) /\ InLine(air) /\ Chain(Levels) /\ opt.relay /\ opt.reorder = FALSE
  BY BufferFacts DEF RelayReceive, RelayTake, Buffering
<1>1. /\ opt' = opt /\ enc' = enc /\ dec' = dec /\ sent' = sent /\ back' = back /\ echo' = echo
  BY DEF RelayReceive, RelayTake, RelaySend, paths
<1>2. SUFFICES /\ rec' \in NocodeRecs /\ (rec'.has_coded => rec'.len > 0)
               /\ InLine(down') /\ InLine(air') /\ Chain(Levels')
  <2>1. BufferInv'
    BY <1>0, <1>1, <1>2 DEF BufferInv, Chain, NocodeDecs, NocodeRecs, ReadInLine, InLine
  <2> QED
    BY <1>0, <1>1, <2>1, BufferStill
<1>3. CASE RelayReceive
  <2> DEFINE p == Head(down)
             n == Number(p)
  <2>1. PICK i \in Heads(down) : rec' = NckRecPutCoded(rec, down[i]) /\ down' = RemoveAt(down, i)
    BY <1>3 DEF RelayReceive
  <2>2. down # <<>> /\ down[i] = p /\ down' = Tail(down) /\ air' = air
    BY <1>0, <1>3, <2>1, HeadOnly DEF RelayReceive
  <2>3. /\ InLine(down') /\ OnPath(down') \subseteq OnPath(down) /\ p \in Singles
        /\ n \in OnPath(down) /\ \A x \in OnPath(down') : n < x
    BY <1>0, <2>2, InLineTail
  <2>4. rec' = NocodeRecPutCoded(rec, p)
    BY <1>0, <2>1, <2>2 DEF NckRecPutCoded
  <2> HIDE DEF p
  <2>5. rec' \in NocodeRecs /\ rec'.len = n /\ rec'.len > 0 /\ rec'.has_coded = TRUE
    BY <1>0, <2>3, <2>4, NocodeRecPut
  <2> HIDE DEF n
  <2>6. n \in Levels[5] /\ Levels'[4] \subseteq Levels[4] \cup {n}
        /\ Levels'[5] \subseteq Levels[5] /\ \A y \in Levels'[5] : n < y
    BY <1>0, <1>1, <2>3, <2>5, LevelsAre, LevelsNext DEF Waiting
  <2>7. \A k \in 1 .. 7 : k # 4 => Levels'[k] \subseteq Levels[k]
    BY <1>1, <2>2, <2>6, LevelsAre, LevelsNext, SevenLevels
  <2>8. \A j \in 1 .. 7 : 4 < j /\ j <= 5 => \A y \in Levels'[j] : n < y
    BY <2>6, SevenLevels
  <2>9. 4 \in 1 .. 7 /\ 5 \in 1 .. 7 /\ 4 <= 5
    OBVIOUS
  <2>10. Chain(Levels')
    BY <1>0, <2>6, <2>7, <2>8, <2>9, PassOn
  <2> QED
    BY <1>0, <2>2, <2>3, <2>5, <2>10
<1>4. ASSUME NckRecHasCoded(rec), NEW pkt \in NckRecPackets(rec), RelaySend(pkt)
      PROVE  /\ rec' \in NocodeRecs /\ (rec'.has_coded => rec'.len > 0)
             /\ InLine(down') /\ InLine(air') /\ Chain(Levels')
  <2> DEFINE n == rec.len
  <2>1. /\ rec' = NckRecGetCoded(rec) /\ air' = Append(air, pkt) /\ down' = down
    BY <1>4 DEF RelaySend
  <2>2. rec.has_coded /\ n \in Nat \ {0} /\ pkt = [generation |-> 1, rank |-> 0, vec |-> {n}]
    BY <1>0, <1>4 DEF NckRecHasCoded, NckRecPackets, NocodeRecPackets, NocodeRecs
  <2>3. rec' = [rec EXCEPT !.has_coded = FALSE]
    BY <1>0, <2>1 DEF NckRecGetCoded, NocodeRecGetCoded
  <2>4. rec' \in NocodeRecs /\ rec'.has_coded = FALSE
    BY <1>0, <2>3 DEF NocodeRecs
  <2>5. n \in Levels[4]
    BY <1>0, <2>2, LevelsAre DEF Waiting
  <2>6. \A x \in OnPath(air) : x < n
    <3>1. \A x \in Levels[3] : x < n
      BY <1>0, <2>5 DEF Chain
    <3> QED
      BY <3>1, LevelsAre
  <2> HIDE DEF n
  <2>7. InLine(air') /\ OnPath(air') = OnPath(air) \cup {n}
    BY <1>0, <2>1, <2>2, <2>6, InLineAppend
  <2>8. Levels'[3] \subseteq Levels[3] \cup {n} /\ Levels'[4] = {}
    BY <1>1, <2>4, <2>7, LevelsAre, LevelsNext DEF Waiting
  <2>9. \A k \in 1 .. 7 : k # 3 => Levels'[k] \subseteq Levels[k]
    BY <1>1, <2>1, <2>8, LevelsAre, LevelsNext, SevenLevels
  <2>10. \A j \in 1 .. 7 : 3 < j /\ j <= 4 => \A y \in Levels'[j] : n < y
    BY <2>8, SevenLevels
  <2>11. 3 \in 1 .. 7 /\ 4 \in 1 .. 7 /\ 3 <= 4
    OBVIOUS
  <2>12. Chain(Levels')
    BY <1>0, <2>5, <2>8, <2>9, <2>10, <2>11, PassOn
  <2> QED
    BY <1>0, <2>1, <2>4, <2>7, <2>12
<1>5. CASE RelayTake
  <2>1. rec' = NocodeRecGetSource(rec) /\ down' = down /\ air' = air
    BY <1>0, <1>5 DEF RelayTake, NckRecGetSource, paths
  <2>2. rec' \in NocodeRecs /\ rec'.len = rec.len /\ rec'.has_coded = rec.has_coded
    BY <1>0, <2>1, NocodeRecTake
  <2>3. \A i \in 1 .. 7 : Levels'[i] \subseteq Levels[i]
    BY <1>1, <2>1, <2>2, LevelsAre, LevelsNext, SevenLevels DEF Waiting
  <2> QED
    BY <1>0, <2>1, <2>2, <2>3, ChainKept
<1> QED
  BY <1>3, <1>4, <1>5

LEMMA BufferGets ==
  ASSUME Chain(Levels), NEW b \in 3 .. 7, NEW n \in Levels[b], Gets(dec, dec', n),
         \A i \in 3 .. 7 : Levels'[i] \subseteq Levels[i],
         \A j \in 3 .. 7 : j <= b => \A y \in Levels'[j] : n < y
  PROVE  Chain(Levels')
<1>0. b \in 1 .. 7 /\ 1 <= b /\ 2 <= b /\ 1 \in 1 .. 7 /\ 2 \in 1 .. 7
  OBVIOUS
<1>1. \A i \in 1 .. 7 : i = 1 \/ i = 2 \/ i \in 3 .. 7
  OBVIOUS
<1>2. CASE dec'.len = n /\ Read(dec') = Read(dec)
  <2>1. Levels'[1] \subseteq Levels[1] /\ Levels'[2] \subseteq Levels[2] \cup {n}
    BY <1>2, LevelsAre, LevelsNext DEF Buffered
  <2>2. \A i \in 1 .. 7 : i # 2 => Levels'[i] \subseteq Levels[i]
    BY <1>1, <2>1
  <2>3. \A j \in 1 .. 7 : 2 < j /\ j <= b => \A y \in Levels'[j] : n < y
    <3>1. \A j \in 1 .. 7 : 2 < j => j \in 3 .. 7
      OBVIOUS
    <3> QED
      BY <3>1
  <2> QED
    BY <1>0, <2>1, <2>2, <2>3, PassOn
<1>3. CASE dec'.len = 0 /\ Read(dec') = Read(dec) \cup {n}
  <2>1. Levels'[1] \subseteq Levels[1] \cup {n} /\ Levels'[2] = {}
    BY <1>3, LevelsAre, LevelsNext DEF Buffered
  <2>2. \A i \in 1 .. 7 : i # 1 => Levels'[i] \subseteq Levels[i]
    BY <1>1, <2>1
  <2>3. \A j \in 1 .. 7 : 1 < j /\ j <= b => \A y \in Levels'[j] : n < y
    <3>1. \A j \in 1 .. 7 : 1 < j => j = 2 \/ j \in 3 .. 7
      OBVIOUS
    <3> QED
      BY <2>1, <3>1
  <2> QED
    BY <1>0, <2>1, <2>2, <2>3, PassOn
<1> QED
  BY <1>2, <1>3 DEF Gets

LEMMA BufferReceive ==
  ASSUME BufferInv, Buffering(opt), DecReceive
  PROVE  BufferInv' /\ BufferGoes
<1>0. /\ enc \in NocodeEncs /\ dec \in NocodeDecs /\ ReadInLine(dec) /\ dec.protocol = "nocode"
      /\ opt.relay => rec \in NocodeRecs /\ (rec.has_coded => rec.len > 0)
      /\ ~opt.relay => rec = NoRelay /\ air = <<>>
      /\ InLine(down) /\ InLine(air) /\ Chain(Levels) /\ opt.reorder = FALSE
  BY BufferFacts DEF Buffering
<1>1. /\ opt' = opt /\ enc' = enc /\ rec' = rec /\ sent' = sent /\ back' = back /\ echo' = echo
  BY DEF DecReceive
<1> DEFINE From(path, b, n) ==
             /\ b \in 3 .. 7 /\ path # <<>> /\ n = Number(Head(path)) /\ n \in Levels[b]
             /\ dec' \in NckDecPutCodeds(dec, Head(path))
             /\ Head(path) \in Singles
             /\ InLine(down') /\ InLine(air') /\ (~opt.relay => air' = <<>>)
             /\ \A i \in 3 .. 7 : Levels'[i] \subseteq Levels[i]
             /\ \A j \in 3 .. 7 : j <= b => \A y \in Levels'[j] : n < y
<1>2. \A i \in 3 .. 7 : i = 3 \/ i = 4 \/ i = 5 \/ i = 6 \/ i = 7
  OBVIOUS
<1>3. ASSUME NEW path, NEW i \in Heads(path), Receive(path, i), InLine(path)
      PROVE  /\ path # <<>> /\ path[i] = Head(path) /\ RemoveAt(path, i) = Tail(path)
             /\ dec' \in NckDecPutCodeds(dec, Head(path))
             /\ InLine(Tail(path)) /\ OnPath(Tail(path)) \subseteq OnPath(path)
             /\ Head(path) \in Singles /\ Number(Head(path)) \in OnPath(path)
             /\ \A x \in OnPath(Tail(path)) : Number(Head(path)) < x
  <2>1. path # <<>> /\ path[i] = Head(path) /\ RemoveAt(path, i) = Tail(path)
    BY <1>0, <1>3, HeadOnly
  <2> QED
    BY <1>3, <2>1, InLineTail DEF Receive
<1>4. \E path, b, n : From(path, b, n)
  <2>1. CASE ~opt.relay
    <3>1. PICK i \in Heads(down) : Receive(down, i) /\ down' = RemoveAt(down, i) /\ air' = air
      BY <2>1 DEF DecReceive
    <3> DEFINE n == Number(Head(down))
    <3>2. /\ down # <<>> /\ down' = Tail(down) /\ dec' \in NckDecPutCodeds(dec, Head(down))
          /\ InLine(down') /\ OnPath(down') \subseteq OnPath(down)
          /\ Head(down) \in Singles /\ n \in OnPath(down) /\ \A x \in OnPath(down') : n < x
      <4>1. /\ down # <<>> /\ down[i] = Head(down) /\ RemoveAt(down, i) = Tail(down)
            /\ dec' \in NckDecPutCodeds(dec, Head(down))
            /\ InLine(Tail(down)) /\ OnPath(Tail(down)) \subseteq OnPath(down)
            /\ Head(down) \in Singles /\ Number(Head(down)) \in OnPath(down)
            /\ \A x \in OnPath(Tail(down)) : Number(Head(down)) < x
        <5>1. i \in Heads(down) /\ Receive(down, i) /\ InLine(down)
          BY <1>0, <3>1
        <5> QED
          BY <1>3, <5>1, Zenon
      <4>2. down' = Tail(down)
        BY <3>1, <4>1
      <4> QED
        BY <4>1, <4>2
    <3> HIDE DEF n
    <3>3. Levels'[3] = {} /\ Levels'[4] = {}
      BY <1>0, <1>1, <2>1, <3>1, LevelsNext DEF OnPath, Range, Waiting
    <3>4. n \in Levels[5] /\ Levels'[5] \subseteq Levels[5] /\ \A y \in Levels'[5] : n < y
      BY <3>2, LevelsAre, LevelsNext
    <3>5. Levels'[6] \subseteq Levels[6] /\ Levels'[7] \subseteq Levels[7]
      BY <1>1, LevelsAre, LevelsNext
    <3>6. \A k \in 3 .. 7 : Levels'[k] \subseteq Levels[k]
      BY <1>2, <3>3, <3>4, <3>5
    <3>7. \A j \in 3 .. 7 : j <= 5 => \A y \in Levels'[j] : n < y
      BY <1>2, <3>3, <3>4
    <3>8. From(down, 5, n)
      BY <1>0, <2>1, <3>1, <3>2, <3>4, <3>6, <3>7 DEF n
    <3> QED
      BY <3>8
  <2>2. CASE opt.relay
    <3>1. PICK i \in Heads(air) : Receive(air, i) /\ air' = RemoveAt(air, i) /\ down' = down
      BY <2>2 DEF DecReceive
    <3> DEFINE n == Number(Head(air))
    <3>2. /\ air # <<>> /\ air' = Tail(air) /\ dec' \in NckDecPutCodeds(dec, Head(air))
          /\ InLine(air') /\ OnPath(air') \subseteq OnPath(air)
          /\ Head(air) \in Singles /\ n \in OnPath(air) /\ \A x \in OnPath(air') : n < x
      <4>1. /\ air # <<>> /\ air[i] = Head(air) /\ RemoveAt(air, i) = Tail(air)
            /\ dec' \in NckDecPutCodeds(dec, Head(air))
            /\ InLine(Tail(air)) /\ OnPath(Tail(air)) \subseteq OnPath(air)
            /\ Head(air) \in Singles /\ Number(Head(air)) \in OnPath(air)
            /\ \A x \in OnPath(Tail(air)) : Number(Head(air)) < x
        <5>1. i \in Heads(air) /\ Receive(air, i) /\ InLine(air)
          BY <1>0, <3>1
        <5> QED
          BY <1>3, <5>1, Zenon
      <4>2. air' = Tail(air)
        BY <3>1, <4>1
      <4> QED
        BY <4>1, <4>2
    <3> HIDE DEF n
    <3>4. n \in Levels[3] /\ Levels'[3] \subseteq Levels[3] /\ \A y \in Levels'[3] : n < y
      BY <3>2, LevelsAre, LevelsNext
    <3>5. /\ Levels'[4] \subseteq Levels[4] /\ Levels'[5] \subseteq Levels[5]
          /\ Levels'[6] \subseteq Levels[6] /\ Levels'[7] \subseteq Levels[7]
      BY <1>1, <3>1, LevelsAre, LevelsNext
    <3>6. \A k \in 3 .. 7 : Levels'[k] \subseteq Levels[k]
      BY <1>2, <3>4, <3>5
    <3>7. \A j \in 3 .. 7 : j <= 3 => \A y \in Levels'[j] : n < y
      BY <1>2, <3>4
    <3>8. From(air, 3, n)
      BY <1>0, <2>2, <3>1, <3>2, <3>4, <3>6, <3>7 DEF n
    <3> QED
      BY <3>8
  <2> QED
    BY <2>1, <2>2
<1>5. PICK path, b, n : From(path, b, n)
  BY <1>4
<1>6. dec' = NocodeDecPutCoded(dec, Head(path))
  BY <1>0, <1>5 DEF NckDecPutCodeds
<1>7. \A x \in Read(dec) : x < n
  <2>1. \A x \in Levels[1] : x < n
    <3>1. b \in 1 .. 7 /\ 1 < b /\ 1 \in 1 .. 7
      BY <1>5
    <3> QED
      BY <1>0, <1>5, <3>1 DEF Chain
  <2> QED
    BY <2>1, LevelsAre
<1>8. Gets(dec, dec', n)
  BY <1>0, <1>5, <1>6, <1>7, NocodePut
<1>9. Chain(Levels')
  BY <1>0, <1>5, <1>8, BufferGets
<1>10. BufferInv'
  BY <1>0, <1>1, <1>5, <1>8, <1>9 DEF BufferInv, Gets, Chain, NocodeDecs, NocodeRecs, ReadInLine, InLine
<1>11. BufferGoes
  <2>1. n # 0 /\ (dec.eager => dec.len = 0)
    BY <1>5, SingleNumber DEF Number, BufferInv
  <2> QED
    BY <1>1, <1>8, <2>1 DEF BufferGoes, Gets
<1> QED
  BY <1>10, <1>11

LEMMA BufferOthers ==
  ASSUME BufferInv, Buffering(opt),
         \/ WriteOutput
         \/ SendFeedback
         \/ \E heard \in SUBSET Listeners : HearFeedback(heard)
         \/ RelayFeedback
         \/ HearEcho
         \/ Lose
         \/ EncTimer
         \/ RecTimer
         \/ DecTimer
         \/ FlushCoded
         \/ FlushSource
         \/ UNCHANGED vars
  PROVE  BufferInv' /\ BufferGoes
<1>0. /\ enc \in NocodeEncs /\ dec \in NocodeDecs /\ ReadInLine(dec)
      /\ enc.protocol = "nocode" /\ dec.protocol = "nocode"
      /\ opt.relay => rec \in NocodeRecs /\ rec.protocol = "nocode" /\ (rec.has_coded => rec.len > 0)
      /\ ~opt.relay => rec = NoRelay /\ air = <<>>
      /\ InLine(down) /\ InLine(air) /\ back = <<>> /\ echo = <<>> /\ Chain(Levels)
  BY BufferFacts
<1>1. CASE WriteOutput
  <2>1. /\ NckDecHasSource(dec) /\ dec' = NckDecGetSource(dec)
        /\ UNCHANGED <<opt, enc, rec, down, air, back, echo, sent>>
    BY <1>1 DEF WriteOutput, paths
  <2>2. dec.len > 0 /\ dec' = NocodeDecGetSource(dec) /\ dec.len \in Nat
    BY <1>0, <2>1 DEF NckDecHasSource, NocodeDecHasSource, NckDecGetSource, NocodeDecs
  <2> DEFINE n == dec.len
  <2>3. n \in Levels[2]
    BY <2>2, LevelsAre DEF Buffered
  <2>4. \A x \in Read(dec) : x < n
    <3>1. \A x \in Levels[1] : x < n
      BY <1>0, <2>3 DEF Chain
    <3> QED
      BY <3>1, LevelsAre
  <2>5. /\ dec' \in NocodeDecs /\ ReadInLine(dec') /\ dec'.len = 0 /\ Extends(dec.read, dec'.read)
        /\ Read(dec') = Read(dec) \cup {n} /\ <<1, n>> \in Range(dec'.read)
    BY <1>0, <2>2, <2>4, NocodeTake
  <2>6. Levels'[1] \subseteq Levels[1] \cup {n} /\ Levels'[2] = {}
    BY <2>5, LevelsAre, LevelsNext DEF Buffered
  <2> HIDE DEF n
  <2>7. \A i \in 1 .. 7 : i # 1 => Levels'[i] \subseteq Levels[i]
    BY <2>1, <2>6, LevelsAre, LevelsNext, SevenLevels
  <2>8. \A j \in 1 .. 7 : 1 < j /\ j <= 2 => \A y \in Levels'[j] : n < y
    BY <2>6, SevenLevels
  <2>9. 1 \in 1 .. 7 /\ 2 \in 1 .. 7 /\ 1 <= 2
    OBVIOUS
  <2>10. Chain(Levels')
    BY <1>0, <2>3, <2>6, <2>7, <2>8, <2>9, PassOn
  <2>11. BufferInv'
    BY <2>1, <2>5, <2>10 DEF BufferInv, Chain, NocodeDecs, NocodeRecs, ReadInLine, InLine
  <2>12. BufferGoes
    BY <2>1, <2>5 DEF BufferGoes, n
  <2> QED
    BY <2>11, <2>12
<1>2. CASE Lose
  <2>1. UNCHANGED <<opt, enc, rec, dec, back, sent>> /\ echo' = echo
    BY <1>0, <1>2 DEF Lose, coders
  <2>2. \/ down # <<>> /\ down' = Tail(down) /\ air' = air
        \/ air # <<>> /\ air' = Tail(air) /\ down' = down
    BY <1>0, <1>2 DEF Lose
  <2>3. /\ InLine(down') /\ InLine(air') /\ OnPath(down') \subseteq OnPath(down)
        /\ OnPath(air') \subseteq OnPath(air) /\ (~opt.relay => air' = <<>>)
    BY <1>0, <2>2, InLineTail
  <2>4. \A i \in 1 .. 7 : Levels'[i] \subseteq Levels[i]
    BY <2>1, <2>3, LevelsAre, LevelsNext, SevenLevels
  <2>5. Chain(Levels')
    BY <1>0, <2>4, ChainKept
  <2>6. BufferInv'
    BY <2>1, <2>3, <2>5 DEF BufferInv, Chain, NocodeDecs, NocodeRecs, ReadInLine, InLine
  <2> QED
    BY <1>0, <2>1, <2>6, BufferStill
<1>3. CASE \/ SendFeedback \/ (\E heard \in SUBSET Listeners : HearFeedback(heard))
           \/ RelayFeedback \/ HearEcho \/ EncTimer \/ DecTimer \/ RecTimer
  <2>1. ~NckDecHasFeedback(dec) /\ ~NckEncTimer(enc) /\ ~NckDecTimer(dec)
    BY <1>0 DEF NckDecHasFeedback, NckEncTimer, NckDecTimer
  <2>2. rec.protocol \in {"nocode", "none"}
    BY <1>0 DEF NoRelay
  <2>3. ~NckRecHasFeedback(rec) /\ ~NckRecTimer(rec)
    BY <2>2 DEF NckRecHasFeedback, NckRecTimer
  <2> QED
    BY <1>0, <1>3, <2>1, <2>3
    DEF SendFeedback, HearFeedback, RelayFeedback, HearEcho, EncTimer, DecTimer, RecTimer
<1>4. CASE FlushCoded \/ FlushSource \/ UNCHANGED vars
  <2>1. UNCHANGED <<opt, enc, rec, dec, down, air, back, echo, sent>>
    <3>1. NckEncFlushCoded(enc) = enc /\ NckDecFlushSource(dec) = dec
      BY <1>0 DEF NckEncFlushCoded, NckDecFlushSource
    <3> QED
      BY <1>4, <3>1 DEF FlushCoded, FlushSource, vars, paths
  <2>2. \A i \in 1 .. 7 : Levels'[i] \subseteq Levels[i]
    BY <2>1, LevelsAre, LevelsNext, SevenLevels
  <2>3. Chain(Levels')
    BY <1>0, <2>2, ChainKept
  <2>4. BufferInv'
    BY <2>1, <2>3 DEF BufferInv, Chain, NocodeDecs, NocodeRecs, ReadInLine, InLine
  <2> QED
    BY <1>0, <2>1, <2>4, BufferStill
<1> QED
  BY <1>1, <1>2, <1>3, <1>4

LEMMA BufferStarts ==
  ASSUME Init, Buffering(opt)
  PROVE  BufferInv /\ dec.read = <<>> /\ sent = <<>>
<1>1. /\ opt.protocol = "nocode" /\ enc = NckEncStart(opt) /\ dec = NckDecStart(opt)
      /\ rec = (IF opt.relay THEN NckRecStart(opt) ELSE NoRelay)
      /\ down = <<>> /\ air = <<>> /\ back = <<>> /\ echo = <<>> /\ sent = <<>>
  BY DEF Init, Buffering
<1>2. /\ enc = [protocol |-> "nocode", count |-> 0, len |-> 0]
      /\ dec = [protocol |-> "nocode", len |-> 0, read |-> <<>>, eager |-> opt.eager]
      /\ opt.relay => rec = [protocol |-> "nocode", len |-> 0, has_source |-> FALSE,
                             has_coded |-> FALSE, read |-> <<>>, eager |-> opt.eager]
  BY <1>1 DEF NckEncStart, NckDecStart, NckRecStart, NocodeEncStart, NocodeDecStart, NocodeRecStart
<1>3. enc \in NocodeEncs /\ dec \in NocodeDecs /\ ReadInLine(dec) /\ enc.count = 0
  BY <1>2 DEF NocodeEncs, NocodeDecs, ReadInLine
<1>4. opt.relay => rec \in NocodeRecs /\ ~rec.has_coded
  <2> SUFFICES ASSUME opt.relay PROVE rec \in NocodeRecs /\ ~rec.has_coded
    OBVIOUS
  <2>1. rec = [protocol |-> "nocode", len |-> 0, has_source |-> FALSE,
               has_coded |-> FALSE, read |-> <<>>, eager |-> opt.eager]
    BY <1>2
  <2> QED
    BY <2>1 DEF NocodeRecs
<1>5. InLine(down) /\ InLine(air) /\ Counts(sent, 0)
  BY <1>1 DEF InLine, Counts
<1>6. /\ Levels[1] = {} /\ Levels[2] = {} /\ Levels[3] = {} /\ Levels[4] = {} /\ Levels[5] = {}
      /\ Levels[6] = {}
  BY <1>1, <1>2, <1>4, LevelsAre DEF Read, Buffered, OnPath, Waiting, Range
<1>7. Chain(Levels)
  <2> SUFFICES ASSUME NEW i \in 1 .. 7, NEW j \in 1 .. 7, i < j, NEW x \in Levels[i],
                      NEW y \in Levels[j]
               PROVE  x < y
    BY DEF Chain
  <2>1. i # 7
    OBVIOUS
  <2> QED
    BY <1>6, <2>1, SevenLevels
<1> QED
  BY <1>1, <1>2, <1>3, <1>4, <1>5, <1>7 DEF BufferInv

LEMMA BufferSteps ==
  ASSUME BufferInv, Buffering(opt), [Next]_vars
  PROVE  BufferInv' /\ BufferGoes
BY BufferPut, BufferSend, BufferRelay, BufferReceive, BufferOthers DEF Next

(* NOCODE's networks keep every symbol in the order in which it was put    *)
(* in: what was handed out is before what is buffered at the decoder, that *)
(* before what is on its way, up to what the encoder buffers.              *)
THEOREM BufferInvariant == Spec /\ Buffering(opt) => [](BufferInv /\ Buffering(opt))
<1>1. Init /\ Buffering(opt) => BufferInv
  BY BufferStarts
<1>2. BufferInv /\ Buffering(opt) /\ [Next]_vars => (BufferInv /\ Buffering(opt))'
  <2> SUFFICES ASSUME BufferInv, Buffering(opt), [Next]_vars
               PROVE  BufferInv' /\ Buffering(opt')
    OBVIOUS
  <2>1. BufferInv'
    BY BufferSteps
  <2>2. opt' = opt
    BY OptionsStay
  <2> QED
    BY <2>1, <2>2
<1> QED
  BY <1>1, <1>2, PTL DEF Spec

LEMMA PlaceOfCount ==
  ASSUME NEW m \in Nat, NEW s, Counts(s, m), NEW n \in 1 .. m
  PROVE  Place(s, <<1, n>>) = n
<1>1. DOMAIN s = 1 .. m /\ \A i \in 1 .. m : s[i] = <<1, i>>
  <2>1. s \in Seq({1} \X Nat) /\ Len(s) = m /\ \A i \in 1 .. m : s[i] = <<1, i>>
    BY DEF Counts
  <2> QED
    BY <2>1
<1>2. <<1, n>> \in Range(s)
  BY <1>1 DEF Range
<1>3. ASSUME NEW i \in DOMAIN s, s[i] = <<1, n>> PROVE i = n
  <2>1. <<1, i>> = <<1, n>>
    BY <1>1, <1>3
  <2> QED
    BY <2>1
<1> DEFINE p == CHOOSE i \in DOMAIN s : s[i] = <<1, n>>
<1>4. p \in DOMAIN s /\ s[p] = <<1, n>>
  BY <1>1
<1>5. Place(s, <<1, n>>) = p
  BY <1>2 DEF Place
<1> HIDE DEF p
<1> QED
  BY <1>3, <1>4, <1>5

(* The places of what a decoder has handed out.                            *)
InPlace(h, d, m) ==
  /\ h = [i \in 1 .. Len(d.read) |-> d.read[i][2]]
  /\ h \in Seq(1 .. m) /\ Len(h) = Len(d.read) /\ Len(d.read) \in Nat
  /\ \A i \in 1 .. Len(d.read) : h[i] = d.read[i][2]
  /\ \A i, j \in 1 .. Len(h) : i < j => h[i] < h[j]

LEMMA HandedInPlace ==
  ASSUME NEW m \in Nat, NEW s, Counts(s, m), NEW d, d.read \in Seq({1} \X (Nat \ {0})),
         ReadInLine(d), \A x \in Read(d) : x <= m
  PROVE  InPlace(Handed(s, d.read), d, m)
<1> DEFINE n == Len(d.read)
           num == [i \in 1 .. n |-> d.read[i][2]]
           h == Handed(s, d.read)
<1>1. /\ n \in Nat /\ DOMAIN d.read = 1 .. n /\ \A i \in 1 .. n : d.read[i] \in {1} \X (Nat \ {0})
  OBVIOUS
<1>2. \A i \in 1 .. n : num[i] \in Nat \ {0} /\ d.read[i] = <<1, num[i]>> /\ d.read[i][2] = num[i]
  BY <1>1
<1>3. \A i, j \in 1 .. n : i < j => num[i] < num[j]
  BY <1>1 DEF ReadInLine
<1>4. \A i \in 1 .. n : num[i] <= m
  <2>1. \A i \in 1 .. n : d.read[i] \in Range(d.read)
    BY <1>1 DEF Range
  <2> QED
    BY <2>1 DEF Read
<1> HIDE DEF num
<1>5. ASSUME NEW i \in 1 .. n PROVE Place(s, d.read[i]) = num[i] /\ num[i] \in 1 .. m
  <2>1. num[i] \in 1 .. m
    BY <1>2, <1>4
  <2>2. Place(s, <<1, num[i]>>) = num[i]
    BY <2>1, PlaceOfCount
  <2> QED
    BY <1>2, <2>1, <2>2
<1>6. h = [i \in 1 .. n |-> num[i]]
  BY <1>1, <1>5 DEF Handed
<1> HIDE DEF h, n
<1>7. h \in [1 .. n -> 1 .. m] /\ \A i \in 1 .. n : h[i] = num[i]
  BY <1>5, <1>6
<1>8. h \in Seq(1 .. m) /\ Len(h) = n
  <2>1. ASSUME NEW k \in Nat, NEW S, NEW f \in [1 .. k -> S] PROVE f \in Seq(S) /\ Len(f) = k
    OBVIOUS
  <2> QED
    BY <1>1, <1>7, <2>1
<1>9. \A i, j \in 1 .. n : i < j => h[i] < h[j]
  BY <1>3, <1>7
<1>10. h = [i \in 1 .. n |-> d.read[i][2]] /\ \A i \in 1 .. n : h[i] = d.read[i][2]
  BY <1>2, <1>6, <1>7
<1> QED
  BY <1>1, <1>8, <1>9, <1>10 DEF h, n, InPlace

LEMMA BufferCounts ==
  ASSUME NEW d, NEW s, NEW m \in Nat, NEW L,
         d.read \in Seq({1} \X (Nat \ {0})), Counts(s, m),
         Chain(L), L[1] = Read(d), L[7] = {n \in Nat : n > m}
  PROVE  Len(s) = m /\ \A x \in Read(d) : x <= m
<1>1. Len(s) = m
  BY DEF Counts
<1>2. ASSUME NEW x \in Read(d) PROVE x <= m
  <2>1. m + 1 \in L[7] /\ x \in L[1]
    BY <1>2
  <2>2. 1 \in 1 .. 7 /\ 7 \in 1 .. 7 /\ 1 < 7
    OBVIOUS
  <2>3. x < m + 1
    BY <2>1, <2>2 DEF Chain
  <2>4. x \in Nat
    <3>1. PICK i \in DOMAIN d.read : x = d.read[i][2]
      BY <1>2 DEF Read, Range
    <3>2. d.read[i] \in {1} \X (Nat \ {0})
      OBVIOUS
    <3> QED
      BY <3>1, <3>2
  <2> QED
    BY <2>3, <2>4
<1> QED
  BY <1>1, <1>2

LEMMA BufferStream ==
  ASSUME BufferInv, BufferInv', BufferGoes
  PROVE  [Stream!Next]_(Stream!vars)
<1> DEFINE old == [n \in DOMAIN dec.read |-> PlaceOf(dec.read[n])]
           m == enc.count
           k == enc'.count
           next == dec'.read
<1>1. old = Handed(sent, dec.read) /\ old' = Handed(sent', next)
  BY StreamIs
<1> HIDE DEF old
<1>2. /\ dec.read \in Seq({1} \X (Nat \ {0})) /\ ReadInLine(dec)
      /\ m \in Nat /\ Counts(sent, m) /\ Len(sent) = m
      /\ \A x \in Read(dec) : x <= m
  <2>1. /\ dec.read \in Seq({1} \X (Nat \ {0})) /\ ReadInLine(dec)
        /\ m \in Nat /\ Counts(sent, m) /\ Chain(Levels)
    BY DEF BufferInv, NocodeDecs, NocodeEncs
  <2>2. Levels[1] = Read(dec) /\ Levels[7] = {n \in Nat : n > m}
    BY LevelsAre
  <2> HIDE DEF m
  <2> QED
    BY <2>1, <2>2, BufferCounts
<1>3. /\ next \in Seq({1} \X (Nat \ {0})) /\ ReadInLine(dec')
      /\ k \in Nat /\ Counts(sent', k) /\ Len(sent') = k
      /\ \A x \in Read(dec') : x <= k
  <2>1. /\ next \in Seq({1} \X (Nat \ {0})) /\ ReadInLine(dec')
        /\ k \in Nat /\ Counts(sent', k) /\ Chain(Levels')
    BY DEF BufferInv, NocodeDecs, NocodeEncs, ReadInLine, Chain
  <2>2. Levels'[1] = Read(dec') /\ Levels'[7] = {n \in Nat : n > k}
    BY LevelsNext
  <2> HIDE DEF k
  <2> QED
    BY <2>1, <2>2, BufferCounts
<1> HIDE DEF m, k
<1>4. InPlace(Handed(sent, dec.read), dec, m) /\ InPlace(Handed(sent', next), dec', k)
  BY <1>2, <1>3, HandedInPlace
<1>5. CASE dec' = dec
  <2>1. Handed(sent, dec.read) = Handed(sent', dec.read)
    BY <1>4, <1>5 DEF InPlace
  <2>2. old' = old
    BY <1>1, <1>5, <2>1
  <2>3. CASE sent' = sent
    BY <2>2, <2>3 DEF Stream!vars, old
  <2>4. CASE sent' # sent
    <3>1. sent' = Append(sent, <<1, m + 1>>)
      BY <2>4 DEF BufferGoes, m
    <3>2. Len(sent') = Len(sent) + 1
      <4>1. sent \in Seq({1} \X Nat) /\ <<1, m + 1>> \in {1} \X Nat
        BY <1>2 DEF Counts
      <4> QED
        BY <3>1, <4>1, RangeAppend
    <3> QED
      BY <2>2, <3>2 DEF Stream!Next, Stream!Put, old
  <2> QED
    BY <2>3, <2>4
<1>6. CASE dec' # dec
  <2>1. sent' = sent /\ Extends(dec.read, next)
    BY <1>6 DEF BufferGoes
  <2>2. k = m
    BY <1>2, <1>3, <2>1
  <2> DEFINE newest == IF old = <<>> THEN 0 ELSE old[Len(old)]
             new == Handed(sent', next)
  <2>3. old' = new
    BY <1>1
  <2>4. /\ old \in Seq(1 .. m) /\ Len(old) = Len(dec.read) /\ Len(dec.read) \in Nat
        /\ \A i \in 1 .. Len(dec.read) : old[i] = dec.read[i][2]
    BY <1>1, <1>4 DEF InPlace
  <2>5. /\ new \in Seq(1 .. m) /\ Len(new) = Len(next) /\ Len(next) \in Nat
        /\ \A i \in 1 .. Len(next) : new[i] = next[i][2]
        /\ \A i, j \in 1 .. Len(new) : i < j => new[i] < new[j]
    <3> HIDE DEF new
    <3>1. InPlace(new, dec', m)
      BY <1>4, <2>2 DEF new
    <3> QED
      BY <3>1 DEF InPlace
  <2> HIDE DEF new, next
  <2>6. Len(dec.read) <= Len(next) /\ \A j \in 1 .. Len(dec.read) : next[j] = dec.read[j]
    BY <2>1 DEF Extends
  <2>7. Extends(old, new)
    <3> SUFFICES ASSUME NEW j \in 1 .. Len(dec.read) PROVE new[j] = old[j]
      BY <2>4, <2>5, <2>6 DEF Extends
    <3>1. j \in 1 .. Len(next)
      BY <2>4, <2>5, <2>6
    <3> QED
      BY <2>4, <2>5, <2>6, <3>1
  <2>8. \/ new = old
        \/ \E length \in 1 .. m : \E numbers \in [1 .. length -> newest + 1 .. m] :
             /\ \A i, j \in DOMAIN numbers : i < j => numbers[i] < numbers[j]
             /\ new = old \o numbers
    BY <1>2, <2>4, <2>5, <2>7, PlacesOn
  <2>9. CASE new = old
    BY <2>1, <2>3, <2>9 DEF Stream!vars, old
  <2>10. CASE /\ new # old
              /\ \E length \in 1 .. m :
                   \E numbers \in [1 .. length -> newest + 1 .. m] :
                     /\ \A i, j \in DOMAIN numbers : i < j => numbers[i] < numbers[j]
                     /\ new = old \o numbers
    <3>1. \E length \in 1 .. Len(sent) :
            \E numbers \in [1 .. length -> newest + 1 .. Len(sent)] :
              /\ \A i, j \in DOMAIN numbers : i < j => numbers[i] < numbers[j]
              /\ old' = old \o numbers
      BY <1>2, <2>3, <2>10
    <3>2. Stream!Deliver
      BY <2>1, <2>3, <2>10, <3>1 DEF Stream!Deliver, Stream!Newest, Stream!Ascending, old
    <3> QED
      BY <3>2 DEF Stream!Next
  <2> QED
    BY <2>8, <2>9, <2>10
<1> QED
  BY <1>5, <1>6

(* NOCODE implements a lossy stream over paths that keep the order (every  *)
(* get_source): each coder overwrites what it buffers, but what is handed  *)
(* out was put in after all that was handed out before it.                 *)
THEOREM NocodeImplementsStream == Spec /\ Buffering(opt) => StreamSpec
<1>1. Init /\ Buffering(opt) => Stream!Init
  <2>1. ASSUME Init, Buffering(opt) PROVE sent = <<>> /\ dec.read = <<>>
    BY <2>1, BufferStarts
  <2>2. ASSUME sent = <<>>, dec.read = <<>>
        PROVE  Len(sent) = 0 /\ [n \in DOMAIN dec.read |-> PlaceOf(dec.read[n])] = <<>>
    <3>1. DOMAIN dec.read = 1 .. 0 /\ Len(sent) = 0
      BY <2>2
    <3> QED
      BY <3>1
  <2> QED
    BY <2>1, <2>2 DEF Stream!Init
<1>2. BufferInv /\ Buffering(opt) /\ [Next]_vars => [Stream!Next]_(Stream!vars)
  BY BufferSteps, BufferStream
<1> QED
  BY <1>1, <1>2, BufferInvariant, PTL DEF Spec, StreamSpec, Stream!Spec

(* A NOCODE decoder hands out the symbol it buffers, keeps it, or buffers  *)
(* another in its place (nck_nocode_dec_put_coded): none is gone and the   *)
(* buffer empty.                                                           *)
THEOREM NocodeOverwritesUnread == Spec /\ Buffering(opt) => OnlyUnreadIsOverwritten
<1> DEFINE Keeps == NckPending(dec) \subseteq NckPending(dec') \cup Range(dec'.read)
                                               \cup NckOverwritten(dec, dec')
<1>1. ASSUME BufferInv, Buffering(opt), [Next]_vars PROVE Keeps
  <2>1. BufferInv' /\ BufferGoes
    BY <1>1, BufferSteps
  <2>2. dec.protocol = "nocode" /\ dec.len \in Nat /\ dec'.protocol = "nocode" /\ dec'.len \in Nat
    BY <1>1, <2>1 DEF BufferInv, NocodeDecs
  <2>3. NckPending(dec) = IF dec.len > 0 THEN {<<1, dec.len>>} ELSE {}
    BY <2>2 DEF NckPending
  <2>4. CASE dec'.len > 0
    BY <2>2, <2>4 DEF NckOverwritten
  <2>5. CASE dec'.len = 0
    BY <2>1, <2>2, <2>3, <2>5 DEF BufferGoes
  <2> QED
    BY <2>2, <2>4, <2>5
<1>2. BufferInv /\ Buffering(opt) /\ [Next]_vars => [Keeps]_vars
  BY <1>1
<1> QED
  BY <1>2, BufferInvariant, PTL DEF Spec, OnlyUnreadIsOverwritten

-----------------------------------------------------------------------------
(* The flush of NOCODE's decoder, which does nothing: the one symbol it    *)
(* buffers is taken by the first call.                                     *)
Bounded == opt \in Options /\ Len(sent) <= opt.source

LEMMA BoundedSteps ==
  ASSUME BufferInv, Bounded, [Next]_vars
  PROVE  Bounded'
<1>1. opt' = opt /\ opt.source \in Nat /\ Len(sent) \in Nat
  BY OptionsStay, NetAssumption DEF Bounded, BufferInv, Counts
<1>2. sent' = sent \/ (Len(sent) # opt.source /\ sent' = Append(sent, NckEncSlot(enc')))
  BY DEF Next, vars, PutSource, AtEnd, SendCoded, RelayReceive, RelaySend, RelayTake, DecReceive,
         WriteOutput, SendFeedback, HearFeedback, RelayFeedback, HearEcho, Lose, EncTimer,
         RecTimer, DecTimer, FlushCoded, FlushSource
<1>3. Len(Append(sent, NckEncSlot(enc'))) = Len(sent) + 1
  BY DEF BufferInv, Counts
<1> QED
  BY <1>1, <1>2, <1>3 DEF Bounded

LEMMA BufferFlush ==
  ASSUME BufferInv, Buffering(opt), Bounded
  PROVE  FlushedIsAvailable
<1> DEFINE N == opt.source
           taken == NocodeDecGetSource(dec)
           T == {dec, taken}
<1>1. /\ dec \in NocodeDecs /\ dec.protocol = "nocode" /\ dec.len \in Nat
      /\ dec.read \in Seq({1} \X (Nat \ {0}))
      /\ Len(sent) = enc.count /\ enc.count \in Nat /\ N \in Nat /\ enc.count <= N
  BY NetAssumption DEF BufferInv, NocodeDecs, NocodeEncs, Counts, Bounded
<1>2. NckPending(dec) = IF dec.len > 0 THEN {<<1, dec.len>>} ELSE {}
  BY <1>1 DEF NckPending
<1>3. NckDecFlushSource(dec) = dec
  BY <1>1 DEF NckDecFlushSource
<1>4. SUFFICES ASSUME dec.len > 0 PROVE <<1, dec.len>> \in TakenAfter(dec)
  BY <1>1, <1>2, <1>3 DEF FlushedIsAvailable
<1>5. N >= 1
  <2>1. dec.len \in Levels[2] /\ dec.len <= enc.count
    <3>1. Buffered(dec.len) = Levels[2] /\ Levels[7] = {n \in Nat : n > enc.count}
      BY LevelsAre
    <3>2. \A x \in Levels[2], y \in Levels[7] : x < y
      BY DEF BufferInv, Chain
    <3>3. dec.len \in Levels[2]
      BY <1>1, <1>4, <3>1 DEF Buffered
    <3> QED
      BY <1>1, <3>1, <3>2, <3>3
  <2> QED
    BY <1>1, <1>4, <2>1
<1>6. /\ taken.protocol = "nocode" /\ taken.len = 0
      /\ taken.read = Append(dec.read, <<1, dec.len>>)
  BY <1>1 DEF NocodeDecGetSource, NocodeDecs
<1>7. Take(dec) = taken /\ Take(taken) = taken
  <2>1. NckDecHasSource(dec) /\ NckDecGetSource(dec) = taken
    BY <1>1, <1>4 DEF NckDecHasSource, NckDecGetSource, NocodeDecHasSource
  <2>2. ~NckDecHasSource(taken)
    BY <1>6 DEF NckDecHasSource, NocodeDecHasSource
  <2> QED
    BY <2>1, <2>2 DEF Take
<1> HIDE DEF taken, N
<1>8. PICK f \in [0 .. N -> T] :
        /\ f[0] = dec /\ f[N] = Taking(dec, N)
        /\ \A n \in 0 .. N - 1 : f[n + 1] = Take(f[n])
  <2>1. {Take(x) : x \in T} \subseteq T /\ dec \in T /\ N \in Nat
    BY <1>1, <1>7
  <2> HIDE DEF T
  <2> QED
    BY <2>1, TakingSteps
<1>9. f[N] = taken
  <2> DEFINE Z == {n \in 0 .. N : n = 0 \/ f[n] = taken}
  <2>1. 0 \in Z
    BY <1>1
  <2>2. ASSUME NEW n \in 0 .. N - 1, n \in Z PROVE n + 1 \in Z
    <3>1. f[n + 1] = Take(f[n]) /\ f[n] \in {dec, taken} /\ n + 1 \in 0 .. N
      BY <1>1, <1>8
    <3> QED
      BY <1>7, <3>1
  <2>3. N \in Z
    <3> HIDE DEF Z
    <3> QED
      BY <1>1, <2>1, <2>2, LeastIndex
  <2> QED
    BY <1>5, <2>3
<1>10. <<1, dec.len>> \in Range(taken.read)
  <2> DEFINE s == Append(dec.read, <<1, dec.len>>)
  <2>1. Len(dec.read) + 1 \in DOMAIN s /\ s[Len(dec.read) + 1] = <<1, dec.len>>
    BY <1>1
  <2> QED
    BY <1>6, <2>1 DEF Range
<1>11. TakenAfter(dec) = Range(Taking(dec, N).read)
  BY DEF TakenAfter, Taking, N
<1> QED
  BY <1>8, <1>9, <1>10, <1>11

(* nckernel.h:196-203: after nck_flush_source has_source and get_source    *)
(* hand out the symbol that a NOCODE decoder buffers.                      *)
THEOREM NocodeFlushAvailable == Spec /\ Buffering(opt) => []FlushedIsAvailable
<1>1. Init /\ Buffering(opt) => Bounded
  <2>1. Init => opt \in Options /\ opt.source \in Nat /\ sent = <<>>
    BY NetAssumption DEF Init
  <2>2. Len(<<>>) = 0
    OBVIOUS
  <2> QED
    BY <2>1, <2>2 DEF Bounded
<1>2. BufferInv /\ Bounded /\ [Next]_vars => Bounded'
  BY BoundedSteps
<1>3. BufferInv /\ Buffering(opt) /\ Bounded => FlushedIsAvailable
  BY BufferFlush
<1> QED
  BY <1>1, <1>2, <1>3, BufferInvariant, PTL DEF Spec

=============================================================================
