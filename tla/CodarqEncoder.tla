---------------------------- MODULE CodarqEncoder ----------------------------
(***************************************************************************)
(* The CODARQ encoder, src/codarq/encoder.c: a list of containers, one per *)
(* open generation, each with the number of coded packets planned for it,  *)
(* and a repair timer.  A step is one call of the encoder's interface or   *)
(* one expiry of the timer.                                                *)
(*                                                                         *)
(* The container list is kept sorted by generation, so it is a function    *)
(* from generations to containers; cont_oldest and cont_newest, refreshed  *)
(* after every insertion and deletion, are its ends.                       *)
(***************************************************************************)
EXTENDS Codarq, FiniteSetsExt

CONSTANTS MaxContainers,   \* max_active_containers
          Redundancy       \* coded packets added when a generation is full

ASSUME MaxContainersAssumption == MaxContainers \in Nat \ {0}
ASSUME RedundancyAssumption == Redundancy \in Nat

VARIABLES enc_containers,    \* container_list: generation -> container
          enc_gen_newest,    \* gen_newest: survives an empty list
          enc_seqno,         \* seqno of the last coded packet
          enc_to_send,       \* to_send: coded packets planned over all containers
          enc_repair_timer   \* is the repair timer armed?

encVars == <<enc_containers, enc_gen_newest, enc_seqno, enc_to_send, enc_repair_timer>>

(* rank: symbols put in; sent: symbols sent systematically; last_seqno:    *)
(* number of its latest packet; to_send: to_send_cont.                     *)
EncContainers ==
  [rank : 0 .. Symbols, sent : 0 .. Symbols, last_seqno : SeqNos, to_send : Nat]

EncTypeOK ==
  /\ DOMAIN enc_containers \subseteq Generations
  /\ IsFiniteSet(DOMAIN enc_containers)
  /\ enc_containers \in [DOMAIN enc_containers -> EncContainers]
  /\ enc_gen_newest \in Nat
  /\ enc_seqno \in SeqNos
  /\ enc_to_send \in Int
  /\ enc_repair_timer \in BOOLEAN

EncInit ==
  /\ enc_containers = [g \in {} |-> 0]
  /\ enc_gen_newest = 0
  /\ enc_seqno = 0
  /\ enc_to_send = 0
  /\ enc_repair_timer = FALSE

-----------------------------------------------------------------------------
EncActive == DOMAIN enc_containers

EncHasCoded == enc_to_send >= 1

(* Mutant: a generation takes one symbol more than it has.                 *)
EncNewestOverfull ==
  EncActive = {} \/ enc_containers[Max(EncActive)].rank > Symbols

(* The newest generation has all its symbols, or there is none.            *)
EncNewestFull ==
  EncActive = {} \/ enc_containers[Max(EncActive)].rank = Symbols

(* Mutant: one container too many.                                         *)
EncFullLate == Cardinality(EncActive) > MaxContainers /\ EncNewestFull

EncFull == Cardinality(EncActive) >= MaxContainers /\ EncNewestFull

(* The packets planned for the generations gens of the list conts, one     *)
(* pair for each.                                                          *)
Planned(conts, gens) == UNION {{g} \X (1 .. conts[g].to_send) : g \in gens}

(* The generation the next source symbol goes to.                          *)
EncSourceGen == IF EncNewestFull THEN enc_gen_newest + 1 ELSE Max(EncActive)

EncOpen(g) ==
  IF g \in EncActive THEN enc_containers[g]
  ELSE [rank |-> 0, sent |-> 0, last_seqno |-> 0, to_send |-> 0]

(* nck_codarq_enc_put_source: a full encoder refuses the symbol.           *)
EncPutSource ==
  /\ ~EncFull
  /\ LET gen == EncSourceGen
         rank == EncOpen(gen).rank + 1
         plan == IF rank = Symbols THEN 1 + Redundancy ELSE 1
     IN  /\ enc_containers' =
              [g \in EncActive \cup {gen} |->
                 IF g = gen
                 THEN [EncOpen(g) EXCEPT !.rank = rank, !.to_send = @ + plan]
                 ELSE enc_containers[g]]
         /\ enc_gen_newest' = gen
         /\ enc_to_send' = enc_to_send + plan
  /\ UNCHANGED <<enc_seqno, enc_repair_timer>>

-----------------------------------------------------------------------------
EncWithCoded == {g \in EncActive : enc_containers[g].to_send >= 1}

(* The container the next packet comes from: the oldest one with a plan.   *)
EncTurn == Min(EncWithCoded)

EncNextSeqno == (enc_seqno + 1) % SeqSpace

(* Mutant: the header carries the symbols sent, not the symbols put in.     *)
EncPacketSent(vec) ==
  [generation |-> EncTurn, rank |-> enc_containers[EncTurn].sent,
   seqno |-> EncNextSeqno, vec |-> vec]

(* The packet nck_codarq_enc_get_coded writes when kodo picks vec.         *)
EncPacket(vec) ==
  [generation |-> EncTurn, rank |-> enc_containers[EncTurn].rank,
   seqno |-> EncNextSeqno, vec |-> vec]

EncPayloads == Payloads(enc_containers[EncTurn].rank, enc_containers[EncTurn].sent)

(* The container after it gave a packet.                                   *)
EncTaken(c) ==
  [c EXCEPT !.to_send = @ - 1, !.last_seqno = EncNextSeqno,
            !.sent = SystematicSent(c.rank, @)]

(* Mutant: the timer is left alone.                                        *)
EncGetCodedNoTimer(vec) ==
  /\ EncHasCoded
  /\ EncWithCoded # {}
  /\ vec \in EncPayloads
  /\ enc_seqno' = EncNextSeqno
  /\ enc_to_send' = enc_to_send - 1
  /\ enc_containers' = [enc_containers EXCEPT ![EncTurn] = EncTaken(@)]
  /\ UNCHANGED <<enc_gen_newest, enc_repair_timer>>

(* nck_codarq_enc_get_coded: the timer runs only while nothing is planned. *)
EncGetCoded(vec) ==
  /\ EncHasCoded
  /\ EncWithCoded # {}
  /\ vec \in EncPayloads
  /\ enc_seqno' = EncNextSeqno
  /\ enc_to_send' = enc_to_send - 1
  /\ enc_containers' = [enc_containers EXCEPT ![EncTurn] = EncTaken(@)]
  /\ enc_repair_timer' = ~(enc_to_send' >= 1)
  /\ UNCHANGED enc_gen_newest

-----------------------------------------------------------------------------
(* enc_repair_timeout: one more packet for the oldest generation.          *)
EncRepairTimeout ==
  /\ enc_repair_timer
  /\ IF EncActive = {}
     THEN /\ enc_repair_timer' = FALSE
          /\ UNCHANGED <<enc_containers, enc_to_send>>
     ELSE /\ enc_repair_timer' = TRUE
          /\ enc_to_send' = enc_to_send + 1
          /\ enc_containers' =
               [enc_containers EXCEPT ![Min(EncActive)].to_send = @ + 1]
  /\ UNCHANGED <<enc_gen_newest, enc_seqno>>

-----------------------------------------------------------------------------
(* Mutants: a plan that is not used up is overwritten; an old report is     *)
(* believed.                                                               *)
EncAcceptsPending(kept, fb) ==
  {g \in kept \cap DOMAIN fb.missing :
     ~ (SeqDiff(enc_containers[g].last_seqno, fb.seqno) > 0)}

EncAcceptsOld(kept, fb) ==
  {g \in kept \cap DOMAIN fb.missing : enc_containers[g].to_send = 0}

(* The generations whose plan the feedback fills: the report is not older  *)
(* than their latest packet and their plan is used up.                     *)
EncAccepts(kept, fb) ==
  {g \in kept \cap DOMAIN fb.missing :
     /\ ~ (SeqDiff(enc_containers[g].last_seqno, fb.seqno) > 0)
     /\ enc_containers[g].to_send = 0}

(* nck_codarq_enc_put_feedback: drop what the decoder is done with, plan   *)
(* what it misses, then stop or restart the timer.                         *)
EncPutFeedback(fb) ==
  LET kept == {g \in EncActive : g > fb.decoded}
      accepted == EncAccepts(kept, fb)
  IN  /\ enc_containers' =
           [g \in kept |->
              IF g \in accepted
              THEN [enc_containers[g] EXCEPT !.to_send = fb.missing[g]]
              ELSE enc_containers[g]]
      /\ enc_gen_newest' = IF kept = {} THEN enc_gen_newest ELSE Max(kept)
      /\ enc_to_send' =
           enc_to_send - Cardinality(Planned(enc_containers, EncActive \ kept))
                       + Cardinality(Planned(enc_containers', accepted))
      /\ enc_repair_timer' = ~(enc_to_send' >= 1)
      /\ UNCHANGED enc_seqno

-----------------------------------------------------------------------------
(* The encoder among callers that may report anything in fbs.              *)
EncNext(fbs) ==
  \/ EncPutSource
  \/ \E vec \in Vectors : EncGetCoded(vec)
  \/ EncRepairTimeout
  \/ \E fb \in fbs : EncPutFeedback(fb)

EncSpec == EncInit /\ [][EncNext(Feedbacks)]_encVars

-----------------------------------------------------------------------------
(* to_send is kept beside the plans of the containers by five places in    *)
(* the code; it is always their sum, whatever feedback arrives.            *)
EncPlanSum == enc_to_send = Cardinality(Planned(enc_containers, EncActive))

(* get_coded asserts that a container with a plan exists whenever to_send  *)
(* says so: assert(found).                                                 *)
EncAssertFound == EncHasCoded => EncWithCoded # {}

(* An encoder that still holds symbols and has nothing planned has its     *)
(* repair timer armed: no sequence of calls, feedback and expiries leaves  *)
(* undelivered data behind with nobody to send it.                         *)
EncNeverSilent == EncActive # {} /\ ~EncHasCoded => enc_repair_timer

(* The open generations are consecutive up to the newest one, no more than *)
(* max_containers, and only the newest one can still take symbols.         *)
EncWindow ==
  /\ \A g \in EncActive : g <= enc_gen_newest
  /\ \A g \in EncActive : g .. enc_gen_newest \subseteq EncActive
  /\ Cardinality(EncActive) <= MaxContainers
  /\ \A g \in EncActive : g < enc_gen_newest => enc_containers[g].rank = Symbols

=============================================================================
