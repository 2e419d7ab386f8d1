----------------------------- MODULE GackEncoder -----------------------------
(***************************************************************************)
(* The GACK encoder, src/gack/encoder.c: one generation that is filled,    *)
(* sent and acknowledged, and three flags for its state.                   *)
(***************************************************************************)
EXTENDS Gack

VARIABLES enc_generation,   \* generation
          enc_rank,         \* rank: symbols put in
          enc_sent,         \* kodo's systematic phase: symbols sent as they are
          enc_full,         \* full: no source symbol wanted
          enc_empty,        \* empty: nothing to send
          enc_complete      \* complete: the generation was acknowledged

encVars == <<enc_generation, enc_rank, enc_sent, enc_full, enc_empty, enc_complete>>

EncTypeOK ==
  /\ enc_generation \in Generations
  /\ enc_rank \in 0 .. Symbols
  /\ enc_sent \in 0 .. Symbols
  /\ {enc_full, enc_empty, enc_complete} \subseteq BOOLEAN

EncInit ==
  /\ enc_generation = 1
  /\ enc_rank = 0
  /\ enc_sent = 0
  /\ enc_full = FALSE
  /\ enc_empty = TRUE
  /\ enc_complete = FALSE

-----------------------------------------------------------------------------
EncHasCoded == ~enc_empty

(* The slot (generation, position) of the next source symbol.              *)
EncSlot ==
  IF enc_complete THEN <<enc_generation + 1, 1>>
  ELSE <<enc_generation, enc_rank + 1>>

(* Mutant: a generation takes one symbol more than it has.                 *)
EncFilledLate(rank) == rank > Symbols

EncFilled(rank) == rank = Symbols

(* nck_gack_enc_put_source, which applications call while nck_full says    *)
(* no: after an acknowledgement it starts the next generation.             *)
EncPutSource ==
  /\ ~enc_full
  /\ enc_generation' = EncSlot[1]
  /\ enc_rank' = EncSlot[2]
  /\ enc_sent' = IF enc_complete THEN 0 ELSE enc_sent
  /\ enc_full' = EncFilled(EncSlot[2])
  /\ enc_empty' = FALSE
  /\ enc_complete' = FALSE

(* nck_gack_enc_flush_coded                                                *)
EncFlushCoded ==
  /\ enc_full' = TRUE
  /\ UNCHANGED <<enc_generation, enc_rank, enc_sent, enc_empty, enc_complete>>

(* nck_gack_enc_get_coded: as many packets as the application asks for.    *)
EncPacket(vec) == [generation |-> enc_generation, rank |-> enc_rank, vec |-> vec]

EncGetCoded(vec) ==
  /\ EncHasCoded
  /\ vec \in Payloads(enc_rank, enc_sent)
  /\ enc_sent' = SystematicSent(enc_rank, enc_sent)
  /\ UNCHANGED <<enc_generation, enc_rank, enc_full, enc_empty, enc_complete>>

(* Mutant: feedback for an earlier generation is taken for this one.       *)
EncAckedEarlier(fb) == fb.generation <= enc_generation /\ fb.rank = enc_rank

EncAcked(fb) == fb.generation = enc_generation /\ fb.rank = enc_rank

(* nck_gack_enc_put_feedback                                               *)
EncPutFeedback(fb) ==
  /\ IF EncAcked(fb)
     THEN enc_complete' = TRUE /\ enc_empty' = TRUE /\ enc_full' = FALSE
     ELSE UNCHANGED <<enc_complete, enc_empty, enc_full>>
  /\ UNCHANGED <<enc_generation, enc_rank, enc_sent>>

=============================================================================
