----------------------------- MODULE GackRecoder -----------------------------
(***************************************************************************)
(* The GACK recoder, src/gack/recoder.c: it reads packets of a generation, *)
(* sends combinations of them until a feedback from downstream arrives,    *)
(* and then answers the sender itself.  It never hands out source symbols: *)
(* has_source is never set.                                                *)
(***************************************************************************)
EXTENDS Gack

VARIABLES rec_generation,            \* generation; 0: nothing received yet
          rec_span,                  \* what kodo has read
          rec_sender_rank,           \* sender_rank
          rec_has_coded,             \* has_coded
          rec_complete,              \* complete
          rec_feedback_generation,   \* feedback_generation; 0: none pending
          rec_feedback_rank,         \* feedback_rank
          rec_read                   \* history: the generations kodo has read from

recVars == <<rec_generation, rec_span, rec_sender_rank, rec_has_coded, rec_complete,
             rec_feedback_generation, rec_feedback_rank, rec_read>>

RecTypeOK ==
  /\ rec_generation \in Nat
  /\ rec_span \in SUBSET Vectors
  /\ rec_sender_rank \in 0 .. Symbols
  /\ {rec_has_coded, rec_complete} \subseteq BOOLEAN
  /\ rec_feedback_generation \in Nat
  /\ rec_feedback_rank \in 0 .. Symbols
  /\ rec_read \subseteq Generations

RecInit ==
  /\ rec_generation = 0
  /\ rec_span = EmptySpan
  /\ rec_sender_rank = 0
  /\ rec_has_coded = FALSE
  /\ rec_complete = FALSE
  /\ rec_feedback_generation = 0
  /\ rec_feedback_rank = 0
  /\ rec_read = {}

-----------------------------------------------------------------------------
RecHasFeedback == rec_feedback_generation # 0

RecReport(generation, rank) ==
  rec_feedback_generation' = generation /\ rec_feedback_rank' = rank

RecSameReport == UNCHANGED <<rec_feedback_generation, rec_feedback_rank>>

(* Mutant: the recoder stays with the generation it is at.                 *)
RecLeavesNever(generation) == FALSE

(* Is the generation later than ours, so that ours is given up?            *)
RecLeaves(generation) == rec_generation # 0 /\ generation > rec_generation

(* Mutant: the recoder answers before anybody downstream has answered it.  *)
RecSettledEarly(pkt, sender_rank) == sender_rank <= pkt.rank

(* Does the sender still not have more than was acknowledged?              *)
RecSettled(pkt, sender_rank) == sender_rank = pkt.rank

(* nck_gack_rec_put_coded.  A packet of an earlier generation is read like *)
(* one of the present generation: the branch meant for it compares the     *)
(* generations the same way as the one before it and is never taken.       *)
RecPutCoded(pkt) ==
  LET reset == RecLeaves(pkt.generation)
      span == IF reset THEN EmptySpan ELSE rec_span
      sender_rank == IF reset THEN 0 ELSE rec_sender_rank
      sending == rec_has_coded /\ ~reset
      news == sender_rank < pkt.rank /\ Rank(span) < Rank(rec_span')
  IN  /\ rec_generation' =
           IF reset \/ rec_generation = 0 THEN pkt.generation ELSE rec_generation
      /\ rec_span' = ReadPayload(span, pkt.vec)
      /\ rec_read' = (IF reset THEN {} ELSE rec_read) \cup {pkt.generation}
      /\ IF ~sending /\ RecSettled(pkt, sender_rank)
         THEN RecReport(pkt.generation, pkt.rank)
         ELSE RecSameReport
      /\ rec_has_coded' = (sending \/ (~RecSettled(pkt, sender_rank) /\ news))
      /\ rec_sender_rank' =
           IF ~sending /\ ~RecSettled(pkt, sender_rank) /\ news
           THEN pkt.rank ELSE sender_rank
      /\ UNCHANGED rec_complete

(* nck_gack_rec_get_coded                                                  *)
RecPacket(vec) ==
  [generation |-> rec_generation, rank |-> rec_sender_rank, vec |-> vec]

RecGetCoded(vec) ==
  /\ rec_has_coded
  /\ vec \in rec_span
  /\ UNCHANGED recVars

(* nck_gack_rec_put_feedback: later than ours, ours, or too late.          *)
RecPutFeedback(fb) ==
  \/ /\ fb.generation > rec_generation
     /\ rec_generation' = fb.generation
     /\ rec_span' = EmptySpan /\ rec_read' = {}
     /\ rec_sender_rank' = 0 /\ rec_has_coded' = FALSE
     /\ UNCHANGED rec_complete /\ RecSameReport
  \/ /\ fb.generation = rec_generation /\ fb.rank >= rec_sender_rank
     /\ rec_sender_rank' = fb.rank
     /\ rec_complete' = TRUE /\ rec_has_coded' = FALSE
     /\ RecReport(fb.generation, fb.rank)
     /\ UNCHANGED <<rec_generation, rec_span, rec_read>>
  \/ /\ \/ fb.generation < rec_generation
        \/ fb.generation = rec_generation /\ fb.rank < rec_sender_rank
     /\ UNCHANGED recVars

(* nck_gack_rec_get_feedback                                               *)
RecFeedback == [generation |-> rec_feedback_generation, rank |-> rec_feedback_rank]

RecGetFeedback ==
  /\ RecHasFeedback
  /\ rec_feedback_generation' = 0
  /\ UNCHANGED <<rec_generation, rec_span, rec_sender_rank, rec_has_coded,
                 rec_complete, rec_feedback_rank, rec_read>>

=============================================================================
