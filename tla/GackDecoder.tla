----------------------------- MODULE GackDecoder -----------------------------
(***************************************************************************)
(* The GACK decoder, src/gack/decoder.c: one kodo decoder for the          *)
(* generation it is at, and one pending feedback.                          *)
(***************************************************************************)
EXTENDS Gack

VARIABLES dec_generation,            \* generation; 0: nothing received yet
          dec_span,                  \* what kodo has read of it
          dec_index,                 \* index: symbols delivered or skipped
          dec_flush,                 \* flush: skip what is not decoded
          dec_feedback_generation,   \* feedback_generation; 0: none pending
          dec_feedback_rank          \* feedback_rank

decVars == <<dec_generation, dec_span, dec_index, dec_flush,
             dec_feedback_generation, dec_feedback_rank>>

DecTypeOK ==
  /\ dec_generation \in Nat
  /\ dec_span \in SUBSET Vectors
  /\ dec_index \in 0 .. Symbols
  /\ dec_flush \in BOOLEAN
  /\ dec_feedback_generation \in Nat
  /\ dec_feedback_rank \in 0 .. Symbols

DecInit ==
  /\ dec_generation = 0
  /\ dec_span = EmptySpan
  /\ dec_index = 0
  /\ dec_flush = FALSE
  /\ dec_feedback_generation = 0
  /\ dec_feedback_rank = 0

-----------------------------------------------------------------------------
DecHasSource == dec_index < Symbols /\ IsSymbolUncoded(dec_span, dec_index + 1)

DecComplete == dec_index = Symbols

DecHasFeedback == dec_feedback_generation # 0

(* Mutant: only a decoder with more than the sender reports.               *)
DecAcksNever(pkt, span) == pkt.rank < Rank(span)

(* Is everything decoded that the sender of the packet had?                *)
DecAcks(pkt, span) == pkt.rank <= Rank(span)

DecReport(generation, rank) ==
  dec_feedback_generation' = generation /\ dec_feedback_rank' = rank

DecSameReport == UNCHANGED <<dec_feedback_generation, dec_feedback_rank>>

(* Mutant: a complete decoder stays at its generation.                     *)
DecAtStays(pkt) == dec_generation

(* The generation the decoder is at when it looks at a packet.             *)
DecAt(pkt) == IF DecComplete THEN dec_generation + 1 ELSE dec_generation

(* nck_gack_dec_put_coded.  A packet that finds the generation complete    *)
(* moves the decoder to the next one, whichever generation it belongs to.  *)
(* A packet of a newer generation is acknowledged and dropped, one of an   *)
(* older generation just dropped.                                          *)
DecPutCoded(pkt) ==
  LET generation == DecAt(pkt)
      span == IF DecComplete THEN EmptySpan ELSE dec_span
  IN  /\ dec_index' = IF DecComplete THEN 0 ELSE dec_index
      /\ dec_flush' = (dec_flush /\ ~DecComplete)
      /\ \/ /\ generation \in {0, pkt.generation}
            /\ dec_generation' = pkt.generation
            /\ dec_span' = ReadPayload(span, pkt.vec)
            /\ IF DecAcks(pkt, dec_span') THEN DecReport(pkt.generation, pkt.rank)
                                          ELSE DecSameReport
         \/ /\ 0 < generation /\ generation < pkt.generation
            /\ DecReport(pkt.generation, Symbols)
            /\ dec_generation' = generation /\ dec_span' = span
         \/ /\ generation > pkt.generation
            /\ dec_generation' = generation /\ dec_span' = span
            /\ DecSameReport

(* Mutant: the search starts at the symbol that was just handed out.       *)
DecAfterStuck == IF dec_flush THEN SkipUndecoded(dec_span, dec_index) ELSE dec_index + 1

(* The index after a symbol was handed out.                                *)
DecAfter == IF dec_flush THEN SkipUndecoded(dec_span, dec_index + 1) ELSE dec_index + 1

DecSource == <<dec_generation, dec_index + 1>>

(* nck_gack_dec_get_source                                                 *)
DecGetSource ==
  /\ DecHasSource
  /\ dec_index' = DecAfter
  /\ UNCHANGED <<dec_generation, dec_span, dec_flush,
                 dec_feedback_generation, dec_feedback_rank>>

(* nck_gack_dec_flush_source                                               *)
DecFlushSource ==
  /\ dec_flush' = TRUE
  /\ dec_index' = SkipUndecoded(dec_span, dec_index)
  /\ UNCHANGED <<dec_generation, dec_span, dec_feedback_generation, dec_feedback_rank>>

(* nck_gack_dec_get_feedback                                               *)
DecFeedback == [generation |-> dec_feedback_generation, rank |-> dec_feedback_rank]

DecGetFeedback ==
  /\ DecHasFeedback
  /\ dec_feedback_generation' = 0
  /\ UNCHANGED <<dec_generation, dec_span, dec_index, dec_flush, dec_feedback_rank>>

=============================================================================
