-------------------------------- MODULE Gsaw --------------------------------
(***************************************************************************)
(* GSAW, src/gsaw: stop and wait with generations.  The encoder may send   *)
(* limit / Symbols packets and then waits for an acknowledgement.          *)
(***************************************************************************)
EXTENDS Generation

GsawEncStart(o) ==
  [protocol |-> "gsaw", generation |-> 1, rank |-> 0, sent |-> 0, limit |-> 0,
   redundancy |-> o.redundancy, full |-> FALSE, complete |-> FALSE]

GsawEncHasCoded(e) == e.limit >= Symbols

(* The credit for one packet with its share of the redundancy.             *)
GsawShare(e) == Symbols + e.redundancy

(* nck_gsaw_enc_flush_coded                                                *)
GsawEncFlush(e) == [e EXCEPT !.limit = @ + GsawShare(e), !.full = TRUE]

(* Where the next source symbol goes: after an acknowledgement a new       *)
(* generation is started.                                                  *)
GsawEncOpen(e) ==
  IF ~e.complete THEN e
  ELSE [e EXCEPT !.generation = @ + 1, !.rank = 0, !.sent = 0,
                 !.complete = FALSE, !.full = FALSE]

(* nck_gsaw_enc_put_source                                                 *)
GsawEncPutSource(e) ==
  LET put == [GsawEncOpen(e) EXCEPT !.rank = @ + 1]
  IN IF put.rank = Symbols THEN GsawEncFlush(put)
     ELSE [put EXCEPT !.limit = @ + GsawShare(e)]

GsawEncPackets(e) ==
  {[generation |-> e.generation, rank |-> e.rank, vec |-> v] :
     v \in Payloads(e.rank, e.sent)}

(* nck_gsaw_enc_get_coded                                                  *)
GsawEncGetCoded(e) ==
  [e EXCEPT !.sent = SystematicSent(e.rank, e.sent), !.limit = @ - Symbols]

(* nck_gsaw_enc_put_feedback                                               *)
GsawEncPutFeedback(e, fb) ==
  IF fb.generation # e.generation THEN e
  ELSE IF fb.rank >= e.rank
  THEN [e EXCEPT !.complete = TRUE, !.limit = @ % Symbols, !.full = FALSE]
  ELSE [e EXCEPT !.limit = @ + (e.rank - fb.rank) * GsawShare(e)]

-----------------------------------------------------------------------------
GsawDecStart(o) ==
  [protocol |-> "gsaw", generation |-> 0, span |-> EmptySpan, index |-> 0,
   flush |-> FALSE, feedback_generation |-> 0, feedback_rank |-> 0,
   queue |-> <<>>, read |-> <<>>, eager |-> o.eager]

GsawDecComplete(d) == d.index = Symbols

(* nck_gsaw_dec_flush_source                                               *)
GsawDecFlushSource(d) ==
  [d EXCEPT !.flush = TRUE, !.index = SkipUndecoded(d.span, d.index)]

GsawDecOpen(d) ==
  IF ~GsawDecComplete(d) THEN d
  ELSE [d EXCEPT !.generation = @ + 1, !.index = 0, !.flush = FALSE, !.span = EmptySpan]

(* nck_gsaw_dec_put_coded: a newer generation is acknowledged and dropped. *)
GsawDecPutCoded(d, pkt) ==
  LET open == GsawDecOpen(d)
      at   == IF open.generation = 0 THEN [open EXCEPT !.generation = pkt.generation]
              ELSE open
      read == [at EXCEPT !.span = ReadPayload(@, pkt.vec)]
      told == IF pkt.rank = Rank(read.span)
              THEN Report(read, pkt.generation, pkt.rank) ELSE read
  IN IF at.generation < pkt.generation THEN Report(at, pkt.generation, Symbols)
     ELSE IF at.generation > pkt.generation THEN at
     ELSE QueueSourceReady(told)

GsawDecHasSource(d) == d.index < Symbols /\ IsSymbolUncoded(d.span, d.index + 1)

(* nck_gsaw_dec_get_source; no queue is ever filled.                       *)
GsawDecGetSource(d) == TakeAtIndex(d)

GsawDecHasFeedback(d) == HasReport(d)

GsawDecGetFeedback(d) == Reported(d)

=============================================================================
