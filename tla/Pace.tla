-------------------------------- MODULE Pace --------------------------------
(***************************************************************************)
(* PACE, src/pace: generations whose redundancy is spread over them.  What *)
(* may be sent is counted in hundredths of a packet, and feedback tells    *)
(* the sender that it may stop.                                            *)
(***************************************************************************)
EXTENDS Generation

PaceEncStart(o) ==
  [protocol |-> "pace", generation |-> 1, rank |-> 0, sent |-> 0, complete |-> FALSE,
   to_send |-> 0, last_fb_rank |-> 0,
   pace_redundancy |-> o.pace_redundancy, tail_redundancy |-> o.tail_redundancy]

PaceEncHasCoded(e) == e.to_send >= 100

PaceEncFull(e) == e.rank = Symbols /\ e.to_send >= 100

(* nck_pace_enc_flush_coded                                                *)
PaceEncFlush(e) == [e EXCEPT !.to_send = @ + e.tail_redundancy]

(* enc_start_next_generation                                               *)
PaceEncNext(e) ==
  [e EXCEPT !.generation = @ + 1, !.rank = 0, !.sent = 0, !.complete = FALSE,
            !.to_send = 0, !.last_fb_rank = 0]

(* nck_pace_enc_put_source; the encoder's timers are never created.        *)
PaceEncPutSource(e) ==
  LET at  == IF e.rank = Symbols THEN PaceEncNext(e) ELSE e
      put == [at EXCEPT !.rank = @ + 1, !.to_send = @ + e.pace_redundancy]
  IN IF put.rank = Symbols THEN PaceEncFlush(put) ELSE put

PaceEncPackets(e) ==
  {[generation |-> e.generation, rank |-> e.rank, vec |-> v] :
     v \in Payloads(e.rank, e.sent)}

(* nck_pace_enc_get_coded                                                  *)
PaceEncGetCoded(e) ==
  [e EXCEPT !.sent = SystematicSent(e.rank, e.sent), !.to_send = @ - 100]

(* Mutant: feedback stops the sender whichever generation it is for.       *)
PaceStopsAny(c, fb) == fb.rank = c.rank

(* Does the feedback tell an encoder or a recoder to stop?                 *)
PaceStops(c, fb) == fb.generation = c.generation /\ fb.rank = c.rank

(* nck_pace_enc_put_feedback                                               *)
PaceEncPutFeedback(e, fb) ==
  LET same == fb.generation = e.generation
  IN [e EXCEPT !.last_fb_rank = IF same THEN fb.rank ELSE @,
               !.to_send = IF PaceStops(e, fb) THEN 0 ELSE @,
               !.complete = @ \/ (same /\ fb.rank = Symbols)]

-----------------------------------------------------------------------------
PaceDecStart(o) ==
  [protocol |-> "pace", generation |-> 1, span |-> EmptySpan, rank |-> 0,
   prev_rank |-> 0, index |-> 0, flush |-> FALSE, feedback_generation |-> 0,
   feedback_rank |-> 0, queue |-> <<>>, fb_timer |-> FALSE, timeout |-> o.timeout,
   read |-> <<>>, eager |-> o.eager]

PaceDecHasSource(d) == QueueHasSource(d)

PaceDecGetSource(d) == QueueGetSource(d)

(* nck_pace_dec_flush_source                                               *)
PaceDecFlushSource(d) ==
  QueueSourceReady([d EXCEPT !.flush = TRUE, !.index = SkipUndecoded(d.span, d.index)])

(* dec_start_next_generation, after what is left of the last one has been  *)
(* queued; prev_rank keeps its value.                                      *)
PaceDecNext(d, generation) ==
  LET over == PaceDecFlushSource(d)
  IN [Report(over, 0, 0) EXCEPT
        !.queue = FlushQueue(over), !.generation = generation, !.rank = 0,
        !.index = 0, !.flush = FALSE, !.span = EmptySpan]

(* No news although the sender has no more, or all there is: report.       *)
PaceReports(c, pkt) ==
  \/ c.rank = c.prev_rank /\ c.prev_rank = pkt.rank
  \/ c.rank = Symbols

(* nck_pace_dec_put_coded                                                  *)
PaceDecPutCoded(d, pkt) ==
  LET at   == IF d.generation < pkt.generation THEN PaceDecNext(d, pkt.generation) ELSE d
      span == ReadPayload(at.span, pkt.vec)
      read == [at EXCEPT !.span = span, !.rank = Rank(span), !.fb_timer = d.timeout]
      told == IF PaceReports(read, pkt) THEN Report(read, read.generation, read.rank)
              ELSE read
  IN IF d.generation > pkt.generation THEN d
     ELSE [QueueSourceReady(told) EXCEPT !.prev_rank = Rank(span)]

PaceDecHasFeedback(d) == HasReport(d)

PaceDecGetFeedback(d) == Reported(d)

(* decoder_send_feedback                                                   *)
PaceDecFbTimeout(d) == Report([d EXCEPT !.fb_timer = FALSE], d.generation, d.rank)

-----------------------------------------------------------------------------
PaceRecStart(o) ==
  [protocol |-> "pace", generation |-> 1, span |-> EmptySpan, rank |-> 0,
   prev_rank |-> 0, index |-> 0, flush |-> FALSE, to_send |-> 0, last_fb_rank |-> 0,
   pace_redundancy |-> o.pace_redundancy, tail_redundancy |-> o.tail_redundancy,
   feedback_generation |-> 0, feedback_rank |-> 0, queue |-> <<>>,
   fb_timer |-> FALSE, timeout |-> o.timeout, read |-> <<>>, eager |-> o.eager]

PaceRecHasCoded(r) == r.to_send >= 100

PaceRecHasSource(r) == QueueHasSource(r)

PaceRecGetSource(r) == QueueGetSource(r)

(* nck_pace_rec_flush_source                                               *)
PaceRecFlushSource(r) ==
  QueueSourceReady([r EXCEPT !.flush = TRUE, !.index = SkipUndecoded(r.span, r.index)])

PaceRecFlushCoded(r) == [r EXCEPT !.to_send = @ + r.tail_redundancy]

(* rec_start_next_generation: what was still to be sent is forgotten.      *)
PaceRecNext(r, generation) ==
  LET over == PaceRecFlushSource(r)
  IN [Report(over, 0, 0) EXCEPT
        !.queue = FlushQueue(over), !.generation = generation, !.rank = 0,
        !.prev_rank = 0, !.index = 0, !.flush = FALSE, !.to_send = 0,
        !.last_fb_rank = 0, !.span = EmptySpan]

(* nck_pace_rec_put_coded                                                  *)
PaceRecPutCoded(r, pkt) ==
  LET at   == IF r.generation < pkt.generation THEN PaceRecNext(r, pkt.generation) ELSE r
      span == ReadPayload(at.span, pkt.vec)
      read == [at EXCEPT !.span = span, !.rank = Rank(span), !.fb_timer = r.timeout]
      told == IF PaceReports(read, pkt) THEN Report(read, read.generation, read.rank)
              ELSE read
      news == [told EXCEPT !.to_send = @ + r.pace_redundancy]
      paid == IF told.rank = told.prev_rank THEN told
              ELSE IF told.rank = Symbols THEN PaceRecFlushCoded(news) ELSE news
  IN IF r.generation > pkt.generation THEN r
     ELSE [QueueSourceReady(paid) EXCEPT !.prev_rank = Rank(span)]

PaceRecPackets(r) ==
  {[generation |-> r.generation, rank |-> r.rank, vec |-> v] : v \in r.span}

(* nck_pace_rec_get_coded                                                  *)
PaceRecGetCoded(r) == [r EXCEPT !.to_send = @ - 100]

(* nck_pace_rec_put_feedback                                               *)
PaceRecPutFeedback(r, fb) ==
  [r EXCEPT !.last_fb_rank = IF fb.generation = r.generation THEN fb.rank ELSE @,
            !.to_send = IF PaceStops(r, fb) THEN 0 ELSE @]

PaceRecHasFeedback(r) == HasReport(r)

PaceRecGetFeedback(r) == Reported(r)

(* recoder_send_feedback; the redundancy timer is never armed.             *)
PaceRecFbTimeout(r) == Report([r EXCEPT !.fb_timer = FALSE], r.generation, r.rank)

=============================================================================
