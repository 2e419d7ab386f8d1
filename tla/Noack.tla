-------------------------------- MODULE Noack --------------------------------
(***************************************************************************)
(* NOACK, src/noack: generations with a fixed number of coded packets at   *)
(* their end and no feedback; a generation that gets no more symbols, and  *)
(* a decoder that gets no more packets, are flushed by a timer.            *)
(***************************************************************************)
EXTENDS Generation

(* timer: is the flush timer armed?                                        *)
NoackEncStart(o) ==
  [protocol |-> "noack", generation |-> 1, rank |-> 0,
   sent |-> SystematicStart(o.systematic), systematic |-> o.systematic,
   limit |-> 0, redundancy |-> o.redundancy, full |-> FALSE, complete |-> FALSE,
   timer |-> FALSE, timeout |-> o.timeout]

NoackEncHasCoded(e) == e.limit > 0

(* nck_noack_enc_flush_coded                                               *)
NoackEncFlush(e) == [e EXCEPT !.limit = @ + e.redundancy, !.full = TRUE]

NoackEncOpen(e) ==
  IF ~e.complete THEN e
  ELSE [e EXCEPT !.generation = @ + 1, !.rank = 0, !.complete = FALSE, !.full = FALSE,
                 !.sent = SystematicStart(e.systematic)]

(* nck_noack_enc_put_source                                                *)
NoackEncPutSource(e) ==
  LET put == [NoackEncOpen(e) EXCEPT !.rank = @ + 1, !.limit = @ + 1, !.timer = e.timeout]
  IN IF put.rank = Symbols THEN NoackEncFlush(put) ELSE put

NoackEncPackets(e) ==
  {[generation |-> e.generation, rank |-> 0, vec |-> v] : v \in Payloads(e.rank, e.sent)}

(* Mutant: the encoder opens again only when a symbol is left over.        *)
NoackEncGetCodedStuck(e) ==
  [e EXCEPT !.sent = SystematicSent(e.rank, e.sent), !.limit = @ - 1,
            !.complete = @ \/ (e.limit = 0 /\ e.full),
            !.full = @ /\ e.limit > 0]

(* nck_noack_enc_get_coded: the last packet closes a full generation.      *)
NoackEncGetCoded(e) ==
  [e EXCEPT !.sent = SystematicSent(e.rank, e.sent), !.limit = @ - 1,
            !.complete = @ \/ (e.limit = 1 /\ e.full),
            !.full = @ /\ e.limit > 1]

(* encoder_timeout_flush                                                   *)
NoackEncTimeout(e) == NoackEncFlush([e EXCEPT !.timer = FALSE])

-----------------------------------------------------------------------------
NoackDecStart(o) ==
  [protocol |-> "noack", generation |-> 0, span |-> EmptySpan, index |-> 0,
   flush |-> FALSE, queue |-> <<>>, timer |-> FALSE, timeout |-> o.timeout,
   read |-> <<>>, eager |-> o.eager]

NoackDecComplete(d) == d.index = Symbols

NoackDecHasSource(d) == QueueHasSource(d)

NoackDecGetSource(d) == QueueGetSource(d)

(* Mutant: symbols that are not decoded are skipped only when one is taken. *)
NoackDecFlushLazy(d) ==
  IF d.flush THEN d ELSE QueueSourceReady([d EXCEPT !.flush = TRUE])

(* nck_noack_dec_flush_source                                              *)
NoackDecFlushSource(d) ==
  IF d.flush THEN d
  ELSE QueueSourceReady([d EXCEPT !.flush = TRUE,
                                  !.index = SkipUndecoded(d.span, d.index)])

(* Mutant: what the next generation finds decoded is not kept.             *)
NoackDecNextForgets(d, generation) ==
  [d EXCEPT !.generation = generation, !.index = 0, !.flush = FALSE,
            !.span = EmptySpan, !.queue = <<>>]

(* The next generation begins: what is decoded of the last one is queued.  *)
NoackDecNext(d, generation) ==
  LET over == IF NoackDecComplete(d) THEN d ELSE NoackDecFlushSource(d)
  IN [over EXCEPT !.queue = FlushQueue(over), !.generation = generation,
                  !.index = 0, !.flush = FALSE, !.span = EmptySpan]

(* Mutant: a packet of any other generation begins a new one.              *)
NoackDecPutCodedOld(d, pkt) ==
  LET at == IF d.generation = pkt.generation THEN d ELSE NoackDecNext(d, pkt.generation)
  IN QueueSourceReady([at EXCEPT !.span = ReadPayload(@, pkt.vec),
                                 !.timer = IF at.flush THEN @ ELSE d.timeout])

(* nck_noack_dec_put_coded: packets of older generations are refused.      *)
NoackDecPutCoded(d, pkt) ==
  LET at   == IF d.generation = pkt.generation THEN d ELSE NoackDecNext(d, pkt.generation)
      read == [at EXCEPT !.span = ReadPayload(@, pkt.vec),
                         !.timer = IF at.flush THEN @ ELSE d.timeout]
  IN IF d.generation > pkt.generation THEN d ELSE QueueSourceReady(read)

(* decoder_timeout_flush                                                   *)
NoackDecTimeout(d) == NoackDecFlushSource([d EXCEPT !.timer = FALSE])

-----------------------------------------------------------------------------
NoackRecStart(o) ==
  [protocol |-> "noack", generation |-> 1, span |-> EmptySpan, index |-> 0,
   flush |-> FALSE, complete |-> FALSE, limit |-> 0, redundancy |-> o.redundancy,
   timer |-> FALSE, timeout |-> o.timeout, queue |-> <<>>, read |-> <<>>,
   eager |-> o.eager]

NoackRecHasCoded(r) == r.limit > 0

NoackRecHasSource(r) == r.index < Symbols /\ IsSymbolUncoded(r.span, r.index + 1)

NoackRecGetSource(r) == TakeAtIndex(r)

(* nck_noack_rec_flush_source skips nothing yet: the next get_source does. *)
NoackRecFlushSource(r) == [r EXCEPT !.flush = TRUE]

NoackRecFlushCoded(r) == [r EXCEPT !.limit = @ + r.redundancy]

(* A new generation: the callbacks come first, then what was not taken or  *)
(* sent of the last one is forgotten.                                      *)
NoackRecNext(r, generation) ==
  [QueueSourceReady(NoackRecFlushSource(r)) EXCEPT
     !.generation = generation, !.index = 0, !.flush = FALSE, !.limit = 0,
     !.span = EmptySpan]

(* nck_noack_rec_put_coded                                                 *)
NoackRecPutCoded(r, pkt) ==
  LET at   == IF r.generation = pkt.generation THEN r ELSE NoackRecNext(r, pkt.generation)
      read == [at EXCEPT !.span = ReadPayload(@, pkt.vec),
                         !.timer = IF at.flush THEN @ ELSE r.timeout]
  IN IF r.generation > pkt.generation THEN r
     ELSE QueueSourceReady(
            IF Rank(read.span) > Rank(at.span) THEN [read EXCEPT !.limit = @ + 1] ELSE read)

NoackRecPackets(r) ==
  {[generation |-> r.generation, rank |-> 0, vec |-> v] : v \in r.span}

(* nck_noack_rec_get_coded                                                 *)
NoackRecGetCoded(r) ==
  [r EXCEPT !.limit = @ - 1, !.complete = @ \/ r.limit = 1]

(* recoder_timeout_flush                                                   *)
NoackRecTimeout(r) == NoackRecFlushSource(NoackRecFlushCoded([r EXCEPT !.timer = FALSE]))

=============================================================================
