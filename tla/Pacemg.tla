------------------------------- MODULE Pacemg -------------------------------
(***************************************************************************)
(* PACEMG, src/pacemg/encoder.c and decoder.c: PACE with several           *)
(* generations at a time.  Each coder keeps a list of containers, one for  *)
(* each generation, the oldest first; feedback reports on all of them.     *)
(* The recoder reads and writes another packet header than these two.      *)
(***************************************************************************)
EXTENDS Generation

(* nck_pacemg_set_enc_red_positions: how many packets the n-th symbol of a *)
(* generation pays for, from the coding ratio in percent and the packets   *)
(* kept for the end of the generation.                                     *)
PacemgPerInput(ratio, tail) ==
  LET redundant == (Symbols * (ratio % 100) + 99) \div 100
      last      == Min({tail, redundant})
      paced     == redundant - last
      positions == {n * (Symbols \div paced) + Min({n, Symbols % paced}) : n \in 1 .. paced}
  IN [n \in 1 .. Symbols |-> ratio \div 100
                             + (IF n \in positions THEN 1 ELSE 0)
                             + (IF n = Symbols THEN last ELSE 0)]

(* The last max_history packets that were not sent as they are: a ring.    *)
PacemgRemembered(history, seqno, max_history) ==
  LET all == history \cup {seqno}
  IN IF Cardinality(all) > max_history THEN all \ {Min(all)} ELSE all

-----------------------------------------------------------------------------
PacemgEncStart(o) ==
  [protocol |-> "pacemg", containers |-> <<>>, gen_newest |-> 0, global_seqno |-> 0,
   max_active |-> o.max_active, max_history |-> o.max_history,
   per_input |-> PacemgPerInput(o.ratio, o.tail), feedback |-> o.feedback,
   failed |-> FALSE]

PacemgToSend(e) == {n \in DOMAIN e.containers : e.containers[n].to_send >= 1}

PacemgEncHasCoded(e) == PacemgToSend(e) # {}

(* nck_pacemg_enc_full                                                     *)
PacemgEncFull(e) ==
  \/ PacemgEncHasCoded(e)
  \/ Len(e.containers) >= e.max_active /\ Last(e.containers).rank = Symbols

(* nck_pacemg_enc_update_stat, after containers are added and deleted: the *)
(* newest number is that of the newest container there is.  When a newer   *)
(* generation is done before an older one its number is given out again.   *)
PacemgEncList(e, containers) ==
  [e EXCEPT !.containers = containers,
            !.gen_newest = IF containers = <<>> THEN @ ELSE Last(containers).generation]

(* The oldest generation makes room when all is sent and none is open.     *)
PacemgEncRetire(e) ==
  IF /\ Len(e.containers) >= e.max_active
     /\ Last(e.containers).rank = Symbols
     /\ Head(e.containers).rank = Symbols
     /\ Head(e.containers).to_send = 0
  THEN PacemgEncList(e, Tail(e.containers)) ELSE e

(* nck_pacemg_enc_start_next_generation                                    *)
PacemgEncOpen(e) ==
  IF e.containers # <<>> /\ Last(e.containers).rank < Symbols THEN e
  ELSE PacemgEncList(e, Append(e.containers, [generation |-> e.gen_newest + 1, rank |-> 0,
                                              to_send |-> 0, sent |-> 0, history |-> {}]))

(* nck_pacemg_enc_put_source; its timers are never created.                *)
PacemgEncPutSource(e) ==
  LET at   == PacemgEncOpen(e)
      rank == Last(at.containers).rank + 1
  IN PacemgEncRetire([at EXCEPT !.containers[Len(at.containers)] =
       [@ EXCEPT !.rank = rank, !.to_send = @ + e.per_input[rank]]])

(* The container the next packet comes from: the oldest with any to send.  *)
PacemgEncSender(e) == e.containers[Min(PacemgToSend(e))]

PacemgEncPackets(e) ==
  LET c == PacemgEncSender(e)
  IN {[generation |-> c.generation, rank |-> c.rank, global_seqno |-> e.global_seqno,
       feedback_flag |-> e.feedback, vec |-> v] : v \in Payloads(c.rank, c.sent)}

(* nck_pacemg_enc_get_coded                                                *)
PacemgEncGetCoded(e) ==
  LET c     == PacemgEncSender(e)
      coded == c.sent = c.rank
      sent  == [c EXCEPT !.to_send = @ - 1, !.sent = SystematicSent(c.rank, c.sent),
                         !.history = IF coded
                           THEN PacemgRemembered(@, e.global_seqno, e.max_history) ELSE @]
  IN PacemgEncRetire([e EXCEPT !.containers[Min(PacemgToSend(e))] = sent,
                               !.global_seqno = @ + 1])

(* Coded packets of a container that the report cannot know of yet.        *)
PacemgInFlight(c, seqno) == Cardinality({s \in c.history : s > seqno})

(* One entry of a report.  A generation that is decoded and has nothing to *)
(* send is done; else the packets missing, that are not on the way, are    *)
(* sent.  The decoder is never ahead of the encoder: an assertion.         *)
PacemgEncHear(e, entry, seqno) ==
  LET missing  == entry.rank_enc - entry.rank_dec
      this(c)  == c.generation = entry.generation
      done(c)  == this(c) /\ missing = 0 /\ c.to_send = 0 /\ entry.rank_dec = Symbols
      more(c)  == missing - PacemgInFlight(c, seqno)
      paid(c)  == IF this(c) /\ missing > 0 /\ more(c) > 0
                  THEN [c EXCEPT !.to_send = @ + more(c)] ELSE c
      kept     == SelectSeq(e.containers, LAMBDA c : ~done(c))
  IN PacemgEncList([e EXCEPT !.failed = @ \/ missing < 0],
                   [n \in DOMAIN kept |-> paid(kept[n])])

(* nck_pacemg_enc_put_feedback                                             *)
PacemgEncPutFeedback(e, fb) ==
  LET old(c)     == c.generation < fb.oldest_generation
      left       == PacemgEncList(e, SelectSeq(e.containers, LAMBDA c : ~old(c)))
      hear(x, n) == PacemgEncHear(x, fb.entries[n], fb.global_seqno)
  IN IF ~e.feedback THEN e
     ELSE FoldLeft(hear, left, [n \in DOMAIN fb.entries |-> n])

-----------------------------------------------------------------------------
PacemgContainer(generation) ==
  [generation |-> generation, span |-> EmptySpan, rank_enc_latest |-> 0, rank_dec |-> 0,
   flush |-> FALSE, index |-> 0, queue |-> <<>>, queue_index |-> 0]

(* gen_oldest keeps its value when the last container is deleted.          *)
PacemgDecStart(o) ==
  [protocol |-> "pacemg", containers |-> <<PacemgContainer(1)>>, gen_oldest |-> 1,
   gen_oldest_deleted |-> 0, oldest_global_seq |-> 0, max_active |-> o.max_active,
   has_feedback |-> FALSE, read |-> <<>>, eager |-> o.eager, failed |-> FALSE]

(* nck_pacemg_update_decoder_stat                                          *)
PacemgDecList(d, containers) ==
  [d EXCEPT !.containers = containers,
            !.gen_oldest = IF containers = <<>> THEN @ ELSE Head(containers).generation]

PacemgAt(d, generation) ==
  {n \in DOMAIN d.containers : d.containers[n].generation = generation}

PacemgQueued(c) == c.queue_index < Len(c.queue)

(* nck_pacemg_dec_has_source: only the oldest container is asked.          *)
PacemgDecHasSource(d) ==
  LET c == Head(d.containers)
  IN /\ d.containers # <<>>
     /\ c.index < Symbols
     /\ \/ PacemgQueued(c)
        \/ /\ c.queue = <<>>
           /\ d.gen_oldest <= d.gen_oldest_deleted + 1
           /\ IsSymbolUncoded(c.span, c.index + 1)

(* The oldest container is deleted; with no container left the code reads  *)
(* through a null pointer.                                                 *)
PacemgDecDelete(d) ==
  IF d.containers = <<>> THEN [d EXCEPT !.failed = TRUE]
  ELSE PacemgDecList([d EXCEPT !.gen_oldest_deleted = Head(d.containers).generation],
                     Tail(d.containers))

(* nck_pacemg_dec_get_source: its last symbol deletes a container.         *)
PacemgDecGetSource(d) ==
  LET c     == Head(d.containers)
      index == IF c.flush THEN SkipUndecoded(c.span, c.index + 1) ELSE c.index + 1
  IN IF PacemgQueued(c)
     THEN LET took == [d EXCEPT !.read = Append(@, c.queue[c.queue_index + 1]),
                                !.containers[1].queue_index = @ + 1]
          IN IF c.queue_index + 1 = Len(c.queue) THEN PacemgDecDelete(took) ELSE took
     ELSE LET took == [d EXCEPT !.read = Append(@, <<c.generation, c.index + 1>>),
                                !.containers[1].index = index]
          IN IF index = Symbols THEN PacemgDecDelete(took) ELSE took

PacemgSourceReady(d) ==
  LET take(x, n) == IF PacemgDecHasSource(x) THEN PacemgDecGetSource(x) ELSE x
  IN IF d.eager
     THEN FoldLeft(take, d, [n \in 1 .. Symbols * Len(d.containers) |-> n]) ELSE d

(* nck_pacemg_dec_flush_container, with the callback it makes.             *)
PacemgDecFlush(d, generation) ==
  LET n     == CHOOSE m \in PacemgAt(d, generation) : TRUE
      c     == d.containers[n]
      at    == SkipUndecoded(c.span, c.index)
      queue == FlushQueue([c EXCEPT !.index = at])
      done  == [d EXCEPT !.containers[n] = [c EXCEPT !.flush = TRUE, !.index = at,
                                                     !.queue_index = 0, !.queue = queue]]
  IN IF queue = <<>> THEN done ELSE PacemgSourceReady(done)

(* May it return zero?  An application that took the last symbol in the    *)
(* callback has freed the container whose queue_length is returned.        *)
PacemgFlushEmpty(d, generation) ==
  IF PacemgAt(d, generation) = {} THEN BOOLEAN
  ELSE {d.containers[n].queue = <<>> : n \in PacemgAt(d, generation)}

(* nck_pacemg_dec_flush_source walks on from a container that may be gone. *)
PacemgDecFlushSource(d) ==
  LET flush(x, g) ==
        IF PacemgAt(x, g) = {} THEN x
        ELSE LET y == PacemgDecFlush(x, g)
             IN [y EXCEPT !.failed = @ \/ PacemgAt(y, g) = {}]
  IN FoldLeft(flush, d, [n \in DOMAIN d.containers |-> d.containers[n].generation])

(* Room for another generation: the oldest is flushed, and deleted when it *)
(* has nothing for the application.                                        *)
PacemgRooms(d) ==
  LET oldest == Head(d.containers).generation
      done   == PacemgDecFlush(d, oldest)
  IN IF Len(d.containers) < d.max_active THEN {d}
     ELSE {IF empty THEN PacemgDecDelete(done) ELSE done :
             empty \in PacemgFlushEmpty(done, oldest)}

(* nck_pacemg_dec_start_next_generation                                    *)
PacemgDecOpen(d, generation) ==
  LET older(c) == c.generation < generation
      newer(c) == ~older(c)
  IN PacemgDecList(d, SelectSeq(d.containers, older) \o <<PacemgContainer(generation)>>
                      \o SelectSeq(d.containers, newer))

(* A packet for a generation that has a container.                         *)
PacemgDecRead(d, pkt) ==
  LET n    == CHOOSE m \in PacemgAt(d, pkt.generation) : TRUE
      span == ReadPayload(d.containers[n].span, pkt.vec)
      read == [d EXCEPT !.containers[n] = [@ EXCEPT !.span = span, !.rank_dec = Rank(span),
                                                    !.rank_enc_latest = pkt.rank],
                        !.oldest_global_seq = pkt.global_seqno]
  IN [PacemgSourceReady(read) EXCEPT !.has_feedback = @ \/ pkt.feedback_flag]

(* nck_pacemg_dec_put_coded                                                *)
PacemgDecPutCodeds(d, pkt) ==
  IF pkt.generation < d.gen_oldest \/ pkt.generation <= d.gen_oldest_deleted THEN {d}
  ELSE IF PacemgAt(d, pkt.generation) # {} THEN {PacemgDecRead(d, pkt)}
  ELSE {PacemgDecRead(PacemgDecOpen(room, pkt.generation), pkt) : room \in PacemgRooms(d)}

(* Mutant: every generation is reported with the newest one's rank.        *)
PacemgFeedbackNewest(d) ==
  [oldest_generation |-> d.gen_oldest, global_seqno |-> d.oldest_global_seq,
   entries |-> [n \in DOMAIN d.containers |->
     [generation |-> d.containers[n].generation,
      rank_enc   |-> Last(d.containers).rank_enc_latest,
      rank_dec   |-> d.containers[n].rank_dec]]]

(* nck_pacemg_dec_get_feedback: but for the newest generation the encoder  *)
(* is taken to have all symbols.                                           *)
PacemgFeedback(d) ==
  [oldest_generation |-> d.gen_oldest, global_seqno |-> d.oldest_global_seq,
   entries |-> [n \in DOMAIN d.containers |->
     [generation |-> d.containers[n].generation,
      rank_enc   |-> IF n = Len(d.containers) THEN d.containers[n].rank_enc_latest
                     ELSE Symbols,
      rank_dec   |-> d.containers[n].rank_dec]]]

PacemgDecGetFeedback(d) == [d EXCEPT !.has_feedback = FALSE]

=============================================================================
