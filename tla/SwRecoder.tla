----------------------------- MODULE SwRecoder -----------------------------
(***************************************************************************)
(* The sliding window recoder, src/sliding_window/recoder.cpp: a decoder   *)
(* (the same ring, flush point and queue; what is the same in both is      *)
(* taken from SwDecoder) that sends combinations of what it has read, as   *)
(* many as a credit rate control lets it, and hands feedback on.           *)
(***************************************************************************)
EXTENDS SwDecoder

NoFeedback == [feedback_no |-> 0, seq |-> 0, first_missing |-> 0, no |-> 0, missing |-> {}]

(* rc: the credits; enabled: the slots marked so, which are combined;      *)
(* last_packet_no: of the newest packet read; flush_next, flush_packet_no: *)
(* is the next packet a flush, and which; feedback_buffer: the last        *)
(* feedback heard, last_feedback_no: its number.                           *)
RecTyped(r) ==
  /\ SinkTyped(r)
  /\ RateTyped(r.rc)
  /\ r.enabled \subseteq Slots
  /\ {r.last_packet_no, r.last_feedback_no, r.flush_packet_no} \subseteq Nat
  /\ r.flush_next \in BOOLEAN

RecStart ==
  [rb |-> Ring!RbInit, seq |-> 0, span |-> EmptySpan, flush |-> 0,
   has_source |-> FALSE, queue |-> <<>>, read |-> <<>>, eager |-> opt.tap /\ opt.eager,
   rc |-> CreditInit(Symbols, AtLeast(opt.redundancy, -Symbols)), enabled |-> {},
   last_packet_no |-> 0, flush_next |-> FALSE, flush_packet_no |-> 0,
   last_feedback_no |-> 0, feedback_buffer |-> NoFeedback, has_feedback |-> FALSE,
   timer |-> FALSE]

-----------------------------------------------------------------------------
RecHasSource(r) == DecHasSource(r)

RecHasCoded(r) == NextRepair(r.rc, 0)

RecMoveToNext(r) == DecMoveToNext(r)

(* nck_sw_rec_get_source                                                   *)
RecGetSource(r) == DecGetSource(r)

(* nck_sw_rec_flush_source                                                 *)
RecFlushSource(r) ==
  LET ready == [r EXCEPT !.flush = r.seq]
  IN IF Ring!RbEmpty(r.rb) THEN r
     ELSE DecSourceReady(IF r.has_source THEN ready ELSE RecMoveToNext(ready))

(* nck_sw_rec_flush_coded                                                  *)
RecFlushCoded(r) == [r EXCEPT !.rc = FlushRate(@)]

(* recoder_timeout_flush                                                   *)
RecTimeout(r) ==
  LET fired  == [r EXCEPT !.timer = FALSE]
      source == IF RecHasSource(fired) THEN fired ELSE RecFlushSource(fired)
  IN IF RecHasCoded(source) THEN source ELSE RecFlushCoded(source)

-----------------------------------------------------------------------------
(* nck_sw_rec_apply_forward_window: the newest symbols are enabled, those  *)
(* the forward code window closes on are disabled.                         *)
RecForwardWindow(r, distance) ==
  LET moved == AtMost(distance, Symbols)
      new   == AtMost(moved, opt.rec_window)
      old   == AtMost(moved, Symbols - opt.rec_window)
      end   == r.seq - opt.rec_window
  IN [r EXCEPT !.enabled = (@ \cup {Slot(s) : s \in r.seq - new .. r.seq - 1})
                             \ {Slot(s) : s \in end - old .. end - 1}]

(* nck_sw_rec_put_coded_consume_old: as in the decoder, but the lost       *)
(* blocks are counted before the consumer is called, and what it takes is  *)
(* not taken off: `lost' blocks are read all the same, blocks that are not *)
(* lost too, and slot 0 for each one that an empty ring does not have.     *)
RecQueueLost(r, seqno, lost) ==
  LET blocks == AtMost(lost, r.rb.num_blocks)
      none   == IF DecDecoded(r, 0) THEN lost - blocks ELSE 0
  IN [DecQueue(r, seqno, blocks) EXCEPT
        !.queue = @ \o [n \in 1 .. none |-> SymbolAt(r.seq, 0)]]

RecConsumeOld(r, seqno) ==
  LET moved   == [r EXCEPT !.rc = Advance(@, Ring!RbShift(r.rb, seqno))]
      skipped == DecSkipLost(moved, seqno)
      lost    == Ring!RbLost(r.rb, seqno) - (r.rb.num_blocks - skipped.rb.num_blocks)
  IN IF Ring!RbOutdated(r.rb, seqno) THEN r
     ELSE IF Ring!RbLost(r.rb, seqno) = 0 THEN moved
     ELSE RecQueueLost(DecSourceReady(skipped), seqno, lost)

(* The number goes forward, or far enough back for a sender that restarts. *)
RecPacketNo(r, pkt) ==
  IF pkt.no > r.last_packet_no \/ pkt.no - r.last_packet_no < -Symbols
  THEN pkt.no ELSE r.last_packet_no

RecRead(r, pkt) ==
  LET seq == KodoSeq(r.seq, r.span, pkt)
  IN RecForwardWindow([r EXCEPT !.seq = seq,
                                !.span = KodoSpan(r.seq, r.span, pkt),
                                !.rb = Ring!RbInsert(@, pkt.seq)],
                      IF seq >= r.seq THEN seq - r.seq ELSE Symbols)

(* A flush is passed on, with a packet paid for it; otherwise only what is *)
(* new earns credit.                                                       *)
RecEarn(r, pkt, rank) ==
  IF pkt.flush /\ r.last_packet_no > r.flush_packet_no /\ ~r.flush_next
  THEN [r EXCEPT !.rc = Insert(@, TRUE),
                 !.flush_next = TRUE,
                 !.flush_packet_no = r.last_packet_no]
  ELSE IF Rank(r.span) > rank THEN [r EXCEPT !.rc = Insert(@, FALSE)]
  ELSE r

(* nck_sw_rec_put_coded                                                    *)
RecPutCoded(r, pkt) ==
  LET old  == RecConsumeOld([r EXCEPT !.last_packet_no = RecPacketNo(r, pkt)], pkt.seq)
      kept == Kept(old.span, KodoSeq(old.seq, old.span, pkt))
      new  == RecEarn(RecRead(old, pkt), pkt, Rank(kept))
      head == [new EXCEPT !.has_source = ~Ring!RbEmpty(new.rb) /\ 0 \in DecReadable(new)]
      next == [head EXCEPT !.flush = DecFlushAfter(head)]
  IN DecSourceReady([next EXCEPT !.timer = @ \/ next.flush # next.seq])

-----------------------------------------------------------------------------
(* What the recoder may draw: a combination of the rows of kodo's reduced  *)
(* echelon form whose pivots are enabled.                                  *)
RecVectors(r) ==
  {v \in r.span : \A s \in v \cap Pivots(r.span) : Slot(s) \in r.enabled}

RecPacket(r, vec) ==
  [seq |-> r.seq, vec |-> vec, asks |-> FALSE, flush |-> r.flush_next,
   no |-> IF r.flush_next THEN r.flush_packet_no ELSE r.last_packet_no]

(* nck_sw_rec_get_coded: credit is spent on every packet, but one with all *)
(* coefficients zero is thrown away, and what it should have flushed is    *)
(* not flushed.                                                            *)
RecGetCoded(r, vec) ==
  [r EXCEPT !.rc = Step(@), !.flush_next = @ /\ vec = {}]

-----------------------------------------------------------------------------
(* nck_sw_rec_apply_feedback: what has arrived is disabled, what is        *)
(* missing enabled.  A feedback ahead of the recoder moves its window (and *)
(* passes its number, not the distance, to the forward code window).       *)
RecCatchUp(r, fb) ==
  LET kept == RecForwardWindow(RecConsumeOld(r, fb.seq), fb.seq)
  IN IF fb.seq <= r.seq THEN r
     ELSE [kept EXCEPT !.seq = fb.seq, !.span = Kept(@, fb.seq)]

RecApplyFeedback(r, fb) ==
  LET now     == RecCatchUp(r, fb)
      checked == {Slot(s) : s \in now.seq - Symbols .. fb.seq - 1}
  IN IF now.seq - fb.seq >= Symbols THEN now
     ELSE [now EXCEPT !.enabled = (@ \ (checked \ fb.missing))
                                    \cup (checked \cap fb.missing)]

(* nck_sw_rec_schedule_retransmission: a packet for each missing symbol,   *)
(* up to one more than the rank.                                           *)
RecSchedule(r, fb) ==
  LET again == AtMost(Cardinality(fb.missing), Rank(r.span) + 1)
      pay(rc, n) == Insert(rc, TRUE)
  IN [r EXCEPT !.rc = FoldLeft(pay, @, [n \in 1 .. again |-> n])]

RecHadAlready(r, fb) == fb.feedback_no - r.last_feedback_no \in 1 - Symbols .. 0

(* nck_sw_rec_put_feedback                                                 *)
RecPutFeedback(r, fb) ==
  LET told == [RecApplyFeedback(r, fb) EXCEPT !.feedback_buffer = fb,
                                              !.last_feedback_no = fb.feedback_no,
                                              !.has_feedback = TRUE]
  IN IF RecHadAlready(r, fb) THEN r ELSE RecSchedule(told, fb)

(* nck_sw_rec_get_feedback                                                 *)
RecFeedback(r) == r.feedback_buffer

RecGetFeedback(r) == [r EXCEPT !.has_feedback = FALSE]

=============================================================================
