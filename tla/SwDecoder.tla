------------------------------ MODULE SwDecoder ------------------------------
(***************************************************************************)
(* The sliding window decoder, src/sliding_window/decoder.cpp: a kodo      *)
(* decoder, the ring buffer that says which symbol is delivered next, a    *)
(* flush point up to which nothing is waited for, and a queue for symbols  *)
(* that had to leave the window before they were taken.                    *)
(***************************************************************************)
EXTENDS SlidingWindow

Ring == INSTANCE RingBuffer WITH Blocks <- Symbols

(* seq, span: the kodo decoder; has_source: as computed last, for the head *)
(* of the ring; feedback_packet_no: the packet the feedback is for; read:  *)
(* what the application has got so far (history); eager: does it take the  *)
(* symbols inside on_source_ready? failed: has an assertion failed?        *)
SinkTyped(d) ==
  /\ d.rb \in Ring!RingBuffers
  /\ {d.seq, d.flush} \subseteq Nat
  /\ {d.queue, d.read} \subseteq Seq(Nat)
  /\ {d.has_source, d.has_feedback, d.timer, d.eager} \subseteq BOOLEAN
  /\ \A v \in d.span : v \subseteq WindowOf(d.seq)

DecTyped(d) ==
  /\ SinkTyped(d)
  /\ {d.feedback_packet_no, d.feedback_no} \subseteq Nat
  /\ d.feedback_tx_attempts \in 0 .. opt.fb_tx
  /\ {d.initialized, d.fb_timer, d.failed} \subseteq BOOLEAN

(* With the sequence option the first packet is known to be number 1.      *)
DecStart ==
  [rb |-> Ring!RbInit, seq |-> 0, span |-> EmptySpan, flush |-> 0,
   initialized |-> opt.sequence, has_source |-> FALSE, has_feedback |-> FALSE,
   feedback_packet_no |-> 0, feedback_no |-> 0, feedback_tx_attempts |-> 0,
   queue |-> <<>>, timer |-> FALSE, fb_timer |-> FALSE, read |-> <<>>,
   eager |-> opt.eager, failed |-> FALSE]

-----------------------------------------------------------------------------
(* is_symbol_uncoded || check_symbol_status, for a slot                    *)
DecDecoded(d, i) == IsSymbolUncoded(d.span, SymbolAt(d.seq, i))

DecHasSource(d) == d.queue # <<>> \/ d.has_source

(* The readable blocks that are decoded, counted from the head of the ring *)
DecReadable(d) ==
  {k \in 0 .. d.rb.num_blocks - 1 : DecDecoded(d, Ring!RbSlot(d.rb, k))}

SmallestIn(S) == CHOOSE k \in S : \A j \in S : k <= j

(* The numbers of a set in ascending order.                                *)
Sorted(S) ==
  CHOOSE seq \in [1 .. Cardinality(S) -> S] :
    \A m, n \in DOMAIN seq : m < n => seq[m] < seq[n]

(* The flush point stays ahead of a head that can be taken.                *)
DecFlushAfter(d) ==
  IF d.has_source /\ d.flush = Ring!RbReadSeqno(d.rb) THEN d.flush + 1 ELSE d.flush

(* move_to_next_source: skip to the first block that is decoded, or that   *)
(* the flush point says to wait for.                                       *)
DecMoveToNext(d) ==
  LET waits == {k \in 0 .. d.rb.num_blocks - 1 : Ring!RbReadSeqno(d.rb) + k = d.flush}
      stops == DecReadable(d) \cup waits
      k     == IF stops = {} THEN d.rb.num_blocks ELSE SmallestIn(stops)
      moved == [d EXCEPT !.rb = Ring!RbRead(@, k), !.has_source = k \in DecReadable(d)]
  IN [moved EXCEPT !.flush = DecFlushAfter(moved)]

(* Mutant: what the ring has ready comes before what had to be queued.     *)
DecGetNewestFirst(d) ==
  IF d.has_source
  THEN DecMoveToNext(
         [d EXCEPT !.read = Append(@, SymbolAt(d.seq, Ring!RbSlot(d.rb, 0))),
                   !.rb = Ring!RbRead(@, 1),
                   !.has_source = FALSE])
  ELSE [d EXCEPT !.read = Append(@, Head(d.queue)), !.queue = Tail(@)]

(* nck_sw_dec_get_source                                                   *)
DecGetSource(d) ==
  IF d.queue # <<>>
  THEN [d EXCEPT !.read = Append(@, Head(d.queue)), !.queue = Tail(@)]
  ELSE DecMoveToNext(
         [d EXCEPT !.read = Append(@, SymbolAt(d.seq, Ring!RbSlot(d.rb, 0))),
                   !.rb = Ring!RbRead(@, 1),
                   !.has_source = FALSE])

(* on_source_ready: an eager consumer takes all there is, inside the call. *)
DecSourceReady(d) ==
  LET take(x, n) == IF DecHasSource(x) THEN DecGetSource(x) ELSE x
  IN IF d.eager /\ DecHasSource(d)
     THEN FoldLeft(take, d, [n \in 1 .. 2 * Symbols |-> n])
     ELSE d

(* nck_sw_dec_flush_source                                                 *)
DecFlushSource(d) ==
  LET ready == [d EXCEPT !.fb_timer = FALSE, !.flush = d.seq]
  IN IF Ring!RbEmpty(d.rb) THEN [d EXCEPT !.fb_timer = FALSE]
     ELSE DecSourceReady(IF d.has_source THEN ready ELSE DecMoveToNext(ready))

-----------------------------------------------------------------------------
(* nck_sw_dec_put_coded_consume_old, before a packet moves the window past *)
(* symbols that were not taken: skip the undecoded ones, let the consumer  *)
(* take the rest, and queue what it leaves.                                *)
DecSkipLost(d, seqno) ==
  LET lost   == Ring!RbLost(d.rb, seqno)
      stops  == DecReadable(d) \cap 0 .. lost - 1
      k      == IF stops = {} THEN lost ELSE SmallestIn(stops)
  IN [d EXCEPT !.flush = seqno - Symbols,
               !.rb = Ring!RbRead(@, k),
               !.has_source = @ \/ stops # {}]

(* Mutant: symbols that are lost from the ring are not queued.             *)
DecQueueNothing(d, seqno) ==
  [d EXCEPT !.rb = Ring!RbRead(@, Ring!RbLost(d.rb, seqno)),
            !.queue = <<>>, !.has_source = FALSE]

(* Of the next `lost' blocks, the decoded ones are queued.                 *)
DecQueue(d, seqno, lost) ==
  LET decoded == Sorted(DecReadable(d) \cap 0 .. lost - 1)
      rest    == [d EXCEPT !.rb = Ring!RbRead(@, lost)]
  IN [rest EXCEPT
        !.queue = [n \in DOMAIN decoded |->
                     SymbolAt(d.seq, Ring!RbSlot(d.rb, decoded[n]))],
        !.flush = IF Ring!RbReadSeqno(rest.rb) + Symbols < seqno
                  THEN Ring!RbReadSeqno(rest.rb) ELSE @,
        !.has_source = FALSE]

(* The lost blocks are counted again after the consumer was called.        *)
DecQueueLost(d, seqno) == DecQueue(d, seqno, Ring!RbLost(d.rb, seqno))

DecConsumeOld(d, seqno) ==
  IF Ring!RbOutdated(d.rb, seqno) \/ Ring!RbLost(d.rb, seqno) = 0 THEN d
  ELSE DecQueueLost(DecSourceReady(DecSkipLost(d, seqno)), seqno)

(* nck_sw_feedback_required: the packet was of no use, or came after a gap *)
DecFeedbackRequired(d, rank, seq) ==
  LET now == Rank(d.span)
  IN /\ opt.feedback /\ ~opt.fb_timeout
     /\ \/ now < rank
        \/ now = rank /\ rank # Symbols
        \/ now > rank /\ d.seq - seq > 1

(* nck_sw_dec_put_coded                                                    *)
DecInitialize(d, pkt) ==
  IF d.initialized THEN d
  ELSE [d EXCEPT !.initialized = TRUE, !.flush = pkt.seq - 1]

DecRead(d, pkt) ==
  [d EXCEPT !.seq = KodoSeq(d.seq, d.span, pkt),
            !.span = KodoSpan(d.seq, d.span, pkt),
            !.rb = Ring!RbInsert(@, pkt.seq),
            !.feedback_packet_no = pkt.no,
            !.feedback_tx_attempts = 0]

DecPutCoded(d, pkt) ==
  LET old  == DecConsumeOld(DecInitialize(d, pkt), pkt.seq)
      new  == DecRead(old, pkt)
      head == [new EXCEPT !.has_source = ~Ring!RbEmpty(new.rb) /\ 0 \in DecReadable(new)]
      next == [head EXCEPT !.flush = DecFlushAfter(head)]
  IN DecSourceReady(
       [next EXCEPT
          !.has_feedback = \/ @ \/ pkt.asks \/ pkt.flush
                           \/ DecFeedbackRequired(new, Rank(old.span), old.seq),
          !.fb_timer = @ \/ (opt.feedback /\ opt.fb_timeout),
          !.timer = @ \/ (~opt.feedback /\ opt.dec_timeout /\ next.flush # next.seq)])

-----------------------------------------------------------------------------
(* nck_sw_dec_get_feedback: the slots of the window that no row has as its *)
(* pivot, and the first symbol that is not decoded.                        *)
DecWindow(d) == Ring!RbReadSeqno(d.rb) .. d.seq - 1

(* Mutant: the first symbol without a pivot is reported, not the first     *)
(* one that is not decoded.                                                *)
DecFirstUnseen(d) ==
  LET unseen == {s \in DecWindow(d) : SymbolAt(d.seq, Slot(s)) \notin Pivots(d.span)}
  IN IF unseen = {} THEN d.seq ELSE SmallestIn(unseen)

DecFirstMissing(d) ==
  LET undecoded == {s \in DecWindow(d) : ~DecDecoded(d, Slot(s))}
  IN IF undecoded = {} THEN d.seq ELSE SmallestIn(undecoded)

DecFeedback(d) ==
  [no |-> d.feedback_packet_no, seq |-> d.seq, first_missing |-> DecFirstMissing(d),
   feedback_no |-> d.feedback_no,
   missing |-> {Slot(s) : s \in {t \in DecWindow(d) :
                                   SymbolAt(d.seq, Slot(t)) \notin Pivots(d.span)}}]

(* The feedback is numbered from 0 on.  Only a recoder looks at the number *)
(* of it: without one it is not counted, which makes the states fewer.     *)
DecGetFeedback(d) ==
  [d EXCEPT !.has_feedback = FALSE,
            !.feedback_no = IF opt.relay THEN @ + 1 ELSE @,
            !.fb_timer = IF opt.fb_timeout THEN ~Ring!RbEmpty(d.rb) ELSE @,
            !.failed = @ \/ d.seq - Ring!RbReadSeqno(d.rb) \notin 0 .. Symbols]

(* decoder_timeout_flush and decoder_fb_timeout                            *)
DecTimeout(d) == DecFlushSource([d EXCEPT !.timer = FALSE])

DecFbTimeout(d) ==
  LET fired == [d EXCEPT !.fb_timer = FALSE]
  IN IF d.feedback_tx_attempts >= opt.fb_tx THEN DecFlushSource(fired)
     ELSE [fired EXCEPT !.feedback_tx_attempts = @ + 1, !.has_feedback = TRUE]

-----------------------------------------------------------------------------
(* The ring and the kodo decoder agree on the slots, and the cached flag   *)
(* tells the truth: there is a head, and it is decoded.                    *)
HeadOf(d) ==
  /\ Ring!RbAligned(d.rb)
  /\ d.has_source =>
       /\ ~Ring!RbEmpty(d.rb)
       /\ IsSymbolUncoded(d.span, Ring!RbReadSeqno(d.rb))

=============================================================================
