------------------------------ MODULE SwEncoder ------------------------------
(***************************************************************************)
(* The sliding window encoder, src/sliding_window/encoder.cpp.  Its state  *)
(* is a record; an operation is an operator from the record before a call  *)
(* to the record after it.                                                 *)
(***************************************************************************)
EXTENDS SlidingWindow

(* seq: the coder's sequence number; enabled, systematic: the slots marked *)
(* so; source_symbols: how many source symbols are to be sent;             *)
(* first_missing: as last reported; packet_count: packets sent;            *)
(* systematic_time, coded_time: the packet that last carried a slot;       *)
(* coded_packets: the last repair packets; timer: is the timeout armed?    *)
(* failed: has an assertion failed?                                        *)
EncStates ==
  [seq : Nat, enabled : SUBSET Slots, systematic : SUBSET Slots,
   source_symbols : Nat, first_missing : Nat, packet_count : Nat,
   systematic_time : [Slots -> Nat], coded_time : [Slots -> Nat],
   tx_attempts : [Slots -> 0 .. Unlimited], flush_attempts : 0 .. Unlimited - 1,
   flush_next : BOOLEAN, coded_packets : Seq(Nat), timer : BOOLEAN,
   failed : BOOLEAN]

EncTyped(e) ==
  /\ [f \in DOMAIN e \ {"rc"} |-> e[f]] \in EncStates
  /\ RateTyped(e.rc)

EncStart ==
  [seq |-> 0, enabled |-> {}, systematic |-> {}, source_symbols |-> 0,
   first_missing |-> 0, packet_count |-> 0,
   systematic_time |-> [i \in Slots |-> 0], coded_time |-> [i \in Slots |-> 0],
   tx_attempts |-> [i \in Slots |-> 0], flush_attempts |-> 0, flush_next |-> FALSE,
   coded_packets |-> [k \in 1 .. opt.memory |-> 0], timer |-> FALSE,
   failed |-> FALSE, rc |-> opt.rc]

-----------------------------------------------------------------------------
EncIndex(e) == Slot(e.seq)

EncRank(e) == IF e.seq < Symbols THEN e.seq ELSE Symbols

(* The numbers of the symbols in a set of slots.                           *)
EncSymbols(e, slots) == {SymbolAt(e.seq, i) : i \in slots}

EncHasCoded(e) == e.source_symbols > 0 \/ NextRepair(e.rc, e.source_symbols)

EncFull(e) ==
  \/ ~InsertAllowed(e.rc, e.source_symbols)
  \/ e.tx_attempts[EncIndex(e)] # 0
  \/ /\ opt.period > 0 \/ opt.feedback_only_on_repair
     /\ opt.tx = Unlimited
     /\ e.seq - e.first_missing = Symbols

(* nck_sw_enc_put_source: the symbol goes to the next slot; the one the    *)
(* forward code window closes on is not coded any more.                    *)
EncPutSource(e) ==
  LET i == EncIndex(e)
  IN [e EXCEPT
        !.seq = @ + 1,
        !.enabled = (@ \ {Slot(e.seq - opt.code_window)}) \cup {i},
        !.systematic = @ \cup {i},
        !.source_symbols = IF i \in e.systematic THEN @ ELSE @ + 1,
        !.tx_attempts[i] = opt.tx,
        !.flush_attempts = opt.tx - 1,
        !.rc = Insert(@, FALSE),
        !.timer = FALSE]

-----------------------------------------------------------------------------
EncRepairNext(e) == NextRepair(e.rc, e.source_symbols)

(* The systematic symbol that kodo sends next: the oldest marked one.      *)
EncNextSystematic(e) ==
  CHOOSE i \in e.systematic :
    \A j \in e.systematic : SymbolAt(e.seq, i) <= SymbolAt(e.seq, j)

EncSendRepair(e, no) ==
  [e EXCEPT
     !.coded_time = [i \in Slots |-> IF i \in e.enabled THEN no ELSE @[i]],
     !.coded_packets = IF @ = <<>> THEN @ ELSE Append(Tail(@), no)]

EncSendSystematic(e, no) ==
  LET i == EncNextSystematic(e)
  IN IF e.systematic = {} THEN [e EXCEPT !.failed = TRUE]
     ELSE [e EXCEPT
             !.systematic = @ \ {i},
             !.source_symbols = @ - 1,
             !.systematic_time[i] = no,
             !.coded_time[i] = no,
             !.tx_attempts[i] = IF opt.tx = Unlimited THEN @ ELSE @ - 1,
             !.failed = @ \/ e.tx_attempts[i] = 0]

(* nck_sw_enc_get_coded                                                    *)
EncGetCoded(e) ==
  LET no   == e.packet_count + 1
      took == [e EXCEPT !.packet_count = no, !.rc = Step(@), !.flush_next = FALSE]
      sent == IF EncRepairNext(e) THEN EncSendRepair(took, no)
              ELSE EncSendSystematic(took, no)
  IN [sent EXCEPT !.timer = @ \/ (opt.enc_timeout /\ ~EncHasCoded(sent))]

(* What it may put into the packet: the systematic symbol, or a random     *)
(* combination of the enabled ones.                                        *)
EncVectors(e) ==
  IF EncRepairNext(e) THEN SUBSET EncSymbols(e, e.enabled)
  ELSE {EncSymbols(e, {EncNextSystematic(e)})}

EncAsksFeedback(e) ==
  LET after == EncGetCoded(e)
  IN /\ opt.period > 0
     /\ IF opt.feedback_only_on_repair THEN EncRepairNext(e)
        ELSE \/ ~EncHasCoded(after)
             \/ after.tx_attempts[EncIndex(after)] # 0
             \/ after.packet_count % opt.period = 0

EncPacket(e, vec) ==
  [seq |-> IF EncRepairNext(e) THEN e.seq
           ELSE SymbolAt(e.seq, EncNextSystematic(e)) + 1,
   vec |-> vec, no |-> e.packet_count + 1,
   asks |-> EncAsksFeedback(e), flush |-> e.flush_next]

-----------------------------------------------------------------------------
(* nck_sw_enc_free_symbols: the slots of seq - rank + 1 .. seq.            *)
EncFreeSymbols(e) ==
  LET freed == {Slot(s) : s \in e.seq - EncRank(e) + 1 .. e.seq}
      left  == e.source_symbols - Cardinality(freed \cap e.systematic)
  IN [e EXCEPT !.enabled = @ \ freed,
               !.systematic = @ \ freed,
               !.tx_attempts = [i \in Slots |-> IF i \in freed THEN 0 ELSE @[i]],
               !.source_symbols = left]

(* Without repair packets a flush sends the newest symbol again that has   *)
(* attempts left.                                                          *)
EncSendNewestAgain(e) ==
  LET left == {i \in Slots : e.tx_attempts[i] > 0}
      i    == CHOOSE i \in left :
                \A j \in left : SymbolAt(e.seq, i) >= SymbolAt(e.seq, j)
  IN IF left = {} THEN e
     ELSE [e EXCEPT !.enabled = @ \cup {i},
                    !.systematic = @ \cup {i},
                    !.source_symbols = IF i \in e.systematic THEN @ ELSE @ + 1,
                    !.rc = ResetSourceMin(@)]

(* nck_sw_enc_flush_coded                                                  *)
EncFlushCoded(e) ==
  LET go == [e EXCEPT !.flush_attempts = IF opt.tx = Unlimited THEN @ ELSE @ - 1,
                      !.flush_next = TRUE]
  IN IF EncRank(e) = 0 \/ e.enabled = {} THEN e
     ELSE IF e.flush_attempts = 0 THEN EncFreeSymbols(e)
     ELSE IF ~HasRepair(e.rc) THEN EncSendNewestAgain(go)
     ELSE IF EncRepairNext(e) THEN go
     ELSE [go EXCEPT !.rc = ResetRepair(@)]

(* Mutant: the timeout flushes when there is something left to be sent.    *)
EncTimeoutBackwards(e) ==
  LET fired == [e EXCEPT !.timer = FALSE]
  IN IF EncHasCoded(e) THEN EncFlushCoded(fired) ELSE fired

(* encoder_timeout_flush                                                   *)
EncTimeout(e) ==
  LET fired == [e EXCEPT !.timer = FALSE]
  IN IF EncHasCoded(e) THEN fired ELSE EncFlushCoded(fired)

-----------------------------------------------------------------------------
(* nck_sw_enc_put_feedback.  The loop over the symbols the feedback tells  *)
(* of carries the encoder, the losses, the retransmissions planned, and    *)
(* the repair packets in flight that were already counted on.              *)

EncSeqnoValid(e, fb) == fb.seq <= e.seq /\ e.seq - fb.seq < EncRank(e)

(* Mutant: a symbol that has arrived is still counted as to be sent.       *)
EncAckedUncounted(acc, i) ==
  [acc EXCEPT !.e = [@ EXCEPT !.enabled = @ \ {i},
                              !.systematic = @ \ {i},
                              !.tx_attempts[i] = 0]]

(* Mutant: it is taken from the count even if it was not to be sent.       *)
EncAckedMiscounted(acc, i) ==
  [acc EXCEPT !.e = [@ EXCEPT !.enabled = @ \ {i},
                              !.systematic = @ \ {i},
                              !.tx_attempts[i] = 0,
                              !.source_symbols = @ - 1]]

(* The planned repair packet for a symbol that has arrived is taken back.  *)
EncTakeBack(rc) ==
  IF IsDual(rc) THEN [rc EXCEPT !.repair_counter = @ - 1] ELSE rc

(* The symbol in slot i has arrived.  If only a coded retransmission of it *)
(* is planned (its systematic time is in the future) that is taken back.   *)
EncAcked(acc, i) ==
  LET e == acc.e
  IN [acc EXCEPT !.e =
       [e EXCEPT
          !.enabled = @ \ {i},
          !.systematic = @ \ {i},
          !.tx_attempts[i] = 0,
          !.source_symbols = IF i \in e.systematic THEN @ - 1 ELSE @,
          !.rc = IF i \notin e.systematic /\ e.systematic_time[i] > e.packet_count
                 THEN EncTakeBack(@) ELSE @,
          !.failed = \/ @
                     \/ i \in e.systematic /\ e.source_symbols = 0
                     \/ /\ i \notin e.systematic
                        /\ e.systematic_time[i] > e.packet_count
                        /\ ~(IsDual(e.rc) /\ e.rc.repair_counter > 0)]]

(* The repair packets in flight that may still bring the symbol of slot i. *)
EncInFlight(acc, fb, i) ==
  {k \in DOMAIN acc.e.coded_packets :
     /\ acc.e.coded_packets[k] >= fb.no
     /\ acc.e.coded_packets[k] = acc.e.coded_time[i]
     /\ k \notin acc.used}

(* A symbol that is missing and not on its way is sent again.              *)
EncResend(acc, i) ==
  LET e == [acc.e EXCEPT !.enabled = @ \cup {i}]
  IN IF i \in e.systematic THEN [acc EXCEPT !.e = e]
     ELSE [acc EXCEPT
             !.resend = @ + 1,
             !.e = IF opt.coded_retrans /\ IsDual(e.rc)
                   THEN [e EXCEPT !.systematic_time[i] = e.packet_count + acc.resend + 1]
                   ELSE [e EXCEPT !.systematic = @ \cup {i},
                                  !.source_symbols = @ + 1,
                                  !.rc = Insert(@, TRUE),
                                  !.flush_attempts = opt.tx - 1]]

EncMissing(acc, fb, i) ==
  LET lost   == [acc EXCEPT !.losses = @ + 1]
      flight == EncInFlight(acc, fb, i)
  IN IF acc.e.systematic_time[i] > fb.no THEN lost
     ELSE IF opt.memory > 0 /\ acc.e.coded_time[i] >= fb.no /\ flight # {}
     THEN [lost EXCEPT !.used = @ \cup {CHOOSE k \in flight : \A j \in flight : k <= j}]
     ELSE IF acc.e.tx_attempts[i] = 0 THEN lost
     ELSE EncResend(lost, i)

(* Mutant: one symbol more than the feedback covers.                       *)
EncAnswerBeyond(e, fb) ==
  LET oldest == e.seq - EncRank(e)
      last   == IF fb.seq < e.seq THEN fb.seq + 1 ELSE e.seq
      slots  == [k \in 1 .. last - oldest |-> Slot(oldest + k - 1)]
      read(acc, i) == IF i \in fb.missing THEN EncMissing(acc, fb, i) ELSE EncAcked(acc, i)
  IN FoldLeft(read, [e |-> e, losses |-> 0, resend |-> 0, used |-> {}], slots)

(* The symbols the feedback covers, from the oldest in the window on.      *)
EncAnswer(e, fb) ==
  LET oldest == e.seq - EncRank(e)
      slots  == [k \in 1 .. fb.seq - oldest |-> Slot(oldest + k - 1)]
      read(acc, i) == IF i \in fb.missing THEN EncMissing(acc, fb, i) ELSE EncAcked(acc, i)
  IN FoldLeft(read, [e |-> e, losses |-> 0, resend |-> 0, used |-> {}], slots)

(* Coded retransmissions make the repair phase longer, or start one.       *)
EncPlanRepair(rc, resend) ==
  IF ~opt.coded_retrans \/ ~IsDual(rc) \/ resend = 0 THEN rc
  ELSE IF rc.repair_counter = 0 THEN DualReset(rc, TRUE, resend)
  ELSE [rc EXCEPT !.repair_counter = @ + resend]

EncPutFeedback(e, fb) ==
  LET told   == [e EXCEPT !.first_missing = IF fb.first_missing > @
                                            THEN fb.first_missing ELSE @]
      answer == EncAnswer(told, fb)
      plan   == EncPlanRepair(answer.e.rc, answer.resend)
      idle   == answer.e.enabled = {} /\ NextRepair(plan, answer.e.source_symbols)
      after  == [answer.e EXCEPT !.rc = IF idle THEN ResetSource(plan) ELSE plan]
  IN IF fb.no > e.packet_count THEN e
     ELSE IF ~EncSeqnoValid(e, fb) THEN told
     ELSE [after EXCEPT !.timer = opt.enc_timeout
                                  /\ ~(EncHasCoded(after) /\ answer.losses = 0)]

-----------------------------------------------------------------------------
(* The counter of source symbols is the number of marked slots; a marked   *)
(* symbol has an attempt left; and under the credit algorithm the credits  *)
(* pay for every one of them.                                              *)
EncBalanced(e) ==
  /\ ~e.failed
  /\ e.source_symbols = Cardinality(e.systematic)
  /\ \A i \in e.systematic : e.tx_attempts[i] > 0
  /\ ~IsDual(e.rc) => e.rc.counter >= e.source_symbols * Symbols

=============================================================================
