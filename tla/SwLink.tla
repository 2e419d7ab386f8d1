------------------------------- MODULE SwLink -------------------------------
(***************************************************************************)
(* Sliding window encoders and a decoder joined by datagram channels,      *)
(* directly or over a recoder.  A step is one call by an application, one  *)
(* packet delivered or lost, or one timeout; an encoder's application asks *)
(* nck_full before it puts a symbol in and nck_has_coded before it takes a *)
(* packet, and flushes at the end of its data (examples/simulator_common.c)*)
(*                                                                         *)
(* src/interflow_sw is the code of src/sliding_window again, for several   *)
(* encoders (nodes) that share the numbers of one stream: they write       *)
(* another header into their packets, and nothing else is different.  The  *)
(* operators used here are translated from the one, the actions hold for   *)
(* both: opt.nodes is 0 for the plain sliding window.                      *)
(***************************************************************************)
EXTENDS SwEncoder, SwRecoder

MaxSource == Max({o.source : o \in Options})

VARIABLES enc,      \* the encoder of each flow
          rec,      \* the recoder
          dec,      \* the decoder
          air,      \* the packets in flight, for each hop
          faults    \* packets lost or duplicated so far

vars == <<opt, enc, rec, dec, air, faults>>

Flows == 1 .. AtLeast(opt.nodes, 1)

Hops == {"coded", "recoded", "answers", "feedback"}

Init ==
  /\ opt \in Options
  /\ enc = [f \in Flows |-> EncStart]
  /\ rec = RecStart
  /\ dec = DecStart
  /\ air = [hop \in Hops |-> <<>>]
  /\ faults = 0

-----------------------------------------------------------------------------
(* The hops: the decoder hears the recoder, if there is one, and the other *)
(* way round.                                                              *)
DataHop == IF opt.relay THEN "recoded" ELSE "coded"

AnswerHop == IF opt.relay THEN "answers" ELSE "feedback"

Capacity(hop) ==
  IF hop \in {"coded", "recoded"} THEN opt.data_capacity ELSE opt.feedback_capacity

Places(hop) == 1 .. Capacity(hop)

Free(hop) == Len(air[hop]) < Capacity(hop)

(* The places of a hop a packet may be taken from.                         *)
Heads(hop) ==
  IF opt.reorder THEN DOMAIN air[hop] ELSE DOMAIN air[hop] \cap {1}

Sends(hop, pkt) == Free(hop) /\ air' = [air EXCEPT ![hop] = Append(@, pkt)]

(* A packet is taken out, or the channel has a second copy of it.          *)
Takes(hop, i) ==
  /\ i \in Heads(hop)
  /\ \/ air' = [air EXCEPT ![hop] = RemoveAt(@, i)] /\ UNCHANGED faults
     \/ faults < opt.faults /\ faults' = faults + 1 /\ UNCHANGED air

Lose ==
  /\ faults < opt.faults
  /\ \E hop \in Hops : \E i \in Heads(hop) :
       air' = [air EXCEPT ![hop] = RemoveAt(@, i)]
  /\ faults' = faults + 1
  /\ UNCHANGED <<opt, enc, rec, dec>>

Quiet ==
  opt.patient => /\ \A hop \in Hops : air[hop] = <<>>
                 /\ ~dec.has_feedback
                 /\ opt.relay => ~rec.has_feedback /\ ~RecHasCoded(rec)

-----------------------------------------------------------------------------
(* The number of symbol s of a flow in the common stream.                  *)
Global(f, s) == IF opt.nodes = 0 THEN s ELSE s * opt.nodes + f - 1

(* What the header of a packet says.  A node's packet number is its        *)
(* sequence number; a decoder takes the symbols of a repair packet to be   *)
(* those of its own window with the same slots.                            *)
Header(f, pkt) ==
  LET seq == Global(f, pkt.seq - 1) + 1
  IN IF opt.nodes = 0 THEN pkt
     ELSE [pkt EXCEPT
             !.seq = seq,
             !.no  = seq % 2^16,
             !.vec = IF EncRepairNext(enc[f])
                     THEN {SymbolAt(seq, Slot(s)) : s \in @}
                     ELSE {Global(f, s) : s \in @}]

AtEnd(f) == enc[f].seq = opt.source

PutSource(f) ==
  /\ ~AtEnd(f)
  /\ ~EncFull(enc[f])
  /\ enc' = [enc EXCEPT ![f] = EncPutSource(@)]
  /\ UNCHANGED <<opt, rec, dec, air, faults>>

(* A packet may be overheard by the decoder, past the recoder.             *)
SendCoded(f, vec) ==
  LET pkt == Header(f, EncPacket(enc[f], vec))
  IN /\ vec # {} \/ opt.zero
     /\ enc[f].packet_count < opt.packets
     /\ enc' = [enc EXCEPT ![f] = EncGetCoded(@)]
     /\ \/ Sends("coded", pkt)
        \/ /\ opt.overheard /\ Free("coded") /\ Free("recoded")
           /\ air' = [air EXCEPT !["coded"] = Append(@, pkt),
                                 !["recoded"] = Append(@, pkt)]
     /\ UNCHANGED <<opt, rec, dec, faults>>

Transmit(f) ==
  EncHasCoded(enc[f]) /\ \E vec \in EncVectors(enc[f]) : SendCoded(f, vec)

FlushCoded(f) ==
  /\ AtEnd(f)
  /\ ~EncHasCoded(enc[f])
  /\ ~enc[f].timer
  /\ enc' = [enc EXCEPT ![f] = EncFlushCoded(@)]
  /\ UNCHANGED <<opt, rec, dec, air, faults>>

ExpireEncoder(f) ==
  /\ enc[f].timer
  /\ Quiet
  /\ enc' = [enc EXCEPT ![f] = EncTimeout(@)]
  /\ UNCHANGED <<opt, rec, dec, air, faults>>

(* Every encoder hears the feedback.                                       *)
ReceiveFeedback(i) ==
  /\ Takes("feedback", i)
  /\ enc' = [f \in Flows |-> EncPutFeedback(enc[f], air["feedback"][i])]
  /\ UNCHANGED <<opt, rec, dec>>

-----------------------------------------------------------------------------
RelayReceives(i) ==
  /\ opt.relay
  /\ Takes("coded", i)
  /\ rec' = RecPutCoded(rec, air["coded"][i])
  /\ UNCHANGED <<opt, enc, dec>>

RelayDraws == {vec \in RecVectors(rec) : vec # {} \/ opt.zero \/ RecVectors(rec) = {{}}}

RelaySends ==
  /\ RecHasCoded(rec)
  /\ \E vec \in RelayDraws :
       /\ rec' = RecGetCoded(rec, vec)
       /\ IF vec = {} THEN UNCHANGED air ELSE Sends("recoded", RecPacket(rec, vec))
  /\ UNCHANGED <<opt, enc, dec, faults>>

(* One frame, heard at once by the recoder and, if it is near enough, by   *)
(* the encoders.                                                           *)
RelayHears(i) ==
  /\ Takes("answers", i)
  /\ rec' = RecPutFeedback(rec, air["answers"][i])
  /\ enc' = IF opt.near THEN [f \in Flows |-> EncPutFeedback(enc[f], air["answers"][i])]
            ELSE enc
  /\ UNCHANGED <<opt, dec>>

RelayAnswers ==
  /\ opt.relay
  /\ rec.has_feedback
  /\ Sends("feedback", RecFeedback(rec))
  /\ rec' = RecGetFeedback(rec)
  /\ UNCHANGED <<opt, enc, dec, faults>>

RelayDelivers ==
  /\ opt.tap
  /\ RecHasSource(rec)
  /\ rec' = RecGetSource(rec)
  /\ UNCHANGED <<opt, enc, dec, air, faults>>

ExpireRelay ==
  /\ rec.timer
  /\ Quiet
  /\ rec' = RecTimeout(rec)
  /\ UNCHANGED <<opt, enc, dec, air, faults>>

-----------------------------------------------------------------------------
(* "if there is something inside it is the callers own fault": what had to *)
(* be queued is taken out before the next packet is put in.                *)
ReceiveCoded(i) ==
  /\ Takes(DataHop, i)
  /\ dec.queue = <<>>
  /\ dec' = DecPutCoded(dec, air[DataHop][i])
  /\ UNCHANGED <<opt, enc, rec>>

GetSource ==
  /\ DecHasSource(dec)
  /\ dec' = DecGetSource(dec)
  /\ UNCHANGED <<opt, enc, rec, air, faults>>

SendFeedback ==
  /\ dec.has_feedback
  /\ dec.feedback_no < opt.reports
  /\ Sends(AnswerHop, DecFeedback(dec))
  /\ dec' = DecGetFeedback(dec)
  /\ UNCHANGED <<opt, enc, rec, faults>>

ExpireDecoder ==
  /\ dec.timer
  /\ Quiet
  /\ dec' = DecTimeout(dec)
  /\ UNCHANGED <<opt, enc, rec, air, faults>>

ExpireFeedback ==
  /\ dec.fb_timer
  /\ Quiet
  /\ dec' = DecFbTimeout(dec)
  /\ UNCHANGED <<opt, enc, rec, air, faults>>

Next ==
  \/ \E f \in Flows : PutSource(f) \/ Transmit(f) \/ FlushCoded(f) \/ ExpireEncoder(f)
  \/ \E i \in Places("coded") : RelayReceives(i) \/ ReceiveCoded(i)
  \/ \E i \in Places("feedback") : RelayHears(i) \/ ReceiveFeedback(i)
  \/ RelaySends \/ RelayAnswers \/ RelayDelivers \/ ExpireRelay
  \/ GetSource \/ SendFeedback \/ ExpireDecoder \/ ExpireFeedback
  \/ Lose

Spec == Init /\ [][Next]_vars

-----------------------------------------------------------------------------
(* All coders' states have their types, in every configuration; no counter *)
(* of the rate control, which are unsigned, goes below zero.               *)
TypeOK == (\A f \in Flows : EncTyped(enc[f])) /\ RecTyped(rec) /\ DecTyped(dec)

(* What the encoder asserts of its own state holds: in put_feedback, that  *)
(* a planned coded retransmission is still counted when it is taken back   *)
(* (assert(encoder->rc.dual.repair_counter > 0), encoder.cpp).             *)
NoAssertFails == \A f \in Flows : ~enc[f].failed

(* No assertion of the encoder fails; the counter of source symbols is the *)
(* number of marked slots; a marked symbol has an attempt left; and under  *)
(* the credit algorithm the credits pay for every one of them.             *)
EncAccounts == \A f \in Flows : EncBalanced(enc[f])

(* In the decoder and in the recoder, whatever feedback has moved it: the  *)
(* ring and kodo agree on the slots, and a cached has_source tells the     *)
(* truth: there is a symbol to read, and it is decoded.                    *)
HeadIsReady == ~dec.failed /\ HeadOf(dec) /\ HeadOf(rec)

(* An encoder with unlimited attempts and feedback, and a decoder that     *)
(* knows the first number and gives nothing up, are a reliable stream.     *)
Reliable ==
  opt.tx = Unlimited /\ opt.feedback /\ opt.sequence /\ ~opt.fb_timeout

(* The symbols of a flow the application has got.                          *)
ReadOf(f) ==
  IF opt.nodes <= 1 THEN dec.read
  ELSE SelectSeq(dec.read, LAMBDA s : s % opt.nodes = f - 1)

(* Whatever is lost, given up or flushed: no symbol of a flow is delivered *)
(* twice or after a later one, and none that was not put in, neither by    *)
(* the decoder nor to a consumer at the recoder.  But one that reads in    *)
(* the recoder's callback may get a symbol twice: recoder.cpp:381 goes on  *)
(* with the blocks that were lost before it read.                          *)
Ascending(seq, S) ==
  /\ \A m, n \in DOMAIN seq : m < n => seq[m] < seq[n]
  /\ \A n \in DOMAIN seq : seq[n] \in S

ReadInOrder ==
  /\ \A f \in Flows :
       Ascending(ReadOf(f), {Global(f, s) : s \in 0 .. enc[f].seq - 1})
  /\ opt.nodes <= 1 /\ ~rec.eager => Ascending(rec.read, 0 .. enc[1].seq - 1)

(* "we interpret this to mean it should be 100% reliable" (encoder.cpp):   *)
(* the decoder passes over no symbol that was put in.                      *)
NoneMissing == Reliable => \A n \in DOMAIN dec.read : dec.read[n] = n - 1

(* The encoder's window never moves past a symbol the decoder still needs: *)
(* what it can not send any more was decoded.                              *)
NothingOverrun ==
  Reliable => \A s \in 0 .. enc[1].seq - Symbols - 1 :
                \/ s < Ring!RbReadSeqno(dec.rb)
                \/ IsSymbolUncoded(dec.span, s)

(* The symbols of an encoder's slot that is free were seen by the decoder: *)
(* a row has it as its pivot, so it is decoded as soon as those after it.  *)
FreedIsSeen ==
  Reliable => \A i \in Slots :
    LET s == SymbolAt(enc[1].seq, i)
    IN s >= 0 /\ enc[1].tx_attempts[i] = 0 =>
         \/ s < Ring!RbReadSeqno(dec.rb)
         \/ s \in Pivots(dec.span)

(* "on a flush, definitely send a packet" (recoder.cpp): a recoder that    *)
(* has a flush to pass on has a packet for it.                             *)
FlushIsPaid == rec.flush_next => RecHasCoded(rec)

-----------------------------------------------------------------------------
Arrive == \E i \in Places("coded") : ReceiveCoded(i)

Return == \E i \in Places("feedback") : ReceiveFeedback(i)

CanTransmit(f) ==
  EncHasCoded(enc[f]) /\ enc[f].packet_count < opt.packets /\ Free("coded")

(* Weak fairness of every step.  Where the condition under which a step is *)
(* enabled is written out, TLC takes far too long to find it by itself.    *)
Fairness ==
  /\ WF_vars(PutSource(1))
  /\ []<>~CanTransmit(1) \/ []<><<Transmit(1)>>_vars
  /\ WF_vars(FlushCoded(1))
  /\ WF_vars(ExpireEncoder(1))
  /\ []<>~(air[DataHop] # <<>> /\ dec.queue = <<>>) \/ []<><<Arrive>>_vars
  /\ []<>~DecHasSource(dec) \/ []<><<GetSource>>_vars
  /\ WF_vars(SendFeedback)
  /\ []<>(air["feedback"] = <<>>) \/ []<><<Return>>_vars
  /\ WF_vars(ExpireDecoder)
  /\ WF_vars(ExpireFeedback)

FairSpec == Spec /\ Fairness

(* Every symbol gets through, whichever packets are lost.                  *)
AllRead ==
  \A n \in 1 .. MaxSource :
    (Reliable /\ enc[1].seq >= n) ~> Len(dec.read) >= n

=============================================================================
