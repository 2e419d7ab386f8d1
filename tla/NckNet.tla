------------------------------- MODULE NckNet -------------------------------
(***************************************************************************)
(* An encoder, a decoder and, with opt.relay, a recoder between them: the  *)
(* networks of examples/simulator.c, with the applications of              *)
(* simulator_common.c around the coders.  Data goes encoder - recoder -    *)
(* decoder.  The decoder's feedback is for the recoder and the encoder,    *)
(* the recoder's for the encoder.                                          *)
(***************************************************************************)
EXTENDS Nck

CONSTANT Options   \* the networks: a protocol, its options, the applications'
                   \* habits and the bounds source, faults, packets, capacity

ASSUME NetAssumption ==
  \A o \in Options : /\ {o.source, o.faults, o.packets} \subseteq Nat
                     /\ o.capacity \in Nat \ {0}

VARIABLES opt,      \* the options of this network, a member of Options
          enc, rec, dec,
          down,     \* packets from the encoder
          air,      \* packets from the recoder
          back,     \* feedback from the decoder
          echo,     \* feedback from the recoder
          sent,     \* the slots of the symbols put in, in order
          flushed,  \* was the encoder flushed at the end of the data?
          faults    \* packets lost

coders == <<enc, rec, dec>>
paths == <<down, air, back, echo>>
vars == <<opt, enc, rec, dec, down, air, back, echo, sent, flushed, faults>>

NoRelay == [protocol |-> "none"]

Init ==
  /\ opt \in Options
  /\ enc = NckEncStart(opt)
  /\ rec = IF opt.relay THEN NckRecStart(opt) ELSE NoRelay
  /\ dec = NckDecStart(opt)
  /\ down = <<>> /\ air = <<>> /\ back = <<>> /\ echo = <<>>
  /\ sent = <<>>
  /\ flushed = FALSE
  /\ faults = 0

-----------------------------------------------------------------------------
AtEnd == Len(sent) = opt.source

(* The places of a path a packet may arrive from.                          *)
Heads(path) == IF opt.reorder THEN DOMAIN path ELSE DOMAIN path \cap {1}

(* Nothing is left to send, nothing in flight.                             *)
Idle ==
  /\ down = <<>> /\ air = <<>> /\ back = <<>> /\ echo = <<>>
  /\ ~NckEncHasCoded(enc)
  /\ opt.relay => ~NckRecHasCoded(rec)

(* read_input: symbols go in until the encoder is full.                    *)
PutSource ==
  /\ ~AtEnd
  /\ ~NckEncFull(enc)
  /\ enc' = NckEncPutSource(enc)
  /\ sent' = Append(sent, NckEncSlot(enc'))
  /\ UNCHANGED <<opt, rec, dec, paths, flushed, faults>>

(* PACEMG numbers the packets it sends.                                    *)
MaySend == enc.protocol = "pacemg" => enc.global_seqno < opt.packets

(* With opt.fill packets are taken after read_input has ended.             *)
SendCoded(pkt) ==
  /\ opt.fill => AtEnd \/ NckEncFull(enc)
  /\ MaySend
  /\ Len(down) < opt.capacity
  /\ down' = Append(down, pkt)
  /\ enc' = NckEncGetCoded(enc)
  /\ UNCHANGED <<opt, rec, dec, air, back, echo, sent, flushed, faults>>

RelayReceive ==
  /\ opt.relay
  /\ \E i \in Heads(down) :
       /\ down' = RemoveAt(down, i)
       /\ rec' = NckRecPutCoded(rec, down[i])
  /\ UNCHANGED <<opt, enc, dec, air, back, echo, sent, flushed, faults>>

RelaySend(pkt) ==
  /\ Len(air) < opt.capacity
  /\ rec' = NckRecGetCoded(rec)
  /\ air' = Append(air, pkt)
  /\ UNCHANGED <<opt, enc, dec, down, back, echo, sent, flushed, faults>>

(* Some applications also read the symbols a recoder has decoded.          *)
RelayTake ==
  /\ opt.relay /\ opt.tap
  /\ NckRecHasSource(rec)
  /\ rec' = NckRecGetSource(rec)
  /\ UNCHANGED <<opt, enc, dec, paths, sent, flushed, faults>>

(* receive_data: the application may have read all of what is ready, a     *)
(* part of it or nothing yet.  With opt.drain it is one that reads all     *)
(* before it goes on.                                                      *)
Drained == opt.drain => ~NckDecHasSource(dec)

Receive(path, i) ==
  /\ Drained
  /\ dec' \in NckDecPutCodeds(dec, path[i])

DecReceive ==
  /\ \/ /\ ~opt.relay
        /\ \E i \in Heads(down) : down' = RemoveAt(down, i) /\ Receive(down, i)
        /\ UNCHANGED air
     \/ /\ opt.relay
        /\ \E i \in Heads(air) : air' = RemoveAt(air, i) /\ Receive(air, i)
        /\ UNCHANGED down
  /\ UNCHANGED <<opt, enc, rec, back, echo, sent, flushed, faults>>

WriteOutput ==
  /\ NckDecHasSource(dec)
  /\ dec' = NckDecGetSource(dec)
  /\ UNCHANGED <<opt, enc, rec, paths, sent, flushed, faults>>

SendFeedback ==
  /\ NckDecHasFeedback(dec)
  /\ Len(back) < opt.capacity
  /\ \E fb \in NckDecFeedbacks(dec, 0 .. opt.source) : back' = Append(back, fb)
  /\ dec' = NckDecGetFeedback(dec)
  /\ UNCHANGED <<opt, enc, rec, down, air, echo, sent, flushed, faults>>

(* The decoder's feedback reaches each of the others or not.               *)
Listeners == IF opt.relay THEN {"enc", "rec"} ELSE {"enc"}

HearFeedback(heard) ==
  /\ back # <<>>
  /\ faults + Cardinality(Listeners \ heard) <= opt.faults
  /\ back' = Tail(back)
  /\ enc' = IF "enc" \in heard THEN NckEncPutFeedback(enc, Head(back)) ELSE enc
  /\ rec' = IF "rec" \in heard THEN NckRecPutFeedback(rec, Head(back)) ELSE rec
  /\ faults' = faults + Cardinality(Listeners \ heard)
  /\ UNCHANGED <<opt, dec, down, air, echo, sent, flushed>>

RelayFeedback ==
  /\ opt.relay
  /\ NckRecHasFeedback(rec)
  /\ Len(echo) < opt.capacity
  /\ echo' = Append(echo, ReportOf(rec))
  /\ rec' = NckRecGetFeedback(rec)
  /\ UNCHANGED <<opt, enc, dec, down, air, back, sent, flushed, faults>>

HearEcho ==
  /\ echo # <<>>
  /\ echo' = Tail(echo)
  /\ enc' = NckEncPutFeedback(enc, Head(echo))
  /\ UNCHANGED <<opt, rec, dec, down, air, back, sent, flushed, faults>>

Lose ==
  /\ faults < opt.faults
  /\ faults' = faults + 1
  /\ \/ down # <<>> /\ down' = Tail(down) /\ UNCHANGED <<air, echo>>
     \/ air # <<>> /\ air' = Tail(air) /\ UNCHANGED <<down, echo>>
     \/ echo # <<>> /\ echo' = Tail(echo) /\ UNCHANGED <<down, air>>
  /\ UNCHANGED <<opt, coders, back, sent, flushed>>

(* The timers of the coders.                                               *)
EncTimer ==
  /\ NckEncTimer(enc)
  /\ enc' = NckEncTimeout(enc)
  /\ UNCHANGED <<opt, rec, dec, paths, sent, flushed, faults>>

RecTimer ==
  /\ NckRecTimer(rec)
  /\ rec' = NckRecTimeout(rec)
  /\ UNCHANGED <<opt, enc, dec, paths, sent, flushed, faults>>

DecTimer ==
  /\ NckDecTimer(dec)
  /\ dec' = NckDecTimeout(dec)
  /\ UNCHANGED <<opt, enc, rec, paths, sent, flushed, faults>>

(* At the end of the data the application flushes the encoder, and the     *)
(* decoder when nothing more can come.                                     *)
FlushCoded ==
  /\ opt.flush /\ AtEnd /\ Idle /\ ~flushed
  /\ enc' = NckEncFlushCoded(enc)
  /\ flushed' = TRUE
  /\ UNCHANGED <<opt, rec, dec, paths, sent, faults>>

FlushSource ==
  /\ opt.flush /\ AtEnd /\ Idle
  /\ Drained
  /\ dec' = NckDecFlushSource(dec)
  /\ UNCHANGED <<opt, enc, rec, paths, sent, flushed, faults>>

Next ==
  \/ PutSource
  \/ NckEncHasCoded(enc) /\ \E pkt \in NckEncPackets(enc) : SendCoded(pkt)
  \/ RelayReceive
  \/ opt.relay /\ NckRecHasCoded(rec) /\ \E pkt \in NckRecPackets(rec) : RelaySend(pkt)
  \/ RelayTake
  \/ DecReceive
  \/ WriteOutput
  \/ SendFeedback
  \/ \E heard \in SUBSET Listeners : HearFeedback(heard)
  \/ RelayFeedback
  \/ HearEcho
  \/ Lose
  \/ EncTimer
  \/ RecTimer
  \/ DecTimer
  \/ FlushCoded
  \/ FlushSource

Spec == Init /\ [][Next]_vars

-----------------------------------------------------------------------------
(* What the decoder's application was handed, as places in sent.           *)
PlaceOf(slot) == IF slot \in Range(sent) THEN CHOOSE n \in DOMAIN sent : sent[n] = slot ELSE 0

(* No symbol is handed out twice, out of order or without having been put  *)
(* in, whatever is lost, reordered or flushed (every get_source).          *)
Stream == INSTANCE LossyStream WITH
  sent <- Len(sent),
  delivered <- [n \in DOMAIN dec.read |-> PlaceOf(dec.read[n])]

StreamSpec == Stream!Spec

(* A symbol that is decoded and was not handed out stays available until   *)
(* it is, also when the decoder goes on to another generation, evicts a    *)
(* row or is flushed (kodo_flush_source and the queues it fills).  What an *)
(* application has not read of one generation when the next begins is      *)
(* queued, and overwritten only if it is unread still when the one after   *)
(* that begins; NOCODE's one symbol when another arrives.  Symbols that    *)
(* were flushed over cannot be decoded any more (nckernel.h:199-201).      *)
OnlyUnreadIsOverwritten ==
  [][NckPending(dec) \subseteq
       NckPending(dec') \cup Range(dec'.read) \cup NckOverwritten(dec, dec')]_vars

(* nckernel.h:196-203, nck_flush_source makes every decoded symbol         *)
(* available: taken one by one, they are all handed out.  Not PACEMG's and *)
(* Tetrys' decoders: one looks at its oldest generation only, the other's  *)
(* flush does nothing.                                                     *)
TakenAfter(d) ==
  LET take(x, n) == IF NckDecHasSource(x) THEN NckDecGetSource(x) ELSE x
  IN Range(FoldLeft(take, d, [n \in 1 .. opt.source |-> n]).read)

FlushedIsAvailable ==
  opt.protocol \notin {"pacemg", "tetrys"} =>
    NckPending(dec) \subseteq TakenAfter(NckDecFlushSource(dec))

(* Feedback makes an encoder give up symbols only when a receiver has all  *)
(* it takes, or is past them, whatever is lost or late (every put_feedback *)
(* with the get_feedback that wrote it).  Not GSAW's where its decoder is  *)
(* not empty when the next packet arrives: it then answers a packet of the *)
(* next generation with full rank and drops it.                            *)
Receivers == IF opt.relay THEN {dec, rec} ELSE {dec}

GivenUpIsSettled ==
  [][/\ back' # back \/ echo' # echo
     /\ opt.protocol = "gsaw" => opt.drain \/ opt.eager
     => \A slot \in NckEncCovers(enc) \ NckEncCovers(enc') :
          \E c \in Receivers : NckSettled(c, slot)]_vars

(* No generation was given the number of an earlier one, as PACEMG's       *)
(* encoder does once the newest is delivered before an older one.          *)
NumbersApart == IsInjective(sent)

(* Nothing the library asserts of its own coders fails: Tetrys' encoder    *)
(* hears of no missing symbol it has let go (encoder.c:289), PACEMG's of   *)
(* no decoder that is ahead of it (encoder.c:714) where paths keep the     *)
(* order, until a number is given out again.                               *)
NoAssertFails ==
  /\ opt.protocol = "tetrys" => ~enc.failed /\ ~dec.failed
  /\ opt.protocol = "pacemg" /\ NumbersApart => ~enc.failed /\ ~dec.failed

-----------------------------------------------------------------------------
(* Fairness.  The applications send, drain and return feedback when there  *)
(* is any, timers go off, and only opt.faults packets are lost.  Of random  *)
(* combinations sent again and again one is news for the decoder.  The     *)
(* conditions under which steps are enabled are written out.               *)
CanSend ==
  /\ NckEncHasCoded(enc) /\ MaySend /\ Len(down) < opt.capacity
  /\ opt.fill => AtEnd \/ NckEncFull(enc)

Send == CanSend /\ \E pkt \in NckEncPackets(enc) : SendCoded(pkt)

SendNews ==
  CanSend /\ \E pkt \in NckEncPackets(enc) : SendCoded(pkt) /\ NckIsNews(dec, pkt)

CanReceive ==
  Drained /\ IF opt.relay THEN air # <<>> ELSE down # <<>>

Hear == \E heard \in SUBSET Listeners : HearFeedback(heard)

Fairness ==
  /\ []<>~CanSend \/ []<><<Send>>_vars
  /\ <>[]~CanSend \/ []<><<SendNews>>_vars
  /\ []<>~(opt.relay /\ down # <<>>) \/ []<><<RelayReceive>>_vars
  /\ []<>~CanReceive \/ []<><<DecReceive>>_vars
  /\ []<>~NckDecHasSource(dec) \/ []<><<WriteOutput>>_vars
  /\ []<>~(NckDecHasFeedback(dec) /\ Len(back) < opt.capacity) \/ []<><<SendFeedback>>_vars
  /\ []<>(back = <<>>) \/ []<><<Hear>>_vars
  /\ []<>(echo = <<>>) \/ []<><<HearEcho>>_vars
  /\ []<>~NckEncTimer(enc) \/ []<><<EncTimer>>_vars

FairSpec == Spec /\ Fairness

(* A full encoder takes symbols again: "fill" is never told to wait for    *)
(* ever.  Not GSAW's: nothing repeats a lost acknowledgement; PACEMG's     *)
(* would need packets without a bound; NOACK's without redundant packets,  *)
(* which a flush makes full when it has nothing left to send.              *)
Reopens ==
  (/\ opt.protocol \notin {"gsaw", "pacemg"}
   /\ opt.protocol = "noack" => opt.redundancy > 0
   /\ NckEncFull(enc)) ~> ~NckEncFull(enc)

=============================================================================
