----------------------------- MODULE CodarqLink -----------------------------
(***************************************************************************)
(* A CODARQ encoder and decoder joined by two datagram channels, with the  *)
(* applications that feed the encoder and drain both ends.  A trigger of   *)
(* the code (on_coded_ready, ...) runs the application's callback at once; *)
(* here the callback is a later step of its own, so that an application    *)
(* that answers late, in part, or in another order is covered too.         *)
(***************************************************************************)
EXTENDS CodarqEncoder, CodarqDecoder, SequencesExt

CONSTANTS DataCapacity,       \* bound on the coded packets in flight
          FeedbackCapacity,   \* bound on the feedback packets in flight
          MaxSource,          \* bound on the source symbols put in
          MaxCoded,           \* bound on the sequence numbers used
          MaxPlanned,         \* bound on the plan the repair timer adds to
          Lossy,              \* may the channels lose packets?
          Reorder,            \* may they reorder them?
          Duplicate,          \* may they duplicate them?
          Timeouts            \* may the timers expire?

ASSUME LinkAssumption ==
  /\ DataCapacity \in Nat \ {0} /\ FeedbackCapacity \in Nat \ {0}
  /\ MaxSource \in Nat /\ MaxCoded \in Nat /\ MaxPlanned \in Nat
  /\ {Lossy, Reorder, Duplicate, Timeouts} \subseteq BOOLEAN

VARIABLES coded,       \* coded packets in flight
          feedback,    \* feedback packets in flight
          sent,        \* history: the slots of the accepted source symbols
          delivered    \* history: the slots of the delivered source symbols

linkVars == <<coded, feedback, sent, delivered>>

vars == <<encVars, decVars, linkVars>>

Init ==
  /\ EncInit /\ DecInit
  /\ coded = <<>> /\ feedback = <<>> /\ sent = <<>> /\ delivered = <<>>

-----------------------------------------------------------------------------
(* The places of a channel a packet may be taken from.                     *)
Heads(channel) ==
  IF Reorder THEN DOMAIN channel ELSE DOMAIN channel \cap {1}

PutSource ==
  /\ Len(sent) < MaxSource
  /\ EncPutSource
  /\ sent' = Append(sent, <<EncSourceGen, EncOpen(EncSourceGen).rank + 1>>)
  /\ UNCHANGED <<decVars, coded, feedback, delivered>>

(* The application sends a packet whenever the encoder has one.            *)
SendCoded(vec) ==
  /\ Len(coded) < DataCapacity
  /\ enc_seqno < MaxCoded
  /\ EncGetCoded(vec)
  /\ coded' = Append(coded, EncPacket(vec))
  /\ UNCHANGED <<decVars, feedback, sent, delivered>>

RepairTimeout ==
  /\ Timeouts
  /\ enc_to_send < MaxPlanned
  /\ EncRepairTimeout
  /\ UNCHANGED <<decVars, linkVars>>

ReceiveCoded(i) ==
  /\ i \in Heads(coded)
  /\ DecPutCoded(coded[i])
  /\ \/ coded' = RemoveAt(coded, i)
     \/ Duplicate /\ coded' = coded
  /\ UNCHANGED <<encVars, feedback, sent, delivered>>

LoseCoded(i) ==
  /\ Lossy
  /\ i \in Heads(coded)
  /\ coded' = RemoveAt(coded, i)
  /\ UNCHANGED <<encVars, decVars, feedback, sent, delivered>>

GetSource ==
  /\ DecGetSource
  /\ delivered' = Append(delivered, DecSource)
  /\ UNCHANGED <<encVars, coded, feedback, sent>>

FeedbackTimeout ==
  /\ Timeouts
  /\ DecSendFeedback
  /\ UNCHANGED <<encVars, linkVars>>

SendFeedback ==
  /\ Len(feedback) < FeedbackCapacity
  /\ DecGetFeedback
  /\ feedback' = Append(feedback, DecFeedback)
  /\ UNCHANGED <<encVars, coded, sent, delivered>>

ReceiveFeedback(i) ==
  /\ i \in Heads(feedback)
  /\ EncPutFeedback(feedback[i])
  /\ \/ feedback' = RemoveAt(feedback, i)
     \/ Duplicate /\ feedback' = feedback
  /\ UNCHANGED <<decVars, coded, sent, delivered>>

LoseFeedback(i) ==
  /\ Lossy
  /\ i \in Heads(feedback)
  /\ feedback' = RemoveAt(feedback, i)
  /\ UNCHANGED <<encVars, decVars, coded, sent, delivered>>

Next ==
  \/ PutSource
  \/ \E vec \in Vectors : SendCoded(vec)
  \/ RepairTimeout
  \/ \E i \in 1 .. DataCapacity : ReceiveCoded(i) \/ LoseCoded(i)
  \/ GetSource
  \/ FeedbackTimeout
  \/ SendFeedback
  \/ \E i \in 1 .. FeedbackCapacity : ReceiveFeedback(i) \/ LoseFeedback(i)

Spec == Init /\ [][Next]_vars

-----------------------------------------------------------------------------
(* Fairness.  The applications drain what they are told is ready, the main *)
(* loop runs expired timers, and a channel that is offered packets again   *)
(* and again delivers one.  Random coefficients: a generation that gets    *)
(* packets again and again gets one the decoder can use.                   *)

Innovative(g, vec) ==
  g > dec_gen_oldest_deleted /\ (g \in DecActive => vec \notin dec_containers[g].span)

SendInnovative ==
  /\ EncWithCoded # {}
  /\ \E vec \in Vectors : Innovative(EncTurn, vec) /\ SendCoded(vec)

Receive == \E i \in 1 .. DataCapacity : ReceiveCoded(i)

ReceiveInnovative ==
  \E i \in 1 .. DataCapacity :
    /\ i \in DOMAIN coded
    /\ Innovative(coded[i].generation, coded[i].vec)
    /\ ReceiveCoded(i)

Fairness ==
  /\ WF_vars(\E vec \in Vectors : SendCoded(vec))
  /\ WF_vars(RepairTimeout)
  /\ WF_vars(GetSource)
  /\ WF_vars(SendFeedback)
  /\ SF_vars(SendInnovative)
  /\ SF_vars(ReceiveInnovative)
  /\ SF_vars(Receive)
  /\ SF_vars(\E i \in 1 .. FeedbackCapacity : ReceiveFeedback(i))

FairSpec == Spec /\ Fairness

-----------------------------------------------------------------------------
TypeOK ==
  /\ EncTypeOK /\ DecTypeOK
  /\ coded \in Seq(CodedPackets)
  /\ \A i \in DOMAIN feedback :
       /\ feedback[i].decoded \in Nat
       /\ feedback[i].seqno \in SeqNos
       /\ DOMAIN feedback[i].missing \subseteq Generations
       /\ \A g \in DOMAIN feedback[i].missing : feedback[i].missing[g] \in RankDiffs

(* The encoder drops a generation (put_feedback deletes every container up *)
(* to decoded_gen) only after the decoder delivered all of its symbols,    *)
(* whatever was lost, repeated or overtaken: what it can no longer repair  *)
(* never needs a repair.                                                   *)
NothingDroppedEarly ==
  \A g \in 1 .. enc_gen_newest : g \notin EncActive => g <= dec_gen_oldest_deleted

(* The decoder has no limit of its own on its containers; the window of    *)
(* the encoder is one for the decoder too, and with it the size of its     *)
(* feedback (feedback_size "supports up to 140 containers").               *)
DecoderWindow == Cardinality(DecActive) <= MaxContainers

(* get_feedback computes enc_rank - rank in 16 bits; as long as packets    *)
(* stay in order the difference never wraps, so a feedback never asks for  *)
(* more packets than a generation has symbols.                             *)
RankNeverAhead ==
  \A g \in DecActive : Rank(dec_containers[g].span) <= dec_containers[g].enc_rank

(* "generate necessary coded packets" (comment of enc_cont_put_feedback):  *)
(* a feedback makes the encoder plan at most the packets that a decoder    *)
(* with nothing at all of the generation would need.                       *)
FeedbackPlansNecessary ==
  [][\A i \in Heads(feedback) : ReceiveFeedback(i) =>
       \A g \in EncActive' :
         enc_containers[g].to_send = 0 => enc_containers'[g].to_send <= Symbols]_vars

(* Repairs are planned for what is missing, not for what is on its way:    *)
(* over channels that keep the order, also lossy ones with any timers, a   *)
(* feedback that fills a generation's plan finds no packet of it in        *)
(* flight, and plans no more than the decoder then still lacks.            *)
PacketsOf(g) == {i \in DOMAIN coded : coded[i].generation = g}

Lacking(g) == enc_containers[g].rank - Rank(dec_containers[g].span)

RepairsOnlyMissing ==
  [][\A i \in Heads(feedback) : ReceiveFeedback(i) =>
       \A g \in EncActive' :
         enc_containers'[g].to_send > enc_containers[g].to_send =>
           /\ PacketsOf(g) = {}
           /\ g \in DecActive
           /\ enc_containers'[g].to_send <= Lacking(g)]_vars

(* The symbols come out of the decoder once, in order, and none before it  *)
(* was put into the encoder.                                               *)
Stream == INSTANCE ReliableStream WITH Data <- (1 .. MaxSource) \X Indices

InOrder == Stream!Spec

(* ... and all of them do, although both channels lose packets.            *)
AllDelivered == Stream!FairSpec

(* A full encoder gets room again: the applications are never told to wait *)
(* for ever, although every feedback may be lost.                          *)
WindowReopens == EncFull ~> ~EncFull

=============================================================================
