------------------------------ MODULE GackLink ------------------------------
(***************************************************************************)
(* A GACK encoder and decoder joined by datagram channels, directly or     *)
(* over a recoder, the topology single_rec of examples/simulator.c: coded  *)
(* packets go over the recoder; feedback of the decoder is heard by the    *)
(* recoder, which answers the encoder, and perhaps by the encoder itself.  *)
(***************************************************************************)
EXTENDS GackEnds, GackRecoder

(* relay: is there a recoder?  lossy_feedback: may feedback be lost, too?  *)
(* reorder, duplicate: may packets overtake each other, or come again?     *)
ASSUME LinkAssumption == \A o \in Options :
  /\ {o.data_capacity, o.feedback_capacity} \subseteq Nat \ {0}
  /\ {o.relay, o.lossy_feedback, o.reorder, o.duplicate} \subseteq BOOLEAN

VARIABLE air      \* the packets in flight, for each hop

vars == <<opt, endVars, recVars, air>>

DataHops == {"coded", "recoded"}

FeedbackHops == {"answers", "feedback"}

Init ==
  /\ EndsInit /\ RecInit
  /\ air = [hop \in DataHops \cup FeedbackHops |-> <<>>]

-----------------------------------------------------------------------------
(* The hops: the decoder hears the recoder, if there is one, and the other *)
(* way round.                                                              *)
DataHop == IF opt.relay THEN "recoded" ELSE "coded"

AnswerHop == IF opt.relay THEN "answers" ELSE "feedback"

Capacity(hop) ==
  IF hop \in DataHops THEN opt.data_capacity ELSE opt.feedback_capacity

Places(hop) == 1 .. Capacity(hop)

(* The places of a hop a packet may be taken from.                         *)
Heads(hop) ==
  IF opt.reorder THEN DOMAIN air[hop] ELSE DOMAIN air[hop] \cap {1}

Sends(hop, pkt) ==
  /\ Len(air[hop]) < Capacity(hop)
  /\ air' = [air EXCEPT ![hop] = Append(@, pkt)]

Takes(hop, i) ==
  /\ i \in Heads(hop)
  /\ \/ air' = [air EXCEPT ![hop] = RemoveAt(@, i)]
     \/ opt.duplicate /\ UNCHANGED air

Lose ==
  /\ \E hop \in DataHops \cup FeedbackHops : \E i \in Heads(hop) :
       /\ hop \in DataHops \/ opt.lossy_feedback
       /\ air' = [air EXCEPT ![hop] = RemoveAt(@, i)]
  /\ UNCHANGED <<opt, endVars, recVars>>

-----------------------------------------------------------------------------
App ==
  /\ PutSource \/ FlushCoded \/ GetSource \/ FlushSource
  /\ UNCHANGED <<opt, recVars, air>>

SendCoded(vec) ==
  /\ TakeCoded(vec)
  /\ Sends("coded", EncPacket(vec))
  /\ UNCHANGED <<opt, recVars>>

ReceiveCoded(i) ==
  /\ Takes(DataHop, i)
  /\ Drained
  /\ DecPutCoded(air[DataHop][i])
  /\ UNCHANGED <<opt, encVars, appVars, recVars>>

SendFeedback ==
  /\ Drained
  /\ DecGetFeedback
  /\ Sends(AnswerHop, DecFeedback)
  /\ UNCHANGED <<opt, encVars, appVars, recVars>>

ReceiveFeedback(i) ==
  /\ Takes("feedback", i)
  /\ EncPutFeedback(air["feedback"][i])
  /\ UNCHANGED <<opt, decVars, appVars, recVars>>

RelayReceives(i) ==
  /\ opt.relay
  /\ Takes("coded", i)
  /\ RecPutCoded(air["coded"][i])
  /\ UNCHANGED <<opt, endVars>>

RelaySends(vec) ==
  /\ RecGetCoded(vec)
  /\ Sends("recoded", RecPacket(vec))
  /\ UNCHANGED <<opt, endVars>>

(* One frame, heard at once by all that hear it: by the encoder as well,   *)
(* if it is near enough.                                                   *)
RelayHears(i) ==
  /\ Takes("answers", i)
  /\ RecPutFeedback(air["answers"][i])
  /\ EncPutFeedback(air["answers"][i]) \/ UNCHANGED encVars
  /\ UNCHANGED <<opt, decVars, appVars>>

RelayAnswers ==
  /\ RecGetFeedback
  /\ Sends("feedback", RecFeedback)
  /\ UNCHANGED <<opt, endVars>>

Next ==
  \/ App \/ Lose
  \/ \E vec \in Vectors : SendCoded(vec) \/ RelaySends(vec)
  \/ \E i \in Places("coded") : ReceiveCoded(i) \/ RelayReceives(i)
  \/ SendFeedback \/ RelayAnswers
  \/ \E i \in Places("feedback") : ReceiveFeedback(i) \/ RelayHears(i)

Spec == Init /\ [][Next]_vars

-----------------------------------------------------------------------------
(* Fairness.  The application fills the encoder, sends, drains the decoder *)
(* and returns feedback when it is told to; a channel that is offered      *)
(* packets again and again delivers one; and of random combinations sent   *)
(* again and again one is new to whom they are sent.                       *)
NewsForRec(pkt) ==
  pkt.generation > rec_generation \/ pkt.vec \notin rec_span

NewsForDec(pkt) ==
  \/ pkt.generation > dec_generation
  \/ pkt.generation = dec_generation /\ pkt.vec \notin dec_span

News(pkt) == IF opt.relay THEN NewsForRec(pkt) ELSE NewsForDec(pkt)

SendsNews ==
  \E vec \in Vectors : News(EncPacket(vec)) /\ SendCoded(vec)

RelaySendsNews ==
  \E vec \in Vectors : NewsForDec(RecPacket(vec)) /\ RelaySends(vec)

ReceivesNews ==
  \E i \in Heads(DataHop) : NewsForDec(air[DataHop][i]) /\ ReceiveCoded(i)

RelayReceivesNews ==
  \E i \in Heads("coded") : NewsForRec(air["coded"][i]) /\ RelayReceives(i)

Fairness ==
  /\ WF_vars(App)
  /\ WF_vars(\E vec \in Vectors : SendCoded(vec)) /\ SF_vars(SendsNews)
  /\ WF_vars(\E vec \in Vectors : RelaySends(vec)) /\ SF_vars(RelaySendsNews)
  /\ SF_vars(\E i \in Places("coded") : ReceiveCoded(i)) /\ SF_vars(ReceivesNews)
  /\ SF_vars(\E i \in Places("coded") : RelayReceives(i)) /\ SF_vars(RelayReceivesNews)
  /\ WF_vars(SendFeedback) /\ WF_vars(RelayAnswers)
  /\ SF_vars(\E i \in Places("feedback") : ReceiveFeedback(i) \/ RelayHears(i))

FairSpec == Spec /\ Fairness

-----------------------------------------------------------------------------
(* The coders' states and what is on the way between them have their types.*)
TypeOK ==
  /\ EncTypeOK /\ DecTypeOK /\ RecTypeOK
  /\ \A hop \in DataHops : Range(air[hop]) \subseteq GackPackets
  /\ \A hop \in FeedbackHops : Range(air[hop]) \subseteq GackFeedbacks

(* What the recoder combines and sends under a generation's number comes   *)
(* from packets of that generation only, as long as no packet overtakes    *)
(* another: otherwise the decoder would solve for mixed-up data.           *)
OneGeneration == rec_read \subseteq {rec_generation}

(* The recoder's answer is the decoder's: it tells its sender that a rank  *)
(* was decoded only when the decoder has decoded that much.                *)
AnswersForDecoder ==
  RecHasFeedback =>
    \/ dec_generation > rec_feedback_generation
    \/ /\ dec_generation = rec_feedback_generation
       /\ Rank(dec_span) >= rec_feedback_rank

=============================================================================
