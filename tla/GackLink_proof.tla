--------------------------- MODULE GackLink_proof ---------------------------
(***************************************************************************)
(* What GACK guarantees for every generation size, over channels of any    *)
(* capacity that lose and repeat packets, directly or over a recoder.      *)
(***************************************************************************)
EXTENDS GackLink, RlncLemmas

AllHops == DataHops \cup FeedbackHops

Wire == GackPackets \cup GackFeedbacks

SlotSet == Generations \X Indices

-----------------------------------------------------------------------------
(* The type invariant, with what it takes to be inductive: a sender has at *)
(* least one symbol, and a generation with all its symbols takes no more.  *)
EncTyped ==
  /\ EncTypeOK
  /\ ~enc_empty => enc_rank >= 1
  /\ enc_rank = Symbols => enc_full \/ enc_complete

DecTyped ==
  /\ DecTypeOK
  /\ dec_generation = 0 => dec_span = EmptySpan

RecTyped ==
  /\ RecTypeOK
  /\ rec_generation = 0 =>
       rec_span = EmptySpan /\ rec_sender_rank = 0 /\ ~rec_has_coded
  /\ rec_has_coded => rec_sender_rank >= 1

AirTyped ==
  /\ air \in [AllHops -> Seq(Wire)]
  /\ \A hop \in DataHops : Range(air[hop]) \subseteq GackPackets
  /\ \A hop \in FeedbackHops : Range(air[hop]) \subseteq GackFeedbacks

AppTyped ==
  /\ opt \in Options
  /\ sent \in Seq(SlotSet) /\ delivered \in Seq(SlotSet)

TypeInv == EncTyped /\ DecTyped /\ RecTyped /\ AirTyped /\ AppTyped

-----------------------------------------------------------------------------
(* What may happen to the packets in flight: one more, or fewer.           *)
AirFewer ==
  /\ air' \in [AllHops -> Seq(Wire)]
  /\ \A h \in AllHops : Range(air'[h]) \subseteq Range(air[h])

AirMore(hop, pkt) ==
  /\ air' \in [AllHops -> Seq(Wire)]
  /\ \A h \in AllHops :
       Range(air'[h]) \subseteq Range(air[h]) \cup (IF h = hop THEN {pkt} ELSE {})

LEMMA AirSends ==
  ASSUME AirTyped, NEW hop \in AllHops, NEW pkt \in Wire, Sends(hop, pkt)
  PROVE  AirMore(hop, pkt)
<1>1. air[hop] \in Seq(Wire) /\ air' = [air EXCEPT ![hop] = Append(@, pkt)]
  BY DEF AirTyped, Sends
<1>2. /\ Append(air[hop], pkt) \in Seq(Wire)
      /\ \A j \in DOMAIN Append(air[hop], pkt) :
           \/ Append(air[hop], pkt)[j] = pkt
           \/ \E k \in DOMAIN air[hop] : Append(air[hop], pkt)[j] = air[hop][k]
  BY <1>1, AddedTo
<1>3. Range(Append(air[hop], pkt)) \subseteq Range(air[hop]) \cup {pkt}
  BY <1>2, Zenon DEF Range
<1>4. air' \in [AllHops -> Seq(Wire)]
  BY <1>1, <1>2 DEF AirTyped
<1>5. \A h \in AllHops : air'[h] = IF h = hop THEN Append(air[hop], pkt) ELSE air[h]
  BY <1>1 DEF AirTyped
<1>6. QED
  BY <1>3, <1>4, <1>5 DEF AirMore

LEMMA AirRemoved ==
  ASSUME AirTyped, NEW hop \in AllHops, NEW i \in DOMAIN air[hop],
         air' = [air EXCEPT ![hop] = RemoveAt(@, i)] \/ air' = air
  PROVE  AirFewer
<1>1. air[hop] \in Seq(Wire) /\ air \in [AllHops -> Seq(Wire)]
  BY DEF AirTyped
<1>2. CASE air' = air
  BY <1>1, <1>2 DEF AirFewer
<1>3. CASE air' = [air EXCEPT ![hop] = RemoveAt(@, i)]
  <2>1. /\ RemoveAt(air[hop], i) \in Seq(Wire)
        /\ \A j \in DOMAIN RemoveAt(air[hop], i) :
             \E k \in DOMAIN air[hop] : RemoveAt(air[hop], i)[j] = air[hop][k]
    BY <1>1, RemoveAtType
  <2>2. Range(RemoveAt(air[hop], i)) \subseteq Range(air[hop])
    BY <2>1, Zenon DEF Range
  <2>3. air' \in [AllHops -> Seq(Wire)]
    BY <1>1, <1>3, <2>1
  <2>4. \A h \in AllHops : air'[h] = IF h = hop THEN RemoveAt(air[hop], i) ELSE air[h]
    BY <1>1, <1>3
  <2>5. QED
    BY <2>2, <2>3, <2>4 DEF AirFewer
<1>4. QED
  BY <1>2, <1>3

LEMMA AirTakes ==
  ASSUME AirTyped, NEW hop \in AllHops, NEW i, Takes(hop, i)
  PROVE  AirFewer /\ air[hop][i] \in Range(air[hop])
<1>1. i \in DOMAIN air[hop]
  BY DEF Takes, Heads
<1>2. AirFewer
  BY <1>1, AirRemoved DEF Takes
<1>3. QED
  BY <1>1, <1>2 DEF Range

LEMMA AirLoses ==
  ASSUME AirTyped, Lose
  PROVE  AirFewer
<1>1. PICK hop \in AllHops :
        \E i \in Heads(hop) : air' = [air EXCEPT ![hop] = RemoveAt(@, i)]
  BY DEF Lose, AllHops
<1>2. PICK i \in Heads(hop) : air' = [air EXCEPT ![hop] = RemoveAt(@, i)]
  BY <1>1
<1>3. i \in DOMAIN air[hop]
  BY DEF Heads
<1>4. QED
  BY <1>2, <1>3, AirRemoved

LEMMA AirFewerTyped == AirTyped /\ AirFewer => AirTyped'
  BY DEF AirTyped, AirFewer, AllHops

LEMMA AirMoreTyped ==
  ASSUME AirTyped, NEW hop \in AllHops, NEW pkt, AirMore(hop, pkt),
         hop \in DataHops => pkt \in GackPackets,
         hop \in FeedbackHops => pkt \in GackFeedbacks
  PROVE  AirTyped'
  BY DEF AirTyped, AirMore, AllHops

-----------------------------------------------------------------------------
(* The types of the three coders and of what they write.                   *)
EncStep ==
  \/ EncPutSource \/ EncFlushCoded
  \/ \E vec \in Vectors : EncGetCoded(vec)
  \/ \E fb \in GackFeedbacks : EncPutFeedback(fb)
  \/ UNCHANGED encVars

LEMMA EncStepTyped == EncTyped /\ EncStep => EncTyped'
<1> SUFFICES ASSUME EncTyped, EncStep PROVE EncTyped'
  OBVIOUS
<1> USE SymbolsAssumption DEF EncTyped, EncTypeOK, Generations
<1>1. CASE EncPutSource
  <2>1. /\ EncSlot[1] = IF enc_complete THEN enc_generation + 1 ELSE enc_generation
        /\ EncSlot[2] = IF enc_complete THEN 1 ELSE enc_rank + 1
    BY DEF EncSlot
  <2>2. EncSlot[1] \in Generations /\ EncSlot[2] \in 1 .. Symbols
    BY <1>1, <2>1 DEF EncPutSource
  <2>3. enc_generation' \in Generations /\ enc_rank' \in 1 .. Symbols
    BY <1>1, <2>2 DEF EncPutSource
  <2>4. enc_sent' \in 0 .. Symbols
    BY <1>1 DEF EncPutSource
  <2>5. /\ enc_full' \in BOOLEAN /\ enc_empty' \in BOOLEAN /\ enc_complete' \in BOOLEAN
        /\ enc_rank' = Symbols => enc_full'
    BY <1>1 DEF EncPutSource, EncFilled
  <2>6. EncTypeOK'
    BY <2>3, <2>4, <2>5
  <2>7. enc_rank' >= 1
    BY <2>3
  <2>8. QED
    BY <2>5, <2>6, <2>7
<1>2. CASE EncFlushCoded
  BY <1>2 DEF EncFlushCoded
<1>3. ASSUME NEW vec \in Vectors, EncGetCoded(vec) PROVE EncTyped'
  BY <1>3 DEF EncGetCoded, SystematicSent
<1>4. ASSUME NEW fb \in GackFeedbacks, EncPutFeedback(fb) PROVE EncTyped'
  BY <1>4 DEF EncPutFeedback
<1>5. CASE UNCHANGED encVars
  BY <1>5 DEF encVars
<1>6. QED
  BY <1>1, <1>2, <1>3, <1>4, <1>5 DEF EncStep

LEMMA EncPacketTyped ==
  ASSUME EncTyped, NEW vec \in Vectors, EncGetCoded(vec)
  PROVE  EncPacket(vec) \in GackPackets
  BY SymbolsAssumption
  DEF EncTyped, EncTypeOK, EncGetCoded, EncHasCoded, EncPacket, GackPackets

(* kodo_skip_undecoded never goes back, and not past the generation.       *)
LEMMA SkipRange ==
  ASSUME NEW span, NEW index \in 0 .. Symbols
  PROVE  SkipUndecoded(span, index) \in index .. Symbols
<1> DEFINE ready == {i \in index .. Symbols - 1 : IsSymbolUncoded(span, i + 1)}
<1>1. CASE ready = {}
  <2>1. Max({index, Symbols}) = Symbols
    <3>1. {index, Symbols} \in SUBSET Nat /\ \A x \in {index, Symbols} : x <= Symbols
      BY SymbolsAssumption
    <3>2. QED
      BY <3>1, MaxProperty
  <2>2. QED
    BY <1>1, <2>1, SymbolsAssumption DEF SkipUndecoded
<1>2. CASE ready # {}
  <2>1. ready \in SUBSET Nat
    BY SymbolsAssumption
  <2>2. Min(ready) \in ready
    <3> HIDE DEF ready
    <3> QED
      BY <1>2, <2>1, MinProperty
  <2>3. QED
    BY <1>2, <2>2, SymbolsAssumption DEF SkipUndecoded
<1>3. QED
  BY <1>1, <1>2

DecStep ==
  \/ \E pkt \in GackPackets : DecPutCoded(pkt)
  \/ DecGetSource \/ DecFlushSource \/ DecGetFeedback
  \/ UNCHANGED decVars

LEMMA DecStepTyped == DecTyped /\ DecStep => DecTyped'
<1> SUFFICES ASSUME DecTyped, DecStep PROVE DecTyped'
  OBVIOUS
<1> USE SymbolsAssumption DEF DecTyped, DecTypeOK
<1>1. ASSUME NEW pkt \in GackPackets, DecPutCoded(pkt) PROVE DecTyped'
  <2>1. /\ pkt.generation \in Nat /\ pkt.generation # 0
        /\ pkt.rank \in 0 .. Symbols /\ pkt.vec \in Vectors
    BY DEF GackPackets, Generations
  <2>2. /\ ReadPayload(dec_span, pkt.vec) \subseteq Vectors
        /\ ReadPayload(EmptySpan, pkt.vec) \subseteq Vectors
        /\ EmptySpan \subseteq Vectors
    BY <2>1, SpanType
  <2>3. DecAt(pkt) \in Nat
    BY DEF DecAt
  <2>4. dec_index' \in 0 .. Symbols /\ dec_flush' \in BOOLEAN
    BY <1>1 DEF DecPutCoded
  <2>5. dec_generation' \in Nat /\ dec_generation' # 0
    BY <1>1, <2>1, <2>3 DEF DecPutCoded
  <2>6. dec_span' \in SUBSET Vectors
    BY <1>1, <2>2 DEF DecPutCoded
  <2>7. dec_feedback_generation' \in Nat /\ dec_feedback_rank' \in 0 .. Symbols
    BY <1>1, <2>1 DEF DecPutCoded, DecReport, DecSameReport
  <2>8. QED
    BY <2>4, <2>5, <2>6, <2>7
<1>2. CASE DecGetSource
  <2>1. dec_index + 1 \in 0 .. Symbols
    BY <1>2 DEF DecGetSource, DecHasSource
  <2>2. dec_index' \in 0 .. Symbols
    BY <1>2, <2>1, SkipRange DEF DecGetSource, DecAfter
  <2>3. QED
    BY <1>2, <2>2 DEF DecGetSource
<1>3. CASE DecFlushSource
  BY <1>3, SkipRange DEF DecFlushSource
<1>4. CASE DecGetFeedback
  BY <1>4 DEF DecGetFeedback
<1>5. CASE UNCHANGED decVars
  BY <1>5 DEF decVars
<1>6. QED
  BY <1>1, <1>2, <1>3, <1>4, <1>5 DEF DecStep

LEMMA DecFeedbackTyped ==
  ASSUME DecTyped, DecHasFeedback
  PROVE  DecFeedback \in GackFeedbacks
  BY DEF DecTyped, DecTypeOK, DecHasFeedback, DecFeedback, GackFeedbacks, Generations

(* Only a decoder that has read something hands symbols out.               *)
LEMMA DecSourceTyped ==
  ASSUME DecTyped, DecHasSource
  PROVE  DecSource \in SlotSet
  BY SymbolsAssumption
  DEF DecTyped, DecTypeOK, DecHasSource, DecSource, SlotSet, Generations, Indices,
      IsSymbolUncoded, EmptySpan

RecStep ==
  \/ \E pkt \in GackPackets : RecPutCoded(pkt)
  \/ \E vec \in Vectors : RecGetCoded(vec)
  \/ \E fb \in GackFeedbacks : RecPutFeedback(fb)
  \/ RecGetFeedback
  \/ UNCHANGED recVars

LEMMA RecStepTyped == RecTyped /\ RecStep => RecTyped'
<1> SUFFICES ASSUME RecTyped, RecStep PROVE RecTyped'
  OBVIOUS
<1> USE SymbolsAssumption DEF RecTyped, RecTypeOK
<1>1. ASSUME NEW pkt \in GackPackets, RecPutCoded(pkt) PROVE RecTyped'
  <2>1. /\ pkt.generation \in Generations /\ pkt.generation \in Nat /\ pkt.generation # 0
        /\ pkt.rank \in 0 .. Symbols /\ pkt.rank >= 1 /\ pkt.vec \in Vectors
    BY DEF GackPackets, Generations
  <2>2. rec_span' \in SUBSET Vectors
    BY <1>1, <2>1, SpanType DEF RecPutCoded
  <2>3. rec_generation' \in Nat /\ rec_generation' # 0
    BY <1>1, <2>1 DEF RecPutCoded, RecLeaves
  <2>4. rec_read' \subseteq Generations
    BY <1>1, <2>1 DEF RecPutCoded
  <2>5. rec_feedback_generation' \in Nat /\ rec_feedback_rank' \in 0 .. Symbols
    BY <1>1, <2>1 DEF RecPutCoded, RecReport, RecSameReport
  <2>6. rec_sender_rank' \in 0 .. Symbols /\ (rec_has_coded' => rec_sender_rank' >= 1)
    <3> DEFINE reset == RecLeaves(pkt.generation)
               sender_rank == IF reset THEN 0 ELSE rec_sender_rank
               sending == rec_has_coded /\ ~reset
    <3>1. PICK news \in BOOLEAN :
            /\ rec_has_coded' = (sending \/ (~RecSettled(pkt, sender_rank) /\ news))
            /\ rec_sender_rank' = IF ~sending /\ ~RecSettled(pkt, sender_rank) /\ news
                                  THEN pkt.rank ELSE sender_rank
      BY <1>1 DEF RecPutCoded
    <3>2. sender_rank \in 0 .. Symbols /\ (sending => sender_rank >= 1)
      OBVIOUS
    <3> HIDE DEF reset, sender_rank, sending
    <3>3. QED
      BY <2>1, <3>1, <3>2
  <2>7. rec_has_coded' \in BOOLEAN /\ rec_complete' \in BOOLEAN
    BY <1>1 DEF RecPutCoded
  <2>8. QED
    BY <2>2, <2>3, <2>4, <2>5, <2>6, <2>7
<1>2. ASSUME NEW vec \in Vectors, RecGetCoded(vec) PROVE RecTyped'
  BY <1>2 DEF RecGetCoded, recVars
<1>3. ASSUME NEW fb \in GackFeedbacks, RecPutFeedback(fb) PROVE RecTyped'
  <2>1. fb.generation \in Nat /\ fb.generation # 0 /\ fb.rank \in 0 .. Symbols
    BY DEF GackFeedbacks, Generations
  <2>2. EmptySpan \in SUBSET Vectors
    BY SpanType
  <2>3. CASE fb.generation > rec_generation
    <3>1. /\ rec_generation' = fb.generation /\ rec_span' = EmptySpan /\ rec_read' = {}
          /\ rec_sender_rank' = 0 /\ rec_has_coded' = FALSE
          /\ UNCHANGED <<rec_complete, rec_feedback_generation, rec_feedback_rank>>
      BY <1>3, <2>1, <2>3 DEF RecPutFeedback, RecSameReport
    <3>2. {rec_has_coded', rec_complete'} \subseteq BOOLEAN
      BY <3>1
    <3>3. QED
      BY <2>1, <2>2, <3>1, <3>2
  <2>4. CASE fb.generation = rec_generation /\ fb.rank >= rec_sender_rank
    <3>1. /\ rec_sender_rank' = fb.rank /\ rec_complete' = TRUE /\ rec_has_coded' = FALSE
          /\ rec_feedback_generation' = fb.generation /\ rec_feedback_rank' = fb.rank
          /\ UNCHANGED <<rec_generation, rec_span, rec_read>>
      BY <1>3, <2>1, <2>4 DEF RecPutFeedback, RecReport
    <3>2. {rec_has_coded', rec_complete'} \subseteq BOOLEAN
      BY <3>1
    <3>3. QED
      BY <2>1, <2>4, <3>1, <3>2
  <2>5. CASE UNCHANGED recVars
    BY <2>5 DEF recVars
  <2>6. QED
    BY <1>3, <2>1, <2>3, <2>4, <2>5 DEF RecPutFeedback
<1>4. CASE RecGetFeedback
  BY <1>4 DEF RecGetFeedback
<1>5. CASE UNCHANGED recVars
  BY <1>5 DEF recVars
<1>6. QED
  BY <1>1, <1>2, <1>3, <1>4, <1>5 DEF RecStep

LEMMA RecPacketTyped ==
  ASSUME RecTyped, NEW vec \in Vectors, RecGetCoded(vec)
  PROVE  RecPacket(vec) \in GackPackets
  BY SymbolsAssumption
  DEF RecTyped, RecTypeOK, RecGetCoded, RecPacket, GackPackets, Generations

LEMMA RecFeedbackTyped ==
  ASSUME RecTyped, RecHasFeedback
  PROVE  RecFeedback \in GackFeedbacks
  BY DEF RecTyped, RecTypeOK, RecHasFeedback, RecFeedback, GackFeedbacks, Generations

-----------------------------------------------------------------------------
(* A step of the link, taken apart: the applications, the channels, and a  *)
(* call of one coder, or of two when both hear a frame.                    *)
LEMMA StepCases ==
  ASSUME [Next]_vars
  PROVE  \/ PutSource /\ UNCHANGED <<opt, recVars, air>>
         \/ FlushCoded /\ UNCHANGED <<opt, recVars, air>>
         \/ GetSource /\ UNCHANGED <<opt, recVars, air>>
         \/ FlushSource /\ UNCHANGED <<opt, recVars, air>>
         \/ Lose
         \/ \E vec \in Vectors : SendCoded(vec) \/ RelaySends(vec)
         \/ \E i \in Nat : ReceiveCoded(i) \/ RelayReceives(i)
         \/ SendFeedback \/ RelayAnswers
         \/ \E i \in Nat : ReceiveFeedback(i) \/ RelayHears(i)
         \/ UNCHANGED vars
<1>1. Places("coded") \subseteq Nat /\ Places("feedback") \subseteq Nat
  BY DEF Places
<1>2. QED
  BY <1>1 DEF Next, App

LEMMA TypeInit == Init => TypeInv
<1> SUFFICES ASSUME Init PROVE TypeInv
  OBVIOUS
<1> USE SymbolsAssumption DEF Init
<1>0. 0 \in 0 .. Symbols /\ 0 # Symbols /\ EmptySpan \in SUBSET Vectors
  BY SpanType
<1>1. EncTyped
  <2>1. EncInit
    BY DEF EndsInit
  <2>2. {enc_full, enc_empty, enc_complete} \subseteq BOOLEAN
    BY <2>1 DEF EncInit
  <2>3. QED
    BY <1>0, <2>1, <2>2 DEF EncInit, EncTyped, EncTypeOK, Generations
<1>2. DecTyped
  <2>1. DecInit
    BY DEF EndsInit
  <2>2. QED
    BY <1>0, <2>1 DEF DecInit, DecTyped, DecTypeOK
<1>3. RecTyped
  <2>1. RecInit
    OBVIOUS
  <2>2. {rec_has_coded, rec_complete} \subseteq BOOLEAN /\ ~rec_has_coded
    BY <2>1 DEF RecInit
  <2>3. QED
    BY <1>0, <2>1, <2>2 DEF RecInit, RecTyped, RecTypeOK
<1>4. AirTyped
  <2>1. air = [hop \in AllHops |-> <<>>]
    BY DEF AllHops
  <2>2. Range(<<>>) = {}
    BY DEF Range
  <2>3. QED
    BY <2>1, <2>2 DEF AirTyped, AllHops
<1>5. AppTyped
  BY DEF EndsInit, AppTyped
<1>6. QED
  BY <1>1, <1>2, <1>3, <1>4, <1>5 DEF TypeInv

(* What arrives is a packet, or a feedback.                                *)
LEMMA ArrivesTyped ==
  ASSUME AirTyped, NEW hop \in AllHops, NEW i, Takes(hop, i)
  PROVE  /\ hop \in DataHops => air[hop][i] \in GackPackets
         /\ hop \in FeedbackHops => air[hop][i] \in GackFeedbacks
  BY AirTakes DEF AirTyped

LEMMA HopTypes ==
  /\ DataHop \in DataHops /\ DataHop \in AllHops
  /\ AnswerHop \in FeedbackHops /\ AnswerHop \in AllHops
  /\ {"coded", "recoded"} \subseteq DataHops /\ {"answers", "feedback"} \subseteq FeedbackHops
  /\ DataHops \cap FeedbackHops = {} /\ AllHops = DataHops \cup FeedbackHops
  BY DEF DataHop, AnswerHop, DataHops, FeedbackHops, AllHops

LEMMA TypeNext == TypeInv /\ [Next]_vars => TypeInv'
<1> SUFFICES ASSUME TypeInv, [Next]_vars PROVE TypeInv'
  OBVIOUS
<1> USE DEF TypeInv
<1>a. EncTyped /\ UNCHANGED encVars => EncTyped'
  BY EncStepTyped DEF EncStep
<1>b. DecTyped /\ UNCHANGED decVars => DecTyped'
  BY DecStepTyped DEF DecStep
<1>c. RecTyped /\ UNCHANGED recVars => RecTyped'
  BY RecStepTyped DEF RecStep
<1>d. AirTyped /\ UNCHANGED air => AirTyped'
  BY DEF AirTyped
<1>e. AppTyped /\ UNCHANGED <<opt, appVars>> => AppTyped'
  BY DEF AppTyped, appVars
<1>1. CASE PutSource /\ UNCHANGED <<opt, recVars, air>>
  <2>1. EncTyped'
    BY <1>1, EncStepTyped DEF PutSource, EncStep
  <2>2. EncSlot \in SlotSet
    BY <1>1, SymbolsAssumption
    DEF PutSource, EncPutSource, EncSlot, SlotSet, EncTyped, EncTypeOK, Generations, Indices
  <2>3. AppTyped'
    BY <1>1, <2>2 DEF PutSource, AppTyped
  <2>4. QED
    BY <1>1, <1>b, <1>c, <1>d, <2>1, <2>3 DEF PutSource
<1>2. CASE FlushCoded /\ UNCHANGED <<opt, recVars, air>>
  <2>1. EncTyped'
    BY <1>2, EncStepTyped DEF FlushCoded, EncStep
  <2>2. QED
    BY <1>2, <1>b, <1>c, <1>d, <1>e, <2>1 DEF FlushCoded
<1>3. CASE GetSource /\ UNCHANGED <<opt, recVars, air>>
  <2>1. DecTyped'
    BY <1>3, DecStepTyped DEF GetSource, DecStep
  <2>2. DecSource \in SlotSet
    BY <1>3, DecSourceTyped DEF GetSource, DecGetSource
  <2>3. AppTyped'
    BY <1>3, <2>2 DEF GetSource, AppTyped
  <2>4. QED
    BY <1>3, <1>a, <1>c, <1>d, <2>1, <2>3 DEF GetSource
<1>4. CASE FlushSource /\ UNCHANGED <<opt, recVars, air>>
  <2>1. DecTyped'
    BY <1>4, DecStepTyped DEF FlushSource, DecStep
  <2>2. QED
    BY <1>4, <1>a, <1>c, <1>d, <1>e, <2>1 DEF FlushSource
<1>5. CASE Lose
  BY <1>5, <1>a, <1>b, <1>c, <1>e, AirLoses, AirFewerTyped DEF Lose, endVars
<1>6. ASSUME NEW vec \in Vectors, SendCoded(vec) PROVE TypeInv'
  <2>1. EncTyped' /\ EncPacket(vec) \in GackPackets
    BY <1>6, EncStepTyped, EncPacketTyped DEF SendCoded, TakeCoded, EncStep
  <2>2. AirTyped'
    BY <1>6, <2>1, HopTypes, AirSends, AirMoreTyped DEF SendCoded, Wire
  <2>3. QED
    BY <1>6, <1>b, <1>c, <1>e, <2>1, <2>2 DEF SendCoded, TakeCoded
<1>7. ASSUME NEW vec \in Vectors, RelaySends(vec) PROVE TypeInv'
  <2>1. RecTyped' /\ RecPacket(vec) \in GackPackets
    BY <1>7, RecStepTyped, RecPacketTyped DEF RelaySends, RecStep
  <2>2. AirTyped'
    BY <1>7, <2>1, HopTypes, AirSends, AirMoreTyped DEF RelaySends, Wire
  <2>3. QED
    BY <1>7, <1>a, <1>b, <1>e, <2>1, <2>2 DEF RelaySends, endVars
<1>8. ASSUME NEW i \in Nat, ReceiveCoded(i) PROVE TypeInv'
  <2>1. air[DataHop][i] \in GackPackets /\ AirTyped'
    BY <1>8, HopTypes, ArrivesTyped, AirTakes, AirFewerTyped DEF ReceiveCoded
  <2>2. DecTyped'
    BY <1>8, <2>1, DecStepTyped DEF ReceiveCoded, DecStep
  <2>3. QED
    BY <1>8, <1>a, <1>c, <1>e, <2>1, <2>2 DEF ReceiveCoded
<1>9. ASSUME NEW i \in Nat, RelayReceives(i) PROVE TypeInv'
  <2>1. air["coded"][i] \in GackPackets /\ AirTyped'
    BY <1>9, HopTypes, ArrivesTyped, AirTakes, AirFewerTyped DEF RelayReceives
  <2>2. RecTyped'
    BY <1>9, <2>1, RecStepTyped DEF RelayReceives, RecStep
  <2>3. QED
    BY <1>9, <1>a, <1>b, <1>e, <2>1, <2>2 DEF RelayReceives, endVars
<1>10. CASE SendFeedback
  <2>1. DecTyped' /\ DecFeedback \in GackFeedbacks
    BY <1>10, DecStepTyped, DecFeedbackTyped DEF SendFeedback, DecGetFeedback, DecStep
  <2>2. AirTyped'
    BY <1>10, <2>1, HopTypes, AirSends, AirMoreTyped DEF SendFeedback, Wire
  <2>3. QED
    BY <1>10, <1>a, <1>c, <1>e, <2>1, <2>2 DEF SendFeedback
<1>11. CASE RelayAnswers
  <2>1. RecTyped' /\ RecFeedback \in GackFeedbacks
    BY <1>11, RecStepTyped, RecFeedbackTyped DEF RelayAnswers, RecGetFeedback, RecStep
  <2>2. AirTyped'
    BY <1>11, <2>1, HopTypes, AirSends, AirMoreTyped DEF RelayAnswers, Wire
  <2>3. QED
    BY <1>11, <1>a, <1>b, <1>e, <2>1, <2>2 DEF RelayAnswers, endVars
<1>12. ASSUME NEW i \in Nat, ReceiveFeedback(i) PROVE TypeInv'
  <2>1. air["feedback"][i] \in GackFeedbacks /\ AirTyped'
    BY <1>12, HopTypes, ArrivesTyped, AirTakes, AirFewerTyped DEF ReceiveFeedback
  <2>2. EncTyped'
    BY <1>12, <2>1, EncStepTyped DEF ReceiveFeedback, EncStep
  <2>3. QED
    BY <1>12, <1>b, <1>c, <1>e, <2>1, <2>2 DEF ReceiveFeedback
<1>13. ASSUME NEW i \in Nat, RelayHears(i) PROVE TypeInv'
  <2>1. air["answers"][i] \in GackFeedbacks /\ AirTyped'
    BY <1>13, HopTypes, ArrivesTyped, AirTakes, AirFewerTyped DEF RelayHears
  <2>2. EncTyped'
    BY <1>13, <2>1, EncStepTyped DEF RelayHears, EncStep
  <2>3. RecTyped'
    BY <1>13, <2>1, RecStepTyped DEF RelayHears, RecStep
  <2>4. QED
    BY <1>13, <1>b, <1>e, <2>1, <2>2, <2>3 DEF RelayHears
<1>14. CASE UNCHANGED vars
  BY <1>14, <1>a, <1>b, <1>c, <1>d, <1>e DEF vars, endVars
<1>15. QED
  BY <1>1, <1>2, <1>3, <1>4, <1>5, <1>6, <1>7, <1>8, <1>9, <1>10, <1>11, <1>12,
     <1>13, <1>14, StepCases

(* The coders' states and everything in flight keep their types, whatever  *)
(* the applications and the channels do (src/gack).                        *)
THEOREM GackTypeCorrect == Spec => []TypeOK
<1>1. TypeInv => TypeOK
  BY DEF TypeInv, TypeOK, EncTyped, DecTyped, RecTyped, AirTyped
<1>2. QED
  BY <1>1, TypeInit, TypeNext, PTL DEF Spec

-----------------------------------------------------------------------------
(* On the way over a recoder packets keep their order.                     *)
HopsKeepOrder == \A o \in Options : o.relay => ~o.reorder

(* Then everything in flight is no newer than its sender, and packets for  *)
(* the recoder no older than the recoder.  Without a recoder it is idle.   *)
Ascends(packets) ==
  \A i, j \in DOMAIN packets : i <= j => packets[i].generation <= packets[j].generation

OrderInv ==
  /\ opt.relay => Ascends(air["coded"])
  /\ \A pkt \in Range(air["coded"]) :
       rec_generation <= pkt.generation /\ pkt.generation <= enc_generation
  /\ \A pkt \in Range(air["recoded"]) : pkt.generation <= rec_generation
  /\ \A fb \in Range(air["answers"]) : fb.generation <= rec_generation
  /\ \A fb \in Range(air["feedback"]) : fb.generation <= enc_generation
  /\ dec_feedback_generation <= IF opt.relay THEN rec_generation ELSE enc_generation
  /\ rec_feedback_generation <= rec_generation
  /\ rec_generation <= enc_generation
  /\ rec_read \subseteq {rec_generation}
  /\ ~opt.relay => rec_generation = 0

(* What the invariant says of one packet, typed for the provers.           *)
LEMMA OrderFacts ==
  ASSUME TypeInv, OrderInv
  PROVE  /\ enc_generation \in Nat /\ rec_generation \in Nat /\ dec_generation \in Nat
         /\ dec_feedback_generation \in Nat /\ rec_feedback_generation \in Nat
         /\ \A hop \in AllHops : \A pkt \in Range(air[hop]) :
              pkt.generation \in Nat /\ pkt.generation >= 1
              /\ pkt.generation <= enc_generation
         /\ \A hop \in {"recoded", "answers"} : \A pkt \in Range(air[hop]) : opt.relay
  BY HopTypes, SMTT(30)
  DEF TypeInv, OrderInv, EncTyped, EncTypeOK, RecTyped, RecTypeOK, DecTyped, DecTypeOK,
      AirTyped, GackPackets, GackFeedbacks, Generations, AllHops, DataHops, FeedbackHops

LEMMA AscendsAppend ==
  ASSUME NEW packets \in Seq(Wire), NEW pkt \in Wire, Ascends(packets),
         \A p \in Range(packets) : p.generation <= pkt.generation,
         pkt.generation \in Nat
  PROVE  Ascends(Append(packets, pkt))
<1> DEFINE longer == Append(packets, pkt)
<1>1. /\ Len(packets) \in Nat /\ DOMAIN packets = 1 .. Len(packets)
      /\ DOMAIN longer = 1 .. Len(packets) + 1
      /\ \A i \in 1 .. Len(packets) : longer[i] = packets[i]
      /\ longer[Len(packets) + 1] = pkt
  OBVIOUS
<1>2. \A i \in 1 .. Len(packets) : packets[i].generation <= pkt.generation
  BY <1>1 DEF Range
<1> HIDE DEF longer
<1>3. SUFFICES ASSUME NEW i \in DOMAIN longer, NEW j \in DOMAIN longer, i <= j
               PROVE  longer[i].generation <= longer[j].generation
  BY DEF Ascends, longer
<1>4. CASE j = Len(packets) + 1 /\ i = j
  <2>1. longer[i] = pkt /\ longer[j] = pkt
    BY <1>1, <1>4
  <2>2. QED
    BY <2>1
<1>5. CASE j = Len(packets) + 1 /\ i # j
  <2>1. i \in 1 .. Len(packets) /\ longer[j] = pkt
    BY <1>1, <1>5
  <2>2. QED
    BY <1>1, <1>2, <2>1
<1>6. CASE j # Len(packets) + 1
  <2>1. i \in 1 .. Len(packets) /\ j \in 1 .. Len(packets)
    BY <1>1, <1>3, <1>6
  <2>2. QED
    BY <1>1, <1>3, <2>1 DEF Ascends
<1>7. QED
  BY <1>4, <1>5, <1>6

LEMMA AscendsRemove ==
  ASSUME NEW packets \in Seq(Wire), NEW n \in DOMAIN packets, Ascends(packets)
  PROVE  Ascends(RemoveAt(packets, n))
<1> DEFINE shorter == RemoveAt(packets, n)
<1>1. /\ shorter \in Seq(Wire) /\ Len(shorter) = Len(packets) - 1
      /\ \A j \in 1 .. Len(packets) - 1 :
           shorter[j] = IF j < n THEN packets[j] ELSE packets[j + 1]
  BY RemoveAtElements
<1> HIDE DEF shorter
<1>2. /\ Len(packets) \in Nat /\ DOMAIN packets = 1 .. Len(packets)
      /\ DOMAIN shorter = 1 .. Len(packets) - 1 /\ n \in Nat
  BY <1>1
<1>3. SUFFICES ASSUME NEW i \in DOMAIN shorter, NEW j \in DOMAIN shorter, i <= j
               PROVE  shorter[i].generation <= shorter[j].generation
  BY DEF Ascends, shorter
<1>4. PICK k \in DOMAIN packets : shorter[i] = packets[k] /\ k = IF i < n THEN i ELSE i + 1
  BY <1>1, <1>2
<1>5. PICK l \in DOMAIN packets : shorter[j] = packets[l] /\ l = IF j < n THEN j ELSE j + 1
  BY <1>1, <1>2
<1>6. k <= l
  BY <1>2, <1>3, <1>4, <1>5
<1>7. QED
  BY <1>4, <1>5, <1>6 DEF Ascends

(* However packets leave the channels, what is left is in order.           *)
LEMMA AscendsFewer ==
  ASSUME AirTyped, NEW hop \in AllHops, NEW i \in DOMAIN air[hop],
         air' = [air EXCEPT ![hop] = RemoveAt(@, i)] \/ air' = air,
         Ascends(air["coded"])
  PROVE  Ascends(air'["coded"])
<1>1. air \in [AllHops -> Seq(Wire)] /\ "coded" \in AllHops
  BY HopTypes DEF AirTyped
<1>2. CASE hop = "coded" /\ air' = [air EXCEPT ![hop] = RemoveAt(@, i)]
  <2>1. air'["coded"] = RemoveAt(air["coded"], i)
    BY <1>1, <1>2
  <2>2. air["coded"] \in Seq(Wire) /\ i \in DOMAIN air["coded"]
    BY <1>1, <1>2
  <2>3. QED
    BY <2>1, <2>2, AscendsRemove
<1>3. CASE hop # "coded" \/ air' = air
  BY <1>1, <1>3
<1>4. QED
  BY <1>2, <1>3

(* Fewer packets in flight, and coders that only go forward.               *)
LEMMA OrderFewer ==
  ASSUME TypeInv, OrderInv, AirFewer, opt.relay => Ascends(air'["coded"]),
         enc_generation' \in Nat, enc_generation <= enc_generation',
         UNCHANGED <<opt, rec_generation, rec_read>>,
         \/ dec_feedback_generation' = dec_feedback_generation
         \/ dec_feedback_generation' = 0
         \/ \E pkt \in Range(air[DataHop]) : dec_feedback_generation' = pkt.generation,
         \/ rec_feedback_generation' = rec_feedback_generation
         \/ rec_feedback_generation' = 0
         \/ rec_feedback_generation' <= rec_generation
  PROVE  OrderInv'
<1>1. \A hop \in {"coded", "recoded", "answers", "feedback"} :
        Range(air'[hop]) \subseteq Range(air[hop])
  BY HopTypes DEF AirFewer
<1>2. \A pkt \in Range(air'["coded"]) :
        rec_generation' <= pkt.generation /\ pkt.generation <= enc_generation'
  BY <1>1, OrderFacts, HopTypes DEF OrderInv
<1>3. /\ \A pkt \in Range(air'["recoded"]) : pkt.generation <= rec_generation'
      /\ \A fb \in Range(air'["answers"]) : fb.generation <= rec_generation'
  BY <1>1 DEF OrderInv
<1>4. \A fb \in Range(air'["feedback"]) : fb.generation <= enc_generation'
  BY <1>1, OrderFacts, HopTypes
<1>5. dec_feedback_generation' <= IF opt'.relay THEN rec_generation' ELSE enc_generation'
  <2>1. \A pkt \in Range(air[DataHop]) :
          pkt.generation <= IF opt.relay THEN rec_generation ELSE enc_generation
    BY DEF OrderInv, DataHop
  <2>2. \A pkt \in Range(air[DataHop]) : pkt.generation \in Nat
    BY OrderFacts, HopTypes
  <2>3. QED
    BY <2>1, <2>2, OrderFacts DEF OrderInv
<1>6. rec_feedback_generation' <= rec_generation' /\ rec_generation' <= enc_generation'
  BY OrderFacts DEF OrderInv
<1>7. opt'.relay => Ascends(air'["coded"])
  OBVIOUS
<1>8. QED
  BY <1>2, <1>3, <1>4, <1>5, <1>6, <1>7 DEF OrderInv

LEMMA EncGrows ==
  ASSUME EncTyped, EncStep
  PROVE  enc_generation' \in Nat /\ enc_generation <= enc_generation'
  BY DEF EncTyped, EncTypeOK, Generations, EncStep, EncPutSource, EncSlot, EncFlushCoded,
         EncGetCoded, EncPutFeedback, encVars

LEMMA AirSame == TypeInv /\ UNCHANGED air => AirFewer
  BY DEF TypeInv, AirTyped, AirFewer

(* A packet of the encoder is the last in order.                           *)
LEMMA OrderSendCoded ==
  ASSUME TypeInv, OrderInv, NEW vec \in Vectors, SendCoded(vec)
  PROVE  OrderInv'
<1> DEFINE pkt == EncPacket(vec)
<1>1. pkt \in GackPackets /\ pkt.generation = enc_generation /\ pkt \in Wire
  <2>1. EncGetCoded(vec)
    BY DEF SendCoded, TakeCoded
  <2>2. QED
    BY <2>1, EncPacketTyped DEF TypeInv, EncPacket, Wire
<1>2. UNCHANGED <<opt, enc_generation, recVars, decVars>>
  BY DEF SendCoded, TakeCoded, EncGetCoded
<1>3. AirMore("coded", pkt)
  BY <1>1, HopTypes, AirSends DEF SendCoded, TypeInv
<1>4. /\ Range(air'["coded"]) \subseteq Range(air["coded"]) \cup {pkt}
      /\ \A hop \in {"recoded", "answers", "feedback"} :
           Range(air'[hop]) \subseteq Range(air[hop])
  BY <1>3, HopTypes DEF AirMore
<1>5. opt.relay => Ascends(air'["coded"])
  <2>1. air'["coded"] = Append(air["coded"], pkt) /\ air["coded"] \in Seq(Wire)
    BY HopTypes DEF SendCoded, Sends, TypeInv, AirTyped
  <2>2. \A p \in Range(air["coded"]) : p.generation <= pkt.generation
    BY <1>1 DEF OrderInv
  <2>3. QED
    BY <1>1, <2>1, <2>2, OrderFacts, AscendsAppend DEF OrderInv
<1>6. \A p \in Range(air'["coded"]) :
        rec_generation' <= p.generation /\ p.generation <= enc_generation'
  BY <1>1, <1>2, <1>4, OrderFacts DEF OrderInv, recVars
<1>7. /\ UNCHANGED <<rec_generation, rec_read, dec_feedback_generation,
                     rec_feedback_generation>>
  BY <1>2 DEF recVars, decVars
<1>8. QED
  BY <1>2, <1>4, <1>5, <1>6, <1>7 DEF OrderInv

LEMMA OrderRelaySends ==
  ASSUME TypeInv, OrderInv, NEW vec \in Vectors, RelaySends(vec)
  PROVE  OrderInv'
<1> DEFINE pkt == RecPacket(vec)
<1>1. RecGetCoded(vec) /\ UNCHANGED <<opt, endVars, recVars>>
  BY DEF RelaySends, RecGetCoded
<1>2. pkt \in GackPackets /\ pkt.generation = rec_generation /\ pkt \in Wire
  BY <1>1, RecPacketTyped DEF TypeInv, RecPacket, Wire
<1>3. AirMore("recoded", pkt)
  BY <1>2, HopTypes, AirSends DEF RelaySends, TypeInv
<1>4. /\ Range(air'["recoded"]) \subseteq Range(air["recoded"]) \cup {pkt}
      /\ \A hop \in {"coded", "answers", "feedback"} :
           Range(air'[hop]) \subseteq Range(air[hop])
  BY <1>3, HopTypes DEF AirMore
<1>5. air'["coded"] = air["coded"]
  BY HopTypes DEF RelaySends, Sends, TypeInv, AirTyped
<1>6. /\ UNCHANGED <<enc_generation, rec_generation, rec_read, dec_feedback_generation,
                     rec_feedback_generation>>
  BY <1>1 DEF endVars, encVars, recVars, decVars
<1>7. \A p \in Range(air'["recoded"]) : p.generation <= rec_generation'
  BY <1>2, <1>4, <1>6, OrderFacts DEF OrderInv
<1>8. QED
  BY <1>1, <1>4, <1>5, <1>6, <1>7 DEF OrderInv

(* What a hop that keeps the order delivers is the oldest that is under    *)
(* way: the recoder goes on to its generation or is at it already.         *)
LEMMA RelayAtPacket ==
  ASSUME HopsKeepOrder, TypeInv, OrderInv, NEW i \in Nat, RelayReceives(i)
  PROVE  /\ air["coded"][i] \in Range(air["coded"])
         /\ rec_generation' = air["coded"][i].generation
         /\ \A p \in Range(air["coded"]) : air["coded"][i].generation <= p.generation
         /\ rec_read' \subseteq {rec_generation'}
         /\ RecLeaves(air["coded"][i].generation) \/ rec_generation = 0
              \/ rec_generation = air["coded"][i].generation
<1> DEFINE pkt == air["coded"][i]
<1>1. opt.relay /\ ~opt.reorder
  BY DEF RelayReceives, HopsKeepOrder, TypeInv, AppTyped
<1>2. i = 1 /\ i \in DOMAIN air["coded"]
  BY <1>1 DEF RelayReceives, Takes, Heads
<1>3. pkt \in Range(air["coded"])
  BY <1>2 DEF Range
<1>4. pkt.generation \in Nat /\ rec_generation \in Nat /\ rec_generation <= pkt.generation
  BY <1>3, OrderFacts, HopTypes DEF OrderInv
<1>5. ASSUME NEW p \in Range(air["coded"]) PROVE pkt.generation <= p.generation
  <2>1. PICK j \in DOMAIN air["coded"] : p = air["coded"][j]
    BY DEF Range
  <2>2. air["coded"] \in Seq(Wire)
    BY HopTypes DEF TypeInv, AirTyped
  <2>3. j \in Nat /\ i <= j
    BY <1>2, <2>2
  <2>4. QED
    BY <1>1, <1>2, <2>1, <2>3 DEF OrderInv, Ascends
<1>6. RecPutCoded(pkt)
  BY DEF RelayReceives
<1>7. rec_generation' = pkt.generation
  BY <1>4, <1>6 DEF RecPutCoded, RecLeaves
<1>8. rec_read \subseteq Generations
  BY DEF TypeInv, RecTyped, RecTypeOK
<1>9. RecLeaves(pkt.generation) \/ rec_generation = 0 \/ rec_generation = pkt.generation
  BY <1>4 DEF RecLeaves
<1>10. rec_read' \subseteq {rec_generation'}
  <2>1. rec_read' = (IF RecLeaves(pkt.generation) THEN {} ELSE rec_read) \cup {pkt.generation}
    BY <1>6 DEF RecPutCoded
  <2>2. rec_generation = 0 => rec_read = {}
    BY <1>8 DEF OrderInv, Generations
  <2>3. rec_read \subseteq {rec_generation}
    BY DEF OrderInv
  <2>4. QED
    BY <1>7, <1>9, <2>1, <2>2, <2>3
<1>11. QED
  BY <1>3, <1>5, <1>7, <1>9, <1>10

LEMMA OrderRelayReceives ==
  ASSUME HopsKeepOrder, TypeInv, OrderInv, NEW i \in Nat, RelayReceives(i)
  PROVE  OrderInv'
<1> DEFINE pkt == air["coded"][i]
<1>1. /\ pkt \in Range(air["coded"]) /\ rec_generation' = pkt.generation
      /\ \A p \in Range(air["coded"]) : pkt.generation <= p.generation
      /\ rec_read' \subseteq {rec_generation'}
  BY RelayAtPacket
<1>2. /\ pkt.generation \in Nat /\ rec_generation <= pkt.generation
      /\ pkt.generation <= enc_generation
  BY <1>1, OrderFacts, HopTypes DEF OrderInv
<1>3. AirFewer /\ opt.relay
  BY HopTypes, AirTakes DEF RelayReceives, TypeInv
<1>4. \A hop \in {"coded", "recoded", "answers", "feedback"} :
        Range(air'[hop]) \subseteq Range(air[hop])
  BY <1>3, HopTypes DEF AirFewer
<1>5. opt.relay => Ascends(air'["coded"])
  <2>1. i \in DOMAIN air["coded"]
    BY DEF RelayReceives, Takes, Heads
  <2>2. QED
    BY <2>1, HopTypes, AscendsFewer DEF RelayReceives, Takes, TypeInv, OrderInv
<1>6. UNCHANGED <<opt, enc_generation, dec_feedback_generation>>
  BY DEF RelayReceives, endVars, encVars, decVars
<1>7. \/ rec_feedback_generation' = rec_feedback_generation
      \/ rec_feedback_generation' = pkt.generation
  BY DEF RelayReceives, RecPutCoded, RecReport, RecSameReport
<1>8. /\ \A p \in Range(air'["recoded"]) : p.generation <= rec_generation'
      /\ \A fb \in Range(air'["answers"]) : fb.generation <= rec_generation'
  BY <1>1, <1>2, <1>4, OrderFacts, HopTypes DEF OrderInv
<1>9. \A p \in Range(air'["coded"]) :
        rec_generation' <= p.generation /\ p.generation <= enc_generation'
  BY <1>1, <1>4, <1>6 DEF OrderInv
<1>10. /\ dec_feedback_generation' <= IF opt'.relay THEN rec_generation' ELSE enc_generation'
       /\ rec_feedback_generation' <= rec_generation'
       /\ rec_generation' <= enc_generation'
  BY <1>1, <1>2, <1>3, <1>6, <1>7, OrderFacts DEF OrderInv
<1>11. QED
  BY <1>1, <1>3, <1>4, <1>5, <1>6, <1>8, <1>9, <1>10 DEF OrderInv

(* No feedback is ahead of the recoder: its first branch is not taken.     *)
LEMMA RelayHearsBehind ==
  ASSUME TypeInv, OrderInv, NEW i \in Nat, RelayHears(i)
  PROVE  /\ opt.relay
         /\ air["answers"][i] \in Range(air["answers"])
         /\ air["answers"][i] \in GackFeedbacks
         /\ air["answers"][i].generation <= rec_generation
         /\ air["answers"][i].generation \in Nat /\ rec_generation \in Nat
<1>1. air["answers"][i] \in Range(air["answers"]) /\ air["answers"][i] \in GackFeedbacks
  BY HopTypes, AirTakes, ArrivesTyped DEF RelayHears, TypeInv
<1>2. QED
  BY <1>1, OrderFacts, HopTypes DEF OrderInv

LEMMA OrderRelayHears ==
  ASSUME TypeInv, OrderInv, NEW i \in Nat, RelayHears(i)
  PROVE  OrderInv'
<1> DEFINE fb == air["answers"][i]
<1>1. /\ opt.relay /\ fb \in Range(air["answers"]) /\ fb \in GackFeedbacks
      /\ fb.generation <= rec_generation /\ fb.generation \in Nat /\ rec_generation \in Nat
  BY RelayHearsBehind
<1>2. RecPutFeedback(fb) /\ UNCHANGED <<opt, decVars>>
  BY DEF RelayHears
<1>3. UNCHANGED <<rec_generation, rec_read>>
      /\ (rec_feedback_generation' = rec_feedback_generation
            \/ rec_feedback_generation' <= rec_generation)
  BY <1>1, <1>2 DEF RecPutFeedback, RecReport, recVars
<1>4. EncStep
  BY <1>1 DEF RelayHears, EncStep
<1>5. enc_generation' \in Nat /\ enc_generation <= enc_generation'
  BY <1>4, EncGrows DEF TypeInv
<1>6. AirFewer /\ (opt.relay => Ascends(air'["coded"]))
  <2>1. i \in DOMAIN air["answers"]
    BY DEF RelayHears, Takes, Heads
  <2>2. QED
    BY <2>1, HopTypes, AirTakes, AscendsFewer DEF RelayHears, Takes, TypeInv, OrderInv
<1>7. dec_feedback_generation' = dec_feedback_generation
  BY <1>2 DEF decVars
<1>8. QED
  BY <1>2, <1>3, <1>5, <1>6, <1>7, OrderFewer

(* Steps that leave the recoder alone and bring nothing into the channels. *)
LEMMA OrderQuiet ==
  ASSUME TypeInv, OrderInv, AirFewer, opt.relay => Ascends(air'["coded"]), EncStep,
         UNCHANGED <<opt, recVars>>,
         \/ dec_feedback_generation' = dec_feedback_generation
         \/ \E pkt \in Range(air[DataHop]) : dec_feedback_generation' = pkt.generation
  PROVE  OrderInv'
<1>1. enc_generation' \in Nat /\ enc_generation <= enc_generation'
  BY EncGrows DEF TypeInv
<1>2. UNCHANGED <<rec_generation, rec_read, rec_feedback_generation>>
  BY DEF recVars
<1>3. QED
  BY <1>1, <1>2, OrderFewer

LEMMA OrderReceiveCoded ==
  ASSUME TypeInv, OrderInv, NEW i \in Nat, ReceiveCoded(i)
  PROVE  OrderInv'
<1>1. AirFewer /\ air[DataHop][i] \in Range(air[DataHop])
  BY HopTypes, AirTakes DEF ReceiveCoded, TypeInv
<1>2. opt.relay => Ascends(air'["coded"])
  <2>1. i \in DOMAIN air[DataHop]
    BY DEF ReceiveCoded, Takes, Heads
  <2>2. QED
    BY <2>1, HopTypes, AscendsFewer DEF ReceiveCoded, Takes, TypeInv, OrderInv
<1>3. \/ dec_feedback_generation' = dec_feedback_generation
      \/ dec_feedback_generation' = air[DataHop][i].generation
  BY DEF ReceiveCoded, DecPutCoded, DecReport, DecSameReport
<1>4. EncStep /\ UNCHANGED <<opt, recVars>>
  BY DEF ReceiveCoded, EncStep
<1>5. QED
  BY <1>1, <1>2, <1>3, <1>4, OrderQuiet

LEMMA OrderSendFeedback ==
  ASSUME TypeInv, OrderInv, SendFeedback
  PROVE  OrderInv'
<1> DEFINE fb == DecFeedback
<1>1. DecGetFeedback /\ UNCHANGED <<opt, encVars, recVars>>
  BY DEF SendFeedback
<1>2. fb \in Wire /\ fb.generation = dec_feedback_generation
  BY <1>1, DecFeedbackTyped DEF TypeInv, DecGetFeedback, DecFeedback, Wire
<1>3. AirMore(AnswerHop, fb)
  BY <1>2, HopTypes, AirSends DEF SendFeedback, TypeInv
<1>4. /\ Range(air'[AnswerHop]) \subseteq Range(air[AnswerHop]) \cup {fb}
      /\ \A hop \in {"coded", "recoded", "answers", "feedback"} \ {AnswerHop} :
           Range(air'[hop]) \subseteq Range(air[hop])
  BY <1>3, HopTypes DEF AirMore
<1>5. air'["coded"] = air["coded"]
  BY HopTypes DEF SendFeedback, Sends, TypeInv, AirTyped, AnswerHop
<1>6. /\ UNCHANGED <<enc_generation, rec_generation, rec_read, rec_feedback_generation>>
      /\ dec_feedback_generation' = 0
  BY <1>1 DEF encVars, recVars, DecGetFeedback
<1>7. /\ \A p \in Range(air'["answers"]) : p.generation <= rec_generation'
      /\ \A p \in Range(air'["feedback"]) : p.generation <= enc_generation'
  BY <1>2, <1>4, <1>6 DEF OrderInv, AnswerHop
<1>8. /\ Range(air'["coded"]) = Range(air["coded"])
      /\ Range(air'["recoded"]) \subseteq Range(air["recoded"])
  BY <1>4, <1>5 DEF AnswerHop
<1>9. dec_feedback_generation' <= IF opt.relay THEN rec_generation ELSE enc_generation
  BY <1>6, OrderFacts
<1>10. QED
  BY <1>1, <1>5, <1>6, <1>7, <1>8, <1>9 DEF OrderInv

LEMMA OrderRelayAnswers ==
  ASSUME TypeInv, OrderInv, RelayAnswers
  PROVE  OrderInv'
<1> DEFINE fb == RecFeedback
<1>1. RecGetFeedback /\ UNCHANGED <<opt, endVars>>
  BY DEF RelayAnswers
<1>2. fb \in Wire /\ fb.generation = rec_feedback_generation
  BY <1>1, RecFeedbackTyped DEF TypeInv, RecGetFeedback, RecFeedback, Wire
<1>3. AirMore("feedback", fb)
  BY <1>2, HopTypes, AirSends DEF RelayAnswers, TypeInv
<1>4. /\ Range(air'["feedback"]) \subseteq Range(air["feedback"]) \cup {fb}
      /\ \A hop \in {"coded", "recoded", "answers"} :
           Range(air'[hop]) \subseteq Range(air[hop])
  BY <1>3, HopTypes DEF AirMore
<1>5. air'["coded"] = air["coded"]
  BY HopTypes DEF RelayAnswers, Sends, TypeInv, AirTyped
<1>6. /\ UNCHANGED <<enc_generation, rec_generation, rec_read, dec_feedback_generation>>
      /\ rec_feedback_generation' = 0
  BY <1>1 DEF endVars, encVars, decVars, RecGetFeedback
<1>7. \A p \in Range(air'["feedback"]) : p.generation <= enc_generation'
  BY <1>2, <1>4, <1>6, OrderFacts DEF OrderInv
<1>8. rec_feedback_generation' <= rec_generation
  BY <1>6, OrderFacts
<1>9. QED
  BY <1>1, <1>4, <1>5, <1>6, <1>7, <1>8 DEF OrderInv

LEMMA OrderReceiveFeedback ==
  ASSUME TypeInv, OrderInv, NEW i \in Nat, ReceiveFeedback(i)
  PROVE  OrderInv'
<1>1. AirFewer /\ air["feedback"][i] \in GackFeedbacks
  BY HopTypes, AirTakes, ArrivesTyped DEF ReceiveFeedback, TypeInv
<1>2. opt.relay => Ascends(air'["coded"])
  <2>1. i \in DOMAIN air["feedback"]
    BY DEF ReceiveFeedback, Takes, Heads
  <2>2. QED
    BY <2>1, HopTypes, AscendsFewer DEF ReceiveFeedback, Takes, TypeInv, OrderInv
<1>3. EncStep /\ UNCHANGED <<opt, recVars, dec_feedback_generation>>
  BY <1>1 DEF ReceiveFeedback, EncStep, decVars
<1>4. QED
  BY <1>1, <1>2, <1>3, OrderQuiet

LEMMA OrderNext ==
  ASSUME HopsKeepOrder, TypeInv, OrderInv, [Next]_vars
  PROVE  OrderInv'
<1>1. ASSUME EncStep, UNCHANGED <<opt, recVars, air, dec_feedback_generation>>
      PROVE  OrderInv'
  <2>1. opt.relay => Ascends(air'["coded"])
    BY <1>1 DEF OrderInv
  <2>2. QED
    BY <1>1, <2>1, AirSame, OrderQuiet
<1>2. CASE PutSource /\ UNCHANGED <<opt, recVars, air>>
  BY <1>1, <1>2 DEF PutSource, EncStep, decVars
<1>3. CASE FlushCoded /\ UNCHANGED <<opt, recVars, air>>
  BY <1>1, <1>3 DEF FlushCoded, EncStep, decVars
<1>4. CASE GetSource /\ UNCHANGED <<opt, recVars, air>>
  BY <1>1, <1>4 DEF GetSource, EncStep, DecGetSource
<1>5. CASE FlushSource /\ UNCHANGED <<opt, recVars, air>>
  BY <1>1, <1>5 DEF FlushSource, EncStep, DecFlushSource
<1>6. CASE Lose
  <2>1. AirFewer
    BY <1>6, AirLoses DEF TypeInv
  <2>2. PICK hop \in AllHops :
          \E i \in Heads(hop) : air' = [air EXCEPT ![hop] = RemoveAt(@, i)]
    BY <1>6 DEF Lose, AllHops
  <2>3. PICK i \in DOMAIN air[hop] : air' = [air EXCEPT ![hop] = RemoveAt(@, i)]
    BY <2>2 DEF Heads
  <2>4. opt.relay => Ascends(air'["coded"])
    BY <2>3, AscendsFewer DEF TypeInv, OrderInv
  <2>5. EncStep /\ UNCHANGED <<opt, recVars, dec_feedback_generation>>
    BY <1>6 DEF Lose, endVars, decVars, EncStep
  <2>6. QED
    BY <2>1, <2>4, <2>5, OrderQuiet
<1>7. ASSUME NEW vec \in Vectors, SendCoded(vec) \/ RelaySends(vec) PROVE OrderInv'
  BY <1>7, OrderSendCoded, OrderRelaySends
<1>8. ASSUME NEW i \in Nat, ReceiveCoded(i) \/ RelayReceives(i) PROVE OrderInv'
  BY <1>8, OrderReceiveCoded, OrderRelayReceives
<1>9. CASE SendFeedback \/ RelayAnswers
  BY <1>9, OrderSendFeedback, OrderRelayAnswers
<1>10. ASSUME NEW i \in Nat, ReceiveFeedback(i) \/ RelayHears(i) PROVE OrderInv'
  BY <1>10, OrderReceiveFeedback, OrderRelayHears
<1>11. CASE UNCHANGED vars
  BY <1>1, <1>11 DEF vars, endVars, decVars, EncStep
<1>12. QED
  BY <1>2, <1>3, <1>4, <1>5, <1>6, <1>7, <1>8, <1>9, <1>10, <1>11, StepCases

LEMMA OrderInit == Init => OrderInv
<1> SUFFICES ASSUME Init PROVE OrderInv
  OBVIOUS
<1>1. \A hop \in {"coded", "recoded", "answers", "feedback"} : air[hop] = <<>>
  BY DEF Init, DataHops, FeedbackHops
<1>2. Ascends(<<>>) /\ Range(<<>>) = {}
  BY DEF Ascends, Range
<1>3. /\ enc_generation = 1 /\ rec_generation = 0 /\ rec_read = {}
      /\ dec_feedback_generation = 0 /\ rec_feedback_generation = 0
  BY DEF Init, EndsInit, EncInit, DecInit, RecInit
<1>4. QED
  BY <1>1, <1>2, <1>3 DEF OrderInv

(* Over hops that keep the order a recoder mixes no generations: the       *)
(* branch that nck_gack_rec_put_coded lacks is never needed (recoder.c:172)*)
THEOREM GackOneGeneration ==
  ASSUME HopsKeepOrder
  PROVE  Spec => []OneGeneration
<1>1. TypeInv /\ OrderInv /\ [Next]_vars => (TypeInv /\ OrderInv)'
  BY TypeNext, OrderNext
<1>2. OrderInv => OneGeneration
  BY DEF OrderInv, OneGeneration
<1>3. QED
  BY <1>1, <1>2, TypeInit, OrderInit, PTL DEF Spec

-----------------------------------------------------------------------------
(* Where data come from: what is put into a generation is what combinations*)
(* of it are made of, in flight, at the recoder and at the decoder.        *)
PutInto(generation, slots) == {k \in Indices : <<generation, k>> \in Range(slots)}

SentInv ==
  /\ \A k \in 1 .. enc_rank : <<enc_generation, k>> \in Range(sent)
  /\ \A s \in Range(sent) :
       s[1] < enc_generation \/ (s[1] = enc_generation /\ s[2] <= enc_rank)

AirOrigin ==
  \A hop \in DataHops : \A pkt \in Range(air[hop]) :
    pkt.vec \subseteq PutInto(pkt.generation, sent)

DecOrigin == dec_span \subseteq SUBSET PutInto(dec_generation, sent)

RecOrigin == rec_span \subseteq SUBSET PutInto(rec_generation, sent)

OriginInv == SentInv /\ AirOrigin /\ DecOrigin /\ RecOrigin

(* A span that reads a combination of symbols stays within them.           *)
LEMMA ReadWithin ==
  ASSUME NEW symbols, NEW span \in SUBSET (SUBSET symbols), NEW vec \in SUBSET symbols
  PROVE  ReadPayload(span, vec) \subseteq SUBSET symbols
  BY DEF ReadPayload, Plus

LEMMA EmptyWithin ==
  ASSUME NEW symbols
  PROVE  EmptySpan \subseteq SUBSET symbols
  BY DEF EmptySpan

(* What is put in stays put in.                                            *)
LEMMA PutSourceAppends ==
  ASSUME TypeInv, PutSource
  PROVE  /\ Range(sent) \subseteq Range(sent')
         /\ Range(sent') \subseteq Range(sent) \cup {EncSlot}
         /\ EncSlot \in Range(sent')
<1>1. sent \in Seq(SlotSet) /\ sent' = Append(sent, EncSlot)
  BY DEF TypeInv, AppTyped, PutSource
<1>2. /\ DOMAIN sent' = 1 .. Len(sent) + 1 /\ DOMAIN sent = 1 .. Len(sent)
      /\ Len(sent) \in Nat
      /\ \A i \in 1 .. Len(sent) : sent'[i] = sent[i]
      /\ sent'[Len(sent) + 1] = EncSlot
  BY <1>1
<1>3. /\ DOMAIN sent \subseteq DOMAIN sent'
      /\ \A i \in DOMAIN sent' : i \in DOMAIN sent \/ i = Len(sent) + 1
      /\ Len(sent) + 1 \in DOMAIN sent'
      /\ \A i \in DOMAIN sent : sent'[i] = sent[i]
  BY <1>2
<1>4. QED
  BY <1>2, <1>3, Zenon DEF Range

LEMMA SentGrows ==
  ASSUME TypeInv, [Next]_vars
  PROVE  Range(sent) \subseteq Range(sent')
<1>1. PutSource \/ sent' = sent
  BY StepCases
  DEF FlushCoded, GetSource, FlushSource, Lose, SendCoded, TakeCoded, RelaySends,
      ReceiveCoded, RelayReceives, SendFeedback, RelayAnswers, ReceiveFeedback,
      RelayHears, vars, endVars, appVars
<1>2. QED
  BY <1>1, PutSourceAppends

LEMMA PutIntoGrows ==
  ASSUME NEW slots, NEW more, Range(slots) \subseteq Range(more), NEW generation
  PROVE  PutInto(generation, slots) \subseteq PutInto(generation, more)
  BY DEF PutInto

(* The encoder: put_source continues the generation or starts the next.    *)
LEMMA SentPut ==
  ASSUME TypeInv, SentInv, PutSource
  PROVE  SentInv'
<1>1. /\ Range(sent) \subseteq Range(sent')
      /\ Range(sent') \subseteq Range(sent) \cup {EncSlot}
      /\ EncSlot \in Range(sent')
  BY PutSourceAppends
<1>2. /\ enc_generation \in Nat /\ enc_rank \in Nat
      /\ \A s \in Range(sent) : s[1] \in Nat /\ s[2] \in Nat
  BY SymbolsAssumption
  DEF TypeInv, EncTyped, EncTypeOK, AppTyped, Range, SlotSet, Generations, Indices
<1>3. /\ enc_generation' = EncSlot[1] /\ enc_rank' = EncSlot[2]
      /\ EncSlot = <<EncSlot[1], EncSlot[2]>>
  BY DEF PutSource, EncPutSource, EncSlot
<1>4. CASE enc_complete
  <2>1. EncSlot[1] = enc_generation + 1 /\ EncSlot[2] = 1
    BY <1>4 DEF EncSlot
  <2>2. QED
    BY <1>1, <1>2, <1>3, <2>1 DEF SentInv
<1>5. CASE ~enc_complete
  <2>1. EncSlot[1] = enc_generation /\ EncSlot[2] = enc_rank + 1
    BY <1>5 DEF EncSlot
  <2>2. \A k \in 1 .. enc_rank' : k \in 1 .. enc_rank \/ k = EncSlot[2]
    BY <1>2, <1>3, <2>1
  <2>3. \A k \in 1 .. enc_rank' : <<enc_generation', k>> \in Range(sent')
    BY <1>1, <1>3, <2>1, <2>2 DEF SentInv
  <2>4. QED
    BY <1>1, <1>2, <1>3, <2>1, <2>3 DEF SentInv
<1>6. QED
  BY <1>4, <1>5

LEMMA SentNext ==
  ASSUME TypeInv, SentInv, [Next]_vars
  PROVE  SentInv'
<1>1. PutSource \/ UNCHANGED <<sent, enc_generation, enc_rank>>
  BY StepCases
  DEF FlushCoded, GetSource, FlushSource, Lose, SendCoded, TakeCoded, RelaySends,
      ReceiveCoded, RelayReceives, SendFeedback, RelayAnswers, ReceiveFeedback,
      RelayHears, vars, endVars, appVars, encVars, EncFlushCoded, EncGetCoded,
      EncPutFeedback
<1>2. QED
  BY <1>1, SentPut DEF SentInv

(* What an encoder sends it has been given.                                *)
LEMMA EncPacketOrigin ==
  ASSUME TypeInv, SentInv, NEW vec \in Vectors, EncGetCoded(vec)
  PROVE  vec \subseteq PutInto(enc_generation, sent)
<1>1. enc_rank \in 0 .. Symbols /\ enc_sent \in 0 .. Symbols
  BY DEF TypeInv, EncTyped, EncTypeOK
<1>2. vec \subseteq 1 .. enc_rank
  BY <1>1, SymbolsAssumption DEF EncGetCoded, Payloads
<1>3. 1 .. enc_rank \subseteq Indices
  BY <1>1, SymbolsAssumption DEF Indices
<1>4. QED
  BY <1>2, <1>3 DEF SentInv, PutInto

(* The decoder reads only packets of the generation it is at.              *)
LEMMA DecReadOrigin ==
  ASSUME TypeInv, DecOrigin, NEW pkt \in GackPackets, DecPutCoded(pkt),
         pkt.vec \subseteq PutInto(pkt.generation, sent), sent' = sent
  PROVE  DecOrigin'
<1> DEFINE span == IF DecComplete THEN EmptySpan ELSE dec_span
<1>1. /\ pkt.generation \in Nat /\ dec_generation \in Nat
      /\ dec_generation = 0 => dec_span = EmptySpan
  BY DEF GackPackets, Generations, TypeInv, DecTyped, DecTypeOK
<1>2. span \subseteq SUBSET PutInto(DecAt(pkt), sent)
  BY EmptyWithin DEF DecOrigin, DecAt
<1>3. DecAt(pkt) = 0 => span = EmptySpan
  BY <1>1 DEF DecAt
<1>4. CASE DecAt(pkt) \in {0, pkt.generation} /\ dec_generation' = pkt.generation
           /\ dec_span' = ReadPayload(span, pkt.vec)
  <2>1. span \subseteq SUBSET PutInto(pkt.generation, sent)
    BY <1>2, <1>3, <1>4, EmptyWithin
  <2>2. QED
    BY <1>4, <2>1, ReadWithin DEF DecOrigin
<1>5. CASE dec_generation' = DecAt(pkt) /\ dec_span' = span
  BY <1>2, <1>5 DEF DecOrigin
<1>6. QED
  BY <1>4, <1>5 DEF DecPutCoded

(* So does a recoder that is at the packet's generation after reading it.  *)
LEMMA RecReadOrigin ==
  ASSUME HopsKeepOrder, TypeInv, OrderInv, AirOrigin, RecOrigin,
         NEW i \in Nat, RelayReceives(i)
  PROVE  RecOrigin'
<1> DEFINE pkt == air["coded"][i]
           span == IF RecLeaves(pkt.generation) THEN EmptySpan ELSE rec_span
<1>1. /\ pkt \in Range(air["coded"]) /\ rec_generation' = pkt.generation
      /\ RecLeaves(pkt.generation) \/ rec_generation = 0 \/ rec_generation = pkt.generation
  BY RelayAtPacket
<1>2. pkt.vec \in SUBSET PutInto(pkt.generation, sent)
  BY <1>1, HopTypes DEF AirOrigin
<1>3. rec_span' = ReadPayload(span, pkt.vec) /\ sent' = sent
  BY DEF RelayReceives, RecPutCoded, endVars, appVars
<1>4. rec_generation = 0 => rec_span = EmptySpan
  BY DEF TypeInv, RecTyped
<1>5. span \subseteq SUBSET PutInto(pkt.generation, sent)
  BY <1>1, <1>4, EmptyWithin DEF RecOrigin
<1> HIDE DEF span
<1>6. rec_span' \subseteq SUBSET PutInto(pkt.generation, sent)
  BY <1>2, <1>3, <1>5, ReadWithin
<1>7. QED
  BY <1>1, <1>3, <1>6 DEF RecOrigin

(* Feedback takes nothing in, unless it is ahead of the recoder.           *)
LEMMA RecHearsOrigin ==
  ASSUME TypeInv, OrderInv, RecOrigin, NEW i \in Nat, RelayHears(i)
  PROVE  rec_span' = rec_span /\ rec_generation' = rec_generation /\ sent' = sent
<1>1. /\ air["answers"][i].generation <= rec_generation
      /\ air["answers"][i].generation \in Nat /\ rec_generation \in Nat
  BY RelayHearsBehind
<1>2. RecPutFeedback(air["answers"][i]) /\ sent' = sent
  BY DEF RelayHears, appVars
<1>3. QED
  BY <1>1, <1>2 DEF RecPutFeedback, recVars

(* Packets that stay, and those that are sent, keep their origin.          *)
AirGains ==
  \/ AirFewer
  \/ \E hop \in AllHops, pkt \in Wire :
       /\ AirMore(hop, pkt)
       /\ hop \in DataHops => pkt.vec \subseteq PutInto(pkt.generation, sent)

LEMMA AirOriginKept ==
  ASSUME TypeInv, AirOrigin, Range(sent) \subseteq Range(sent'), AirGains
  PROVE  AirOrigin'
<1>1. \A hop \in DataHops : \A pkt \in Range(air'[hop]) :
        pkt.vec \subseteq PutInto(pkt.generation, sent)
  <2>1. CASE AirFewer
    BY <2>1, HopTypes DEF AirFewer, AirOrigin
  <2>2. ASSUME NEW hop \in AllHops, NEW pkt \in Wire, AirMore(hop, pkt),
               hop \in DataHops => pkt.vec \subseteq PutInto(pkt.generation, sent)
        PROVE  \A h \in DataHops : \A p \in Range(air'[h]) :
                 p.vec \subseteq PutInto(p.generation, sent)
    BY <2>2, HopTypes DEF AirMore, AirOrigin
  <2>3. QED
    BY <2>1, <2>2 DEF AirGains
<1>2. \A generation : PutInto(generation, sent) \subseteq PutInto(generation, sent')
  BY PutIntoGrows
<1>3. QED
  BY <1>1, <1>2 DEF AirOrigin

LEMMA AirOriginNext ==
  ASSUME TypeInv, OriginInv, [Next]_vars
  PROVE  AirOrigin'
<1>1. AirGains
  <2>1. UNCHANGED air => AirFewer
    BY AirSame
  <2>2. Lose => AirFewer
    BY AirLoses DEF TypeInv
  <2>3. ASSUME NEW hop \in AllHops, NEW i \in Nat, Takes(hop, i) PROVE AirFewer
    BY <2>3, AirTakes DEF TypeInv
  <2>4. ASSUME NEW vec \in Vectors, SendCoded(vec) PROVE AirGains
    <3>1. EncGetCoded(vec)
      BY <2>4 DEF SendCoded, TakeCoded
    <3>2. /\ EncPacket(vec) \in Wire
          /\ EncPacket(vec).vec \subseteq PutInto(EncPacket(vec).generation, sent)
      BY <3>1, EncPacketTyped, EncPacketOrigin DEF TypeInv, OriginInv, Wire, EncPacket
    <3>3. AirMore("coded", EncPacket(vec))
      BY <2>4, <3>2, HopTypes, AirSends DEF SendCoded, TypeInv
    <3>4. QED
      BY <3>2, <3>3, HopTypes DEF AirGains
  <2>5. ASSUME NEW vec \in Vectors, RelaySends(vec) PROVE AirGains
    <3>1. RecGetCoded(vec)
      BY <2>5 DEF RelaySends
    <3>2. RecPacket(vec) \in Wire
      BY <3>1, RecPacketTyped DEF TypeInv, Wire
    <3>3. RecPacket(vec).vec \subseteq PutInto(RecPacket(vec).generation, sent)
      BY <3>1 DEF RecGetCoded, RecPacket, OriginInv, RecOrigin
    <3>4. AirMore("recoded", RecPacket(vec))
      BY <2>5, <3>2, HopTypes, AirSends DEF RelaySends, TypeInv
    <3>5. QED
      BY <3>2, <3>3, <3>4, HopTypes DEF AirGains
  <2>6. CASE SendFeedback
    <3>1. DecFeedback \in Wire
      BY <2>6, DecFeedbackTyped DEF SendFeedback, DecGetFeedback, TypeInv, Wire
    <3>2. AirMore(AnswerHop, DecFeedback)
      BY <2>6, <3>1, HopTypes, AirSends DEF SendFeedback, TypeInv
    <3>3. QED
      BY <3>1, <3>2, HopTypes DEF AirGains
  <2>7. CASE RelayAnswers
    <3>1. RecFeedback \in Wire
      BY <2>7, RecFeedbackTyped DEF RelayAnswers, RecGetFeedback, TypeInv, Wire
    <3>2. AirMore("feedback", RecFeedback)
      BY <2>7, <3>1, HopTypes, AirSends DEF RelayAnswers, TypeInv
    <3>3. QED
      BY <3>1, <3>2, HopTypes DEF AirGains
  <2>8. ASSUME NEW i \in Nat,
               ReceiveCoded(i) \/ RelayReceives(i) \/ ReceiveFeedback(i) \/ RelayHears(i)
        PROVE  AirFewer
    BY <2>3, <2>8, HopTypes DEF ReceiveCoded, RelayReceives, ReceiveFeedback, RelayHears
  <2>9. QED
    <3>1. \/ AirFewer \/ UNCHANGED air \/ SendFeedback \/ RelayAnswers
          \/ \E vec \in Vectors : SendCoded(vec) \/ RelaySends(vec)
      BY <2>2, <2>8, StepCases DEF vars
    <3>2. QED
      BY <2>1, <2>4, <2>5, <2>6, <2>7, <3>1 DEF AirGains
<1>2. Range(sent) \subseteq Range(sent')
  BY SentGrows
<1>3. QED
  BY <1>1, <1>2, AirOriginKept DEF OriginInv

LEMMA DecOriginNext ==
  ASSUME TypeInv, OriginInv, [Next]_vars
  PROVE  DecOrigin'
<1>1. Range(sent) \subseteq Range(sent')
  BY SentGrows
<1>2. CASE dec_span' = dec_span /\ dec_generation' = dec_generation
  <2>1. PutInto(dec_generation, sent) \subseteq PutInto(dec_generation, sent')
    BY <1>1, PutIntoGrows
  <2>2. QED
    BY <1>2, <2>1 DEF OriginInv, DecOrigin
<1>3. ASSUME NEW i \in Nat, ReceiveCoded(i) PROVE DecOrigin'
  <2>1. /\ air[DataHop][i] \in Range(air[DataHop])
        /\ air[DataHop][i] \in GackPackets
    BY <1>3, HopTypes, AirTakes, ArrivesTyped DEF ReceiveCoded, TypeInv
  <2>2. air[DataHop][i].vec \subseteq PutInto(air[DataHop][i].generation, sent)
    BY <2>1, HopTypes DEF OriginInv, AirOrigin
  <2>3. QED
    BY <1>3, <2>1, <2>2, DecReadOrigin DEF ReceiveCoded, OriginInv, appVars
<1>4. \/ dec_span' = dec_span /\ dec_generation' = dec_generation
      \/ \E i \in Nat : ReceiveCoded(i)
  BY StepCases
  DEF PutSource, FlushCoded, GetSource, FlushSource, Lose, SendCoded, TakeCoded,
      RelaySends, RelayReceives, SendFeedback, RelayAnswers, ReceiveFeedback,
      RelayHears, vars, endVars, decVars, DecGetSource, DecFlushSource, DecGetFeedback
<1>5. QED
  BY <1>2, <1>3, <1>4

LEMMA RecOriginNext ==
  ASSUME HopsKeepOrder, TypeInv, OrderInv, OriginInv, [Next]_vars
  PROVE  RecOrigin'
<1>1. Range(sent) \subseteq Range(sent')
  BY SentGrows
<1>2. CASE rec_span' = rec_span /\ rec_generation' = rec_generation
  <2>1. PutInto(rec_generation, sent) \subseteq PutInto(rec_generation, sent')
    BY <1>1, PutIntoGrows
  <2>2. QED
    BY <1>2, <2>1 DEF OriginInv, RecOrigin
<1>3. ASSUME NEW i \in Nat, RelayReceives(i) PROVE RecOrigin'
  BY <1>3, RecReadOrigin DEF OriginInv
<1>4. ASSUME NEW i \in Nat, RelayHears(i) PROVE RecOrigin'
  BY <1>2, <1>4, RecHearsOrigin DEF OriginInv
<1>5. \/ rec_span' = rec_span /\ rec_generation' = rec_generation
      \/ \E i \in Nat : RelayReceives(i) \/ RelayHears(i)
  BY StepCases
  DEF Lose, SendCoded, TakeCoded, RelaySends, ReceiveCoded, SendFeedback, RelayAnswers,
      ReceiveFeedback, vars, recVars, RecGetCoded, RecGetFeedback
<1>6. QED
  BY <1>2, <1>3, <1>4, <1>5

LEMMA OriginNext ==
  ASSUME HopsKeepOrder, TypeInv, OrderInv, OriginInv, [Next]_vars
  PROVE  OriginInv'
<1>1. SentInv'
  BY SentNext DEF OriginInv
<1>2. QED
  BY <1>1, AirOriginNext, DecOriginNext, RecOriginNext DEF OriginInv

LEMMA OriginInit == Init => OriginInv
<1> SUFFICES ASSUME Init PROVE OriginInv
  OBVIOUS
<1>1. /\ sent = <<>> /\ enc_rank = 0 /\ dec_span = EmptySpan /\ rec_span = EmptySpan
      /\ \A hop \in DataHops : air[hop] = <<>>
  BY DEF Init, EndsInit, EncInit, DecInit, RecInit
<1>2. Range(<<>>) = {}
  BY DEF Range
<1>3. QED
  BY <1>1, <1>2, EmptyWithin
  DEF OriginInv, SentInv, AirOrigin, DecOrigin, RecOrigin

-----------------------------------------------------------------------------
(* What was delivered lies before the next symbol the decoder hands out.   *)
DeliveredInv ==
  /\ \A i, j \in DOMAIN delivered : i < j => Before(delivered[i], delivered[j])
  /\ \A i \in DOMAIN delivered :
       delivered[i] \in Range(sent) /\ Before(delivered[i], <<dec_generation, dec_index + 1>>)

(* The decoder never goes back behind that symbol.                         *)
LEMMA DecForward ==
  ASSUME TypeInv, DecStep, NEW s \in SlotSet, Before(s, <<dec_generation, dec_index + 1>>)
  PROVE  Before(s, <<dec_generation', dec_index' + 1>>)
<1>1. /\ s[1] \in Nat /\ s[1] >= 1 /\ s[2] \in 1 .. Symbols /\ Symbols \in Nat
      /\ dec_generation \in Nat /\ dec_index \in 0 .. Symbols
  BY SymbolsAssumption DEF SlotSet, Generations, Indices, TypeInv, DecTyped, DecTypeOK
<1>2. CASE dec_generation' = dec_generation /\ dec_index' \in dec_index .. Symbols
  BY <1>1, <1>2 DEF Before
<1>3. ASSUME NEW pkt \in GackPackets, DecPutCoded(pkt)
      PROVE  Before(s, <<dec_generation', dec_index' + 1>>)
  <2>1. pkt.generation \in Nat /\ pkt.generation >= 1
    BY DEF GackPackets, Generations
  <2>2. CASE DecComplete
    <3>1. dec_generation' = dec_generation + 1 /\ dec_index' = 0
      BY <1>1, <1>3, <2>1, <2>2 DEF DecPutCoded, DecAt
    <3>2. s[1] <= dec_generation
      BY <1>1 DEF Before
    <3>3. QED
      BY <1>1, <3>1, <3>2 DEF Before
  <2>3. CASE ~DecComplete
    <3>1. dec_index' = dec_index /\ (dec_generation' = dec_generation \/ dec_generation = 0)
      BY <1>1, <1>3, <2>1, <2>3 DEF DecPutCoded, DecAt
    <3>2. dec_generation # 0
      BY <1>1 DEF Before
    <3>3. QED
      BY <1>1, <3>1, <3>2 DEF Before
  <2>4. QED
    BY <2>2, <2>3
<1>4. CASE DecGetSource
  <2>1. dec_index + 1 \in 0 .. Symbols
    BY <1>1, <1>4 DEF DecGetSource, DecHasSource
  <2>2. DecAfter \in dec_index + 1 .. Symbols
    BY <1>1, <2>1, SkipRange DEF DecAfter
  <2>3. QED
    BY <1>1, <1>2, <1>4, <2>2 DEF DecGetSource
<1>5. CASE DecFlushSource
  BY <1>1, <1>2, <1>5, SkipRange DEF DecFlushSource
<1>6. CASE DecGetFeedback \/ UNCHANGED decVars
  BY <1>1, <1>2, <1>6 DEF DecGetFeedback, decVars
<1>7. QED
  BY <1>3, <1>4, <1>5, <1>6 DEF DecStep

(* A symbol that is handed out was put in, for it is decoded.              *)
LEMMA DecSourceOrigin ==
  ASSUME TypeInv, OriginInv, DecHasSource
  PROVE  DecSource \in Range(sent)
<1>1. {dec_index + 1} \in SUBSET PutInto(dec_generation, sent)
  BY DEF DecHasSource, IsSymbolUncoded, OriginInv, DecOrigin
<1>2. QED
  BY <1>1 DEF PutInto, DecSource

LEMMA DeliveredGet ==
  ASSUME TypeInv, OriginInv, DeliveredInv, GetSource
  PROVE  DeliveredInv'
<1> DEFINE n == Len(delivered)
<1>1. delivered \in Seq(SlotSet) /\ DecSource \in SlotSet
  BY DecSourceTyped DEF TypeInv, AppTyped, GetSource, DecGetSource
<1>2. /\ n \in Nat /\ DOMAIN delivered = 1 .. n /\ DOMAIN delivered' = 1 .. n + 1
      /\ \A i \in 1 .. n : delivered'[i] = delivered[i]
      /\ delivered'[n + 1] = DecSource
  BY <1>1 DEF GetSource
<1>3. /\ dec_generation \in Nat /\ dec_index \in 0 .. Symbols /\ Symbols \in Nat
  BY SymbolsAssumption DEF TypeInv, DecTyped, DecTypeOK
<1>4. DecHasSource /\ sent' = sent /\ dec_generation' = dec_generation
      /\ dec_index' = DecAfter
  BY DEF GetSource, DecGetSource
<1>5. DecSource = <<dec_generation, dec_index + 1>> /\ DecSource \in Range(sent)
  BY <1>4, DecSourceOrigin DEF DecSource
<1>6. DecAfter \in dec_index + 1 .. Symbols
  <2>1. dec_index + 1 \in 0 .. Symbols
    BY <1>3, <1>4 DEF DecHasSource
  <2>2. QED
    BY <1>3, <2>1, SkipRange DEF DecAfter
<1>7. Before(DecSource, <<dec_generation', dec_index' + 1>>)
  BY <1>3, <1>4, <1>5, <1>6 DEF Before
<1>8. \A i \in 1 .. n : /\ delivered[i] \in Range(sent)
                        /\ Before(delivered[i], DecSource)
                        /\ Before(delivered[i], <<dec_generation', dec_index' + 1>>)
  <2>1. SUFFICES ASSUME NEW i \in 1 .. n
        PROVE /\ delivered[i] \in Range(sent) /\ Before(delivered[i], DecSource)
              /\ Before(delivered[i], <<dec_generation', dec_index' + 1>>)
    OBVIOUS
  <2>2. delivered[i] \in SlotSet
    BY <1>1
  <2>3. DecStep
    BY DEF GetSource, DecStep
  <2>4. QED
    BY <1>2, <1>5, <2>2, <2>3, DecForward DEF DeliveredInv
<1>9. \A i \in DOMAIN delivered' : i \in 1 .. n \/ i = n + 1
  BY <1>2
<1>10. ASSUME NEW i \in DOMAIN delivered', NEW j \in DOMAIN delivered', i < j
       PROVE  Before(delivered'[i], delivered'[j])
  <2>1. i \in 1 .. n
    BY <1>2, <1>10
  <2>2. QED
    BY <1>2, <1>8, <1>9, <1>10, <2>1 DEF DeliveredInv
<1>11. ASSUME NEW i \in DOMAIN delivered'
       PROVE  /\ delivered'[i] \in Range(sent')
              /\ Before(delivered'[i], <<dec_generation', dec_index' + 1>>)
  BY <1>2, <1>4, <1>5, <1>7, <1>8, <1>9
<1>12. QED
  BY <1>10, <1>11 DEF DeliveredInv

LEMMA DeliveredNext ==
  ASSUME TypeInv, OriginInv, DeliveredInv, [Next]_vars
  PROVE  DeliveredInv'
<1>1. CASE GetSource
  BY <1>1, DeliveredGet
<1>2. CASE delivered' = delivered /\ DecStep
  <2>1. Range(sent) \subseteq Range(sent')
    BY SentGrows
  <2>2. \A i \in DOMAIN delivered : delivered[i] \in SlotSet
    BY DEF TypeInv, AppTyped
  <2>3. \A i \in DOMAIN delivered : Before(delivered[i], <<dec_generation', dec_index' + 1>>)
    BY <1>2, <2>2, DecForward DEF DeliveredInv
  <2>4. QED
    BY <1>2, <2>1, <2>3 DEF DeliveredInv
<1>3. ASSUME NEW i \in Nat, ReceiveCoded(i) PROVE delivered' = delivered /\ DecStep
  <2>1. air[DataHop][i] \in GackPackets
    BY <1>3, HopTypes, ArrivesTyped DEF ReceiveCoded, TypeInv
  <2>2. QED
    BY <1>3, <2>1 DEF ReceiveCoded, DecStep, appVars
<1>4. GetSource \/ (delivered' = delivered /\ DecStep)
  BY <1>3, StepCases
  DEF PutSource, FlushCoded, FlushSource, Lose, SendCoded, TakeCoded, RelaySends,
      RelayReceives, SendFeedback, RelayAnswers, ReceiveFeedback, RelayHears, vars,
      endVars, appVars, DecStep
<1>5. QED
  BY <1>1, <1>2, <1>4

(* Whatever the applications and the network do, what comes out went in,   *)
(* and nothing comes twice or out of order (src/gack/decoder.c).           *)
THEOREM GackNoneTwice ==
  ASSUME HopsKeepOrder
  PROVE  Spec => []NoneTwice
<1>1. Init => DeliveredInv
  BY DEF Init, EndsInit, DeliveredInv
<1>2. TypeInv /\ OrderInv /\ OriginInv /\ DeliveredInv /\ [Next]_vars
        => (TypeInv /\ OrderInv /\ OriginInv /\ DeliveredInv)'
  BY TypeNext, OrderNext, OriginNext, DeliveredNext
<1>3. DeliveredInv => NoneTwice
  BY DEF DeliveredInv, NoneTwice, Range
<1>4. QED
  BY <1>1, <1>2, <1>3, TypeInit, OrderInit, OriginInit, PTL DEF Spec

-----------------------------------------------------------------------------
(* What a report says: a rank of a generation was decoded.                 *)
Decoded(at, span, generation, rank) ==
  at > generation \/ (at = generation /\ Rank(span) >= rank)

(* An orderly encoder sends a generation only when it takes no more.       *)
Filled == enc_rank = Symbols \/ AtEnd

(* Has anybody but the encoder a trace of the generation?                  *)
Abroad(generation) ==
  \/ generation \in {rec_generation, rec_feedback_generation, dec_feedback_generation}
  \/ \E hop \in AllHops : \E pkt \in Range(air[hop]) : pkt.generation = generation

FilledInv ==
  opt.orderly /\ (enc_full \/ enc_complete \/ Abroad(enc_generation)) => Filled

(* Then whatever is reported, on the way or remembered, is decoded, and so *)
(* is the generation before the encoder's.                                 *)
ReportsInv ==
  /\ \A hop \in FeedbackHops : \A fb \in Range(air[hop]) :
       Decoded(dec_generation, dec_span, fb.generation, fb.rank)
  /\ dec_feedback_generation # 0 =>
       Decoded(dec_generation, dec_span, dec_feedback_generation, dec_feedback_rank)
  /\ rec_feedback_generation # 0 =>
       Decoded(dec_generation, dec_span, rec_feedback_generation, rec_feedback_rank)
  /\ ~rec_has_coded /\ rec_sender_rank # 0 =>
       Decoded(dec_generation, dec_span, rec_generation, rec_sender_rank)

EncoderInv ==
  /\ enc_complete => Decoded(dec_generation, dec_span, enc_generation, enc_rank)
  /\ enc_generation > 1 => Decoded(dec_generation, dec_span, enc_generation - 1, Symbols)

AckInv ==
  /\ Linear(dec_span)
  /\ FilledInv
  /\ opt.orderly => ReportsInv /\ EncoderInv

-----------------------------------------------------------------------------
(* A step may bring one packet into the channels, and who sends it had it. *)
LEMMA AirCases ==
  ASSUME TypeInv, [Next]_vars
  PROVE  \/ AirFewer
         \/ \E vec \in Vectors : /\ SendCoded(vec) /\ EncPacket(vec) \in GackPackets
                                 /\ AirMore("coded", EncPacket(vec))
         \/ \E vec \in Vectors : /\ RelaySends(vec) /\ RecPacket(vec) \in GackPackets
                                 /\ AirMore("recoded", RecPacket(vec))
         \/ /\ SendFeedback /\ DecHasFeedback /\ DecFeedback \in GackFeedbacks
            /\ AirMore(AnswerHop, DecFeedback)
         \/ /\ RelayAnswers /\ RecHasFeedback /\ RecFeedback \in GackFeedbacks
            /\ AirMore("feedback", RecFeedback)
<1>1. UNCHANGED air => AirFewer
  BY AirSame
<1>2. Lose => AirFewer
  BY AirLoses DEF TypeInv
<1>3. ASSUME NEW i \in Nat,
             ReceiveCoded(i) \/ RelayReceives(i) \/ ReceiveFeedback(i) \/ RelayHears(i)
      PROVE  AirFewer
  BY <1>3, HopTypes, AirTakes
  DEF TypeInv, ReceiveCoded, RelayReceives, ReceiveFeedback, RelayHears
<1>4. ASSUME NEW vec \in Vectors, SendCoded(vec)
      PROVE  EncPacket(vec) \in GackPackets /\ AirMore("coded", EncPacket(vec))
  <2>1. EncPacket(vec) \in GackPackets
    BY <1>4, EncPacketTyped DEF SendCoded, TakeCoded, TypeInv
  <2>2. QED
    BY <1>4, <2>1, HopTypes, AirSends DEF SendCoded, TypeInv, Wire
<1>5. ASSUME NEW vec \in Vectors, RelaySends(vec)
      PROVE  RecPacket(vec) \in GackPackets /\ AirMore("recoded", RecPacket(vec))
  <2>1. RecPacket(vec) \in GackPackets
    BY <1>5, RecPacketTyped DEF RelaySends, TypeInv
  <2>2. QED
    BY <1>5, <2>1, HopTypes, AirSends DEF RelaySends, TypeInv, Wire
<1>6. ASSUME SendFeedback
      PROVE  /\ DecHasFeedback /\ DecFeedback \in GackFeedbacks
             /\ AirMore(AnswerHop, DecFeedback)
  <2>1. DecHasFeedback /\ DecFeedback \in GackFeedbacks
    BY <1>6, DecFeedbackTyped DEF SendFeedback, DecGetFeedback, TypeInv
  <2>2. QED
    BY <1>6, <2>1, HopTypes, AirSends DEF SendFeedback, TypeInv, Wire
<1>7. ASSUME RelayAnswers
      PROVE  /\ RecHasFeedback /\ RecFeedback \in GackFeedbacks
             /\ AirMore("feedback", RecFeedback)
  <2>1. RecHasFeedback /\ RecFeedback \in GackFeedbacks
    BY <1>7, RecFeedbackTyped DEF RelayAnswers, RecGetFeedback, TypeInv
  <2>2. QED
    BY <1>7, <2>1, HopTypes, AirSends DEF RelayAnswers, TypeInv, Wire
<1>8. \/ AirFewer \/ UNCHANGED air \/ SendFeedback \/ RelayAnswers
      \/ \E vec \in Vectors : SendCoded(vec) \/ RelaySends(vec)
  BY <1>2, <1>3, StepCases DEF vars
<1>9. QED
  BY <1>1, <1>4, <1>5, <1>6, <1>7, <1>8

(* Whatever the step, the decoder does one of its calls, or nothing.       *)
LEMMA LinkDecStep ==
  ASSUME TypeInv, [Next]_vars
  PROVE  DecStep
<1>1. ASSUME NEW i \in Nat, ReceiveCoded(i) PROVE DecStep
  <2>1. air[DataHop][i] \in GackPackets
    BY <1>1, HopTypes, ArrivesTyped DEF ReceiveCoded, TypeInv
  <2>2. QED
    BY <1>1, <2>1 DEF ReceiveCoded, DecStep
<1>2. QED
  BY <1>1, StepCases
  DEF PutSource, FlushCoded, GetSource, FlushSource, Lose, SendCoded, TakeCoded,
      RelaySends, RelayReceives, SendFeedback, RelayAnswers, ReceiveFeedback,
      RelayHears, vars, endVars, DecStep

(* What was decoded stays decoded.                                         *)
LEMMA DecodedStays ==
  ASSUME TypeInv, [Next]_vars, NEW generation \in Nat, generation >= 1, NEW rank \in Nat,
         Decoded(dec_generation, dec_span, generation, rank)
  PROVE  Decoded(dec_generation', dec_span', generation, rank)
<1>1. DecStep /\ TypeInv'
  BY LinkDecStep, TypeNext
<1>2. /\ dec_generation \in Nat /\ dec_generation' \in Nat
      /\ dec_span \in SUBSET Vectors /\ dec_span' \in SUBSET Vectors
  BY <1>1 DEF TypeInv, DecTyped, DecTypeOK
<1>3. Rank(dec_span) \in Nat /\ Rank(dec_span') \in Nat
  BY <1>2, RankType
<1>4. ASSUME NEW pkt \in GackPackets, DecPutCoded(pkt)
      PROVE  Decoded(dec_generation', dec_span', generation, rank)
  <2>1. pkt.generation \in Nat /\ pkt.generation # 0 /\ pkt.vec \in Vectors
    BY DEF GackPackets, Generations
  <2>2. CASE DecComplete
    <3>1. dec_generation' = dec_generation + 1
      BY <1>2, <1>4, <2>1, <2>2 DEF DecPutCoded, DecAt
    <3>2. QED
      BY <1>2, <3>1 DEF Decoded
  <2>3. CASE ~DecComplete
    <3>1. dec_generation # 0
      BY <1>2 DEF Decoded
    <3>2. dec_generation' = dec_generation
      BY <1>2, <1>4, <2>1, <2>3, <3>1 DEF DecPutCoded, DecAt
    <3>3. dec_span' = dec_span \/ dec_span' = ReadPayload(dec_span, pkt.vec)
      BY <1>4, <2>3 DEF DecPutCoded
    <3>4. Rank(dec_span) <= Rank(dec_span')
      BY <1>2, <1>3, <2>1, <3>3, RankMonotone
    <3>5. QED
      BY <1>3, <3>2, <3>4 DEF Decoded
  <2>4. QED
    BY <2>2, <2>3
<1>5. CASE dec_generation' = dec_generation /\ dec_span' = dec_span
  BY <1>5 DEF Decoded
<1>6. QED
  BY <1>1, <1>4, <1>5
  DEF DecStep, DecGetSource, DecFlushSource, DecGetFeedback, decVars

LEMMA LinearNext ==
  ASSUME TypeInv, Linear(dec_span), [Next]_vars
  PROVE  Linear(dec_span')
<1>1. Linear(EmptySpan)
  BY DEF Linear, EmptySpan, Plus
<1>2. \/ dec_span' = dec_span
      \/ \E pkt \in GackPackets : \E span \in {dec_span, EmptySpan} :
           dec_span' \in {span, ReadPayload(span, pkt.vec)}
  BY LinkDecStep
  DEF DecStep, DecPutCoded, DecGetSource, DecFlushSource, DecGetFeedback, decVars
<1>3. QED
  BY <1>1, <1>2, ReadPayloadLinear

-----------------------------------------------------------------------------
LEMMA FilledStays ==
  ASSUME TypeInv, [Next]_vars, Filled, ~PutSource
  PROVE  Filled'
<1>1. UNCHANGED <<opt, sent, enc_rank>>
  BY StepCases
  DEF FlushCoded, GetSource, FlushSource, Lose, SendCoded, TakeCoded, RelaySends,
      ReceiveCoded, RelayReceives, SendFeedback, RelayAnswers, ReceiveFeedback,
      RelayHears, vars, endVars, appVars, encVars, EncFlushCoded, EncGetCoded,
      EncPutFeedback
<1>2. QED
  BY <1>1 DEF Filled, AtEnd

(* Only the encoder brings a generation out.                               *)
LEMMA AbroadKept ==
  ASSUME HopsKeepOrder, TypeInv, OrderInv, [Next]_vars,
         NEW generation \in Generations, Abroad(generation)'
  PROVE  \/ Abroad(generation)
         \/ \E vec \in Vectors : SendCoded(vec)
<1> SUFFICES ASSUME ~\E vec \in Vectors : SendCoded(vec) PROVE Abroad(generation)
  OBVIOUS
<1>0. generation # 0
  BY DEF Generations
<1>1. ASSUME NEW hop \in AllHops, NEW pkt \in Range(air'[hop]), pkt.generation = generation
      PROVE  Abroad(generation)
  <2>1. CASE AirFewer
    BY <1>1, <2>1 DEF AirFewer, Abroad
  <2>2. ASSUME NEW vec \in Vectors, RelaySends(vec), AirMore("recoded", RecPacket(vec))
        PROVE  Abroad(generation)
    BY <1>1, <2>2 DEF AirMore, Abroad, RecPacket
  <2>3. CASE AirMore(AnswerHop, DecFeedback)
    BY <1>1, <2>3 DEF AirMore, Abroad, DecFeedback
  <2>4. CASE AirMore("feedback", RecFeedback)
    BY <1>1, <2>4 DEF AirMore, Abroad, RecFeedback
  <2>5. QED
    BY <2>1, <2>2, <2>3, <2>4, AirCases
<1>2. /\ rec_generation' = generation => Abroad(generation)
      /\ rec_feedback_generation' = generation => Abroad(generation)
  <2>1. ASSUME NEW i \in Nat, RelayReceives(i)
        PROVE  /\ rec_generation' = generation => Abroad(generation)
               /\ rec_feedback_generation' = generation => Abroad(generation)
    <3>1. /\ air["coded"][i] \in Range(air["coded"])
          /\ rec_generation' = air["coded"][i].generation
      BY <2>1, RelayAtPacket
    <3>2. \/ rec_feedback_generation' = rec_feedback_generation
          \/ rec_feedback_generation' = air["coded"][i].generation
      BY <2>1 DEF RelayReceives, RecPutCoded, RecReport, RecSameReport
    <3>3. QED
      BY <3>1, <3>2, HopTypes DEF Abroad
  <2>2. ASSUME NEW i \in Nat, RelayHears(i)
        PROVE  /\ rec_generation' = generation => Abroad(generation)
               /\ rec_feedback_generation' = generation => Abroad(generation)
    <3>1. /\ air["answers"][i] \in Range(air["answers"])
          /\ air["answers"][i].generation <= rec_generation
          /\ air["answers"][i].generation \in Nat /\ rec_generation \in Nat
      BY <2>2, RelayHearsBehind
    <3>2. /\ rec_generation' = rec_generation
          /\ \/ rec_feedback_generation' = rec_feedback_generation
             \/ rec_feedback_generation' = air["answers"][i].generation
      BY <2>2, <3>1 DEF RelayHears, RecPutFeedback, RecReport, recVars
    <3>3. QED
      BY <3>1, <3>2, HopTypes DEF Abroad
  <2>3. \/ \E i \in Nat : RelayReceives(i) \/ RelayHears(i)
        \/ rec_generation' = rec_generation
           /\ (rec_feedback_generation' = rec_feedback_generation
                 \/ rec_feedback_generation' = 0)
    BY StepCases
    DEF Lose, RelaySends, ReceiveCoded, SendFeedback, RelayAnswers,
        ReceiveFeedback, vars, recVars, RecGetCoded, RecGetFeedback
  <2>4. QED
    BY <1>0, <2>1, <2>2, <2>3 DEF Abroad
<1>3. dec_feedback_generation' = generation => Abroad(generation)
  <2>1. ASSUME NEW i \in Nat, ReceiveCoded(i)
        PROVE  dec_feedback_generation' = generation => Abroad(generation)
    <3>1. air[DataHop][i] \in Range(air[DataHop])
      BY <2>1, HopTypes, AirTakes DEF ReceiveCoded, TypeInv
    <3>2. \/ dec_feedback_generation' = dec_feedback_generation
          \/ dec_feedback_generation' = air[DataHop][i].generation
      BY <2>1 DEF ReceiveCoded, DecPutCoded, DecReport, DecSameReport
    <3>3. QED
      BY <3>1, <3>2, HopTypes DEF Abroad
  <2>2. \/ \E i \in Nat : ReceiveCoded(i)
        \/ dec_feedback_generation' \in {dec_feedback_generation, 0}
    BY StepCases
    DEF PutSource, FlushCoded, GetSource, FlushSource, Lose, RelaySends, RelayReceives,
        SendFeedback, RelayAnswers, ReceiveFeedback, RelayHears, vars, endVars, decVars,
        DecGetSource, DecFlushSource, DecGetFeedback
  <2>3. QED
    BY <1>0, <2>1, <2>2 DEF Abroad
<1>4. QED
  BY <1>1, <1>2, <1>3 DEF Abroad

(* Nothing is newer than the encoder's generation.                         *)
LEMMA AbroadBehind ==
  ASSUME TypeInv, OrderInv, NEW generation \in Nat, Abroad(generation)
  PROVE  generation <= enc_generation
<1>1. /\ enc_generation \in Nat /\ rec_generation \in Nat /\ rec_feedback_generation \in Nat
      /\ dec_feedback_generation \in Nat
      /\ \A hop \in AllHops : \A pkt \in Range(air[hop]) : pkt.generation <= enc_generation
  BY OrderFacts
<1>2. /\ rec_generation <= enc_generation /\ rec_feedback_generation <= enc_generation
      /\ dec_feedback_generation <= enc_generation
  BY <1>1 DEF OrderInv
<1>3. QED
  BY <1>1, <1>2 DEF Abroad

LEMMA FilledPut ==
  ASSUME HopsKeepOrder, TypeInv, OrderInv, FilledInv, [Next]_vars, PutSource
  PROVE  FilledInv'
<1>1. /\ enc_generation \in Generations /\ enc_generation \in Nat
      /\ enc_rank = Symbols => enc_full \/ enc_complete
  BY DEF TypeInv, EncTyped, EncTypeOK, Generations
<1>2. /\ ~enc_full /\ ~AtEnd /\ ~enc_complete' /\ UNCHANGED <<decVars>>
      /\ enc_full' => enc_rank' = Symbols
      /\ enc_generation' = EncSlot[1]
  BY DEF PutSource, EncPutSource, EncFilled
<1>3. opt' = opt
  <2>1. TypeInv'
    BY TypeNext
  <2>2. QED
    BY StepCases
    DEF Lose, SendCoded, RelaySends, ReceiveCoded, RelayReceives, SendFeedback,
        RelayAnswers, ReceiveFeedback, RelayHears, vars
<1>4. SUFFICES ASSUME opt.orderly, Abroad(enc_generation)' PROVE FALSE
  BY <1>2, <1>3 DEF FilledInv, Filled
<1>5. enc_generation' \in Generations
  BY <1>1, <1>2 DEF EncSlot, Generations
<1>6. ~\E vec \in Vectors : SendCoded(vec)
  <2>1. sent' # sent
    <3>1. sent \in Seq(SlotSet) /\ sent' = Append(sent, EncSlot)
      BY DEF PutSource, TypeInv, AppTyped
    <3>2. Len(sent') = Len(sent) + 1 /\ Len(sent) \in Nat
      BY <3>1
    <3>3. QED
      BY <3>2
  <2>2. QED
    BY <2>1 DEF SendCoded, TakeCoded, appVars
<1>7. \A g \in Generations : g = enc_generation' => Abroad(g)
  <2>1. SUFFICES ASSUME NEW g \in Generations, g = enc_generation' PROVE Abroad(g)
    OBVIOUS
  <2>2. Abroad(g)'
    BY <1>4, <2>1 DEF Abroad
  <2>3. QED
    BY <1>6, <2>2, AbroadKept
<1>8. PICK g \in Generations : g = enc_generation' /\ Abroad(g)
  BY <1>5, <1>7
<1>9. g <= enc_generation /\ g \in Nat
  BY <1>8, AbroadBehind DEF Generations
<1>10. ~enc_complete /\ g = enc_generation
  BY <1>1, <1>2, <1>8, <1>9 DEF EncSlot
<1>11. Filled
  BY <1>4, <1>8, <1>10 DEF FilledInv
<1>12. QED
  BY <1>1, <1>2, <1>10, <1>11 DEF Filled

LEMMA FilledNext ==
  ASSUME HopsKeepOrder, TypeInv, OrderInv, FilledInv, [Next]_vars
  PROVE  FilledInv'
<1>1. CASE PutSource
  BY <1>1, FilledPut
<1>2. CASE ~PutSource
  <2>1. opt' = opt /\ enc_generation' = enc_generation
    BY <1>2, StepCases
    DEF FlushCoded, GetSource, FlushSource, Lose, SendCoded, TakeCoded, RelaySends,
        ReceiveCoded, RelayReceives, SendFeedback, RelayAnswers, ReceiveFeedback,
        RelayHears, vars, endVars, encVars, EncFlushCoded, EncGetCoded, EncPutFeedback
  <2>2. Filled => Filled'
    BY <1>2, FilledStays
  <2>3. SUFFICES ASSUME opt.orderly, enc_full' \/ enc_complete' \/ Abroad(enc_generation)'
                 PROVE  Filled
    BY <2>1, <2>2 DEF FilledInv
  <2>4. CASE \E vec \in Vectors : SendCoded(vec)
    <3>1. enc_full \/ AtEnd
      BY <2>3, <2>4 DEF SendCoded, TakeCoded
    <3>2. QED
      BY <2>3, <3>1 DEF FilledInv, Filled
  <2>5. CASE ~\E vec \in Vectors : SendCoded(vec)
    <3>1. enc_generation \in Generations
      BY DEF TypeInv, EncTyped, EncTypeOK
    <3>2. \A g \in Generations : g = enc_generation' /\ Abroad(enc_generation)' => Abroad(g)
      <4>1. SUFFICES ASSUME NEW g \in Generations, g = enc_generation',
                            Abroad(enc_generation)'
                     PROVE  Abroad(g)
        OBVIOUS
      <4>2. Abroad(g)'
        BY <4>1 DEF Abroad
      <4>3. QED
        BY <2>5, <4>2, AbroadKept
    <3>3. Abroad(enc_generation)' => Abroad(enc_generation)
      BY <2>1, <3>1, <3>2
    <3>4. CASE FlushCoded
      BY <2>3, <3>4 DEF FlushCoded, Filled
    <3>5. ASSUME NEW hop \in FeedbackHops, NEW i \in Nat, Takes(hop, i),
                 EncPutFeedback(air[hop][i])
          PROVE  enc_full' \/ enc_complete' =>
                   enc_full \/ enc_complete \/ Abroad(enc_generation)
      <4>1. air[hop][i] \in Range(air[hop])
        BY <3>5, HopTypes, AirTakes DEF TypeInv
      <4>2. EncAcked(air[hop][i]) => Abroad(enc_generation)
        BY <4>1, HopTypes DEF EncAcked, Abroad
      <4>3. QED
        BY <3>5, <4>2 DEF EncPutFeedback
    <3>6. \/ FlushCoded
          \/ UNCHANGED <<enc_full, enc_complete>>
          \/ \E hop \in FeedbackHops, i \in Nat :
               Takes(hop, i) /\ EncPutFeedback(air[hop][i])
      BY <1>2, <2>5, HopTypes, StepCases
      DEF GetSource, FlushSource, Lose, RelaySends, ReceiveCoded, RelayReceives,
          SendFeedback, RelayAnswers, ReceiveFeedback, RelayHears, vars, endVars, encVars
    <3>7. CASE enc_full \/ enc_complete \/ Abroad(enc_generation)
      BY <2>3, <3>7 DEF FilledInv
    <3>8. QED
      BY <2>3, <3>3, <3>4, <3>5, <3>6, <3>7
  <2>6. QED
    BY <2>4, <2>5
<1>3. QED
  BY <1>1, <1>2

-----------------------------------------------------------------------------
(* The decoder of an orderly application is never behind a packet: it has  *)
(* the generation before decoded and drained, so it is done with it.       *)
LEMMA DecNeverBehind ==
  ASSUME TypeInv, OrderInv, OriginInv, AckInv, opt.orderly, NEW i \in Nat, ReceiveCoded(i)
  PROVE  ~(0 < DecAt(air[DataHop][i]) /\ DecAt(air[DataHop][i]) < air[DataHop][i].generation)
<1> DEFINE pkt == air[DataHop][i]
<1>1. /\ pkt.generation \in Nat /\ pkt.generation <= enc_generation
      /\ enc_generation \in Nat /\ dec_generation \in Nat
  <2>1. pkt \in Range(air[DataHop])
    BY HopTypes, AirTakes DEF ReceiveCoded, TypeInv
  <2>2. QED
    BY <2>1, OrderFacts, HopTypes
<1>2. SUFFICES ASSUME 0 < DecAt(pkt), DecAt(pkt) < pkt.generation PROVE FALSE
  OBVIOUS
<1>3. enc_generation > 1 /\ dec_generation < enc_generation
  BY <1>1, <1>2 DEF DecAt
<1>4. dec_generation = enc_generation - 1 /\ Rank(dec_span) >= Symbols
  BY <1>1, <1>3 DEF AckInv, EncoderInv, Decoded
<1>5. \A k \in 1 .. Symbols : {k} \in dec_span
  <2>1. /\ Symbols \in 0 .. Symbols /\ dec_span \in SUBSET (SUBSET (1 .. Symbols))
        /\ Linear(dec_span)
    BY SymbolsAssumption DEF AckInv, TypeInv, DecTyped, DecTypeOK, Vectors, Indices
  <2>2. QED
    BY <1>4, <2>1, FullRank, Zenon
<1>6. dec_index = Symbols
  <2>1. ~DecHasSource
    BY DEF ReceiveCoded, Drained
  <2>2. dec_index \in 0 .. Symbols
    BY DEF TypeInv, DecTyped, DecTypeOK
  <2>3. dec_index < Symbols => dec_index + 1 \in 1 .. Symbols
    BY <2>2, SymbolsAssumption
  <2>4. ~(dec_index < Symbols)
    BY <1>5, <2>1, <2>3 DEF DecHasSource, IsSymbolUncoded
  <2>5. QED
    BY <2>2, <2>4, SymbolsAssumption
<1>7. DecAt(pkt) = enc_generation
  BY <1>1, <1>4, <1>6 DEF DecAt, DecComplete
<1>8. QED
  BY <1>1, <1>2, <1>7

LEMMA DecReports ==
  ASSUME TypeInv, OrderInv, OriginInv, AckInv, opt.orderly, [Next]_vars,
         dec_feedback_generation' # 0
  PROVE  Decoded(dec_generation', dec_span', dec_feedback_generation', dec_feedback_rank')
<1>1. CASE UNCHANGED <<dec_feedback_generation, dec_feedback_rank>>
  <2>1. /\ dec_feedback_generation \in Nat /\ dec_feedback_generation >= 1
        /\ dec_feedback_rank \in Nat
    BY <1>1, SymbolsAssumption DEF TypeInv, DecTyped, DecTypeOK
  <2>2. Decoded(dec_generation, dec_span, dec_feedback_generation, dec_feedback_rank)
    BY <2>1 DEF AckInv, ReportsInv
  <2>3. QED
    BY <1>1, <2>1, <2>2, DecodedStays
<1>2. ASSUME NEW i \in Nat, ReceiveCoded(i),
             ~UNCHANGED <<dec_feedback_generation, dec_feedback_rank>>
      PROVE  Decoded(dec_generation', dec_span', dec_feedback_generation', dec_feedback_rank')
  <2> DEFINE pkt == air[DataHop][i]
  <2>1. ~(0 < DecAt(pkt) /\ DecAt(pkt) < pkt.generation)
    BY <1>2, DecNeverBehind
  <2>2. /\ dec_generation' = pkt.generation /\ DecAcks(pkt, dec_span')
        /\ dec_feedback_generation' = pkt.generation /\ dec_feedback_rank' = pkt.rank
    BY <1>2, <2>1 DEF ReceiveCoded, DecPutCoded, DecReport, DecSameReport
  <2>3. pkt \in GackPackets
    BY <1>2, HopTypes, ArrivesTyped DEF ReceiveCoded, TypeInv
  <2>4. dec_span' \in SUBSET Vectors
    BY TypeNext DEF TypeInv, DecTyped, DecTypeOK
  <2>5. Rank(dec_span') \in 0 .. Symbols
    BY <2>4, RankType
  <2>6. Rank(dec_span') \in Nat /\ pkt.rank \in Nat
    BY <2>3, <2>5, SymbolsAssumption DEF GackPackets
  <2>7. QED
    BY <2>2, <2>6 DEF Decoded, DecAcks
<1>3. \/ UNCHANGED <<dec_feedback_generation, dec_feedback_rank>>
      \/ \E i \in Nat : ReceiveCoded(i)
      \/ dec_feedback_generation' = 0
  BY StepCases
  DEF PutSource, FlushCoded, GetSource, FlushSource, Lose, SendCoded, TakeCoded,
      RelaySends, RelayReceives, SendFeedback, RelayAnswers, ReceiveFeedback,
      RelayHears, vars, endVars, decVars, DecGetSource, DecFlushSource, DecGetFeedback
<1>4. QED
  BY <1>1, <1>2, <1>3

(* The recoder repeats what the decoder reported: it settles a rank only   *)
(* after a feedback with that rank.                                        *)
LEMMA RecRemembers ==
  ASSUME HopsKeepOrder, TypeInv, OrderInv, ReportsInv, [Next]_vars
  PROVE  /\ rec_feedback_generation' # 0 =>
              Decoded(dec_generation', dec_span', rec_feedback_generation', rec_feedback_rank')
         /\ ~rec_has_coded' /\ rec_sender_rank' # 0 =>
              Decoded(dec_generation', dec_span', rec_generation', rec_sender_rank')
<1> DEFINE Keeps(generation, rank) ==
             Decoded(dec_generation', dec_span', generation, rank)
<1>1. rec_feedback_generation # 0 => Keeps(rec_feedback_generation, rec_feedback_rank)
  <2>1. rec_feedback_generation \in Nat /\ rec_feedback_rank \in Nat
    BY SymbolsAssumption DEF TypeInv, RecTyped, RecTypeOK
  <2>2. rec_feedback_generation # 0 => rec_feedback_generation >= 1
    BY <2>1
  <2>3. QED
    BY <2>1, <2>2, DecodedStays DEF ReportsInv
<1>2. ~rec_has_coded /\ rec_sender_rank # 0 => Keeps(rec_generation, rec_sender_rank)
  <2>1. /\ rec_generation \in Nat /\ rec_sender_rank \in Nat
        /\ rec_generation = 0 => rec_sender_rank = 0
    BY SymbolsAssumption DEF TypeInv, RecTyped, RecTypeOK
  <2>2. rec_sender_rank # 0 => rec_generation >= 1
    BY <2>1
  <2>3. QED
    BY <2>1, <2>2, DecodedStays DEF ReportsInv
<1> HIDE DEF Keeps
<1>3. ASSUME NEW i \in Nat, RelayHears(i)
      PROVE  /\ rec_feedback_generation' # 0 =>
                  Keeps(rec_feedback_generation', rec_feedback_rank')
             /\ ~rec_has_coded' /\ rec_sender_rank' # 0 =>
                  Keeps(rec_generation', rec_sender_rank')
  <2> DEFINE fb == air["answers"][i]
  <2>1. /\ fb \in Range(air["answers"]) /\ fb \in GackFeedbacks
        /\ fb.generation <= rec_generation
        /\ fb.generation \in Nat /\ rec_generation \in Nat
    BY <1>3, RelayHearsBehind
  <2>2. fb.generation >= 1 /\ fb.rank \in Nat
    BY <2>1, SymbolsAssumption DEF GackFeedbacks, Generations
  <2>3. Keeps(fb.generation, fb.rank)
    BY <2>1, <2>2, HopTypes, DecodedStays DEF ReportsInv, Keeps
  <2>4. RecPutFeedback(fb)
    BY <1>3 DEF RelayHears
  <2>5. QED
    BY <1>1, <1>2, <2>1, <2>3, <2>4 DEF RecPutFeedback, RecReport, recVars
<1>4. ASSUME NEW i \in Nat, RelayReceives(i)
      PROVE  /\ rec_feedback_generation' # 0 =>
                  Keeps(rec_feedback_generation', rec_feedback_rank')
             /\ ~rec_has_coded' /\ rec_sender_rank' # 0 =>
                  Keeps(rec_generation', rec_sender_rank')
  <2> DEFINE pkt == air["coded"][i]
             reset == RecLeaves(pkt.generation)
             sender_rank == IF reset THEN 0 ELSE rec_sender_rank
             sending == rec_has_coded /\ ~reset
  <2>1. /\ rec_generation' = pkt.generation
        /\ reset \/ rec_generation = 0 \/ rec_generation = pkt.generation
    BY <1>4, RelayAtPacket
  <2>2. pkt.rank # 0
    BY <1>4, HopTypes, ArrivesTyped DEF RelayReceives, TypeInv, GackPackets
  <2>3. rec_generation = 0 => rec_sender_rank = 0
    BY DEF TypeInv, RecTyped
  <2>4. ~sending /\ sender_rank # 0 => Keeps(rec_generation', sender_rank)
    BY <1>2, <2>1, <2>3
  <2>5. PICK news \in BOOLEAN :
          /\ rec_has_coded' = (sending \/ (~RecSettled(pkt, sender_rank) /\ news))
          /\ rec_sender_rank' = IF ~sending /\ ~RecSettled(pkt, sender_rank) /\ news
                                THEN pkt.rank ELSE sender_rank
    BY <1>4 DEF RelayReceives, RecPutCoded
  <2>6. \/ UNCHANGED <<rec_feedback_generation, rec_feedback_rank>>
        \/ /\ ~sending /\ RecSettled(pkt, sender_rank)
           /\ rec_feedback_generation' = pkt.generation /\ rec_feedback_rank' = pkt.rank
    BY <1>4 DEF RelayReceives, RecPutCoded, RecReport, RecSameReport
  <2> HIDE DEF sender_rank, sending, reset
  <2>7. rec_feedback_generation' # 0 => Keeps(rec_feedback_generation', rec_feedback_rank')
    BY <1>1, <2>1, <2>2, <2>4, <2>6 DEF RecSettled
  <2>8. ~rec_has_coded' /\ rec_sender_rank' # 0 => Keeps(rec_generation', rec_sender_rank')
    BY <2>4, <2>5
  <2>9. QED
    BY <2>7, <2>8
<1>5. \/ \E i \in Nat : RelayReceives(i) \/ RelayHears(i)
      \/ UNCHANGED recVars
      \/ RecGetFeedback
  BY StepCases
  DEF Lose, SendCoded, RelaySends, ReceiveCoded, SendFeedback, RelayAnswers,
      ReceiveFeedback, vars, RecGetCoded
<1>6. CASE UNCHANGED recVars
  BY <1>1, <1>2, <1>6 DEF recVars, Keeps
<1>7. CASE RecGetFeedback
  BY <1>1, <1>2, <1>7 DEF RecGetFeedback, Keeps
<1>8. QED
  BY <1>3, <1>4, <1>5, <1>6, <1>7 DEF Keeps

LEMMA ReportsNext ==
  ASSUME HopsKeepOrder, TypeInv, OrderInv, OriginInv, AckInv, opt.orderly, [Next]_vars
  PROVE  ReportsInv'
<1>0. ReportsInv
  BY DEF AckInv
<1>1. ASSUME NEW fb \in GackFeedbacks,
             Decoded(dec_generation, dec_span, fb.generation, fb.rank)
      PROVE  Decoded(dec_generation', dec_span', fb.generation, fb.rank)
  <2>1. fb.generation \in Nat /\ fb.generation >= 1 /\ fb.rank \in Nat
    BY SymbolsAssumption DEF GackFeedbacks, Generations
  <2>2. QED
    BY <1>1, <2>1, DecodedStays
<1>2. ASSUME NEW hop \in FeedbackHops, NEW fb \in Range(air'[hop])
      PROVE  /\ fb \in GackFeedbacks
             /\ Decoded(dec_generation, dec_span, fb.generation, fb.rank)
  <2>1. /\ hop \in AllHops /\ hop \notin DataHops
        /\ \A p \in Range(air[hop]) : p \in GackFeedbacks
    BY HopTypes DEF TypeInv, AirTyped
  <2>2. fb \in Range(air[hop]) =>
          /\ fb \in GackFeedbacks
          /\ Decoded(dec_generation, dec_span, fb.generation, fb.rank)
    BY <1>0, <2>1 DEF ReportsInv
  <2>3. CASE AirFewer
    BY <2>1, <2>2, <2>3 DEF AirFewer
  <2>4. ASSUME NEW pkt, AirMore("coded", pkt) \/ AirMore("recoded", pkt)
        PROVE  fb \in Range(air[hop])
    BY <2>1, <2>4, HopTypes DEF AirMore
  <2>5. CASE DecHasFeedback /\ DecFeedback \in GackFeedbacks /\ AirMore(AnswerHop, DecFeedback)
    <3>1. fb \in Range(air[hop]) \/ fb = DecFeedback
      BY <2>1, <2>5 DEF AirMore
    <3>2. QED
      BY <1>0, <2>2, <2>5, <3>1 DEF ReportsInv, DecFeedback, DecHasFeedback
  <2>6. CASE RecHasFeedback /\ RecFeedback \in GackFeedbacks /\ AirMore("feedback", RecFeedback)
    <3>1. fb \in Range(air[hop]) \/ fb = RecFeedback
      BY <2>1, <2>6 DEF AirMore
    <3>2. QED
      BY <1>0, <2>2, <2>6, <3>1 DEF ReportsInv, RecFeedback, RecHasFeedback
  <2>7. QED
    BY <2>2, <2>3, <2>4, <2>5, <2>6, AirCases
<1>3. \A hop \in FeedbackHops : \A fb \in Range(air'[hop]) :
        Decoded(dec_generation', dec_span', fb.generation, fb.rank)
  BY <1>1, <1>2
<1>4. QED
  BY <1>0, <1>3, DecReports, RecRemembers DEF ReportsInv

LEMMA EncoderNext ==
  ASSUME TypeInv, OrderInv, AckInv, opt.orderly, [Next]_vars
  PROVE  EncoderInv'
<1> USE SymbolsAssumption
<1>1. /\ enc_generation \in Nat /\ enc_generation >= 1 /\ enc_rank \in Nat
      /\ ReportsInv /\ EncoderInv /\ FilledInv
  BY DEF TypeInv, EncTyped, EncTypeOK, Generations, AckInv
<1>2. enc_complete => Decoded(dec_generation', dec_span', enc_generation, enc_rank)
  BY <1>1, DecodedStays DEF EncoderInv
<1>3. enc_generation > 1 =>
        Decoded(dec_generation', dec_span', enc_generation - 1, Symbols)
  <2>1. enc_generation > 1 => enc_generation - 1 \in Nat /\ enc_generation - 1 >= 1
    BY <1>1
  <2>2. QED
    BY <1>1, <2>1, DecodedStays DEF EncoderInv
<1>4. CASE PutSource
  <2>1. ~enc_full /\ ~AtEnd /\ ~enc_complete' /\ enc_generation' = EncSlot[1]
    BY <1>4 DEF PutSource, EncPutSource
  <2>2. CASE enc_complete
    <3>1. enc_rank = Symbols
      BY <1>1, <2>1, <2>2 DEF FilledInv, Filled
    <3>2. enc_generation' = enc_generation + 1
      BY <2>1, <2>2 DEF EncSlot
    <3>3. enc_generation' - 1 = enc_generation
      BY <1>1, <3>2
    <3>4. QED
      BY <1>2, <2>1, <2>2, <3>1, <3>3 DEF EncoderInv
  <2>3. CASE ~enc_complete
    <3>1. enc_generation' = enc_generation
      BY <2>1, <2>3 DEF EncSlot
    <3>2. QED
      BY <1>3, <2>1, <3>1 DEF EncoderInv
  <2>4. QED
    BY <2>2, <2>3
<1>5. ASSUME NEW hop \in FeedbackHops, NEW i \in Nat, Takes(hop, i),
             EncPutFeedback(air[hop][i])
      PROVE  EncoderInv'
  <2>1. /\ air[hop][i] \in Range(air[hop]) /\ air[hop][i] \in GackFeedbacks
    BY <1>5, HopTypes, AirTakes, ArrivesTyped DEF TypeInv
  <2>2. EncAcked(air[hop][i]) =>
          Decoded(dec_generation, dec_span, enc_generation, enc_rank)
    BY <1>1, <2>1 DEF ReportsInv, EncAcked
  <2>3. EncAcked(air[hop][i]) =>
          Decoded(dec_generation', dec_span', enc_generation, enc_rank)
    BY <1>1, <2>2, DecodedStays
  <2>4. QED
    BY <1>2, <1>3, <1>5, <2>3 DEF EncPutFeedback, EncoderInv
<1>6. CASE UNCHANGED <<enc_generation, enc_rank, enc_complete>>
  BY <1>2, <1>3, <1>6 DEF EncoderInv
<1>7. \/ PutSource
      \/ UNCHANGED <<enc_generation, enc_rank, enc_complete>>
      \/ \E hop \in FeedbackHops, i \in Nat :
           Takes(hop, i) /\ EncPutFeedback(air[hop][i])
  BY HopTypes, StepCases
  DEF FlushCoded, EncFlushCoded, GetSource, FlushSource, Lose, SendCoded, TakeCoded,
      EncGetCoded, RelaySends, ReceiveCoded, RelayReceives, SendFeedback, RelayAnswers,
      ReceiveFeedback, RelayHears, vars, endVars, encVars
<1>8. QED
  BY <1>4, <1>5, <1>6, <1>7

LEMMA AckNext ==
  ASSUME HopsKeepOrder, TypeInv, OrderInv, OriginInv, AckInv, [Next]_vars
  PROVE  AckInv'
<1>1. opt' = opt
  BY StepCases
  DEF Lose, SendCoded, RelaySends, ReceiveCoded, RelayReceives, SendFeedback,
      RelayAnswers, ReceiveFeedback, RelayHears, vars
<1>2. Linear(dec_span)' /\ FilledInv'
  BY LinearNext, FilledNext DEF AckInv
<1>3. opt.orderly => (ReportsInv /\ EncoderInv)'
  BY ReportsNext, EncoderNext
<1>4. QED
  BY <1>1, <1>2, <1>3 DEF AckInv

LEMMA AckInit == Init => AckInv
<1> SUFFICES ASSUME Init PROVE AckInv
  OBVIOUS
<1>1. /\ enc_generation = 1 /\ ~enc_full /\ ~enc_complete
      /\ dec_feedback_generation = 0 /\ rec_feedback_generation = 0
      /\ rec_generation = 0 /\ rec_sender_rank = 0 /\ dec_span = EmptySpan
  BY DEF Init, EndsInit, EncInit, DecInit, RecInit
<1>2. \A hop \in AllHops : Range(air[hop]) = {}
  <2>1. \A hop \in AllHops : air[hop] = <<>>
    BY HopTypes DEF Init
  <2>2. QED
    BY <2>1 DEF Range
<1>3. Linear(dec_span)
  BY <1>1 DEF Linear, EmptySpan, Plus
<1>4. FilledInv
  BY <1>1, <1>2 DEF FilledInv, Abroad
<1>5. ReportsInv /\ EncoderInv
  BY <1>1, <1>2, HopTypes DEF ReportsInv, EncoderInv
<1>6. QED
  BY <1>3, <1>4, <1>5 DEF AckInv

LEMMA AckInductive ==
  ASSUME HopsKeepOrder
  PROVE  /\ Init => TypeInv /\ OrderInv /\ OriginInv /\ AckInv
         /\ TypeInv /\ OrderInv /\ OriginInv /\ AckInv /\ [Next]_vars
              => (TypeInv /\ OrderInv /\ OriginInv /\ AckInv)'
<1>1. Init => TypeInv /\ OrderInv /\ OriginInv /\ AckInv
  BY TypeInit, OrderInit, OriginInit, AckInit
<1>2. TypeInv /\ OrderInv /\ OriginInv /\ AckInv /\ [Next]_vars
        => (TypeInv /\ OrderInv /\ OriginInv /\ AckInv)'
  BY TypeNext, OrderNext, OriginNext, AckNext
<1>3. QED
  BY <1>1, <1>2

(* The encoder of an orderly application gives a generation up only when   *)
(* the decoder has all of its symbols, over a recoder or not               *)
(* (nck_gack_enc_put_feedback, src/gack/encoder.c).                        *)
THEOREM GackAckedIsDecoded ==
  ASSUME HopsKeepOrder
  PROVE  Spec => []AckedIsDecoded
<1>1. ASSUME TypeInv, OriginInv, AckInv, opt.orderly, enc_complete,
             dec_generation = enc_generation, Rank(dec_span) >= enc_rank
      PROVE  \A i \in 1 .. enc_rank : IsSymbolUncoded(dec_span, i)
  <2>1. enc_rank \in 0 .. Symbols
    BY <1>1 DEF TypeInv, EncTyped, EncTypeOK
  <2>2. \A k \in PutInto(enc_generation, sent) : k \in 1 .. enc_rank
    <3>1. SUFFICES ASSUME NEW k \in PutInto(enc_generation, sent) PROVE k \in 1 .. enc_rank
      OBVIOUS
    <3>2. <<enc_generation, k>> \in Range(sent) /\ k \in 1 .. Symbols
      BY DEF PutInto, Indices
    <3>3. enc_generation \in Nat
      BY <1>1 DEF TypeInv, EncTyped, EncTypeOK, Generations
    <3>4. k <= enc_rank
      BY <1>1, <3>2, <3>3 DEF OriginInv, SentInv
    <3>5. QED
      BY <2>1, <3>2, <3>4, SymbolsAssumption
  <2>3. dec_span \in SUBSET (SUBSET (1 .. enc_rank)) /\ Linear(dec_span)
    BY <1>1, <2>2 DEF OriginInv, DecOrigin, AckInv
  <2>4. \A i \in 1 .. enc_rank : {i} \in dec_span
    BY <1>1, <2>1, <2>3, FullRank, Zenon
  <2>5. QED
    BY <2>4 DEF IsSymbolUncoded
<1>2. TypeInv /\ OriginInv /\ AckInv => AckedIsDecoded
  BY <1>1 DEF AckInv, EncoderInv, Decoded, AckedIsDecoded
<1>3. QED
  BY <1>2, AckInductive, PTL DEF Spec

(* With orderly applications a recoder answers only for the decoder: the   *)
(* rank that it acknowledges is decoded (nck_gack_rec_put_coded).          *)
THEOREM GackAnswersForDecoder ==
  ASSUME HopsKeepOrder, \A o \in Options : o.relay => o.orderly
  PROVE  Spec => []AnswersForDecoder
<1>1. TypeInv /\ OrderInv /\ AckInv => AnswersForDecoder
  <2>1. SUFFICES ASSUME TypeInv, OrderInv, AckInv, RecHasFeedback
                 PROVE  Decoded(dec_generation, dec_span, rec_feedback_generation,
                                rec_feedback_rank)
    BY DEF AnswersForDecoder, Decoded
  <2>2. opt \in Options /\ rec_feedback_generation \in Nat
    BY <2>1 DEF TypeInv, AppTyped, RecTyped, RecTypeOK
  <2>3. opt.relay
    BY <2>1, <2>2 DEF OrderInv, RecHasFeedback
  <2>4. opt.orderly
    BY <2>2, <2>3
  <2>5. QED
    BY <2>1, <2>4 DEF AckInv, ReportsInv, RecHasFeedback
<1>2. QED
  BY <1>1, AckInductive, PTL DEF Spec

-----------------------------------------------------------------------------
(* A reliable stream: the slots in the order an orderly application fills  *)
(* them, each generation to its end.                                       *)
NextSlot(slot) ==
  IF slot[2] = Symbols THEN <<slot[1] + 1, 1>> ELSE <<slot[1], slot[2] + 1>>

SentStream ==
  /\ sent # <<>> => /\ sent[1] = <<1, 1>>
                    /\ sent[Len(sent)] = <<enc_generation, enc_rank>>
                    /\ enc_generation <= Len(sent)
  /\ sent = <<>> => enc_generation = 1 /\ enc_rank = 0 /\ ~enc_complete
  /\ \A i \in 1 .. Len(sent) - 1 : sent[i + 1] = NextSlot(sent[i])

(* The symbol the decoder handed out before the one it is at.              *)
DeliveredStream ==
  /\ ~dec_flush
  /\ Len(delivered) <= Len(sent)
  /\ \A i \in DOMAIN delivered : delivered[i] = sent[i]
  /\ delivered = <<>> => dec_index = 0 /\ dec_generation \in {0, 1}
  /\ delivered # <<>> =>
       delivered[Len(delivered)] = IF dec_index = 0 THEN <<dec_generation - 1, Symbols>>
                                   ELSE <<dec_generation, dec_index>>

StreamInv ==
  /\ Len(sent) <= opt.source
  /\ opt.orderly => SentStream /\ DeliveredStream

SafeInv == TypeInv /\ OrderInv /\ OriginInv /\ AckInv /\ DeliveredInv

LEMMA SafeInductive ==
  ASSUME HopsKeepOrder
  PROVE  /\ Init => SafeInv
         /\ SafeInv /\ [Next]_vars => SafeInv'
<1>1. Init => DeliveredInv
  BY DEF Init, EndsInit, DeliveredInv
<1>2. SafeInv /\ [Next]_vars => DeliveredInv'
  BY DeliveredNext DEF SafeInv
<1>3. QED
  BY <1>1, <1>2, AckInductive DEF SafeInv

(* Of the applications' histories, a step changes at most one.             *)
LEMMA HistoryCases ==
  ASSUME TypeInv, [Next]_vars
  PROVE  /\ opt' = opt
         /\ \/ PutSource
            \/ GetSource
            \/ /\ UNCHANGED <<sent, delivered, enc_generation, enc_rank>>
               /\ enc_complete' => enc_complete
                    \/ \E hop \in FeedbackHops, i \in Nat :
                         Takes(hop, i) /\ EncAcked(air[hop][i])
<1>1. ASSUME NEW i \in Nat, ReceiveFeedback(i) \/ RelayHears(i)
      PROVE  /\ UNCHANGED <<sent, delivered, enc_generation, enc_rank>>
             /\ enc_complete' => enc_complete
                  \/ \E hop \in FeedbackHops, j \in Nat :
                       Takes(hop, j) /\ EncAcked(air[hop][j])
  <2>1. UNCHANGED <<sent, delivered>>
    BY <1>1 DEF ReceiveFeedback, RelayHears, appVars
  <2>2. CASE UNCHANGED encVars
    BY <2>1, <2>2 DEF encVars
  <2>3. ASSUME NEW hop \in FeedbackHops, Takes(hop, i), EncPutFeedback(air[hop][i])
        PROVE  /\ UNCHANGED <<enc_generation, enc_rank>>
               /\ enc_complete' => enc_complete
                    \/ \E h \in FeedbackHops, j \in Nat :
                         Takes(h, j) /\ EncAcked(air[h][j])
    BY <2>1, <2>3 DEF EncPutFeedback
  <2>4. QED
    BY <1>1, <2>1, <2>2, <2>3, HopTypes DEF ReceiveFeedback, RelayHears
<1>2. \/ PutSource \/ GetSource
      \/ UNCHANGED <<sent, delivered, enc_generation, enc_rank, enc_complete>>
      \/ \E i \in Nat : ReceiveFeedback(i) \/ RelayHears(i)
  BY StepCases
  DEF FlushCoded, FlushSource, Lose, SendCoded, TakeCoded, RelaySends, ReceiveCoded,
      RelayReceives, SendFeedback, RelayAnswers, vars, endVars, appVars, encVars,
      EncFlushCoded, EncGetCoded
<1>3. opt' = opt
  BY StepCases
  DEF Lose, SendCoded, RelaySends, ReceiveCoded, RelayReceives, SendFeedback,
      RelayAnswers, ReceiveFeedback, RelayHears, vars
<1>4. QED
  BY <1>1, <1>2, <1>3

(* Nobody acknowledges an encoder that was never given anything.           *)
LEMMA NothingAcked ==
  ASSUME TypeInv, FilledInv, opt.orderly, sent = <<>>, enc_rank = 0,
         NEW hop \in FeedbackHops, NEW i \in Nat, Takes(hop, i)
  PROVE  ~EncAcked(air[hop][i])
<1>1. air[hop][i] \in Range(air[hop]) /\ hop \in AllHops
  BY HopTypes, AirTakes DEF TypeInv
<1>2. SUFFICES ASSUME EncAcked(air[hop][i]) PROVE FALSE
  OBVIOUS
<1>3. Filled
  BY <1>1, <1>2 DEF FilledInv, Abroad, EncAcked
<1>4. opt.source # 0
  BY EndsAssumption DEF TypeInv, AppTyped
<1>5. QED
  BY <1>3, <1>4, SymbolsAssumption DEF Filled, AtEnd

LEMMA SentStreamPut ==
  ASSUME TypeInv, FilledInv, SentStream, opt.orderly, PutSource
  PROVE  /\ SentStream'
         /\ EncSlot = IF sent = <<>> THEN <<1, 1>> ELSE NextSlot(sent[Len(sent)])
         /\ EncSlot[1] <= Len(sent) + 1
<1> DEFINE n == Len(sent)
<1>1. sent \in Seq(SlotSet) /\ sent' = Append(sent, EncSlot)
  BY DEF TypeInv, AppTyped, PutSource
<1>2. /\ n \in Nat /\ Len(sent') = n + 1 /\ sent'[n + 1] = EncSlot
      /\ \A i \in 1 .. n : sent'[i] = sent[i]
      /\ sent = <<>> <=> n = 0
      /\ sent' # <<>>
  BY <1>1
<1>3. /\ enc_generation \in Nat /\ enc_rank \in 0 .. Symbols /\ Symbols \in Nat
      /\ Symbols >= 1
      /\ enc_rank = Symbols => enc_full \/ enc_complete
  BY SymbolsAssumption DEF TypeInv, EncTyped, EncTypeOK, Generations
<1>4. /\ ~enc_full /\ ~AtEnd /\ ~enc_complete' /\ enc_generation' = EncSlot[1]
      /\ enc_rank' = EncSlot[2] /\ EncSlot = <<EncSlot[1], EncSlot[2]>>
  BY DEF PutSource, EncPutSource, EncSlot
<1>5. enc_complete => enc_rank = Symbols
  BY <1>4 DEF FilledInv, Filled
<1>6. EncSlot = IF sent = <<>> THEN <<1, 1>> ELSE NextSlot(sent[n])
  <2>1. CASE sent = <<>>
    BY <2>1 DEF SentStream, EncSlot
  <2>2. CASE sent # <<>>
    <3>1. NextSlot(sent[n]) = IF enc_rank = Symbols THEN <<enc_generation + 1, 1>>
                              ELSE <<enc_generation, enc_rank + 1>>
      BY <2>2 DEF SentStream, NextSlot
    <3>2. CASE enc_complete
      BY <1>5, <2>2, <3>1, <3>2 DEF EncSlot
    <3>3. CASE ~enc_complete
      <4>1. enc_rank # Symbols
        BY <1>3, <1>4, <3>3
      <4>2. QED
        BY <2>2, <3>1, <3>3, <4>1 DEF EncSlot
    <3>4. QED
      BY <3>2, <3>3
  <2>3. QED
    BY <2>1, <2>2
<1>7. EncSlot[1] <= n + 1
  BY <1>2, <1>3 DEF SentStream, EncSlot
<1> HIDE DEF n
<1>8. ASSUME NEW i \in 1 .. n PROVE sent'[i + 1] = NextSlot(sent'[i])
  <2>1. CASE i = n
    <3>1. n # 0 /\ sent'[i + 1] = EncSlot /\ sent'[i] = sent[n]
      BY <1>2, <2>1
    <3>2. QED
      BY <1>2, <1>6, <3>1
  <2>2. CASE i # n
    <3>1. i \in 1 .. n - 1 /\ i + 1 \in 1 .. n
      BY <1>2, <2>2
    <3>2. QED
      BY <1>2, <3>1 DEF SentStream, n
  <2>3. QED
    BY <2>1, <2>2
<1>9. sent'[1] = <<1, 1>>
  <2>1. CASE n = 0
    BY <1>2, <1>6, <2>1
  <2>2. CASE n # 0
    <3>1. 1 \in 1 .. n
      BY <1>2, <2>2
    <3>2. QED
      BY <1>2, <2>2, <3>1 DEF SentStream
  <2>3. QED
    BY <2>1, <2>2
<1>10. SentStream'
  <2>1. Len(sent') - 1 = n
    BY <1>2
  <2>2. \A i \in 1 .. Len(sent') - 1 : sent'[i + 1] = NextSlot(sent'[i])
    BY <1>8, <2>1
  <2>3. sent'[Len(sent')] = <<enc_generation', enc_rank'>>
    BY <1>2, <1>4
  <2>4. enc_generation' <= Len(sent')
    BY <1>2, <1>4, <1>7 DEF n
  <2>5. QED
    BY <1>2, <1>9, <2>2, <2>3, <2>4 DEF SentStream
<1>11. QED
  BY <1>6, <1>7, <1>10 DEF n

LEMMA SentStreamNext ==
  ASSUME TypeInv, FilledInv, SentStream, opt.orderly, [Next]_vars
  PROVE  SentStream'
<1>1. CASE PutSource
  BY <1>1, SentStreamPut
<1>2. CASE UNCHANGED <<sent, enc_generation, enc_rank>>
           /\ (enc_complete' => enc_complete
                \/ \E hop \in FeedbackHops, i \in Nat :
                     Takes(hop, i) /\ EncAcked(air[hop][i]))
  <2>1. sent = <<>> => ~enc_complete'
    BY <1>2, NothingAcked DEF SentStream
  <2>2. QED
    BY <1>2, <2>1 DEF SentStream
<1>3. CASE GetSource
  BY <1>2, <1>3 DEF GetSource, encVars
<1>4. QED
  BY <1>1, <1>2, <1>3, HistoryCases

(* What the decoder hands out is the next symbol that was put in.          *)
LEMMA DeliversNext ==
  ASSUME SafeInv, SentStream, DeliveredStream, GetSource
  PROVE  Len(delivered) < Len(sent) /\ DecSource = sent[Len(delivered) + 1]
<1> DEFINE m == Len(delivered)
<1>1. /\ delivered \in Seq(SlotSet) /\ sent \in Seq(SlotSet)
      /\ dec_index \in 0 .. Symbols /\ dec_generation \in Nat /\ Symbols \in Nat
      /\ dec_generation = 0 => dec_span = EmptySpan
  BY SymbolsAssumption DEF SafeInv, TypeInv, AppTyped, DecTyped, DecTypeOK
<1>2. /\ m \in Nat /\ DOMAIN delivered = 1 .. m /\ Len(sent) \in Nat
      /\ DOMAIN sent = 1 .. Len(sent) /\ m <= Len(sent)
      /\ delivered = <<>> <=> m = 0
  BY <1>1 DEF DeliveredStream
<1>3. DecHasSource /\ DecSource \in Range(sent) /\ DecSource = <<dec_generation, dec_index + 1>>
  BY DecSourceOrigin DEF GetSource, DecGetSource, SafeInv, DecSource
<1>4. PICK j \in DOMAIN sent : sent[j] = DecSource
  BY <1>3 DEF Range
<1>5. j \notin DOMAIN delivered
  <2>1. SUFFICES ASSUME j \in DOMAIN delivered PROVE FALSE
    OBVIOUS
  <2>2. Before(DecSource, DecSource)
    BY <1>3, <1>4, <2>1 DEF SafeInv, DeliveredInv, DeliveredStream
  <2>3. QED
    BY <1>1, <1>3, <2>2 DEF Before
<1>6. m < Len(sent)
  BY <1>2, <1>4, <1>5
<1> HIDE DEF m
<1>7. CASE m = 0
  <2>1. dec_index = 0 /\ dec_generation \in {0, 1}
    BY <1>2, <1>7 DEF DeliveredStream
  <2>2. dec_generation = 1
    BY <1>1, <1>3, <2>1 DEF DecHasSource, IsSymbolUncoded, EmptySpan
  <2>3. sent # <<>> /\ sent[m + 1] = <<1, 1>>
    BY <1>2, <1>6, <1>7 DEF SentStream
  <2>4. QED
    BY <1>3, <1>6, <2>1, <2>2, <2>3 DEF m
<1>8. CASE m # 0
  <2>1. m \in DOMAIN delivered /\ m \in 1 .. Len(sent) - 1
    BY <1>2, <1>6, <1>8
  <2>2. delivered[m] = sent[m] /\ sent[m + 1] = NextSlot(sent[m])
    BY <2>1 DEF DeliveredStream, SentStream
  <2>3. delivered[m] = IF dec_index = 0 THEN <<dec_generation - 1, Symbols>>
                       ELSE <<dec_generation, dec_index>>
    BY <1>2, <1>8 DEF DeliveredStream, m
  <2>4. dec_index < Symbols
    BY <1>3 DEF DecHasSource
  <2>5. NextSlot(delivered[m]) = <<dec_generation, dec_index + 1>>
    BY <1>1, <2>3, <2>4 DEF NextSlot
  <2>6. QED
    BY <1>3, <1>6, <2>2, <2>5 DEF m
<1>9. QED
  BY <1>7, <1>8

LEMMA DeliveredStreamGet ==
  ASSUME SafeInv, SentStream, DeliveredStream, GetSource
  PROVE  DeliveredStream'
<1> DEFINE m == Len(delivered)
<1>1. /\ delivered \in Seq(SlotSet) /\ dec_index \in 0 .. Symbols /\ dec_generation \in Nat
      /\ sent \in Seq(SlotSet)
  BY DEF SafeInv, TypeInv, AppTyped, DecTyped, DecTypeOK
<1>2. /\ m < Len(sent) /\ DecSource = sent[m + 1] /\ m \in Nat /\ Len(sent) \in Nat
  BY <1>1, DeliversNext
<1>3. delivered' = Append(delivered, DecSource) /\ sent' = sent
      /\ dec_generation' = dec_generation /\ dec_index' = dec_index + 1 /\ ~dec_flush'
  BY DEF GetSource, DecGetSource, DecAfter, DeliveredStream
<1>4. /\ Len(delivered') = m + 1 /\ DOMAIN delivered' = 1 .. m + 1
      /\ delivered'[m + 1] = DecSource /\ delivered' # <<>>
      /\ \A i \in 1 .. m : delivered'[i] = delivered[i] /\ i \in DOMAIN delivered
  BY <1>1, <1>3
<1>5. \A i \in 1 .. m + 1 : i \in 1 .. m \/ i = m + 1
  BY <1>2
<1>6. \A i \in DOMAIN delivered' : delivered'[i] = sent'[i]
  BY <1>2, <1>3, <1>4, <1>5 DEF DeliveredStream
<1>7. Len(delivered') <= Len(sent')
  BY <1>2, <1>3, <1>4
<1>8. delivered'[Len(delivered')] = <<dec_generation', dec_index'>> /\ dec_index' # 0
  BY <1>1, <1>3, <1>4 DEF DecSource
<1>9. QED
  BY <1>3, <1>4, <1>6, <1>7, <1>8 DEF DeliveredStream

(* A decoder goes on to a generation only from the end of the one before.  *)
LEMMA DeliveredStreamReceive ==
  ASSUME SafeInv, DeliveredStream, opt.orderly, NEW i \in Nat, ReceiveCoded(i)
  PROVE  DeliveredStream'
<1> DEFINE pkt == air[DataHop][i]
<1>1. DecPutCoded(pkt) /\ UNCHANGED <<sent, delivered>>
  BY DEF ReceiveCoded, appVars
<1>2. /\ pkt.generation \in Nat /\ pkt.generation >= 1 /\ pkt.generation <= enc_generation
      /\ enc_generation \in Nat /\ dec_generation \in Nat /\ dec_index \in 0 .. Symbols
      /\ Symbols \in Nat /\ Symbols >= 1
  <2>1. pkt \in Range(air[DataHop])
    BY HopTypes, AirTakes DEF ReceiveCoded, SafeInv, TypeInv
  <2>2. QED
    BY <2>1, OrderFacts, HopTypes, SymbolsAssumption
    DEF SafeInv, TypeInv, DecTyped, DecTypeOK
<1>3. ~dec_flush'
  BY <1>1 DEF DecPutCoded, DeliveredStream
<1>4. CASE DecComplete
  <2>1. dec_generation' = dec_generation + 1 /\ dec_index' = 0 /\ dec_index = Symbols
    BY <1>1, <1>2, <1>4 DEF DecPutCoded, DecAt, DecComplete
  <2>2. delivered # <<>> /\ dec_index # 0
    BY <1>2, <2>1 DEF DeliveredStream
  <2>3. dec_generation' - 1 = dec_generation
    BY <1>2, <2>1
  <2>4. QED
    BY <1>1, <1>3, <2>1, <2>2, <2>3 DEF DeliveredStream
<1>5. CASE ~DecComplete
  <2>1. dec_index' = dec_index
    BY <1>1, <1>5 DEF DecPutCoded
  <2>2. CASE dec_generation # 0
    <3>1. dec_generation' = dec_generation
      BY <1>1, <1>2, <1>5, <2>2 DEF DecPutCoded, DecAt
    <3>2. QED
      BY <1>1, <1>3, <2>1, <3>1 DEF DeliveredStream
  <2>3. CASE dec_generation = 0
    <3>1. dec_generation' = pkt.generation
      BY <1>1, <1>2, <1>5, <2>3 DEF DecPutCoded, DecAt
    <3>2. ~(enc_generation > 1)
      BY <1>2, <2>3 DEF SafeInv, AckInv, EncoderInv, Decoded
    <3>3. dec_generation' = 1
      BY <1>2, <3>1, <3>2
    <3>4. delivered = <<>>
      <4>1. SUFFICES ASSUME delivered # <<>> PROVE FALSE
        OBVIOUS
      <4>2. delivered \in Seq(SlotSet)
        BY DEF SafeInv, TypeInv, AppTyped
      <4>3. delivered[Len(delivered)] \in SlotSet
        BY <4>1, <4>2
      <4>4. delivered[Len(delivered)][1] >= 1 /\ delivered[Len(delivered)][1] \in Nat
        BY <4>3 DEF SlotSet, Generations
      <4>5. delivered[Len(delivered)][1] \in {dec_generation - 1, dec_generation}
        BY <4>1 DEF DeliveredStream
      <4>6. QED
        BY <2>3, <4>4, <4>5
    <3>5. QED
      BY <1>1, <1>3, <2>1, <3>3, <3>4 DEF DeliveredStream
  <2>4. QED
    BY <2>2, <2>3
<1>6. QED
  BY <1>4, <1>5

LEMMA DeliveredStreamNext ==
  ASSUME SafeInv, SentStream, DeliveredStream, opt.orderly, [Next]_vars
  PROVE  DeliveredStream'
<1>1. CASE GetSource
  BY <1>1, DeliveredStreamGet
<1>2. ASSUME NEW i \in Nat, ReceiveCoded(i) PROVE DeliveredStream'
  BY <1>2, DeliveredStreamReceive
<1>3. CASE UNCHANGED <<delivered, dec_generation, dec_index, dec_flush>>
           /\ (PutSource \/ sent' = sent)
  <2>1. /\ Len(sent) \in Nat /\ Len(sent') \in Nat /\ Len(sent) <= Len(sent')
        /\ \A i \in 1 .. Len(sent) : sent'[i] = sent[i]
    <3>1. sent \in Seq(SlotSet) /\ (sent' = sent \/ sent' = Append(sent, EncSlot))
      BY <1>3 DEF SafeInv, TypeInv, AppTyped, PutSource
    <3>2. QED
      BY <3>1
  <2>2. Len(delivered) \in Nat /\ DOMAIN delivered = 1 .. Len(delivered)
    BY DEF SafeInv, TypeInv, AppTyped
  <2>3. Len(delivered) <= Len(sent')
    BY <2>1, <2>2 DEF DeliveredStream
  <2>4. \A i \in DOMAIN delivered : delivered[i] = sent'[i]
    <3>1. \A i \in DOMAIN delivered : i \in 1 .. Len(sent)
      BY <2>1, <2>2 DEF DeliveredStream
    <3>2. QED
      BY <2>1, <3>1 DEF DeliveredStream
  <2>5. QED
    BY <1>3, <2>3, <2>4 DEF DeliveredStream
<1>4. \/ GetSource \/ \E i \in Nat : ReceiveCoded(i)
      \/ UNCHANGED <<delivered, dec_generation, dec_index, dec_flush>>
         /\ (PutSource \/ sent' = sent)
  BY StepCases
  DEF PutSource, FlushCoded, FlushSource, Lose, SendCoded, TakeCoded, RelaySends,
      RelayReceives, SendFeedback, RelayAnswers, ReceiveFeedback, RelayHears, vars,
      endVars, appVars, decVars, DecGetFeedback
<1>5. QED
  BY <1>1, <1>2, <1>3, <1>4

LEMMA StreamNext ==
  ASSUME SafeInv, StreamInv, [Next]_vars
  PROVE  StreamInv'
<1>1. opt' = opt
  BY HistoryCases DEF SafeInv
<1>2. Len(sent') <= opt.source
  <2>1. opt.source \in Nat /\ sent \in Seq(SlotSet)
    BY EndsAssumption DEF SafeInv, TypeInv, AppTyped
  <2>2. CASE PutSource
    <3>1. Len(sent) # opt.source /\ Len(sent') = Len(sent) + 1 /\ Len(sent) \in Nat
      BY <2>1, <2>2 DEF PutSource, AtEnd
    <3>2. QED
      BY <2>1, <3>1 DEF StreamInv
  <2>3. CASE sent' = sent
    BY <2>3 DEF StreamInv
  <2>4. QED
    BY <2>2, <2>3, HistoryCases DEF SafeInv, GetSource
<1>3. opt.orderly => SentStream' /\ DeliveredStream'
  BY SentStreamNext, DeliveredStreamNext DEF SafeInv, AckInv, StreamInv
<1>4. QED
  BY <1>1, <1>2, <1>3 DEF StreamInv

LEMMA StreamInit == Init => StreamInv
<1> SUFFICES ASSUME Init PROVE StreamInv
  OBVIOUS
<1>1. /\ sent = <<>> /\ delivered = <<>> /\ opt \in Options /\ ~dec_flush
      /\ enc_generation = 1 /\ enc_rank = 0 /\ ~enc_complete
      /\ dec_index = 0 /\ dec_generation = 0
  BY DEF Init, EndsInit, EncInit, DecInit
<1>2. opt.source \in Nat /\ Len(sent) = 0 /\ Len(delivered) = 0 /\ DOMAIN delivered = {}
  BY <1>1, EndsAssumption
<1>3. QED
  BY <1>1, <1>2 DEF StreamInv, SentStream, DeliveredStream

(* A step of GACK is a step of the stream or changes nothing of it.        *)
LEMMA StreamStep ==
  ASSUME NEW longest \in Options, \A o \in Options : o.source <= longest.source,
         SafeInv, StreamInv, [Next]_vars
  PROVE  [Stream!Next]_(Stream!vars)
<1>1. opt' = opt /\ opt \in Options
  BY HistoryCases DEF SafeInv, TypeInv, AppTyped
<1>2. CASE ~opt.orderly
  BY <1>1, <1>2 DEF IfOrderly, Stream!vars
<1>3. CASE opt.orderly
  <2>1. /\ IfOrderly(sent) = sent /\ IfOrderly(delivered) = delivered
        /\ IfOrderly(sent)' = sent' /\ IfOrderly(delivered)' = delivered'
        /\ SentStream /\ DeliveredStream
    BY <1>1, <1>3 DEF IfOrderly, StreamInv
  <2>2. CASE UNCHANGED <<sent, delivered>>
    BY <2>1, <2>2 DEF Stream!vars
  <2>3. CASE GetSource
    <3>1. /\ Len(delivered) < Len(sent)
          /\ delivered' = Append(delivered, sent[Len(delivered) + 1])
          /\ sent' = sent
      BY <2>1, <2>3, DeliversNext DEF GetSource
    <3>2. QED
      BY <2>1, <3>1 DEF Stream!Next, Stream!Deliver
  <2>4. CASE PutSource
    <3>1. EncSlot[1] <= Len(sent) + 1 /\ FilledInv
      BY <1>3, <2>1, <2>4, SentStreamPut DEF SafeInv, AckInv
    <3>2. EncSlot \in SlotSet /\ sent \in Seq(SlotSet)
      <4>1. EncSlot[1] \in Generations /\ EncSlot[2] \in Indices
        BY <2>4, SymbolsAssumption
        DEF PutSource, EncPutSource, EncSlot, SafeInv, TypeInv, EncTyped, EncTypeOK,
            Generations, Indices
      <4>2. EncSlot = <<EncSlot[1], EncSlot[2]>>
        BY DEF EncSlot
      <4>3. QED
        BY <4>1, <4>2 DEF SlotSet, SafeInv, TypeInv, AppTyped
    <3>3. Max({o.source : o \in Options}) = longest.source
      <4>1. {o.source : o \in Options} \in SUBSET Nat
        BY EndsAssumption
      <4>2. longest.source \in {o.source : o \in Options}
        OBVIOUS
      <4>3. \A x \in {o.source : o \in Options} : x <= longest.source
        OBVIOUS
      <4> HIDE DEF Max
      <4>4. QED
        BY <4>1, <4>2, <4>3, MaxProperty
    <3>4. EncSlot[1] \in 1 .. longest.source
      <4>1. /\ opt.source \in Nat /\ longest.source \in Nat /\ opt.source <= longest.source
            /\ Len(sent) \in Nat /\ Len(sent) # opt.source /\ Len(sent) <= opt.source
            /\ EncSlot[1] \in Nat /\ EncSlot[1] >= 1
        BY <1>1, <2>4, <3>2, EndsAssumption
        DEF StreamInv, PutSource, AtEnd, SlotSet, Generations
      <4>2. QED
        BY <3>1, <4>1
    <3>5. EncSlot \in (1 .. Max({o.source : o \in Options})) \X Indices
      BY <3>2, <3>3, <3>4 DEF SlotSet
    <3>6. \A i \in DOMAIN sent : sent[i] # EncSlot
      <4>1. SUFFICES ASSUME NEW i \in DOMAIN sent, sent[i] = EncSlot PROVE FALSE
        OBVIOUS
      <4>2. EncSlot[1] < enc_generation
              \/ (EncSlot[1] = enc_generation /\ EncSlot[2] <= enc_rank)
        BY <4>1 DEF SafeInv, OriginInv, SentInv, Range
      <4>3. enc_generation \in Nat /\ enc_rank \in Nat
        BY SymbolsAssumption DEF SafeInv, TypeInv, EncTyped, EncTypeOK, Generations
      <4>4. QED
        BY <4>2, <4>3 DEF EncSlot
    <3>7. sent' = Append(sent, EncSlot) /\ delivered' = delivered
      BY <2>4 DEF PutSource
    <3>8. QED
      BY <2>1, <3>5, <3>6, <3>7 DEF Stream!Next, Stream!Put
  <2>5. QED
    BY <2>2, <2>3, <2>4, HistoryCases DEF SafeInv
<1>4. QED
  BY <1>2, <1>3

(* GACK with orderly applications implements a reliable stream: every      *)
(* symbol that comes out is the next one that went in, for any generation  *)
(* size and over channels that lose and repeat packets (src/gack).         *)
THEOREM GackImplementsStream ==
  ASSUME HopsKeepOrder,
         \E longest \in Options : \A o \in Options : o.source <= longest.source
  PROVE  Spec => Stream!Spec
<1>1. Init => Stream!Init
  BY DEF Init, EndsInit, IfOrderly, Stream!Init
<1>2. SafeInv /\ StreamInv /\ [Next]_vars => [Stream!Next]_(Stream!vars)
  BY StreamStep
<1>3. SafeInv /\ StreamInv /\ [Next]_vars => (SafeInv /\ StreamInv)'
  BY SafeInductive, StreamNext
<1>4. QED
  BY <1>1, <1>2, <1>3, SafeInductive, StreamInit, PTL DEF Spec, Stream!Spec

=============================================================================
