-------------------------- MODULE CodarqLink_proof ---------------------------
(***************************************************************************)
(* What the CODARQ encoder and decoder guarantee together, for every       *)
(* generation size, window and redundancy, over channels of any capacity   *)
(* that lose, repeat and reorder packets; in the second part, what they    *)
(* guarantee more of when the channels keep the order; in the third, that  *)
(* they are a reliable stream, with timers that expire at any time.        *)
(***************************************************************************)
EXTENDS CodarqLink, CodarqEnds_proof

(* Nothing in flight is newer than what was sent.                          *)
InFlight ==
  /\ coded \in Seq(CodedPackets)
  /\ \A i \in DOMAIN coded : coded[i].generation <= enc_gen_newest
  /\ feedback \in Seq(Feedbacks)
  /\ \A i \in DOMAIN feedback : feedback[i].decoded <= dec_gen_oldest_deleted

(* The decoder is not ahead of the encoder; it opens the first generation  *)
(* before it hears of it.                                                  *)
DecBehind == dec_gen_newest <= enc_gen_newest \/ dec_gen_newest = 1

(* The inductive invariant.                                                *)
LinkInv == EncInv /\ DecInv /\ InFlight /\ DecBehind /\ NothingDroppedEarly

-----------------------------------------------------------------------------
(* What a call of the encoder does to the list of open generations.        *)
LEMMA EncListPutSource ==
  ASSUME EncInv, EncPutSource
  PROVE  /\ enc_gen_newest' \in Nat
         /\ enc_gen_newest' = enc_gen_newest \/ enc_gen_newest' = enc_gen_newest + 1
         /\ EncActive' = EncActive \cup {enc_gen_newest'}
<1>1. enc_gen_newest' = EncSourceGen /\ EncActive' = EncActive \cup {EncSourceGen}
  BY DEF EncPutSource, EncActive
<1>2. enc_gen_newest \in Nat
  BY DEF EncInv, EncTypeOK
<1>3. CASE EncNewestFull
  BY <1>1, <1>2, <1>3 DEF EncSourceGen
<1>4. CASE ~ EncNewestFull
  <2>1. EncActive # {}
    BY <1>4 DEF EncNewestFull
  <2>2. Max(EncActive) = enc_gen_newest
    BY <2>1, EncNewest
  <2>3. EncSourceGen = enc_gen_newest
    BY <1>4, <2>2 DEF EncSourceGen
  <2>4. QED
    BY <1>1, <1>2, <2>3
<1>5. QED
  BY <1>3, <1>4

LEMMA EncListSame ==
  ASSUME EncInv,
         (\E vec \in Vectors : EncGetCoded(vec)) \/ EncRepairTimeout
  PROVE  UNCHANGED <<EncActive, enc_gen_newest>>
  BY DEF EncGetCoded, EncRepairTimeout, EncActive

LEMMA EncUnchanged ==
  ASSUME EncInv, UNCHANGED encVars
  PROVE  EncInv' /\ UNCHANGED <<EncActive, enc_gen_newest>>
<1>1. EncInv'
  BY EncNextInv
<1>2. QED
  BY <1>1 DEF encVars, EncActive

(* The newest generation stays the newest, or is among the dropped ones.   *)
LEMMA EncListPutFeedback ==
  ASSUME EncInv, NEW fb \in Feedbacks, EncPutFeedback(fb)
  PROVE  /\ enc_gen_newest' = enc_gen_newest
         /\ EncActive' = {g \in EncActive : g > fb.decoded}
<1> DEFINE kept == {g \in EncActive : g > fb.decoded}
<1>1. EncActive' = kept
  BY DEF EncPutFeedback, EncActive
<1>2. /\ EncActive \in SUBSET Nat /\ enc_gen_newest \in Nat /\ fb.decoded \in Nat
      /\ \A g \in EncActive : g <= enc_gen_newest
  BY DEF EncInv, EncTypeOK, EncWindow, EncActive, Generations, Feedbacks
<1>3. enc_gen_newest' = IF kept = {} THEN enc_gen_newest ELSE Max(kept)
  BY DEF EncPutFeedback
<1>4. ASSUME kept # {} PROVE Max(kept) = enc_gen_newest
  <2>1. PICK g \in kept : TRUE
    BY <1>4
  <2>2. enc_gen_newest \in EncActive
    BY <2>1, EncNewest
  <2>3. kept \in SUBSET Nat /\ \A h \in kept : h <= enc_gen_newest
    BY <1>2
  <2>4. enc_gen_newest \in kept
    BY <1>2, <2>1, <2>2, g > fb.decoded, g <= enc_gen_newest
  <2>5. QED
    BY <2>3, <2>4, MaxProperty
<1>5. QED
  BY <1>1, <1>3, <1>4

-----------------------------------------------------------------------------
(* What the two sides write is well formed.                                *)
LEMMA EncPacketType ==
  ASSUME EncInv, NEW vec \in Vectors, EncGetCoded(vec)
  PROVE  /\ EncPacket(vec) \in CodedPackets
         /\ EncPacket(vec).generation <= enc_gen_newest
<1>1. EncWithCoded \subseteq EncActive /\ EncWithCoded # {} /\ EncActive \subseteq Generations
  BY DEF EncGetCoded, EncWithCoded, EncInv, EncTypeOK, EncActive
<1>2. EncWithCoded \in SUBSET Nat
  BY <1>1 DEF Generations
<1>3. EncTurn \in EncWithCoded
  BY <1>1, <1>2, MinProperty DEF EncTurn
<1>4. EncTurn \in EncActive /\ EncTurn \in Generations
  BY <1>1, <1>3
<1>5. enc_containers[EncTurn] \in EncContainers
  BY <1>4 DEF EncInv, EncTypeOK, EncActive
<1>6. enc_containers[EncTurn].rank \in 0 .. Symbols
  BY <1>5 DEF EncContainers
<1>7. EncNextSeqno \in SeqNos
  BY SeqSpaceAssumption DEF EncInv, EncTypeOK, EncNextSeqno, SeqNos
<1>8. EncTurn <= enc_gen_newest
  BY <1>4 DEF EncInv, EncWindow
<1>9. QED
  BY <1>4, <1>6, <1>7, <1>8 DEF EncPacket, CodedPackets

LEMMA DecFeedbackType ==
  ASSUME DecInv
  PROVE  DecFeedback \in Feedbacks /\ DecFeedback.decoded = dec_gen_oldest_deleted
<1>1. /\ dec_gen_oldest_deleted \in Nat /\ dec_last_seqno \in SeqNos
      /\ DecActive \subseteq Generations
      /\ \A g \in DecActive : dec_containers[g] \in DecContainers
  BY DEF DecInv, DecTypeOK, DecActive
<1>2. ASSUME NEW g \in DecActive PROVE DecMissing(dec_containers[g]) \in RankDiffs
  <2>1. dec_containers[g].enc_rank \in Int /\ dec_containers[g].span \in SUBSET Vectors
    BY <1>1 DEF DecContainers
  <2>2. Rank(dec_containers[g].span) \in Int
    BY <2>1, RankType
  <2>3. QED
    BY <2>1, <2>2, RankSpaceAssumption DEF DecMissing, RankDiffs
<1>3. [g \in DecActive |-> DecMissing(dec_containers[g])] \in [DecActive -> RankDiffs]
  BY <1>2
<1>4. [g \in DecActive |-> DecMissing(dec_containers[g])]
        \in UNION {[gens -> RankDiffs] : gens \in SUBSET Generations}
  BY <1>1, <1>3
<1>5. QED
  BY <1>1, <1>4 DEF DecFeedback, Feedbacks


-----------------------------------------------------------------------------
(* Both newest generations only grow, so what was said in an old packet    *)
(* stays true.                                                             *)
LEMMA FlightStep ==
  ASSUME InFlight,
         enc_gen_newest \in Nat, enc_gen_newest' \in Nat, enc_gen_newest <= enc_gen_newest',
         dec_gen_oldest_deleted \in Nat, dec_gen_oldest_deleted' \in Nat,
         dec_gen_oldest_deleted <= dec_gen_oldest_deleted',
         coded' \in Seq(CodedPackets), feedback' \in Seq(Feedbacks),
         \A j \in DOMAIN coded' :
           \/ coded'[j].generation <= enc_gen_newest
           \/ \E k \in DOMAIN coded : coded'[j] = coded[k],
         \A j \in DOMAIN feedback' :
           \/ feedback'[j].decoded = dec_gen_oldest_deleted
           \/ \E k \in DOMAIN feedback : feedback'[j] = feedback[k]
  PROVE  InFlight'
<1>1. ASSUME NEW j \in DOMAIN coded' PROVE coded'[j].generation <= enc_gen_newest'
  <2>1. coded'[j].generation <= enc_gen_newest
    BY DEF InFlight
  <2>2. coded'[j] \in CodedPackets
    BY ElementOfSeq
  <2>3. coded'[j].generation \in Nat
    BY <2>2 DEF CodedPackets, Generations
  <2>4. QED
    BY <2>1, <2>3
<1>2. ASSUME NEW j \in DOMAIN feedback'
      PROVE  feedback'[j].decoded <= dec_gen_oldest_deleted'
  <2>1. feedback'[j].decoded <= dec_gen_oldest_deleted
    BY DEF InFlight
  <2>2. feedback'[j] \in Feedbacks
    BY ElementOfSeq
  <2>3. feedback'[j].decoded \in Nat
    BY <2>2 DEF Feedbacks
  <2>4. QED
    BY <2>1, <2>3
<1>3. QED
  BY <1>1, <1>2 DEF InFlight

(* A generation that leaves the encoder was delivered.                     *)
LEMMA DroppedStep ==
  ASSUME NothingDroppedEarly,
         dec_gen_oldest_deleted \in Nat, dec_gen_oldest_deleted' \in Nat,
         dec_gen_oldest_deleted <= dec_gen_oldest_deleted',
         \A g \in 1 .. enc_gen_newest' : g \notin EncActive' =>
           (g \in 1 .. enc_gen_newest /\ g \notin EncActive) \/ g <= dec_gen_oldest_deleted
  PROVE  NothingDroppedEarly'
<1>1. ASSUME NEW g \in 1 .. enc_gen_newest', g \notin EncActive'
      PROVE  g <= dec_gen_oldest_deleted'
  <2>1. g <= dec_gen_oldest_deleted
    BY <1>1 DEF NothingDroppedEarly
  <2>2. QED
    BY <1>1, <2>1
<1>2. QED
  BY <1>1 DEF NothingDroppedEarly

(* The components of the invariant the steps below use.                    *)
LEMMA LinkNumbers ==
  ASSUME LinkInv
  PROVE  /\ enc_gen_newest \in Nat /\ dec_gen_newest \in Nat
         /\ dec_gen_oldest_deleted \in Nat
         /\ coded \in Seq(CodedPackets) /\ feedback \in Seq(Feedbacks)
         /\ EncInv /\ DecInv /\ InFlight /\ DecBehind /\ NothingDroppedEarly
  BY DEF LinkInv, EncInv, EncTypeOK, DecInv, DecTypeOK, InFlight

-----------------------------------------------------------------------------
(* What the steps below use of the encoder's list.                         *)
LEMMA EncFacts ==
  ASSUME LinkInv
  PROVE  /\ enc_gen_newest \in Nat
         /\ EncActive \subseteq Generations
         /\ \A g \in EncActive :
              /\ enc_containers[g] \in EncContainers
              /\ enc_containers[g].rank \in 0 .. Symbols
              /\ enc_containers[g].sent \in 0 .. Symbols
              /\ g <= enc_gen_newest
         /\ Symbols \in Nat /\ Symbols >= 1
<1>1. /\ \A g \in EncActive : enc_containers[g] \in EncContainers
      /\ EncActive \subseteq Generations
  BY LinkNumbers DEF EncInv, EncTypeOK, EncActive
<1>2. \A g \in EncActive : g <= enc_gen_newest
  BY LinkNumbers DEF EncInv, EncWindow
<1>3. QED
  BY <1>1, <1>2, LinkNumbers, SymbolsAssumption DEF EncContainers

(* Only put_source changes the rank of a generation.                       *)
LEMMA EncRanksKept ==
  ASSUME LinkInv,
         \/ \E vec \in Vectors : EncGetCoded(vec)
         \/ EncRepairTimeout
         \/ \E fb \in Feedbacks : EncPutFeedback(fb)
         \/ UNCHANGED encVars
  PROVE  /\ EncActive' \subseteq EncActive
         /\ \A g \in EncActive' : enc_containers'[g].rank = enc_containers[g].rank
<1>1. \A g \in EncActive : enc_containers[g] \in EncContainers
  BY EncFacts
<1>2. ASSUME NEW vec \in Vectors, EncGetCoded(vec)
      PROVE  /\ EncActive' \subseteq EncActive
             /\ \A g \in EncActive' : enc_containers'[g].rank = enc_containers[g].rank
  <2>1. /\ EncActive' = EncActive
        /\ enc_containers' = [enc_containers EXCEPT ![EncTurn] = EncTaken(@)]
    BY <1>2 DEF EncGetCoded, EncActive
  <2>2. \A c \in EncContainers : EncTaken(c).rank = c.rank
    BY DEF EncTaken, EncContainers
  <2>3. ASSUME NEW g \in EncActive PROVE enc_containers'[g].rank = enc_containers[g].rank
    <3>1. enc_containers'[g] = EncTaken(enc_containers[g])
            \/ enc_containers'[g] = enc_containers[g]
      BY <2>1 DEF EncActive
    <3>2. QED
      BY <1>1, <2>2, <3>1
  <2>4. QED
    BY <2>1, <2>3
<1>3. CASE EncRepairTimeout
  <2>1. EncActive' = EncActive
    BY <1>3 DEF EncRepairTimeout, EncActive
  <2>2. ASSUME NEW g \in EncActive PROVE enc_containers'[g].rank = enc_containers[g].rank
    <3>1. \/ enc_containers' = enc_containers
          \/ enc_containers' = [enc_containers EXCEPT ![Min(EncActive)].to_send = @ + 1]
      BY <1>3 DEF EncRepairTimeout
    <3>2. enc_containers'[g] = [enc_containers[g] EXCEPT !.to_send = @ + 1]
            \/ enc_containers'[g] = enc_containers[g]
      BY <3>1 DEF EncActive
    <3>3. QED
      BY <1>1, <3>2 DEF EncContainers
  <2>3. QED
    BY <2>1, <2>2
<1>4. ASSUME NEW fb \in Feedbacks, EncPutFeedback(fb)
      PROVE  /\ EncActive' \subseteq EncActive
             /\ \A g \in EncActive' : enc_containers'[g].rank = enc_containers[g].rank
  <2> DEFINE kept == {g \in EncActive : g > fb.decoded}
  <2>1. enc_containers' =
           [g \in kept |->
              IF g \in EncAccepts(kept, fb)
              THEN [enc_containers[g] EXCEPT !.to_send = fb.missing[g]]
              ELSE enc_containers[g]]
    BY <1>4 DEF EncPutFeedback
  <2>2. EncActive' = kept /\ kept \subseteq EncActive
    BY <2>1 DEF EncActive
  <2>3. ASSUME NEW g \in kept PROVE enc_containers'[g].rank = enc_containers[g].rank
    <3>1. enc_containers'[g] = [enc_containers[g] EXCEPT !.to_send = fb.missing[g]]
            \/ enc_containers'[g] = enc_containers[g]
      BY <2>1
    <3>2. QED
      BY <1>1, <3>1 DEF EncContainers
  <2>4. QED
    BY <2>2, <2>3
<1>5. CASE UNCHANGED encVars
  BY <1>5 DEF encVars, EncActive
<1>6. QED
  BY <1>2, <1>3, <1>4, <1>5

-----------------------------------------------------------------------------
(* The steps of the two protocols and of the channels, one by one.         *)
LEMMA LinkInitInv == Init => LinkInv
<1> SUFFICES ASSUME Init PROVE LinkInv
  OBVIOUS
<1>1. EncInv /\ DecInv
  BY EncInitInv, DecInitInv DEF Init
<1>2. /\ enc_gen_newest = 0 /\ dec_gen_newest = 1
      /\ coded = <<>> /\ feedback = <<>>
  BY DEF Init, EncInit, DecInit
<1>3. InFlight
  BY <1>2 DEF InFlight
<1>4. DecBehind /\ NothingDroppedEarly
  BY <1>2 DEF DecBehind, NothingDroppedEarly
<1>5. QED
  BY <1>1, <1>3, <1>4 DEF LinkInv

LEMMA PutSourceLink == ASSUME LinkInv, PutSource PROVE LinkInv'
<1>1. EncPutSource /\ UNCHANGED <<decVars, coded, feedback>>
  BY DEF PutSource
<1>2. EncInv'
  BY <1>1, EncPutSourceInv, LinkNumbers
<1>3. /\ enc_gen_newest' \in Nat
      /\ enc_gen_newest' = enc_gen_newest \/ enc_gen_newest' = enc_gen_newest + 1
      /\ EncActive' = EncActive \cup {enc_gen_newest'}
  BY <1>1, EncListPutSource, LinkNumbers
<1>4. DecInv' /\ UNCHANGED <<dec_gen_newest, dec_gen_oldest_deleted>>
  BY <1>1, DecFeedbackInv, LinkNumbers
<1>5. InFlight'
  BY <1>1, <1>3, <1>4, LinkNumbers, FlightStep
<1>6. DecBehind'
  BY <1>3, <1>4, LinkNumbers DEF DecBehind
<1>7. NothingDroppedEarly'
  BY <1>3, <1>4, LinkNumbers, DroppedStep
<1>8. QED
  BY <1>2, <1>4, <1>5, <1>6, <1>7 DEF LinkInv

LEMMA SendCodedLink ==
  ASSUME LinkInv, NEW vec \in Vectors, SendCoded(vec) PROVE LinkInv'
<1>1. /\ EncGetCoded(vec) /\ UNCHANGED <<decVars, feedback>>
      /\ coded' = Append(coded, EncPacket(vec))
  BY DEF SendCoded
<1>2. EncInv' /\ UNCHANGED <<EncActive, enc_gen_newest>>
  BY <1>1, EncGetCodedInv, EncListSame, LinkNumbers
<1>3. DecInv' /\ UNCHANGED <<dec_gen_newest, dec_gen_oldest_deleted>>
  BY <1>1, DecFeedbackInv, LinkNumbers
<1>4. EncPacket(vec) \in CodedPackets /\ EncPacket(vec).generation <= enc_gen_newest
  BY <1>1, EncPacketType, LinkNumbers
<1>5. /\ coded' \in Seq(CodedPackets)
      /\ \A j \in DOMAIN coded' :
           coded'[j] = EncPacket(vec) \/ \E k \in DOMAIN coded : coded'[j] = coded[k]
  BY <1>1, <1>4, AddedTo, LinkNumbers
<1>6. InFlight'
  BY <1>1, <1>2, <1>3, <1>4, <1>5, LinkNumbers, FlightStep
<1>7. DecBehind'
  BY <1>2, <1>3, LinkNumbers DEF DecBehind
<1>8. NothingDroppedEarly'
  BY <1>2, <1>3, LinkNumbers, DroppedStep
<1>9. QED
  BY <1>2, <1>3, <1>6, <1>7, <1>8 DEF LinkInv

LEMMA RepairTimeoutLink == ASSUME LinkInv, RepairTimeout PROVE LinkInv'
<1>1. EncRepairTimeout /\ UNCHANGED <<decVars, coded, feedback>>
  BY DEF RepairTimeout, linkVars
<1>2. EncInv' /\ UNCHANGED <<EncActive, enc_gen_newest>>
  BY <1>1, EncRepairTimeoutInv, EncListSame, LinkNumbers
<1>3. DecInv' /\ UNCHANGED <<dec_gen_newest, dec_gen_oldest_deleted>>
  BY <1>1, DecFeedbackInv, LinkNumbers
<1>4. InFlight'
  BY <1>1, <1>2, <1>3, LinkNumbers, FlightStep
<1>5. DecBehind'
  BY <1>2, <1>3, LinkNumbers DEF DecBehind
<1>6. NothingDroppedEarly'
  BY <1>2, <1>3, LinkNumbers, DroppedStep
<1>7. QED
  BY <1>2, <1>3, <1>4, <1>5, <1>6 DEF LinkInv

LEMMA ReceiveFeedbackLink ==
  ASSUME LinkInv, NEW i, ReceiveFeedback(i) PROVE LinkInv'
<1> DEFINE fb == feedback[i]
           left == feedback'
<1>1. /\ i \in DOMAIN feedback /\ EncPutFeedback(fb)
      /\ left = RemoveAt(feedback, i) \/ left = feedback
      /\ UNCHANGED <<decVars, coded>>
  BY DEF ReceiveFeedback, Heads
<1>2. fb \in Feedbacks /\ fb.decoded <= dec_gen_oldest_deleted
  BY <1>1, LinkNumbers DEF InFlight
<1>3. /\ left \in Seq(Feedbacks)
      /\ \A j \in DOMAIN left : \E k \in DOMAIN feedback : left[j] = feedback[k]
  <2> HIDE DEF left
  <2>1. QED
    BY <1>1, TakenFrom, LinkNumbers
<1> HIDE DEF fb
<1>4. EncInv'
  BY <1>1, <1>2, EncPutFeedbackInv, LinkNumbers
<1>5. /\ enc_gen_newest' = enc_gen_newest
      /\ EncActive' = {g \in EncActive : g > fb.decoded}
  BY <1>1, <1>2, EncListPutFeedback, LinkNumbers
<1>6. DecInv' /\ UNCHANGED <<dec_gen_newest, dec_gen_oldest_deleted>>
  BY <1>1, DecFeedbackInv, LinkNumbers
<1>7. InFlight'
  BY <1>1, <1>3, <1>5, <1>6, LinkNumbers, FlightStep
<1>8. DecBehind'
  BY <1>5, <1>6, LinkNumbers DEF DecBehind
<1>9. NothingDroppedEarly'
  <2>1. ASSUME NEW g \in 1 .. enc_gen_newest', g \notin EncActive'
        PROVE  (g \in 1 .. enc_gen_newest /\ g \notin EncActive) \/ g <= dec_gen_oldest_deleted
    <3>1. g \in 1 .. enc_gen_newest /\ (g \notin EncActive \/ ~ (g > fb.decoded))
      BY <1>5, <2>1
    <3>2. fb.decoded \in Nat /\ g \in Nat
      BY <1>2, <3>1 DEF Feedbacks
    <3>3. QED
      BY <1>2, <3>1, <3>2, LinkNumbers
  <2>2. QED
    BY <1>6, <2>1, LinkNumbers, DroppedStep
<1>10. QED
  BY <1>4, <1>6, <1>7, <1>8, <1>9 DEF LinkInv

LEMMA ReceiveCodedLink ==
  ASSUME LinkInv, NEW i, ReceiveCoded(i) PROVE LinkInv'
<1> DEFINE pkt == coded[i]
           left == coded'
<1>1. /\ i \in DOMAIN coded /\ DecPutCoded(pkt)
      /\ left = RemoveAt(coded, i) \/ left = coded
      /\ UNCHANGED <<encVars, feedback>>
  BY DEF ReceiveCoded, Heads
<1>2. pkt \in CodedPackets /\ pkt.generation <= enc_gen_newest
  BY <1>1, LinkNumbers DEF InFlight
<1>3. /\ left \in Seq(CodedPackets)
      /\ \A j \in DOMAIN left : \E k \in DOMAIN coded : left[j] = coded[k]
  <2> HIDE DEF left
  <2>1. QED
    BY <1>1, TakenFrom, LinkNumbers
<1> HIDE DEF pkt
<1>4. EncInv' /\ UNCHANGED <<EncActive, enc_gen_newest>>
  BY <1>1, EncUnchanged, LinkNumbers
<1>5. /\ DecInv' /\ dec_gen_oldest_deleted' = dec_gen_oldest_deleted
      /\ dec_gen_newest' = dec_gen_newest \/ dec_gen_newest' = pkt.generation
  BY <1>1, <1>2, DecPutCodedInv, LinkNumbers
<1>6. InFlight'
  BY <1>1, <1>3, <1>4, <1>5, LinkNumbers, FlightStep
<1>7. DecBehind'
  BY <1>2, <1>4, <1>5, LinkNumbers DEF DecBehind
<1>8. NothingDroppedEarly'
  BY <1>4, <1>5, LinkNumbers, DroppedStep
<1>9. QED
  BY <1>4, <1>5, <1>6, <1>7, <1>8 DEF LinkInv

LEMMA GetSourceLink == ASSUME LinkInv, GetSource PROVE LinkInv'
<1>1. DecGetSource /\ UNCHANGED <<encVars, coded, feedback>>
  BY DEF GetSource
<1>2. EncInv' /\ UNCHANGED <<EncActive, enc_gen_newest>>
  BY <1>1, EncUnchanged, LinkNumbers
<1>3. /\ DecInv' /\ dec_gen_newest' = dec_gen_newest
      /\ dec_gen_oldest_deleted <= dec_gen_oldest_deleted'
  BY <1>1, DecGetSourceInv, LinkNumbers
<1>4. dec_gen_oldest_deleted' \in Nat
  BY <1>3 DEF DecInv, DecTypeOK
<1>5. InFlight'
  BY <1>1, <1>2, <1>3, <1>4, LinkNumbers, FlightStep
<1>6. DecBehind'
  BY <1>2, <1>3, LinkNumbers DEF DecBehind
<1>7. NothingDroppedEarly'
  BY <1>2, <1>3, <1>4, LinkNumbers, DroppedStep
<1>8. QED
  BY <1>2, <1>3, <1>5, <1>6, <1>7 DEF LinkInv

LEMMA FeedbackLink ==
  ASSUME LinkInv, FeedbackTimeout \/ SendFeedback PROVE LinkInv'
<1>1. /\ DecSendFeedback \/ DecGetFeedback
      /\ UNCHANGED <<encVars, coded>>
      /\ feedback' = feedback \/ feedback' = Append(feedback, DecFeedback)
  BY DEF FeedbackTimeout, SendFeedback, linkVars
<1>2. EncInv' /\ UNCHANGED <<EncActive, enc_gen_newest>>
  BY <1>1, EncUnchanged, LinkNumbers
<1>3. DecInv' /\ UNCHANGED <<dec_gen_newest, dec_gen_oldest_deleted>>
  BY <1>1, DecFeedbackInv, LinkNumbers
<1>4. DecFeedback \in Feedbacks /\ DecFeedback.decoded = dec_gen_oldest_deleted
  BY DecFeedbackType, LinkNumbers
<1>5. /\ feedback' \in Seq(Feedbacks)
      /\ \A j \in DOMAIN feedback' :
           feedback'[j] = DecFeedback \/ \E k \in DOMAIN feedback : feedback'[j] = feedback[k]
  <2>1. CASE feedback' = feedback
    BY <2>1, LinkNumbers
  <2>2. CASE feedback' = Append(feedback, DecFeedback)
    BY <1>4, <2>2, AddedTo, LinkNumbers
  <2>3. QED
    BY <1>1, <2>1, <2>2
<1>6. InFlight'
  BY <1>1, <1>2, <1>3, <1>4, <1>5, LinkNumbers, FlightStep
<1>7. DecBehind'
  BY <1>2, <1>3, LinkNumbers DEF DecBehind
<1>8. NothingDroppedEarly'
  BY <1>2, <1>3, LinkNumbers, DroppedStep
<1>9. QED
  BY <1>2, <1>3, <1>6, <1>7, <1>8 DEF LinkInv

LEMMA LoseLink ==
  ASSUME LinkInv, NEW i, LoseCoded(i) \/ LoseFeedback(i) PROVE LinkInv'
<1> DEFINE c == coded'
           f == feedback'
<1>1. /\ UNCHANGED <<encVars, decVars>>
      /\ c = coded \/ (i \in DOMAIN coded /\ c = RemoveAt(coded, i))
      /\ f = feedback \/ (i \in DOMAIN feedback /\ f = RemoveAt(feedback, i))
  BY DEF LoseCoded, LoseFeedback, Heads
<1>2. /\ c \in Seq(CodedPackets) /\ f \in Seq(Feedbacks)
      /\ \A j \in DOMAIN c : \E k \in DOMAIN coded : c[j] = coded[k]
      /\ \A j \in DOMAIN f : \E k \in DOMAIN feedback : f[j] = feedback[k]
  <2> HIDE DEF c, f
  <2>1. QED
    BY <1>1, RemoveAtType, LinkNumbers
<1>3. EncInv' /\ UNCHANGED <<EncActive, enc_gen_newest>>
  BY <1>1, EncUnchanged, LinkNumbers
<1>4. DecInv' /\ UNCHANGED <<dec_gen_newest, dec_gen_oldest_deleted>>
  BY <1>1, DecFeedbackInv, LinkNumbers
<1>5. InFlight'
  BY <1>2, <1>3, <1>4, LinkNumbers, FlightStep
<1>6. DecBehind'
  BY <1>3, <1>4, LinkNumbers DEF DecBehind
<1>7. NothingDroppedEarly'
  BY <1>3, <1>4, LinkNumbers, DroppedStep
<1>8. QED
  BY <1>3, <1>4, <1>5, <1>6, <1>7 DEF LinkInv

LEMMA LinkNextInv == ASSUME LinkInv, [Next]_vars PROVE LinkInv'
<1>1. CASE UNCHANGED vars
  <2>1. UNCHANGED <<encVars, decVars, coded, feedback>>
    BY <1>1 DEF vars, linkVars
  <2>2. EncInv' /\ UNCHANGED <<EncActive, enc_gen_newest>>
    BY <2>1, EncUnchanged, LinkNumbers
  <2>3. DecInv' /\ UNCHANGED <<dec_gen_newest, dec_gen_oldest_deleted>>
    BY <2>1, DecFeedbackInv, LinkNumbers
  <2>4. InFlight' /\ DecBehind' /\ NothingDroppedEarly'
    BY <2>1, <2>2, <2>3, LinkNumbers DEF InFlight, DecBehind, NothingDroppedEarly
  <2>5. QED
    BY <2>2, <2>3, <2>4 DEF LinkInv
<1>2. ASSUME NEW vec \in Vectors, SendCoded(vec) PROVE LinkInv'
  BY <1>2, SendCodedLink
<1>3. ASSUME NEW i, ReceiveCoded(i) \/ LoseCoded(i) PROVE LinkInv'
  BY <1>3, ReceiveCodedLink, LoseLink
<1>4. ASSUME NEW i, ReceiveFeedback(i) \/ LoseFeedback(i) PROVE LinkInv'
  BY <1>4, ReceiveFeedbackLink, LoseLink
<1>5. QED
  BY <1>1, <1>2, <1>3, <1>4, PutSourceLink, RepairTimeoutLink, GetSourceLink, FeedbackLink
  DEF Next

-----------------------------------------------------------------------------
(* The invariant holds of every behaviour.                                 *)
THEOREM LinkInvariant == Spec => []LinkInv
<1>1. LinkInv /\ [Next]_vars => LinkInv'
  BY LinkNextInv
<1>2. QED
  BY <1>1, LinkInitInv, PTL DEF Spec

(* Type correctness of both ends and of the channels.                      *)
THEOREM LinkTypeCorrect == Spec => []TypeOK
<1>1. LinkInv => TypeOK
  <2>1. SUFFICES ASSUME LinkInv PROVE TypeOK
    OBVIOUS
  <2>2. EncTypeOK /\ DecTypeOK /\ coded \in Seq(CodedPackets)
    BY <2>1 DEF LinkInv, EncInv, DecInv, InFlight
  <2>3. ASSUME NEW i \in DOMAIN feedback
        PROVE  /\ feedback[i].decoded \in Nat
               /\ feedback[i].seqno \in SeqNos
               /\ DOMAIN feedback[i].missing \subseteq Generations
               /\ \A g \in DOMAIN feedback[i].missing : feedback[i].missing[g] \in RankDiffs
    <3>1. feedback[i] \in Feedbacks
      BY <2>1, LinkNumbers, ElementOfSeq
    <3>2. /\ feedback[i].decoded \in Nat /\ feedback[i].seqno \in SeqNos
          /\ feedback[i].missing \in UNION {[gens -> RankDiffs] : gens \in SUBSET Generations}
      BY <3>1 DEF Feedbacks
    <3>3. PICK gens \in SUBSET Generations : feedback[i].missing \in [gens -> RankDiffs]
      BY <3>2
    <3>4. QED
      BY <3>2, <3>3
  <2>4. QED
    BY <2>2, <2>3 DEF TypeOK
<1>2. QED
  BY <1>1, LinkInvariant, PTL

(* What the encoder dropped was delivered, for channels of any size that   *)
(* lose, repeat and reorder packets and for timers that expire at any time.*)
THEOREM LinkDropsNothingEarly == Spec => []NothingDroppedEarly
<1>1. LinkInv => NothingDroppedEarly
  BY DEF LinkInv
<1>2. QED
  BY <1>1, LinkInvariant, PTL

(* The window of the encoder bounds the decoder.                           *)
THEOREM LinkBoundsDecoder == Spec => []DecoderWindow
<1>1. LinkInv => DecoderWindow
  <2>1. SUFFICES ASSUME LinkInv PROVE Cardinality(DecActive) <= MaxContainers
    BY DEF DecoderWindow
  <2>2. DecActive = (dec_gen_oldest_deleted + 1) .. dec_gen_newest
    BY <2>1, LinkNumbers DEF DecInv, DecContiguous
  <2>3. IsFiniteSet(EncActive) /\ Cardinality(EncActive) <= MaxContainers
    BY <2>1, LinkNumbers DEF EncInv, EncTypeOK, EncWindow, EncActive
  <2>4. IsFiniteSet({1}) /\ Cardinality({1}) = 1
    BY FS_Singleton
  <2>5. DecActive \subseteq EncActive \/ DecActive \subseteq {1}
    <3>1. CASE dec_gen_newest <= enc_gen_newest
      <4>1. \A g \in DecActive : g \in 1 .. enc_gen_newest /\ ~ (g <= dec_gen_oldest_deleted)
        BY <2>1, <2>2, <3>1, LinkNumbers
      <4>2. QED
        BY <2>1, <4>1, LinkNumbers DEF NothingDroppedEarly
    <3>2. CASE dec_gen_newest = 1
      BY <2>1, <2>2, <3>2, LinkNumbers
    <3>3. QED
      BY <2>1, <3>1, <3>2, LinkNumbers DEF DecBehind
  <2>6. CASE DecActive \subseteq EncActive
    <3>1. Cardinality(DecActive) <= Cardinality(EncActive)
      BY <2>3, <2>6, FS_Subset
    <3>2. Cardinality(DecActive) \in Nat /\ Cardinality(EncActive) \in Nat
      BY <2>3, <2>6, FS_Subset, FS_CardinalityType
    <3>3. QED
      BY <2>3, <3>1, <3>2, MaxContainersAssumption
  <2>7. CASE DecActive \subseteq {1}
    <3>1. Cardinality(DecActive) <= 1
      BY <2>4, <2>7, FS_Subset
    <3>2. Cardinality(DecActive) \in Nat
      BY <2>4, <2>7, FS_Subset, FS_CardinalityType
    <3>3. QED
      BY <3>1, <3>2, MaxContainersAssumption
  <2>8. QED
    BY <2>5, <2>6, <2>7
<1>2. QED
  BY <1>1, LinkInvariant, PTL

-----------------------------------------------------------------------------
(* The second part: channels that keep the order.                          *)

(* The decoder's span of generation g combines only the symbols 1 .. r.    *)
Nested(g, r) == dec_containers[g].span \subseteq SUBSET (1 .. r)

(* A packet combines the symbols its header tells of, and of the packets   *)
(* of a generation a later one tells of no fewer.                          *)
RanksInOrder ==
  /\ \A i \in DOMAIN coded : coded[i].vec \subseteq 1 .. coded[i].rank
  /\ \A i, j \in DOMAIN coded :
       i < j /\ coded[i].generation = coded[j].generation => coded[i].rank <= coded[j].rank
  /\ \A i \in DOMAIN coded : coded[i].generation \in EncActive =>
       coded[i].rank <= enc_containers[coded[i].generation].rank

(* What the decoder has read, the packets still to come tell of as well.   *)
SpansInOrder ==
  \A g \in DecActive :
    /\ Nested(g, dec_containers[g].enc_rank)
    /\ \A i \in DOMAIN coded : coded[i].generation = g => Nested(g, coded[i].rank)
    /\ g \in EncActive => Nested(g, enc_containers[g].rank)
    /\ g > enc_gen_newest => dec_containers[g].span = EmptySpan

OrderInv == RanksInOrder /\ SpansInOrder

-----------------------------------------------------------------------------
(* A decoder that has read combinations of r symbols has at most r rows.   *)
LEMMA RankNested ==
  ASSUME NEW r \in 0 .. Symbols, NEW span \in SUBSET (SUBSET (1 .. r))
  PROVE  Rank(span) <= r
<1>1. r \in Nat /\ Symbols \in Nat /\ 1 .. r \subseteq Indices
  BY SymbolsAssumption DEF Indices
<1>2. IsFiniteSet(1 .. r) /\ Cardinality(1 .. r) = r
  <2>1. IsFiniteSet(1 .. r) /\ Cardinality(1 .. r) = IF 1 > r THEN 0 ELSE r - 1 + 1
    BY <1>1, FS_Interval
  <2>2. QED
    BY <1>1, <2>1
<1>3. Pivots(span) \subseteq 1 .. r
  <2>1. ASSUME NEW v \in span \ {{}} PROVE Pivot(v) \in 1 .. r
    BY <1>1, PivotLeast DEF Vectors
  <2>2. QED
    BY <2>1 DEF Pivots
<1>4. QED
  BY <1>2, <1>3, FS_Subset DEF Rank

-----------------------------------------------------------------------------
(* A channel that keeps the order loses its first packet or nothing.       *)
LEMMA HeadTaken ==
  ASSUME NEW S, NEW s \in Seq(S), NEW t, NEW i \in DOMAIN s \cap {1},
         t = RemoveAt(s, i) \/ t = s
  PROVE  /\ t \in Seq(S)
         /\ \E d \in {0, 1} : \A j \in DOMAIN t : j + d \in DOMAIN s /\ t[j] = s[j + d]
         /\ t = RemoveAt(s, i) => \A j \in DOMAIN t : j + 1 \in DOMAIN s /\ t[j] = s[j + 1]
<1>1. i = 1 /\ 1 \in DOMAIN s /\ Len(s) \in Nat /\ DOMAIN s = 1 .. Len(s)
  OBVIOUS
<1>2. CASE t = s /\ t # RemoveAt(s, i)
  BY <1>1, <1>2
<1>3. CASE t = RemoveAt(s, 1)
  <2>1. /\ t \in Seq(S) /\ Len(t) = Len(s) - 1
        /\ \A j \in 1 .. Len(s) - 1 : t[j] = IF j < 1 THEN s[j] ELSE s[j + 1]
    BY <1>1, <1>3, RemoveAtElements
  <2>2. DOMAIN t = 1 .. Len(s) - 1
    BY <2>1
  <2>3. \A j \in DOMAIN t : j + 1 \in DOMAIN s /\ t[j] = s[j + 1]
    BY <1>1, <2>1, <2>2
  <2>4. QED
    BY <2>1, <2>3
<1>4. QED
  BY <1>1, <1>2, <1>3

(* What a call of the encoder does to the generations it has open.         *)
EncCall ==
  \/ EncPutSource
  \/ \E vec \in Vectors : EncGetCoded(vec)
  \/ EncRepairTimeout
  \/ \E fb \in Feedbacks : EncPutFeedback(fb)
  \/ UNCHANGED encVars

(* Ranks only grow, and a generation that is opened is a new one.          *)
LEMMA EncGrows ==
  ASSUME LinkInv, EncCall
  PROVE  /\ enc_gen_newest' \in Nat /\ enc_gen_newest <= enc_gen_newest'
         /\ \A g \in EncActive' \ EncActive :
              g > enc_gen_newest /\ enc_containers'[g].last_seqno = 0
         /\ \A g \in EncActive' \cap EncActive :
              enc_containers[g].rank <= enc_containers'[g].rank
<1>1. CASE EncPutSource
  <2> DEFINE gen == EncSourceGen
             open == EncOpen(gen)
  <2>1. /\ EncActive' = EncActive \cup {gen} /\ enc_gen_newest' = gen
        /\ \A g \in EncActive' : g # gen => enc_containers'[g] = enc_containers[g]
        /\ \E plan : enc_containers'[gen] =
             [open EXCEPT !.rank = open.rank + 1, !.to_send = plan]
    BY <1>1 DEF EncPutSource, EncActive
  <2>2. /\ enc_gen_newest' \in Nat
        /\ enc_gen_newest' = enc_gen_newest \/ enc_gen_newest' = enc_gen_newest + 1
    BY <1>1, EncListPutSource, LinkNumbers
  <2>3. gen \notin EncActive => gen > enc_gen_newest
    <3>1. CASE EncNewestFull
      BY <3>1, LinkNumbers DEF EncSourceGen
    <3>2. CASE ~ EncNewestFull
      <4>1. EncActive # {} /\ gen = Max(EncActive)
        BY <3>2 DEF EncNewestFull, EncSourceGen
      <4>2. QED
        BY <4>1, EncNewest, LinkNumbers
    <3>3. QED
      BY <3>1, <3>2
  <2>4. gen \notin EncActive => open = [rank |-> 0, sent |-> 0, last_seqno |-> 0, to_send |-> 0]
    BY DEF EncOpen
  <2>5. gen \in EncActive => open = enc_containers[gen] /\ open \in EncContainers
    BY EncFacts DEF EncOpen
  <2> HIDE DEF gen, open
  <2>6. gen \notin EncActive => enc_containers'[gen].last_seqno = 0
    <3>1. SUFFICES ASSUME gen \notin EncActive PROVE enc_containers'[gen].last_seqno = 0
      OBVIOUS
    <3>2. open \in [rank : {0}, sent : {0}, last_seqno : {0}, to_send : {0}]
      BY <2>4, <3>1
    <3>3. PICK plan, rank : enc_containers'[gen] = [open EXCEPT !.rank = rank, !.to_send = plan]
      BY <2>1
    <3>4. [open EXCEPT !.rank = rank, !.to_send = plan].last_seqno = 0
      BY <3>2
    <3>5. QED
      BY <3>3, <3>4
  <2>7. gen \in EncActive => enc_containers[gen].rank <= enc_containers'[gen].rank
    <3>1. SUFFICES ASSUME gen \in EncActive
                   PROVE  enc_containers[gen].rank <= enc_containers'[gen].rank
      OBVIOUS
    <3>2. open.rank \in Nat /\ enc_containers'[gen].rank = open.rank + 1
      BY <2>1, <2>5, <3>1, SymbolsAssumption DEF EncContainers
    <3>3. QED
      BY <2>5, <3>1, <3>2
  <2>8. \A g \in EncActive : enc_containers[g].rank \in Nat
    BY EncFacts
  <2>9. ASSUME NEW g \in EncActive' \cap EncActive
        PROVE  enc_containers[g].rank <= enc_containers'[g].rank
    <3>1. enc_containers[g].rank \in Nat /\ (g # gen => enc_containers'[g] = enc_containers[g])
      BY <2>1, <2>8
    <3>2. CASE g = gen
      BY <2>7, <3>2
    <3>3. CASE g # gen
      <4>1. enc_containers'[g].rank = enc_containers[g].rank
        BY <3>1, <3>3
      <4>2. QED
        BY <3>1, <4>1
    <3>4. QED
      BY <3>2, <3>3
  <2>10. ASSUME NEW g \in EncActive' \ EncActive
         PROVE  g > enc_gen_newest /\ enc_containers'[g].last_seqno = 0
    BY <2>1, <2>3, <2>6
  <2>11. QED
    BY <2>2, <2>9, <2>10, LinkNumbers
<1>2. CASE ~ EncPutSource
  <2>1. /\ EncActive' \subseteq EncActive
        /\ \A g \in EncActive' : enc_containers'[g].rank = enc_containers[g].rank
    BY <1>2, EncRanksKept DEF EncCall
  <2>2. enc_gen_newest' = enc_gen_newest
    BY <1>2, EncListSame, EncUnchanged, EncListPutFeedback, LinkNumbers DEF EncCall
  <2>3. \A g \in EncActive : enc_containers[g].rank \in Nat
    BY EncFacts
  <2>4. QED
    BY <2>1, <2>2, <2>3, LinkNumbers
<1>3. QED
  BY <1>1, <1>2

(* All but sending.                                                        *)
EncOther ==
  \/ EncPutSource
  \/ EncRepairTimeout
  \/ \E fb \in Feedbacks : EncPutFeedback(fb)
  \/ UNCHANGED encVars

(* Only sending moves the number of the latest packet.                     *)
LEMMA EncNumbersKept ==
  ASSUME LinkInv, EncOther
  PROVE  /\ enc_seqno' = enc_seqno
         /\ \A g \in EncActive' \cap EncActive :
              enc_containers'[g].last_seqno = enc_containers[g].last_seqno
<1>1. \A g \in EncActive : enc_containers[g] \in EncContainers
  BY EncFacts
<1>2. CASE EncPutSource
  <2> DEFINE gen == EncSourceGen
             open == EncOpen(gen)
  <2>1. /\ \A g \in EncActive' : g # gen => enc_containers'[g] = enc_containers[g]
        /\ \E plan, rank : gen \in EncActive' /\ enc_containers'[gen] =
             [open EXCEPT !.rank = rank, !.to_send = plan]
    BY <1>2 DEF EncPutSource, EncActive
  <2>2. gen \in EncActive => open = enc_containers[gen] /\ open \in EncContainers
    BY <1>1 DEF EncOpen
  <2> HIDE DEF gen, open
  <2>3. gen \in EncActive => enc_containers'[gen].last_seqno = enc_containers[gen].last_seqno
    BY <2>1, <2>2 DEF EncContainers
  <2>4. QED
    BY <1>2, <2>1, <2>3 DEF EncPutSource
<1>3. CASE EncRepairTimeout
  <2>1. EncActive' = EncActive
    BY <1>3 DEF EncRepairTimeout, EncActive
  <2>2. ASSUME NEW g \in EncActive
        PROVE  enc_containers'[g].last_seqno = enc_containers[g].last_seqno
    <3>1. \/ enc_containers' = enc_containers
          \/ enc_containers' = [enc_containers EXCEPT ![Min(EncActive)].to_send = @ + 1]
      BY <1>3 DEF EncRepairTimeout
    <3>2. enc_containers'[g] = [enc_containers[g] EXCEPT !.to_send = @ + 1]
            \/ enc_containers'[g] = enc_containers[g]
      BY <3>1 DEF EncActive
    <3>3. QED
      BY <1>1, <3>2 DEF EncContainers
  <2>3. QED
    BY <1>3, <2>1, <2>2 DEF EncRepairTimeout
<1>4. ASSUME NEW fb \in Feedbacks, EncPutFeedback(fb)
      PROVE  /\ enc_seqno' = enc_seqno
             /\ \A g \in EncActive' \cap EncActive :
                  enc_containers'[g].last_seqno = enc_containers[g].last_seqno
  <2> DEFINE kept == {g \in EncActive : g > fb.decoded}
  <2>1. enc_containers' =
           [g \in kept |->
              IF g \in EncAccepts(kept, fb)
              THEN [enc_containers[g] EXCEPT !.to_send = fb.missing[g]]
              ELSE enc_containers[g]]
    BY <1>4 DEF EncPutFeedback
  <2>2. EncActive' = kept
    BY <2>1 DEF EncActive
  <2>3. ASSUME NEW g \in kept
        PROVE  enc_containers'[g].last_seqno = enc_containers[g].last_seqno
    <3>1. enc_containers'[g] = [enc_containers[g] EXCEPT !.to_send = fb.missing[g]]
            \/ enc_containers'[g] = enc_containers[g]
      BY <2>1
    <3>2. QED
      BY <1>1, <3>1 DEF EncContainers
  <2>4. enc_seqno' = enc_seqno
    BY <1>4 DEF EncPutFeedback
  <2>5. QED
    BY <2>2, <2>3, <2>4
<1>5. CASE UNCHANGED encVars
  BY <1>5 DEF encVars, EncActive
<1>6. QED
  BY <1>2, <1>3, <1>4, <1>5 DEF EncOther

(* What sending does: the packet tells of all the symbols of its           *)
(* generation.                                                             *)
LEMMA EncSends ==
  ASSUME LinkInv, NEW vec \in Vectors, EncGetCoded(vec)
  PROVE  /\ EncTurn \in EncActive /\ EncActive' = EncActive
         /\ EncPacket(vec) \in CodedPackets
         /\ EncPacket(vec).generation = EncTurn
         /\ EncPacket(vec).rank = enc_containers[EncTurn].rank
         /\ EncPacket(vec).vec = vec /\ vec \subseteq 1 .. enc_containers[EncTurn].rank
         /\ EncPacket(vec).seqno = EncNextSeqno /\ enc_seqno' = EncNextSeqno
         /\ \A g \in EncActive :
              /\ enc_containers'[g].rank = enc_containers[g].rank
              /\ enc_containers'[g].last_seqno =
                   IF g = EncTurn THEN EncNextSeqno ELSE enc_containers[g].last_seqno
<1>1. EncTurn \in EncActive
  <2>1. EncWithCoded \subseteq EncActive /\ EncWithCoded # {}
    BY DEF EncGetCoded, EncWithCoded
  <2>2. EncWithCoded \in SUBSET Nat
    BY <2>1, EncFacts DEF Generations
  <2>3. QED
    BY <2>1, <2>2, MinProperty DEF EncTurn
<1> DEFINE rank == enc_containers[EncTurn].rank
           past == enc_containers[EncTurn].sent
<1>2. rank \in 0 .. Symbols /\ past \in 0 .. Symbols /\ Symbols \in Nat
  BY <1>1, EncFacts
<1>3. vec \in Payloads(rank, past)
  BY DEF EncGetCoded, EncPayloads
<1>4. vec \subseteq 1 .. rank
  <2> HIDE DEF rank, past
  <2>1. QED
    BY <1>2, <1>3 DEF Payloads
<1>5. /\ EncActive' = EncActive /\ enc_seqno' = EncNextSeqno
      /\ \A g \in EncActive : enc_containers'[g] =
           IF g = EncTurn THEN EncTaken(enc_containers[g]) ELSE enc_containers[g]
  BY DEF EncGetCoded, EncActive
<1>6. \A c \in EncContainers : EncTaken(c).rank = c.rank /\ EncTaken(c).last_seqno = EncNextSeqno
  BY DEF EncTaken, EncContainers
<1>7. ASSUME NEW g \in EncActive
      PROVE  /\ enc_containers'[g].rank = enc_containers[g].rank
             /\ enc_containers'[g].last_seqno =
                  IF g = EncTurn THEN EncNextSeqno ELSE enc_containers[g].last_seqno
  <2>1. enc_containers[g] \in EncContainers
    BY EncFacts
  <2>2. QED
    BY <1>5, <1>6, <2>1
<1>8. /\ EncPacket(vec).generation = EncTurn
      /\ EncPacket(vec).rank = enc_containers[EncTurn].rank
      /\ EncPacket(vec).vec = vec /\ EncPacket(vec).seqno = EncNextSeqno
  BY DEF EncPacket
<1>9. EncPacket(vec) \in CodedPackets
  BY EncPacketType, LinkNumbers
<1>10. QED
  BY <1>1, <1>4, <1>5, <1>7, <1>8, <1>9

-----------------------------------------------------------------------------
(* What put_coded does to the decoder's containers: the one of the packet  *)
(* reads it, older ones may be opened on the way or be known to be full.   *)
LEMMA DecPutSpans ==
  ASSUME LinkInv, NEW pkt \in CodedPackets, DecPutCoded(pkt)
  PROVE  \A g \in DecActive' :
           \/ /\ g # pkt.generation /\ g \in DecActive
              /\ dec_containers'[g].span = dec_containers[g].span
              /\ dec_containers'[g].index = dec_containers[g].index
              /\ \/ dec_containers'[g].enc_rank = dec_containers[g].enc_rank
                 \/ dec_containers'[g].enc_rank = Symbols /\ g < pkt.generation
           \/ /\ g < pkt.generation /\ g \notin DecActive
              /\ dec_containers'[g] = NewDecContainer
           \/ /\ g = pkt.generation
              /\ dec_containers'[g].enc_rank = pkt.rank
              /\ dec_containers'[g].index =
                   IF g \in DecActive THEN dec_containers[g].index ELSE 0
              /\ LET span == IF g \in DecActive THEN dec_containers[g].span ELSE EmptySpan
                 IN  \/ dec_containers'[g].span = span
                     \/ dec_containers'[g].span = ReadPayload(span, pkt.vec)
<1> DEFINE gen == pkt.generation
           opened == DecOpened(gen)
           conts == DecWithOpened(opened)
<1>1. gen \in Generations /\ gen \in Nat
  BY DEF CodedPackets, Generations
<1>2. /\ dec_gen_oldest_deleted \in Nat /\ dec_gen_newest \in Nat
      /\ DecActive = (dec_gen_oldest_deleted + 1) .. dec_gen_newest
      /\ \A g \in DecActive : dec_containers[g] \in DecContainers
  BY LinkNumbers DEF DecInv, DecTypeOK, DecContiguous, DecActive
<1>3. CASE gen <= dec_gen_oldest_deleted
  <2>1. dec_containers' = dec_containers /\ gen \notin DecActive
    BY <1>1, <1>2, <1>3 DEF DecPutCoded
  <2>2. DecActive' = DecActive
    BY <2>1 DEF DecActive
  <2>3. QED
    BY <2>1, <2>2
<1>4. CASE gen > dec_gen_oldest_deleted
  <2>1. DecFindsContainer(gen)
    BY <1>1, <1>2, <1>4 DEF DecFindsContainer
  <2>2. dec_containers' = [conts EXCEPT ![gen] = DecRead(@, pkt)]
    BY <1>1, <1>2, <1>4, <2>1 DEF DecPutCoded
  <2>3. /\ gen \in DOMAIN conts /\ DOMAIN conts = DecActive \cup opened
        /\ \A g \in DOMAIN conts :
             /\ conts[g] \in DecContainers
             /\ conts[g].index = IF g \in DecActive THEN dec_containers[g].index ELSE 0
    BY <1>1, <1>4, <2>1, LinkNumbers, DecOpenedList DEF DecWithOpened
  <2>4. opened \cap DecActive = {} /\ (\A g \in opened : g <= gen /\ g \in Nat)
        /\ (opened # {} => \A g \in DecActive : g < gen)
    BY <1>1, <1>2, <1>4, <2>1 DEF DecOpened, DecFindsContainer
  <2>5. ASSUME NEW g \in DOMAIN conts
        PROVE  \/ g \in opened /\ conts[g] = NewDecContainer
               \/ /\ g \in DecActive /\ conts[g].span = dec_containers[g].span
                  /\ \/ conts[g].enc_rank = dec_containers[g].enc_rank
                     \/ conts[g].enc_rank = Symbols /\ g < gen
    <3>1. CASE g \in opened
      BY <2>3, <3>1 DEF DecWithOpened
    <3>2. CASE g \notin opened
      <4>1. g \in DecActive /\ dec_containers[g] \in DecContainers
        BY <1>2, <2>3, <3>2
      <4>2. \/ conts[g] = [dec_containers[g] EXCEPT !.enc_rank = Symbols] /\ opened # {}
            \/ conts[g] = dec_containers[g]
        BY <2>3, <3>2 DEF DecWithOpened
      <4>3. QED
        BY <2>4, <4>1, <4>2 DEF DecContainers
    <3>3. QED
      BY <3>1, <3>2
  <2>6. DecActive' = DOMAIN conts
    BY <2>2 DEF DecActive
  <2>7. NewDecContainer.span = EmptySpan /\ NewDecContainer.index = 0
    BY DEF NewDecContainer
  <2> HIDE DEF conts, opened
  <2>8. ASSUME NEW g \in DOMAIN conts, g # gen
        PROVE  \/ /\ g # gen /\ g \in DecActive
                  /\ dec_containers'[g].span = dec_containers[g].span
                  /\ dec_containers'[g].index = dec_containers[g].index
                  /\ \/ dec_containers'[g].enc_rank = dec_containers[g].enc_rank
                     \/ dec_containers'[g].enc_rank = Symbols /\ g < gen
               \/ /\ g < gen /\ g \notin DecActive
                  /\ dec_containers'[g] = NewDecContainer
    <3>1. dec_containers'[g] = conts[g]
      BY <2>2, <2>8
    <3>2. CASE g \in opened /\ conts[g] = NewDecContainer
      <4>1. g < gen /\ g \notin DecActive
        BY <1>1, <2>4, <2>8, <3>2
      <4>2. QED
        BY <3>1, <3>2, <4>1
    <3>3. CASE ~ (g \in opened /\ conts[g] = NewDecContainer)
      BY <2>3, <2>5, <2>8, <3>1, <3>3
    <3>4. QED
      BY <3>2, <3>3
  <2>9. /\ dec_containers'[gen].enc_rank = pkt.rank
        /\ dec_containers'[gen].index =
             IF gen \in DecActive THEN dec_containers[gen].index ELSE 0
        /\ \/ dec_containers'[gen].span = conts[gen].span
           \/ dec_containers'[gen].span = ReadPayload(conts[gen].span, pkt.vec)
    <3>1. dec_containers'[gen] = DecRead(conts[gen], pkt) /\ conts[gen] \in DecContainers
      BY <2>2, <2>3
    <3>2. QED
      BY <2>3, <3>1 DEF DecRead, DecContainers
  <2>10. conts[gen].span = IF gen \in DecActive THEN dec_containers[gen].span ELSE EmptySpan
    BY <2>3, <2>4, <2>5, <2>7
  <2>11. QED
    BY <2>6, <2>8, <2>9, <2>10
<1>5. QED
  BY <1>1, <1>2, <1>3, <1>4

(* The other calls open nothing and change no span.                        *)
LEMMA DecOtherSpans ==
  ASSUME LinkInv, DecGetSource \/ DecSendFeedback \/ DecGetFeedback \/ UNCHANGED decVars
  PROVE  \A g \in DecActive' :
           /\ g \in DecActive
           /\ dec_containers'[g].span = dec_containers[g].span
           /\ dec_containers'[g].enc_rank = dec_containers[g].enc_rank
<1>1. \A g \in DecActive : dec_containers[g] \in DecContainers
  BY LinkNumbers DEF DecInv, DecTypeOK, DecActive
<1>2. CASE UNCHANGED dec_containers
  BY <1>2 DEF DecActive
<1>3. CASE DecGetSource
  <2> DEFINE oldest == Min(DecActive)
             rest == DecActive \ {oldest}
             index == dec_containers[oldest].index + 1
  <2>1. \/ dec_containers' = [g \in rest |-> dec_containers[g]]
        \/ dec_containers' = [dec_containers EXCEPT ![oldest].index = index]
    BY <1>3 DEF DecGetSource
  <2> HIDE DEF oldest, index
  <2>2. CASE dec_containers' = [g \in rest |-> dec_containers[g]]
    BY <2>2 DEF DecActive
  <2>3. CASE dec_containers' = [dec_containers EXCEPT ![oldest].index = index]
    <3>1. DecActive' = DecActive
      BY <2>3 DEF DecActive
    <3>2. ASSUME NEW g \in DecActive
          PROVE  /\ dec_containers'[g].span = dec_containers[g].span
                 /\ dec_containers'[g].enc_rank = dec_containers[g].enc_rank
      <4>1. \/ dec_containers'[g] = [dec_containers[g] EXCEPT !.index = index]
            \/ dec_containers'[g] = dec_containers[g]
        BY <2>3 DEF DecActive
      <4>2. QED
        BY <1>1, <4>1 DEF DecContainers
    <3>3. QED
      BY <3>1, <3>2
  <2>4. QED
    BY <2>1, <2>2, <2>3
<1>4. QED
  BY <1>2, <1>3 DEF DecSendFeedback, DecGetFeedback, decVars

-----------------------------------------------------------------------------
(* The steps, by what they do to the ends and to the channels.             *)
DecOther == DecGetSource \/ DecSendFeedback \/ DecGetFeedback \/ UNCHANGED decVars

(* A channel loses its first d packets.                                    *)
Shifted(new, old, d) == \A j \in DOMAIN new : j + d \in DOMAIN old /\ new[j] = old[j + d]

Drains(new, old) == \E d \in {0, 1} : Shifted(new, old, d)

(* The encoder works on its own or reads a feedback, or a packet is lost.  *)
EncoderStep ==
  EncOther /\ UNCHANGED decVars /\ Drains(coded', coded) /\ Drains(feedback', feedback)

(* The decoder hands out a symbol, or notices that feedback is due.        *)
DecoderStep == (DecGetSource \/ DecSendFeedback) /\ UNCHANGED <<encVars, coded, feedback>>

ReportStep ==
  /\ DecGetFeedback /\ UNCHANGED <<encVars, coded>>
  /\ feedback' = Append(feedback, DecFeedback)

ReadStep ==
  /\ 1 \in DOMAIN coded /\ DecPutCoded(coded[1])
  /\ UNCHANGED <<encVars, feedback>> /\ Drains(coded', coded)
  /\ ~ Duplicate => Shifted(coded', coded, 1)

LEMMA DrainsSame == ASSUME NEW S, NEW s \in Seq(S) PROVE Drains(s, s)
<1>1. Shifted(s, s, 0)
  BY DEF Shifted
<1>2. QED
  BY <1>1 DEF Drains

LEMMA InOrderSteps ==
  ASSUME LinkInv, ~ Reorder, [Next]_vars
  PROVE  \/ EncoderStep \/ DecoderStep \/ ReportStep \/ ReadStep
         \/ \E vec \in Vectors : SendCoded(vec)
<1>1. coded \in Seq(CodedPackets) /\ feedback \in Seq(Feedbacks)
  BY LinkNumbers
<1>2. Drains(coded, coded) /\ Drains(feedback, feedback)
  BY <1>1, DrainsSame
<1>3. CASE UNCHANGED vars
  BY <1>2, <1>3 DEF vars, linkVars, EncoderStep, EncOther
<1>4. CASE PutSource \/ RepairTimeout
  BY <1>2, <1>4 DEF PutSource, RepairTimeout, linkVars, EncoderStep, EncOther
<1>5. CASE GetSource \/ FeedbackTimeout
  BY <1>5 DEF GetSource, FeedbackTimeout, linkVars, DecoderStep
<1>6. CASE SendFeedback
  BY <1>6 DEF SendFeedback, ReportStep
<1>7. ASSUME NEW i, ReceiveCoded(i) PROVE ReadStep
  <2> DEFINE left == coded'
  <2>1. /\ i \in DOMAIN coded \cap {1} /\ DecPutCoded(coded[i])
        /\ left = RemoveAt(coded, i) \/ left = coded
        /\ left = RemoveAt(coded, i) \/ Duplicate
        /\ UNCHANGED <<encVars, feedback>>
    BY <1>7 DEF ReceiveCoded, Heads
  <2> HIDE DEF left
  <2>2. left = RemoveAt(coded, i) =>
          \A j \in DOMAIN left : j + 1 \in DOMAIN coded /\ left[j] = coded[j + 1]
    BY <1>1, <2>1, HeadTaken
  <2>3. \E d \in {0, 1} : \A j \in DOMAIN left : j + d \in DOMAIN coded /\ left[j] = coded[j + d]
    BY <1>1, <2>1, HeadTaken
  <2> USE DEF left
  <2>4. QED
    BY <2>1, <2>2, <2>3 DEF ReadStep, Drains, Shifted
<1>8. ASSUME NEW i, LoseCoded(i) PROVE EncoderStep
  <2> DEFINE left == coded'
  <2>1. /\ i \in DOMAIN coded \cap {1} /\ left = RemoveAt(coded, i)
        /\ UNCHANGED <<encVars, decVars, feedback>>
    BY <1>8 DEF LoseCoded, Heads
  <2> HIDE DEF left
  <2>2. \E d \in {0, 1} : \A j \in DOMAIN left : j + d \in DOMAIN coded /\ left[j] = coded[j + d]
    BY <1>1, <2>1, HeadTaken
  <2> USE DEF left
  <2>3. QED
    BY <1>2, <2>1, <2>2 DEF EncoderStep, EncOther, Drains, Shifted
<1>9. ASSUME NEW i, ReceiveFeedback(i) \/ LoseFeedback(i) PROVE EncoderStep
  <2> DEFINE left == feedback'
  <2>1. /\ i \in DOMAIN feedback \cap {1}
        /\ left = RemoveAt(feedback, i) \/ left = feedback
        /\ EncPutFeedback(feedback[i]) \/ UNCHANGED encVars
        /\ UNCHANGED <<decVars, coded>>
    BY <1>9 DEF ReceiveFeedback, LoseFeedback, Heads
  <2> HIDE DEF left
  <2>2. \E d \in {0, 1} :
          \A j \in DOMAIN left : j + d \in DOMAIN feedback /\ left[j] = feedback[j + d]
    BY <1>1, <2>1, HeadTaken
  <2>3. feedback[i] \in Feedbacks
    BY <1>1, <2>1
  <2> USE DEF left
  <2>4. QED
    BY <1>2, <2>1, <2>2, <2>3 DEF EncoderStep, EncOther, Drains, Shifted
<1>10. QED
  BY <1>3, <1>4, <1>5, <1>6, <1>7, <1>8, <1>9 DEF Next

-----------------------------------------------------------------------------
(* What combines the first r symbols combines the first q >= r.            *)
LEMMA NestedWider ==
  ASSUME NEW r \in Nat, NEW q \in Nat, r <= q, NEW span, span \subseteq SUBSET (1 .. r)
  PROVE  span \subseteq SUBSET (1 .. q)
<1>1. 1 .. r \subseteq 1 .. q
  OBVIOUS
<1>2. QED
  BY <1>1

LEMMA NestedReads ==
  ASSUME NEW r, NEW span, span \subseteq SUBSET (1 .. r), NEW v, v \subseteq 1 .. r
  PROVE  ReadPayload(span, v) \subseteq SUBSET (1 .. r)
<1>1. ASSUME NEW w \in ReadPayload(span, v) PROVE w \in SUBSET (1 .. r)
  <2>1. w \in span \/ \E u \in span : w = Plus(u, v)
    BY DEF ReadPayload
  <2>2. ASSUME NEW u \in span PROVE Plus(u, v) \subseteq 1 .. r
    <3>1. u \subseteq 1 .. r
      OBVIOUS
    <3>2. QED
      BY <3>1 DEF Plus
  <2>3. CASE w \in span
    BY <2>3
  <2>4. ASSUME NEW u \in span, w = Plus(u, v) PROVE w \subseteq 1 .. r
    BY <2>2, <2>4
  <2>5. QED
    BY <2>1, <2>3, <2>4, Zenon
<1>2. QED
  BY <1>1

(* A packet in flight is well formed and of a generation that was opened.  *)
LEMMA CodedFacts ==
  ASSUME LinkInv
  PROVE  \A i \in DOMAIN coded :
           /\ i \in Nat /\ coded[i] \in CodedPackets
           /\ coded[i].generation \in Nat /\ coded[i].generation <= enc_gen_newest
           /\ coded[i].rank \in 0 .. Symbols /\ coded[i].rank \in Nat
<1>1. \A i \in DOMAIN coded :
        /\ i \in Nat /\ coded[i] \in CodedPackets
        /\ coded[i].generation <= enc_gen_newest
  BY LinkNumbers DEF InFlight
<1>2. \A p \in CodedPackets :
        p.generation \in Nat /\ p.rank \in 0 .. Symbols /\ p.rank \in Nat
  BY SymbolsAssumption DEF CodedPackets, Generations
<1>3. QED
  BY <1>1, <1>2

(* Packets leave the channel in order, and ranks only grow.                *)
LEMMA RanksDrain ==
  ASSUME LinkInv, LinkInv', RanksInOrder, Drains(coded', coded), EncOther
  PROVE  RanksInOrder'
<1>1. PICK d \in {0, 1} : Shifted(coded', coded, d)
  BY DEF Drains
<1>2. \A j \in DOMAIN coded' : j \in Nat /\ j + d \in DOMAIN coded /\ coded'[j] = coded[j + d]
  BY <1>1, LinkNumbers DEF Shifted, LinkInv, InFlight
<1>3. ASSUME NEW i \in DOMAIN coded' PROVE coded'[i].vec \subseteq 1 .. coded'[i].rank
  BY <1>2 DEF RanksInOrder
<1>4. ASSUME NEW i \in DOMAIN coded', NEW j \in DOMAIN coded',
             i < j, coded'[i].generation = coded'[j].generation
      PROVE  coded'[i].rank <= coded'[j].rank
  <2>1. i + d < j + d
    BY <1>2, <1>4
  <2>2. QED
    BY <1>2, <1>4, <2>1 DEF RanksInOrder
<1>5. ASSUME NEW i \in DOMAIN coded', coded'[i].generation \in EncActive'
      PROVE  coded'[i].rank <= enc_containers'[coded'[i].generation].rank
  <2> DEFINE pkt == coded[i + d]
             g == pkt.generation
  <2>1. i + d \in DOMAIN coded /\ coded'[i] = pkt
    BY <1>2
  <2>2. g \in Nat /\ g <= enc_gen_newest /\ pkt.rank \in Nat
    BY <2>1, CodedFacts
  <2>3. g \in EncActive' => g \in EncActive /\ enc_containers[g].rank <= enc_containers'[g].rank
    BY <2>2, EncGrows, LinkNumbers DEF EncOther, EncCall
  <2>4. g \in EncActive => pkt.rank <= enc_containers[g].rank /\ enc_containers[g].rank \in Nat
    BY <2>1, EncFacts DEF RanksInOrder
  <2>5. g \in EncActive' => enc_containers'[g].rank \in Nat
    BY SymbolsAssumption DEF LinkInv, EncInv, EncTypeOK, EncActive, EncContainers
  <2>6. QED
    BY <1>5, <2>1, <2>2, <2>3, <2>4, <2>5
<1>6. QED
  BY <1>3, <1>4, <1>5 DEF RanksInOrder

(* Appending keeps what is there.                                          *)
LEMMA Appended ==
  ASSUME NEW S, NEW s \in Seq(S), NEW e, NEW t, t = Append(s, e)
  PROVE  \A j \in DOMAIN t :
           /\ j \in Nat
           /\ \/ j \in DOMAIN s /\ t[j] = s[j]
              \/ t[j] = e /\ j \notin DOMAIN s /\ \A k \in DOMAIN s : k < j
  OBVIOUS

LEMMA RanksSend ==
  ASSUME LinkInv, RanksInOrder, NEW vec \in Vectors, SendCoded(vec)
  PROVE  RanksInOrder'
<1> DEFINE pkt == EncPacket(vec)
           left == coded'
<1>1. EncGetCoded(vec) /\ left = Append(coded, pkt) /\ coded \in Seq(CodedPackets)
  BY LinkNumbers DEF SendCoded
<1>2. /\ EncTurn \in EncActive /\ EncActive' = EncActive
      /\ pkt.generation = EncTurn /\ pkt.vec = vec
      /\ pkt.rank = enc_containers[EncTurn].rank /\ vec \subseteq 1 .. pkt.rank
      /\ \A g \in EncActive : enc_containers'[g].rank = enc_containers[g].rank
  BY <1>1, EncSends
<1>3. pkt.rank \in Nat
  BY <1>2, EncFacts
<1> HIDE DEF pkt, left
<1>4. \A j \in DOMAIN left :
        /\ j \in Nat
        /\ \/ j \in DOMAIN coded /\ left[j] = coded[j]
           \/ left[j] = pkt /\ j \notin DOMAIN coded /\ \A k \in DOMAIN coded : k < j
  BY <1>1, Appended
<1>5. ASSUME NEW i \in DOMAIN left PROVE left[i].vec \subseteq 1 .. left[i].rank
  BY <1>2, <1>4 DEF RanksInOrder
<1>6. ASSUME NEW i \in DOMAIN left, NEW j \in DOMAIN left,
             i < j, left[i].generation = left[j].generation
      PROVE  left[i].rank <= left[j].rank
  <2>1. CASE j \in DOMAIN coded /\ left[j] = coded[j]
    <3>1. i \in DOMAIN coded /\ left[i] = coded[i]
      BY <1>4, <1>6, <2>1
    <3>2. QED
      BY <1>6, <2>1, <3>1 DEF RanksInOrder
  <2>2. CASE left[j] = pkt
    <3>1. CASE left[i] = pkt
      BY <1>3, <2>2, <3>1
    <3>2. CASE i \in DOMAIN coded /\ left[i] = coded[i]
      BY <1>2, <1>6, <2>2, <3>2 DEF RanksInOrder
    <3>3. QED
      BY <1>4, <3>1, <3>2
  <2>3. QED
    BY <1>4, <2>1, <2>2
<1>7. ASSUME NEW i \in DOMAIN left, left[i].generation \in EncActive
      PROVE  left[i].rank <= enc_containers[left[i].generation].rank
  BY <1>2, <1>3, <1>4, <1>7 DEF RanksInOrder
<1> USE DEF left
<1>8. QED
  BY <1>2, <1>5, <1>6, <1>7 DEF RanksInOrder

(* The encoder's steps, and those that lose a packet.                      *)
LEMMA SpansEncoder ==
  ASSUME LinkInv, LinkInv', SpansInOrder, EncOther, DecOther, Drains(coded', coded)
  PROVE  SpansInOrder'
<1>1. PICK d \in {0, 1} : Shifted(coded', coded, d)
  BY DEF Drains
<1>2. \A g \in DecActive' :
        /\ g \in DecActive
        /\ dec_containers'[g].span = dec_containers[g].span
        /\ dec_containers'[g].enc_rank = dec_containers[g].enc_rank
  BY DecOtherSpans DEF DecOther
<1>3. /\ enc_gen_newest \in Nat /\ enc_gen_newest' \in Nat /\ enc_gen_newest <= enc_gen_newest'
      /\ \A g \in EncActive' \ EncActive : g > enc_gen_newest
      /\ \A g \in EncActive' \cap EncActive : enc_containers[g].rank <= enc_containers'[g].rank
      /\ \A g \in EncActive' : enc_containers'[g].rank \in Nat
      /\ \A g \in EncActive : enc_containers[g].rank \in Nat
  <2>1. EncCall
    BY DEF EncOther, EncCall
  <2>2. \A g \in EncActive' : enc_containers'[g].rank \in Nat
    BY SymbolsAssumption DEF LinkInv, EncInv, EncTypeOK, EncActive, EncContainers
  <2>3. QED
    BY <2>1, <2>2, EncGrows, EncFacts
<1>4. \A r : EmptySpan \subseteq SUBSET (1 .. r)
  BY DEF EmptySpan
<1>5. ASSUME NEW g \in DecActive'
      PROVE  /\ dec_containers'[g].span \subseteq SUBSET (1 .. dec_containers'[g].enc_rank)
             /\ \A i \in DOMAIN coded' : coded'[i].generation = g =>
                  dec_containers'[g].span \subseteq SUBSET (1 .. coded'[i].rank)
             /\ g \in EncActive' =>
                  dec_containers'[g].span \subseteq SUBSET (1 .. enc_containers'[g].rank)
             /\ g > enc_gen_newest' => dec_containers'[g].span = EmptySpan
  <2> DEFINE span == dec_containers[g].span
  <2>1. /\ g \in DecActive /\ dec_containers'[g].span = span
        /\ dec_containers'[g].enc_rank = dec_containers[g].enc_rank
    BY <1>2
  <2>2. /\ span \subseteq SUBSET (1 .. dec_containers[g].enc_rank)
        /\ \A i \in DOMAIN coded : coded[i].generation = g =>
             span \subseteq SUBSET (1 .. coded[i].rank)
        /\ g \in EncActive => span \subseteq SUBSET (1 .. enc_containers[g].rank)
        /\ g > enc_gen_newest => span = EmptySpan
    BY <2>1 DEF SpansInOrder, Nested
  <2>3. g \in Nat
    BY <2>1, LinkNumbers DEF DecInv, DecTypeOK, DecActive, Generations
  <2> HIDE DEF span
  <2>4. ASSUME NEW i \in DOMAIN coded', coded'[i].generation = g
        PROVE  span \subseteq SUBSET (1 .. coded'[i].rank)
    <3>1. i + d \in DOMAIN coded /\ coded'[i] = coded[i + d]
      BY <1>1 DEF Shifted
    <3>2. QED
      BY <2>2, <2>4, <3>1
  <2>5. ASSUME g \in EncActive'
        PROVE  span \subseteq SUBSET (1 .. enc_containers'[g].rank)
    <3>1. CASE g \in EncActive
      <4>1. /\ span \subseteq SUBSET (1 .. enc_containers[g].rank)
            /\ enc_containers[g].rank \in Nat /\ enc_containers'[g].rank \in Nat
            /\ enc_containers[g].rank <= enc_containers'[g].rank
        BY <1>3, <2>2, <2>5, <3>1
      <4>2. QED
        BY <4>1, NestedWider
    <3>2. CASE g \notin EncActive
      <4>1. span = EmptySpan
        BY <1>3, <2>2, <2>5, <3>2
      <4>2. QED
        BY <1>4, <4>1
    <3>3. QED
      BY <3>1, <3>2
  <2>6. g > enc_gen_newest' => span = EmptySpan
    BY <1>3, <2>2, <2>3
  <2>7. QED
    BY <2>1, <2>2, <2>4, <2>5, <2>6
<1>6. QED
  BY <1>5 DEF SpansInOrder, Nested

LEMMA SpansSend ==
  ASSUME LinkInv, SpansInOrder, NEW vec \in Vectors, SendCoded(vec)
  PROVE  SpansInOrder'
<1> DEFINE pkt == EncPacket(vec)
           left == coded'
<1>1. /\ EncGetCoded(vec) /\ left = Append(coded, pkt) /\ coded \in Seq(CodedPackets)
      /\ UNCHANGED decVars /\ enc_gen_newest' = enc_gen_newest
  BY LinkNumbers DEF SendCoded, EncGetCoded
<1>2. /\ EncTurn \in EncActive /\ EncActive' = EncActive
      /\ pkt.generation = EncTurn /\ pkt.rank = enc_containers[EncTurn].rank
      /\ \A g \in EncActive : enc_containers'[g].rank = enc_containers[g].rank
  BY <1>1, EncSends
<1> HIDE DEF pkt, left
<1>3. \A j \in DOMAIN left : (j \in DOMAIN coded /\ left[j] = coded[j]) \/ left[j] = pkt
  BY <1>1, Appended
<1>4. DecActive' = DecActive /\ dec_containers' = dec_containers
  BY <1>1 DEF DecActive, decVars
<1>5. ASSUME NEW g \in DecActive, NEW i \in DOMAIN left, left[i].generation = g
      PROVE  dec_containers[g].span \subseteq SUBSET (1 .. left[i].rank)
  BY <1>2, <1>3, <1>5 DEF SpansInOrder, Nested
<1>6. ASSUME NEW g \in DecActive, g \in EncActive'
      PROVE  dec_containers[g].span \subseteq SUBSET (1 .. enc_containers'[g].rank)
  BY <1>2, <1>6 DEF SpansInOrder, Nested
<1> USE DEF left
<1>7. QED
  BY <1>1, <1>4, <1>5, <1>6 DEF SpansInOrder, Nested

(* Reading the first packet of the channel: whatever comes later combines  *)
(* at least the symbols this one may.                                      *)
LEMMA SpansRead ==
  ASSUME LinkInv, RanksInOrder, SpansInOrder, ReadStep
  PROVE  SpansInOrder'
<1> DEFINE pkt == coded[1]
<1>1. /\ 1 \in DOMAIN coded /\ DecPutCoded(pkt) /\ UNCHANGED <<encVars, EncActive>>
      /\ enc_gen_newest \in Nat /\ Symbols \in Nat
  BY LinkNumbers, EncFacts DEF ReadStep, encVars, EncActive
<1>2. PICK d \in {0, 1} : Shifted(coded', coded, d)
  BY DEF ReadStep, Drains
<1>3. /\ pkt \in CodedPackets /\ pkt.generation \in Nat /\ pkt.generation <= enc_gen_newest
      /\ pkt.rank \in Nat /\ pkt.rank <= Symbols /\ pkt.vec \subseteq 1 .. pkt.rank
  BY <1>1, CodedFacts DEF RanksInOrder
<1>4. \A i \in DOMAIN coded : i \in Nat /\ i >= 1
  BY LinkNumbers
<1>5. \A i \in DOMAIN coded : coded[i].generation = pkt.generation =>
        coded[i].rank \in Nat /\ pkt.rank <= coded[i].rank
  <2>1. SUFFICES ASSUME NEW i \in DOMAIN coded, coded[i].generation = pkt.generation
                 PROVE  coded[i].rank \in Nat /\ pkt.rank <= coded[i].rank
    OBVIOUS
  <2>2. CASE i = 1
    BY <1>3, <2>2
  <2>3. CASE i # 1
    <3>1. 1 < i
      BY <1>4, <2>3
    <3>2. pkt.rank <= coded[i].rank
      BY <1>1, <2>1, <3>1 DEF RanksInOrder
    <3>3. QED
      BY <3>2, CodedFacts
  <2>4. QED
    BY <2>2, <2>3
<1>6. \A g \in DecActive :
        /\ dec_containers[g] \in DecContainers
        /\ dec_containers[g].span \subseteq SUBSET (1 .. Symbols)
        /\ dec_containers[g].enc_rank \in Nat
  <2>1. \A g \in DecActive : dec_containers[g] \in DecContainers
    BY LinkNumbers DEF DecInv, DecTypeOK, DecActive
  <2>2. QED
    BY <2>1, SymbolsAssumption DEF DecContainers, Vectors, Indices
<1>7. EmptySpan \subseteq SUBSET (1 .. pkt.rank) /\ \A r : EmptySpan \subseteq SUBSET (1 .. r)
  BY DEF EmptySpan
<1> DEFINE Fits(g) ==
             LET span == dec_containers'[g].span
             IN  /\ span \subseteq SUBSET (1 .. dec_containers'[g].enc_rank)
                 /\ \A i \in DOMAIN coded : coded[i].generation = g =>
                      span \subseteq SUBSET (1 .. coded[i].rank)
                 /\ g \in EncActive => span \subseteq SUBSET (1 .. enc_containers[g].rank)
                 /\ g > enc_gen_newest => span = EmptySpan
<1>8. ASSUME NEW g \in DecActive', g # pkt.generation, g \in DecActive,
             dec_containers'[g].span = dec_containers[g].span,
             \/ dec_containers'[g].enc_rank = dec_containers[g].enc_rank
             \/ dec_containers'[g].enc_rank = Symbols
      PROVE  Fits(g)
  BY <1>6, <1>8 DEF SpansInOrder, Nested
<1>9. ASSUME NEW g \in DecActive', dec_containers'[g] = NewDecContainer PROVE Fits(g)
  BY <1>7, <1>9 DEF NewDecContainer
<1>10. ASSUME NEW g \in DecActive', g = pkt.generation,
              dec_containers'[g].enc_rank = pkt.rank,
              LET span == IF g \in DecActive THEN dec_containers[g].span ELSE EmptySpan
              IN  \/ dec_containers'[g].span = span
                  \/ dec_containers'[g].span = ReadPayload(span, pkt.vec)
       PROVE  Fits(g)
  <2> DEFINE old == IF g \in DecActive THEN dec_containers[g].span ELSE EmptySpan
             span == dec_containers'[g].span
  <2>1. old \subseteq SUBSET (1 .. pkt.rank)
    BY <1>1, <1>7, <1>10 DEF SpansInOrder, Nested
  <2>2. span = old \/ span = ReadPayload(old, pkt.vec)
    BY <1>10
  <2> HIDE DEF old, span
  <2>3. span \subseteq SUBSET (1 .. pkt.rank)
    <3>1. pkt.vec \subseteq 1 .. pkt.rank
      BY <1>3
    <3> HIDE DEF pkt
    <3>2. ReadPayload(old, pkt.vec) \subseteq SUBSET (1 .. pkt.rank)
      BY <2>1, <3>1, NestedReads
    <3>3. QED
      BY <2>1, <2>2, <3>2
  <2>4. ASSUME NEW i \in DOMAIN coded, coded[i].generation = g
        PROVE  span \subseteq SUBSET (1 .. coded[i].rank)
    BY <1>3, <1>5, <1>10, <2>3, <2>4, NestedWider
  <2>5. ASSUME g \in EncActive PROVE span \subseteq SUBSET (1 .. enc_containers[g].rank)
    <3>1. enc_containers[g].rank \in Nat /\ pkt.rank <= enc_containers[g].rank
      BY <1>1, <1>10, <2>5, EncFacts DEF RanksInOrder
    <3>2. QED
      BY <1>3, <2>3, <3>1, NestedWider
  <2>6. ~ (g > enc_gen_newest)
    BY <1>1, <1>3, <1>10
  <2> USE DEF span
  <2>7. QED
    BY <1>10, <2>3, <2>4, <2>5, <2>6
<1>11. ASSUME NEW g \in DecActive' PROVE Fits(g)
  <2> HIDE DEF Fits
  <2>1. QED
    BY <1>1, <1>3, <1>8, <1>9, <1>10, DecPutSpans
<1>12. ASSUME NEW g \in DecActive', NEW i \in DOMAIN coded', coded'[i].generation = g
       PROVE  dec_containers'[g].span \subseteq SUBSET (1 .. coded'[i].rank)
  <2>1. i + d \in DOMAIN coded /\ coded'[i] = coded[i + d]
    BY <1>2 DEF Shifted
  <2>2. QED
    BY <1>11, <1>12, <2>1
<1>13. QED
  BY <1>1, <1>11, <1>12 DEF SpansInOrder, Nested, encVars

-----------------------------------------------------------------------------
LEMMA OrderInitInv == Init => OrderInv
  BY DEF Init, DecInit, EncInit, OrderInv, RanksInOrder, SpansInOrder, Nested,
         NewDecContainer, EmptySpan, EncActive, DecActive

LEMMA OrderNextInv ==
  ASSUME LinkInv, LinkInv', OrderInv, ~ Reorder, [Next]_vars
  PROVE  OrderInv'
<1>1. CASE EncoderStep
  BY <1>1, RanksDrain, SpansEncoder DEF EncoderStep, DecOther, OrderInv
<1>2. CASE DecoderStep \/ ReportStep
  <2>1. EncOther /\ DecOther /\ coded' = coded
    BY <1>2 DEF DecoderStep, ReportStep, EncOther, DecOther
  <2>2. Drains(coded', coded)
    BY <2>1, LinkNumbers, DrainsSame
  <2>3. QED
    BY <2>1, <2>2, RanksDrain, SpansEncoder DEF OrderInv
<1>3. CASE ReadStep
  <2>1. EncOther /\ Drains(coded', coded)
    BY <1>3 DEF ReadStep, EncOther
  <2>2. QED
    BY <1>3, <2>1, RanksDrain, SpansRead DEF OrderInv
<1>4. ASSUME NEW vec \in Vectors, SendCoded(vec) PROVE OrderInv'
  BY <1>4, RanksSend, SpansSend DEF OrderInv
<1>5. QED
  BY <1>1, <1>2, <1>3, <1>4, InOrderSteps

THEOREM OrderInvariant == ~ Reorder => (Spec => [](LinkInv /\ OrderInv))
<1> SUFFICES ASSUME ~ Reorder PROVE Spec => [](LinkInv /\ OrderInv)
  OBVIOUS
<1>1. Init => LinkInv /\ OrderInv
  BY LinkInitInv, OrderInitInv
<1>2. (LinkInv /\ OrderInv) /\ [Next]_vars => (LinkInv /\ OrderInv)'
  BY LinkNextInv, OrderNextInv
<1>3. QED
  BY <1>1, <1>2, PTL DEF Spec

(* get_feedback's subtraction never wraps while packets stay in order: no  *)
(* symbol is combined in what the decoder read that the last header did    *)
(* not tell of, so its rank is at most the one it was told, whatever is    *)
(* lost or repeated.                                                       *)
THEOREM LinkRankNeverAhead == ~ Reorder => (Spec => []RankNeverAhead)
<1> SUFFICES ASSUME ~ Reorder PROVE Spec => []RankNeverAhead
  OBVIOUS
<1>1. LinkInv /\ OrderInv => RankNeverAhead
  <2>1. SUFFICES ASSUME LinkInv, OrderInv, NEW g \in DecActive
                 PROVE  Rank(dec_containers[g].span) <= dec_containers[g].enc_rank
    BY DEF RankNeverAhead
  <2>2. dec_containers[g] \in DecContainers
    BY <2>1, LinkNumbers DEF DecInv, DecTypeOK, DecActive
  <2>3. dec_containers[g].enc_rank \in 0 .. Symbols
    BY <2>2 DEF DecContainers
  <2>4. dec_containers[g].span \in SUBSET (SUBSET (1 .. dec_containers[g].enc_rank))
    BY <2>1 DEF OrderInv, SpansInOrder, Nested
  <2>5. QED
    BY <2>3, <2>4, RankNested
<1>2. QED
  BY <1>1, OrderInvariant, PTL

-----------------------------------------------------------------------------
(* No report in flight asks for more packets than a generation has         *)
(* symbols.                                                                *)
ReportsBounded ==
  \A i \in DOMAIN feedback : \A g \in DOMAIN feedback[i].missing :
    feedback[i].missing[g] \in 0 .. Symbols

LEMMA ReportedRank ==
  ASSUME LinkInv, OrderInv
  PROVE  \A g \in DecActive :
           LET c == dec_containers[g]
           IN  /\ Rank(c.span) \in 0 .. c.enc_rank /\ c.enc_rank \in 0 .. Symbols
               /\ DecMissing(c) \in Nat /\ DecMissing(c) <= c.enc_rank - Rank(c.span)
               /\ DecMissing(c) \in 0 .. Symbols
<1> SUFFICES ASSUME NEW g \in DecActive
             PROVE  LET c == dec_containers[g]
                    IN  /\ Rank(c.span) \in 0 .. c.enc_rank /\ c.enc_rank \in 0 .. Symbols
                        /\ DecMissing(c) \in Nat /\ DecMissing(c) <= c.enc_rank - Rank(c.span)
                        /\ DecMissing(c) \in 0 .. Symbols
  OBVIOUS
<1> DEFINE c == dec_containers[g]
<1>1. c \in DecContainers /\ c.span \subseteq SUBSET (1 .. c.enc_rank)
  BY LinkNumbers DEF DecInv, DecTypeOK, DecActive, OrderInv, SpansInOrder, Nested
<1> HIDE DEF c
<1>2. c.enc_rank \in 0 .. Symbols /\ c.span \in SUBSET Vectors /\ Symbols \in Nat
  BY <1>1, SymbolsAssumption DEF DecContainers
<1>3. Rank(c.span) <= c.enc_rank /\ Rank(c.span) \in 0 .. Symbols
  BY <1>1, <1>2, RankNested, RankType
<1>4. PICK lack \in Nat : lack = c.enc_rank - Rank(c.span) /\ lack <= Symbols
  BY <1>2, <1>3
<1>5. DecMissing(c) = lack % RankSpace
  BY <1>4 DEF DecMissing
<1>6. lack % RankSpace \in Nat /\ lack % RankSpace <= lack
  <2>1. \A x \in Nat, n \in Nat \ {0} : x % n \in Nat /\ x % n <= x
    OBVIOUS
  <2>2. QED
    BY <1>4, <2>1, RankSpaceAssumption
<1> USE DEF c
<1>7. QED
  BY <1>2, <1>3, <1>4, <1>5, <1>6

LEMMA ReportsBoundedNext ==
  ASSUME LinkInv, LinkInv', OrderInv, ReportsBounded, ~ Reorder, [Next]_vars
  PROVE  ReportsBounded'
<1>1. CASE EncoderStep
  BY <1>1 DEF EncoderStep, Drains, Shifted, ReportsBounded
<1>2. CASE feedback' = feedback
  BY <1>2 DEF ReportsBounded
<1>3. CASE ReportStep
  <2> DEFINE left == feedback'
             report == DecFeedback
  <2>1. left = Append(feedback, report) /\ feedback \in Seq(Feedbacks)
    BY <1>3, LinkNumbers DEF ReportStep
  <2>2. /\ DOMAIN report.missing = DecActive
        /\ \A g \in DecActive : report.missing[g] \in 0 .. Symbols
    BY ReportedRank DEF DecFeedback
  <2> HIDE DEF left, report
  <2>3. \A j \in DOMAIN left : (j \in DOMAIN feedback /\ left[j] = feedback[j]) \/ left[j] = report
    BY <2>1, Appended
  <2>4. \A i \in DOMAIN left : \A g \in DOMAIN left[i].missing : left[i].missing[g] \in 0 .. Symbols
    BY <2>2, <2>3 DEF ReportsBounded
  <2> USE DEF left
  <2>5. QED
    BY <2>4 DEF ReportsBounded
<1>4. QED
  BY <1>1, <1>2, <1>3, InOrderSteps DEF DecoderStep, ReadStep, SendCoded

(* "generate necessary coded packets": while packets stay in order, no     *)
(* feedback makes the encoder plan more than a decoder with nothing would  *)
(* need, however often it is repeated and however late it comes.           *)
THEOREM LinkPlansNecessary == ~ Reorder => (Spec => FeedbackPlansNecessary)
<1> SUFFICES ASSUME ~ Reorder PROVE Spec => FeedbackPlansNecessary
  OBVIOUS
<1> DEFINE Inv == LinkInv /\ OrderInv /\ ReportsBounded
<1>1. Init => Inv
  BY LinkInitInv, OrderInitInv DEF Init, ReportsBounded
<1>2. Inv /\ [Next]_vars => Inv'
  BY LinkNextInv, OrderNextInv, ReportsBoundedNext
<1>3. ASSUME Inv, [Next]_vars, NEW i \in Heads(feedback), ReceiveFeedback(i),
             NEW g \in EncActive', enc_containers[g].to_send = 0
      PROVE  enc_containers'[g].to_send <= Symbols
  <2> DEFINE fb == feedback[i]
             kept == {h \in EncActive : h > fb.decoded}
  <2>1. i \in DOMAIN feedback /\ EncPutFeedback(fb)
    BY <1>3 DEF ReceiveFeedback, Heads
  <2>2. /\ EncActive' = kept /\ kept \subseteq EncActive
        /\ \A h \in kept : enc_containers'[h] =
             IF h \in EncAccepts(kept, fb)
             THEN [enc_containers[h] EXCEPT !.to_send = fb.missing[h]]
             ELSE enc_containers[h]
    BY <2>1 DEF EncPutFeedback, EncActive
  <2>3. \A h \in DOMAIN fb.missing : fb.missing[h] \in 0 .. Symbols
    BY <1>3, <2>1 DEF ReportsBounded
  <2>4. g \in kept /\ g \in EncActive
    BY <1>3, <2>2
  <2>5. enc_containers[g] \in EncContainers /\ Symbols \in Nat
    BY <1>3, <2>4, EncFacts
  <2> HIDE DEF fb, kept
  <2>6. CASE g \in EncAccepts(kept, fb)
    <3>1. enc_containers'[g] = [enc_containers[g] EXCEPT !.to_send = fb.missing[g]]
      BY <2>2, <2>4, <2>6
    <3>2. enc_containers'[g].to_send = fb.missing[g]
      BY <2>5, <3>1 DEF EncContainers
    <3>3. g \in DOMAIN fb.missing
      BY <2>6 DEF EncAccepts
    <3>4. QED
      BY <2>3, <2>5, <3>2, <3>3
  <2>7. CASE g \notin EncAccepts(kept, fb)
    <3>1. enc_containers'[g] = enc_containers[g]
      BY <2>2, <2>4, <2>7
    <3>2. enc_containers'[g].to_send = 0 /\ 0 <= Symbols
      BY <1>3, <2>5, <3>1
    <3>3. QED
      BY <3>2
  <2>8. QED
    BY <2>6, <2>7
<1>4. Inv /\ [Next]_vars =>
        [\A i \in Heads(feedback) : ReceiveFeedback(i) =>
           \A g \in EncActive' :
             enc_containers[g].to_send = 0 => enc_containers'[g].to_send <= Symbols]_vars
  BY <1>3
<1> HIDE DEF Inv
<1>5. QED
  BY <1>1, <1>2, <1>4, PTL DEF Spec, FeedbackPlansNecessary

-----------------------------------------------------------------------------
(* What holds more when nothing is repeated either, as long as the         *)
(* sequence numbers stay within half of their space.                       *)

(* The numbers tell what the decoder has read: all that is in flight is    *)
(* newer, in the order it was sent, and reports are older.                 *)
NumbersInOrder ==
  /\ enc_seqno <= MaxCoded /\ dec_last_seqno <= enc_seqno
  /\ \A g \in EncActive : enc_containers[g].last_seqno <= enc_seqno
  /\ \A i \in DOMAIN coded :
       /\ dec_last_seqno < coded[i].seqno /\ coded[i].seqno <= enc_seqno
       /\ coded[i].generation \in EncActive =>
            coded[i].seqno <= enc_containers[coded[i].generation].last_seqno
  /\ \A i, j \in DOMAIN coded : i < j => coded[i].seqno < coded[j].seqno
  /\ \A i \in DOMAIN feedback : feedback[i].seqno <= dec_last_seqno

LEMMA ModWithin ==
  ASSUME NEW x \in 0 .. (SeqSpace - 1)
  PROVE  x % SeqSpace = x /\ (x > 0 => (0 - x) % SeqSpace = SeqSpace - x)
<1>1. x % SeqSpace = x
  BY SeqSpaceAssumption
<1>2. ASSUME x > 0 PROVE (0 - x) % SeqSpace = SeqSpace - x
  BY <1>2, SeqSpaceAssumption
<1>3. QED
  BY <1>1, <1>2

(* Close numbers compare as the numbers they stand for.                    *)
LEMMA SeqDiffClose ==
  ASSUME NEW m \in Nat, 2 * m < SeqSpace, NEW a \in 0 .. m, NEW b \in 0 .. m
  PROVE  SeqDiff(a, b) = a - b
<1>1. CASE a >= b
  <2>1. (a - b) % SeqSpace = a - b
    BY <1>1, ModWithin, SeqSpaceAssumption
  <2>2. QED
    BY <1>1, <2>1, SeqSpaceAssumption DEF SeqDiff
<1>2. CASE a < b
  <2>1. b - a \in 0 .. (SeqSpace - 1) /\ b - a > 0
    BY <1>2, SeqSpaceAssumption
  <2>2. (0 - (b - a)) % SeqSpace = SeqSpace - (b - a)
    BY <2>1, ModWithin
  <2>3. a - b = 0 - (b - a)
    OBVIOUS
  <2>4. (a - b) % SeqSpace = SeqSpace - (b - a)
    BY <2>2, <2>3
  <2>5. QED
    BY <1>2, <2>4, SeqSpaceAssumption DEF SeqDiff
<1>3. QED
  BY <1>1, <1>2

(* The numbers are natural numbers.                                        *)
LEMMA NumberFacts ==
  ASSUME LinkInv
  PROVE  /\ enc_seqno \in Nat /\ dec_last_seqno \in Nat /\ MaxCoded \in Nat
         /\ \A g \in EncActive : enc_containers[g].last_seqno \in Nat
         /\ \A i \in DOMAIN coded : coded[i].seqno \in Nat
         /\ \A i \in DOMAIN feedback : feedback[i].seqno \in Nat
<1>1. SeqNos \subseteq Nat
  BY SeqSpaceAssumption DEF SeqNos
<1>2. enc_seqno \in SeqNos /\ dec_last_seqno \in SeqNos
  BY LinkNumbers DEF EncInv, EncTypeOK, DecInv, DecTypeOK
<1>3. \A g \in EncActive : enc_containers[g].last_seqno \in SeqNos
  BY EncFacts DEF EncContainers
<1>4. ASSUME NEW i \in DOMAIN coded PROVE coded[i].seqno \in SeqNos
  <2>1. coded[i] \in CodedPackets
    BY CodedFacts
  <2>2. QED
    BY <2>1 DEF CodedPackets
<1>5. ASSUME NEW i \in DOMAIN feedback PROVE feedback[i].seqno \in SeqNos
  <2>1. feedback[i] \in Feedbacks
    BY LinkNumbers
  <2>2. QED
    BY <2>1 DEF Feedbacks
<1>6. QED
  BY <1>1, <1>2, <1>3, <1>4, <1>5, LinkAssumption

LEMMA NumbersEncoder ==
  ASSUME LinkInv, LinkInv', NumbersInOrder, EncoderStep
  PROVE  NumbersInOrder'
<1>1. PICK d \in {0, 1} : Shifted(coded', coded, d)
  BY DEF EncoderStep, Drains
<1>2. PICK e \in {0, 1} : Shifted(feedback', feedback, e)
  BY DEF EncoderStep, Drains
<1>3. /\ enc_seqno' = enc_seqno /\ dec_last_seqno' = dec_last_seqno
      /\ enc_gen_newest \in Nat
      /\ \A g \in EncActive' \ EncActive : g > enc_gen_newest /\ enc_containers'[g].last_seqno = 0
      /\ \A g \in EncActive' \cap EncActive :
           enc_containers'[g].last_seqno = enc_containers[g].last_seqno
  BY EncNumbersKept, EncGrows, LinkNumbers DEF EncoderStep, EncOther, EncCall, decVars
<1>4. \A j \in DOMAIN coded' : j \in Nat /\ j + d \in DOMAIN coded /\ coded'[j] = coded[j + d]
  BY <1>1 DEF Shifted, LinkInv, InFlight
<1>5. \A j \in DOMAIN feedback' : j + e \in DOMAIN feedback /\ feedback'[j] = feedback[j + e]
  BY <1>2 DEF Shifted
<1>6. ASSUME NEW g \in EncActive' PROVE enc_containers'[g].last_seqno <= enc_seqno
  <2>1. CASE g \in EncActive
    BY <1>3, <2>1 DEF NumbersInOrder
  <2>2. CASE g \notin EncActive
    BY <1>3, <2>2, NumberFacts
  <2>3. QED
    BY <2>1, <2>2
<1>7. ASSUME NEW i \in DOMAIN coded'
      PROVE  /\ dec_last_seqno < coded'[i].seqno /\ coded'[i].seqno <= enc_seqno
             /\ coded'[i].generation \in EncActive' =>
                  coded'[i].seqno <= enc_containers'[coded'[i].generation].last_seqno
  <2> DEFINE pkt == coded[i + d]
  <2>1. i + d \in DOMAIN coded /\ coded'[i] = pkt
    BY <1>4
  <2>2. /\ dec_last_seqno < pkt.seqno /\ pkt.seqno <= enc_seqno
        /\ pkt.generation \in EncActive =>
             pkt.seqno <= enc_containers[pkt.generation].last_seqno
    BY <2>1 DEF NumbersInOrder
  <2>3. pkt.generation \in Nat /\ pkt.generation <= enc_gen_newest
    BY <2>1, CodedFacts
  <2> HIDE DEF pkt
  <2>4. pkt.generation \in EncActive' => pkt.generation \in EncActive
    BY <1>3, <2>3
  <2>5. QED
    BY <1>3, <2>1, <2>2, <2>4
<1>8. ASSUME NEW i \in DOMAIN coded', NEW j \in DOMAIN coded', i < j
      PROVE  coded'[i].seqno < coded'[j].seqno
  <2>1. i + d < j + d
    BY <1>4, <1>8
  <2>2. QED
    BY <1>4, <1>8, <2>1 DEF NumbersInOrder
<1>9. \A i \in DOMAIN feedback' : feedback'[i].seqno <= dec_last_seqno
  BY <1>5 DEF NumbersInOrder
<1>10. QED
  BY <1>3, <1>6, <1>7, <1>8, <1>9 DEF NumbersInOrder

LEMMA NumbersDecoder ==
  ASSUME LinkInv, NumbersInOrder, DecoderStep \/ ReportStep
  PROVE  NumbersInOrder'
<1> DEFINE left == feedback'
<1>1. /\ UNCHANGED <<encVars, coded, dec_last_seqno>>
      /\ left = feedback \/ left = Append(feedback, DecFeedback)
  BY DEF DecoderStep, ReportStep, DecGetSource, DecSendFeedback, DecGetFeedback
<1>2. DecFeedback.seqno = dec_last_seqno /\ feedback \in Seq(Feedbacks) /\ dec_last_seqno \in Nat
  BY LinkNumbers, NumberFacts DEF DecFeedback
<1> HIDE DEF left
<1>3. \A j \in DOMAIN left :
        (j \in DOMAIN feedback /\ left[j] = feedback[j]) \/ left[j] = DecFeedback
  BY <1>1, <1>2, Appended
<1>4. \A i \in DOMAIN left : left[i].seqno <= dec_last_seqno
  BY <1>2, <1>3 DEF NumbersInOrder
<1> USE DEF left
<1>5. QED
  BY <1>1, <1>4 DEF NumbersInOrder, EncActive, encVars

LEMMA NextNumber ==
  ASSUME LinkInv, 2 * MaxCoded < SeqSpace, enc_seqno < MaxCoded
  PROVE  EncNextSeqno = enc_seqno + 1
<1>1. enc_seqno + 1 \in 0 .. (SeqSpace - 1)
  BY NumberFacts, SeqSpaceAssumption
<1>2. QED
  BY <1>1, ModWithin DEF EncNextSeqno

LEMMA NumbersSend ==
  ASSUME LinkInv, NumbersInOrder, 2 * MaxCoded < SeqSpace,
         NEW vec \in Vectors, SendCoded(vec)
  PROVE  NumbersInOrder'
<1> DEFINE pkt == EncPacket(vec)
           left == coded'
           num == enc_seqno + 1
<1>1. /\ EncGetCoded(vec) /\ left = Append(coded, pkt) /\ coded \in Seq(CodedPackets)
      /\ UNCHANGED <<decVars, feedback>> /\ enc_seqno < MaxCoded
  BY LinkNumbers DEF SendCoded
<1>2. EncNextSeqno = num
  BY <1>1, NextNumber
<1>3. /\ EncTurn \in EncActive /\ EncActive' = EncActive
      /\ pkt.generation = EncTurn /\ pkt.seqno = num /\ enc_seqno' = num
      /\ \A g \in EncActive : enc_containers'[g].last_seqno =
           IF g = EncTurn THEN num ELSE enc_containers[g].last_seqno
  BY <1>1, <1>2, EncSends
<1>4. /\ enc_seqno \in Nat /\ num \in Nat /\ dec_last_seqno \in Nat /\ MaxCoded \in Nat
      /\ num = enc_seqno + 1 /\ num <= MaxCoded
      /\ \A g \in EncActive : enc_containers[g].last_seqno \in Nat
      /\ \A i \in DOMAIN coded : coded[i].seqno \in Nat
  BY <1>1, NumberFacts
<1>5. dec_last_seqno' = dec_last_seqno /\ feedback' = feedback
  BY <1>1 DEF decVars
<1> HIDE DEF pkt, left, num
<1>6. \A j \in DOMAIN left :
        /\ j \in Nat
        /\ \/ j \in DOMAIN coded /\ left[j] = coded[j]
           \/ left[j] = pkt /\ j \notin DOMAIN coded /\ \A k \in DOMAIN coded : k < j
  BY <1>1, Appended
<1>7. ASSUME NEW g \in EncActive PROVE enc_containers'[g].last_seqno <= num
  BY <1>3, <1>4 DEF NumbersInOrder
<1>8. ASSUME NEW i \in DOMAIN left
      PROVE  /\ dec_last_seqno < left[i].seqno /\ left[i].seqno <= num
             /\ left[i].generation \in EncActive =>
                  left[i].seqno <= enc_containers'[left[i].generation].last_seqno
  <2>1. CASE left[i] = pkt
    BY <1>3, <1>4, <2>1 DEF NumbersInOrder
  <2>2. CASE i \in DOMAIN coded /\ left[i] = coded[i]
    <3> DEFINE old == coded[i]
    <3>1. /\ dec_last_seqno < old.seqno /\ old.seqno <= enc_seqno /\ old.seqno \in Nat
          /\ old.generation \in EncActive =>
               old.seqno <= enc_containers[old.generation].last_seqno
      BY <1>4, <2>2 DEF NumbersInOrder
    <3> HIDE DEF old
    <3>2. old.seqno <= num
      BY <1>4, <3>1
    <3>3. old.generation \in EncActive =>
            old.seqno <= enc_containers'[old.generation].last_seqno
      BY <1>3, <3>1, <3>2
    <3> USE DEF old
    <3>4. QED
      BY <2>2, <3>1, <3>2, <3>3
  <2>3. QED
    BY <1>6, <2>1, <2>2
<1>9. ASSUME NEW i \in DOMAIN left, NEW j \in DOMAIN left, i < j
      PROVE  left[i].seqno < left[j].seqno
  <2>1. i \in DOMAIN coded /\ left[i] = coded[i]
    <3>1. DOMAIN left = 1 .. Len(coded) + 1 /\ DOMAIN coded = 1 .. Len(coded) /\ Len(coded) \in Nat
      BY <1>1
    <3>2. i \in DOMAIN coded
      BY <1>9, <3>1
    <3>3. QED
      BY <1>6, <3>2
  <2>2. coded[i].seqno <= enc_seqno /\ coded[i].seqno \in Nat
    BY <1>4, <2>1 DEF NumbersInOrder
  <2>3. CASE left[j] = pkt
    BY <1>3, <1>4, <2>1, <2>2, <2>3
  <2>4. CASE j \in DOMAIN coded /\ left[j] = coded[j]
    BY <1>9, <2>1, <2>4 DEF NumbersInOrder
  <2>5. QED
    BY <1>6, <2>3, <2>4
<1> USE DEF left
<1>10. enc_seqno' <= MaxCoded /\ dec_last_seqno' <= enc_seqno'
  BY <1>3, <1>4, <1>5 DEF NumbersInOrder
<1>11. \A g \in EncActive' : enc_containers'[g].last_seqno <= enc_seqno'
  BY <1>3, <1>7
<1>12. \A i \in DOMAIN coded' :
         /\ dec_last_seqno' < coded'[i].seqno /\ coded'[i].seqno <= enc_seqno'
         /\ coded'[i].generation \in EncActive' =>
              coded'[i].seqno <= enc_containers'[coded'[i].generation].last_seqno
  BY <1>3, <1>5, <1>8
<1>13. \A i \in DOMAIN feedback' : feedback'[i].seqno <= dec_last_seqno'
  BY <1>5 DEF NumbersInOrder
<1>14. \A i, j \in DOMAIN coded' : i < j => coded'[i].seqno < coded'[j].seqno
  BY <1>9
<1>15. QED
  BY <1>10, <1>11, <1>12, <1>13, <1>14 DEF NumbersInOrder

LEMMA NumbersRead ==
  ASSUME LinkInv, LinkInv', NumbersInOrder, 2 * MaxCoded < SeqSpace, ~ Duplicate, ReadStep
  PROVE  NumbersInOrder' /\ dec_last_seqno' = coded[1].seqno
<1> DEFINE num == coded[1].seqno
<1>1. /\ 1 \in DOMAIN coded /\ DecPutCoded(coded[1]) /\ UNCHANGED <<encVars, EncActive, feedback>>
      /\ Shifted(coded', coded, 1)
  BY DEF ReadStep, encVars, EncActive
<1>2. /\ dec_last_seqno \in Nat /\ num \in Nat /\ enc_seqno \in Nat /\ MaxCoded \in Nat
      /\ dec_last_seqno < num /\ num <= enc_seqno /\ enc_seqno <= MaxCoded
  BY <1>1, NumberFacts DEF NumbersInOrder
<1>3. dec_last_seqno' = num
  <2>1. dec_last_seqno' =
          IF SeqDiff(dec_last_seqno, num) < 0 THEN num ELSE dec_last_seqno
    BY <1>1 DEF DecPutCoded
  <2> HIDE DEF num
  <2>2. SeqDiff(dec_last_seqno, num) = dec_last_seqno - num
    BY <1>2, SeqDiffClose
  <2>3. QED
    BY <1>2, <2>1, <2>2
<1>4. \A j \in DOMAIN coded' :
        j \in Nat /\ j > 0 /\ j + 1 \in DOMAIN coded /\ coded'[j] = coded[j + 1]
  BY <1>1 DEF Shifted, LinkInv, InFlight
<1>5. ASSUME NEW j \in DOMAIN coded'
      PROVE  /\ num < coded'[j].seqno /\ coded'[j].seqno <= enc_seqno
             /\ coded'[j].generation \in EncActive =>
                  coded'[j].seqno <= enc_containers[coded'[j].generation].last_seqno
  <2>1. 1 < j + 1
    BY <1>4
  <2>2. QED
    BY <1>1, <1>4, <2>1 DEF NumbersInOrder
<1>6. ASSUME NEW i \in DOMAIN coded', NEW j \in DOMAIN coded', i < j
      PROVE  coded'[i].seqno < coded'[j].seqno
  <2>1. i + 1 < j + 1
    BY <1>4, <1>6
  <2>2. QED
    BY <1>4, <2>1 DEF NumbersInOrder
<1>7. \A i \in DOMAIN feedback : feedback[i].seqno <= num
  <2> HIDE DEF num
  <2>1. QED
    BY <1>2, NumberFacts DEF NumbersInOrder
<1> HIDE DEF num
<1>8. NumbersInOrder'
  BY <1>1, <1>2, <1>3, <1>5, <1>6, <1>7 DEF NumbersInOrder, encVars
<1> USE DEF num
<1>9. QED
  BY <1>3, <1>8

-----------------------------------------------------------------------------
(* Before the decoder hears of anything it has only its first container    *)
(* and nothing to say; then it is behind the encoder, in ranks as well.    *)
RanksHeard ==
  /\ dec_last_seqno = 0 =>
       ~ dec_has_feedback /\ ~ dec_fb_timer /\ feedback = <<>> /\ dec_gen_newest = 1
  /\ dec_last_seqno > 0 =>
       /\ dec_gen_newest <= enc_gen_newest
       /\ \A g \in DecActive \cap EncActive :
            dec_containers[g].enc_rank <= enc_containers[g].rank

(* The list of the decoder, and what put_coded does to it.                 *)
LEMMA DecFacts ==
  ASSUME LinkInv
  PROVE  /\ dec_gen_newest \in Nat /\ dec_gen_oldest_deleted \in Nat
         /\ DecActive = (dec_gen_oldest_deleted + 1) .. dec_gen_newest
         /\ \A g \in DecActive :
              /\ g \in Nat \ {0} /\ dec_containers[g] \in DecContainers
              /\ dec_containers[g].enc_rank \in 0 .. Symbols
              /\ dec_containers[g].index \in 0 .. Symbols
              /\ dec_containers[g].span \in SUBSET Vectors
<1>1. /\ dec_gen_newest \in Nat /\ dec_gen_oldest_deleted \in Nat
      /\ DecActive = (dec_gen_oldest_deleted + 1) .. dec_gen_newest
      /\ \A g \in DecActive : g \in Nat \ {0} /\ dec_containers[g] \in DecContainers
  BY LinkNumbers DEF DecInv, DecTypeOK, DecContiguous, DecActive, Generations
<1>2. QED
  BY <1>1 DEF DecContainers

LEMMA DecKeepsOpen ==
  ASSUME LinkInv, NEW pkt \in CodedPackets, DecPutCoded(pkt)
  PROVE  DecActive \subseteq DecActive'
<1>1. CASE dec_containers' = dec_containers
  BY <1>1 DEF DecActive
<1>2. CASE dec_containers' # dec_containers
  <2>1. dec_containers' =
          [DecWithOpened(DecOpened(pkt.generation)) EXCEPT ![pkt.generation] = DecRead(@, pkt)]
    BY <1>2 DEF DecPutCoded
  <2>2. QED
    BY <2>1 DEF DecWithOpened, DecActive
<1>3. QED
  BY <1>1, <1>2

LEMMA HeardEncoder ==
  ASSUME LinkInv, LinkInv', RanksHeard, EncOther, UNCHANGED decVars,
         Drains(feedback', feedback)
  PROVE  RanksHeard'
<1>1. feedback = <<>> => feedback' = <<>>
  <2>1. SUFFICES ASSUME feedback = <<>>, feedback' # <<>> PROVE FALSE
    OBVIOUS
  <2>2. 1 \in DOMAIN feedback'
    BY <2>1 DEF LinkInv, InFlight
  <2>3. QED
    BY <2>1, <2>2 DEF Drains, Shifted
<1>2. /\ DecActive' = DecActive /\ dec_containers' = dec_containers
      /\ dec_gen_newest' = dec_gen_newest /\ dec_last_seqno' = dec_last_seqno
      /\ dec_has_feedback' = dec_has_feedback /\ dec_fb_timer' = dec_fb_timer
  BY DEF decVars, DecActive
<1>3. /\ enc_gen_newest \in Nat /\ enc_gen_newest' \in Nat /\ enc_gen_newest <= enc_gen_newest'
      /\ \A g \in EncActive' \ EncActive : g > enc_gen_newest
      /\ \A g \in EncActive' \cap EncActive :
           enc_containers[g].rank <= enc_containers'[g].rank
  BY EncGrows, LinkNumbers DEF EncOther, EncCall
<1>4. ASSUME dec_last_seqno > 0 PROVE dec_gen_newest <= enc_gen_newest'
  BY <1>3, <1>4, DecFacts DEF RanksHeard
<1>5. ASSUME dec_last_seqno > 0, NEW g \in DecActive \cap EncActive'
      PROVE  dec_containers[g].enc_rank <= enc_containers'[g].rank
  <2>1. g \in Nat /\ g <= enc_gen_newest
    BY <1>3, <1>5, DecFacts DEF RanksHeard
  <2>2. g \in EncActive
    BY <1>3, <1>5, <2>1
  <2>3. dec_containers[g].enc_rank <= enc_containers[g].rank
    BY <1>5, <2>2 DEF RanksHeard
  <2>4. /\ enc_containers[g].rank <= enc_containers'[g].rank
        /\ dec_containers[g].enc_rank \in Nat /\ enc_containers[g].rank \in Nat
    BY <1>3, <1>5, <2>2, DecFacts, EncFacts
  <2>5. enc_containers'[g].rank \in Nat
    BY <1>5, SymbolsAssumption DEF LinkInv, EncInv, EncTypeOK, EncActive, EncContainers
  <2>6. QED
    BY <2>3, <2>4, <2>5
<1>6. QED
  BY <1>1, <1>2, <1>4, <1>5 DEF RanksHeard

LEMMA HeardSend ==
  ASSUME LinkInv, RanksHeard, NEW vec \in Vectors, SendCoded(vec)
  PROVE  RanksHeard'
<1>1. EncGetCoded(vec) /\ UNCHANGED <<decVars, feedback, enc_gen_newest>>
  BY DEF SendCoded, EncGetCoded
<1>2. /\ EncActive' = EncActive
      /\ \A g \in EncActive : enc_containers'[g].rank = enc_containers[g].rank
  BY <1>1, EncSends
<1>3. /\ DecActive' = DecActive /\ dec_containers' = dec_containers
      /\ dec_gen_newest' = dec_gen_newest /\ dec_last_seqno' = dec_last_seqno
      /\ dec_has_feedback' = dec_has_feedback /\ dec_fb_timer' = dec_fb_timer
      /\ feedback' = feedback /\ enc_gen_newest' = enc_gen_newest
  BY <1>1 DEF decVars, DecActive
<1>4. QED
  BY <1>2, <1>3 DEF RanksHeard

LEMMA HeardDecoder ==
  ASSUME LinkInv, RanksHeard, DecoderStep \/ ReportStep
  PROVE  RanksHeard'
<1>1. /\ UNCHANGED encVars /\ dec_last_seqno' = dec_last_seqno
      /\ dec_gen_newest' = dec_gen_newest
  BY LinkNumbers, DecGetSourceInv DEF DecoderStep, ReportStep, DecSendFeedback, DecGetFeedback,
     DecGetSource
<1>2. \A g \in DecActive' :
        g \in DecActive /\ dec_containers'[g].enc_rank = dec_containers[g].enc_rank
  BY DecOtherSpans DEF DecoderStep, ReportStep
<1>3. dec_last_seqno = 0 =>
        dec_has_feedback' = dec_has_feedback /\ dec_fb_timer' = dec_fb_timer /\ feedback' = feedback
  BY DEF RanksHeard, DecoderStep, ReportStep, DecSendFeedback, DecGetFeedback, DecGetSource
<1>4. UNCHANGED <<EncActive, enc_containers, enc_gen_newest>>
  BY <1>1 DEF encVars, EncActive
<1>5. ASSUME dec_last_seqno = 0
      PROVE  ~ dec_has_feedback' /\ ~ dec_fb_timer' /\ feedback' = <<>> /\ dec_gen_newest' = 1
  BY <1>1, <1>3, <1>5 DEF RanksHeard
<1>6. ASSUME dec_last_seqno > 0
      PROVE  /\ dec_gen_newest' <= enc_gen_newest
             /\ \A g \in DecActive' \cap EncActive :
                  dec_containers'[g].enc_rank <= enc_containers[g].rank
  BY <1>1, <1>2, <1>6 DEF RanksHeard
<1>7. QED
  BY <1>1, <1>4, <1>5, <1>6 DEF RanksHeard

(* A packet of a generation tells that all before it are full.             *)
LEMMA HeardRead ==
  ASSUME LinkInv, LinkInv', RanksInOrder, NumbersInOrder, RanksHeard,
         2 * MaxCoded < SeqSpace, ~ Duplicate, ReadStep
  PROVE  RanksHeard'
<1> DEFINE pkt == coded[1]
           gen == pkt.generation
<1>1. /\ 1 \in DOMAIN coded /\ DecPutCoded(pkt) /\ UNCHANGED <<encVars, EncActive>>
  BY DEF ReadStep, encVars, EncActive
<1>2. /\ pkt \in CodedPackets /\ gen \in Nat /\ gen >= 1 /\ gen <= enc_gen_newest
      /\ pkt.rank \in Nat /\ enc_gen_newest \in Nat
  <2>1. pkt \in CodedPackets
    BY <1>1, CodedFacts
  <2>2. gen \in Generations
    BY <2>1 DEF CodedPackets
  <2>3. QED
    BY <1>1, <2>1, <2>2, CodedFacts, LinkNumbers DEF Generations
<1>3. dec_last_seqno' \in Nat /\ dec_last_seqno' > 0
  BY <1>1, NumbersRead, NumberFacts DEF NumbersInOrder
<1>4. dec_gen_newest' <= enc_gen_newest
  <2>1. dec_gen_newest' <= enc_gen_newest' \/ dec_gen_newest' = 1
    BY DEF LinkInv, DecBehind
  <2>2. QED
    BY <1>1, <1>2, <2>1 DEF encVars
<1>5. \A g \in EncActive : g < enc_gen_newest => enc_containers[g].rank = Symbols
  BY LinkNumbers DEF EncInv, EncWindow
<1>6. Symbols \in Nat /\ \A g \in EncActive : g \in Nat /\ enc_containers[g].rank \in Nat
  BY EncFacts DEF Generations
<1> HIDE DEF pkt, gen
<1>7. ASSUME NEW g \in DecActive' \cap EncActive
      PROVE  dec_containers'[g].enc_rank <= enc_containers[g].rank
  <2>1. CASE g < gen
    <3>1. enc_containers[g].rank = Symbols
      BY <1>2, <1>5, <1>6, <1>7, <2>1
    <3>2. dec_containers'[g].enc_rank \in 0 .. Symbols
      BY <1>7 DEF LinkInv, DecInv, DecTypeOK, DecActive, DecContainers
    <3>3. QED
      BY <1>6, <3>1, <3>2
  <2>2. CASE g = gen
    <3>1. dec_containers'[g].enc_rank = pkt.rank
      BY <1>1, <1>2, <1>7, <2>2, DecPutSpans DEF gen
    <3>2. pkt.rank <= enc_containers[g].rank
      BY <1>1, <1>7, <2>2 DEF pkt, gen, RanksInOrder
    <3>3. QED
      BY <3>1, <3>2
  <2>3. CASE g > gen
    <3>1. g \in DecActive /\ dec_containers'[g].enc_rank = dec_containers[g].enc_rank
      BY <1>1, <1>2, <1>6, <1>7, <2>3, DecPutSpans DEF gen
    <3>2. dec_last_seqno > 0
      <4>1. g \in Nat /\ 1 < g /\ g <= dec_gen_newest /\ dec_gen_newest \in Nat
        BY <1>2, <1>6, <1>7, <2>3, <3>1, DecFacts
      <4>2. dec_last_seqno # 0 /\ dec_last_seqno \in Nat
        BY <4>1, NumberFacts DEF RanksHeard
      <4>3. QED
        BY <4>2
    <3>3. QED
      BY <1>7, <3>1, <3>2 DEF RanksHeard
  <2>4. QED
    BY <1>2, <1>6, <1>7, <2>1, <2>2, <2>3
<1>8. QED
  BY <1>1, <1>3, <1>4, <1>7 DEF RanksHeard, encVars

-----------------------------------------------------------------------------
(* What was handed out stays decoded.                                      *)
IndexDecoded ==
  \A g \in DecActive : \A k \in 1 .. dec_containers[g].index :
    {k} \in dec_containers[g].span

LEMMA IndexGetSource == ASSUME LinkInv, IndexDecoded, DecGetSource PROVE IndexDecoded'
<1> DEFINE oldest == Min(DecActive)
           rest == DecActive \ {oldest}
           index == dec_containers[oldest].index + 1
<1>1. /\ oldest \in DecActive /\ {index} \in dec_containers[oldest].span
      /\ \/ dec_containers' = [g \in rest |-> dec_containers[g]]
         \/ dec_containers' = [dec_containers EXCEPT ![oldest].index = index]
  <2>1. DecActive # {} /\ {index} \in dec_containers[oldest].span
    BY DEF DecGetSource, DecHasSource, IsSymbolUncoded
  <2>2. DecActive \in SUBSET Nat
    BY DecFacts
  <2>3. QED
    BY <2>1, <2>2, MinProperty DEF DecGetSource
<1>2. dec_containers[oldest].index \in Nat /\ dec_containers[oldest] \in DecContainers
  BY <1>1, DecFacts
<1>3. \A k \in 1 .. index : {k} \in dec_containers[oldest].span
  <2>1. \A k \in 1 .. index : k \in 1 .. dec_containers[oldest].index \/ k = index
    BY <1>2
  <2>2. QED
    BY <1>1, <2>1 DEF IndexDecoded
<1> HIDE DEF oldest, index
<1>4. CASE dec_containers' = [g \in rest |-> dec_containers[g]]
  BY <1>4 DEF IndexDecoded, DecActive
<1>5. CASE dec_containers' = [dec_containers EXCEPT ![oldest].index = index]
  <2>1. DecActive' = DecActive
    BY <1>5 DEF DecActive
  <2>2. ASSUME NEW g \in DecActive, g # oldest PROVE dec_containers'[g] = dec_containers[g]
    BY <1>5, <2>2 DEF DecActive
  <2>3. dec_containers'[oldest] = [dec_containers[oldest] EXCEPT !.index = index]
    BY <1>1, <1>5 DEF DecActive
  <2>4. dec_containers'[oldest].index = index
        /\ dec_containers'[oldest].span = dec_containers[oldest].span
    BY <1>2, <2>3 DEF DecContainers
  <2>5. ASSUME NEW g \in DecActive, NEW k \in 1 .. dec_containers'[g].index
        PROVE  {k} \in dec_containers'[g].span
    <3>1. CASE g = oldest
      BY <1>3, <2>4, <2>5, <3>1
    <3>2. CASE g # oldest
      BY <2>2, <2>5, <3>2 DEF IndexDecoded
    <3>3. QED
      BY <3>1, <3>2
  <2>6. QED
    BY <2>1, <2>5 DEF IndexDecoded
<1>6. QED
  BY <1>1, <1>4, <1>5

LEMMA IndexRead ==
  ASSUME LinkInv, IndexDecoded, NEW pkt \in CodedPackets, DecPutCoded(pkt)
  PROVE  IndexDecoded'
<1>1. ASSUME NEW g \in DecActive', NEW k \in 1 .. dec_containers'[g].index
      PROVE  {k} \in dec_containers'[g].span
  <2>1. CASE /\ g \in DecActive
             /\ dec_containers'[g].index = dec_containers[g].index
             /\ dec_containers[g].span \subseteq dec_containers'[g].span
    BY <1>1, <2>1 DEF IndexDecoded
  <2>2. CASE dec_containers'[g].index = 0
    BY <1>1, <2>2
  <2>3. NewDecContainer.index = 0
    BY DEF NewDecContainer
  <2>4. \A s : s \subseteq ReadPayload(s, pkt.vec)
    BY DEF ReadPayload
  <2>5. QED
    BY <2>1, <2>2, <2>3, <2>4, DecPutSpans
<1>2. QED
  BY <1>1 DEF IndexDecoded

LEMMA IndexNext ==
  ASSUME LinkInv, IndexDecoded, ~ Reorder, [Next]_vars
  PROVE  IndexDecoded'
<1>1. CASE EncoderStep
  BY <1>1 DEF EncoderStep, decVars, IndexDecoded, DecActive
<1>2. CASE ReportStep \/ DecSendFeedback
  BY <1>2 DEF ReportStep, DecGetFeedback, DecSendFeedback, IndexDecoded, DecActive
<1>3. CASE ReadStep
  BY <1>3, IndexRead, CodedFacts DEF ReadStep
<1>4. ASSUME NEW vec \in Vectors, SendCoded(vec) PROVE IndexDecoded'
  BY <1>4 DEF SendCoded, decVars, IndexDecoded, DecActive
<1>5. QED
  BY <1>1, <1>2, <1>3, <1>4, IndexGetSource, InOrderSteps DEF DecoderStep

(* A generation that was handed out whole has full rank.                   *)
LEMMA DrainedFull ==
  ASSUME NEW span \in SUBSET Vectors, \A k \in Indices : {k} \in span
  PROVE  Rank(span) = Symbols
<1>1. \A k \in Indices : {k} \in Vectors /\ {k} # {} /\ k \in Nat
  BY SymbolsAssumption DEF Vectors, Indices
<1>2. \A k \in Indices : Pivot({k}) = k
  BY <1>1, PivotLeast
<1>3. Indices \subseteq Pivots(span)
  BY <1>1, <1>2 DEF Pivots
<1>4. Pivots(span) \subseteq Indices
  <2>1. ASSUME NEW v \in span \ {{}} PROVE Pivot(v) \in Indices
    BY PivotLeast DEF Vectors
  <2>2. QED
    BY <2>1 DEF Pivots
<1>5. Pivots(span) = Indices
  BY <1>3, <1>4
<1>6. Cardinality(1 .. Symbols) = Symbols
  <2>1. Cardinality(1 .. Symbols) = IF 1 > Symbols THEN 0 ELSE Symbols - 1 + 1
    BY SymbolsAssumption, FS_Interval
  <2>2. QED
    BY <2>1, SymbolsAssumption
<1>7. QED
  BY <1>5, <1>6 DEF Rank, Indices

-----------------------------------------------------------------------------
(* A report that is as new as the latest packet of a generation is still   *)
(* true of it: the decoder has it open and lacks at least what it asked.   *)
ReportsNews ==
  \A i \in DOMAIN feedback : \A g \in DOMAIN feedback[i].missing :
    /\ g <= enc_gen_newest
    /\ g \in EncActive /\ enc_containers[g].last_seqno <= feedback[i].seqno
       /\ feedback[i].missing[g] > 0 =>
         g \in DecActive /\ feedback[i].missing[g] <= Lacking(g)

(* The report fb in the state of the ends.                                 *)
StillTrue(fb) ==
  \A g \in DOMAIN fb.missing :
    /\ g <= enc_gen_newest
    /\ g \in EncActive /\ enc_containers[g].last_seqno <= fb.seqno /\ fb.missing[g] > 0 =>
         g \in DecActive /\ fb.missing[g] <= Lacking(g)

LEMMA ReportFacts ==
  ASSUME LinkInv
  PROVE  \A i \in DOMAIN feedback :
           /\ feedback[i] \in Feedbacks /\ feedback[i].seqno \in Nat
           /\ \A g \in DOMAIN feedback[i].missing :
                g \in Nat /\ feedback[i].missing[g] \in Nat
<1>1. ASSUME NEW i \in DOMAIN feedback
      PROVE  /\ feedback[i] \in Feedbacks /\ feedback[i].seqno \in Nat
             /\ \A g \in DOMAIN feedback[i].missing :
                  g \in Nat /\ feedback[i].missing[g] \in Nat
  <2> DEFINE fb == feedback[i]
  <2>1. fb \in Feedbacks /\ fb.seqno \in Nat
    BY <1>1, LinkNumbers, NumberFacts
  <2> HIDE DEF fb
  <2>2. fb.missing \in UNION {[gens -> RankDiffs] : gens \in SUBSET Generations}
    BY <2>1 DEF Feedbacks
  <2>3. PICK gens \in SUBSET Generations : fb.missing \in [gens -> RankDiffs]
    BY <2>2
  <2>4. \A g \in DOMAIN fb.missing : g \in Nat /\ fb.missing[g] \in Nat
    <3>1. RankDiffs \subseteq Nat /\ Generations \subseteq Nat
      BY RankSpaceAssumption DEF RankDiffs, Generations
    <3>2. QED
      BY <2>3, <3>1
  <2> USE DEF fb
  <2>5. QED
    BY <2>1, <2>4
<1>2. QED
  BY <1>1

LEMMA LackingFacts ==
  ASSUME LinkInv
  PROVE  \A g \in DecActive \cap EncActive :
           Lacking(g) \in Int /\ Lacking(g) = enc_containers[g].rank - Rank(dec_containers[g].span)
<1>1. ASSUME NEW g \in DecActive \cap EncActive
      PROVE  enc_containers[g].rank \in Int /\ Rank(dec_containers[g].span) \in Int
  <2>1. enc_containers[g].rank \in 0 .. Symbols /\ dec_containers[g].span \in SUBSET Vectors
    BY EncFacts, DecFacts
  <2>2. Rank(dec_containers[g].span) \in 0 .. Symbols
    BY <2>1, RankType
  <2>3. QED
    BY <2>1, <2>2
<1>2. QED
  BY <1>1 DEF Lacking

(* The ends move on: the report of a generation stays true unless a packet *)
(* of it is sent, and then it is no longer as new.                         *)
LEMMA NewsEncoder ==
  ASSUME LinkInv, LinkInv', EncOther, UNCHANGED decVars, NEW fb, fb.seqno \in Nat, StillTrue(fb),
         \A g \in DOMAIN fb.missing : g \in Nat /\ fb.missing[g] \in Nat
  PROVE  StillTrue(fb)'
<1>1. /\ enc_gen_newest \in Nat /\ enc_gen_newest' \in Nat /\ enc_gen_newest <= enc_gen_newest'
      /\ \A g \in EncActive' \ EncActive : g > enc_gen_newest
      /\ \A g \in EncActive' \cap EncActive :
           /\ enc_containers[g].rank <= enc_containers'[g].rank
           /\ enc_containers'[g].last_seqno = enc_containers[g].last_seqno
  BY EncGrows, EncNumbersKept, LinkNumbers DEF EncOther, EncCall
<1>2. DecActive' = DecActive /\ dec_containers' = dec_containers
  BY DEF decVars, DecActive
<1>3. ASSUME NEW g \in DOMAIN fb.missing
      PROVE  /\ g <= enc_gen_newest'
             /\ g \in EncActive' /\ enc_containers'[g].last_seqno <= fb.seqno
                  /\ fb.missing[g] > 0 =>
                  g \in DecActive /\ fb.missing[g] <= Lacking(g)'
  <2>1. g \in Nat /\ g <= enc_gen_newest /\ fb.missing[g] \in Nat
    BY DEF StillTrue
  <2>2. SUFFICES ASSUME g \in EncActive', enc_containers'[g].last_seqno <= fb.seqno,
                        fb.missing[g] > 0
                 PROVE  g \in DecActive /\ fb.missing[g] <= Lacking(g)'
    BY <1>1, <2>1
  <2>3. g \in EncActive
    BY <1>1, <2>1, <2>2
  <2>4. g \in DecActive /\ fb.missing[g] <= Lacking(g)
    BY <1>1, <2>2, <2>3 DEF StillTrue
  <2> DEFINE old == enc_containers[g].rank
             new == enc_containers'[g].rank
             has == Rank(dec_containers[g].span)
  <2>5. /\ Lacking(g) = old - has /\ Lacking(g)' = new - has
    BY <1>2 DEF Lacking
  <2>6. old \in Nat /\ old <= new
    BY <1>1, <2>2, <2>3, EncFacts
  <2>7. new \in Nat
    BY <2>2, SymbolsAssumption DEF LinkInv, EncInv, EncTypeOK, EncActive, EncContainers
  <2>8. has \in Int
    BY <2>4, DecFacts, RankType
  <2> HIDE DEF old, new, has
  <2>9. QED
    BY <2>1, <2>4, <2>5, <2>6, <2>7, <2>8
<1>4. QED
  BY <1>2, <1>3 DEF StillTrue

LEMMA NewsSend ==
  ASSUME LinkInv, NumbersInOrder, 2 * MaxCoded < SeqSpace,
         NEW vec \in Vectors, SendCoded(vec),
         NEW fb, fb.seqno \in Nat, fb.seqno <= dec_last_seqno, StillTrue(fb)
  PROVE  StillTrue(fb)'
<1>1. EncGetCoded(vec) /\ UNCHANGED <<decVars, enc_gen_newest>> /\ enc_seqno < MaxCoded
  BY DEF SendCoded, EncGetCoded
<1>2. EncNextSeqno = enc_seqno + 1
  BY <1>1, NextNumber
<1>3. /\ EncActive' = EncActive
      /\ \A g \in EncActive :
           /\ enc_containers'[g].rank = enc_containers[g].rank
           /\ enc_containers'[g].last_seqno =
                IF g = EncTurn THEN enc_seqno + 1 ELSE enc_containers[g].last_seqno
  BY <1>1, <1>2, EncSends
<1>4. fb.seqno < enc_seqno + 1 /\ enc_seqno + 1 \in Nat
  BY NumberFacts DEF NumbersInOrder
<1>5. DecActive' = DecActive /\ dec_containers' = dec_containers
  BY <1>1 DEF decVars, DecActive
<1>6. \A g \in EncActive : enc_containers'[g].last_seqno <= fb.seqno =>
        enc_containers[g].last_seqno <= fb.seqno
  <2>1. ASSUME NEW g \in EncActive, enc_containers'[g].last_seqno <= fb.seqno
        PROVE  enc_containers[g].last_seqno <= fb.seqno
    <3>1. ~ (enc_seqno + 1 <= fb.seqno)
      BY <1>4
    <3>2. QED
      BY <1>3, <2>1, <3>1
  <2>2. QED
    BY <2>1
<1>7. \A g \in EncActive : Lacking(g)' = Lacking(g)
  BY <1>3, <1>5 DEF Lacking
<1>8. QED
  BY <1>1, <1>3, <1>5, <1>6, <1>7 DEF StillTrue

(* No packet is in flight of a generation the report is news about.        *)
LEMMA NoneInFlight ==
  ASSUME LinkInv, NumbersInOrder, NEW g \in EncActive, NEW seqno \in Nat,
         enc_containers[g].last_seqno <= seqno, seqno <= dec_last_seqno,
         NEW i \in DOMAIN coded
  PROVE  coded[i].generation # g
<1>1. SUFFICES ASSUME coded[i].generation = g PROVE FALSE
  OBVIOUS
<1>2. dec_last_seqno < coded[i].seqno /\ coded[i].seqno <= enc_containers[g].last_seqno
  BY <1>1 DEF NumbersInOrder
<1>3. /\ coded[i].seqno \in Nat /\ enc_containers[g].last_seqno \in Nat
      /\ dec_last_seqno \in Nat
  BY NumberFacts
<1>4. QED
  BY <1>2, <1>3

LEMMA NewsRead ==
  ASSUME LinkInv, NumbersInOrder, ReadStep,
         NEW fb, fb.seqno \in Nat, fb.seqno <= dec_last_seqno, StillTrue(fb)
  PROVE  StillTrue(fb)'
<1> DEFINE pkt == coded[1]
<1>1. /\ 1 \in DOMAIN coded /\ DecPutCoded(pkt) /\ UNCHANGED <<encVars, EncActive>>
  BY DEF ReadStep, encVars, EncActive
<1>2. pkt \in CodedPackets
  BY <1>1, CodedFacts
<1>3. UNCHANGED <<enc_containers, enc_gen_newest, EncActive>>
  BY <1>1 DEF encVars
<1>4. ASSUME NEW g \in DOMAIN fb.missing, g \in EncActive,
             enc_containers[g].last_seqno <= fb.seqno, fb.missing[g] > 0
      PROVE  g \in DecActive' /\ fb.missing[g] <= Lacking(g)'
  <2>1. g \in DecActive /\ fb.missing[g] <= Lacking(g)
    BY <1>4 DEF StillTrue
  <2>2. pkt.generation # g
    BY <1>1, <1>4, NoneInFlight
  <2> HIDE DEF pkt
  <2>3. g \in DecActive' /\ dec_containers'[g].span = dec_containers[g].span
    BY <1>1, <1>2, <2>1, <2>2, DecKeepsOpen, DecPutSpans
  <2>4. Lacking(g)' = Lacking(g)
    BY <1>3, <2>3 DEF Lacking
  <2>5. QED
    BY <2>1, <2>3, <2>4
<1>5. QED
  BY <1>3, <1>4 DEF StillTrue

(* Handing out the last symbol of a generation: nothing of it is lacking.  *)
LEMMA NewsDecoder ==
  ASSUME LinkInv, IndexDecoded, DecoderStep \/ ReportStep,
         NEW fb, StillTrue(fb),
         \A g \in DOMAIN fb.missing : g \in Nat /\ fb.missing[g] \in Nat
  PROVE  StillTrue(fb)'
<1>1. UNCHANGED <<enc_containers, enc_gen_newest, EncActive>>
  BY DEF DecoderStep, ReportStep, encVars, EncActive
<1>2. \A g \in DecActive' :
        g \in DecActive /\ dec_containers'[g].span = dec_containers[g].span
  BY DecOtherSpans DEF DecoderStep, ReportStep
<1>3. ASSUME NEW g \in DecActive \ DecActive', g \in EncActive PROVE Lacking(g) <= 0
  <2> DEFINE oldest == Min(DecActive)
             rest == DecActive \ {oldest}
             index == dec_containers[oldest].index + 1
  <2>1. DecGetSource
    BY <1>3 DEF DecoderStep, ReportStep, DecSendFeedback, DecGetFeedback, DecActive
  <2>2. \/ DecDrained(index) /\ dec_containers' = [h \in rest |-> dec_containers[h]]
        \/ dec_containers' = [dec_containers EXCEPT ![oldest].index = index]
    BY <2>1 DEF DecGetSource
  <2>3. {index} \in dec_containers[oldest].span
    BY <2>1 DEF DecGetSource, DecHasSource, IsSymbolUncoded
  <2> HIDE DEF index, oldest
  <2>4. DecDrained(index) /\ g = oldest
    BY <1>3, <2>2 DEF DecActive
  <2> USE DEF index, oldest
  <2>5. index = Symbols
    BY <2>4 DEF DecDrained
  <2>6. /\ dec_containers[g].index \in Nat /\ dec_containers[g].index + 1 = Symbols
        /\ {Symbols} \in dec_containers[g].span
        /\ dec_containers[g].span \in SUBSET Vectors
    <3>1. /\ dec_containers[g].index \in 0 .. Symbols
          /\ dec_containers[g].span \in SUBSET Vectors
      BY <1>3, DecFacts
    <3>2. index = dec_containers[g].index + 1
      BY <2>4
    <3>3. dec_containers[g].index + 1 = Symbols /\ {Symbols} \in dec_containers[g].span
      BY <2>3, <2>4, <2>5, <3>2
    <3>4. QED
      BY <3>1, <3>3, SymbolsAssumption
  <2>7. ASSUME NEW k \in Indices PROVE {k} \in dec_containers[g].span
    <3>1. k \in 1 .. dec_containers[g].index \/ k = Symbols
      BY <2>6 DEF Indices
    <3>2. QED
      BY <1>3, <2>6, <3>1 DEF IndexDecoded
  <2>8. Rank(dec_containers[g].span) = Symbols
    BY <2>6, <2>7, DrainedFull
  <2>9. enc_containers[g].rank \in 0 .. Symbols /\ Symbols \in Nat
    BY <1>3, EncFacts
  <2>10. QED
    BY <2>8, <2>9 DEF Lacking
<1>4. ASSUME NEW g \in DOMAIN fb.missing, g \in EncActive,
             enc_containers[g].last_seqno <= fb.seqno, fb.missing[g] > 0
      PROVE  g \in DecActive' /\ fb.missing[g] <= Lacking(g)'
  <2>1. g \in DecActive /\ fb.missing[g] <= Lacking(g) /\ fb.missing[g] \in Nat
    BY <1>4 DEF StillTrue
  <2>2. Lacking(g) \in Int
    BY <1>4, <2>1, LackingFacts
  <2>3. g \in DecActive'
    BY <1>3, <1>4, <2>1, <2>2
  <2>4. Lacking(g)' = Lacking(g)
    BY <1>1, <1>2, <2>3 DEF Lacking
  <2>5. QED
    BY <2>1, <2>3, <2>4
<1>5. QED
  BY <1>1, <1>4 DEF StillTrue

(* A report as it is written.                                              *)
LEMMA NewsReport ==
  ASSUME LinkInv, OrderInv, RanksHeard, DecGetFeedback
  PROVE  StillTrue(DecFeedback)
<1>1. dec_last_seqno > 0
  BY NumberFacts DEF RanksHeard, DecGetFeedback
<1>2. /\ DOMAIN DecFeedback.missing = DecActive
      /\ \A g \in DecActive : DecFeedback.missing[g] = DecMissing(dec_containers[g])
  BY DEF DecFeedback
<1>3. ASSUME NEW g \in DecActive PROVE g <= enc_gen_newest
  BY <1>1, DecFacts, LinkNumbers DEF RanksHeard
<1>4. ASSUME NEW g \in DecActive, g \in EncActive
      PROVE  DecMissing(dec_containers[g]) <= Lacking(g)
  <2> DEFINE told == dec_containers[g].enc_rank
             has == Rank(dec_containers[g].span)
             missing == DecMissing(dec_containers[g])
             rank == enc_containers[g].rank
  <2>1. told \in 0 .. Symbols /\ has \in 0 .. told /\ missing \in Nat /\ missing <= told - has
    BY ReportedRank
  <2>2. told <= rank /\ rank \in 0 .. Symbols /\ Symbols \in Nat
    BY <1>1, <1>4, EncFacts DEF RanksHeard
  <2>3. Lacking(g) = rank - has
    BY DEF Lacking
  <2> HIDE DEF told, has, missing, rank
  <2>4. missing <= rank - has
    BY <2>1, <2>2
  <2> USE DEF missing
  <2>5. QED
    BY <2>3, <2>4
<1>5. QED
  BY <1>2, <1>3, <1>4 DEF StillTrue

LEMMA NewsNext ==
  ASSUME LinkInv, LinkInv', OrderInv, NumbersInOrder, RanksHeard, IndexDecoded, ReportsNews,
         ~ Reorder, ~ Duplicate, 2 * MaxCoded < SeqSpace, [Next]_vars
  PROVE  ReportsNews'
<1>1. \A i \in DOMAIN feedback :
        /\ feedback[i].seqno \in Nat /\ feedback[i].seqno <= dec_last_seqno
        /\ StillTrue(feedback[i])
        /\ \A g \in DOMAIN feedback[i].missing : g \in Nat /\ feedback[i].missing[g] \in Nat
  BY ReportFacts DEF NumbersInOrder, ReportsNews, StillTrue
<1>2. ASSUME NEW fb, fb.seqno \in Nat, fb.seqno <= dec_last_seqno, StillTrue(fb),
             \A g \in DOMAIN fb.missing : g \in Nat /\ fb.missing[g] \in Nat
      PROVE  StillTrue(fb)'
  <2>1. CASE EncoderStep
    BY <1>2, <2>1, NewsEncoder DEF EncoderStep
  <2>2. CASE DecoderStep \/ ReportStep
    BY <1>2, <2>2, NewsDecoder
  <2>3. CASE ReadStep
    BY <1>2, <2>3, NewsRead
  <2>4. ASSUME NEW vec \in Vectors, SendCoded(vec) PROVE StillTrue(fb)'
    BY <1>2, <2>4, NewsSend
  <2>5. QED
    BY <2>1, <2>2, <2>3, <2>4, InOrderSteps
<1>3. ASSUME NEW j \in DOMAIN feedback', NEW fb, fb = feedback'[j] PROVE StillTrue(fb)'
  <2>1. CASE \E i \in DOMAIN feedback : fb = feedback[i]
    BY <1>1, <1>2, <2>1
  <2>2. CASE ReportStep /\ ~ \E i \in DOMAIN feedback : fb = feedback[i]
    <3> DEFINE left == feedback'
    <3>1. left = Append(feedback, DecFeedback) /\ feedback \in Seq(Feedbacks)
      BY <2>2, LinkNumbers DEF ReportStep
    <3> HIDE DEF left
    <3>2. \A k \in DOMAIN left :
            (k \in DOMAIN feedback /\ left[k] = feedback[k]) \/ left[k] = DecFeedback
      BY <3>1, Appended
    <3> USE DEF left
    <3>3. fb = DecFeedback
      BY <1>3, <2>2, <3>2
    <3>4. StillTrue(fb)
      BY <2>2, <3>3, NewsReport DEF ReportStep
    <3>5. /\ UNCHANGED <<encVars, EncActive, dec_containers, DecActive>>
      BY <2>2 DEF ReportStep, encVars, EncActive, DecGetFeedback, DecActive
    <3>6. QED
      BY <3>4, <3>5 DEF StillTrue, Lacking, encVars
  <2>3. CASE EncoderStep
    BY <1>3, <2>1, <2>3 DEF EncoderStep, Drains, Shifted
  <2>4. CASE feedback' = feedback
    BY <1>3, <2>1, <2>4
  <2>5. QED
    BY <2>1, <2>2, <2>3, <2>4, InOrderSteps DEF DecoderStep, ReadStep, SendCoded
<1>4. ASSUME NEW j \in DOMAIN feedback', NEW g \in DOMAIN feedback'[j].missing
      PROVE  /\ g <= enc_gen_newest'
             /\ g \in EncActive' /\ enc_containers'[g].last_seqno <= feedback'[j].seqno
                /\ feedback'[j].missing[g] > 0 =>
                  g \in DecActive' /\ feedback'[j].missing[g] <= Lacking(g)'
  <2>1. PICK fb : fb = feedback'[j]
    OBVIOUS
  <2>2. StillTrue(fb)'
    BY <1>3, <2>1
  <2>3. QED
    BY <1>4, <2>1, <2>2 DEF StillTrue
<1>5. QED
  BY <1>4 DEF ReportsNews

-----------------------------------------------------------------------------
OneByOne == ~ Reorder /\ ~ Duplicate /\ 2 * MaxCoded < SeqSpace

RepairInv == LinkInv /\ OrderInv /\ NumbersInOrder /\ RanksHeard /\ IndexDecoded /\ ReportsNews

LEMMA RepairInitInv == Init => RepairInv
<1> SUFFICES ASSUME Init PROVE RepairInv
  OBVIOUS
<1>1. LinkInv /\ OrderInv
  BY LinkInitInv, OrderInitInv
<1>2. /\ EncActive = {} /\ enc_seqno = 0 /\ coded = <<>> /\ feedback = <<>>
      /\ dec_last_seqno = 0 /\ dec_gen_newest = 1
      /\ dec_has_feedback = FALSE /\ dec_fb_timer = FALSE
      /\ \A g \in DecActive : dec_containers[g] = NewDecContainer
  BY DEF Init, EncInit, DecInit, EncActive, DecActive
<1>3. NumbersInOrder /\ ReportsNews
  BY <1>2, LinkAssumption DEF NumbersInOrder, ReportsNews
<1>4. RanksHeard
  BY <1>2 DEF RanksHeard
<1>5. IndexDecoded
  BY <1>2 DEF IndexDecoded, NewDecContainer
<1>6. QED
  BY <1>1, <1>3, <1>4, <1>5 DEF RepairInv

LEMMA RepairNextInv == ASSUME RepairInv, OneByOne, [Next]_vars PROVE RepairInv'
<1>1. /\ LinkInv /\ OrderInv /\ NumbersInOrder /\ RanksHeard /\ IndexDecoded /\ ReportsNews
      /\ ~ Reorder /\ ~ Duplicate /\ 2 * MaxCoded < SeqSpace
  BY DEF RepairInv, OneByOne
<1>2. LinkInv' /\ OrderInv'
  BY <1>1, LinkNextInv, OrderNextInv
<1>3. IndexDecoded' /\ ReportsNews'
  BY <1>1, <1>2, IndexNext, NewsNext
<1>4. NumbersInOrder' /\ RanksHeard'
  <2>1. CASE EncoderStep
    BY <1>1, <1>2, <2>1, NumbersEncoder, HeardEncoder DEF EncoderStep
  <2>2. CASE DecoderStep \/ ReportStep
    BY <1>1, <2>2, NumbersDecoder, HeardDecoder
  <2>3. CASE ReadStep
    BY <1>1, <1>2, <2>3, NumbersRead, HeardRead DEF OrderInv
  <2>4. ASSUME NEW vec \in Vectors, SendCoded(vec) PROVE NumbersInOrder' /\ RanksHeard'
    BY <1>1, <2>4, NumbersSend, HeardSend
  <2>5. QED
    BY <1>1, <2>1, <2>2, <2>3, <2>4, InOrderSteps
<1>5. QED
  BY <1>2, <1>3, <1>4 DEF RepairInv

(* A repair is planned only for what is missing: over channels that keep   *)
(* the order and repeat nothing, though they may lose anything and the     *)
(* timers may expire at any time, a feedback fills a plan only when no     *)
(* packet of the generation is on its way, and with no more packets than   *)
(* the decoder then lacks.  The sequence numbers stay within half their    *)
(* space, where the signed difference of the code orders them.             *)
THEOREM LinkRepairsOnlyMissing == OneByOne => (Spec => RepairsOnlyMissing)
<1> SUFFICES ASSUME OneByOne PROVE Spec => RepairsOnlyMissing
  OBVIOUS
<1>1. Init => RepairInv
  BY RepairInitInv
<1>2. RepairInv /\ [Next]_vars => RepairInv'
  BY RepairNextInv
<1>3. ASSUME RepairInv, [Next]_vars, NEW i \in Heads(feedback), ReceiveFeedback(i),
             NEW g \in EncActive', enc_containers'[g].to_send > enc_containers[g].to_send
      PROVE  /\ PacketsOf(g) = {}
             /\ g \in DecActive
             /\ enc_containers'[g].to_send <= Lacking(g)
  <2> DEFINE fb == feedback[i]
             kept == {h \in EncActive : h > fb.decoded}
  <2>1. i \in DOMAIN feedback /\ EncPutFeedback(fb)
    BY <1>3 DEF ReceiveFeedback, Heads
  <2>2. /\ EncActive' = kept /\ kept \subseteq EncActive
        /\ \A h \in kept : enc_containers'[h] =
             IF h \in EncAccepts(kept, fb)
             THEN [enc_containers[h] EXCEPT !.to_send = fb.missing[h]]
             ELSE enc_containers[h]
    BY <2>1 DEF EncPutFeedback, EncActive
  <2>3. LinkInv /\ NumbersInOrder /\ ReportsNews /\ 2 * MaxCoded < SeqSpace
    BY <1>3 DEF RepairInv, OneByOne
  <2>4. /\ fb.seqno \in Nat /\ fb.seqno <= dec_last_seqno
        /\ dec_last_seqno <= MaxCoded /\ dec_last_seqno \in Nat /\ MaxCoded \in Nat
    <3>1. /\ feedback[i].seqno \in Nat /\ feedback[i].seqno <= dec_last_seqno
          /\ dec_last_seqno <= enc_seqno /\ enc_seqno <= MaxCoded
          /\ dec_last_seqno \in Nat /\ enc_seqno \in Nat /\ MaxCoded \in Nat
      BY <2>1, <2>3, NumberFacts DEF NumbersInOrder
    <3>2. QED
      BY <3>1
  <2>5. /\ g \in kept /\ g \in EncActive
        /\ enc_containers[g] \in EncContainers /\ enc_containers[g].to_send \in Nat
    BY <1>3, <2>2, <2>3, EncFacts DEF EncContainers
  <2>6. /\ enc_containers[g].last_seqno \in Nat /\ enc_containers[g].last_seqno <= MaxCoded
    <3>1. /\ enc_containers[g].last_seqno \in Nat /\ enc_containers[g].last_seqno <= enc_seqno
          /\ enc_seqno <= MaxCoded /\ enc_seqno \in Nat
      BY <2>3, <2>5, NumberFacts DEF NumbersInOrder
    <3>2. QED
      BY <2>4, <3>1
  <2>7. \A h \in DOMAIN fb.missing :
          h \in EncActive /\ enc_containers[h].last_seqno <= fb.seqno /\ fb.missing[h] > 0 =>
            h \in DecActive /\ fb.missing[h] <= Lacking(h)
    BY <2>1, <2>3 DEF ReportsNews
  <2> HIDE DEF fb, kept
  <2>8. g \in EncAccepts(kept, fb)
    <3>1. SUFFICES ASSUME g \notin EncAccepts(kept, fb) PROVE FALSE
      OBVIOUS
    <3>2. enc_containers'[g] = enc_containers[g]
      BY <2>2, <2>5, <3>1
    <3>3. QED
      BY <1>3, <2>5, <3>2
  <2>9. /\ g \in DOMAIN fb.missing /\ enc_containers[g].to_send = 0
        /\ ~ (SeqDiff(enc_containers[g].last_seqno, fb.seqno) > 0)
    BY <2>8 DEF EncAccepts
  <2>10. enc_containers[g].last_seqno <= fb.seqno
    <3> DEFINE last == enc_containers[g].last_seqno
               seqno == fb.seqno
    <3>1. last \in 0 .. MaxCoded /\ seqno \in 0 .. MaxCoded /\ MaxCoded \in Nat
      BY <2>4, <2>6
    <3>2. ~ (SeqDiff(last, seqno) > 0)
      BY <2>9
    <3> HIDE DEF last, seqno
    <3>3. SeqDiff(last, seqno) = last - seqno
      BY <2>3, <3>1, SeqDiffClose
    <3>4. last <= seqno
      BY <3>1, <3>2, <3>3
    <3> USE DEF last, seqno
    <3>5. QED
      BY <3>4
  <2>11. enc_containers'[g].to_send = fb.missing[g]
    <3>1. enc_containers'[g] = [enc_containers[g] EXCEPT !.to_send = fb.missing[g]]
      BY <2>2, <2>5, <2>8
    <3>2. QED
      BY <2>5, <3>1 DEF EncContainers
  <2>12. fb.missing[g] > 0
    BY <1>3, <2>9, <2>11
  <2>13. g \in DecActive /\ fb.missing[g] <= Lacking(g)
    BY <2>5, <2>7, <2>9, <2>10, <2>12
  <2>14. \A j \in DOMAIN coded : coded[j].generation # g
    BY <2>3, <2>4, <2>5, <2>10, NoneInFlight
  <2>15. QED
    BY <2>11, <2>13, <2>14 DEF PacketsOf
<1>4. RepairInv /\ [Next]_vars =>
        [\A i \in Heads(feedback) : ReceiveFeedback(i) =>
           \A g \in EncActive' :
             enc_containers'[g].to_send > enc_containers[g].to_send =>
               /\ PacketsOf(g) = {}
               /\ g \in DecActive
               /\ enc_containers'[g].to_send <= Lacking(g)]_vars
  BY <1>3
<1>5. QED
  BY <1>1, <1>2, <1>4, PTL DEF Spec, RepairsOnlyMissing

-----------------------------------------------------------------------------
(* The stream.  The argument counts slots: every generation is filled      *)
(* before the next one is opened, so the i-th accepted symbol is the one   *)
(* whose slot has the place i; the decoder goes from place to place; and   *)
(* what it can decode was put in, so the next place it goes to was         *)
(* accepted.                                                               *)
(* The place of symbol k of generation g among all slots.                  *)
Place(g, k) == (g - 1) * Symbols + k

Slots == Generations \X Indices

(* The place of the last symbol the encoder took.  A generation it has     *)
(* dropped was full.                                                       *)
EncPosition ==
  IF enc_gen_newest = 0 THEN 0
  ELSE Place(enc_gen_newest,
             IF enc_gen_newest \in EncActive
             THEN enc_containers[enc_gen_newest].rank ELSE Symbols)

SentStream ==
  /\ sent \in Seq(Slots)
  /\ Len(sent) <= MaxSource
  /\ Len(sent) = EncPosition
  /\ \A i \in DOMAIN sent : Place(sent[i][1], sent[i][2]) = i

DeliveredStream ==
  /\ delivered \in Seq(Slots)
  /\ Len(delivered) = DecPosition
  /\ DecPosition <= Len(sent)

(* The symbols of a generation that were put into the encoder.             *)
PutInto(g) == {k \in Indices : Place(g, k) <= Len(sent)}

(* Packets and decoders combine only symbols that were put in.             *)
Origin ==
  /\ \A i \in DOMAIN coded : coded[i].vec \subseteq PutInto(coded[i].generation)
  /\ \A g \in DecActive : dec_containers[g].span \subseteq SUBSET PutInto(g)

(* The inductive invariant of the refinement.                              *)
StreamInv == SentStream /\ DeliveredStream /\ Origin

-----------------------------------------------------------------------------
(* Arithmetic of places.                                                   *)
LEMMA PlaceType ==
  ASSUME NEW g \in Generations, NEW k \in Nat
  PROVE  /\ Place(g, k) \in Nat
         /\ Place(g, k) = Place(g, 0) + k
         /\ Place(g, 0) \in Nat
         /\ Place(g, k + 1) = Place(g, k) + 1
         /\ Place(g + 1, k) = Place(g, Symbols) + k
         /\ g <= Place(g, 0) + 1
<1>1. PICK m \in Nat : g = m + 1
  BY g - 1 \in Nat DEF Generations
<1>2. PICK s \in Nat : Symbols = s + 1
  <2>1. Symbols \in Nat /\ Symbols # 0
    BY SymbolsAssumption
  <2>2. Symbols - 1 \in Nat /\ Symbols = (Symbols - 1) + 1
    BY <2>1
  <2>3. QED
    BY <2>2
<1>3. /\ \A x, y \in Nat : x * y \in Nat
      /\ \A x, y \in Nat : (x + 1) * y = x * y + y
      /\ \A x, y \in Nat : x * (y + 1) = x * y + x
  OBVIOUS
<1>4. /\ (g - 1) * Symbols = m * Symbols /\ m * Symbols \in Nat
      /\ ((g + 1) - 1) * Symbols = m * Symbols + Symbols
      /\ m * Symbols = m * s + m /\ m * s \in Nat
  BY <1>1, <1>2, <1>3
<1>5. QED
  BY <1>1, <1>2, <1>4 DEF Place

(* An earlier generation ends before a later one starts.                   *)
LEMMA PlaceLater ==
  ASSUME NEW g \in Generations, NEW h \in Generations, g < h
  PROVE  Place(g, Symbols) <= Place(h, 0)
<1>1. PICK m \in Nat, d \in Nat : g = m + 1 /\ h = m + d + 2
  BY g - 1 \in Nat, h - g - 1 \in Nat DEF Generations
<1>2. Symbols \in Nat
  BY SymbolsAssumption
<1>3. /\ \A x, y \in Nat : x * y \in Nat
      /\ \A x, y, z \in Nat : (x + y + 1) * z = x * z + y * z + z
  OBVIOUS
<1>4. /\ (h - 1) * Symbols = m * Symbols + d * Symbols + Symbols
      /\ (g - 1) * Symbols = m * Symbols
      /\ m * Symbols \in Nat /\ d * Symbols \in Nat
  <2>1. h - 1 = m + d + 1 /\ g - 1 = m
    BY <1>1
  <2>2. (m + d + 1) * Symbols = m * Symbols + d * Symbols + Symbols
    BY <1>2, <1>3
  <2>3. QED
    BY <1>2, <1>3, <2>1, <2>2
<1>5. QED
  BY <1>2, <1>4 DEF Place

(* Two slots with the same place are one.                                  *)
LEMMA PlaceUnique ==
  ASSUME NEW a \in Slots, NEW b \in Slots, Place(a[1], a[2]) = Place(b[1], b[2])
  PROVE  a = b
<1>1. /\ a[1] \in Generations /\ b[1] \in Generations
      /\ a[2] \in Nat /\ b[2] \in Nat /\ a[1] \in Nat /\ b[1] \in Nat
      /\ 1 <= a[2] /\ a[2] <= Symbols /\ 1 <= b[2] /\ b[2] <= Symbols
      /\ Symbols \in Nat
      /\ a = <<a[1], a[2]>> /\ b = <<b[1], b[2]>>
  BY SymbolsAssumption DEF Slots, Generations, Indices
<1>2. ASSUME NEW u \in Slots, NEW v \in Slots, u[1] < v[1]
      PROVE  Place(u[1], u[2]) < Place(v[1], v[2])
  <2>1. /\ u[1] \in Generations /\ v[1] \in Generations /\ Symbols \in Nat
        /\ u[2] \in Nat /\ v[2] \in Nat /\ u[2] <= Symbols /\ 1 <= v[2]
    BY SymbolsAssumption DEF Slots, Generations, Indices
  <2>2. Place(u[1], Symbols) <= Place(v[1], 0)
    BY <1>2, <2>1, PlaceLater
  <2>3. /\ Place(u[1], u[2]) = Place(u[1], 0) + u[2]
        /\ Place(u[1], Symbols) = Place(u[1], 0) + Symbols
        /\ Place(v[1], v[2]) = Place(v[1], 0) + v[2]
        /\ Place(u[1], 0) \in Nat /\ Place(v[1], 0) \in Nat
    BY <2>1, PlaceType
  <2>4. QED
    BY <2>1, <2>2, <2>3
<1>3. /\ Place(a[1], a[2]) \in Nat
      /\ Place(a[1], a[2]) = Place(a[1], 0) + a[2] /\ Place(a[1], 0) \in Nat
      /\ Place(b[1], b[2]) = Place(b[1], 0) + b[2]
  BY <1>1, PlaceType
<1>4. a[1] = b[1]
  <2>1. ~(a[1] < b[1]) /\ ~(b[1] < a[1])
    <3>1. a[1] < b[1] => Place(a[1], a[2]) < Place(b[1], b[2])
      BY <1>2
    <3>2. b[1] < a[1] => Place(b[1], b[2]) < Place(a[1], a[2])
      BY <1>2
    <3>3. QED
      BY <1>3, <3>1, <3>2
  <2>2. QED
    BY <1>1, <2>1
<1>5. a[2] = b[2]
  <2>1. PICK p \in Nat : Place(a[1], a[2]) = p + a[2] /\ Place(b[1], b[2]) = p + b[2]
    BY <1>3, <1>4
  <2>2. p + a[2] = p + b[2]
    BY <2>1
  <2>3. QED
    BY <1>1, <2>2
<1>6. QED
  BY <1>1, <1>4, <1>5

-----------------------------------------------------------------------------
(* What a generation holds lies before the last place the encoder took.    *)
LEMMA EncHeldPlaces ==
  ASSUME LinkInv, SentStream, NEW g \in EncActive
  PROVE  Place(g, enc_containers[g].rank) <= Len(sent)
<1>1. /\ g \in Generations /\ g <= enc_gen_newest /\ enc_gen_newest \in Nat
      /\ enc_containers[g].rank \in 0 .. Symbols /\ Symbols \in Nat
      /\ enc_gen_newest \in Generations /\ enc_gen_newest # 0 /\ g \in Nat
  BY EncFacts DEF Generations
<1>2. enc_gen_newest \in EncActive
  BY EncNewest, LinkNumbers
<1>3. enc_containers[enc_gen_newest].rank \in Nat
  BY <1>2, EncFacts
<1>4. Len(sent) = Place(enc_gen_newest, enc_containers[enc_gen_newest].rank)
  BY <1>1, <1>2 DEF SentStream, EncPosition
<1>5. Len(sent) \in Nat
  BY DEF SentStream
<1>6. CASE g = enc_gen_newest
  BY <1>4, <1>5, <1>6
<1>7. CASE g < enc_gen_newest
  <2>1. Place(g, Symbols) <= Place(enc_gen_newest, 0)
    BY <1>1, <1>7, PlaceLater
  <2>2. /\ Place(g, enc_containers[g].rank) = Place(g, 0) + enc_containers[g].rank
        /\ Place(g, Symbols) = Place(g, 0) + Symbols /\ Place(g, 0) \in Nat
        /\ Len(sent) = Place(enc_gen_newest, 0) + enc_containers[enc_gen_newest].rank
        /\ Place(enc_gen_newest, 0) \in Nat
    <3>1. enc_containers[g].rank \in Nat
      BY <1>1
    <3>2. \A h \in Generations, k \in Nat : Place(h, k) = Place(h, 0) + k /\ Place(h, 0) \in Nat
      BY PlaceType
    <3>3. QED
      BY <1>1, <1>3, <1>4, <3>1, <3>2
  <2>3. QED
    BY <1>1, <1>3, <2>1, <2>2, SMTT(30)
<1>8. QED
  BY <1>1, <1>6, <1>7

-----------------------------------------------------------------------------
(* The slot of the symbol put_source takes has the next place.             *)
EncSlot == <<EncSourceGen, EncOpen(EncSourceGen).rank + 1>>

LEMMA EncPutPosition ==
  ASSUME LinkInv, EncPutSource
  PROVE  /\ EncSlot \in Slots
         /\ Place(EncSlot[1], EncSlot[2]) = EncPosition + 1
         /\ EncPosition' = EncPosition + 1
         /\ EncPosition \in Nat
<1> DEFINE gen == EncSourceGen
           rank == EncOpen(gen).rank
<1>1. /\ enc_gen_newest' = gen /\ gen \in EncActive'
      /\ enc_containers'[gen].rank = [EncOpen(gen) EXCEPT !.rank = rank + 1,
             !.to_send = @ + (IF rank + 1 = Symbols THEN 1 + Redundancy ELSE 1)].rank
  BY DEF EncPutSource, EncActive
<1>2. /\ enc_gen_newest \in Nat /\ Symbols \in Nat /\ Symbols >= 1
      /\ EncActive \subseteq Generations
      /\ \A g \in EncActive : /\ enc_containers[g] \in EncContainers
                              /\ enc_containers[g].rank \in 0 .. Symbols
                              /\ g <= enc_gen_newest
  BY EncFacts
<1>3. CASE EncNewestFull
  <2>1. gen = enc_gen_newest + 1
    BY <1>3 DEF EncSourceGen
  <2>2. gen \notin EncActive /\ gen \in Generations
    BY <1>2, <2>1 DEF Generations
  <2>3. EncOpen(gen) = [rank |-> 0, sent |-> 0, last_seqno |-> 0, to_send |-> 0]
    BY <2>2 DEF EncOpen
  <2>4. rank = 0 /\ enc_containers'[gen].rank = 1
    BY <1>1, <2>3
  <2>5. EncSlot = <<gen, 1>> /\ EncSlot \in Slots
    BY <1>2, <2>2, <2>4 DEF EncSlot, Slots, Indices
  <2>6. EncPosition' = Place(gen, 1)
    BY <1>1, <1>2, <2>1, <2>4 DEF EncPosition
  <2>7. EncPosition = Place(gen, 0) /\ EncPosition \in Nat
    <3>1. CASE enc_gen_newest = 0
      BY <1>2, <2>1, <3>1 DEF EncPosition, Place
    <3>2. CASE enc_gen_newest # 0
      <4>1. EncPosition = Place(enc_gen_newest, Symbols)
        <5>1. CASE enc_gen_newest \in EncActive
          <6>1. enc_containers[enc_gen_newest].rank = Symbols
            BY <1>3, <5>1, EncNewest, LinkNumbers DEF EncNewestFull
          <6>2. QED
            BY <3>2, <5>1, <6>1 DEF EncPosition
        <5>2. CASE enc_gen_newest \notin EncActive
          BY <3>2, <5>2 DEF EncPosition
        <5>3. QED
          BY <5>1, <5>2
      <4>2. /\ Place(enc_gen_newest + 1, 0) = Place(enc_gen_newest, Symbols) + 0
            /\ Place(enc_gen_newest, Symbols) \in Nat
        BY <1>2, <3>2, PlaceType DEF Generations
      <4>3. QED
        BY <2>1, <4>1, <4>2
    <3>3. QED
      BY <3>1, <3>2
  <2>8. Place(gen, 1) = Place(gen, 0) + 1
    BY <2>2, PlaceType
  <2>9. QED
    BY <2>5, <2>6, <2>7, <2>8
<1>4. CASE ~EncNewestFull
  <2>1. EncActive # {} /\ gen = Max(EncActive) /\ enc_containers[gen].rank # Symbols
    BY <1>4 DEF EncSourceGen, EncNewestFull
  <2>2. gen = enc_gen_newest /\ gen \in EncActive /\ gen \in Generations
    BY <1>2, <2>1, EncNewest, LinkNumbers
  <2>3. EncOpen(gen) = enc_containers[gen] /\ rank \in 0 .. Symbols /\ rank # Symbols
        /\ EncOpen(gen) \in EncContainers
    BY <1>2, <2>1, <2>2 DEF EncOpen
  <2>4. enc_containers'[gen].rank = rank + 1
    BY <1>1, <2>3 DEF EncContainers
  <2>5. EncSlot = <<gen, rank + 1>> /\ EncSlot \in Slots
    BY <1>2, <2>2, <2>3 DEF EncSlot, Slots, Indices
  <2>6. EncPosition' = Place(gen, rank + 1)
    <3>1. enc_gen_newest' # 0
      BY <1>1, <2>2 DEF Generations
    <3>2. QED
      BY <1>1, <2>4, <3>1 DEF EncPosition
  <2>7. EncPosition = Place(gen, rank)
    <3>1. enc_gen_newest # 0
      BY <2>2 DEF Generations
    <3>2. QED
      BY <2>2, <2>3, <3>1 DEF EncPosition
  <2>8. Place(gen, rank + 1) = Place(gen, rank) + 1 /\ Place(gen, rank) \in Nat
    <3>1. rank \in Nat
      BY <1>2, <2>3
    <3> HIDE DEF gen, rank
    <3>2. QED
      BY <2>2, <3>1, PlaceType
  <2>9. QED
    BY <2>5, <2>6, <2>7, <2>8
<1>5. QED
  BY <1>3, <1>4

(* No other call moves it: a generation leaves the encoder after all its   *)
(* symbols were delivered, and so after it was filled.                     *)
LEMMA EncPositionKept ==
  ASSUME LinkInv, SentStream, DeliveredStream,
         \/ \E vec \in Vectors : EncGetCoded(vec)
         \/ EncRepairTimeout
         \/ \E fb \in Feedbacks : EncPutFeedback(fb) /\ fb.decoded <= dec_gen_oldest_deleted
         \/ UNCHANGED encVars
  PROVE  EncPosition' = EncPosition
<1>1. /\ EncActive' \subseteq EncActive
      /\ \A g \in EncActive' : enc_containers'[g].rank = enc_containers[g].rank
  BY EncRanksKept
<1>2. /\ enc_gen_newest' = enc_gen_newest
      /\ \A g \in EncActive : g \in EncActive' \/ g <= dec_gen_oldest_deleted
  <2>1. CASE (\E vec \in Vectors : EncGetCoded(vec)) \/ EncRepairTimeout
    BY <2>1, EncListSame, LinkNumbers
  <2>2. CASE UNCHANGED encVars
    BY <2>2 DEF encVars, EncActive
  <2>3. ASSUME NEW fb \in Feedbacks, EncPutFeedback(fb), fb.decoded <= dec_gen_oldest_deleted
        PROVE  /\ enc_gen_newest' = enc_gen_newest
               /\ \A g \in EncActive : g \in EncActive' \/ g <= dec_gen_oldest_deleted
    <3>1. /\ enc_gen_newest' = enc_gen_newest
          /\ EncActive' = {g \in EncActive : g > fb.decoded}
      BY <2>3, EncListPutFeedback, LinkNumbers
    <3>2. fb.decoded \in Nat /\ dec_gen_oldest_deleted \in Nat /\ EncActive \subseteq Nat
      BY LinkNumbers, EncFacts DEF Feedbacks, Generations
    <3>3. QED
      BY <2>3, <3>1, <3>2
  <2>4. QED
    BY <2>1, <2>2, <2>3
<1>3. CASE enc_gen_newest \in EncActive' \/ enc_gen_newest \notin EncActive
  BY <1>1, <1>2, <1>3 DEF EncPosition
<1>4. CASE enc_gen_newest \in EncActive /\ enc_gen_newest \notin EncActive'
  <2> DEFINE E == enc_gen_newest
             D == dec_gen_oldest_deleted
             rank == enc_containers[E].rank
  <2>1. /\ E \in Generations /\ E # 0 /\ E <= D /\ D \in Nat /\ E \in Nat
        /\ rank \in 0 .. Symbols /\ Symbols \in Nat
    BY <1>2, <1>4, EncFacts, LinkNumbers DEF Generations
  <2>2. EncPosition = Place(E, rank) /\ EncPosition' = Place(E, Symbols)
    BY <1>2, <1>4, <2>1 DEF EncPosition
  <2>3. Place(D + 1, 0) <= DecPosition /\ DecPosition \in Nat
    <3>1. Place(D + 1, 0) = D * Symbols /\ D * Symbols \in Nat
      BY <2>1 DEF Place
    <3>2. CASE DecActive = {}
      BY <3>1, <3>2 DEF DecPosition
    <3>3. CASE DecActive # {}
      <4>1. dec_containers[Min(DecActive)] \in DecContainers
        BY <3>3, DecEnds, LinkNumbers DEF DecInv, DecTypeOK, DecActive
      <4>2. dec_containers[Min(DecActive)].index \in Nat
        BY <2>1, <4>1 DEF DecContainers
      <4>3. QED
        BY <3>1, <3>3, <4>2 DEF DecPosition
    <3>4. QED
      BY <3>2, <3>3
  <2>4. DecPosition <= Place(E, rank)
    BY <2>2 DEF SentStream, DeliveredStream
  <2>5. Place(E, Symbols) <= Place(D + 1, 0)
    BY <2>1, PlaceLater DEF Generations
  <2>6. /\ Place(E, rank) = Place(E, 0) + rank /\ Place(E, 0) \in Nat
        /\ Place(E, Symbols) = Place(E, 0) + Symbols
        /\ Place(D + 1, 0) \in Nat
    <3>1. rank \in Nat /\ D + 1 \in Generations
      BY <2>1 DEF Generations
    <3> HIDE DEF rank, E, D
    <3>2. QED
      BY <2>1, <3>1, PlaceType
  <2>7. rank = Symbols
    <3> HIDE DEF rank, E, D
    <3>1. QED
      BY <2>1, <2>3, <2>4, <2>5, <2>6
  <2>8. QED
    BY <2>2, <2>7
<1>5. QED
  BY <1>3, <1>4

-----------------------------------------------------------------------------
(* What was put in stays put in.                                           *)
LEMMA PutIntoGrows ==
  ASSUME Len(sent) \in Nat, Len(sent') \in Nat, Len(sent) <= Len(sent'),
         NEW g \in Generations
  PROVE  PutInto(g) \subseteq PutInto(g)'
<1>1. ASSUME NEW k \in Indices PROVE Place(g, k) \in Nat
  <2>1. k \in Nat
    BY SymbolsAssumption DEF Indices
  <2>2. QED
    BY <2>1, PlaceType
<1>2. QED
  BY <1>1 DEF PutInto

(* A decoder that reads combinations of a set of symbols can produce only  *)
(* combinations of them.                                                   *)
LEMMA ReadWithin ==
  ASSUME NEW S, NEW span \in SUBSET (SUBSET S), NEW v \in SUBSET S
  PROVE  ReadPayload(span, v) \subseteq SUBSET S
  BY DEF ReadPayload, Plus

(* An encoder writes combinations of the symbols it holds.                 *)
LEMMA EncPayloadHeld ==
  ASSUME LinkInv, SentStream, NEW vec \in Vectors, EncGetCoded(vec)
  PROVE  vec \subseteq PutInto(EncTurn) /\ EncTurn \in Generations
<1>1. EncTurn \in EncActive
  <2>1. EncWithCoded \subseteq EncActive /\ EncWithCoded # {}
    BY DEF EncGetCoded, EncWithCoded
  <2>2. EncWithCoded \in SUBSET Nat
    BY <2>1, EncFacts DEF Generations
  <2>3. QED
    BY <2>1, <2>2, MinProperty DEF EncTurn
<1> DEFINE rank == enc_containers[EncTurn].rank
           past == enc_containers[EncTurn].sent
<1>2. /\ EncTurn \in Generations /\ rank \in 0 .. Symbols /\ past \in 0 .. Symbols
      /\ Symbols \in Nat
  BY <1>1, EncFacts
<1>3. Place(EncTurn, rank) <= Len(sent) /\ Len(sent) \in Nat
  BY <1>1, EncHeldPlaces DEF SentStream
<1>4. vec \in Payloads(rank, past)
  BY DEF EncGetCoded, EncPayloads
<1> HIDE DEF rank, past
<1>5. vec \subseteq 1 .. rank
  BY <1>2, <1>4 DEF Payloads
<1>6. ASSUME NEW k \in vec PROVE k \in PutInto(EncTurn)
  <2>1. k \in Nat /\ k <= rank /\ k \in Indices /\ rank \in Nat
    BY <1>2, <1>5 DEF Indices
  <2>2. /\ Place(EncTurn, k) = Place(EncTurn, 0) + k
        /\ Place(EncTurn, rank) = Place(EncTurn, 0) + rank
        /\ Place(EncTurn, 0) \in Nat
    BY <1>2, <2>1, PlaceType
  <2>3. Place(EncTurn, k) <= Len(sent)
    BY <1>3, <2>1, <2>2
  <2>4. QED
    BY <2>1, <2>3 DEF PutInto
<1>7. QED
  BY <1>2, <1>6

(* put_coded keeps every decoder within the symbols that were put in.      *)
LEMMA DecPutWithin ==
  ASSUME LinkInv, Origin, NEW i \in DOMAIN coded, DecPutCoded(coded[i])
  PROVE  \A g \in DecActive' : dec_containers'[g].span \subseteq SUBSET PutInto(g)
<1> DEFINE pkt == coded[i]
           gen == pkt.generation
           conts == DecWithOpened(DecOpened(gen))
<1>1. /\ pkt \in CodedPackets /\ gen \in Generations /\ pkt.vec \subseteq PutInto(gen)
  <2>1. pkt \in CodedPackets
    BY LinkNumbers, ElementOfSeq
  <2>2. QED
    BY <2>1 DEF Origin, CodedPackets
<1>2. /\ \A g \in DecActive : /\ dec_containers[g].span \subseteq SUBSET PutInto(g)
                               /\ dec_containers[g] \in DecContainers
  BY LinkNumbers DEF Origin, DecInv, DecTypeOK, DecActive
<1>3. CASE dec_containers' = dec_containers
  BY <1>2, <1>3 DEF DecActive
<1>4. CASE /\ gen > dec_gen_oldest_deleted /\ DecFindsContainer(gen)
           /\ dec_containers' = [conts EXCEPT ![gen] = DecRead(@, pkt)]
  <2>1. /\ DOMAIN conts = DecActive \cup DecOpened(gen)
        /\ gen \in DOMAIN conts
        /\ \A g \in DOMAIN conts : conts[g] \in DecContainers
    <3>1. DOMAIN conts = DecActive \cup DecOpened(gen)
      BY DEF DecWithOpened
    <3>2. /\ gen \in DOMAIN conts
          /\ \A g \in DOMAIN conts : conts[g] \in DecContainers
      BY <1>1, <1>4, LinkNumbers, DecOpenedList
    <3>3. QED
      BY <3>1, <3>2
  <2>2. ASSUME NEW g \in DOMAIN conts PROVE conts[g].span \subseteq SUBSET PutInto(g)
    <3>1. CASE g \in DecOpened(gen)
      <4>1. conts[g] = NewDecContainer
        BY <2>1, <3>1 DEF DecWithOpened
      <4>2. QED
        BY <4>1 DEF NewDecContainer, EmptySpan
    <3>2. CASE g \notin DecOpened(gen)
      <4>1. g \in DecActive
        BY <2>1, <3>2
      <4>2. \/ conts[g] = [dec_containers[g] EXCEPT !.enc_rank = Symbols]
            \/ conts[g] = dec_containers[g]
        BY <2>1, <3>2 DEF DecWithOpened
      <4>3. conts[g].span = dec_containers[g].span
        BY <1>2, <4>1, <4>2 DEF DecContainers
      <4>4. QED
        BY <1>2, <4>1, <4>3
    <3>3. QED
      BY <3>1, <3>2
  <2> HIDE DEF conts, pkt, gen
  <2>3. ASSUME NEW g \in DOMAIN conts
        PROVE  dec_containers'[g].span \subseteq SUBSET PutInto(g)
    <3>1. CASE g # gen
      BY <1>4, <2>2, <3>1
    <3>2. CASE g = gen
      <4>1. dec_containers'[gen] = DecRead(conts[gen], pkt) /\ conts[gen] \in DecContainers
        BY <1>4, <2>1
      <4>2. \/ dec_containers'[gen].span = ReadPayload(conts[gen].span, pkt.vec)
            \/ dec_containers'[gen].span = conts[gen].span
        BY <4>1 DEF DecRead, DecContainers
      <4>3. conts[gen].span \subseteq SUBSET PutInto(gen)
        BY <2>1, <2>2
      <4>4. ReadPayload(conts[gen].span, pkt.vec) \subseteq SUBSET PutInto(gen)
        BY <1>1, <4>3, ReadWithin
      <4>5. QED
        BY <3>2, <4>2, <4>3, <4>4
    <3>3. QED
      BY <3>1, <3>2
  <2>4. DecActive' = DOMAIN conts
    BY <1>4 DEF DecActive
  <2>5. QED
    BY <2>3, <2>4
<1>5. QED
  BY <1>3, <1>4 DEF DecPutCoded

(* The other calls of the decoder leave what it can produce alone.         *)
LEMMA DecKeepsWithin ==
  ASSUME LinkInv, Origin,
         DecGetSource \/ DecSendFeedback \/ DecGetFeedback \/ UNCHANGED decVars
  PROVE  \A g \in DecActive' : dec_containers'[g].span \subseteq SUBSET PutInto(g)
<1>1. \A g \in DecActive : /\ dec_containers[g].span \subseteq SUBSET PutInto(g)
                           /\ dec_containers[g] \in DecContainers
  BY LinkNumbers DEF Origin, DecInv, DecTypeOK, DecActive
<1>2. CASE UNCHANGED dec_containers
  BY <1>1, <1>2 DEF DecActive
<1>3. CASE DecGetSource
  <2> DEFINE oldest == Min(DecActive)
             rest == DecActive \ {oldest}
             index == dec_containers[oldest].index + 1
  <2>1. \/ dec_containers' = [g \in rest |-> dec_containers[g]]
        \/ dec_containers' = [dec_containers EXCEPT ![oldest].index = index]
    BY <1>3 DEF DecGetSource
  <2> HIDE DEF oldest, index
  <2>2. CASE dec_containers' = [g \in rest |-> dec_containers[g]]
    BY <1>1, <2>2 DEF DecActive
  <2>3. CASE dec_containers' = [dec_containers EXCEPT ![oldest].index = index]
    <3>1. DecActive' = DecActive
      BY <2>3 DEF DecActive
    <3>2. ASSUME NEW g \in DecActive
          PROVE  dec_containers'[g].span = dec_containers[g].span
      <4>1. \/ dec_containers'[g] = [dec_containers[g] EXCEPT !.index = index]
            \/ dec_containers'[g] = dec_containers[g]
        BY <2>3 DEF DecActive
      <4>2. QED
        BY <1>1, <4>1 DEF DecContainers
    <3>3. QED
      BY <1>1, <3>1, <3>2
  <2>4. QED
    BY <2>1, <2>2, <2>3
<1>4. QED
  BY <1>2, <1>3 DEF DecSendFeedback, DecGetFeedback, decVars

(* The symbol get_source hands out is the next one that was accepted: the  *)
(* decoder can decode it, so it was put in, and there is one slot for each *)
(* place.                                                                  *)
LEMMA DeliversNext ==
  ASSUME LinkInv, StreamInv, DecGetSource
  PROVE  /\ Len(delivered) < Len(sent)
         /\ DecSource \in Slots
         /\ DecSource = sent[Len(delivered) + 1]
<1> DEFINE D == dec_gen_oldest_deleted
           oldest == Min(DecActive)
           index == dec_containers[oldest].index
<1>1. /\ DecActive # {} /\ {index + 1} \in dec_containers[oldest].span
  BY DEF DecGetSource, DecHasSource, IsSymbolUncoded
<1>2. oldest = D + 1 /\ oldest \in DecActive /\ D \in Nat
  BY <1>1, DecEnds, LinkNumbers
<1>3. /\ oldest \in Generations /\ dec_containers[oldest] \in DecContainers
  BY <1>2, LinkNumbers DEF Generations, DecInv, DecTypeOK, DecActive
<1>4. index \in Nat
  BY <1>3, SymbolsAssumption DEF DecContainers
<1>5. index + 1 \in PutInto(oldest)
  BY <1>1, <1>2 DEF StreamInv, Origin
<1>6. index + 1 \in Indices /\ Place(oldest, index + 1) <= Len(sent)
  BY <1>5 DEF PutInto
<1>7. DecSource = <<oldest, index + 1>> /\ DecSource \in Slots
  BY <1>3, <1>6 DEF DecSource, Slots
<1>8. Len(delivered) = Place(oldest, index)
  <2>1. DecPosition = D * Symbols + index
    BY <1>1 DEF DecPosition
  <2>2. (oldest - 1) * Symbols = D * Symbols
    BY <1>2
  <2>3. QED
    BY <2>1, <2>2 DEF Place, StreamInv, DeliveredStream
<1>9. Place(oldest, index + 1) = Len(delivered) + 1 /\ Len(delivered) \in Nat
  <2> HIDE DEF oldest, index, D
  <2>1. QED
    BY <1>3, <1>4, <1>8, PlaceType
<1>10. Len(delivered) + 1 \in 1 .. Len(sent) /\ Len(sent) \in Nat
  BY <1>6, <1>9 DEF StreamInv, SentStream
<1> DEFINE next == sent[Len(delivered) + 1]
<1>11. next \in Slots /\ Place(next[1], next[2]) = Len(delivered) + 1
  BY <1>10 DEF StreamInv, SentStream
<1>12. Place(DecSource[1], DecSource[2]) = Len(delivered) + 1
  BY <1>7, <1>9
<1> HIDE DEF next
<1>13. next = DecSource
  BY <1>7, <1>11, <1>12, PlaceUnique
<1>14. QED
  BY <1>7, <1>9, <1>10, <1>13 DEF next

-----------------------------------------------------------------------------
(* The parts of the invariant, step by step.                               *)
LEMMA StreamInit == Init => StreamInv
<1> SUFFICES ASSUME Init PROVE StreamInv
  OBVIOUS
<1>1. /\ sent = <<>> /\ delivered = <<>> /\ coded = <<>> /\ enc_gen_newest = 0
      /\ dec_gen_oldest_deleted = 0
      /\ dec_containers = [g \in {1} |-> NewDecContainer]
  BY DEF Init, EncInit, DecInit
<1>2. MaxSource \in Nat /\ Symbols \in Nat
  BY LinkAssumption, SymbolsAssumption
<1>3. SentStream
  BY <1>1, <1>2 DEF SentStream, EncPosition
<1>4. DecPosition = 0
  <2>1. DecActive = {1} /\ dec_containers[1].index = 0
    BY <1>1 DEF DecActive, NewDecContainer
  <2>2. Min({1}) = 1
    BY MinProperty
  <2>3. 0 * Symbols = 0
    BY <1>2
  <2>4. QED
    BY <1>1, <2>1, <2>2, <2>3 DEF DecPosition
<1>5. DeliveredStream
  BY <1>1, <1>4 DEF DeliveredStream
<1>6. Origin
  BY <1>1 DEF Origin, DecActive, NewDecContainer, EmptySpan
<1>7. QED
  BY <1>3, <1>5, <1>6 DEF StreamInv

(* put_source appends the slot with the next place.                        *)
LEMMA PutSourceStream ==
  ASSUME LinkInv, StreamInv, PutSource
  PROVE  /\ StreamInv'
         /\ EncSlot \in (1 .. MaxSource) \X Indices
         /\ \A i \in DOMAIN sent : sent[i] # EncSlot
         /\ sent' = Append(sent, EncSlot)
<1>1. /\ EncPutSource /\ Len(sent) < MaxSource /\ MaxSource \in Nat
      /\ sent' = Append(sent, EncSlot)
      /\ UNCHANGED <<decVars, coded, delivered>>
  BY LinkAssumption DEF PutSource, EncSlot
<1>2. /\ sent \in Seq(Slots) /\ Len(sent) \in Nat /\ DOMAIN sent = 1 .. Len(sent)
      /\ Len(sent) = EncPosition
      /\ \A i \in DOMAIN sent : Place(sent[i][1], sent[i][2]) = i
  BY DEF StreamInv, SentStream
<1>3. /\ EncSlot \in Slots
      /\ Place(EncSlot[1], EncSlot[2]) = Len(sent) + 1
      /\ EncPosition' = Len(sent) + 1
  BY <1>1, <1>2, EncPutPosition
<1>4. /\ sent' \in Seq(Slots) /\ Len(sent') = Len(sent) + 1
      /\ DOMAIN sent' = 1 .. Len(sent) + 1
      /\ sent'[Len(sent) + 1] = EncSlot
      /\ \A i \in 1 .. Len(sent) : sent'[i] = sent[i]
  BY <1>1, <1>2, <1>3
<1>5. SentStream'
  <2>1. ASSUME NEW i \in DOMAIN sent' PROVE Place(sent'[i][1], sent'[i][2]) = i
    <3>1. i \in 1 .. Len(sent) \/ i = Len(sent) + 1
      BY <1>2, <1>4
    <3>2. QED
      BY <1>2, <1>3, <1>4, <3>1
  <2>2. Len(sent') <= MaxSource
    BY <1>1, <1>2, <1>4
  <2>3. QED
    BY <1>3, <1>4, <2>1, <2>2 DEF SentStream
<1>6. UNCHANGED <<DecActive, dec_containers, dec_gen_oldest_deleted, DecPosition>>
  BY <1>1 DEF decVars, DecActive, DecPosition
<1>7. DeliveredStream'
  <2>1. Len(delivered) \in Nat /\ DecPosition = Len(delivered)
    BY DEF StreamInv, DeliveredStream
  <2>2. DecPosition <= Len(sent')
    BY <1>2, <1>4, <2>1 DEF StreamInv, DeliveredStream
  <2>3. QED
    BY <1>1, <1>6, <2>2 DEF StreamInv, DeliveredStream
<1>8. Origin'
  <2>1. \A g \in Generations : PutInto(g) \subseteq PutInto(g)'
    BY <1>2, <1>4, PutIntoGrows
  <2>2. ASSUME NEW i \in DOMAIN coded
        PROVE  coded[i].vec \subseteq PutInto(coded[i].generation)'
    <3>1. coded[i] \in CodedPackets
      BY LinkNumbers, ElementOfSeq
    <3>2. PICK g \in Generations : g = coded[i].generation
      BY <3>1 DEF CodedPackets
    <3>3. coded[i].vec \subseteq PutInto(g)
      BY <3>2 DEF StreamInv, Origin
    <3>4. coded[i].vec \subseteq PutInto(g)'
      BY <2>1, <3>3
    <3>5. QED
      BY <1>1, <3>2, <3>4 DEF PutInto
  <2>3. ASSUME NEW g \in DecActive
        PROVE  dec_containers[g].span \subseteq SUBSET PutInto(g)'
    <3>1. g \in Generations
      BY LinkNumbers DEF DecInv, DecTypeOK, DecActive
    <3>2. QED
      BY <2>1, <3>1 DEF StreamInv, Origin
  <2>4. QED
    BY <1>1, <1>6, <2>2, <2>3 DEF Origin
<1>9. EncSlot[1] \in 1 .. MaxSource /\ EncSlot[2] \in Indices
  <2>1. EncSlot[1] \in Generations /\ EncSlot[2] \in Indices
    BY <1>3 DEF Slots
  <2>2. EncSlot[2] \in Nat /\ EncSlot[2] >= 1 /\ EncSlot[1] \in Nat /\ EncSlot[1] >= 1
    BY <2>1, SymbolsAssumption DEF Indices, Generations
  <2>3. /\ Place(EncSlot[1], EncSlot[2]) = Place(EncSlot[1], 0) + EncSlot[2]
        /\ Place(EncSlot[1], 0) \in Nat
        /\ EncSlot[1] <= Place(EncSlot[1], 0) + 1
    BY <2>1, <2>2, PlaceType
  <2>4. QED
    BY <1>1, <1>2, <1>3, <2>1, <2>2, <2>3
<1>10. EncSlot \in (1 .. MaxSource) \X Indices
  BY <1>9 DEF EncSlot
<1>11. ASSUME NEW i \in DOMAIN sent, sent[i] = EncSlot PROVE FALSE
  <2>1. i = Len(sent) + 1
    BY <1>2, <1>3, <1>11
  <2>2. QED
    BY <1>2, <2>1
<1>12. QED
  BY <1>1, <1>5, <1>7, <1>8, <1>10, <1>11 DEF StreamInv

(* The steps that leave the two histories alone: they move neither         *)
(* position, and add no packet and no decoder with anything new in it.     *)
LEMMA QuietStream ==
  ASSUME LinkInv, StreamInv, UNCHANGED <<sent, delivered>>,
         EncPosition' = EncPosition, DecPosition' = DecPosition,
         \A i \in DOMAIN coded' :
           \/ \E k \in DOMAIN coded : coded'[i] = coded[k]
           \/ coded'[i].vec \subseteq PutInto(coded'[i].generation),
         \A g \in DecActive' : dec_containers'[g].span \subseteq SUBSET PutInto(g)
  PROVE  StreamInv'
<1>1. SentStream' /\ DeliveredStream'
  BY DEF StreamInv, SentStream, DeliveredStream
<1>2. \A g : PutInto(g)' = PutInto(g)
  BY DEF PutInto
<1>3. \A i \in DOMAIN coded' : coded'[i].vec \subseteq PutInto(coded'[i].generation)
  BY DEF StreamInv, Origin
<1>4. Origin'
  BY <1>2, <1>3 DEF Origin
<1>5. QED
  BY <1>1, <1>4 DEF StreamInv

LEMMA GetSourceStream ==
  ASSUME LinkInv, StreamInv, GetSource
  PROVE  StreamInv'
<1>1. /\ DecGetSource /\ UNCHANGED <<encVars, coded, sent>>
      /\ delivered' = Append(delivered, DecSource)
  BY DEF GetSource
<1>2. /\ Len(delivered) < Len(sent) /\ DecSource \in Slots
      /\ delivered \in Seq(Slots) /\ Len(delivered) \in Nat /\ Len(sent) \in Nat
      /\ Len(delivered) = DecPosition
  BY <1>1, DeliversNext DEF StreamInv, DeliveredStream, SentStream
<1>3. EncPosition' = EncPosition
  BY <1>1 DEF encVars, EncPosition, EncActive
<1>4. DecPosition' = DecPosition + 1
  BY <1>1, DecGetSourceInv, LinkNumbers
<1>5. delivered' \in Seq(Slots) /\ Len(delivered') = Len(delivered) + 1
  BY <1>1, <1>2
<1>6. SentStream' /\ DeliveredStream'
  BY <1>1, <1>2, <1>3, <1>4, <1>5 DEF StreamInv, SentStream, DeliveredStream
<1>7. \A g \in DecActive' : dec_containers'[g].span \subseteq SUBSET PutInto(g)
  BY <1>1, DecKeepsWithin DEF StreamInv
<1>8. \A g : PutInto(g)' = PutInto(g)
  BY <1>1 DEF PutInto
<1>9. Origin'
  BY <1>1, <1>7, <1>8 DEF StreamInv, Origin
<1>10. QED
  BY <1>6, <1>9 DEF StreamInv

LEMMA SendCodedStream ==
  ASSUME LinkInv, StreamInv, NEW vec \in Vectors, SendCoded(vec)
  PROVE  StreamInv'
<1>1. /\ EncGetCoded(vec) /\ UNCHANGED <<decVars, sent, delivered>>
      /\ coded' = Append(coded, EncPacket(vec))
  BY DEF SendCoded
<1>2. EncPosition' = EncPosition
  BY <1>1, EncPositionKept DEF StreamInv
<1>3. DecPosition' = DecPosition
  BY <1>1, DecFeedbackInv, LinkNumbers
<1>4. EncPacket(vec).vec \subseteq PutInto(EncPacket(vec).generation)
  BY <1>1, EncPayloadHeld DEF StreamInv, EncPacket
<1>5. \A j \in DOMAIN coded' :
        coded'[j] = EncPacket(vec) \/ \E k \in DOMAIN coded : coded'[j] = coded[k]
  BY <1>1, EncPacketType, AddedTo, LinkNumbers
<1>6. \A g \in DecActive' : dec_containers'[g].span \subseteq SUBSET PutInto(g)
  BY <1>1, DecKeepsWithin DEF StreamInv
<1>7. QED
  BY <1>1, <1>2, <1>3, <1>4, <1>5, <1>6, QuietStream

LEMMA ReceiveCodedStream ==
  ASSUME LinkInv, StreamInv, NEW i, ReceiveCoded(i)
  PROVE  StreamInv'
<1> DEFINE left == coded'
<1>1. /\ i \in DOMAIN coded /\ DecPutCoded(coded[i])
      /\ left = RemoveAt(coded, i) \/ left = coded
      /\ UNCHANGED <<encVars, sent, delivered>>
  BY DEF ReceiveCoded, Heads
<1>2. \A j \in DOMAIN left : \E k \in DOMAIN coded : left[j] = coded[k]
  <2> HIDE DEF left
  <2>1. QED
    BY <1>1, TakenFrom, LinkNumbers
<1>3. EncPosition' = EncPosition
  BY <1>1 DEF encVars, EncPosition, EncActive
<1>4. DecPosition' = DecPosition
  BY <1>1, DecPutCodedInv, LinkNumbers, ElementOfSeq
<1>5. \A g \in DecActive' : dec_containers'[g].span \subseteq SUBSET PutInto(g)
  BY <1>1, DecPutWithin DEF StreamInv
<1>6. QED
  BY <1>1, <1>2, <1>3, <1>4, <1>5, QuietStream

(* Feedback, the timers, losses and the steps of nobody.                   *)
LEMMA OtherStream ==
  ASSUME LinkInv, StreamInv,
         \/ RepairTimeout \/ FeedbackTimeout \/ SendFeedback \/ UNCHANGED vars
         \/ \E i : ReceiveFeedback(i) \/ LoseCoded(i) \/ LoseFeedback(i)
  PROVE  StreamInv'
<1> DEFINE left == coded'
<1>1. /\ UNCHANGED <<sent, delivered>>
      /\ left = coded \/ \E i \in DOMAIN coded : left = RemoveAt(coded, i)
      /\ DecSendFeedback \/ DecGetFeedback \/ UNCHANGED decVars
  BY DEF RepairTimeout, FeedbackTimeout, SendFeedback, vars, linkVars, ReceiveFeedback,
         LoseCoded, LoseFeedback, Heads
<1>2. \A j \in DOMAIN left : \E k \in DOMAIN coded : left[j] = coded[k]
  <2> HIDE DEF left
  <2>1. CASE left = coded
    BY <2>1
  <2>2. ASSUME NEW i \in DOMAIN coded, left = RemoveAt(coded, i)
        PROVE  \A j \in DOMAIN left : \E k \in DOMAIN coded : left[j] = coded[k]
    BY <2>2, RemoveAtType, LinkNumbers
  <2>3. QED
    BY <1>1, <2>1, <2>2
<1>3. DecPosition' = DecPosition
  BY <1>1, DecFeedbackInv, LinkNumbers
<1>4. \A g \in DecActive' : dec_containers'[g].span \subseteq SUBSET PutInto(g)
  BY <1>1, DecKeepsWithin DEF StreamInv
<1>5. EncPosition' = EncPosition
  <2>1. CASE RepairTimeout \/ UNCHANGED encVars
    BY <2>1, EncPositionKept DEF StreamInv, RepairTimeout
  <2>2. ASSUME NEW i, ReceiveFeedback(i) PROVE EncPosition' = EncPosition
    <3>1. /\ i \in DOMAIN feedback /\ EncPutFeedback(feedback[i])
          /\ feedback[i] \in Feedbacks /\ feedback[i].decoded <= dec_gen_oldest_deleted
      BY <2>2, LinkNumbers, ElementOfSeq DEF ReceiveFeedback, Heads, InFlight
    <3>2. QED
      BY <3>1, EncPositionKept DEF StreamInv
  <2>3. QED
    BY <2>1, <2>2 DEF FeedbackTimeout, SendFeedback, vars, LoseCoded, LoseFeedback
<1>6. QED
  BY <1>1, <1>2, <1>3, <1>4, <1>5, QuietStream

LEMMA StreamNext ==
  ASSUME LinkInv, StreamInv, [Next]_vars
  PROVE  StreamInv'
<1>1. ASSUME NEW vec \in Vectors, SendCoded(vec) PROVE StreamInv'
  BY <1>1, SendCodedStream
<1>2. ASSUME NEW i, ReceiveCoded(i) PROVE StreamInv'
  BY <1>2, ReceiveCodedStream
<1>3. QED
  BY <1>1, <1>2, PutSourceStream, GetSourceStream, OtherStream DEF Next

(* A step of CODARQ is a step of the stream or changes nothing of it.      *)
LEMMA StreamStep ==
  ASSUME LinkInv, StreamInv, [Next]_vars
  PROVE  [Stream!Next]_(Stream!vars)
<1>1. CASE PutSource
  <2>1. /\ EncSlot \in (1 .. MaxSource) \X Indices
        /\ \A i \in DOMAIN sent : sent[i] # EncSlot
        /\ sent' = Append(sent, EncSlot) /\ delivered' = delivered
    BY <1>1, PutSourceStream DEF PutSource
  <2>2. QED
    BY <2>1 DEF Stream!Next, Stream!Put
<1>2. CASE GetSource
  <2>1. /\ Len(delivered) < Len(sent)
        /\ delivered' = Append(delivered, sent[Len(delivered) + 1])
        /\ sent' = sent
    BY <1>2, DeliversNext DEF GetSource
  <2>2. QED
    BY <2>1 DEF Stream!Next, Stream!Deliver
<1>3. CASE UNCHANGED <<sent, delivered>>
  BY <1>3 DEF Stream!vars
<1>4. PutSource \/ GetSource \/ UNCHANGED <<sent, delivered>>
  BY DEF Next, SendCoded, RepairTimeout, ReceiveCoded, LoseCoded, FeedbackTimeout,
         SendFeedback, ReceiveFeedback, LoseFeedback, vars, linkVars
<1>5. QED
  BY <1>1, <1>2, <1>3, <1>4

(* CODARQ implements a reliable stream (src/codarq): whatever the channels *)
(* lose, repeat or reorder and whenever the timers expire, every symbol    *)
(* that comes out is the next one that went in.                            *)
THEOREM LinkImplementsStream == Spec => InOrder
<1>1. Init => Stream!Init
  BY DEF Init, Stream!Init
<1>2. LinkInv /\ StreamInv /\ [Next]_vars => [Stream!Next]_(Stream!vars)
  BY StreamStep
<1>3. LinkInv /\ StreamInv /\ [Next]_vars => (LinkInv /\ StreamInv)'
  BY LinkNextInv, StreamNext
<1>4. QED
  BY <1>1, <1>2, <1>3, LinkInitInv, StreamInit, PTL DEF Spec, InOrder, Stream!Spec

=============================================================================
