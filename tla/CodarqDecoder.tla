---------------------------- MODULE CodarqDecoder ----------------------------
(***************************************************************************)
(* The CODARQ decoder, src/codarq/decoder.c: one kodo decoder per open     *)
(* generation, a feedback flag, and a timer that raises the flag again     *)
(* while no coded packet arrives.  A step is one call of the decoder's     *)
(* interface or one expiry of the timer.                                   *)
(***************************************************************************)
EXTENDS Codarq, FiniteSetsExt

CONSTANT FbTimeout       \* is dec_fb_timeout set?

ASSUME FbTimeoutAssumption == FbTimeout \in BOOLEAN

VARIABLES dec_containers,           \* container_list: generation -> container
          dec_gen_newest,           \* gen_newest: survives an empty list
          dec_gen_oldest_deleted,   \* the newest generation that was delivered
          dec_last_seqno,           \* newest sequence number seen
          dec_has_feedback,         \* has_feedback
          dec_fb_timer,             \* is the feedback timer armed?
          dec_lost                  \* put_coded failed its assertion or spins

decVars == <<dec_containers, dec_gen_newest, dec_gen_oldest_deleted, dec_last_seqno,
             dec_has_feedback, dec_fb_timer, dec_lost>>

(* span: what kodo has read (rank is its rank); enc_rank: the encoder's    *)
(* rank as last reported; index: symbols already delivered.                *)
DecContainers ==
  [span : SUBSET Vectors, enc_rank : 0 .. Symbols, index : 0 .. Symbols]

DecTypeOK ==
  /\ DOMAIN dec_containers \subseteq Generations
  /\ dec_containers \in [DOMAIN dec_containers -> DecContainers]
  /\ dec_gen_newest \in Nat
  /\ dec_gen_oldest_deleted \in Nat
  /\ dec_last_seqno \in SeqNos
  /\ dec_has_feedback \in BOOLEAN
  /\ dec_fb_timer \in BOOLEAN
  /\ dec_lost \in BOOLEAN

NewDecContainer == [span |-> EmptySpan, enc_rank |-> Symbols, index |-> 0]

(* The decoder starts with an open first generation and an unarmed timer.  *)
DecInit ==
  /\ dec_containers = [g \in {1} |-> NewDecContainer]
  /\ dec_gen_newest = 1
  /\ dec_gen_oldest_deleted = 0
  /\ dec_last_seqno = 0
  /\ dec_has_feedback = FALSE
  /\ dec_fb_timer = FALSE
  /\ dec_lost = FALSE

-----------------------------------------------------------------------------
DecActive == DOMAIN dec_containers

(* Mutant: only the generation of the packet is opened.                    *)
DecOpenedOnly(gen) == IF gen \in DecActive THEN {} ELSE {gen}

(* The generations the loop of put_coded opens on the way to generation    *)
(* gen, and whether the call gets out of that loop with a container.       *)
DecOpened(gen) ==
  IF gen \in DecActive THEN {} ELSE (dec_gen_newest + 1) .. gen

DecFindsContainer(gen) == gen \in DecActive \/ gen > dec_gen_newest

(* start_next_generation: a generation that is not the last one is full,   *)
(* so opening a new one sets the enc_rank of the one before it.            *)
DecWithOpened(opened) ==
  [g \in DecActive \cup opened |->
     IF g \in opened THEN NewDecContainer
     ELSE IF opened # {} /\ g = Max(DecActive)
          THEN [dec_containers[g] EXCEPT !.enc_rank = Symbols]
          ELSE dec_containers[g]]

DecRead(c, pkt) ==
  [c EXCEPT !.enc_rank = pkt.rank,
            !.span = IF Rank(@) < Symbols THEN ReadPayload(@, pkt.vec) ELSE @]

(* nck_codarq_dec_put_coded.  A packet of a generation that was already    *)
(* delivered only triggers feedback, so that an encoder that missed the    *)
(* last one does not hang.                                                 *)
DecPutCoded(pkt) ==
  /\ ~dec_lost
  /\ dec_last_seqno' =
       IF SeqDiff(dec_last_seqno, pkt.seqno) < 0 THEN pkt.seqno ELSE dec_last_seqno
  /\ \/ /\ pkt.generation <= dec_gen_oldest_deleted
        /\ dec_has_feedback' = TRUE
        /\ UNCHANGED <<dec_containers, dec_gen_newest, dec_fb_timer, dec_lost>>
     \/ /\ pkt.generation > dec_gen_oldest_deleted
        /\ ~DecFindsContainer(pkt.generation)
        /\ dec_lost' = TRUE
        /\ UNCHANGED <<dec_containers, dec_gen_newest, dec_has_feedback, dec_fb_timer>>
     \/ /\ pkt.generation > dec_gen_oldest_deleted
        /\ DecFindsContainer(pkt.generation)
        /\ LET conts == DecWithOpened(DecOpened(pkt.generation))
           IN  /\ dec_containers' =
                    [conts EXCEPT ![pkt.generation] = DecRead(@, pkt)]
               /\ dec_gen_newest' = Max(DOMAIN conts)
        /\ dec_has_feedback' = TRUE
        /\ dec_fb_timer' = (dec_fb_timer \/ FbTimeout)
        /\ UNCHANGED dec_lost
  /\ UNCHANGED dec_gen_oldest_deleted

-----------------------------------------------------------------------------
(* nck_codarq_dec_has_source: never past a generation not yet delivered.   *)
DecHasSource ==
  /\ DecActive # {}
  /\ Min(DecActive) <= dec_gen_oldest_deleted + 1
  /\ LET oldest == dec_containers[Min(DecActive)]
     IN  IsSymbolUncoded(oldest.span, oldest.index + 1)

(* The slot (generation, position) of the symbol get_source hands out.     *)
DecSource == <<Min(DecActive), dec_containers[Min(DecActive)].index + 1>>

(* Mutant: the container goes before its last symbol.                      *)
DecDrainedEarly(index) == index >= Symbols - 1

(* Was that the last symbol of its generation?                             *)
DecDrained(index) == index = Symbols

(* nck_codarq_dec_get_source: the last symbol of a generation takes its    *)
(* container with it.                                                      *)
DecGetSource ==
  /\ ~dec_lost
  /\ DecHasSource
  /\ LET oldest == Min(DecActive)
         index == dec_containers[oldest].index + 1
     IN  IF DecDrained(index)
         THEN LET rest == DecActive \ {oldest}
              IN  /\ dec_containers' = [g \in rest |-> dec_containers[g]]
                  /\ dec_gen_oldest_deleted' = oldest
                  /\ dec_gen_newest' = IF rest = {} THEN dec_gen_newest ELSE Max(rest)
         ELSE /\ dec_containers' = [dec_containers EXCEPT ![oldest].index = index]
              /\ UNCHANGED <<dec_gen_oldest_deleted, dec_gen_newest>>
  /\ UNCHANGED <<dec_last_seqno, dec_has_feedback, dec_fb_timer, dec_lost>>

-----------------------------------------------------------------------------
(* decoder_send_feedback: again and again while a generation is open.      *)
DecSendFeedback ==
  /\ ~dec_lost
  /\ dec_fb_timer
  /\ dec_has_feedback' = TRUE
  /\ dec_fb_timer' = (FbTimeout /\ DecActive # {})
  /\ UNCHANGED <<dec_containers, dec_gen_newest, dec_gen_oldest_deleted,
                 dec_last_seqno, dec_lost>>

DecMissing(c) == (c.enc_rank - Rank(c.span)) % RankSpace

(* Mutants: the oldest open generation is reported as decoded; a decoder    *)
(* without containers reports that nothing was.                            *)
DecFeedbackOpen ==
  [decoded |-> dec_gen_oldest_deleted + 1, seqno |-> dec_last_seqno,
   missing |-> [g \in DecActive |-> DecMissing(dec_containers[g])]]

DecFeedbackForgets ==
  [decoded |-> IF DecActive = {} THEN 0 ELSE dec_gen_oldest_deleted,
   seqno |-> dec_last_seqno,
   missing |-> [g \in DecActive |-> DecMissing(dec_containers[g])]]

DecFeedback ==
  [decoded |-> dec_gen_oldest_deleted, seqno |-> dec_last_seqno,
   missing |-> [g \in DecActive |-> DecMissing(dec_containers[g])]]

(* nck_codarq_dec_get_feedback, which the application calls when           *)
(* has_feedback says so.                                                   *)
DecGetFeedback ==
  /\ ~dec_lost
  /\ dec_has_feedback
  /\ dec_has_feedback' = FALSE
  /\ UNCHANGED <<dec_containers, dec_gen_newest, dec_gen_oldest_deleted,
                 dec_last_seqno, dec_fb_timer, dec_lost>>

-----------------------------------------------------------------------------
(* The decoder among callers that may hand it any packet in pkts.          *)
DecNext(pkts) ==
  \/ \E pkt \in pkts : DecPutCoded(pkt)
  \/ DecGetSource
  \/ DecSendFeedback
  \/ DecGetFeedback

DecSpec == DecInit /\ [][DecNext(CodedPackets)]_decVars

-----------------------------------------------------------------------------
(* The open generations are exactly those after the last delivered one, so *)
(* whatever packet arrives, put_coded finds or opens its container: the    *)
(* assertion on cont holds and the loop that opens containers terminates.  *)
DecContiguous ==
  /\ DecActive = (dec_gen_oldest_deleted + 1) .. dec_gen_newest
  /\ dec_gen_oldest_deleted <= dec_gen_newest
  /\ ~dec_lost

(* The number of symbols delivered so far, counted in slots.               *)
DecPosition ==
  dec_gen_oldest_deleted * Symbols +
    (IF DecActive = {} THEN 0 ELSE dec_containers[Min(DecActive)].index)

(* No slot is skipped and none is delivered twice: from a generation to    *)
(* the next as within one, get_source goes one slot further and no other   *)
(* call moves it.                                                          *)
DecSlotBySlot ==
  [][DecPosition' = DecPosition + (IF DecGetSource THEN 1 ELSE 0)]_decVars

=============================================================================
