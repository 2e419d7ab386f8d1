--------------------------------- MODULE Nck ---------------------------------
(***************************************************************************)
(* The interface of the library: nckernel.h calls a coder through the      *)
(* table of functions of its protocol.  Here an encoder, decoder or        *)
(* recoder is the record of one of the protocols and says which.           *)
(***************************************************************************)
EXTENDS Gsaw, Noack, Nocode, Pace, Pacemg, Tetrys

NckEncStart(o) ==
  CASE o.protocol = "gsaw"   -> GsawEncStart(o)
    [] o.protocol = "noack"  -> NoackEncStart(o)
    [] o.protocol = "nocode" -> NocodeEncStart(o)
    [] o.protocol = "pace"   -> PaceEncStart(o)
    [] o.protocol = "pacemg" -> PacemgEncStart(o)
    [] o.protocol = "tetrys" -> TetrysEncStart(o)

NckEncHasCoded(e) ==
  CASE e.protocol = "gsaw"   -> GsawEncHasCoded(e)
    [] e.protocol = "noack"  -> NoackEncHasCoded(e)
    [] e.protocol = "nocode" -> NocodeEncHasCoded(e)
    [] e.protocol = "pace"   -> PaceEncHasCoded(e)
    [] e.protocol = "pacemg" -> PacemgEncHasCoded(e)
    [] e.protocol = "tetrys" -> TetrysEncHasCoded(e)

NckEncFull(e) ==
  CASE e.protocol \in {"gsaw", "noack"} -> e.full
    [] e.protocol = "nocode" -> NocodeEncHasCoded(e)
    [] e.protocol = "pace"   -> PaceEncFull(e)
    [] e.protocol = "pacemg" -> PacemgEncFull(e)
    [] e.protocol = "tetrys" -> TetrysEncFull(e)

NckEncPutSource(e) ==
  CASE e.protocol = "gsaw"   -> GsawEncPutSource(e)
    [] e.protocol = "noack"  -> NoackEncPutSource(e)
    [] e.protocol = "nocode" -> NocodeEncPutSource(e)
    [] e.protocol = "pace"   -> PaceEncPutSource(e)
    [] e.protocol = "pacemg" -> PacemgEncPutSource(e)
    [] e.protocol = "tetrys" -> TetrysEncPutSource(e)

NckEncPackets(e) ==
  CASE e.protocol = "gsaw"   -> GsawEncPackets(e)
    [] e.protocol = "noack"  -> NoackEncPackets(e)
    [] e.protocol = "nocode" -> NocodeEncPackets(e)
    [] e.protocol = "pace"   -> PaceEncPackets(e)
    [] e.protocol = "pacemg" -> PacemgEncPackets(e)
    [] e.protocol = "tetrys" -> TetrysEncPackets(e)

NckEncGetCoded(e) ==
  CASE e.protocol = "gsaw"   -> GsawEncGetCoded(e)
    [] e.protocol = "noack"  -> NoackEncGetCoded(e)
    [] e.protocol = "nocode" -> NocodeEncGetCoded(e)
    [] e.protocol = "pace"   -> PaceEncGetCoded(e)
    [] e.protocol = "pacemg" -> PacemgEncGetCoded(e)
    [] e.protocol = "tetrys" -> TetrysEncGetCoded(e)

(* nck_pacemg_enc_flush_coded and nck_nocode_enc_flush_coded do nothing.   *)
NckEncFlushCoded(e) ==
  CASE e.protocol = "gsaw"   -> GsawEncFlush(e)
    [] e.protocol = "noack"  -> NoackEncFlush(e)
    [] e.protocol = "pace"   -> PaceEncFlush(e)
    [] e.protocol = "tetrys" -> TetrysEncFlush(e)
    [] OTHER -> e

NckEncPutFeedback(e, fb) ==
  CASE e.protocol = "gsaw"   -> GsawEncPutFeedback(e, fb)
    [] e.protocol = "pace"   -> PaceEncPutFeedback(e, fb)
    [] e.protocol = "pacemg" -> PacemgEncPutFeedback(e, fb)
    [] e.protocol = "tetrys" -> TetrysEncPutFeedback(e, fb)

(* The timers of encoders: each flushes.                                   *)
NckEncTimer(e) == e.protocol \in {"noack", "tetrys"} /\ e.timer

NckEncTimeout(e) ==
  CASE e.protocol = "noack"  -> NoackEncTimeout(e)
    [] e.protocol = "tetrys" -> TetrysEncTimeout(e)

(* Where the symbol is that was put in last.                               *)
NckEncSlot(e) ==
  CASE e.protocol \in {"gsaw", "noack", "pace"} -> <<e.generation, e.rank>>
    [] e.protocol = "nocode" -> <<1, e.count>>
    [] e.protocol = "pacemg" -> <<Last(e.containers).generation, Last(e.containers).rank>>
    [] e.protocol = "tetrys" -> <<1, e.source_id - 1>>

(* The symbols an encoder still sends packets of.                          *)
NckEncCovers(e) ==
  CASE e.protocol = "gsaw"   -> IF e.complete THEN {} ELSE SlotsOf(e.generation, 1 .. e.rank)
    [] e.protocol = "pace"   -> IF PaceEncHasCoded(e) THEN SlotsOf(e.generation, 1 .. e.rank)
                                ELSE {}
    [] e.protocol = "pacemg" -> UNION {SlotsOf(c.generation, 1 .. c.rank) :
                                         c \in Range(e.containers)}
    [] e.protocol = "tetrys" -> {<<1, id>> : id \in e.window}
    [] OTHER -> {}

-----------------------------------------------------------------------------
NckDecStart(o) ==
  CASE o.protocol = "gsaw"   -> GsawDecStart(o)
    [] o.protocol = "noack"  -> NoackDecStart(o)
    [] o.protocol = "nocode" -> NocodeDecStart(o)
    [] o.protocol = "pace"   -> PaceDecStart(o)
    [] o.protocol = "pacemg" -> PacemgDecStart(o)
    [] o.protocol = "tetrys" -> TetrysDecStart(o)

(* What put_coded may make of a decoder.                                   *)
NckDecPutCodeds(d, pkt) ==
  CASE d.protocol = "gsaw"   -> {GsawDecPutCoded(d, pkt)}
    [] d.protocol = "noack"  -> {NoackDecPutCoded(d, pkt)}
    [] d.protocol = "nocode" -> {NocodeDecPutCoded(d, pkt)}
    [] d.protocol = "pace"   -> {PaceDecPutCoded(d, pkt)}
    [] d.protocol = "pacemg" -> PacemgDecPutCodeds(d, pkt)
    [] d.protocol = "tetrys" -> {TetrysDecPutCoded(d, pkt)}

NckDecHasSource(d) ==
  CASE d.protocol = "gsaw"   -> GsawDecHasSource(d)
    [] d.protocol = "noack"  -> NoackDecHasSource(d)
    [] d.protocol = "nocode" -> NocodeDecHasSource(d)
    [] d.protocol = "pace"   -> PaceDecHasSource(d)
    [] d.protocol = "pacemg" -> PacemgDecHasSource(d)
    [] d.protocol = "tetrys" -> TetrysDecHasSource(d)

NckDecGetSource(d) ==
  CASE d.protocol = "gsaw"   -> GsawDecGetSource(d)
    [] d.protocol = "noack"  -> NoackDecGetSource(d)
    [] d.protocol = "nocode" -> NocodeDecGetSource(d)
    [] d.protocol = "pace"   -> PaceDecGetSource(d)
    [] d.protocol = "pacemg" -> PacemgDecGetSource(d)
    [] d.protocol = "tetrys" -> TetrysDecGetSource(d)

(* nck_tetrys_dec_flush_source and nck_nocode_dec_flush_source do nothing. *)
NckDecFlushSource(d) ==
  CASE d.protocol = "gsaw"   -> GsawDecFlushSource(d)
    [] d.protocol = "noack"  -> NoackDecFlushSource(d)
    [] d.protocol = "pace"   -> PaceDecFlushSource(d)
    [] d.protocol = "pacemg" -> PacemgDecFlushSource(d)
    [] OTHER -> d

NckDecHasFeedback(d) ==
  CASE d.protocol = "gsaw" -> GsawDecHasFeedback(d)
    [] d.protocol = "pace" -> PaceDecHasFeedback(d)
    [] d.protocol \in {"pacemg", "tetrys"} -> d.has_feedback
    [] OTHER -> FALSE

(* The feedback packets get_feedback may write.                            *)
NckDecFeedbacks(d, ids) ==
  CASE d.protocol \in {"gsaw", "pace"} -> {ReportOf(d)}
    [] d.protocol = "pacemg" -> {PacemgFeedback(d)}
    [] d.protocol = "tetrys" -> TetrysFeedbacks(d, ids)

NckDecGetFeedback(d) ==
  CASE d.protocol = "gsaw"   -> GsawDecGetFeedback(d)
    [] d.protocol = "pace"   -> PaceDecGetFeedback(d)
    [] d.protocol = "pacemg" -> PacemgDecGetFeedback(d)
    [] d.protocol = "tetrys" -> TetrysDecGetFeedback(d)

NckDecTimer(d) ==
  \/ d.protocol = "noack" /\ d.timer
  \/ d.protocol = "pace" /\ d.fb_timer

NckDecTimeout(d) ==
  CASE d.protocol = "noack" -> NoackDecTimeout(d)
    [] d.protocol = "pace"  -> PaceDecFbTimeout(d)

(* The decoded symbols its application can still be given.                 *)
NckPending(d) ==
  CASE d.protocol \in {"gsaw", "noack", "pace"} -> QueuePending(d)
    [] d.protocol = "nocode" -> IF d.len > 0 THEN {<<1, d.len>>} ELSE {}
    [] d.protocol = "pacemg" ->
         UNION {QueuePending([c EXCEPT !.queue = SubSeq(@, c.queue_index + 1, Len(@))]) :
                  c \in {d.containers[n] : n \in DOMAIN d.containers}}
    [] d.protocol = "tetrys" ->
         {<<1, id>> : id \in {i \in TetrysPivots(d) : i >= d.next_id /\ {i} \in d.rows}}

(* What a decoder may overwrite unread when it becomes n: the queue of an  *)
(* earlier generation when the next one begins, NOCODE's one symbol when   *)
(* another arrives.                                                        *)
NckOverwritten(d, n) ==
  CASE d.protocol \in {"noack", "pace"} /\ d.generation < n.generation -> Range(d.queue)
    [] d.protocol = "nocode" /\ n.len > 0 -> NckPending(d)
    [] OTHER -> {}

(* Does a receiver have a symbol, or as many packets as it takes, or is it *)
(* past the symbol?                                                        *)
NckSettled(c, slot) ==
  CASE c.protocol \in {"gsaw", "pace"} ->
         \/ c.generation > slot[1]
         \/ c.generation = slot[1] /\ Rank(c.span) >= slot[2]
    [] c.protocol = "pacemg" ->
         \/ slot[1] < c.gen_oldest \/ slot[1] <= c.gen_oldest_deleted
         \/ \E n \in PacemgAt(c, slot[1]) : c.containers[n].rank_dec >= slot[2]
    [] c.protocol = "tetrys" -> slot[2] < c.next_id \/ slot[2] \in TetrysPivots(c)
    [] OTHER -> FALSE

(* Does a packet tell a receiver something new?                            *)
NckIsNews(c, pkt) ==
  IF c.protocol = "tetrys" THEN TetrysReduced(c, pkt.vec) # {} ELSE TRUE

-----------------------------------------------------------------------------
NckRecStart(o) ==
  CASE o.protocol = "noack"  -> NoackRecStart(o)
    [] o.protocol = "nocode" -> NocodeRecStart(o)
    [] o.protocol = "pace"   -> PaceRecStart(o)

NckRecPutCoded(r, pkt) ==
  CASE r.protocol = "noack"  -> NoackRecPutCoded(r, pkt)
    [] r.protocol = "nocode" -> NocodeRecPutCoded(r, pkt)
    [] r.protocol = "pace"   -> PaceRecPutCoded(r, pkt)

NckRecHasCoded(r) ==
  CASE r.protocol = "noack"  -> NoackRecHasCoded(r)
    [] r.protocol = "nocode" -> r.has_coded
    [] r.protocol = "pace"   -> PaceRecHasCoded(r)

NckRecPackets(r) ==
  CASE r.protocol = "noack"  -> NoackRecPackets(r)
    [] r.protocol = "nocode" -> NocodeRecPackets(r)
    [] r.protocol = "pace"   -> PaceRecPackets(r)

NckRecGetCoded(r) ==
  CASE r.protocol = "noack"  -> NoackRecGetCoded(r)
    [] r.protocol = "nocode" -> NocodeRecGetCoded(r)
    [] r.protocol = "pace"   -> PaceRecGetCoded(r)

NckRecHasSource(r) ==
  CASE r.protocol = "noack"  -> NoackRecHasSource(r)
    [] r.protocol = "nocode" -> r.has_source
    [] r.protocol = "pace"   -> PaceRecHasSource(r)

NckRecGetSource(r) ==
  CASE r.protocol = "noack"  -> NoackRecGetSource(r)
    [] r.protocol = "nocode" -> NocodeRecGetSource(r)
    [] r.protocol = "pace"   -> PaceRecGetSource(r)

(* Only PACE's recoder hears and gives feedback.                           *)
NckRecPutFeedback(r, fb) == IF r.protocol = "pace" THEN PaceRecPutFeedback(r, fb) ELSE r

NckRecHasFeedback(r) == r.protocol = "pace" /\ PaceRecHasFeedback(r)

NckRecGetFeedback(r) == PaceRecGetFeedback(r)

NckRecTimer(r) ==
  \/ r.protocol = "noack" /\ r.timer
  \/ r.protocol = "pace" /\ r.fb_timer

NckRecTimeout(r) ==
  CASE r.protocol = "noack" -> NoackRecTimeout(r)
    [] r.protocol = "pace"  -> PaceRecFbTimeout(r)

=============================================================================
