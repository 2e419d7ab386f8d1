------------------------------- MODULE Tetrys -------------------------------
(***************************************************************************)
(* Tetrys, src/tetrys: an elastic coding window.  Symbols have numbers; a  *)
(* repair packet combines the whole window of the encoder, and feedback    *)
(* names the symbols the decoder has not seen, all others leave it.        *)
(***************************************************************************)
EXTENDS Generation, RateControl

(* window: the numbers of the symbols kept; next: the first that was not   *)
(* sent as it is, source_id if there is none; zero: may the coefficients   *)
(* all be drawn as zero?  failed: an assertion failed.                     *)
TetrysEncStart(o) ==
  [protocol |-> "tetrys", window |-> {}, max_window_size |-> o.window, source_id |-> 0,
   next |-> 0, rc |-> DualInit(o.window \div 2, 1), timer |-> FALSE,
   timeout |-> o.timeout, zero |-> o.zero, failed |-> FALSE]

TetrysEncHasCoded(e) ==
  e.window # {} /\ (e.next # e.source_id \/ NextRepair(e.rc, 0))

TetrysEncFull(e) == Cardinality(e.window) >= e.max_window_size

(* nck_tetrys_enc_flush_coded: as many repair packets as there are symbols *)
TetrysEncFlush(e) ==
  IF e.window = {} THEN e
  ELSE [e EXCEPT !.rc = DualReset(@, TRUE, Cardinality(e.window))]

(* encoder_timeout_flush                                                   *)
TetrysEncTimeout(e) == TetrysEncFlush([e EXCEPT !.timer = FALSE])

(* The next number in the window, or the end.                              *)
TetrysFollowing(window, id, end) ==
  LET later == {j \in window : j > id} IN IF later = {} THEN end ELSE Min(later)

(* nck_tetrys_enc_put_source                                               *)
TetrysEncPutSource(e) ==
  LET id  == e.source_id
      all == e.window \cup {id}
      out == IF Cardinality(all) > e.max_window_size THEN {Min(all)} ELSE {}
  IN [e EXCEPT !.source_id = id + 1, !.window = all \ out, !.timer = FALSE,
               !.next = IF @ \in out THEN TetrysFollowing(all, @, id + 1) ELSE @]

TetrysEncRepair(e) == NextRepair(e.rc, 0) \/ e.next = e.source_id

(* A repair packet lists the whole window, its oldest symbol first; all    *)
(* coefficients may be drawn as zero.                                      *)
TetrysEncPackets(e) ==
  IF TetrysEncRepair(e)
  THEN {[repair |-> TRUE, oldest |-> Min(e.window), vec |-> v] :
          v \in {w \in SUBSET e.window : w # {} \/ e.zero}}
  ELSE {[repair |-> FALSE, oldest |-> e.next, vec |-> {e.next}]}

(* nck_tetrys_enc_get_coded                                                *)
TetrysEncGetCoded(e) ==
  LET sent == [e EXCEPT !.rc = Step(@),
                        !.next = IF TetrysEncRepair(e) THEN @
                                 ELSE TetrysFollowing(e.window, @, e.source_id)]
  IN [sent EXCEPT !.timer = @ \/ (e.timeout /\ ~TetrysEncHasCoded(sent))]

(* The symbols the decoder has seen; beyond the last number it knows none. *)
TetrysSeen(e, missing) == {id \in e.window : id < Max(missing) /\ id \notin missing}

(* nck_tetrys_enc_put_feedback.  The walk over the window asserts that it  *)
(* never passes a missing number: feedback names nothing that has left.    *)
TetrysEncPutFeedback(e, missing) ==
  LET seen == TetrysSeen(e, missing)
  IN [e EXCEPT !.window = @ \ seen,
               !.next = IF @ \in seen THEN e.source_id ELSE @,
               !.timer = e.timeout /\ e.window # seen,
               !.failed = @ \/ \E m \in missing \ e.window, id \in e.window : id > m]

-----------------------------------------------------------------------------
(* The decoder keeps rows in reduced echelon form, none has the pivot of   *)
(* another.  next: does its pointer stand on a row?  It is then the row    *)
(* with the pivot next_id.                                                 *)
TetrysDecStart(o) ==
  [protocol |-> "tetrys", rows |-> {}, next |-> FALSE, next_id |-> 0, oldest_id |-> 0,
   max_window_size |-> o.window, has_feedback |-> FALSE, read |-> <<>>,
   eager |-> o.eager, failed |-> FALSE]

TetrysPivots(d) == {Pivot(row) : row \in d.rows}

TetrysRow(d, id) == CHOOSE row \in d.rows : Pivot(row) = id

TetrysDecHasSource(d) == d.next /\ {d.next_id} \in d.rows

(* insert and eliminate_from_symbols, for a reduced row with a new pivot.  *)
TetrysInsertNew(d, row) ==
  [d EXCEPT !.rows = {IF Pivot(row) \in r THEN Plus(r, row) ELSE r : r \in @} \cup {row},
            !.next = @ \/ Pivot(row) = d.next_id]

(* eliminate_with_symbols                                                  *)
TetrysReduced(d, vec) ==
  FoldSet(LAMBDA r, v : IF Pivot(r) \in vec THEN Plus(v, r) ELSE v, vec, d.rows)

(* add_coded                                                               *)
TetrysAddCoded(d, vec) ==
  LET row == TetrysReduced(d, vec)
  IN IF row = {} THEN d ELSE TetrysInsertNew(d, row)

(* insert, for a source symbol: it replaces the row with its pivot, which  *)
(* is then added again.                                                    *)
TetrysInsertSource(d, id) ==
  LET row == TetrysRow(d, id)
  IN IF id \notin TetrysPivots(d) THEN TetrysInsertNew(d, {id})
     ELSE IF row = {id} THEN d
     ELSE TetrysAddCoded([d EXCEPT !.rows = (@ \ {row}) \cup {{id}},
                                   !.next = @ \/ id = d.next_id], row)

(* evict_outdated_symbols: one row before the oldest symbol of the encoder *)
(* is kept if it was not handed out and is, or can still be, decoded.      *)
TetrysEvictRow(d, id) ==
  LET row    == TetrysRow(d, id)
      wanted == d.next_id <= id
      at     == IF wanted /\ ~d.next THEN [d EXCEPT !.next = TRUE, !.next_id = id] ELSE d
      useful == row = {id} \/ Pivot(row \ {id}) >= d.oldest_id
      isNext == at.next /\ at.next_id = id
  IN IF wanted /\ useful THEN at
     ELSE [at EXCEPT !.rows = @ \ {row},
                     !.next = @ /\ ~isNext,
                     !.next_id = IF isNext THEN @ + 1 ELSE @]

(* ... and the rows after it tell where to go on.                          *)
TetrysEvict(d) ==
  LET old  == InOrder({id \in TetrysPivots(d) : id < d.oldest_id})
      left == FoldLeft(TetrysEvictRow, d, old)
      rest == {id \in TetrysPivots(left) : id >= d.oldest_id}
      id   == IF left.next THEN left.next_id ELSE d.oldest_id
  IN IF rest = {} \/ left.next_id >= d.oldest_id THEN left
     ELSE [left EXCEPT !.next_id = id, !.next = @ \/ id = Min(rest)]

(* nck_tetrys_dec_get_source                                               *)
TetrysDecGetSource(d) ==
  LET took  == [d EXCEPT !.read = Append(@, <<1, d.next_id>>), !.next_id = @ + 1,
                         !.next = FALSE]
      later == {id \in TetrysPivots(d) : id > d.next_id}
  IN IF took.next_id < took.oldest_id THEN TetrysEvict(took)
     ELSE [took EXCEPT !.next = later # {} /\ Min(later) = took.next_id]

TetrysSourceReady(d) ==
  LET take(x, n) == IF TetrysDecHasSource(x) THEN TetrysDecGetSource(x) ELSE x
  IN IF d.eager THEN FoldLeft(take, d, [n \in 1 .. 2 * d.max_window_size |-> n]) ELSE d

(* nck_tetrys_dec_put_coded                                                *)
TetrysDecPutCoded(d, pkt) ==
  LET read == IF pkt.repair
              THEN TetrysAddCoded(TetrysEvict([d EXCEPT !.oldest_id = pkt.oldest]), pkt.vec)
              ELSE TetrysInsertSource(d, pkt.oldest)
  IN TetrysSourceReady([read EXCEPT !.has_feedback = TRUE])

(* nck_tetrys_dec_get_feedback: the numbers not seen, up to one after the  *)
(* last.  Without any row the number sent is not initialised.              *)
TetrysMissing(d) ==
  LET last == Max(TetrysPivots(d) \cup {d.next_id - 1})
  IN (d.next_id .. last + 1) \ TetrysPivots(d)

TetrysFeedbacks(d, ids) == IF d.rows = {} THEN {{id} : id \in ids} ELSE {TetrysMissing(d)}

TetrysDecGetFeedback(d) ==
  [d EXCEPT !.has_feedback = FALSE,
            !.failed = @ \/ (d.rows # {} /\ Cardinality(TetrysMissing(d)) > d.max_window_size + 1)]

=============================================================================
