------------------------------- MODULE Nocode -------------------------------
(***************************************************************************)
(* NOCODE, src/nocode: a buffer for one packet at each place, no numbers,  *)
(* no feedback.  Symbol n is the n-th that was put in; a buffer holds the  *)
(* number of its symbol, or is empty (0).                                  *)
(***************************************************************************)
EXTENDS Generation

NocodeEncStart(o) == [protocol |-> "nocode", count |-> 0, len |-> 0]

NocodeEncHasCoded(e) == e.len > 0

NocodeEncPutSource(e) == [e EXCEPT !.count = @ + 1, !.len = e.count + 1]

NocodeEncPackets(e) == {[generation |-> 1, rank |-> 0, vec |-> {e.len}]}

NocodeEncGetCoded(e) == [e EXCEPT !.len = 0]

-----------------------------------------------------------------------------
NocodeDecStart(o) == [protocol |-> "nocode", len |-> 0, read |-> <<>>, eager |-> o.eager]

NocodeDecHasSource(d) == d.len > 0

NocodeDecGetSource(d) == [d EXCEPT !.read = Append(@, <<1, d.len>>), !.len = 0]

(* nck_nocode_dec_put_coded                                                *)
NocodeDecPutCoded(d, pkt) ==
  LET got == [d EXCEPT !.len = Pivot(pkt.vec)]
  IN IF d.eager THEN NocodeDecGetSource(got) ELSE got

-----------------------------------------------------------------------------
NocodeRecStart(o) ==
  [protocol |-> "nocode", len |-> 0, has_source |-> FALSE, has_coded |-> FALSE,
   read |-> <<>>, eager |-> o.eager]

NocodeRecGetSource(r) ==
  [r EXCEPT !.read = Append(@, <<1, r.len>>), !.has_source = FALSE]

(* nck_nocode_rec_put_coded                                                *)
NocodeRecPutCoded(r, pkt) ==
  LET got == [r EXCEPT !.len = Pivot(pkt.vec), !.has_source = TRUE, !.has_coded = TRUE]
  IN IF r.eager THEN NocodeRecGetSource(got) ELSE got

NocodeRecPackets(r) == {[generation |-> 1, rank |-> 0, vec |-> {r.len}]}

NocodeRecGetCoded(r) == [r EXCEPT !.has_coded = FALSE]

=============================================================================
