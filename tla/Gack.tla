-------------------------------- MODULE Gack --------------------------------
(***************************************************************************)
(* What the GACK encoder, recoder and decoder share: the packets on the    *)
(* wire.  A generation is sent without a rate or an end, until a feedback  *)
(* with its number and its rank comes back.                                *)
(***************************************************************************)
EXTENDS Rlnc, FiniteSetsExt

Generations == Nat \ {0}

(* A coded packet: generation, rank of its sender, coding vector.          *)
GackPackets ==
  [generation : Generations, rank : 1 .. Symbols, vec : Vectors]

GackFeedbacks == [generation : Generations, rank : 0 .. Symbols]

(* kodo_skip_undecoded: the first decoded symbol from index on, counted    *)
(* from zero, or the end of the generation.                                *)
SkipUndecoded(span, index) ==
  LET ready == {i \in index .. Symbols - 1 : IsSymbolUncoded(span, i + 1)}
  IN  IF ready = {} THEN Max({index, Symbols}) ELSE Min(ready)

=============================================================================
