-------------------------------- MODULE Rlnc --------------------------------
(***************************************************************************)
(* The random linear network code the protocols are built on.  The code    *)
(* itself is the external kodo-rlnc-c library; src/kodo.c only forwards to *)
(* it.  A coding vector over GF(2) is the set of the symbols it combines.  *)
(* A decoder is the set of all vectors it can produce (its span), so that  *)
(* "symbol i is uncoded" is exactly "the unit vector of i is in the span". *)
(***************************************************************************)
EXTENDS Integers, FiniteSets

CONSTANT Symbols        \* symbols per generation

ASSUME SymbolsAssumption == Symbols \in Nat \ {0}

Indices == 1 .. Symbols

Vectors == SUBSET Indices

-----------------------------------------------------------------------------
(* A vector plus a vector, and the span after one more vector is read.     *)

Plus(u, v) == (u \ v) \cup (v \ u)

EmptySpan == {{}}

ReadPayload(span, v) == span \cup {Plus(u, v) : u \in span}

(* In echelon form every row has a pivot of its own, so the rank is the    *)
(* number of different leading positions of the non-zero vectors.          *)

Pivot(v) == CHOOSE i \in v : \A j \in v : i <= j

Pivots(span) == {Pivot(v) : v \in span \ {{}}}

Rank(span) == Cardinality(Pivots(span))

IsSymbolUncoded(span, i) == {i} \in span

-----------------------------------------------------------------------------
(* What write_payload may emit for an encoder that holds the symbols       *)
(* 1..rank and has sent the first `sent' of them: the systematic phase     *)
(* goes through the symbols in order, afterwards the coefficients are      *)
(* drawn at random, the zero vector included.                              *)

Payloads(rank, sent) ==
  IF sent < rank THEN {{sent + 1}} ELSE SUBSET (1 .. rank)

SystematicSent(rank, sent) == IF sent < rank THEN sent + 1 ELSE sent

=============================================================================
