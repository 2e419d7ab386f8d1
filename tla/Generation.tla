----------------------------- MODULE Generation -----------------------------
(***************************************************************************)
(* What the coders have in common that work on a generation of Symbols     *)
(* source symbols: src/kodo.c around a kodo coder, and the application     *)
(* that may take symbols inside the on_source_ready callback.              *)
(*                                                                         *)
(* A coder is a record with the fields of its struct; an operation is an   *)
(* operator from the record before a call to the record after it.  Source  *)
(* symbols are known by their slot, generation and position.  The field    *)
(* read (of a decoder or recoder) is what its application has taken.       *)
(***************************************************************************)
EXTENDS Gack, SequencesExt

Before(s, t) == s[1] < t[1] \/ (s[1] = t[1] /\ s[2] < t[2])

SlotsOf(generation, positions) == {<<generation, i>> : i \in positions}

-----------------------------------------------------------------------------
(* A report that waits to be taken: generation 0 stands for none.          *)
Report(d, generation, rank) ==
  [d EXCEPT !.feedback_generation = generation, !.feedback_rank = rank]

HasReport(d) == d.feedback_generation # 0

ReportOf(d) == [generation |-> d.feedback_generation, rank |-> d.feedback_rank]

Reported(d) == [d EXCEPT !.feedback_generation = 0]

-----------------------------------------------------------------------------
(* The symbols from index on (counted from zero) that are decoded.         *)
Ready(span, index) == {i \in index + 1 .. Symbols : IsSymbolUncoded(span, i)}

(* The members of a set of numbers, the smallest first: the n-th has n     *)
(* members up to it.                                                       *)
InOrder(S) ==
  [n \in 1 .. Cardinality(S) |-> CHOOSE i \in S : Cardinality({j \in S : j <= i}) = n]

(* kodo_flush_source                                                       *)
FlushQueue(d) ==
  LET ready == InOrder(Ready(d.span, d.index))
  IN [n \in DOMAIN ready |-> <<d.generation, ready[n]>>]

(* kodo_get_source: hand out the symbol at the index.                      *)
TakeAtIndex(d) ==
  [d EXCEPT !.read = Append(@, <<d.generation, d.index + 1>>),
            !.index = IF d.flush THEN SkipUndecoded(d.span, d.index + 1)
                                 ELSE d.index + 1]

(* Decoders with a queue: get_source empties it before the generation.     *)
QueueHasSource(d) ==
  \/ d.queue # <<>>
  \/ d.index < Symbols /\ IsSymbolUncoded(d.span, d.index + 1)

QueueGetSource(d) ==
  IF d.queue # <<>> THEN [d EXCEPT !.read = Append(@, Head(d.queue)), !.queue = Tail(@)]
  ELSE TakeAtIndex(d)

(* What the application can still get, whatever happens next.              *)
QueuePending(d) ==
  {d.queue[n] : n \in DOMAIN d.queue} \cup SlotsOf(d.generation, Ready(d.span, d.index))

(* on_source_ready: an eager application takes all there is.               *)
QueueSourceReady(d) ==
  LET take(x, n) == IF QueueHasSource(x) THEN QueueGetSource(x) ELSE x
  IN IF d.eager THEN FoldLeft(take, d, [n \in 1 .. 2 * Symbols |-> n]) ELSE d

(* kodo's encoder starts with the symbols as they are, or does not.        *)
SystematicStart(systematic) == IF systematic THEN 0 ELSE Symbols

=============================================================================
