----------------------------- MODULE RlncLemmas -----------------------------
(***************************************************************************)
(* Facts about the spans and ranks of Rlnc that the proofs of the          *)
(* protocols share.                                                        *)
(***************************************************************************)
EXTENDS Rlnc, DataLemmas

(* The empty span and every span a decoder reads are sets of vectors.      *)
LEMMA SpanType ==
  /\ EmptySpan \subseteq Vectors
  /\ \A span \in SUBSET Vectors, v \in Vectors : ReadPayload(span, v) \subseteq Vectors
  BY DEF EmptySpan, Vectors, ReadPayload, Plus

(* A rank is at most the number of symbols: there are no more pivots.      *)
LEMMA RankType ==
  ASSUME NEW span \in SUBSET Vectors
  PROVE  Rank(span) \in 0 .. Symbols
<1>1. Pivots(span) \subseteq Indices
  <2>1. SUFFICES ASSUME NEW v \in span \ {{}} PROVE Pivot(v) \in Indices
    BY DEF Pivots
  <2>2. v \in SUBSET Nat /\ v \subseteq Indices /\ v # {}
    BY SymbolsAssumption DEF Vectors, Indices
  <2>3. Pivot(v) = Min(v)
    BY DEF Pivot, Min
  <2>4. QED
    BY <2>2, <2>3, MinProperty
<1>2. IsFiniteSet(Indices) /\ Cardinality(Indices) = Symbols
  <2>1. IsFiniteSet(1 .. Symbols)
        /\ Cardinality(1 .. Symbols) = IF 1 > Symbols THEN 0 ELSE Symbols - 1 + 1
    BY SymbolsAssumption, FS_Interval
  <2>2. QED
    BY <2>1, SymbolsAssumption DEF Indices
<1>3. /\ IsFiniteSet(Pivots(span)) /\ Cardinality(Pivots(span)) \in Nat
      /\ Cardinality(Pivots(span)) <= Cardinality(Indices)
  BY <1>1, <1>2, FS_Subset, FS_CardinalityType
<1>4. QED
  BY <1>2, <1>3, SymbolsAssumption DEF Rank

(* What a decoder can produce it never unlearns.                           *)
LEMMA RankMonotone ==
  ASSUME NEW span \in SUBSET Vectors, NEW v \in Vectors
  PROVE  Rank(span) <= Rank(ReadPayload(span, v))
<1>1. Pivots(span) \subseteq Pivots(ReadPayload(span, v))
  BY DEF Pivots, ReadPayload
<1>2. Pivots(ReadPayload(span, v)) \subseteq Indices
  <2>1. SUFFICES ASSUME NEW w \in ReadPayload(span, v) \ {{}} PROVE Pivot(w) \in Indices
    BY DEF Pivots
  <2>2. w \in Vectors
    BY SpanType
  <2>3. w \in SUBSET Nat /\ w \subseteq Indices /\ w # {}
    BY <2>2, SymbolsAssumption DEF Vectors, Indices
  <2>4. Pivot(w) = Min(w)
    BY DEF Pivot, Min
  <2>5. QED
    BY <2>3, <2>4, MinProperty
<1>3. IsFiniteSet(Indices)
  BY SymbolsAssumption, FS_Interval DEF Indices
<1>4. IsFiniteSet(Pivots(ReadPayload(span, v)))
  BY <1>2, <1>3, FS_Subset
<1>5. QED
  BY <1>1, <1>4, FS_Subset DEF Rank

-----------------------------------------------------------------------------
(* Spans that are closed under addition, as those of kodo are.             *)
Linear(span) == {} \in span /\ \A u, v \in span : Plus(u, v) \in span

(* Reading a packet keeps a span closed under addition.                    *)
LEMMA ReadPayloadLinear ==
  ASSUME NEW span, NEW v, Linear(span)
  PROVE  Linear(ReadPayload(span, v))
<1>1. {} \in ReadPayload(span, v)
  BY DEF Linear, ReadPayload
<1>2. ASSUME NEW a \in ReadPayload(span, v), NEW b \in ReadPayload(span, v)
      PROVE  Plus(a, b) \in ReadPayload(span, v)
  <2>1. PICK u \in span : a = u \/ a = Plus(u, v)
    BY DEF ReadPayload
  <2>2. PICK w \in span : b = w \/ b = Plus(w, v)
    BY DEF ReadPayload
  <2>3. Plus(u, w) \in span
    BY DEF Linear
  <2>4. Plus(a, b) = Plus(u, w) \/ Plus(a, b) = Plus(Plus(u, w), v)
    BY <2>1, <2>2 DEF Plus
  <2>5. QED
    BY <2>3, <2>4 DEF ReadPayload
<1>3. QED
  BY <1>1, <1>2 DEF Linear

(* The pivot of a vector is its least element.                             *)
LEMMA PivotLeast ==
  ASSUME NEW v \in Vectors, v # {}
  PROVE  Pivot(v) \in v /\ \A j \in v : Pivot(v) <= j
<1>1. v \in SUBSET Nat
  BY SymbolsAssumption DEF Vectors, Indices
<1>2. Pivot(v) = Min(v)
  BY DEF Pivot, Min
<1>3. QED
  BY <1>1, <1>2, MinProperty

(* A decoder that has as many rows as there are symbols has them all       *)
(* decoded.                                                                *)
LEMMA FullRank ==
  \A r \in 0 .. Symbols : \A span \in SUBSET (SUBSET (1 .. r)) :
    Linear(span) /\ Rank(span) >= r => \A i \in 1 .. r : {i} \in span
<1> SUFFICES ASSUME NEW r \in 0 .. Symbols, NEW span \in SUBSET (SUBSET (1 .. r)),
                    Linear(span), Rank(span) >= r
             PROVE  \A i \in 1 .. r : {i} \in span
  OBVIOUS
<1>1. r \in Nat /\ Symbols \in Nat /\ 1 .. r \subseteq Indices /\ 1 .. r \subseteq Nat
      /\ span \subseteq Vectors
  BY SymbolsAssumption DEF Indices, Vectors
<1>2. IsFiniteSet(1 .. r) /\ Cardinality(1 .. r) = r
  <2>1. IsFiniteSet(1 .. r) /\ Cardinality(1 .. r) = IF 1 > r THEN 0 ELSE r - 1 + 1
    BY <1>1, FS_Interval
  <2>2. QED
    BY <1>1, <2>1
<1>3. Pivots(span) \subseteq 1 .. r
  <2>1. ASSUME NEW v \in span \ {{}} PROVE Pivot(v) \in 1 .. r
    BY <1>1, PivotLeast
  <2>2. QED
    BY <2>1 DEF Pivots
<1>4. Pivots(span) = 1 .. r
  <2>1. /\ Cardinality(Pivots(span)) <= Cardinality(1 .. r)
        /\ Cardinality(1 .. r) = Cardinality(Pivots(span)) => 1 .. r = Pivots(span)
        /\ IsFiniteSet(Pivots(span))
    BY <1>2, <1>3, FS_Subset
  <2>2. Cardinality(Pivots(span)) \in Nat
    BY <2>1, FS_CardinalityType
  <2>3. QED
    BY <1>1, <1>2, <2>1, <2>2 DEF Rank
<1> DEFINE missing == {i \in 1 .. r : {i} \notin span}
<1>5. SUFFICES ASSUME missing # {} PROVE FALSE
  OBVIOUS
<1>6. PICK i \in missing : \A j \in missing : j <= i
  <2> DEFINE back == {r - j : j \in missing}
  <2>1. back \in SUBSET Nat /\ back # {}
    <3>1. ASSUME NEW j \in missing PROVE r - j \in Nat
      BY <1>1
    <3>2. QED
      BY <1>5, <3>1
  <2>2. Min(back) \in back /\ \A x \in back : Min(back) <= x
    <3> HIDE DEF back
    <3> QED
      BY <2>1, MinProperty
  <2>3. PICK i \in missing : Min(back) = r - i
    BY <2>2
  <2>4. ASSUME NEW j \in missing PROVE j <= i
    <3>1. r - j \in back
      OBVIOUS
    <3>2. r - i <= r - j
      BY <2>2, <2>3, <3>1
    <3>3. QED
      BY <1>1, <3>2
  <2>5. QED
    BY <2>4
<1> DEFINE leading == {v \in span : v # {} /\ Pivot(v) = i}
           sizes == {Cardinality(v) : v \in leading}
<1>7. leading # {}
  BY <1>4 DEF Pivots
<1>8. ASSUME NEW v \in leading
      PROVE  /\ v \subseteq 1 .. r /\ IsFiniteSet(v) /\ Cardinality(v) \in Nat
             /\ i \in v /\ \A j \in v : i <= j
  <2>1. v \subseteq 1 .. r /\ v \in Vectors /\ v # {}
    BY <1>1
  <2>2. IsFiniteSet(v)
    BY <1>2, <2>1, FS_Subset
  <2>3. QED
    BY <2>1, <2>2, FS_CardinalityType, PivotLeast
<1>9. PICK v \in leading : \A w \in leading : Cardinality(v) <= Cardinality(w)
  <2>1. sizes \in SUBSET Nat /\ sizes # {}
    BY <1>7, <1>8
  <2>2. Min(sizes) \in sizes /\ \A x \in sizes : Min(sizes) <= x
    <3> HIDE DEF sizes
    <3> QED
      BY <2>1, MinProperty
  <2>3. QED
    BY <2>2
<1>10. PICK j \in v : j # i
  <2>1. v # {i}
    OBVIOUS
  <2>2. QED
    BY <1>8, <2>1
<1>11. {j} \in span
  <2>1. j \in 1 .. r /\ i \in 1 .. r /\ i <= j
    BY <1>8
  <2>2. j \notin missing
    BY <1>1, <1>6, <1>10, <2>1
  <2>3. QED
    BY <2>1, <2>2
<1> DEFINE w == v \ {j}
<1>12. w \in span
  <2>1. Plus(v, {j}) = w
    BY DEF Plus
  <2>2. Plus(v, {j}) \in span
    BY <1>11 DEF Linear
  <2>3. QED
    BY <2>1, <2>2
<1>13. w \in leading
  <2>1. i \in w /\ w # {} /\ w \in Vectors
    BY <1>1, <1>8, <1>10, <1>12
  <2>2. Pivot(w) \in w /\ \A k \in w : Pivot(w) <= k
    BY <2>1, PivotLeast
  <2>3. Pivot(w) \in Nat /\ i \in Nat /\ Pivot(w) <= i /\ i <= Pivot(w)
    BY <1>1, <1>8, <2>1, <2>2
  <2>4. Pivot(w) = i
    BY <2>3
  <2>5. QED
    BY <1>12, <2>1, <2>4
<1>14. Cardinality(w) = Cardinality(v) - 1
  BY <1>8, FS_RemoveElement
<1>15. Cardinality(v) <= Cardinality(w)
  BY <1>9, <1>13
<1>16. Cardinality(v) \in Nat
  BY <1>8
<1>17. QED
  BY <1>14, <1>15, <1>16

=============================================================================
