----------------------------- MODULE DataLemmas -----------------------------
(***************************************************************************)
(* Facts about sets of numbers and about sequences that lose or get an     *)
(* element; they do not depend on the protocols.                           *)
(***************************************************************************)
EXTENDS Integers, FiniteSets, SequencesExt, FiniteSetsExt,
        FiniteSetTheorems, SequenceTheorems, TLAPS

(* A non-empty set of numbers has     a least element, and Min is it.      *)
LEMMA MinProperty ==
  ASSUME NEW S \in SUBSET Nat, S # {}
  PROVE  /\ Min(S) \in S
         /\ \A x \in S : Min(S) <= x
<1> DEFINE T == {0 .. x : x \in S}
<1>1. T \subseteq FiniteSubsetsOf(Nat)
  <2>1. SUFFICES ASSUME NEW x \in S PROVE 0 .. x \in FiniteSubsetsOf(Nat)
    OBVIOUS
  <2>2. x \in Nat /\ 0 .. x \subseteq Nat
    OBVIOUS
  <2>3. IsFiniteSet(0 .. x)
    BY <2>2, FS_Interval
  <2>4. QED
    BY <2>2, <2>3 DEF FiniteSubsetsOf
<1>2. T # {}
  OBVIOUS
<1>3. IsWellFoundedOn(StrictSubsetOrdering(Nat), FiniteSubsetsOf(Nat))
  BY FS_StrictSubsetOrderingWellFounded
<1>4. PICK t \in T : \A u \in T : ~ (<<u, t>> \in StrictSubsetOrdering(Nat))
  <2> HIDE DEF T
  <2> QED
    BY <1>1, <1>2, <1>3, WFMin
<1>5. PICK m \in S : t = 0 .. m
  BY <1>4
<1>6. ASSUME NEW y \in S PROVE m <= y
  <2>1. ~ (<<0 .. y, 0 .. m>> \in StrictSubsetOrdering(Nat))
    BY <1>4, <1>5
  <2>2. m \in Nat /\ y \in Nat
    OBVIOUS
  <2>3. 0 .. m \subseteq Nat /\ 0 .. y \subseteq Nat
    BY <2>2
  <2>4. ~ (0 .. y \subseteq 0 .. m) \/ 0 .. y = 0 .. m
    BY <2>1, <2>3 DEF StrictSubsetOrdering
  <2>5. QED
    BY <2>2, <2>4
<1>7. QED
  BY <1>6 DEF Min

(* If the greatest element is known, Max is it.                            *)
LEMMA MaxProperty ==
  ASSUME NEW S \in SUBSET Nat, NEW m \in S, \A x \in S : x <= m
  PROVE  Max(S) = m
<1>1. \A x \in S : x \in Nat /\ m \in Nat /\ m >= x
  OBVIOUS
<1>2. \A x \in S : (\A y \in S : x >= y) => x = m
  BY <1>1
<1>3. QED
  BY <1>1, <1>2 DEF Max

-----------------------------------------------------------------------------
(* A sequence without its i-th element.                                    *)
LEMMA RemoveAtElements ==
  ASSUME NEW S, NEW s \in Seq(S), NEW i \in DOMAIN s
  PROVE  /\ RemoveAt(s, i) \in Seq(S)
         /\ Len(RemoveAt(s, i)) = Len(s) - 1
         /\ \A j \in 1 .. Len(s) - 1 :
              RemoveAt(s, i)[j] = IF j < i THEN s[j] ELSE s[j + 1]
<1> DEFINE a == SubSeq(s, 1, i - 1)
           b == SubSeq(s, i + 1, Len(s))
<1>1. i \in 1 .. Len(s) /\ Len(s) \in Nat /\ RemoveAt(s, i) = a \o b
  BY DEF RemoveAt
<1>2. /\ a \in Seq(S) /\ Len(a) = i - 1
      /\ \A j \in 1 .. i - 1 : a[j] = s[j]
  BY <1>1
<1>3. /\ b \in Seq(S) /\ Len(b) = Len(s) - i
      /\ \A j \in 1 .. Len(s) - i : b[j] = s[j + i]
  BY <1>1, SMTT(30)
<1> HIDE DEF a, b
<1>4. /\ a \o b \in Seq(S)
      /\ Len(a \o b) = Len(a) + Len(b)
      /\ \A j \in 1 .. Len(a) + Len(b) :
           (a \o b)[j] = IF j <= Len(a) THEN a[j] ELSE b[j - Len(a)]
  BY <1>2, <1>3, ConcatProperties
<1>5. ASSUME NEW j \in 1 .. Len(s) - 1
      PROVE  (a \o b)[j] = IF j < i THEN s[j] ELSE s[j + 1]
  <2>1. j \in 1 .. Len(a) + Len(b)
    BY <1>1, <1>2, <1>3
  <2>2. CASE j < i
    <3>1. j \in 1 .. i - 1 /\ j <= Len(a)
      BY <1>1, <1>2, <2>2
    <3>2. QED
      BY <1>2, <1>4, <2>1, <2>2, <3>1
  <2>3. CASE ~ (j < i)
    <3>1. j - Len(a) \in 1 .. Len(s) - i /\ j - Len(a) + i = j + 1 /\ ~ (j <= Len(a))
      BY <1>1, <1>2, <2>3
    <3>2. (a \o b)[j] = b[j - Len(a)]
      BY <1>4, <2>1, <3>1
    <3>3. b[j - Len(a)] = s[j - Len(a) + i]
      BY <1>3, <3>1
    <3>4. QED
      BY <2>3, <3>1, <3>2, <3>3
  <2>4. QED
    BY <2>2, <2>3
<1>6. Len(a \o b) = Len(s) - 1
  BY <1>1, <1>2, <1>3, <1>4
<1>7. QED
  BY <1>1, <1>4, <1>5, <1>6, Zenon

(* It holds nothing new.                                                   *)
LEMMA RemoveAtType ==
  ASSUME NEW S, NEW s \in Seq(S), NEW i \in DOMAIN s
  PROVE  /\ RemoveAt(s, i) \in Seq(S)
         /\ \A j \in DOMAIN RemoveAt(s, i) : \E k \in DOMAIN s : RemoveAt(s, i)[j] = s[k]
<1> DEFINE r == RemoveAt(s, i)
<1>1. /\ r \in Seq(S) /\ Len(r) = Len(s) - 1
      /\ \A j \in 1 .. Len(s) - 1 : r[j] = IF j < i THEN s[j] ELSE s[j + 1]
  BY RemoveAtElements
<1> HIDE DEF r
<1>2. Len(s) \in Nat /\ DOMAIN s = 1 .. Len(s) /\ DOMAIN r = 1 .. Len(s) - 1
  BY <1>1
<1>3. ASSUME NEW j \in 1 .. Len(s) - 1 PROVE \E k \in DOMAIN s : r[j] = s[k]
  <2>1. j \in DOMAIN s /\ j + 1 \in DOMAIN s
    BY <1>2
  <2>2. QED
    BY <1>1, <2>1
<1>4. QED
  BY <1>1, <1>2, <1>3 DEF r

(* A sequence with an element put in at place i.                           *)
LEMMA InsertAtElements ==
  ASSUME NEW S, NEW s \in Seq(S), NEW i \in 1 .. Len(s) + 1, NEW e \in S
  PROVE  /\ InsertAt(s, i, e) \in Seq(S)
         /\ Len(InsertAt(s, i, e)) = Len(s) + 1
         /\ \A j \in 1 .. Len(s) + 1 :
              InsertAt(s, i, e)[j] = IF j < i THEN s[j] ELSE IF j = i THEN e ELSE s[j - 1]
<1> DEFINE a == SubSeq(s, 1, i - 1)
           m == a \o <<e>>
           b == SubSeq(s, i, Len(s))
<1>1. Len(s) \in Nat /\ i \in Nat /\ InsertAt(s, i, e) = m \o b
  BY DEF InsertAt
<1>2. /\ a \in Seq(S) /\ Len(a) = i - 1
      /\ \A j \in 1 .. i - 1 : a[j] = s[j]
  BY <1>1
<1>3. /\ b \in Seq(S) /\ Len(b) = Len(s) - i + 1
      /\ \A j \in 1 .. Len(s) - i + 1 : b[j] = s[j + i - 1]
  BY <1>1
<1> HIDE DEF a, b
<1>4. /\ m \in Seq(S) /\ Len(m) = i /\ m[i] = e
      /\ \A j \in 1 .. i - 1 : m[j] = s[j]
  <2>1. <<e>> \in Seq(S) /\ Len(<<e>>) = 1 /\ <<e>>[1] = e
    OBVIOUS
  <2>2. /\ m \in Seq(S) /\ Len(m) = Len(a) + Len(<<e>>)
        /\ \A j \in 1 .. Len(a) + Len(<<e>>) :
             m[j] = IF j <= Len(a) THEN a[j] ELSE <<e>>[j - Len(a)]
    BY <1>2, <2>1, ConcatProperties
  <2>3. Len(m) = i /\ i - Len(a) = 1 /\ i \in 1 .. Len(a) + Len(<<e>>) /\ ~ (i <= Len(a))
    BY <1>1, <1>2, <2>1, <2>2
  <2>4. m[i] = e
    BY <2>1, <2>2, <2>3
  <2>5. ASSUME NEW j \in 1 .. i - 1 PROVE m[j] = s[j]
    <3>1. j \in 1 .. Len(a) + Len(<<e>>) /\ j <= Len(a)
      BY <1>1, <1>2, <2>1
    <3>2. QED
      BY <1>2, <2>2, <3>1
  <2>6. QED
    BY <2>2, <2>3, <2>4, <2>5
<1> HIDE DEF m
<1>5. /\ m \o b \in Seq(S) /\ Len(m \o b) = Len(m) + Len(b)
      /\ \A j \in 1 .. Len(m) + Len(b) :
           (m \o b)[j] = IF j <= Len(m) THEN m[j] ELSE b[j - Len(m)]
  BY <1>3, <1>4, ConcatProperties
<1>6. ASSUME NEW j \in 1 .. Len(s) + 1
      PROVE  (m \o b)[j] = IF j < i THEN s[j] ELSE IF j = i THEN e ELSE s[j - 1]
  <2>1. j \in 1 .. Len(m) + Len(b)
    BY <1>1, <1>3, <1>4
  <2>2. CASE j < i
    <3>1. j \in 1 .. i - 1 /\ j <= Len(m)
      BY <1>1, <1>4, <2>2
    <3>2. QED
      BY <1>4, <1>5, <2>1, <2>2, <3>1
  <2>3. CASE j = i
    BY <1>4, <1>5, <2>1, <2>3
  <2>4. CASE j > i
    <3>1. /\ j - Len(m) \in 1 .. Len(s) - i + 1 /\ ~ (j <= Len(m))
          /\ j - Len(m) + i - 1 = j - 1
      BY <1>1, <1>4, <2>4
    <3>2. (m \o b)[j] = b[j - Len(m)]
      BY <1>5, <2>1, <3>1
    <3>3. b[j - Len(m)] = s[j - Len(m) + i - 1]
      BY <1>3, <3>1
    <3>4. QED
      BY <1>1, <2>4, <3>1, <3>2, <3>3
  <2>5. j < i \/ j = i \/ j > i
    BY <1>1
  <2>6. QED
    BY <2>2, <2>3, <2>4, <2>5, Zenon
<1>7. Len(m \o b) = Len(s) + 1
  BY <1>1, <1>3, <1>4, <1>5
<1>8. QED
  BY <1>1, <1>5, <1>6, <1>7, Zenon

(* A channel that got shorter, or kept its packet, brings nothing new.      *)
LEMMA TakenFrom ==
  ASSUME NEW S, NEW s \in Seq(S), NEW t, NEW i \in DOMAIN s,
         t = RemoveAt(s, i) \/ t = s
  PROVE  t \in Seq(S) /\ \A j \in DOMAIN t : \E k \in DOMAIN s : t[j] = s[k]
<1>1. CASE t = RemoveAt(s, i)
  BY <1>1, RemoveAtType
<1>2. CASE t = s
  BY <1>2
<1>3. QED
  BY <1>1, <1>2

LEMMA AddedTo ==
  ASSUME NEW S, NEW s \in Seq(S), NEW x \in S
  PROVE  /\ Append(s, x) \in Seq(S)
         /\ \A j \in DOMAIN Append(s, x) :
              Append(s, x)[j] = x \/ \E k \in DOMAIN s : Append(s, x)[j] = s[k]
<1>1. /\ Append(s, x) \in Seq(S) /\ DOMAIN Append(s, x) = 1 .. Len(s) + 1
      /\ DOMAIN s = 1 .. Len(s) /\ Len(s) \in Nat
  OBVIOUS
<1>2. ASSUME NEW j \in 1 .. Len(s) + 1
      PROVE  Append(s, x)[j] = x \/ \E k \in DOMAIN s : Append(s, x)[j] = s[k]
  <2>1. CASE j = Len(s) + 1
    BY <2>1
  <2>2. CASE j \in 1 .. Len(s)
    <3>1. Append(s, x)[j] = s[j]
      BY <2>2
    <3>2. QED
      BY <1>1, <2>2, <3>1
  <2>3. QED
    BY <1>1, <2>1, <2>2
<1>3. QED
  BY <1>1, <1>2

-----------------------------------------------------------------------------
(* Folds: a set that holds 0 and, with every number below K, the next one  *)
(* holds K.                                                                *)
LEMMA LeastIndex ==
  ASSUME NEW K \in Nat, NEW Z, 0 \in Z,
         \A n \in 0 .. K - 1 : n \in Z => n + 1 \in Z
  PROVE  K \in Z
<1> SUFFICES ASSUME K \notin Z PROVE FALSE
  OBVIOUS
<1> DEFINE Bad == {n \in Nat : n <= K /\ n \notin Z}
<1>1. Bad \in SUBSET Nat /\ K \in Bad
  OBVIOUS
<1>2. Min(Bad) \in Bad /\ \A x \in Bad : Min(Bad) <= x
  <2> HIDE DEF Bad
  <2> QED
    BY <1>1, MinProperty
<1>3. PICK m \in Bad : \A x \in Bad : m <= x
  BY <1>2
<1>4. m # 0 /\ m \in Nat /\ m <= K
  OBVIOUS
<1>5. m - 1 \in 0 .. K - 1 /\ m - 1 \notin Bad
  BY <1>3, <1>4
<1>6. m - 1 \in Z
  BY <1>5
<1>7. (m - 1) + 1 \in Z
  BY <1>5, <1>6
<1> QED
  BY <1>4, <1>7

(* A set of indices has a greatest one.                                    *)
LEMMA MaxOf ==
  ASSUME NEW K \in Nat, NEW s \in SUBSET (1 .. K), s # {}
  PROVE  Max(s) \in s /\ \A x \in s : x <= Max(s)
<1> DEFINE Z == {n \in 0 .. K : \A u \in SUBSET (1 .. n) :
                    u # {} => \E m \in u : \A x \in u : x <= m}
<1>1. 0 \in Z
  <2>1. \A u \in SUBSET (1 .. 0) : u = {}
    OBVIOUS
  <2>2. 0 \in 0 .. K
    OBVIOUS
  <2> QED
    BY <2>1, <2>2
<1>2. ASSUME NEW n \in 0 .. K - 1, n \in Z PROVE n + 1 \in Z
  <2> SUFFICES ASSUME NEW u \in SUBSET (1 .. n + 1), u # {}
               PROVE  \E m \in u : \A x \in u : x <= m
    OBVIOUS
  <2>1. CASE n + 1 \in u
    BY <2>1
  <2>2. CASE n + 1 \notin u
    <3>1. u \in SUBSET (1 .. n)
      BY <2>2
    <3> QED
      BY <3>1, <1>2
  <2> QED
    BY <2>1, <2>2
<1>3. K \in Z
  <2> HIDE DEF Z
  <2> QED
    BY <1>1, <1>2, LeastIndex
<1>4. PICK m \in s : \A x \in s : x <= m
  BY <1>3
<1>5. s \in SUBSET Nat
  OBVIOUS
<1>6. Max(s) = m
  BY <1>4, <1>5, MaxProperty
<1> QED
  BY <1>4, <1>6

(* A function of sets of indices that stays in T when the greatest index   *)
(* is added is in T everywhere.                                            *)
LEMMA FoldTyped ==
  ASSUME NEW K \in Nat, NEW T, NEW h, h[{}] \in T,
         \A s \in SUBSET (1 .. K) : s # {} /\ h[s \ {Max(s)}] \in T => h[s] \in T
  PROVE  \A s \in SUBSET (1 .. K) : h[s] \in T
<1> DEFINE Z == {n \in 0 .. K : \A s \in SUBSET (1 .. n) : h[s] \in T}
<1>1. 0 \in Z
  <2>1. \A s \in SUBSET (1 .. 0) : s = {}
    OBVIOUS
  <2>2. 0 \in 0 .. K
    OBVIOUS
  <2> QED
    BY <2>1, <2>2
<1>2. ASSUME NEW n \in 0 .. K - 1, n \in Z PROVE n + 1 \in Z
  <2>0. n + 1 \in 0 .. K
    OBVIOUS
  <2> SUFFICES ASSUME NEW s \in SUBSET (1 .. n + 1) PROVE h[s] \in T
    BY <2>0
  <2>1. s \in SUBSET (1 .. K)
    OBVIOUS
  <2>2. CASE s = {}
    BY <2>2
  <2>3. CASE s # {}
    <3>1. Max(s) \in s /\ \A x \in s : x <= Max(s)
      BY <2>1, <2>3, MaxOf
    <3>2. s \ {Max(s)} \in SUBSET (1 .. n)
      <4> SUFFICES ASSUME NEW x \in s, x # Max(s) PROVE x \in 1 .. n
        OBVIOUS
      <4>1. x \in 1 .. n + 1 /\ Max(s) \in 1 .. n + 1 /\ x <= Max(s)
        BY <3>1
      <4> QED
        BY <4>1
    <3>3. h[s \ {Max(s)}] \in T
      BY <3>2, <1>2
    <3> QED
      BY <2>1, <2>3, <3>3
  <2> QED
    BY <2>2, <2>3
<1>3. K \in Z
  <2> HIDE DEF Z
  <2> QED
    BY <1>1, <1>2, LeastIndex
<1> QED
  BY <1>3

(* g is a fold over the indices 1 .. K: the step is a function st of an    *)
(* index and of the result so far.                                         *)
Folds(g, K, base, st) ==
  \A s \in SUBSET (1 .. K) :
     g[s] = IF s = {} THEN base ELSE st[<<Max(s), g[s \ {Max(s)}]>>]

(* There is such a function, whatever the step does.                       *)
LEMMA FoldExists ==
  ASSUME NEW K \in Nat, NEW T, NEW base \in T, NEW st \in [(1 .. K) \X T -> T]
  PROVE  \E g \in [SUBSET (1 .. K) -> T] : Folds(g, K, base, st)
<1> DEFINE Good(g, n) == \A s \in SUBSET (1 .. n) :
             g[s] = IF s = {} THEN base ELSE st[<<Max(s), g[s \ {Max(s)}]>>]
           Z == {n \in 0 .. K : \E g \in [SUBSET (1 .. n) -> T] : Good(g, n)}
<1>1. 0 \in Z
  <2> DEFINE g == [s \in SUBSET (1 .. 0) |-> base]
  <2>1. g \in [SUBSET (1 .. 0) -> T]
    OBVIOUS
  <2>2. Good(g, 0)
    <3>1. \A s \in SUBSET (1 .. 0) : s = {}
      OBVIOUS
    <3> QED
      BY <3>1
  <2>3. 0 \in 0 .. K
    OBVIOUS
  <2> HIDE DEF g, Good
  <2> QED
    BY <2>1, <2>2, <2>3
<1>2. ASSUME NEW n \in 0 .. K - 1, n \in Z PROVE n + 1 \in Z
  <2>1. PICK g \in [SUBSET (1 .. n) -> T] : Good(g, n)
    BY <1>2
  <2> DEFINE h == [s \in SUBSET (1 .. n + 1) |->
                     IF n + 1 \in s THEN st[<<n + 1, g[s \ {n + 1}]>>] ELSE g[s]]
  <2>2. \A s \in SUBSET (1 .. n + 1) : n + 1 \in s => s \ {n + 1} \in SUBSET (1 .. n)
    OBVIOUS
  <2>3. \A s \in SUBSET (1 .. n + 1) : n + 1 \notin s => s \in SUBSET (1 .. n)
    OBVIOUS
  <2>4. h \in [SUBSET (1 .. n + 1) -> T]
    <3> SUFFICES ASSUME NEW s \in SUBSET (1 .. n + 1)
                 PROVE  (IF n + 1 \in s THEN st[<<n + 1, g[s \ {n + 1}]>>] ELSE g[s]) \in T
      OBVIOUS
    <3>1. n + 1 \in 1 .. K
      OBVIOUS
    <3> QED
      BY <2>2, <2>3, <3>1
  <2>5. Good(h, n + 1)
    <3> SUFFICES ASSUME NEW s \in SUBSET (1 .. n + 1)
                 PROVE  h[s] = IF s = {} THEN base ELSE st[<<Max(s), h[s \ {Max(s)}]>>]
      OBVIOUS
    <3>1. CASE n + 1 \in s
      <4>1. Max(s) = n + 1
        <5>1. s \in SUBSET Nat /\ \A x \in s : x <= n + 1
          OBVIOUS
        <5> QED
          BY <5>1, <3>1, MaxProperty
      <4>2. s \ {n + 1} \in SUBSET (1 .. n) /\ n + 1 \notin s \ {n + 1}
            /\ s \ {n + 1} \in SUBSET (1 .. n + 1)
        BY <3>1
      <4>3. h[s \ {n + 1}] = g[s \ {n + 1}]
        BY <4>2
      <4>4. h[s] = st[<<n + 1, g[s \ {n + 1}]>>]
        BY <3>1
      <4> QED
        BY <4>1, <4>3, <4>4, <3>1
    <3>2. CASE n + 1 \notin s
      <4>1. s \in SUBSET (1 .. n) /\ h[s] = g[s]
        BY <3>2
      <4>2. s \ {Max(s)} \in SUBSET (1 .. n) /\ s \ {Max(s)} \in SUBSET (1 .. n + 1)
            /\ n + 1 \notin s \ {Max(s)}
        BY <4>1, <3>2
      <4>3. h[s \ {Max(s)}] = g[s \ {Max(s)}]
        BY <4>2
      <4>4. g[s] = IF s = {} THEN base ELSE st[<<Max(s), g[s \ {Max(s)}]>>]
        BY <2>1, <4>1
      <4> QED
        BY <4>1, <4>3, <4>4
    <3> QED
      BY <3>1, <3>2
  <2>6. n + 1 \in 0 .. K
    OBVIOUS
  <2> HIDE DEF h, Good
  <2> QED
    BY <2>4, <2>5, <2>6
<1>3. K \in Z
  <2> HIDE DEF Z
  <2> QED
    BY <1>1, <1>2, LeastIndex
<1> QED
  BY <1>3 DEF Folds

=============================================================================
