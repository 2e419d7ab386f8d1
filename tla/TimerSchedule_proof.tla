------------------------- MODULE TimerSchedule_proof -------------------------
(***************************************************************************)
(* The timer schedule keeps its list in order and implements the alarms,   *)
(* for any entries and delays and whatever the callbacks do.               *)
(***************************************************************************)
EXTENDS TimerSchedule, DataLemmas

(* The entries of a list, that it holds each once, and that their times    *)
(* never go down.                                                          *)
Linked(l) == {l[i] : i \in DOMAIN l}

Once(l) == \A i, j \in DOMAIN l : l[i] = l[j] => i = j

Ascending(l, s) == \A i, j \in DOMAIN l : i < j => s[l[i]] <= s[l[j]]

(* The inductive invariant.                                                *)
SchedInv == SchedTypeOK /\ ListInOrder

LEMMA SchedInvParts ==
  ASSUME SchedInv
  PROVE  /\ list \in Seq(Entries) /\ start \in [Entries -> Nat]
         /\ time \in Nat /\ time \in 0 .. MaxTime
         /\ live \subseteq Entries /\ next \in Nat
         /\ phase \in {"returned", "loop", "callback"}
         /\ Once(list) /\ Ascending(list, start) /\ Linked(list) \subseteq live
  BY MaxTimeAssumption DEF SchedInv, SchedTypeOK, ListInOrder, Once, Ascending, Linked

LEMMA SchedInvWhole ==
  ASSUME list \in Seq(Entries), start \in [Entries -> Nat], time \in 0 .. MaxTime,
         live \subseteq Entries, next \in Nat,
         phase \in {"returned", "loop", "callback"},
         Once(list), Ascending(list, start), Linked(list) \subseteq live
  PROVE  SchedInv
  BY DEF SchedInv, SchedTypeOK, ListInOrder, Once, Ascending, Linked

-----------------------------------------------------------------------------
(* An entry taken out of a list, wherever it is, leaves the others in      *)
(* their order.                                                            *)
LEMMA RemoveFirstKeeps ==
  ASSUME NEW l \in Seq(Entries), NEW s \in [Entries -> Nat], NEW e \in Entries,
         Once(l), Ascending(l, s)
  PROVE  LET r == RemoveFirst(l, e)
         IN  /\ r \in Seq(Entries) /\ Once(r) /\ Ascending(r, s)
             /\ Linked(r) = Linked(l) \ {e}
<1> DEFINE r == RemoveFirst(l, e)
           I == {i \in 1 .. Len(l) : l[i] = e}
<1>1. CASE I = {}
  <2>1. r = l
    BY <1>1 DEF RemoveFirst
  <2>2. e \notin Linked(l)
    BY <1>1 DEF Linked
  <2>3. QED
    BY <2>1, <2>2
<1>2. CASE I # {}
  <2>1. r = RemoveAt(l, Min(I))
    BY <1>2 DEF RemoveFirst, SelectInSeq
  <2>2. Min(I) \in I
    <3>1. I \in SUBSET Nat
      OBVIOUS
    <3> HIDE DEF I
    <3>2. QED
      BY <1>2, <3>1, MinProperty
  <2> DEFINE p == Min(I)
  <2>3. p \in DOMAIN l /\ l[p] = e /\ Len(l) \in Nat /\ p \in Nat
    BY <2>2
  <2> HIDE DEF p
  <2>4. /\ r \in Seq(Entries) /\ Len(r) = Len(l) - 1
        /\ \A j \in 1 .. Len(l) - 1 : r[j] = IF j < p THEN l[j] ELSE l[j + 1]
    BY <2>1, <2>3, RemoveAtElements, ZenonT(40) DEF p
  <2> DEFINE at == [j \in 1 .. Len(l) - 1 |-> IF j < p THEN j ELSE j + 1]
  <2>5. /\ DOMAIN r = 1 .. Len(l) - 1 /\ DOMAIN l = 1 .. Len(l)
        /\ \A j \in 1 .. Len(l) - 1 : r[j] = l[at[j]] /\ at[j] \in 1 .. Len(l) /\ at[j] # p
        /\ \A i, j \in 1 .. Len(l) - 1 : i < j => at[i] < at[j]
    <3>1. DOMAIN r = 1 .. Len(l) - 1 /\ DOMAIN l = 1 .. Len(l)
      BY <2>3, <2>4
    <3>2. ASSUME NEW j \in 1 .. Len(l) - 1
          PROVE  r[j] = l[at[j]] /\ at[j] \in 1 .. Len(l) /\ at[j] # p
      <4> HIDE DEF r
      <4>1. CASE j < p
        <5>1. at[j] = j /\ r[j] = l[j]
          BY <2>4, <4>1
        <5>2. QED
          BY <2>3, <4>1, <5>1
      <4>2. CASE ~ (j < p)
        <5>1. at[j] = j + 1 /\ r[j] = l[j + 1]
          BY <2>4, <4>2
        <5>2. QED
          BY <2>3, <4>2, <5>1
      <4>3. QED
        BY <4>1, <4>2
    <3>3. \A i, j \in 1 .. Len(l) - 1 : i < j => at[i] < at[j]
      BY <2>3
    <3>4. QED
      BY <3>1, <3>2, <3>3
  <2>6. \A k \in 1 .. Len(l) : k # p => \E j \in 1 .. Len(l) - 1 : at[j] = k
    <3>1. SUFFICES ASSUME NEW k \in 1 .. Len(l), k # p
                   PROVE  \E j \in 1 .. Len(l) - 1 : at[j] = k
      OBVIOUS
    <3>2. CASE k < p
      <4>1. k \in 1 .. Len(l) - 1 /\ at[k] = k
        BY <2>3, <3>2
      <4>2. QED
        BY <4>1
    <3>3. CASE k > p
      <4>1. k - 1 \in 1 .. Len(l) - 1 /\ at[k - 1] = k
        BY <2>3, <3>3
      <4>2. QED
        BY <4>1
    <3>4. k < p \/ k > p
      BY <2>3, <3>1
    <3>5. QED
      BY <3>2, <3>3, <3>4
  <2> HIDE DEF at, r
  <2>7. Once(r)
    <3>1. SUFFICES ASSUME NEW i \in 1 .. Len(l) - 1, NEW j \in 1 .. Len(l) - 1, r[i] = r[j]
                   PROVE  i = j
      BY <2>5 DEF Once
    <3>2. at[i] = at[j]
      BY <2>5, <3>1, SMTT(30) DEF Once
    <3>3. at[i] \in Nat /\ ~ (i < j) /\ ~ (j < i)
      BY <2>3, <2>5, <3>2, SMTT(30)
    <3>4. QED
      BY <2>3, <3>3
  <2>8. Ascending(r, s)
    <3>1. SUFFICES ASSUME NEW i \in 1 .. Len(l) - 1, NEW j \in 1 .. Len(l) - 1, i < j
                   PROVE  s[r[i]] <= s[r[j]]
      BY <2>5 DEF Ascending
    <3>2. /\ at[i] \in DOMAIN l /\ at[j] \in DOMAIN l /\ at[i] < at[j]
          /\ r[i] = l[at[i]] /\ r[j] = l[at[j]]
      BY <2>5, <3>1
    <3>3. QED
      BY <3>2 DEF Ascending
  <2>9. Linked(r) = Linked(l) \ {e}
    <3>1. ASSUME NEW x \in Linked(r) PROVE x \in Linked(l) \ {e}
      <4>1. PICK j \in 1 .. Len(l) - 1 : x = r[j]
        BY <2>5 DEF Linked
      <4>2. x = l[at[j]] /\ at[j] \in DOMAIN l /\ at[j] # p
        BY <2>5, <4>1
      <4>3. QED
        BY <2>3, <4>2 DEF Linked, Once
    <3>2. ASSUME NEW x \in Linked(l), x # e PROVE x \in Linked(r)
      <4>1. PICK k \in DOMAIN l : x = l[k]
        BY DEF Linked
      <4> k \in 1 .. Len(l) /\ k # p
        BY <2>3, <2>5, <3>2, <4>1
      <4>2. PICK j \in 1 .. Len(l) - 1 : at[j] = k
        BY <2>6, <4>1
      <4>3. QED
        BY <2>5, <4>1, <4>2 DEF Linked
    <3>3. QED
      BY <3>1, <3>2
  <2>10. QED
    BY <2>4, <2>7, <2>8, <2>9 DEF r
<1>3. QED
  BY <1>1, <1>2

(* An entry put in at its place keeps the list in order.                   *)
LEMMA InsertKeeps ==
  ASSUME NEW l \in Seq(Entries), NEW s \in [Entries -> Nat], NEW e \in Entries,
         NEW p \in 1 .. Len(l) + 1,
         Once(l), Ascending(l, s), e \notin Linked(l),
         \A i \in DOMAIN l : i < p => s[l[i]] <= s[e],
         \A i \in DOMAIN l : p <= i => s[e] <= s[l[i]]
  PROVE  LET r == InsertAt(l, p, e)
         IN  /\ r \in Seq(Entries) /\ Once(r) /\ Ascending(r, s)
             /\ Linked(r) = Linked(l) \cup {e}
<1> DEFINE r == InsertAt(l, p, e)
<1>1. /\ r \in Seq(Entries) /\ Len(r) = Len(l) + 1
      /\ \A j \in 1 .. Len(l) + 1 :
           r[j] = IF j < p THEN l[j] ELSE IF j = p THEN e ELSE l[j - 1]
  <2>1. \A i \in 1 .. Len(l) + 1, f \in Entries :
          /\ InsertAt(l, i, f) \in Seq(Entries) /\ Len(InsertAt(l, i, f)) = Len(l) + 1
          /\ \A j \in 1 .. Len(l) + 1 :
               InsertAt(l, i, f)[j] = IF j < i THEN l[j] ELSE IF j = i THEN f ELSE l[j - 1]
    BY InsertAtElements
  <2>2. QED
    BY <2>1
<1> HIDE DEF r
<1>2. /\ Len(l) \in Nat /\ p \in Nat /\ p \in DOMAIN r /\ r[p] = e
      /\ DOMAIN r = 1 .. Len(l) + 1 /\ DOMAIN l = 1 .. Len(l)
      /\ \A j \in DOMAIN r : j \in Nat
  BY <1>1
<1>3. \A j \in DOMAIN l : l[j] \in Linked(l) /\ l[j] # e /\ l[j] \in Entries
  BY DEF Linked
(* Every other place of the new list is an old one.                        *)
<1>4. ASSUME NEW j \in DOMAIN r
      PROVE  /\ j < p => j \in DOMAIN l /\ r[j] = l[j]
             /\ j > p => j - 1 \in DOMAIN l /\ r[j] = l[j - 1]
  <2>1. CASE j < p
    BY <1>1, <1>2, <2>1
  <2>2. CASE j = p
    BY <1>2, <2>2
  <2>3. CASE j > p
    BY <1>1, <1>2, <2>3, SMTT(30)
  <2>4. j < p \/ j = p \/ j > p
    BY <1>2
  <2>5. QED
    BY <2>1, <2>2, <2>3, <2>4
<1>5. Once(r)
  <2>1. SUFFICES ASSUME NEW i \in DOMAIN r, NEW j \in DOMAIN r, r[i] = r[j]
                 PROVE  i = j
    BY DEF Once
  <2>2. CASE i = p \/ j = p
    <3>1. ASSUME NEW k \in DOMAIN r, r[k] = e PROVE k = p
      <4>1. ~ (k < p) /\ ~ (k > p)
        BY <1>3, <1>4, <3>1
      <4>2. QED
        BY <1>2, <4>1
    <3>2. QED
      BY <1>2, <2>1, <2>2, <3>1
  <2>3. CASE i # p /\ j # p
    <3>1. /\ i < p \/ i > p
          /\ j < p \/ j > p
      BY <1>2, <2>3
    <3>2. PICK k \in DOMAIN l : r[i] = l[k] /\ ((i < p /\ k = i) \/ (i > p /\ k = i - 1))
      BY <1>4, <3>1
    <3>3. PICK m \in DOMAIN l : r[j] = l[m] /\ ((j < p /\ m = j) \/ (j > p /\ m = j - 1))
      BY <1>4, <3>1
    <3>4. k = m
      BY <2>1, <3>2, <3>3 DEF Once
    <3>5. QED
      BY <1>2, <3>2, <3>3, <3>4
  <2>4. QED
    BY <2>2, <2>3
<1>6. Ascending(r, s)
  <2>1. SUFFICES ASSUME NEW i \in DOMAIN r, NEW j \in DOMAIN r, i < j
                 PROVE  s[r[i]] <= s[r[j]]
    BY DEF Ascending
  <2>2. i \in Nat /\ j \in Nat /\ s[e] \in Nat
    BY <1>2
  <2>3. CASE i < p /\ j < p
    <3>1. i \in DOMAIN l /\ r[i] = l[i] /\ j \in DOMAIN l /\ r[j] = l[j]
      BY <1>4, <2>3
    <3>2. QED
      BY <2>1, <3>1 DEF Ascending
  <2>4. CASE i < p /\ j = p
    BY <1>2, <1>4, <2>1, <2>2, <2>4
  <2>5. CASE i < p /\ j > p
    <3>1. i \in DOMAIN l /\ r[i] = l[i] /\ j - 1 \in DOMAIN l /\ r[j] = l[j - 1]
      BY <1>4, <2>5
    <3>2. s[l[i]] <= s[e] /\ s[e] <= s[l[j - 1]]
      BY <1>2, <2>2, <2>5, <3>1
    <3>3. s[l[i]] \in Nat /\ s[l[j - 1]] \in Nat
      BY <1>3, <3>1
    <3>4. QED
      BY <2>2, <3>1, <3>2, <3>3
  <2>6. CASE i = p
    <3>1. r[i] = e /\ j > p /\ p <= j - 1
      BY <1>2, <2>1, <2>2, <2>6
    <3>2. j - 1 \in DOMAIN l /\ r[j] = l[j - 1]
      BY <1>4, <3>1
    <3>3. QED
      BY <3>1, <3>2
  <2>7. CASE i > p
    <3>1. j > p /\ i - 1 < j - 1
      BY <1>2, <2>1, <2>2, <2>7
    <3>2. /\ i - 1 \in DOMAIN l /\ r[i] = l[i - 1]
          /\ j - 1 \in DOMAIN l /\ r[j] = l[j - 1]
      BY <1>4, <2>7, <3>1
    <3>3. QED
      BY <3>1, <3>2 DEF Ascending
  <2>8. QED
    BY <1>2, <2>1, <2>2, <2>3, <2>4, <2>5, <2>6, <2>7
<1>7. Linked(r) = Linked(l) \cup {e}
  <2>1. ASSUME NEW x \in Linked(r) PROVE x \in Linked(l) \cup {e}
    <3>1. PICK j \in DOMAIN r : x = r[j]
      BY DEF Linked
    <3>2. j < p \/ j = p \/ j > p
      BY <1>2
    <3>3. x = e \/ \E k \in DOMAIN l : x = l[k]
      BY <1>2, <1>4, <3>1, <3>2
    <3>4. QED
      BY <1>3, <3>3
  <2>2. e \in Linked(r)
    BY <1>1, <1>2 DEF Linked
  <2>3. ASSUME NEW x \in Linked(l) PROVE x \in Linked(r)
    <3>1. PICK k \in DOMAIN l : x = l[k]
      BY DEF Linked
    <3>2. CASE k < p
      <4>1. k \in DOMAIN r /\ r[k] = x
        BY <1>1, <1>2, <3>1, <3>2
      <4>2. QED
        BY <4>1 DEF Linked
    <3>3. CASE ~ (k < p)
      <4>1. k + 1 \in DOMAIN r /\ ~ (k + 1 < p) /\ k + 1 # p /\ k + 1 - 1 = k
        BY <1>2, <3>1, <3>3
      <4>2. r[k + 1] = x
        BY <1>1, <1>2, <3>1, <4>1
      <4>3. QED
        BY <4>1, <4>2 DEF Linked
    <3>4. QED
      BY <3>2, <3>3
  <2>4. QED
    BY <2>1, <2>2, <2>3
<1>8. QED
  BY <1>1, <1>5, <1>6, <1>7 DEF r

(* The place schedule_rearm looks for is between the entries that start    *)
(* earlier and the others.                                                 *)
LEMMA InsertPlaceBetween ==
  ASSUME NEW l \in Seq(Entries), start \in [Entries -> Nat], NEW t \in Nat,
         Ascending(l, start)
  PROVE  /\ InsertPlace(l, t) \in 1 .. Len(l) + 1
         /\ \A i \in DOMAIN l : i < InsertPlace(l, t) => start[l[i]] <= t
         /\ \A i \in DOMAIN l : InsertPlace(l, t) <= i => t <= start[l[i]]
<1> DEFINE places == {i \in DOMAIN l : t <= start[l[i]]}
           p == InsertPlace(l, t)
<1>1. /\ Len(l) \in Nat /\ DOMAIN l = 1 .. Len(l)
      /\ \A i \in DOMAIN l : start[l[i]] \in Nat
  OBVIOUS
<1>2. CASE places = {}
  <2>1. p = Len(l) + 1
    BY <1>2 DEF InsertPlace
  <2> HIDE DEF p
  <2>2. \A i \in DOMAIN l : start[l[i]] <= t
    BY <1>1, <1>2
  <2>3. \A i \in DOMAIN l : ~ (p <= i)
    BY <1>1, <2>1
  <2>4. QED
    BY <1>1, <2>1, <2>2, <2>3 DEF p
<1>3. CASE places # {}
  <2>1. p = Min(places)
    BY <1>3 DEF InsertPlace
  <2>2. p \in places /\ \A i \in places : p <= i
    <3>1. places \in SUBSET Nat
      BY <1>1
    <3> HIDE DEF places, p
    <3>2. QED
      BY <1>3, <2>1, <3>1, MinProperty
  <2> HIDE DEF p
  <2>3. p \in DOMAIN l /\ p \in Nat /\ t <= start[l[p]]
    BY <1>1, <2>2
  <2>4. ASSUME NEW i \in DOMAIN l, i < p PROVE start[l[i]] <= t
    <3>1. i \notin places
      BY <1>1, <2>2, <2>3, <2>4
    <3>2. QED
      BY <1>1, <3>1
  <2>5. ASSUME NEW i \in DOMAIN l, p <= i PROVE t <= start[l[i]]
    <3>1. start[l[p]] <= start[l[i]]
      BY <1>1, <2>3, <2>5, SMTT(30) DEF Ascending
    <3>2. start[l[p]] \in Nat /\ start[l[i]] \in Nat
      BY <1>1, <2>3
    <3>3. QED
      BY <2>3, <3>1, <3>2
  <2>6. p \in 1 .. Len(l) + 1
    BY <1>1, <2>3
  <2>7. QED
    BY <2>4, <2>5, <2>6 DEF p
<1>4. QED
  BY <1>2, <1>3

-----------------------------------------------------------------------------
(* Arming adds the entry, or moves it, and touches no other one.           *)
LEMMA ArmKeeps ==
  ASSUME SchedInv, NEW e \in Entries, NEW delay \in Delays, Arm(e, delay)
  PROVE  /\ list' \in Seq(Entries) /\ start' \in [Entries -> Nat]
         /\ Once(list') /\ Ascending(list', start')
         /\ Linked(list') = Linked(list) \cup {e}
         /\ start'[e] >= time /\ \A f \in Entries \ {e} : start'[f] = start[f]
<1> DEFINE t == time + delay
           s == start'
           rest == RemoveFirst(list, e)
           p == InsertPlace(rest, t)
<1>1. /\ list \in Seq(Entries) /\ start \in [Entries -> Nat] /\ time \in Nat
      /\ Once(list) /\ Ascending(list, start)
  BY SchedInvParts
<1>2. /\ t \in Nat /\ t >= time /\ s = [start EXCEPT ![e] = t]
      /\ list' = InsertAt(rest, p, e)
  BY <1>1, DelaysAssumption DEF Arm
<1>3. /\ s \in [Entries -> Nat] /\ s[e] = t
      /\ \A f \in Entries \ {e} : s[f] = start[f]
  BY <1>1, <1>2
<1>4. /\ rest \in Seq(Entries) /\ Once(rest) /\ Ascending(rest, start)
      /\ Linked(rest) = Linked(list) \ {e}
  BY <1>1, RemoveFirstKeeps
<1> HIDE DEF s, rest, t
<1>5. /\ p \in 1 .. Len(rest) + 1
      /\ \A i \in DOMAIN rest : i < p => start[rest[i]] <= t
      /\ \A i \in DOMAIN rest : p <= i => t <= start[rest[i]]
  BY <1>1, <1>2, <1>4, InsertPlaceBetween
<1> HIDE DEF p
<1>6. \A i \in DOMAIN rest : s[rest[i]] = start[rest[i]]
  <2>1. \A i \in DOMAIN rest : rest[i] \in Entries /\ rest[i] # e
    BY <1>4 DEF Linked
  <2>2. QED
    BY <1>3, <2>1
<1>7. Ascending(rest, s)
  BY <1>4, <1>6 DEF Ascending
<1>8. e \notin Linked(rest)
  BY <1>4
<1>9. /\ \A i \in DOMAIN rest : i < p => s[rest[i]] <= s[e]
      /\ \A i \in DOMAIN rest : p <= i => s[e] <= s[rest[i]]
  BY <1>3, <1>5, <1>6
<1>10. LET r == InsertAt(rest, p, e)
       IN  /\ r \in Seq(Entries) /\ Once(r) /\ Ascending(r, s)
           /\ Linked(r) = Linked(rest) \cup {e}
  BY <1>3, <1>4, <1>5, <1>7, <1>8, <1>9, InsertKeeps
<1>11. Linked(list') = Linked(list) \cup {e}
  BY <1>2, <1>4, <1>10
<1>12. QED
  BY <1>2, <1>3, <1>10, <1>11 DEF s


(* The list that run leaves when it takes the first entry.                 *)
LEMMA TailKeeps ==
  ASSUME NEW l \in Seq(Entries), NEW s \in [Entries -> Nat], l # <<>>,
         Once(l), Ascending(l, s)
  PROVE  /\ Tail(l) \in Seq(Entries) /\ Once(Tail(l)) /\ Ascending(Tail(l), s)
         /\ Linked(Tail(l)) = Linked(l) \ {Head(l)}
<1> DEFINE r == Tail(l)
<1>1. /\ r \in Seq(Entries) /\ Len(l) \in Nat \ {0} /\ Head(l) = l[1]
      /\ DOMAIN l = 1 .. Len(l) /\ DOMAIN r = 1 .. Len(l) - 1
      /\ \A i \in 1 .. Len(l) - 1 : r[i] = l[i + 1]
  OBVIOUS
<1> HIDE DEF r
<1> \A i \in DOMAIN r : i \in Nat /\ i + 1 \in DOMAIN l /\ r[i] = l[i + 1]
  BY <1>1
<1>2. Once(r)
  <2>1. SUFFICES ASSUME NEW i \in DOMAIN r, NEW j \in DOMAIN r, r[i] = r[j]
                 PROVE  i = j
    BY DEF Once
  <2>2. i + 1 \in DOMAIN l /\ j + 1 \in DOMAIN l /\ l[i + 1] = l[j + 1]
    BY <2>1
  <2>3. i + 1 = j + 1
    BY <2>2 DEF Once
  <2>4. QED
    BY <1>1, <2>3
<1>3. Ascending(r, s)
  <2>1. SUFFICES ASSUME NEW i \in DOMAIN r, NEW j \in DOMAIN r, i < j
                 PROVE  s[r[i]] <= s[r[j]]
    BY DEF Ascending
  <2>2. /\ i + 1 \in DOMAIN l /\ j + 1 \in DOMAIN l /\ i + 1 < j + 1
        /\ r[i] = l[i + 1] /\ r[j] = l[j + 1]
    <3>1. i \in Nat /\ j \in Nat
      BY <1>1
    <3>2. QED
      BY <2>1, <3>1
  <2>3. QED
    BY <2>2 DEF Ascending
<1>4. Linked(r) = Linked(l) \ {Head(l)}
  <2>1. ASSUME NEW x \in Linked(r) PROVE x \in Linked(l) \ {Head(l)}
    <3>1. PICK j \in DOMAIN r : x = r[j]
      BY DEF Linked
    <3>2. j + 1 \in DOMAIN l /\ j + 1 # 1 /\ 1 \in DOMAIN l /\ x = l[j + 1]
      BY <1>1, <3>1
    <3>3. QED
      BY <1>1, <3>2 DEF Linked, Once
  <2>2. ASSUME NEW x \in Linked(l), x # Head(l) PROVE x \in Linked(r)
    <3>1. PICK k \in DOMAIN l : x = l[k]
      BY DEF Linked
    <3>2. k # 1
      BY <1>1, <2>2, <3>1
    <3>3. k - 1 \in DOMAIN r /\ r[k - 1] = l[k - 1 + 1] /\ k - 1 + 1 = k
      BY <1>1, <3>1, <3>2
    <3>4. QED
      BY <3>1, <3>3 DEF Linked
  <2>3. QED
    BY <2>1, <2>2
<1>5. QED
  BY <1>1, <1>2, <1>3, <1>4 DEF r

-----------------------------------------------------------------------------
(* The invariant holds initially, and every step keeps it.                 *)
LEMMA SchedInitInv == SchedInit => SchedInv
<1>1. SUFFICES ASSUME SchedInit PROVE SchedInv
  OBVIOUS
<1>2. /\ list = <<>> /\ DOMAIN list = {} /\ list \in Seq(Entries)
      /\ start \in [Entries -> Nat] /\ time = 0 /\ live = {} /\ next = 0
      /\ phase = "returned"
  BY <1>1 DEF SchedInit
<1>3. Once(list) /\ Ascending(list, start) /\ Linked(list) \subseteq live
  BY <1>2 DEF Once, Ascending, Linked
<1>4. time \in 0 .. MaxTime
  BY <1>2, MaxTimeAssumption
<1>5. QED
  BY <1>2, <1>3, <1>4, SchedInvWhole

(* The primed parts make the invariant of the next state.                  *)
LEMMA SchedInvNext ==
  ASSUME list' \in Seq(Entries), start' \in [Entries -> Nat], time' \in 0 .. MaxTime,
         live' \subseteq Entries, next' \in Nat,
         phase' \in {"returned", "loop", "callback"},
         Once(list'), Ascending(list', start'), Linked(list') \subseteq live'
  PROVE  SchedInv'
BY DEF SchedInv, SchedTypeOK, ListInOrder, Once, Ascending, Linked

LEMMA AddInv ==
  ASSUME SchedInv, NEW e \in Entries, Add(e)
  PROVE  SchedInv'
<1>1. CASE start' = [start EXCEPT ![e] = 0] /\ UNCHANGED list
  <2>1. /\ start' \in [Entries -> Nat] /\ live' \subseteq Entries
        /\ \A f \in Entries \ {e} : start'[f] = start[f]
        /\ Linked(list') \subseteq live' /\ list' = list /\ e \notin Linked(list)
    BY <1>1, SchedInvParts DEF Add
  <2>2. \A i \in DOMAIN list : start'[list[i]] = start[list[i]]
    BY <2>1, SchedInvParts DEF Linked
  <2>3. Ascending(list', start')
    BY <2>1, <2>2, SchedInvParts DEF Ascending
  <2>4. QED
    BY <2>1, <2>3, SchedInvParts, SchedInvNext DEF Add
<1>2. CASE \E delay \in Delays : Arm(e, delay)
  <2>1. PICK delay \in Delays : Arm(e, delay)
    BY <1>2
  <2>2. QED
    BY <2>1, SchedInvParts, ArmKeeps, SchedInvNext DEF Add
<1>3. QED
  BY <1>1, <1>2 DEF Add

LEMMA RearmInv ==
  ASSUME SchedInv, NEW e \in Entries, Rearm(e)
  PROVE  SchedInv'
<1>1. PICK delay \in Delays : Arm(e, delay)
  BY DEF Rearm
<1>2. Linked(list') \subseteq live'
  BY <1>1, SchedInvParts, ArmKeeps DEF Rearm
<1>3. QED
  BY <1>1, <1>2, SchedInvParts, ArmKeeps, SchedInvNext DEF Rearm

LEMMA CancelInv ==
  ASSUME SchedInv, NEW e \in Entries, Cancel(e)
  PROVE  SchedInv'
<1>1. list' = RemoveFirst(list, e) /\ start' = start /\ live' = live
  BY DEF Cancel
<1>2. /\ list' \in Seq(Entries) /\ Once(list') /\ Ascending(list', start)
      /\ Linked(list') = Linked(list) \ {e}
  BY <1>1, SchedInvParts, RemoveFirstKeeps
<1>3. QED
  BY <1>1, <1>2, SchedInvParts, SchedInvNext DEF Cancel

LEMMA FreeInv ==
  ASSUME SchedInv, NEW e \in Entries, Free(e)
  PROVE  SchedInv'
<1>1. e \notin Linked(list)
  BY DEF Free, Pending, Linked
<1>2. QED
  BY <1>1, SchedInvParts, SchedInvNext DEF Free

LEMMA CallBackInv ==
  ASSUME SchedInv, CallBack
  PROVE  SchedInv'
<1>1. list # <<>> /\ list' = Tail(list) /\ start' = start
  BY DEF CallBack, FirstDue
<1>2. /\ list' \in Seq(Entries) /\ Once(list') /\ Ascending(list', start)
      /\ Linked(list') = Linked(list) \ {Head(list)}
  BY <1>1, SchedInvParts, TailKeeps
<1>3. QED
  BY <1>1, <1>2, SchedInvParts, SchedInvNext DEF CallBack

LEMMA RunReturnsInv ==
  ASSUME SchedInv, RunReturns
  PROVE  SchedInv'
<1>1. next' \in Nat
  <2>1. CASE list = <<>>
    BY <2>1 DEF RunReturns
  <2>2. CASE list # <<>>
    <3>1. Head(list) \in Entries
      BY <2>2, SchedInvParts
    <3>2. start[Head(list)] \in Nat /\ ~ (time >= start[Head(list)])
      BY <2>2, <3>1, SchedInvParts DEF RunReturns, FirstDue
    <3>3. QED
      BY <2>2, <3>2, SchedInvParts DEF RunReturns
  <2>3. QED
    BY <2>1, <2>2
<1>2. QED
  BY <1>1, SchedInvParts, SchedInvNext DEF RunReturns

LEMMA SchedNextInv == SchedInv /\ [SchedNext]_schedVars => SchedInv'
<1>1. SUFFICES ASSUME SchedInv, [SchedNext]_schedVars PROVE SchedInv'
  OBVIOUS
<1>2. CASE \E e \in Entries : Add(e) \/ Rearm(e) \/ Cancel(e) \/ Free(e)
  BY <1>1, <1>2, AddInv, RearmInv, CancelInv, FreeInv
<1>3. CASE SetTime
  <2>1. time' \in 0 .. MaxTime
    BY <1>1, <1>3, SchedInvParts, MaxTimeAssumption DEF SetTime
  <2>2. QED
    BY <1>1, <1>3, <2>1, SchedInvParts, SchedInvNext DEF SetTime
<1>4. CASE Run
  BY <1>1, <1>4, SchedInvParts, SchedInvNext DEF Run
<1>5. CASE CallBack
  BY <1>1, <1>5, CallBackInv
<1>6. CASE CallbackReturns
  BY <1>1, <1>6, SchedInvParts, SchedInvNext DEF CallbackReturns
<1>7. CASE RunReturns
  BY <1>1, <1>7, RunReturnsInv
<1>8. CASE UNCHANGED schedVars
  BY <1>1, <1>8, SchedInvParts, SchedInvNext DEF schedVars
<1>9. QED
  BY <1>1, <1>2, <1>3, <1>4, <1>5, <1>6, <1>7, <1>8 DEF SchedNext

LEMMA SchedInvAlways == SchedSpec => []SchedInv
<1>1. QED
  BY SchedInitInv, SchedNextInv, PTL DEF SchedSpec

(* The schedule's state stays well formed.                                 *)
THEOREM SchedTypeCorrect == SchedSpec => []SchedTypeOK
<1>1. SchedInv => SchedTypeOK
  BY DEF SchedInv
<1>2. QED
  BY <1>1, SchedInvAlways, PTL

(* Whatever the callbacks add, move, cancel and free, the list stays in    *)
(* the order of the start times and links no freed entry                   *)
(* (schedule_rearm, schedule_cancel, nck_schedule_run).                    *)
THEOREM SchedKeepsOrder == SchedSpec => []ListInOrder
<1>1. SchedInv => ListInOrder
  BY DEF SchedInv
<1>2. QED
  BY <1>1, SchedInvAlways, PTL

(* When run returns, nothing that is due is left in the list, and the time *)
(* it asks for is the one to the earliest start in the list.               *)
THEOREM SchedReturnsExact == SchedSpec => NextIsExact
<1> DEFINE Exact == RunReturns =>
             /\ \A e \in Entries : Pending(e) => time < start[e] /\ next' <= start[e] - time
             /\ list # <<>> => \E e \in Entries : Pending(e) /\ next' = start[e] - time
<1>1. SchedInv => Exact
  <2>1. SUFFICES ASSUME SchedInv, RunReturns
                 PROVE  /\ \A e \in Entries : Pending(e) =>
                              time < start[e] /\ next' <= start[e] - time
                        /\ list # <<>> => \E e \in Entries : Pending(e) /\ next' = start[e] - time
    OBVIOUS
  <2>2. /\ list \in Seq(Entries) /\ start \in [Entries -> Nat] /\ time \in Nat
        /\ Ascending(list, start)
    BY <2>1, SchedInvParts
  <2>3. CASE list = <<>>
    <3>1. \A e \in Entries : ~Pending(e)
      BY <2>3 DEF Pending
    <3>2. QED
      BY <2>3, <3>1
  <2>4. CASE list # <<>>
    <3> DEFINE h == Head(list)
    <3>1. /\ h = list[1] /\ 1 \in DOMAIN list /\ \A i \in DOMAIN list : i \in Nat /\ (i = 1 \/ 1 < i)
      BY <2>2, <2>4
    <3>2. h \in Entries /\ Pending(h) /\ start[h] \in Nat
      BY <2>2, <3>1 DEF Pending
    <3>3. ~ (time >= start[h]) /\ next' = start[h] - time
      BY <2>1, <2>4 DEF RunReturns, FirstDue
    <3>4. ASSUME NEW e \in Entries, Pending(e) PROVE start[h] <= start[e] /\ start[e] \in Nat
      <4>1. PICK i \in DOMAIN list : list[i] = e
        BY <3>4 DEF Pending
      <4>2. start[e] \in Nat
        BY <2>2
      <4>3. CASE i = 1
        BY <3>1, <3>2, <4>1, <4>3
      <4>4. CASE 1 < i
        BY <2>2, <3>1, <4>1, <4>4 DEF Ascending
      <4>5. QED
        BY <3>1, <4>1, <4>2, <4>3, <4>4
    <3> HIDE DEF h
    <3>5. QED
      BY <2>2, <3>2, <3>3, <3>4
  <2>5. QED
    BY <2>3, <2>4
<1>2. [][Exact]_schedVars => NextIsExact
  BY DEF NextIsExact
<1> HIDE DEF Exact
<1>3. SchedInv /\ [SchedNext]_schedVars => [Exact]_schedVars
  BY <1>1
<1>4. QED
  BY <1>2, <1>3, SchedInvAlways, PTL DEF SchedSpec

-----------------------------------------------------------------------------
(* The schedule implements the alarms.                                     *)
LEMMA SchedInitAlarms == SchedInit => Alarm!Init
<1>1. SUFFICES ASSUME SchedInit PROVE Alarm!Init
  OBVIOUS
<1>2. time = 0 /\ {list[i] : i \in DOMAIN list} = {}
  BY <1>1 DEF SchedInit
<1>3. QED
  BY <1>1, <1>2 DEF Alarm!Init, AlarmsDue, Ringing, SchedInit

(* An entry that is armed is an alarm that is set.                         *)
LEMMA ArmSets ==
  ASSUME SchedInv, NEW e \in Entries, NEW delay \in Delays, Arm(e, delay), time' = time,
         phase' = phase
  PROVE  Alarm!Set(e)
<1>1. /\ Linked(list') = Linked(list) \cup {e} /\ start' \in [Entries -> Nat]
      /\ start'[e] >= time /\ \A f \in Entries \ {e} : start'[f] = start[f]
      /\ Linked(list) \subseteq Entries
  BY ArmKeeps, SchedInvParts
<1>2. /\ AlarmsDue = [f \in Linked(list) |-> start[f]]
      /\ AlarmsDue' = [f \in Linked(list') |-> start'[f]]
  BY DEF AlarmsDue, Linked
<1>3. QED
  BY <1>1, <1>2 DEF Alarm!Set, Ringing

(* An entry that leaves the list, and nothing else.                        *)
LEMMA LeavesWithout ==
  ASSUME NEW e \in Entries, Linked(list') = Linked(list) \ {e}, start' = start
  PROVE  AlarmsDue' = Alarm!Without(e)
<1>1. /\ AlarmsDue = [f \in Linked(list) |-> start[f]]
      /\ AlarmsDue' = [f \in Linked(list') |-> start'[f]]
  BY DEF AlarmsDue, Linked
<1>2. QED
  BY <1>1 DEF Alarm!Without

LEMMA SchedStepAlarms ==
  ASSUME SchedInv, [SchedNext]_schedVars
  PROVE  [Alarm!Next]_<<time, AlarmsDue, Ringing>>
<1>1. AlarmsDue = [f \in Linked(list) |-> start[f]] /\ DOMAIN AlarmsDue = Linked(list)
  BY DEF AlarmsDue, Linked
<1>2. ASSUME NEW e \in Entries, Add(e) PROVE [Alarm!Next]_<<time, AlarmsDue, Ringing>>
  <2>1. CASE start' = [start EXCEPT ![e] = 0] /\ UNCHANGED list
    <3>1. e \notin Linked(list) /\ \A f \in Linked(list) : start'[f] = start[f]
      BY <1>2, <2>1, SchedInvParts DEF Add
    <3>2. AlarmsDue' = [f \in Linked(list) |-> start'[f]]
      BY <2>1 DEF AlarmsDue, Linked
    <3>3. AlarmsDue' = AlarmsDue
      BY <1>1, <3>1, <3>2
    <3>4. QED
      BY <1>2, <3>3 DEF Add, Ringing
  <2>2. CASE \E delay \in Delays : Arm(e, delay)
    BY <1>2, <2>2, ArmSets DEF Add, Alarm!Next
  <2>3. QED
    BY <1>2, <2>1, <2>2 DEF Add
<1>3. ASSUME NEW e \in Entries, Rearm(e) PROVE Alarm!Next
  BY <1>3, ArmSets DEF Rearm, Alarm!Next
<1>4. ASSUME NEW e \in Entries, Cancel(e) PROVE Alarm!Next
  <2>1. Linked(list') = Linked(list) \ {e} /\ start' = start /\ time' = time
    BY <1>4, SchedInvParts, RemoveFirstKeeps DEF Cancel
  <2>2. e \in DOMAIN AlarmsDue
    BY <1>1, <1>4 DEF Cancel, Pending, Linked
  <2>3. QED
    BY <1>4, <2>1, <2>2, LeavesWithout DEF Alarm!Next, Alarm!Unset, Cancel, Ringing
<1>5. CASE SetTime
  <2>1. time' \in Nat /\ time' >= time
    BY <1>5, SchedInvParts, MaxTimeAssumption DEF SetTime
  <2>2. AlarmsDue' = AlarmsDue
    BY <1>5 DEF SetTime, AlarmsDue
  <2>3. QED
    BY <1>5, <2>1, <2>2 DEF Alarm!Next, Alarm!Pass, SetTime, Ringing
<1>6. CASE CallBack
  <2> DEFINE h == Head(list)
  <2>1. list # <<>> /\ time >= start[h] /\ list' = Tail(list) /\ start' = start /\ time' = time
    BY <1>6 DEF CallBack, FirstDue
  <2>2. /\ list \in Seq(Entries) /\ start \in [Entries -> Nat] /\ time \in Nat
        /\ Once(list) /\ Ascending(list, start)
    BY SchedInvParts
  <2>3. h = list[1] /\ 1 \in DOMAIN list /\ h \in Entries /\ h \in Linked(list)
    BY <2>1, <2>2 DEF Linked
  <2>4. Linked(list') = Linked(list) \ {h}
    BY <2>1, <2>2, TailKeeps
  <2>5. \A f \in Linked(list) : start[h] <= start[f]
    <3>1. SUFFICES ASSUME NEW f \in Linked(list) PROVE start[h] <= start[f]
      OBVIOUS
    <3>2. PICK i \in DOMAIN list : f = list[i]
      BY DEF Linked
    <3>3. CASE i = 1
      BY <2>2, <2>3, <3>2, <3>3
    <3>4. CASE 1 < i
      BY <2>2, <2>3, <3>2, <3>4 DEF Ascending
    <3>5. i = 1 \/ 1 < i
      BY <2>2, <3>2
    <3>6. QED
      BY <3>3, <3>4, <3>5
  <2> HIDE DEF h
  <2>6. AlarmsDue' = Alarm!Without(h)
    BY <2>1, <2>3, <2>4, LeavesWithout
  <2>7. start[h] \in Nat /\ start[h] <= time
    BY <2>1, <2>2, <2>3
  <2>8. /\ h \in DOMAIN AlarmsDue /\ AlarmsDue[h] <= time
        /\ \A f \in DOMAIN AlarmsDue : AlarmsDue[h] <= AlarmsDue[f]
    BY <1>1, <2>3, <2>5, <2>7
  <2>9. QED
    BY <1>6, <2>1, <2>3, <2>6, <2>8 DEF Alarm!Next, Alarm!GoOff, CallBack, Ringing
<1>7. CASE (\E e \in Entries : Free(e)) \/ Run \/ RunReturns \/ UNCHANGED schedVars
  <2>1. list' = list /\ start' = start /\ time' = time
    BY <1>7 DEF Free, Run, RunReturns, schedVars
  <2>2. AlarmsDue' = AlarmsDue
    BY <2>1 DEF AlarmsDue
  <2>3. Ringing' = Ringing
    BY <1>7 DEF Free, Run, RunReturns, schedVars, Ringing
  <2>4. QED
    BY <2>1, <2>2, <2>3
<1>8. CASE CallbackReturns
  <2>1. list' = list /\ start' = start /\ time' = time
    BY <1>8 DEF CallbackReturns
  <2>2. AlarmsDue' = AlarmsDue
    BY <2>1 DEF AlarmsDue
  <2>3. QED
    BY <1>8, <2>1, <2>2 DEF CallbackReturns, Ringing, Alarm!Next, Alarm!Attended
<1>9. QED
  BY <1>2, <1>3, <1>4, <1>5, <1>6, <1>7, <1>8 DEF SchedNext

(* Timer entries go off in the order of their times, once, not early and   *)
(* not after they were cancelled (timer_schedule.c), for any use of them.  *)
THEOREM SchedImplementsAlarms == SchedSpec => GoesOffInOrder
<1>1. SchedInv /\ [SchedNext]_schedVars => [Alarm!Next]_<<time, AlarmsDue, Ringing>>
  BY SchedStepAlarms
<1>2. QED
  BY <1>1, SchedInitAlarms, SchedInvAlways, PTL
     DEF SchedSpec, GoesOffInOrder, Alarm!Spec, Alarm!alarmVars

=============================================================================
