---------------------------- MODULE SwLink_proof ----------------------------
(***************************************************************************)
(* Theorems about SwLink.                                                  *)
(***************************************************************************)
EXTENDS SwLink, RlncLemmas

-----------------------------------------------------------------------------
(* Remainders: what a number leaves is unique, does not care whether the   *)
(* number was reduced before, and tells numbers apart that are close.      *)
LEMMA ModUnique ==
  ASSUME NEW n \in Nat \ {0}, NEW q \in Int, NEW r \in 0 .. n - 1
  PROVE  (n * q + r) % n = r
OBVIOUS

LEMMA ModRange ==
  ASSUME NEW n \in Nat \ {0}, NEW a \in Int
  PROVE  a % n \in 0 .. n - 1 /\ \E q \in Int : a = n * q + (a % n)
<1>1. a = n * (a \div n) + (a % n) /\ a \div n \in Int
  OBVIOUS
<1>2. a % n \in 0 .. n - 1
  OBVIOUS
<1> QED
  BY <1>1, <1>2

LEMMA ModSum ==
  ASSUME NEW n \in Nat \ {0}, NEW a \in Int, NEW b \in Int
  PROVE  ((a % n) + b) % n = (a + b) % n
<1> DEFINE c == (a % n) + b
<1>1. PICK q \in Int : a = n * q + (a % n)
  BY ModRange
<1>2. a % n \in Int /\ c \in Int
  BY ModRange
<1>3. PICK p \in Int : c = n * p + (c % n)
  <2> HIDE DEF c
  <2> QED
    BY <1>2, ModRange
<1>4. c % n \in 0 .. n - 1
  <2> HIDE DEF c
  <2> QED
    BY <1>2, ModRange
<1>5. a + b = n * (q + p) + (c % n)
  <2>1. a + b = n * q + c
    BY <1>1, <1>2
  <2> HIDE DEF c
  <2> QED
    BY <1>2, <1>3, <1>4, <2>1
<1>6. (n * (q + p) + (c % n)) % n = c % n
  <2> DEFINE m == q + p
             r == c % n
  <2>1. m \in Int /\ r \in 0 .. n - 1
    BY <1>4
  <2> HIDE DEF m, r
  <2>2. (n * m + r) % n = r
    BY <2>1, ModUnique
  <2> QED
    BY <2>2 DEF m, r
<1> QED
  BY <1>5, <1>6

LEMMA ModApart ==
  ASSUME NEW n \in Nat \ {0}, NEW a \in Int, NEW b \in Int,
         a % n = b % n, a - b < n, b - a < n
  PROVE  a = b
<1>1. PICK q \in Int : a = n * q + (a % n)
  BY ModRange
<1>2. PICK p \in Int : b = n * p + (b % n)
  BY ModRange
<1>3. a - b = n * (q - p)
  BY <1>1, <1>2
<1>4. q - p = 0
  <2>1. q - p >= 1 => n * (q - p) >= n
    OBVIOUS
  <2>2. q - p <= -1 => n * (q - p) <= -n
    OBVIOUS
  <2> QED
    BY <2>1, <2>2, <1>3
<1> QED
  BY <1>3, <1>4

LEMMA ModShift ==
  ASSUME NEW n \in Nat \ {0}, NEW a \in Int
  PROVE  (a + n) % n = a % n /\ (a - n) % n = a % n
<1>1. PICK q \in Int : a = n * q + (a % n)
  BY ModRange
<1>2. a % n \in 0 .. n - 1
  BY ModRange
<1>3. a + n = n * (q + 1) + (a % n) /\ a - n = n * (q - 1) + (a % n)
  BY <1>1, <1>2
<1> DEFINE up == q + 1
           down == q - 1
<1>4. up \in Int /\ down \in Int /\ a + n = n * up + (a % n) /\ a - n = n * down + (a % n)
  BY <1>3
<1> HIDE DEF up, down
<1>5. (n * up + (a % n)) % n = a % n /\ (n * down + (a % n)) % n = a % n
  BY <1>2, <1>4, ModUnique
<1> QED
  BY <1>4, <1>5

-----------------------------------------------------------------------------
(* The rate control of an encoder and of a recoder: which of the two       *)
(* algorithms it is never changes.  In the dual phase algorithm a phase    *)
(* that has begun has packets left.                                        *)
DualRate ==
  [algo : {"dual"}, source_phase : Nat \ {0}, repair_phase : Nat,
   source_counter : Nat, repair_counter : Nat]

CreditRate ==
  [algo : {"credit"}, max_symbols : {Symbols}, redundancy : Int, counter : Nat,
   advance_use : BOOLEAN, advance_credit : Int]

EncRate(rc) ==
  \/ rc \in DualRate /\ (rc.source_counter = 0 => rc.repair_counter > 0)
  \/ rc \in CreditRate /\ rc.redundancy >= 0 /\ ~rc.advance_use

EncFields ==
  {"seq", "enabled", "systematic", "source_symbols", "first_missing", "packet_count",
   "systematic_time", "coded_time", "tx_attempts", "flush_attempts", "flush_next",
   "coded_packets", "timer", "failed", "rc"}

EncShape(e) == DOMAIN e = EncFields /\ e = [x \in EncFields |-> e[x]]

(* What every call of the encoder leaves: its fields have their types and  *)
(* its counters agree; without coded retransmissions no systematic time is *)
(* in the future; and only slots that hold a symbol have attempts left or  *)
(* are coded.                                                              *)
EncParts(e) ==
  /\ e.seq \in Nat /\ e.enabled \subseteq Slots /\ e.systematic \subseteq Slots
  /\ e.source_symbols \in Nat /\ e.first_missing \in Nat /\ e.packet_count \in Nat
  /\ e.systematic_time \in [Slots -> Nat] /\ e.coded_time \in [Slots -> Nat]
  /\ e.tx_attempts \in [Slots -> 0 .. Unlimited]
  /\ e.flush_attempts \in 0 .. Unlimited - 1
  /\ e.coded_packets \in Seq(Nat) /\ e.flush_next \in BOOLEAN
  /\ e.timer \in BOOLEAN /\ e.failed = FALSE /\ EncRate(e.rc)

EncCounts(e) ==
  /\ e.source_symbols = Cardinality(e.systematic)
  /\ \A i \in e.systematic : e.tx_attempts[i] > 0
  /\ ~IsDual(e.rc) => e.rc.counter >= e.source_symbols * Symbols
  /\ \A i \in Slots : e.systematic_time[i] <= e.packet_count
  /\ \A i \in Slots : e.tx_attempts[i] > 0 => i < e.seq
  /\ \A i \in e.enabled : i < e.seq

EncOk(e) == EncShape(e) /\ EncParts(e) /\ EncCounts(e)

Plain(o) == ~o.coded_retrans /\ ~o.zero /\ ~o.overheard /\ ~(o.tap /\ o.eager)

LEMMA SlotsFinite ==
  /\ IsFiniteSet(Slots)
  /\ \A S \in SUBSET Slots : IsFiniteSet(S) /\ Cardinality(S) \in Nat
<1>1. IsFiniteSet(Slots)
  BY SymbolsAssumption, FS_Interval DEF Slots
<1> QED
  BY <1>1, FS_Subset, FS_CardinalityType

LEMMA Marked ==
  ASSUME NEW S \in SUBSET Slots, NEW i \in Slots
  PROVE  /\ i \notin S => Cardinality(S \cup {i}) = Cardinality(S) + 1
         /\ i \in S => Cardinality(S \ {i}) = Cardinality(S) - 1
         /\ i \in S => Cardinality(S) > 0
         /\ i \in S => S \cup {i} = S
         /\ i \notin S => S \ {i} = S
<1>1. IsFiniteSet(S) /\ Cardinality(S) \in Nat
  BY SlotsFinite
<1>2. i \notin S => Cardinality(S \cup {i}) = Cardinality(S) + 1
  BY <1>1, FS_AddElement
<1>3. i \in S => Cardinality(S \ {i}) = Cardinality(S) - 1
  BY <1>1, FS_RemoveElement
<1>4. i \in S => S # {}
  OBVIOUS
<1>5. i \in S => Cardinality(S) > 0
  BY <1>1, <1>4, FS_EmptySet
<1> QED
  BY <1>2, <1>3, <1>5

LEMMA SlotType ==
  ASSUME NEW s \in Int
  PROVE  Slot(s) \in Slots /\ (s >= 0 => Slot(s) <= s)
<1>1. s % Symbols \in 0 .. Symbols - 1
  BY SymbolsAssumption
<1>2. s >= 0 => s % Symbols <= s
  BY SymbolsAssumption
<1> QED
  BY <1>1, <1>2 DEF Slot, Slots

(* The encoder of the initial states.                                      *)
LEMMA EncStartOk ==
  ASSUME opt \in Options
  PROVE  EncOk(EncStart)
<1> DEFINE e == EncStart
<1>1. ValidRate(opt.rc) /\ opt.memory \in Nat
  BY OptionsAssumption DEF ValidOptions, ValidEnds
<1>2. EncRate(opt.rc)
  <2>1. ASSUME NEW a \in Nat \ {0}, NEW b \in Nat PROVE EncRate(DualInit(a, b))
    BY DEF EncRate, DualRate, DualInit
  <2>2. ASSUME NEW a \in Nat PROVE EncRate(CreditInit(Symbols, a))
    BY SymbolsAssumption DEF EncRate, CreditRate, CreditInit
  <2>3. CASE IsDual(opt.rc)
    BY <1>1, <2>1, <2>3 DEF ValidRate
  <2>4. CASE ~IsDual(opt.rc)
    BY <1>1, <2>2, <2>4 DEF ValidRate
  <2> QED
    BY <2>3, <2>4
<1>3. ~IsDual(opt.rc) => opt.rc.counter = 0
  BY <1>1 DEF ValidRate, CreditInit
<1>4. [k \in 1 .. opt.memory |-> 0] \in Seq(Nat)
  BY <1>1
<1>5. [i \in Slots |-> 0] \in [Slots -> Nat] /\ [i \in Slots |-> 0] \in [Slots -> 0 .. Unlimited]
  BY DEF Unlimited
<1>6. EncShape(e)
  BY DEF EncStart, EncShape, EncFields
<1>7. EncParts(e)
  BY <1>2, <1>4, <1>5 DEF EncStart, EncParts, Unlimited
<1>8. Cardinality({}) = 0
  BY FS_EmptySet
<1>9. EncCounts(e)
  BY <1>3, <1>8, SymbolsAssumption DEF EncStart, EncCounts
<1> QED
  BY <1>6, <1>7, <1>9 DEF EncOk

(* What the rate control leaves.                                           *)
LEMMA RateFacts ==
  ASSUME NEW rc, EncRate(rc)
  PROVE  /\ rc \in DualRate \cup CreditRate
         /\ IsDual(rc) => /\ rc \in DualRate
                          /\ rc.source_counter = 0 => rc.repair_counter > 0
         /\ ~IsDual(rc) => /\ rc \in CreditRate /\ rc.redundancy >= 0
                           /\ ~rc.advance_use /\ rc.max_symbols = Symbols
                           /\ rc.counter \in Nat
BY DEF EncRate, DualRate, CreditRate, IsDual

LEMMA InsertRate ==
  ASSUME NEW rc, EncRate(rc), NEW again \in BOOLEAN
  PROVE  /\ EncRate(Insert(rc, again)) /\ (IsDual(Insert(rc, again)) <=> IsDual(rc))
         /\ ~IsDual(rc) => Insert(rc, again).counter >= rc.counter + Symbols
<1>1. CASE IsDual(rc)
  BY <1>1 DEF Insert
<1>2. CASE ~IsDual(rc)
  <2>1. rc \in CreditRate /\ rc.redundancy >= 0 /\ ~rc.advance_use /\ rc.max_symbols = Symbols
    BY <1>2, RateFacts
  <2>2. Insert(rc, again) = [rc EXCEPT !.counter =
           IF again THEN @ + Symbols ELSE @ + Symbols + rc.redundancy]
    BY <1>2, <2>1 DEF Insert
  <2>3. Insert(rc, again) \in CreditRate /\ Insert(rc, again).redundancy >= 0
        /\ ~Insert(rc, again).advance_use
        /\ Insert(rc, again).counter >= rc.counter + Symbols
    BY <2>1, <2>2, SymbolsAssumption DEF CreditRate
  <2> QED
    BY <1>2, <2>3 DEF EncRate, IsDual, CreditRate
<1> QED
  BY <1>1, <1>2

(* A table with one entry changed is a table still.                        *)
LEMMA WithEntry ==
  ASSUME NEW D, NEW S, NEW f \in [D -> S], NEW i, NEW v \in S
  PROVE  [f EXCEPT ![i] = v] \in [D -> S]
OBVIOUS

LEMMA EncPutSourceOk ==
  ASSUME opt \in Options, NEW e, EncOk(e)
  PROVE  EncOk(EncPutSource(e)) /\ EncPutSource(e).seq = e.seq + 1
<1> DEFINE i == EncIndex(e)
           n == EncPutSource(e)
<1>0. EncShape(e) /\ EncParts(e) /\ EncCounts(e)
  BY DEF EncOk
<1>1. opt.tx \in 1 .. Unlimited /\ opt.code_window \in Int
  BY OptionsAssumption, SymbolsAssumption DEF ValidOptions, ValidEnds
<1>2. i \in Slots /\ i <= e.seq
  <2>1. e.seq \in Nat
    BY <1>0 DEF EncParts
  <2> QED
    BY <2>1, SlotType DEF EncIndex
<1>3. EncShape(n)
  BY <1>0, ZenonT(40) DEF EncShape, EncPutSource, EncFields
<1>4. /\ n.seq = e.seq + 1 /\ n.systematic = e.systematic \cup {i}
      /\ n.enabled = (e.enabled \ {Slot(e.seq - opt.code_window)}) \cup {i}
      /\ n.source_symbols = IF i \in e.systematic THEN e.source_symbols ELSE e.source_symbols + 1
      /\ n.tx_attempts = [e.tx_attempts EXCEPT ![i] = opt.tx]
      /\ n.flush_attempts = opt.tx - 1 /\ n.rc = Insert(e.rc, FALSE) /\ n.timer = FALSE
      /\ n.failed = e.failed /\ n.systematic_time = e.systematic_time
      /\ n.packet_count = e.packet_count /\ n.first_missing = e.first_missing
      /\ n.coded_time = e.coded_time /\ n.flush_next = e.flush_next
      /\ n.coded_packets = e.coded_packets
  BY <1>0 DEF EncShape, EncPutSource, EncFields
<1> HIDE DEF n, i
<1>5. EncRate(n.rc) /\ (IsDual(n.rc) <=> IsDual(e.rc))
      /\ (~IsDual(n.rc) => n.rc.counter >= e.rc.counter + Symbols)
  <2>1. EncRate(e.rc)
    BY <1>0 DEF EncParts
  <2>2. /\ EncRate(Insert(e.rc, FALSE)) /\ (IsDual(Insert(e.rc, FALSE)) <=> IsDual(e.rc))
        /\ ~IsDual(e.rc) => Insert(e.rc, FALSE).counter >= e.rc.counter + Symbols
    BY <2>1, InsertRate
  <2> QED
    BY <1>4, <2>2
<1>6. EncParts(n)
  <2>1. n.tx_attempts \in [Slots -> 0 .. Unlimited]
    <3>1. e.tx_attempts \in [Slots -> 0 .. Unlimited]
      BY <1>0 DEF EncParts
    <3>2. opt.tx \in 0 .. Unlimited
      BY <1>1 DEF Unlimited
    <3> QED
      BY <1>4, <3>1, <3>2, WithEntry
  <2>2. n.flush_attempts \in 0 .. Unlimited - 1
    BY <1>1, <1>4 DEF Unlimited
  <2>3. /\ n.seq \in Nat /\ n.enabled \subseteq Slots /\ n.systematic \subseteq Slots
        /\ n.source_symbols \in Nat
    <3>1. e.seq \in Nat /\ e.enabled \subseteq Slots /\ e.systematic \subseteq Slots
          /\ e.source_symbols \in Nat
      BY <1>0 DEF EncParts
    <3> QED
      BY <1>2, <1>4, <3>1
  <2> QED
    BY <1>0, <1>4, <1>5, <2>1, <2>2, <2>3 DEF EncParts
<1>7. n.source_symbols = Cardinality(n.systematic)
  <2>1. e.systematic \in SUBSET Slots /\ e.source_symbols = Cardinality(e.systematic)
    BY <1>0 DEF EncParts, EncCounts
  <2>2. CASE i \in e.systematic
    BY <1>2, <1>4, <2>1, <2>2, Marked
  <2>3. CASE i \notin e.systematic
    BY <1>2, <1>4, <2>1, <2>3, Marked
  <2> QED
    BY <2>2, <2>3
<1>8. ~IsDual(n.rc) => n.rc.counter >= n.source_symbols * Symbols
  <2> DEFINE s == e.source_symbols
  <2>1. s \in Nat /\ (n.source_symbols = s \/ n.source_symbols = s + 1)
    BY <1>0, <1>4 DEF EncParts
  <2>2. s * Symbols \in Nat /\ (s + 1) * Symbols = s * Symbols + Symbols
    BY <2>1, SymbolsAssumption
  <2>3. ~IsDual(n.rc) => n.rc.counter \in Nat /\ e.rc.counter \in Nat
                         /\ e.rc.counter >= s * Symbols
    BY <1>0, <1>5, RateFacts DEF EncParts, EncCounts
  <2> QED
    BY <1>5, <2>1, <2>2, <2>3, SymbolsAssumption
<1>9. EncCounts(n)
  <2>1. \A j \in Slots : j \in Nat
    BY SymbolsAssumption DEF Slots
  <2>2. ASSUME NEW j \in Slots
        PROVE  /\ n.tx_attempts[j] = IF j = i THEN opt.tx ELSE e.tx_attempts[j]
               /\ n.tx_attempts[j] > 0 => j < n.seq
               /\ n.systematic_time[j] <= n.packet_count
    <3>1. n.tx_attempts[j] = IF j = i THEN opt.tx ELSE e.tx_attempts[j]
      BY <1>0, <1>4 DEF EncParts
    <3>2. e.tx_attempts[j] > 0 => j < e.seq
      BY <1>0 DEF EncCounts
    <3>3. e.seq \in Nat /\ e.systematic_time[j] <= e.packet_count
      BY <1>0 DEF EncParts, EncCounts
    <3> QED
      BY <1>2, <1>4, <2>1, <3>1, <3>2, <3>3
  <2>3. ASSUME NEW j \in n.enabled PROVE j < n.seq
    <3>1. j = i \/ (j \in Slots /\ j < e.seq)
      BY <1>0, <1>4 DEF EncParts, EncCounts
    <3>2. e.seq \in Nat
      BY <1>0 DEF EncParts
    <3> QED
      BY <1>2, <1>4, <2>1, <3>1, <3>2
  <2>4. ASSUME NEW j \in n.systematic PROVE n.tx_attempts[j] > 0
    <3>1. j = i \/ (j \in Slots /\ j \in e.systematic /\ e.tx_attempts[j] > 0)
      BY <1>0, <1>4 DEF EncParts, EncCounts
    <3> QED
      BY <1>1, <1>2, <2>2, <3>1
  <2> QED
    BY <1>7, <1>8, <2>2, <2>3, <2>4 DEF EncCounts
<1>10. EncOk(n) /\ n.seq = e.seq + 1
  BY <1>3, <1>4, <1>6, <1>9 DEF EncOk
<1> QED
  BY <1>10 DEF n

-----------------------------------------------------------------------------
(* The window of a coder: every slot holds one symbol of it.               *)
LEMMA SymbolAtSlot ==
  ASSUME NEW seq \in Int, NEW i \in Slots
  PROVE  /\ SymbolAt(seq, i) \in WindowOf(seq)
         /\ SymbolAt(seq, i) \in Int
         /\ Slot(SymbolAt(seq, i)) = i
<1> DEFINE d == (seq - 1 - i) % Symbols
           s == seq - 1 - d
<1>1. i \in 0 .. Symbols - 1 /\ i \in Int /\ Symbols \in Nat \ {0}
  BY SymbolsAssumption DEF Slots
<1>2. d \in 0 .. Symbols - 1
  BY <1>1, ModRange
<1>3. PICK q \in Int : seq - 1 - i = Symbols * q + d
  <2>1. \A c \in Int : \E q \in Int : c = Symbols * q + (c % Symbols)
    BY <1>1, ModRange
  <2>2. seq - 1 - i \in Int
    BY <1>1
  <2> QED
    BY <2>1, <2>2
<1>4. s = Symbols * q + i
  <2> HIDE DEF d
  <2> QED
    BY <1>1, <1>2, <1>3
<1>5. s \in WindowOf(seq) /\ s \in Int
  <2> HIDE DEF d
  <2> QED
    BY <1>1, <1>2 DEF WindowOf
<1>6. Slot(s) = i
  BY <1>1, <1>4, ModUnique DEF Slot
<1> HIDE DEF s
<1>7. SymbolAt(seq, i) \in WindowOf(seq) /\ Slot(SymbolAt(seq, i)) = i
  BY <1>5, <1>6 DEF SymbolAt
<1> QED
  BY <1>1, <1>7 DEF WindowOf

LEMMA SlotSymbol ==
  ASSUME NEW seq \in Int, NEW s \in Int, s \in WindowOf(seq)
  PROVE  SymbolAt(seq, Slot(s)) = s
<1> DEFINE t == SymbolAt(seq, Slot(s))
<1>1. Slot(s) \in Slots
  BY SlotType
<1>2. t \in WindowOf(seq) /\ t \in Int /\ Slot(t) = Slot(s)
  BY <1>1, SymbolAtSlot
<1> HIDE DEF t
<1>3. t - s < Symbols /\ s - t < Symbols
  BY <1>2, SymbolsAssumption DEF WindowOf
<1>4. t = s
  BY <1>2, <1>3, ModApart, SymbolsAssumption DEF Slot
<1> QED
  BY <1>4 DEF t

(* A slot holds a symbol that was put in, if its index is low enough.      *)
LEMMA SymbolAtNat ==
  ASSUME NEW seq \in Nat, NEW i \in Slots
  PROVE  i < seq <=> SymbolAt(seq, i) >= 0
<1> DEFINE s == SymbolAt(seq, i)
<1>1. s \in WindowOf(seq) /\ s \in Int /\ Slot(s) = i
  BY SymbolAtSlot
<1>2. i \in 0 .. Symbols - 1 /\ Symbols \in Nat \ {0}
  BY SymbolsAssumption DEF Slots
<1> HIDE DEF s
<1>3. s < seq /\ s >= seq - Symbols
  BY <1>1, <1>2 DEF WindowOf
<1>4. s >= 0 => i <= s
  BY <1>1, SlotType
<1>5. ASSUME i < seq, s < 0 PROVE FALSE
  <2>1. s >= seq - Symbols /\ s \in Int /\ Symbols \in Int
    BY <1>1, <1>2, <1>3
  <2>2. s + Symbols \in 0 .. Symbols - 1
    BY <1>5, <2>1
  <2>3. (s + Symbols) % Symbols = s % Symbols
    BY <1>1, <1>2, ModShift
  <2>4. (s + Symbols) % Symbols = s + Symbols
    BY <1>2, <2>2, ModUnique, (s + Symbols) = Symbols * 0 + (s + Symbols)
  <2>5. i = s + Symbols
    BY <1>1, <2>3, <2>4 DEF Slot
  <2> QED
    BY <1>1, <1>2, <1>3, <1>5, <2>5
<1>6. s < 0 => ~ (i < seq)
  BY <1>5
<1>7. i < seq <=> s >= 0
  BY <1>1, <1>2, <1>3, <1>4, <1>6
<1> QED
  BY <1>7 DEF s

(* The oldest marked symbol.                                               *)
LEMMA NextSystematic ==
  ASSUME NEW e, e.seq \in Nat, e.systematic \in SUBSET Slots, e.systematic # {}
  PROVE  EncNextSystematic(e) \in e.systematic
<1> DEFINE seq == e.seq
           S == e.systematic
           age == {SymbolAt(seq, i) - (seq - Symbols) : i \in S}
<1>1. \A i \in S : SymbolAt(seq, i) \in Int /\ SymbolAt(seq, i) >= seq - Symbols
  <2> SUFFICES ASSUME NEW i \in S
               PROVE  SymbolAt(seq, i) \in Int /\ SymbolAt(seq, i) >= seq - Symbols
    OBVIOUS
  <2>1. SymbolAt(seq, i) \in WindowOf(seq) /\ SymbolAt(seq, i) \in Int
    BY SymbolAtSlot
  <2> QED
    BY <2>1, SymbolsAssumption DEF WindowOf
<1>2. age \in SUBSET Nat /\ age # {}
  BY <1>1, SymbolsAssumption
<1>3. Min(age) \in age /\ \A x \in age : Min(age) <= x
  <2> HIDE DEF age
  <2> QED
    BY <1>2, MinProperty
<1>4. PICK i \in S : \A x \in age : SymbolAt(seq, i) - (seq - Symbols) <= x
  BY <1>3
<1>5. \A j \in S : SymbolAt(seq, i) - (seq - Symbols) <= SymbolAt(seq, j) - (seq - Symbols)
  BY <1>4
<1>6. \A j \in S : SymbolAt(seq, i) <= SymbolAt(seq, j)
  BY <1>1, <1>5, SymbolsAssumption
<1> QED
  BY <1>6 DEF EncNextSystematic


(* One packet is taken.                                                    *)
LEMMA StepRate ==
  ASSUME NEW rc, EncRate(rc), NEW s \in Nat, s > 0 \/ NextRepair(rc, s),
         ~IsDual(rc) => rc.counter >= s * Symbols
  PROVE  /\ EncRate(Step(rc)) /\ (IsDual(Step(rc)) <=> IsDual(rc))
         /\ ~IsDual(rc) /\ NextRepair(rc, s) => s = 0
         /\ ~IsDual(rc) => Step(rc).counter \in Nat
         /\ ~IsDual(rc) /\ ~NextRepair(rc, s) => Step(rc).counter >= (s - 1) * Symbols
<1>1. CASE IsDual(rc)
  <2>1. rc \in DualRate /\ (rc.source_counter = 0 => rc.repair_counter > 0)
    BY <1>1, RateFacts
  <2>2. Step(rc) = DualStep(rc)
    BY <1>1 DEF Step
  <2>3. CASE rc.source_counter = 0
    <3> DEFINE left == rc.repair_counter - 1
    <3>1. DualStep(rc) = [rc EXCEPT !.repair_counter = left,
                            !.source_counter = IF left = 0 THEN rc.source_phase ELSE @]
      BY <2>3 DEF DualStep
    <3>2. left \in Nat /\ rc.source_phase \in Nat \ {0} /\ rc.algo = "dual"
      BY <2>1, <2>3 DEF DualRate
    <3> HIDE DEF left
    <3>3. DualStep(rc) \in DualRate
      BY <2>1, <2>3, <3>1, <3>2 DEF DualRate
    <3>4. DualStep(rc).source_counter = 0 => DualStep(rc).repair_counter > 0
      BY <2>1, <2>3, <3>1, <3>2 DEF DualRate
    <3> QED
      BY <1>1, <2>2, <3>3, <3>4 DEF EncRate, IsDual, DualRate
  <2>4. CASE rc.source_counter # 0 /\ rc.repair_phase = 0
    <3>1. DualStep(rc) = rc
      BY <2>4 DEF DualStep
    <3> QED
      BY <1>1, <2>2, <3>1
  <2>5. CASE rc.source_counter # 0 /\ rc.repair_phase # 0
    <3> DEFINE more == rc.source_counter - 1
    <3>1. DualStep(rc) = [rc EXCEPT !.source_counter = more,
                            !.repair_counter = IF more = 0 THEN rc.repair_phase ELSE @]
      BY <2>5 DEF DualStep
    <3>2. more \in Nat /\ rc.repair_phase \in Nat \ {0} /\ rc.algo = "dual"
      BY <2>1, <2>5 DEF DualRate
    <3> HIDE DEF more
    <3>3. DualStep(rc) \in DualRate
      BY <2>1, <3>1, <3>2 DEF DualRate
    <3>4. DualStep(rc).source_counter = 0 => DualStep(rc).repair_counter > 0
      BY <2>1, <3>1, <3>2 DEF DualRate
    <3> QED
      BY <1>1, <2>2, <3>3, <3>4 DEF EncRate, IsDual, DualRate
  <2> QED
    BY <2>3, <2>4, <2>5
<1>2. CASE ~IsDual(rc)
  <2>1. rc \in CreditRate /\ rc.redundancy >= 0 /\ ~rc.advance_use
        /\ rc.max_symbols = Symbols /\ rc.counter \in Nat
    BY <1>2, RateFacts
  <2>2. Step(rc) = [rc EXCEPT !.counter = @ - Symbols]
    BY <1>2, <2>1 DEF Step
  <2>3. NextRepair(rc, s) => s = 0 /\ rc.counter >= Symbols
    BY <1>2, <2>1 DEF NextRepair
  <2>4. ~NextRepair(rc, s) => rc.counter - Symbols >= (s - 1) * Symbols
    <3>1. (s - 1) * Symbols = s * Symbols - Symbols
      BY SymbolsAssumption
    <3>2. s * Symbols \in Int
      BY SymbolsAssumption
    <3> QED
      BY <1>2, <2>1, <3>1, <3>2, SymbolsAssumption
  <2>5. rc.counter - Symbols \in Nat
    <3>1. CASE NextRepair(rc, s)
      BY <2>1, <2>3, <3>1, SymbolsAssumption
    <3>2. CASE ~NextRepair(rc, s)
      <4>1. (s - 1) * Symbols \in Nat
        BY <3>2, SymbolsAssumption
      <4> QED
        BY <2>1, <2>4, <3>2, <4>1, SymbolsAssumption
    <3> QED
      BY <3>1, <3>2
  <2>6. Step(rc) \in CreditRate /\ Step(rc).redundancy >= 0 /\ ~Step(rc).advance_use
        /\ Step(rc).counter = rc.counter - Symbols /\ Step(rc).algo = "credit"
    BY <2>1, <2>2, <2>5 DEF CreditRate
  <2> QED
    BY <1>2, <2>3, <2>4, <2>5, <2>6 DEF EncRate, IsDual
<1> QED
  BY <1>1, <1>2

(* What a systematic packet changes.                                       *)
LEMMA SentFields ==
  ASSUME NEW took, EncShape(took), NEW no, NEW i, NEW sent, i = EncNextSystematic(took),
    took.systematic # {},
   sent = EncSendSystematic(took, no)
  PROVE /\ DOMAIN sent = EncFields
        /\ \A x \in EncFields \ {"systematic", "source_symbols", "systematic_time",
                              "coded_time", "tx_attempts", "failed"} : sent[x] = took[x]
        /\ sent.systematic = took.systematic \ {i} /\ sent.source_symbols = took.source_symbols - 1
        /\ sent.systematic_time = [took.systematic_time EXCEPT ![i] = no]
        /\ sent.coded_time = [took.coded_time EXCEPT ![i] = no]
        /\ sent.tx_attempts = [took.tx_attempts EXCEPT ![i] =
                                 IF opt.tx = Unlimited THEN @ ELSE @ - 1]
        /\ sent.failed = (took.failed \/ took.tx_attempts[i] = 0)
<1>1. sent = [took EXCEPT
             !.systematic = @ \ {i},
             !.source_symbols = @ - 1,
             !.systematic_time[i] = no,
             !.coded_time[i] = no,
             !.tx_attempts[i] = IF opt.tx = Unlimited THEN @ ELSE @ - 1,
             !.failed = @ \/ took.tx_attempts[i] = 0]
  BY DEF EncSendSystematic
<1> DEFINE s4 == [took EXCEPT
             !.systematic = @ \ {i},
             !.source_symbols = @ - 1,
             !.systematic_time[i] = no,
             !.coded_time[i] = no]
<1>2. /\ EncShape(s4)
      /\ s4.systematic = took.systematic \ {i} /\ s4.source_symbols = took.source_symbols - 1
      /\ s4.systematic_time = [took.systematic_time EXCEPT ![i] = no]
      /\ s4.coded_time = [took.coded_time EXCEPT ![i] = no]
      /\ s4.tx_attempts = took.tx_attempts /\ s4.failed = took.failed
      /\ \A x \in EncFields \ {"systematic", "source_symbols", "systematic_time",
                            "coded_time", "tx_attempts", "failed"} : s4[x] = took[x]
  BY DEF EncShape, EncFields
<1> DEFINE b == took.tx_attempts[i] = 0
<1>3. sent = [s4 EXCEPT !.tx_attempts[i] = IF opt.tx = Unlimited THEN @ ELSE @ - 1,
             !.failed = @ \/ b]
  BY <1>1
<1> HIDE DEF s4, b
<1>4. \A x \in EncFields \ {"failed", "tx_attempts"} : sent[x] = s4[x]
  BY <1>2, <1>3 DEF EncShape, EncFields
<1>5. DOMAIN sent = EncFields
  BY <1>2, <1>3 DEF EncShape
<1>6. sent.tx_attempts = [s4.tx_attempts EXCEPT ![i] =
                            IF opt.tx = Unlimited THEN @ ELSE @ - 1]
  BY <1>2, <1>3 DEF EncShape, EncFields
<1>7. sent.failed = (s4.failed \/ b)
  BY <1>2, <1>3 DEF EncShape, EncFields
<1> QED
  BY <1>2, <1>4, <1>5, <1>6, <1>7 DEF EncFields, b
LEMMA EncGetCodedOk ==
  ASSUME opt \in Options, NEW e, EncOk(e), EncHasCoded(e)
  PROVE  EncOk(EncGetCoded(e)) /\ EncGetCoded(e).seq = e.seq
<1> DEFINE n == EncGetCoded(e)
           no == e.packet_count + 1
           i == EncNextSystematic(e)
<1>0. EncShape(e) /\ EncParts(e) /\ EncCounts(e)
  BY DEF EncOk
<1>1. opt.tx \in 1 .. Unlimited
  BY OptionsAssumption DEF ValidOptions, ValidEnds
<1>2. /\ EncRate(Step(e.rc)) /\ (IsDual(Step(e.rc)) <=> IsDual(e.rc))
      /\ ~IsDual(e.rc) /\ EncRepairNext(e) => e.source_symbols = 0
      /\ ~IsDual(e.rc) => Step(e.rc).counter \in Nat
      /\ ~IsDual(e.rc) /\ ~EncRepairNext(e)
           => Step(e.rc).counter >= (e.source_symbols - 1) * Symbols
  <2> DEFINE s == e.source_symbols
             rc == e.rc
  <2>1. s \in Nat /\ EncRate(rc) /\ (~IsDual(rc) => rc.counter >= s * Symbols)
    BY <1>0 DEF EncParts, EncCounts
  <2>2. s > 0 \/ NextRepair(rc, s)
    BY DEF EncHasCoded
  <2> HIDE DEF s, rc
  <2>3. /\ EncRate(Step(rc)) /\ (IsDual(Step(rc)) <=> IsDual(rc))
        /\ ~IsDual(rc) /\ NextRepair(rc, s) => s = 0
        /\ ~IsDual(rc) => Step(rc).counter \in Nat
        /\ ~IsDual(rc) /\ ~NextRepair(rc, s) => Step(rc).counter >= (s - 1) * Symbols
    BY <2>1, <2>2, StepRate
  <2> QED
    BY <2>3 DEF EncRepairNext, s, rc
<1>3. ~EncRepairNext(e) => i \in e.systematic /\ i \in Slots /\ e.systematic # {}
  <2>1. e.source_symbols \in Nat /\ e.systematic \in SUBSET Slots
        /\ e.source_symbols = Cardinality(e.systematic) /\ e.seq \in Nat
    BY <1>0 DEF EncParts, EncCounts
  <2>2. ~EncRepairNext(e) => e.source_symbols > 0
    BY DEF EncHasCoded, EncRepairNext
  <2>3. ~EncRepairNext(e) => e.systematic # {}
    BY <2>1, <2>2, FS_EmptySet
  <2> QED
    BY <2>1, <2>3, NextSystematic
<1> DEFINE took == [e EXCEPT !.packet_count = no, !.rc = Step(@), !.flush_next = FALSE]
           sent == IF EncRepairNext(e) THEN EncSendRepair(took, no)
                   ELSE EncSendSystematic(took, no)
<1>31. /\ EncShape(took) /\ took.packet_count = no /\ took.rc = Step(e.rc)
       /\ took.flush_next = FALSE
       /\ \A x \in EncFields \ {"packet_count", "rc", "flush_next"} : took[x] = e[x]
  BY <1>0 DEF EncShape, EncFields
<1>32. n = [sent EXCEPT !.timer = @ \/ (opt.enc_timeout /\ ~EncHasCoded(sent))]
  BY DEF EncGetCoded
<1>33. ~EncRepairNext(e) => i = EncNextSystematic(took)
  <2> HIDE DEF took
  <2> QED
    BY <1>31 DEF EncNextSystematic, EncFields
<1>34. DOMAIN sent = EncFields
  <2> HIDE DEF took
  <2>1. DOMAIN EncSendRepair(took, no) = EncFields
    BY <1>31 DEF EncShape, EncSendRepair, EncFields
  <2>2. DOMAIN EncSendSystematic(took, no) = EncFields
    BY <1>31 DEF EncShape, EncSendSystematic, EncFields
  <2> QED
    BY <2>1, <2>2
<1>4. EncShape(n) /\ \A x \in EncFields \ {"timer"} : n[x] = sent[x]
  <2> HIDE DEF n, sent
  <2>1. n = [sent EXCEPT !.timer = n.timer]
    BY <1>32, <1>34 DEF EncFields
  <2>2. n = [x \in EncFields |-> IF x = "timer" THEN n.timer ELSE sent[x]]
    BY <1>34, <2>1
  <2> QED
    BY <2>2 DEF EncShape
<1>5. n.timer \in BOOLEAN
  <2> HIDE DEF sent, n
  <2>1. n.timer = (sent.timer \/ (opt.enc_timeout /\ ~EncHasCoded(sent)))
    BY <1>32, <1>34 DEF EncFields
  <2> QED
    BY <2>1
<1>6. no \in Nat /\ no > e.packet_count /\ \A j \in Slots : e.systematic_time[j] <= no
  <2>1. e.packet_count \in Nat /\ \A j \in Slots : e.systematic_time[j] <= e.packet_count
        /\ e.systematic_time[j] \in Nat
    BY <1>0 DEF EncParts, EncCounts
  <2> QED
    BY <2>1
<1>7. CASE EncRepairNext(e)
  <2>1. /\ \A x \in EncFields \ {"packet_count", "rc", "flush_next", "timer", "coded_time",
                              "coded_packets"} : n[x] = e[x]
        /\ n.packet_count = no /\ n.rc = Step(e.rc) /\ n.flush_next = FALSE
        /\ n.coded_time = [j \in Slots |-> IF j \in e.enabled THEN no ELSE e.coded_time[j]]
        /\ n.coded_packets = IF e.coded_packets = <<>> THEN e.coded_packets
                             ELSE Append(Tail(e.coded_packets), no)
    <3>1. sent = EncSendRepair(took, no)
      BY <1>7
    <3> HIDE DEF n, sent, took
    <3>2. /\ \A x \in EncFields \ {"coded_time", "coded_packets"} : sent[x] = took[x]
          /\ sent.coded_time = [j \in Slots |-> IF j \in took.enabled THEN no
                                              ELSE took.coded_time[j]]
          /\ sent.coded_packets = IF took.coded_packets = <<>> THEN took.coded_packets
                                  ELSE Append(Tail(took.coded_packets), no)
      BY <1>31, <3>1 DEF EncShape, EncSendRepair, EncFields
    <3> HIDE DEF no
    <3> QED
      BY <1>31, <1>4, <3>2 DEF EncFields
  <2>2. /\ n.systematic = e.systematic /\ n.source_symbols = e.source_symbols
        /\ n.systematic_time = e.systematic_time /\ n.tx_attempts = e.tx_attempts
        /\ n.failed = e.failed /\ n.seq = e.seq /\ n.enabled = e.enabled
        /\ n.first_missing = e.first_missing /\ n.flush_attempts = e.flush_attempts
    <3> HIDE DEF n, no
    <3> QED
      BY <2>1 DEF EncFields
  <2> HIDE DEF n, no
  <2>3. n.coded_packets \in Seq(Nat)
    <3>1. e.coded_packets \in Seq(Nat)
      BY <1>0 DEF EncParts
    <3> QED
      BY <1>6, <2>1, <3>1
  <2>4. n.coded_time \in [Slots -> Nat]
    <3>1. e.coded_time \in [Slots -> Nat]
      BY <1>0 DEF EncParts
    <3> QED
      BY <1>6, <2>1, <3>1
  <2>5. EncParts(n)
    BY <1>0, <1>2, <1>5, <1>6, <2>1, <2>2, <2>3, <2>4 DEF EncParts
  <2>6. ~IsDual(n.rc) => n.rc.counter >= n.source_symbols * Symbols
    BY <1>2, <1>7, <2>1, <2>2, SymbolsAssumption
  <2>7. EncCounts(n)
    BY <1>0, <1>6, <2>1, <2>2, <2>6 DEF EncCounts
  <2>8. EncOk(n) /\ n.seq = e.seq
    BY <1>4, <2>2, <2>5, <2>7 DEF EncOk
  <2> QED
    BY <2>8 DEF n
<1>8. CASE ~EncRepairNext(e)
  <2>1. e.source_symbols > 0 /\ e.source_symbols \in Nat /\ e.systematic \in SUBSET Slots
        /\ e.source_symbols = Cardinality(e.systematic) /\ e.seq \in Nat
    BY <1>0, <1>8 DEF EncHasCoded, EncRepairNext, EncParts, EncCounts
  <2>2. e.systematic # {}
    BY <2>1, FS_EmptySet
  <2>3. i \in e.systematic /\ i \in Slots
    BY <2>1, <2>2, NextSystematic
  <2>4. e.tx_attempts[i] \in 1 .. Unlimited
    <3>1. e.tx_attempts \in [Slots -> 0 .. Unlimited]
      BY <1>0 DEF EncParts
    <3>2. e.tx_attempts[i] > 0
      BY <1>0, <2>3 DEF EncCounts
    <3> HIDE DEF i
    <3> QED
      BY <2>3, <3>1, <3>2 DEF Unlimited
  <2>5. /\ \A x \in EncFields \ {"packet_count", "rc", "flush_next", "timer", "systematic",
             "source_symbols", "systematic_time", "coded_time", "tx_attempts", "failed"} :
             n[x] = e[x]
        /\ n.packet_count = no /\ n.rc = Step(e.rc) /\ n.flush_next = FALSE
        /\ n.systematic = e.systematic \ {i} /\ n.source_symbols = e.source_symbols - 1
        /\ n.systematic_time = [e.systematic_time EXCEPT ![i] = no]
        /\ n.coded_time = [e.coded_time EXCEPT ![i] = no]
        /\ n.tx_attempts = [e.tx_attempts EXCEPT ![i] =
                              IF opt.tx = Unlimited THEN @ ELSE @ - 1]
        /\ n.failed = (e.failed \/ e.tx_attempts[i] = 0)
    <3>1. sent = EncSendSystematic(took, no)
      BY <1>8
    <3>2. i = EncNextSystematic(took)
      BY <1>8, <1>33
    <3> HIDE DEF n, sent, took, i
    <3>3. took.systematic # {}
      BY <1>31, <2>2 DEF EncFields
    <3>4. /\ \A x \in EncFields \ {"systematic", "source_symbols", "systematic_time",
                              "coded_time", "tx_attempts", "failed"} : sent[x] = took[x]
          /\ sent.systematic = took.systematic \ {i}
          /\ sent.source_symbols = took.source_symbols - 1
          /\ sent.systematic_time = [took.systematic_time EXCEPT ![i] = no]
          /\ sent.coded_time = [took.coded_time EXCEPT ![i] = no]
          /\ sent.tx_attempts = [took.tx_attempts EXCEPT ![i] =
                                   IF opt.tx = Unlimited THEN @ ELSE @ - 1]
          /\ sent.failed = (took.failed \/ took.tx_attempts[i] = 0)
      <4> HIDE DEF no
      <4> QED
        BY <1>31, <3>1, <3>2, <3>3, SentFields
    <3> HIDE DEF no
    <3>5. \A x \in EncFields \ {"packet_count", "rc", "flush_next", "timer", "systematic",
             "source_symbols", "systematic_time", "coded_time", "tx_attempts", "failed"} :
             n[x] = e[x]
      BY <1>31, <1>4, <3>4 DEF EncFields
    <3> QED
      BY <1>31, <1>4, <3>4, <3>5 DEF EncFields
  <2>51. /\ n.seq = e.seq /\ n.enabled = e.enabled /\ n.coded_packets = e.coded_packets
         /\ n.first_missing = e.first_missing /\ n.flush_attempts = e.flush_attempts
    <3> HIDE DEF n, no, i
    <3> QED
      BY <2>5 DEF EncFields
  <2> HIDE DEF n, no, i
  <2>6. n.tx_attempts \in [Slots -> 0 .. Unlimited]
    <3>1. e.tx_attempts \in [Slots -> 0 .. Unlimited]
      BY <1>0 DEF EncParts
    <3> QED
      BY <2>3, <2>4, <2>5, <3>1 DEF Unlimited
  <2>7. n.systematic_time \in [Slots -> Nat] /\ n.coded_time \in [Slots -> Nat]
    <3>1. e.systematic_time \in [Slots -> Nat] /\ e.coded_time \in [Slots -> Nat]
      BY <1>0 DEF EncParts
    <3> QED
      BY <1>6, <2>5, <3>1, WithEntry
  <2>8. n.failed = FALSE
    <3>1. e.failed = FALSE
      BY <1>0 DEF EncParts
    <3>2. ~ (e.failed \/ e.tx_attempts[i] = 0)
      BY <2>4, <3>1
    <3> QED
      BY <2>5, <3>2
  <2>9. n.source_symbols \in Nat /\ n.systematic \subseteq Slots
    BY <2>1, <2>5
  <2>10. EncParts(n)
    BY <1>0, <1>2, <1>5, <1>6, <2>5, <2>51, <2>6, <2>7, <2>8, <2>9 DEF EncParts
  <2>11. n.source_symbols = Cardinality(n.systematic)
    BY <2>1, <2>3, <2>5, Marked
  <2>12. ~IsDual(n.rc) => n.rc.counter >= n.source_symbols * Symbols
    BY <1>2, <1>8, <2>5
  <2>13. ASSUME NEW j \in Slots
         PROVE  /\ j \in n.systematic => n.tx_attempts[j] > 0
                /\ n.tx_attempts[j] > 0 => j < n.seq
                /\ n.systematic_time[j] <= n.packet_count
    <3>1. /\ j \in e.systematic => e.tx_attempts[j] > 0
          /\ e.tx_attempts[j] > 0 => j < e.seq
      BY <1>0 DEF EncCounts
    <3>2. e.tx_attempts \in [Slots -> 0 .. Unlimited] /\ e.systematic_time \in [Slots -> Nat]
      BY <1>0 DEF EncParts
    <3>3. CASE j = i
      BY <1>6, <2>51, <2>3, <2>4, <2>5, <3>1, <3>2, <3>3
    <3>4. CASE j # i
      BY <1>6, <2>51, <2>3, <2>5, <3>1, <3>2, <3>4
    <3> QED
      BY <3>3, <3>4
  <2>14. \A j \in n.enabled : j < n.seq
    BY <1>0, <2>51 DEF EncCounts
  <2>15. EncCounts(n)
    BY <2>9, <2>11, <2>12, <2>13, <2>14 DEF EncCounts
  <2>16. EncOk(n) /\ n.seq = e.seq
    BY <1>4, <2>51, <2>10, <2>15 DEF EncOk
  <2> QED
    BY <2>16 DEF n
<1> QED
  BY <1>7, <1>8


(* The newest symbol of a set of slots.                                    *)
LEMMA NewestSlot ==
  ASSUME NEW seq \in Nat, NEW S \in SUBSET Slots, S # {}
  PROVE  \E i \in S : \A j \in S : SymbolAt(seq, i) >= SymbolAt(seq, j)
<1> DEFINE age == {seq - SymbolAt(seq, i) : i \in S}
<1>1. \A i \in S : SymbolAt(seq, i) \in Int /\ SymbolAt(seq, i) < seq
  <2> SUFFICES ASSUME NEW i \in S
               PROVE  SymbolAt(seq, i) \in Int /\ SymbolAt(seq, i) < seq
    OBVIOUS
  <2>1. SymbolAt(seq, i) \in WindowOf(seq) /\ SymbolAt(seq, i) \in Int
    BY SymbolAtSlot
  <2> QED
    BY <2>1, SymbolsAssumption DEF WindowOf
<1>2. age \in SUBSET Nat /\ age # {}
  BY <1>1, SymbolsAssumption
<1>3. Min(age) \in age /\ \A x \in age : Min(age) <= x
  <2> HIDE DEF age
  <2> QED
    BY <1>2, MinProperty
<1>4. PICK i \in S : \A x \in age : seq - SymbolAt(seq, i) <= x
  BY <1>3
<1>5. \A j \in S : seq - SymbolAt(seq, i) <= seq - SymbolAt(seq, j)
  BY <1>4
<1>6. \A j \in S : SymbolAt(seq, i) >= SymbolAt(seq, j)
  BY <1>1, <1>5, SymbolsAssumption
<1> QED
  BY <1>6

(* A reset: one packet more, or the repair phase of the configuration.     *)
LEMMA ResetRate ==
  ASSUME NEW rc, EncRate(rc)
  PROVE  /\ EncRate(ResetSourceMin(rc)) /\ (IsDual(ResetSourceMin(rc)) <=> IsDual(rc))
         /\ ~IsDual(rc) => ResetSourceMin(rc).counter >= Symbols
         /\ EncRate(ResetSource(rc)) /\ (IsDual(ResetSource(rc)) <=> IsDual(rc))
         /\ ~IsDual(rc) => ResetSource(rc) = rc
         /\ HasRepair(rc) => /\ EncRate(ResetRepair(rc))
                             /\ IsDual(ResetRepair(rc)) <=> IsDual(rc)
         /\ ~IsDual(rc) => ResetRepair(rc).counter >= Symbols
<1>1. CASE IsDual(rc)
  <2>1. rc \in DualRate
    BY <1>1, RateFacts
  <2>2. ASSUME NEW p \in Nat \ {0}
        PROVE  /\ EncRate(DualReset(rc, FALSE, p)) /\ IsDual(DualReset(rc, FALSE, p))
               /\ EncRate(DualReset(rc, TRUE, p)) /\ IsDual(DualReset(rc, TRUE, p))
    <3>1. PICK a \in Nat \ {0}, b \in Nat, c \in Nat, d \in Nat :
               rc = [algo |-> "dual", source_phase |-> a, repair_phase |-> b,
                     source_counter |-> c, repair_counter |-> d]
      BY <2>1 DEF DualRate
    <3> DEFINE r(c1, d1) == [algo |-> "dual", source_phase |-> a, repair_phase |-> b,
                             source_counter |-> c1, repair_counter |-> d1]
    <3>2. DualReset(rc, FALSE, p) = r(p, 0)
      BY <3>1 DEF DualReset
    <3>3. DualReset(rc, TRUE, p) = r(0, p)
      BY <3>1 DEF DualReset
    <3>4. EncRate(r(p, 0)) /\ IsDual(r(p, 0))
      BY DEF EncRate, IsDual, DualRate
    <3>5. EncRate(r(0, p)) /\ IsDual(r(0, p))
      BY DEF EncRate, IsDual, DualRate
    <3> HIDE DEF r
    <3> QED
      BY <3>2, <3>3, <3>4, <3>5
  <2>3. rc.source_phase \in Nat \ {0} /\ rc.repair_phase \in Nat
    BY <2>1 DEF DualRate
  <2>4. HasRepair(rc) => rc.repair_phase \in Nat \ {0}
    BY <1>1, <2>3 DEF HasRepair
  <2>5. EncRate(ResetSourceMin(rc)) /\ IsDual(ResetSourceMin(rc))
    <3>1. ResetSourceMin(rc) = DualReset(rc, FALSE, 1)
      BY <1>1 DEF ResetSourceMin
    <3>2. 1 \in Nat \ {0}
      OBVIOUS
    <3>3. EncRate(DualReset(rc, FALSE, 1)) /\ IsDual(DualReset(rc, FALSE, 1))
      BY <2>2, <3>2, Zenon
    <3> QED
      BY <3>1, <3>3
  <2>6. EncRate(ResetSource(rc)) /\ IsDual(ResetSource(rc))
    BY <1>1, <2>2, <2>3 DEF ResetSource
  <2>7. HasRepair(rc) => EncRate(ResetRepair(rc)) /\ IsDual(ResetRepair(rc))
    BY <1>1, <2>2, <2>4 DEF ResetRepair
  <2> QED
    BY <1>1, <2>5, <2>6, <2>7
<1>2. CASE ~IsDual(rc)
  <2>1. rc \in CreditRate /\ rc.redundancy >= 0 /\ ~rc.advance_use
        /\ rc.max_symbols = Symbols /\ rc.counter \in Nat
    BY <1>2, RateFacts
  <2>2. CreditReset(rc) \in CreditRate /\ CreditReset(rc).redundancy >= 0
        /\ ~CreditReset(rc).advance_use /\ CreditReset(rc).counter >= Symbols
        /\ CreditReset(rc).algo = "credit"
    BY <2>1, SymbolsAssumption DEF CreditRate, CreditReset
  <2> QED
    BY <1>2, <2>2 DEF EncRate, IsDual, ResetSource, ResetSourceMin, ResetRepair
<1> QED
  BY <1>1, <1>2

(* Nothing to be sent: no slot is marked.                                  *)
LEMMA NothingMarked ==
  ASSUME NEW e, EncOk(e), ~EncHasCoded(e)
  PROVE  e.source_symbols = 0 /\ e.systematic = {}
<1>1. e.source_symbols \in Nat /\ e.source_symbols = Cardinality(e.systematic)
      /\ e.systematic \in SUBSET Slots
  BY DEF EncOk, EncParts, EncCounts
<1>2. e.source_symbols = 0
  BY <1>1 DEF EncHasCoded
<1>3. IsFiniteSet(e.systematic)
  BY <1>1, SlotsFinite
<1> QED
  BY <1>1, <1>2, <1>3, FS_EmptySet

LEMMA EncFreeSymbolsOk ==
  ASSUME NEW e, EncOk(e), e.source_symbols = 0, e.systematic = {}
  PROVE  EncOk(EncFreeSymbols(e)) /\ EncFreeSymbols(e).seq = e.seq
<1> DEFINE n == EncFreeSymbols(e)
           freed == {Slot(s) : s \in e.seq - EncRank(e) + 1 .. e.seq}
<1>0. EncShape(e) /\ EncParts(e) /\ EncCounts(e)
  BY DEF EncOk
<1>1. EncShape(n)
  BY <1>0 DEF EncShape, EncFreeSymbols, EncFields
<1>2. Cardinality(freed \cap e.systematic) = 0 /\ Cardinality({}) = 0
  BY FS_EmptySet, freed \cap e.systematic = {}
<1>3. /\ n.enabled = e.enabled \ freed /\ n.systematic = {}
      /\ n.tx_attempts = [i \in Slots |-> IF i \in freed THEN 0 ELSE e.tx_attempts[i]]
      /\ n.source_symbols = 0
  <2> HIDE DEF freed
  <2>1. EncFreeSymbols(e) =
          [e EXCEPT !.enabled = @ \ freed,
               !.systematic = @ \ freed,
               !.tx_attempts = [i \in Slots |-> IF i \in freed THEN 0 ELSE @[i]],
               !.source_symbols = 0]
    <3>1. e.source_symbols - Cardinality(freed \cap e.systematic) = 0
      BY <1>2
    <3> QED
      BY <3>1 DEF EncFreeSymbols, freed
  <2> QED
    BY <1>0, <2>1 DEF EncShape, EncFields
<1>4. /\ n.seq = e.seq /\ n.flush_attempts = e.flush_attempts /\ n.rc = e.rc
      /\ n.timer = e.timer /\ n.failed = e.failed /\ n.systematic_time = e.systematic_time
      /\ n.packet_count = e.packet_count /\ n.first_missing = e.first_missing
      /\ n.coded_time = e.coded_time /\ n.flush_next = e.flush_next
      /\ n.coded_packets = e.coded_packets
  BY <1>0 DEF EncShape, EncFreeSymbols, EncFields
<1> HIDE DEF n, freed
<1>5. n.tx_attempts \in [Slots -> 0 .. Unlimited]
  <2>1. e.tx_attempts \in [Slots -> 0 .. Unlimited]
    BY <1>0 DEF EncParts
  <2> QED
    BY <1>3, <2>1 DEF Unlimited
<1>6. EncParts(n)
  BY <1>0, <1>3, <1>4, <1>5 DEF EncParts
<1>7. EncCounts(n)
  <2>1. ASSUME NEW j \in Slots PROVE n.tx_attempts[j] > 0 => j < n.seq
    <3>1. e.tx_attempts[j] > 0 => j < e.seq
      BY <1>0 DEF EncCounts
    <3> QED
      BY <1>3, <1>4, <3>1
  <2>2. ASSUME NEW j \in n.enabled PROVE j < n.seq
    BY <1>0, <1>3, <1>4 DEF EncCounts
  <2>3. ~IsDual(n.rc) => n.rc.counter >= n.source_symbols * Symbols
    BY <1>0, <1>3, <1>4 DEF EncCounts
  <2>4. \A j \in Slots : n.systematic_time[j] <= n.packet_count
    BY <1>0, <1>4 DEF EncCounts
  <2> QED
    BY <1>2, <1>3, <2>1, <2>2, <2>3, <2>4 DEF EncCounts
<1>8. EncOk(n) /\ n.seq = e.seq
  BY <1>1, <1>4, <1>6, <1>7 DEF EncOk
<1> QED
  BY <1>8 DEF n

LEMMA EncSendNewestAgainOk ==
  ASSUME NEW e, EncOk(e), e.source_symbols = 0, e.systematic = {}
  PROVE  EncOk(EncSendNewestAgain(e)) /\ EncSendNewestAgain(e).seq = e.seq
<1> DEFINE left == {j \in Slots : e.tx_attempts[j] > 0}
           i == CHOOSE j \in left :
                   \A k \in left : SymbolAt(e.seq, j) >= SymbolAt(e.seq, k)
           n == EncSendNewestAgain(e)
<1>0. EncShape(e) /\ EncParts(e) /\ EncCounts(e)
  BY DEF EncOk
<1>1. CASE left = {}
  BY <1>1 DEF EncSendNewestAgain
<1>2. CASE left # {}
  <2>1. e.seq \in Nat /\ left \in SUBSET Slots
    BY <1>0 DEF EncParts
  <2>2. i \in left
    <3> HIDE DEF left
    <3>1. \E j \in left : \A k \in left : SymbolAt(e.seq, j) >= SymbolAt(e.seq, k)
      BY <1>2, <2>1, NewestSlot
    <3> QED
      BY <3>1
  <2>3. i \in Slots /\ e.tx_attempts[i] > 0 /\ i < e.seq
    <3> HIDE DEF i
    <3> QED
      BY <2>2, <1>0 DEF EncCounts
  <2>4. n = [e EXCEPT !.enabled = @ \cup {i},
                    !.systematic = @ \cup {i},
                    !.source_symbols = IF i \in e.systematic THEN @ ELSE @ + 1,
                    !.rc = ResetSourceMin(@)]
    BY <1>2 DEF EncSendNewestAgain
  <2> HIDE DEF n, i, left
  <2>5. EncShape(n)
    BY <1>0, <2>4 DEF EncShape, EncFields
  <2>6. /\ n.enabled = e.enabled \cup {i} /\ n.systematic = {i}
        /\ n.source_symbols = 1 /\ n.rc = ResetSourceMin(e.rc)
        /\ n.seq = e.seq /\ n.flush_attempts = e.flush_attempts
        /\ n.timer = e.timer /\ n.failed = e.failed /\ n.systematic_time = e.systematic_time
        /\ n.packet_count = e.packet_count /\ n.first_missing = e.first_missing
        /\ n.coded_time = e.coded_time /\ n.flush_next = e.flush_next
        /\ n.coded_packets = e.coded_packets /\ n.tx_attempts = e.tx_attempts
    BY <1>0, <2>4 DEF EncShape, EncFields
  <2>7. /\ EncRate(n.rc) /\ (IsDual(n.rc) <=> IsDual(e.rc))
        /\ ~IsDual(n.rc) => n.rc.counter >= Symbols
    <3>1. EncRate(e.rc)
      BY <1>0 DEF EncParts
    <3> QED
      BY <2>6, <3>1, ResetRate
  <2>8. EncParts(n)
    BY <1>0, <2>3, <2>6, <2>7 DEF EncParts
  <2>9. Cardinality({i}) = 1
    BY FS_Singleton
  <2>10. EncCounts(n)
    BY <1>0, <2>3, <2>6, <2>7, <2>9, SymbolsAssumption DEF EncCounts
  <2>11. EncOk(n) /\ n.seq = e.seq
    BY <2>5, <2>6, <2>8, <2>10 DEF EncOk
  <2> QED
    BY <2>11 DEF n
<1> QED
  BY <1>1, <1>2

(* Fields that the counters do not depend on, and a reset of the rate.     *)
LEMMA EncSameCounts ==
  ASSUME NEW e, EncOk(e), NEW n, EncShape(n),
         n.seq = e.seq, n.enabled = e.enabled, n.systematic = e.systematic,
         n.source_symbols = e.source_symbols, n.first_missing \in Nat,
         n.packet_count = e.packet_count, n.systematic_time = e.systematic_time,
         n.coded_time = e.coded_time, n.tx_attempts = e.tx_attempts,
         n.flush_attempts \in 0 .. Unlimited - 1, n.flush_next \in BOOLEAN,
         n.coded_packets = e.coded_packets, n.timer \in BOOLEAN, n.failed = e.failed,
         EncRate(n.rc), IsDual(n.rc) <=> IsDual(e.rc),
         ~IsDual(n.rc) => n.rc.counter >= n.source_symbols * Symbols
  PROVE  EncOk(n)
<1>0. EncParts(e) /\ EncCounts(e)
  BY DEF EncOk
<1>1. EncParts(n)
  BY <1>0 DEF EncParts
<1>2. EncCounts(n)
  BY <1>0 DEF EncCounts
<1> QED
  BY <1>1, <1>2 DEF EncOk

LEMMA EncFlushCodedOk ==
  ASSUME opt \in Options, NEW e, EncOk(e), ~EncHasCoded(e)
  PROVE  EncOk(EncFlushCoded(e)) /\ EncFlushCoded(e).seq = e.seq
<1> DEFINE go == [e EXCEPT !.flush_attempts = IF opt.tx = Unlimited THEN @ ELSE @ - 1,
                           !.flush_next = TRUE]
<1>0. EncShape(e) /\ EncParts(e) /\ EncCounts(e)
  BY DEF EncOk
<1>1. e.source_symbols = 0 /\ e.systematic = {}
  BY NothingMarked
<1>2. CASE EncRank(e) = 0 \/ e.enabled = {}
  BY <1>2 DEF EncFlushCoded
<1>3. CASE ~(EncRank(e) = 0 \/ e.enabled = {}) /\ e.flush_attempts = 0
  <2>1. EncFlushCoded(e) = EncFreeSymbols(e)
    BY <1>3 DEF EncFlushCoded
  <2> QED
    BY <1>1, <2>1, EncFreeSymbolsOk
<1>4. CASE ~(EncRank(e) = 0 \/ e.enabled = {}) /\ e.flush_attempts # 0
  <2>1. /\ EncShape(go) /\ go.seq = e.seq /\ go.rc = e.rc /\ go.enabled = e.enabled
        /\ go.systematic = e.systematic /\ go.source_symbols = e.source_symbols
        /\ go.timer = e.timer /\ go.failed = e.failed
        /\ go.systematic_time = e.systematic_time /\ go.packet_count = e.packet_count
        /\ go.first_missing = e.first_missing /\ go.coded_time = e.coded_time
        /\ go.coded_packets = e.coded_packets /\ go.tx_attempts = e.tx_attempts
        /\ go.flush_next = TRUE
        /\ go.flush_attempts = IF opt.tx = Unlimited THEN e.flush_attempts
                               ELSE e.flush_attempts - 1
    BY <1>0 DEF EncShape, EncFields
  <2>2. go.flush_attempts \in 0 .. Unlimited - 1
    BY <1>0, <1>4, <2>1 DEF EncParts, Unlimited
  <2>3. EncRate(e.rc) /\ e.first_missing \in Nat /\ e.timer \in BOOLEAN
        /\ (~IsDual(e.rc) => e.rc.counter >= e.source_symbols * Symbols)
    BY <1>0 DEF EncParts, EncCounts
  <2>4. EncFlushCoded(e) = IF ~HasRepair(e.rc) THEN EncSendNewestAgain(go)
                           ELSE IF EncRepairNext(e) THEN go
                           ELSE [go EXCEPT !.rc = ResetRepair(@)]
    BY <1>4 DEF EncFlushCoded
  <2> HIDE DEF go
  <2>5. EncOk(go)
    BY <2>1, <2>2, <2>3, EncSameCounts
  <2>6. CASE ~HasRepair(e.rc)
    BY <1>1, <2>1, <2>4, <2>5, <2>6, EncSendNewestAgainOk
  <2>7. CASE HasRepair(e.rc) /\ EncRepairNext(e)
    BY <2>1, <2>4, <2>5, <2>7
  <2>8. CASE HasRepair(e.rc) /\ ~EncRepairNext(e)
    <3> DEFINE n == [go EXCEPT !.rc = ResetRepair(@)]
    <3>1. /\ EncShape(n) /\ n.seq = go.seq /\ n.rc = ResetRepair(go.rc)
          /\ n.enabled = go.enabled
          /\ n.systematic = go.systematic /\ n.source_symbols = go.source_symbols
          /\ n.timer = go.timer /\ n.failed = go.failed
          /\ n.systematic_time = go.systematic_time /\ n.packet_count = go.packet_count
          /\ n.first_missing = go.first_missing /\ n.coded_time = go.coded_time
          /\ n.coded_packets = go.coded_packets /\ n.tx_attempts = go.tx_attempts
          /\ n.flush_next = go.flush_next /\ n.flush_attempts = go.flush_attempts
      BY <2>1 DEF EncShape, EncFields
    <3>2. /\ EncRate(n.rc) /\ (IsDual(n.rc) <=> IsDual(go.rc))
          /\ ~IsDual(n.rc) => n.rc.counter >= Symbols
      <4> HIDE DEF n
      <4> QED
        BY <2>1, <2>3, <2>8, <3>1, ResetRate
    <3>3. EncFlushCoded(e) = n
      BY <2>4, <2>8
    <3> HIDE DEF n
    <3>4. ~IsDual(n.rc) => n.rc.counter >= n.source_symbols * Symbols
      <4>1. n.source_symbols * Symbols = 0
        BY <1>1, <2>1, <3>1, SymbolsAssumption
      <4>2. n.rc \in CreditRate \/ IsDual(n.rc)
        BY <3>2, RateFacts
      <4> QED
        BY <3>2, <4>1, <4>2, SymbolsAssumption DEF CreditRate
    <3>5. EncOk(n)
      BY <2>1, <2>2, <2>3, <2>5, <3>1, <3>2, <3>4, EncSameCounts
    <3> QED
      BY <2>1, <3>1, <3>3, <3>5
  <2> QED
    BY <2>6, <2>7, <2>8
<1> QED
  BY <1>2, <1>3, <1>4

LEMMA EncTimeoutOk ==
  ASSUME opt \in Options, NEW e, EncOk(e)
  PROVE  EncOk(EncTimeout(e)) /\ EncTimeout(e).seq = e.seq
<1> DEFINE fired == [e EXCEPT !.timer = FALSE]
<1>0. EncShape(e) /\ EncParts(e) /\ EncCounts(e)
  BY DEF EncOk
<1>1. /\ EncShape(fired) /\ fired.seq = e.seq /\ fired.rc = e.rc /\ fired.enabled = e.enabled
      /\ fired.systematic = e.systematic /\ fired.source_symbols = e.source_symbols
      /\ fired.timer = FALSE /\ fired.failed = e.failed
      /\ fired.systematic_time = e.systematic_time /\ fired.packet_count = e.packet_count
      /\ fired.first_missing = e.first_missing /\ fired.coded_time = e.coded_time
      /\ fired.coded_packets = e.coded_packets /\ fired.tx_attempts = e.tx_attempts
      /\ fired.flush_next = e.flush_next /\ fired.flush_attempts = e.flush_attempts
  BY <1>0 DEF EncShape, EncFields
<1>2. EncTimeout(e) = IF EncHasCoded(e) THEN fired ELSE EncFlushCoded(fired)
  BY DEF EncTimeout
<1> HIDE DEF fired
<1>3. EncRate(e.rc) /\ e.first_missing \in Nat /\ e.flush_next \in BOOLEAN
      /\ e.flush_attempts \in 0 .. Unlimited - 1
      /\ (~IsDual(e.rc) => e.rc.counter >= e.source_symbols * Symbols)
  BY <1>0 DEF EncParts, EncCounts
<1>4. EncOk(fired)
  BY <1>1, <1>3, EncSameCounts
<1>5. EncHasCoded(fired) <=> EncHasCoded(e)
  BY <1>1 DEF EncHasCoded
<1> QED
  BY <1>1, <1>2, <1>4, <1>5, EncFlushCodedOk


-----------------------------------------------------------------------------
(* Feedback: the accumulator of the loop over the symbols it tells of.     *)
AccFields == {"e", "losses", "resend", "used"}

AccOk(acc, seq) ==
  /\ DOMAIN acc = AccFields /\ acc = [x \in AccFields |-> acc[x]]
  /\ EncOk(acc.e) /\ acc.e.seq = seq
  /\ acc.losses \in Nat /\ acc.resend \in Nat /\ acc.used \in SUBSET Nat

LEMMA EncAckedOk ==
  ASSUME NEW seq, NEW acc, AccOk(acc, seq), NEW i \in Slots
  PROVE  AccOk(EncAcked(acc, i), seq)
<1> DEFINE e == acc.e
           n == EncAcked(acc, i).e
           fail == \/ e.failed
                   \/ i \in e.systematic /\ e.source_symbols = 0
                   \/ /\ i \notin e.systematic
                      /\ e.systematic_time[i] > e.packet_count
                      /\ ~(IsDual(e.rc) /\ e.rc.repair_counter > 0)
           rate == IF i \notin e.systematic /\ e.systematic_time[i] > e.packet_count
                   THEN EncTakeBack(e.rc) ELSE e.rc
<1>0. EncShape(e) /\ EncParts(e) /\ EncCounts(e)
  BY DEF AccOk, EncOk
<1>1. e.systematic \in SUBSET Slots /\ e.source_symbols \in Nat
      /\ e.source_symbols = Cardinality(e.systematic)
      /\ ~(e.systematic_time[i] > e.packet_count)
  <2>1. e.systematic_time[i] \in Nat /\ e.packet_count \in Nat
        /\ e.systematic_time[i] <= e.packet_count
    BY <1>0 DEF EncParts, EncCounts
  <2> QED
    BY <1>0, <2>1 DEF EncParts, EncCounts
<1>2. fail = FALSE
  <2>1. e.failed = FALSE
    BY <1>0 DEF EncParts
  <2>2. ~(i \in e.systematic /\ e.source_symbols = 0)
    <3>1. i \in e.systematic => Cardinality(e.systematic) > 0
      BY <1>1, Marked
    <3> QED
      BY <1>1, <3>1
  <2> QED
    BY <1>1, <2>1, <2>2
<1>3. rate = e.rc
  BY <1>1
<1> DEFINE body == [e EXCEPT
              !.enabled = @ \ {i},
              !.systematic = @ \ {i},
              !.tx_attempts[i] = 0,
              !.source_symbols = IF i \in e.systematic THEN @ - 1 ELSE @,
              !.rc = IF i \notin e.systematic /\ e.systematic_time[i] > e.packet_count
                     THEN EncTakeBack(@) ELSE @,
              !.failed = \/ @
                         \/ i \in e.systematic /\ e.source_symbols = 0
                         \/ /\ i \notin e.systematic
                            /\ e.systematic_time[i] > e.packet_count
                            /\ ~(IsDual(e.rc) /\ e.rc.repair_counter > 0)]
<1>4. EncAcked(acc, i) = [acc EXCEPT !.e = body] /\ n = body
  <2>1. EncAcked(acc, i) = [acc EXCEPT !.e = body]
    BY Zenon DEF EncAcked
  <2> HIDE DEF body
  <2> QED
    BY <2>1 DEF AccOk, AccFields
<1> DEFINE n3 == [e EXCEPT !.enabled = @ \ {i}, !.systematic = @ \ {i}, !.tx_attempts[i] = 0,
                           !.source_symbols = IF i \in e.systematic THEN @ - 1 ELSE @]
<1>5. /\ EncShape(n3) /\ n3.enabled = e.enabled \ {i} /\ n3.systematic = e.systematic \ {i}
      /\ n3.tx_attempts = [e.tx_attempts EXCEPT ![i] = 0]
      /\ n3.source_symbols = IF i \in e.systematic THEN e.source_symbols - 1 ELSE e.source_symbols
      /\ \A x \in EncFields \ {"enabled", "systematic", "tx_attempts", "source_symbols"} :
           n3[x] = e[x]
  BY <1>0 DEF EncShape, EncFields
<1>6. n = [n3 EXCEPT !.rc = rate, !.failed = fail]
  <2>1. n3.rc = e.rc /\ n3.failed = e.failed
    BY <1>5 DEF EncFields
  <2>2. body = [n3 EXCEPT
              !.rc = IF i \notin e.systematic /\ e.systematic_time[i] > e.packet_count
                     THEN EncTakeBack(@) ELSE @,
              !.failed = \/ @
                         \/ i \in e.systematic /\ e.source_symbols = 0
                         \/ /\ i \notin e.systematic
                            /\ e.systematic_time[i] > e.packet_count
                            /\ ~(IsDual(e.rc) /\ e.rc.repair_counter > 0)]
    BY Zenon
  <2> HIDE DEF n3, body
  <2>3. body = [n3 EXCEPT !.rc = rate, !.failed = fail]
    BY <1>5, <2>1, <2>2 DEF EncShape, EncFields
  <2> QED
    BY <1>4, <2>3
<1> HIDE DEF n, n3, fail, rate, body
<1>7. n3.rc = e.rc /\ n3.failed = FALSE
  <2>1. e.failed = FALSE
    BY <1>0 DEF EncParts
  <2> QED
    BY <1>5, <2>1 DEF EncFields
<1>8. n = n3
  BY <1>2, <1>3, <1>5, <1>6, <1>7 DEF EncShape, EncFields
<1>9. /\ n.seq = e.seq /\ n.flush_attempts = e.flush_attempts /\ n.rc = e.rc
      /\ n.timer = e.timer /\ n.failed = FALSE /\ n.systematic_time = e.systematic_time
      /\ n.packet_count = e.packet_count /\ n.first_missing = e.first_missing
      /\ n.coded_time = e.coded_time /\ n.flush_next = e.flush_next
      /\ n.coded_packets = e.coded_packets
      /\ n.enabled = e.enabled \ {i} /\ n.systematic = e.systematic \ {i}
      /\ n.tx_attempts = [e.tx_attempts EXCEPT ![i] = 0]
      /\ n.source_symbols = IF i \in e.systematic THEN e.source_symbols - 1 ELSE e.source_symbols
      /\ EncShape(n)
  BY <1>5, <1>7, <1>8 DEF EncFields
<1>10. n.tx_attempts \in [Slots -> 0 .. Unlimited]
  <2>1. e.tx_attempts \in [Slots -> 0 .. Unlimited]
    BY <1>0 DEF EncParts
  <2>2. 0 \in 0 .. Unlimited
    BY DEF Unlimited
  <2> QED
    BY <1>9, <2>1, <2>2, WithEntry
<1>11. n.source_symbols \in Nat /\ n.source_symbols = Cardinality(n.systematic)
       /\ n.source_symbols <= e.source_symbols
  <2>1. CASE i \in e.systematic
    BY <1>1, <1>9, <2>1, Marked
  <2>2. CASE i \notin e.systematic
    <3>1. e.systematic \ {i} = e.systematic
      BY <2>2
    <3>2. e.source_symbols \in Nat /\ e.source_symbols = Cardinality(e.systematic)
      BY <1>0 DEF EncParts, EncCounts
    <3>3. n.systematic = e.systematic /\ n.source_symbols = e.source_symbols
      BY <1>9, <2>2, <3>1
    <3> QED
      BY <3>2, <3>3
  <2> QED
    BY <2>1, <2>2
<1>12. EncParts(n)
  BY <1>0, <1>9, <1>10, <1>11 DEF EncParts
<1>13. ~IsDual(n.rc) => n.rc.counter >= n.source_symbols * Symbols
  <2>1. n.source_symbols * Symbols <= e.source_symbols * Symbols
    BY <1>1, <1>11, SymbolsAssumption
  <2>2. ~IsDual(n.rc) => e.rc.counter \in Nat /\ e.rc.counter >= e.source_symbols * Symbols
    BY <1>0, <1>9, RateFacts DEF EncParts, EncCounts
  <2>3. n.source_symbols * Symbols \in Int /\ e.source_symbols * Symbols \in Int
    BY <1>1, <1>11, SymbolsAssumption
  <2> QED
    BY <1>9, <2>1, <2>2, <2>3
<1>14. ASSUME NEW j \in Slots
       PROVE  /\ j \in n.systematic => n.tx_attempts[j] > 0
              /\ n.tx_attempts[j] > 0 => j < n.seq
              /\ n.systematic_time[j] <= n.packet_count
  <2>1. /\ j \in e.systematic => e.tx_attempts[j] > 0
        /\ e.tx_attempts[j] > 0 => j < e.seq
        /\ e.systematic_time[j] <= e.packet_count
    BY <1>0 DEF EncCounts
  <2>2. n.tx_attempts[j] = IF j = i THEN 0 ELSE e.tx_attempts[j]
    BY <1>0, <1>9 DEF EncParts
  <2>3. j \in n.systematic => j # i /\ j \in e.systematic
    BY <1>9
  <2> QED
    BY <1>9, <2>1, <2>2, <2>3
<1>15. \A j \in n.enabled : j < n.seq
  BY <1>0, <1>9 DEF EncCounts
<1>16. EncCounts(n)
  BY <1>11, <1>12, <1>13, <1>14, <1>15 DEF EncCounts, EncParts
<1>17. EncOk(n) /\ n.seq = seq
  BY <1>9, <1>12, <1>16 DEF EncOk, AccOk
<1>18. EncAcked(acc, i) = [acc EXCEPT !.e = n]
  BY <1>4
<1> HIDE DEF e
<1> QED
  BY <1>17, <1>18 DEF AccOk, AccFields


LEMMA EncResendOk ==
  ASSUME opt \in Options, ~opt.coded_retrans,
         NEW seq, NEW acc, AccOk(acc, seq), NEW i \in Slots, acc.e.tx_attempts[i] # 0
  PROVE  AccOk(EncResend(acc, i), seq)
<1> DEFINE e == acc.e
           up == [e EXCEPT !.enabled = @ \cup {i}]
           again == [up EXCEPT !.systematic = @ \cup {i},
                               !.source_symbols = @ + 1,
                               !.rc = Insert(@, TRUE),
                               !.flush_attempts = opt.tx - 1]
<1>0. EncShape(e) /\ EncParts(e) /\ EncCounts(e) /\ e.seq = seq
  BY DEF AccOk, EncOk
<1>1. opt.tx \in 1 .. Unlimited
  BY OptionsAssumption DEF ValidOptions, ValidEnds
<1>2. EncResend(acc, i) = IF i \in e.systematic THEN [acc EXCEPT !.e = up]
                          ELSE [acc EXCEPT !.resend = @ + 1, !.e = again]
  BY DEF EncResend
<1>3. i < e.seq /\ e.seq \in Nat /\ e.tx_attempts[i] > 0
  <2>1. e.tx_attempts[i] \in 0 .. Unlimited
    BY <1>0 DEF EncParts
  <2>2. e.tx_attempts[i] > 0
    BY <2>1 DEF Unlimited
  <2> QED
    BY <1>0, <2>2 DEF EncCounts, EncParts
<1>4. /\ EncShape(up) /\ up.enabled = e.enabled \cup {i}
      /\ \A x \in EncFields \ {"enabled"} : up[x] = e[x]
  BY <1>0 DEF EncShape, EncFields
<1>5. EncOk(up) /\ up.seq = seq
  <2> HIDE DEF up, e
  <2>1. /\ up.seq = e.seq /\ up.flush_attempts = e.flush_attempts /\ up.rc = e.rc
        /\ up.timer = e.timer /\ up.failed = e.failed
        /\ up.systematic_time = e.systematic_time
        /\ up.packet_count = e.packet_count /\ up.first_missing = e.first_missing
        /\ up.coded_time = e.coded_time /\ up.flush_next = e.flush_next
        /\ up.coded_packets = e.coded_packets /\ up.systematic = e.systematic
        /\ up.tx_attempts = e.tx_attempts /\ up.source_symbols = e.source_symbols
    BY <1>4 DEF EncFields
  <2>2. EncParts(up)
    BY <1>0, <1>4, <2>1 DEF EncParts
  <2>3. \A j \in up.enabled : j < up.seq
    BY <1>0, <1>3, <1>4, <2>1 DEF EncCounts
  <2>4. EncCounts(up)
    BY <1>0, <2>1, <2>3 DEF EncCounts
  <2> QED
    BY <1>0, <1>4, <2>1, <2>2, <2>4 DEF EncOk
<1>6. CASE i \in e.systematic
  <2>1. EncResend(acc, i) = [acc EXCEPT !.e = up]
    BY <1>2, <1>6
  <2> HIDE DEF up, e
  <2> QED
    BY <1>5, <2>1 DEF AccOk, AccFields
<1>7. CASE i \notin e.systematic
  <2> HIDE DEF up
  <2>1. /\ EncShape(again) /\ again.systematic = up.systematic \cup {i}
        /\ again.source_symbols = up.source_symbols + 1
        /\ again.rc = Insert(up.rc, TRUE) /\ again.flush_attempts = opt.tx - 1
        /\ \A x \in EncFields \ {"systematic", "source_symbols", "rc", "flush_attempts"} :
             again[x] = up[x]
    BY <1>4 DEF EncShape, EncFields
  <2>2. EncResend(acc, i) = [acc EXCEPT !.resend = @ + 1, !.e = again]
    BY <1>2, <1>7
  <2> HIDE DEF again
  <2>3. /\ again.seq = up.seq /\ again.timer = up.timer /\ again.failed = up.failed
        /\ again.systematic_time = up.systematic_time
        /\ again.packet_count = up.packet_count /\ again.first_missing = up.first_missing
        /\ again.coded_time = up.coded_time /\ again.flush_next = up.flush_next
        /\ again.coded_packets = up.coded_packets /\ again.enabled = up.enabled
        /\ again.tx_attempts = up.tx_attempts
    BY <2>1 DEF EncFields
  <2>4. EncParts(up) /\ EncCounts(up) /\ up.tx_attempts[i] > 0 /\ i \notin up.systematic
        /\ up.systematic \in SUBSET Slots /\ up.source_symbols \in Nat
        /\ up.source_symbols = Cardinality(up.systematic)
    BY <1>3, <1>4, <1>5, <1>7 DEF EncOk, EncFields, EncParts, EncCounts
  <2>5. /\ EncRate(again.rc) /\ (IsDual(again.rc) <=> IsDual(up.rc))
        /\ ~IsDual(again.rc) => /\ again.rc.counter >= up.rc.counter + Symbols
                                /\ again.rc.counter \in Nat /\ up.rc.counter \in Nat
    <3>1. EncRate(up.rc)
      BY <2>4 DEF EncParts
    <3>2. /\ EncRate(Insert(up.rc, TRUE)) /\ (IsDual(Insert(up.rc, TRUE)) <=> IsDual(up.rc))
          /\ ~IsDual(up.rc) => Insert(up.rc, TRUE).counter >= up.rc.counter + Symbols
      BY <3>1, InsertRate
    <3> QED
      BY <2>1, <3>1, <3>2, RateFacts
  <2>6. again.flush_attempts \in 0 .. Unlimited - 1
    BY <1>1, <2>1 DEF Unlimited
  <2>7. EncParts(again)
    <3>1. again.source_symbols \in Nat /\ again.systematic \subseteq Slots
      BY <2>1, <2>4
    <3> QED
      BY <2>3, <2>4, <2>5, <2>6, <3>1 DEF EncParts
  <2>8. again.source_symbols = Cardinality(again.systematic)
    BY <2>1, <2>4, Marked
  <2>9. ~IsDual(again.rc) => again.rc.counter >= again.source_symbols * Symbols
    <3> DEFINE s == up.source_symbols
    <3>1. s * Symbols \in Nat /\ (s + 1) * Symbols = s * Symbols + Symbols
      BY <2>4, SymbolsAssumption
    <3>2. ~IsDual(again.rc) => up.rc.counter >= s * Symbols
      BY <2>4, <2>5 DEF EncCounts
    <3>3. again.source_symbols * Symbols = s * Symbols + Symbols
      BY <2>1, <3>1
    <3> HIDE DEF s
    <3> QED
      BY <2>5, <3>1, <3>2, <3>3, SymbolsAssumption
  <2>10. EncCounts(again)
    BY <2>1, <2>3, <2>4, <2>8, <2>9 DEF EncCounts
  <2>11. EncOk(again) /\ again.seq = seq
    BY <1>5, <2>1, <2>3, <2>7, <2>10 DEF EncOk
  <2> DEFINE r == [acc EXCEPT !.resend = @ + 1, !.e = again]
  <2>12. /\ DOMAIN r = AccFields /\ r = [x \in AccFields |-> r[x]] /\ r.e = again
         /\ r.losses = acc.losses /\ r.resend = acc.resend + 1 /\ r.used = acc.used
    BY DEF AccOk, AccFields
  <2> HIDE DEF r, e
  <2>13. acc.losses \in Nat /\ acc.resend \in Nat /\ acc.used \in SUBSET Nat
    BY DEF AccOk
  <2>14. AccOk(r, seq)
    BY <2>11, <2>12, <2>13 DEF AccOk
  <2> QED
    BY <2>2, <2>14 DEF r
<1> QED
  BY <1>6, <1>7

LEMMA EncMissingOk ==
  ASSUME opt \in Options, ~opt.coded_retrans,
         NEW seq, NEW acc, AccOk(acc, seq), NEW i \in Slots, NEW fb
  PROVE  AccOk(EncMissing(acc, fb, i), seq)
<1> DEFINE lost == [acc EXCEPT !.losses = @ + 1]
           flight == EncInFlight(acc, fb, i)
           k == CHOOSE k \in flight : \A j \in flight : k <= j
           counted == [lost EXCEPT !.used = @ \cup {k}]
<1>1. AccOk(lost, seq) /\ lost.e = acc.e
  BY DEF AccOk, AccFields
<1>2. flight # {} => k \in Nat
  <2>1. acc.e.coded_packets \in Seq(Nat)
    BY DEF AccOk, EncOk, EncParts
  <2>2. flight \in SUBSET Nat
    BY <2>1 DEF EncInFlight
  <2> HIDE DEF flight
  <2>3. flight # {} => Min(flight) \in flight /\ \A x \in flight : Min(flight) <= x
    BY <2>2, MinProperty
  <2> QED
    BY <2>2, <2>3
<1>3. flight # {} => AccOk(counted, seq)
  <2> HIDE DEF lost, k, flight
  <2> QED
    BY <1>1, <1>2 DEF AccOk, AccFields
<1>4. acc.e.tx_attempts[i] # 0 => AccOk(EncResend(lost, i), seq)
  <2> HIDE DEF lost
  <2> QED
    BY <1>1, EncResendOk
<1>5. EncMissing(acc, fb, i) =
        IF acc.e.systematic_time[i] > fb.no THEN lost
        ELSE IF opt.memory > 0 /\ acc.e.coded_time[i] >= fb.no /\ flight # {} THEN counted
        ELSE IF acc.e.tx_attempts[i] = 0 THEN lost
        ELSE EncResend(lost, i)
  BY DEF EncMissing
<1> HIDE DEF lost, flight, counted
<1> QED
  BY <1>1, <1>3, <1>4, <1>5

(* The encoders and the accumulators are sets: the loop stays in one.      *)
EncValues ==
  UNION {Nat, SUBSET Slots, [Slots -> Nat], Seq(Nat), BOOLEAN, DualRate, CreditRate}

AccSet(seq) ==
  {acc \in [AccFields -> UNION {[EncFields -> EncValues], Nat, SUBSET Nat}] : AccOk(acc, seq)}

LEMMA AccMember ==
  ASSUME NEW seq, NEW acc
  PROVE  acc \in AccSet(seq) <=> AccOk(acc, seq)
<1> SUFFICES ASSUME AccOk(acc, seq)
             PROVE  acc \in [AccFields -> UNION {[EncFields -> EncValues], Nat, SUBSET Nat}]
  BY DEF AccSet
<1> DEFINE e == acc.e
<1>1. EncShape(e) /\ EncParts(e)
  BY DEF AccOk, EncOk
<1> HIDE DEF e
<1>2. e.tx_attempts \in [Slots -> Nat] /\ e.flush_attempts \in Nat
  <2>1. 0 .. Unlimited \subseteq Nat /\ 0 .. Unlimited - 1 \subseteq Nat
    BY DEF Unlimited
  <2> QED
    BY <1>1, <2>1 DEF EncParts
<1>3. e.rc \in DualRate \cup CreditRate
  BY <1>1, RateFacts DEF EncParts
<1>4. ASSUME NEW x \in EncFields PROVE e[x] \in EncValues
  BY <1>1, <1>2, <1>3 DEF EncParts, EncFields, EncValues
<1>5. e \in [EncFields -> EncValues]
  BY <1>1, <1>4 DEF EncShape
<1>6. /\ acc = [x \in AccFields |-> acc[x]]
      /\ acc.losses \in Nat /\ acc.resend \in Nat /\ acc.used \in SUBSET Nat
  BY DEF AccOk
<1>7. acc.e \in [EncFields -> EncValues]
  BY <1>5 DEF e
<1>8. ASSUME NEW x \in AccFields
      PROVE  acc[x] \in UNION {[EncFields -> EncValues], Nat, SUBSET Nat}
  BY <1>6, <1>7 DEF AccFields
<1> QED
  BY <1>6, <1>8

LEMMA EncRankType ==
  ASSUME NEW e, e.seq \in Nat
  PROVE  EncRank(e) \in 0 .. Symbols /\ EncRank(e) <= e.seq /\ e.seq - EncRank(e) \in Nat
BY SymbolsAssumption DEF EncRank

LEMMA EncAnswerOk ==
  ASSUME opt \in Options, ~opt.coded_retrans,
         NEW e, EncOk(e), NEW fb, fb.seq \in Int, EncSeqnoValid(e, fb)
  PROVE  AccOk(EncAnswer(e, fb), e.seq)
<1> DEFINE oldest == e.seq - EncRank(e)
           K == fb.seq - oldest
           T == AccSet(e.seq)
           slots == [k \in 1 .. K |-> Slot(oldest + k - 1)]
           read(acc, i) == IF i \in fb.missing THEN EncMissing(acc, fb, i) ELSE EncAcked(acc, i)
           base == [e |-> e, losses |-> 0, resend |-> 0, used |-> {}]
           st == [x \in (1 .. K) \X T |-> read(x[2], slots[x[1]])]
           Rec(g) == [s \in SUBSET (1 .. K) |->
                       IF s = {} THEN base ELSE read(g[s \ {Max(s)}], slots[Max(s)])]
           it == CHOOSE g : g = Rec(g)
<1>1. e.seq \in Nat
  BY DEF EncOk, EncParts
<1>2. oldest \in Nat /\ K \in Nat
  <2>1. EncRank(e) \in Int /\ oldest \in Nat
    BY <1>1, EncRankType
  <2> QED
    BY <1>1, <2>1 DEF EncSeqnoValid
<1>3. base \in T
  <2>1. AccOk(base, e.seq)
    BY DEF AccOk, AccFields
  <2> HIDE DEF base
  <2> QED
    BY <2>1, AccMember
<1>4. \A k \in 1 .. K : slots[k] \in Slots
  <2> HIDE DEF K, oldest
  <2> SUFFICES ASSUME NEW k \in 1 .. K PROVE Slot(oldest + k - 1) \in Slots
    OBVIOUS
  <2>1. oldest + k - 1 \in Int
    BY <1>2
  <2> QED
    BY <2>1, SlotType
<1>5. \A acc \in T : \A k \in 1 .. K : read(acc, slots[k]) \in T
  <2> HIDE DEF K, slots
  <2> SUFFICES ASSUME NEW acc \in T, NEW k \in 1 .. K
               PROVE  read(acc, slots[k]) \in T
    OBVIOUS
  <2>1. AccOk(acc, e.seq) /\ slots[k] \in Slots
    BY <1>4, AccMember
  <2>2. AccOk(EncAcked(acc, slots[k]), e.seq)
    BY <2>1, EncAckedOk
  <2>3. AccOk(EncMissing(acc, fb, slots[k]), e.seq)
    BY <2>1, EncMissingOk
  <2>4. EncAcked(acc, slots[k]) \in T /\ EncMissing(acc, fb, slots[k]) \in T
    BY <2>2, <2>3, AccMember
  <2> HIDE DEF T
  <2> QED
    BY <2>4
<1>6. st \in [(1 .. K) \X T -> T]
  <2> HIDE DEF read, slots, T, K
  <2> QED
    BY <1>5
<1>7. PICK g \in [SUBSET (1 .. K) -> T] : Folds(g, K, base, st)
  <2> HIDE DEF st, T, K, base, read, slots, Rec, it
  <2> QED
    BY <1>2, <1>3, <1>6, FoldExists
<1>8. g = Rec(g)
  <2> HIDE DEF read, slots, T, base, K
  <2>1. ASSUME NEW s \in SUBSET (1 .. K)
        PROVE  g[s] = IF s = {} THEN base ELSE read(g[s \ {Max(s)}], slots[Max(s)])
    <3>1. CASE s = {}
      BY <3>1, <1>7 DEF Folds
    <3>2. CASE s # {}
      <4>1. Max(s) \in 1 .. K /\ s \ {Max(s)} \in SUBSET (1 .. K)
        BY <1>2, <3>2, MaxOf
      <4>2. g[s \ {Max(s)}] \in T
        BY <4>1
      <4>3. st[<<Max(s), g[s \ {Max(s)}]>>] = read(g[s \ {Max(s)}], slots[Max(s)])
        BY <4>1, <4>2
      <4> QED
        BY <3>2, <1>7, <4>3 DEF Folds
    <3> QED
      BY <3>1, <3>2
  <2> QED
    BY <2>1
<1>9. it = Rec(it)
  <2> HIDE DEF Rec
  <2> QED
    BY <1>8
<1>10. EncAnswer(e, fb) = it[1 .. K]
  <2>1. DOMAIN slots = 1 .. K
    OBVIOUS
  <2> QED
    BY <2>1 DEF EncAnswer, FoldLeft, MapThenFoldSet
<1>11. it[{}] \in T
  <2>1. {} \in SUBSET (1 .. K)
    OBVIOUS
  <2> HIDE DEF it, T, read, slots, K, base
  <2> QED
    BY <1>9, <1>3, <2>1
<1>12. ASSUME NEW s \in SUBSET (1 .. K), s # {}, it[s \ {Max(s)}] \in T PROVE it[s] \in T
  <2>1. Max(s) \in 1 .. K
    <3> HIDE DEF K
    <3> QED
      BY <1>2, <1>12, MaxOf
  <2>2. it[s] = read(it[s \ {Max(s)}], slots[Max(s)])
    <3> HIDE DEF it, T, read, slots, K
    <3> QED
      BY <1>9, <1>12
  <2> HIDE DEF it, T, read, slots, K
  <2> QED
    BY <1>12, <2>1, <2>2, <1>5
<1>13. it[1 .. K] \in T
  <2> HIDE DEF it, T, read, slots, K
  <2> QED
    BY <1>11, <1>12, <1>2, FoldTyped
<1> HIDE DEF it
<1> QED
  BY <1>10, <1>13, AccMember


LEMMA EncPutFeedbackOk ==
  ASSUME opt \in Options, ~opt.coded_retrans,
         NEW e, EncOk(e), NEW fb, fb.seq \in Int, fb.first_missing \in Int
  PROVE  EncOk(EncPutFeedback(e, fb)) /\ EncPutFeedback(e, fb).seq = e.seq
<1> DEFINE told == [e EXCEPT !.first_missing = IF fb.first_missing > @
                                               THEN fb.first_missing ELSE @]
           answer == EncAnswer(told, fb)
           plan == EncPlanRepair(answer.e.rc, answer.resend)
           idle == answer.e.enabled = {} /\ NextRepair(plan, answer.e.source_symbols)
           after == [answer.e EXCEPT !.rc = IF idle THEN ResetSource(plan) ELSE plan]
           set == [after EXCEPT !.timer = opt.enc_timeout
                                          /\ ~(EncHasCoded(after) /\ answer.losses = 0)]
<1>0. EncShape(e) /\ EncParts(e) /\ EncCounts(e)
  BY DEF EncOk
<1>1. EncOk(told) /\ told.seq = e.seq
  <2>1. /\ EncShape(told)
        /\ told.first_missing = (IF fb.first_missing > e.first_missing
                                 THEN fb.first_missing ELSE e.first_missing)
        /\ \A x \in EncFields \ {"first_missing"} : told[x] = e[x]
    BY <1>0 DEF EncShape, EncFields
  <2> HIDE DEF told
  <2>2. told.first_missing \in Nat
    BY <1>0, <2>1 DEF EncParts
  <2>3. /\ told.seq = e.seq /\ told.rc = e.rc /\ told.enabled = e.enabled
        /\ told.systematic = e.systematic /\ told.source_symbols = e.source_symbols
        /\ told.timer = e.timer /\ told.failed = e.failed
        /\ told.systematic_time = e.systematic_time /\ told.packet_count = e.packet_count
        /\ told.coded_time = e.coded_time
        /\ told.coded_packets = e.coded_packets /\ told.tx_attempts = e.tx_attempts
        /\ told.flush_next = e.flush_next /\ told.flush_attempts = e.flush_attempts
    BY <2>1 DEF EncFields
  <2>4. EncRate(e.rc) /\ e.timer \in BOOLEAN /\ e.flush_next \in BOOLEAN
        /\ e.flush_attempts \in 0 .. Unlimited - 1
        /\ (~IsDual(e.rc) => e.rc.counter >= e.source_symbols * Symbols)
    BY <1>0 DEF EncParts, EncCounts
  <2> QED
    BY <2>1, <2>2, <2>3, <2>4, EncSameCounts
<1>2. EncPutFeedback(e, fb) = IF fb.no > e.packet_count THEN e
                              ELSE IF ~EncSeqnoValid(e, fb) THEN told
                              ELSE set
  BY DEF EncPutFeedback
<1>3. ASSUME EncSeqnoValid(e, fb) PROVE EncOk(set) /\ set.seq = e.seq
  <2>1. EncSeqnoValid(told, fb)
    <3> HIDE DEF told
    <3> QED
      BY <1>1, <1>3 DEF EncSeqnoValid, EncRank
  <2>2. EncOk(answer.e) /\ answer.e.seq = e.seq
    <3> HIDE DEF told
    <3>1. AccOk(EncAnswer(told, fb), told.seq)
      BY <1>1, <2>1, EncAnswerOk
    <3> QED
      BY <1>1, <3>1 DEF AccOk
  <2> DEFINE a == answer.e
             rate == IF idle THEN ResetSource(plan) ELSE plan
             armed == opt.enc_timeout /\ ~(EncHasCoded(after) /\ answer.losses = 0)
  <2>3. EncShape(a) /\ EncParts(a) /\ EncCounts(a)
    BY <2>2 DEF EncOk
  <2>4. plan = a.rc
    BY DEF EncPlanRepair
  <2>5. /\ EncRate(rate) /\ (IsDual(rate) <=> IsDual(a.rc))
        /\ ~IsDual(a.rc) => rate = a.rc
    <3>1. EncRate(a.rc)
      BY <2>3 DEF EncParts
    <3> HIDE DEF plan, a
    <3>2. /\ EncRate(ResetSource(a.rc)) /\ (IsDual(ResetSource(a.rc)) <=> IsDual(a.rc))
          /\ ~IsDual(a.rc) => ResetSource(a.rc) = a.rc
      BY <3>1, ResetRate
    <3> HIDE DEF idle
    <3> QED
      BY <2>4, <3>1, <3>2
  <2>6. set = [[a EXCEPT !.rc = rate] EXCEPT !.timer = armed]
    OBVIOUS
  <2> HIDE DEF rate, armed, a, set
  <2>7. EncShape(set) /\ set.rc = rate /\ set.timer = armed
        /\ \A x \in EncFields \ {"rc", "timer"} : set[x] = a[x]
    BY <2>3, <2>6 DEF EncShape, EncFields
  <2>8. armed \in BOOLEAN
    BY DEF armed
  <2>9. /\ set.seq = a.seq /\ set.enabled = a.enabled /\ set.first_missing = a.first_missing
        /\ set.systematic = a.systematic /\ set.source_symbols = a.source_symbols
        /\ set.failed = a.failed
        /\ set.systematic_time = a.systematic_time /\ set.packet_count = a.packet_count
        /\ set.coded_time = a.coded_time
        /\ set.coded_packets = a.coded_packets /\ set.tx_attempts = a.tx_attempts
        /\ set.flush_next = a.flush_next /\ set.flush_attempts = a.flush_attempts
    BY <2>7 DEF EncFields
  <2>10. a.first_missing \in Nat /\ a.flush_next \in BOOLEAN
         /\ a.flush_attempts \in 0 .. Unlimited - 1
         /\ (~IsDual(a.rc) => a.rc.counter >= a.source_symbols * Symbols)
    BY <2>3 DEF EncParts, EncCounts
  <2>11. EncOk(a) /\ a.seq = e.seq
    BY <2>2 DEF a
  <2>12. ~IsDual(set.rc) => set.rc.counter >= set.source_symbols * Symbols
    BY <2>5, <2>7, <2>9, <2>10
  <2>13. EncOk(set)
    BY <2>5, <2>7, <2>8, <2>9, <2>10, <2>11, <2>12, EncSameCounts
  <2> QED
    BY <2>9, <2>11, <2>13
<1> HIDE DEF told, set
<1> QED
  BY <1>1, <1>2, <1>3

(* An encoder of the invariant has its types and balances its accounts.    *)
LEMMA EncOkFacts ==
  ASSUME NEW e, EncOk(e)
  PROVE  EncTyped(e) /\ EncBalanced(e)
<1>0. EncShape(e) /\ EncParts(e) /\ EncCounts(e)
  BY DEF EncOk
<1>1. RateTyped(e.rc)
  <2>1. EncRate(e.rc)
    BY <1>0 DEF EncParts
  <2>2. CASE IsDual(e.rc)
    BY <2>1, <2>2, RateFacts DEF RateTyped, DualRate
  <2>3. CASE ~IsDual(e.rc)
    BY <2>1, <2>3, RateFacts DEF RateTyped, CreditRate
  <2> QED
    BY <2>2, <2>3
<1>2. [f \in DOMAIN e \ {"rc"} |-> e[f]] \in EncStates
  <2>1. DOMAIN e \ {"rc"} =
          {"seq", "enabled", "systematic", "source_symbols", "first_missing", "packet_count",
           "systematic_time", "coded_time", "tx_attempts", "flush_attempts", "flush_next",
           "coded_packets", "timer", "failed"}
    BY <1>0 DEF EncShape, EncFields
  <2>2. e.failed \in BOOLEAN
    BY <1>0 DEF EncParts
  <2> DEFINE s == [f \in DOMAIN e \ {"rc"} |-> e[f]]
  <2>3. s = [seq |-> e.seq, enabled |-> e.enabled, systematic |-> e.systematic,
             source_symbols |-> e.source_symbols, first_missing |-> e.first_missing,
             packet_count |-> e.packet_count, systematic_time |-> e.systematic_time,
             coded_time |-> e.coded_time, tx_attempts |-> e.tx_attempts,
             flush_attempts |-> e.flush_attempts, flush_next |-> e.flush_next,
             coded_packets |-> e.coded_packets, timer |-> e.timer, failed |-> e.failed]
    BY <2>1
  <2> HIDE DEF s
  <2>4. s \in EncStates
    BY <1>0, <2>2, <2>3 DEF EncParts, EncStates
  <2> QED
    BY <2>4 DEF s
<1>3. ~IsDual(e.rc) => e.rc.counter >= e.source_symbols * Symbols
  BY <1>0 DEF EncCounts
<1>4. ~e.failed
  BY <1>0 DEF EncParts
<1> QED
  BY <1>0, <1>1, <1>2, <1>3, <1>4 DEF EncTyped, EncBalanced, EncCounts


-----------------------------------------------------------------------------
(* Sets of numbers: the smallest one, and all of them in ascending order.  *)
LEMMA SmallestOf ==
  ASSUME NEW a \in Int, NEW b \in Int, NEW S \in SUBSET (a .. b), S # {}
  PROVE  SmallestIn(S) \in S /\ \A j \in S : SmallestIn(S) <= j
<1> DEFINE D == {s - a : s \in S}
<1>1. D \in SUBSET Nat /\ D # {}
  <2>1. \A s \in S : s \in Int /\ s >= a
    OBVIOUS
  <2>2. \A s \in S : s - a \in Nat
    BY <2>1
  <2> QED
    BY <2>2
<1>2. Min(D) \in D /\ \A x \in D : Min(D) <= x
  <2> HIDE DEF D
  <2> QED
    BY <1>1, MinProperty
<1>3. PICK k \in S : \A x \in D : k - a <= x
  BY <1>2
<1>4. \A j \in S : k - a <= j - a
  BY <1>3
<1>5. \A j \in S : k <= j
  BY <1>4
<1> QED
  BY <1>5 DEF SmallestIn

LEMMA SortedOf ==
  ASSUME NEW K \in Nat, NEW S \in SUBSET (0 .. K - 1)
  PROVE  /\ Sorted(S) \in [1 .. Cardinality(S) -> S] /\ Cardinality(S) \in Nat
         /\ \A m, n \in DOMAIN Sorted(S) : m < n => Sorted(S)[m] < Sorted(S)[n]
<1> DEFINE Up(seq) == \A m, n \in DOMAIN seq : m < n => seq[m] < seq[n]
           Has(U) == /\ Cardinality(U) \in Nat /\ IsFiniteSet(U)
                     /\ \E seq \in [1 .. Cardinality(U) -> U] : Up(seq)
           Z == {n \in 0 .. K : \A U \in SUBSET (0 .. n - 1) : Has(U)}
<1>1. 0 \in Z
  <2>1. \A U \in SUBSET (0 .. 0 - 1) : U = {}
    OBVIOUS
  <2>2. Cardinality({}) = 0 /\ IsFiniteSet({})
    BY FS_EmptySet
  <2>3. <<>> \in [1 .. 0 -> {}] /\ Up(<<>>)
    OBVIOUS
  <2>4. Has({})
    <3>1. \E seq \in [1 .. 0 -> {}] : Up(seq)
      BY <2>3
    <3>2. [1 .. Cardinality({}) -> {}] = [1 .. 0 -> {}] /\ 0 \in Nat
      BY <2>2
    <3> HIDE DEF Up
    <3>3. \E seq \in [1 .. Cardinality({}) -> {}] : Up(seq)
      BY <3>1, <3>2, Zenon
    <3> QED
      BY <2>2, <3>2, <3>3, Zenon
  <2>5. 0 \in 0 .. K
    OBVIOUS
  <2> HIDE DEF Has
  <2> QED
    BY <2>1, <2>4, <2>5
<1>2. ASSUME NEW n \in 0 .. K - 1, n \in Z PROVE n + 1 \in Z
  <2>0. n + 1 \in 0 .. K /\ n \in Nat
    OBVIOUS
  <2> SUFFICES ASSUME NEW U \in SUBSET (0 .. n) PROVE Has(U)
    <3> HIDE DEF Has
    <3> QED
      BY <2>0
  <2>1. CASE n \notin U
    <3>1. U \in SUBSET (0 .. n - 1)
      BY <2>0, <2>1
    <3> HIDE DEF Has
    <3> QED
      BY <1>2, <3>1
  <2>2. CASE n \in U
    <3> DEFINE V == U \ {n}
               c == Cardinality(V)
    <3>1. V \in SUBSET (0 .. n - 1)
      BY <2>0
    <3>2. Has(V)
      <4> HIDE DEF Has, V
      <4> QED
        BY <1>2, <3>1
    <3>3. c \in Nat /\ IsFiniteSet(V)
      BY <3>2
    <3>4. PICK seq \in [1 .. c -> V] : Up(seq)
      BY <3>2
    <3>5. U = V \cup {n} /\ n \notin V
      BY <2>2
    <3> HIDE DEF V
    <3>6. IsFiniteSet(U) /\ Cardinality(U) = c + 1
      BY <3>3, <3>5, FS_AddElement
    <3> DEFINE more == [m \in 1 .. c + 1 |-> IF m = c + 1 THEN n ELSE seq[m]]
    <3> HIDE DEF c
    <3>7. more \in [1 .. c + 1 -> U]
      <4> SUFFICES ASSUME NEW m \in 1 .. c + 1
                   PROVE  (IF m = c + 1 THEN n ELSE seq[m]) \in U
        OBVIOUS
      <4>1. m # c + 1 => m \in 1 .. c
        BY <3>3
      <4> QED
        BY <4>1, <3>4, <3>5
    <3>8. Up(more)
      <4> SUFFICES ASSUME NEW m1 \in 1 .. c + 1, NEW m2 \in 1 .. c + 1, m1 < m2
                   PROVE  more[m1] < more[m2]
        OBVIOUS
      <4>1. m1 \in 1 .. c /\ more[m1] = seq[m1] /\ seq[m1] \in V
        BY <3>3, <3>4
      <4>2. CASE m2 = c + 1
        <5>1. seq[m1] \in 0 .. n - 1 /\ more[m2] = n
          BY <3>1, <4>1, <4>2
        <5> QED
          BY <2>0, <4>1, <5>1
      <4>3. CASE m2 # c + 1
        <5>1. m2 \in 1 .. c /\ more[m2] = seq[m2]
          BY <3>3, <4>3
        <5> QED
          BY <3>4, <4>1, <5>1
      <4> QED
        BY <4>2, <4>3
    <3> HIDE DEF more, Up
    <3> QED
      BY <3>3, <3>6, <3>7, <3>8
  <2> QED
    BY <2>1, <2>2
<1>3. K \in Z
  <2> HIDE DEF Z
  <2> QED
    BY <1>1, <1>2, LeastIndex
<1>4. Has(S)
  <2> HIDE DEF Has
  <2> QED
    BY <1>3
<1> QED
  BY <1>4 DEF Sorted

-----------------------------------------------------------------------------
(* A decoder and a recoder as a sink of packets: the part of their records *)
(* that the operators of SwDecoder change, and what has its type in every  *)
(* configuration, also where the ring and kodo do not agree any more.      *)
SinkFields == {"rb", "seq", "span", "flush", "has_source", "queue", "read", "eager"}

SinkChanges == {"rb", "flush", "has_source", "queue", "read"}

Rings == [num_blocks : Int, write_seqno : Int, write_index : Slots, read_index : Slots]

SinkShape(d) == SinkFields \subseteq DOMAIN d /\ d = [x \in DOMAIN d |-> d[x]]

SinkNumbers(d) ==
  /\ SinkShape(d)
  /\ d.rb \in Rings /\ d.seq \in Int /\ d.flush \in Int /\ d.has_source \in BOOLEAN
  /\ d.queue \in Seq(Int) /\ d.read \in Seq(Int)

SinkSame(n, d) ==
  DOMAIN n = DOMAIN d /\ \A x \in DOMAIN d \ SinkChanges : n[x] = d[x]

LEMMA RingNumbers ==
  ASSUME NEW rb \in Rings
  PROVE  /\ \A k \in Int : Ring!RbRead(rb, k) \in Rings /\ Ring!RbSlot(rb, k) \in Slots
         /\ \A s \in Int : Ring!RbLost(rb, s) \in Int /\ Ring!RbInsert(rb, s) \in Rings
         /\ Ring!RbReadSeqno(rb) \in Int
<1>1. \A x \in Int : x % Symbols \in Slots
  BY SymbolsAssumption, ModRange DEF Slots
<1>2. rb.num_blocks \in Int /\ rb.write_seqno \in Int /\ rb.write_index \in Int
      /\ rb.read_index \in Int /\ Symbols \in Int
  BY SymbolsAssumption DEF Rings, Slots
<1>3. ASSUME NEW k \in Int
      PROVE  Ring!RbRead(rb, k) \in Rings /\ Ring!RbSlot(rb, k) \in Slots
  <2>1. (rb.read_index + k) % Symbols \in Slots
    BY <1>1, <1>2
  <2> QED
    <3> DEFINE r == (rb.read_index + k) % Symbols
               num == rb.num_blocks - k
    <3>1. Ring!RbRead(rb, k) = [rb EXCEPT !.read_index = r, !.num_blocks = num]
      BY DEF Rings, Ring!RbRead
    <3>2. num \in Int
      BY <1>2
    <3> HIDE DEF r, num
    <3>3. Ring!RbRead(rb, k) \in Rings
      BY <2>1, <3>1, <3>2 DEF Rings, r
    <3> QED
      BY <2>1, <3>3 DEF Ring!RbSlot
<1>4. ASSUME NEW s \in Int
      PROVE  Ring!RbLost(rb, s) \in Int /\ Ring!RbInsert(rb, s) \in Rings
  <2>1. Ring!RbShift(rb, s) \in Int
    BY <1>2 DEF Ring!RbShift
  <2>2. (rb.write_index + Ring!RbShift(rb, s)) % Symbols \in Slots
    BY <1>1, <1>2, <2>1
  <2>3. Ring!RbInsert(rb, s) \in Rings
    <3> DEFINE shift == Ring!RbShift(rb, s)
               next == (rb.write_index + shift) % Symbols
               num == IF Symbols - rb.num_blocks >= shift THEN rb.num_blocks + shift ELSE Symbols
               read == IF Symbols - rb.num_blocks >= shift THEN rb.read_index ELSE next
    <3>1. num \in Int /\ read \in Slots /\ next \in Slots
      BY <1>2, <2>1, <2>2 DEF Rings
    <3>2. shift # 0 => Ring!RbInsert(rb, s) =
            [rb EXCEPT !.write_seqno = s, !.write_index = next, !.num_blocks = num,
                       !.read_index = read]
      <4> HIDE DEF shift
      <4> QED
        BY DEF Rings, Ring!RbInsert, shift
    <3>3. shift = 0 => Ring!RbInsert(rb, s) = rb
      BY DEF Ring!RbInsert
    <3> HIDE DEF shift, next, num, read
    <3> QED
      BY <3>1, <3>2, <3>3 DEF Rings
  <2>4. Ring!RbLost(rb, s) \in Int
    BY <1>2, <2>1 DEF Ring!RbLost
  <2> QED
    BY <2>3, <2>4
<1>5. Ring!RbReadSeqno(rb) \in Int
  BY <1>2 DEF Ring!RbReadSeqno
<1> QED
  BY <1>3, <1>4, <1>5


LEMMA SinkEdit ==
  ASSUME NEW d, SinkNumbers(d), NEW n,
         DOMAIN n = DOMAIN d, n = [x \in DOMAIN d |-> n[x]],
         \A x \in DOMAIN d \ SinkChanges : n[x] = d[x],
         n.rb \in Rings, n.flush \in Int, n.has_source \in BOOLEAN,
         n.queue \in Seq(Int), n.read \in Seq(Int)
  PROVE  SinkNumbers(n) /\ SinkSame(n, d)
<1>1. n.seq = d.seq
  BY DEF SinkNumbers, SinkShape, SinkFields, SinkChanges
<1> QED
  BY <1>1 DEF SinkNumbers, SinkShape, SinkSame

LEMMA SinkSameTrans ==
  ASSUME NEW d, NEW m, NEW n, SinkSame(m, d), SinkSame(n, m)
  PROVE  SinkSame(n, d)
BY DEF SinkSame

LEMMA DecReadableType ==
  ASSUME NEW d, SinkNumbers(d)
  PROVE  DecReadable(d) \in SUBSET (0 .. d.rb.num_blocks - 1) /\ d.rb.num_blocks \in Int
BY DEF DecReadable, SinkNumbers, Rings

LEMMA DecMoveToNextNumbers ==
  ASSUME NEW d, SinkNumbers(d)
  PROVE  SinkNumbers(DecMoveToNext(d)) /\ SinkSame(DecMoveToNext(d), d)
<1> DEFINE waits == {k \in 0 .. d.rb.num_blocks - 1 : Ring!RbReadSeqno(d.rb) + k = d.flush}
           stops == DecReadable(d) \cup waits
           k == IF stops = {} THEN d.rb.num_blocks ELSE SmallestIn(stops)
           head == k \in DecReadable(d)
           moved == [d EXCEPT !.rb = Ring!RbRead(@, k), !.has_source = head]
           n == [moved EXCEPT !.flush = DecFlushAfter(moved)]
<1>1. k \in Int
  <2>1. stops \in SUBSET (0 .. d.rb.num_blocks - 1) /\ d.rb.num_blocks \in Int
    BY DecReadableType
  <2>2. stops # {} => SmallestIn(stops) \in stops
    <3> HIDE DEF stops
    <3>1. 0 \in Int /\ d.rb.num_blocks - 1 \in Int
      BY <2>1
    <3> QED
      BY <2>1, <3>1, SmallestOf
  <2>3. stops # {} => SmallestIn(stops) \in Int
    <3> HIDE DEF stops
    <3>1. 0 .. d.rb.num_blocks - 1 \subseteq Int
      BY <2>1
    <3> QED
      BY <2>1, <2>2, <3>1, Zenon
  <2> QED
    BY <2>1, <2>3, Zenon
<1>2. Ring!RbRead(d.rb, k) \in Rings
  <2> HIDE DEF k
  <2> QED
    BY <1>1, RingNumbers DEF SinkNumbers
<1>3. head \in BOOLEAN
  OBVIOUS
<1>4. DecMoveToNext(d) = n
  BY DEF DecMoveToNext
<1> HIDE DEF k, head
<1>5. /\ DOMAIN moved = DOMAIN d /\ moved = [x \in DOMAIN d |-> moved[x]]
      /\ moved.rb = Ring!RbRead(d.rb, k) /\ moved.has_source = head
      /\ \A x \in DOMAIN d \ {"rb", "has_source"} : moved[x] = d[x]
  BY DEF SinkNumbers, SinkShape, SinkFields
<1> HIDE DEF moved
<1>6. moved.rb \in Rings /\ moved.has_source \in BOOLEAN /\ moved.flush \in Int
      /\ moved.queue \in Seq(Int) /\ moved.read \in Seq(Int)
  BY <1>2, <1>3, <1>5 DEF SinkNumbers, SinkShape, SinkFields
<1>7. DecFlushAfter(moved) \in Int
  BY <1>6 DEF DecFlushAfter
<1>8. /\ DOMAIN n = DOMAIN d /\ n = [x \in DOMAIN d |-> n[x]]
      /\ n.flush = DecFlushAfter(moved)
      /\ \A x \in DOMAIN d \ {"flush"} : n[x] = moved[x]
  BY <1>5 DEF SinkNumbers, SinkShape, SinkFields
<1> HIDE DEF n
<1>9. n.rb = moved.rb /\ n.has_source = moved.has_source /\ n.queue = moved.queue
      /\ n.read = moved.read
  BY <1>8 DEF SinkNumbers, SinkShape, SinkFields
<1>10. \A x \in DOMAIN d \ SinkChanges : n[x] = d[x]
  BY <1>5, <1>8 DEF SinkChanges
<1> QED
  BY <1>4, <1>6, <1>7, <1>8, <1>9, <1>10, SinkEdit

LEMMA DecGetSourceNumbers ==
  ASSUME NEW d, SinkNumbers(d)
  PROVE  SinkNumbers(DecGetSource(d)) /\ SinkSame(DecGetSource(d), d)
<1>1. CASE d.queue # <<>>
  <2> DEFINE n == [d EXCEPT !.read = Append(@, Head(d.queue)), !.queue = Tail(@)]
  <2>1. d.queue \in Seq(Int) /\ d.read \in Seq(Int)
    BY DEF SinkNumbers
  <2>2. /\ DOMAIN n = DOMAIN d /\ n = [x \in DOMAIN d |-> n[x]]
        /\ n.read = Append(d.read, Head(d.queue)) /\ n.queue = Tail(d.queue)
        /\ n.rb = d.rb /\ n.flush = d.flush /\ n.has_source = d.has_source
    BY DEF SinkNumbers, SinkShape, SinkFields
  <2>3. \A x \in DOMAIN d \ SinkChanges : n[x] = d[x]
    BY DEF SinkNumbers, SinkShape, SinkChanges
  <2>4. DecGetSource(d) = n
    BY <1>1 DEF DecGetSource
  <2> HIDE DEF n
  <2>5. n.read \in Seq(Int) /\ n.queue \in Seq(Int)
    <3>1. Head(d.queue) \in Int /\ Tail(d.queue) \in Seq(Int)
      BY <1>1, <2>1, HeadTailProperties
    <3>2. Append(d.read, Head(d.queue)) \in Seq(Int)
      BY <2>1, <3>1, AppendProperties
    <3> QED
      BY <2>2, <3>1, <3>2
  <2>6. d.rb \in Rings /\ d.flush \in Int /\ d.has_source \in BOOLEAN
    BY DEF SinkNumbers
  <2> QED
    BY <2>2, <2>3, <2>4, <2>5, <2>6, SinkEdit
<1>2. CASE d.queue = <<>>
  <2> DEFINE s == SymbolAt(d.seq, Ring!RbSlot(d.rb, 0))
             n == [d EXCEPT !.read = Append(@, s),
                            !.rb = Ring!RbRead(@, 1),
                            !.has_source = FALSE]
  <2>1. d.rb \in Rings /\ d.flush \in Int /\ d.queue \in Seq(Int) /\ d.read \in Seq(Int)
        /\ d.seq \in Int
    BY DEF SinkNumbers
  <2>2. Ring!RbSlot(d.rb, 0) \in Slots /\ Ring!RbRead(d.rb, 1) \in Rings
    <3>1. \A k \in Int : Ring!RbRead(d.rb, k) \in Rings /\ Ring!RbSlot(d.rb, k) \in Slots
      BY <2>1, RingNumbers
    <3> QED
      BY <3>1
  <2>3. s \in Int
    BY <2>1, <2>2, SymbolAtSlot
  <2>4. DecGetSource(d) = DecMoveToNext(n)
    BY <1>2 DEF DecGetSource
  <2> HIDE DEF s
  <2>5. /\ DOMAIN n = DOMAIN d /\ n = [x \in DOMAIN d |-> n[x]]
        /\ n.read = Append(d.read, s) /\ n.queue = d.queue
        /\ n.rb = Ring!RbRead(d.rb, 1) /\ n.flush = d.flush /\ n.has_source = FALSE
    BY DEF SinkNumbers, SinkShape, SinkFields
  <2>6. \A x \in DOMAIN d \ SinkChanges : n[x] = d[x]
    BY DEF SinkNumbers, SinkShape, SinkChanges
  <2> HIDE DEF n
  <2>7. n.read \in Seq(Int)
    <3>1. Append(d.read, s) \in Seq(Int)
      BY <2>1, <2>3, AppendProperties
    <3> QED
      BY <2>5, <3>1
  <2>8. SinkNumbers(n) /\ SinkSame(n, d)
    BY <2>1, <2>2, <2>5, <2>6, <2>7, SinkEdit
  <2>9. SinkNumbers(DecMoveToNext(n)) /\ SinkSame(DecMoveToNext(n), n)
    BY <2>8, DecMoveToNextNumbers
  <2> QED
    BY <2>4, <2>8, <2>9, SinkSameTrans
<1> QED
  BY <1>1, <1>2

(* An eager consumer takes one symbol after the other: what every one of   *)
(* the calls preserves holds when it is done.                              *)
LEMMA SourceReadyIn ==
  ASSUME NEW T, NEW d \in T, \A x \in T : DecHasSource(x) => DecGetSource(x) \in T
  PROVE  DecSourceReady(d) \in T
<1> DEFINE K == 2 * Symbols
           slots == [n \in 1 .. K |-> n]
           take(x, n) == IF DecHasSource(x) THEN DecGetSource(x) ELSE x
           st == [x \in (1 .. K) \X T |-> take(x[2], slots[x[1]])]
           Rec(g) == [s \in SUBSET (1 .. K) |->
                       IF s = {} THEN d ELSE take(g[s \ {Max(s)}], slots[Max(s)])]
           it == CHOOSE g : g = Rec(g)
<1>1. K \in Nat
  BY SymbolsAssumption
<1>2. \A x \in T : \A k \in 1 .. K : take(x, slots[k]) \in T
  OBVIOUS
<1>3. st \in [(1 .. K) \X T -> T]
  <2> HIDE DEF take, slots, K
  <2> QED
    BY <1>2
<1>4. PICK g \in [SUBSET (1 .. K) -> T] : Folds(g, K, d, st)
  <2> HIDE DEF st, K, take, slots, Rec, it
  <2> QED
    BY <1>1, <1>3, FoldExists
<1>5. g = Rec(g)
  <2> HIDE DEF take, slots, K
  <2>1. ASSUME NEW s \in SUBSET (1 .. K)
        PROVE  g[s] = IF s = {} THEN d ELSE take(g[s \ {Max(s)}], slots[Max(s)])
    <3>1. CASE s = {}
      BY <3>1, <1>4 DEF Folds
    <3>2. CASE s # {}
      <4>1. Max(s) \in 1 .. K /\ s \ {Max(s)} \in SUBSET (1 .. K)
        BY <1>1, <3>2, MaxOf
      <4>2. g[s \ {Max(s)}] \in T
        BY <4>1
      <4>3. st[<<Max(s), g[s \ {Max(s)}]>>] = take(g[s \ {Max(s)}], slots[Max(s)])
        BY <4>1, <4>2
      <4> QED
        BY <3>2, <1>4, <4>3 DEF Folds
    <3> QED
      BY <3>1, <3>2
  <2> QED
    BY <2>1
<1>6. it = Rec(it)
  <2> HIDE DEF Rec
  <2> QED
    BY <1>5
<1>7. DecSourceReady(d) \in {d, it[1 .. K]}
  <2>1. DOMAIN slots = 1 .. K
    OBVIOUS
  <2>2. FoldLeft(take, d, slots) = it[1 .. K]
    BY <2>1 DEF FoldLeft, MapThenFoldSet
  <2> HIDE DEF it
  <2> QED
    BY <2>2 DEF DecSourceReady
<1>8. it[{}] \in T
  <2>1. {} \in SUBSET (1 .. K)
    OBVIOUS
  <2> HIDE DEF it, take, slots, K
  <2> QED
    BY <1>6, <2>1
<1>9. ASSUME NEW s \in SUBSET (1 .. K), s # {}, it[s \ {Max(s)}] \in T PROVE it[s] \in T
  <2>1. Max(s) \in 1 .. K
    <3> HIDE DEF K
    <3> QED
      BY <1>1, <1>9, MaxOf
  <2>2. it[s] = take(it[s \ {Max(s)}], slots[Max(s)])
    <3> HIDE DEF it, take, slots, K
    <3> QED
      BY <1>6, <1>9
  <2> HIDE DEF it, take, slots, K
  <2> QED
    BY <1>9, <2>1, <2>2, <1>2
<1>10. it[1 .. K] \in T
  <2> HIDE DEF it, take, slots, K
  <2> QED
    BY <1>8, <1>9, <1>1, FoldTyped
<1> QED
  BY <1>7, <1>10

(* The sinks of a history: all that may become of d in a call.             *)
SinkSet(d) ==
  {n \in [DOMAIN d -> UNION {Rings, Int, BOOLEAN, Seq(Int), {d[x] : x \in DOMAIN d}}] :
     SinkNumbers(n) /\ SinkSame(n, d)}

LEMMA SinkMember ==
  ASSUME NEW d, NEW n
  PROVE  n \in SinkSet(d) <=> SinkNumbers(n) /\ SinkSame(n, d)
<1> SUFFICES ASSUME SinkNumbers(n), SinkSame(n, d)
             PROVE  n \in [DOMAIN d -> UNION {Rings, Int, BOOLEAN, Seq(Int),
                                             {d[x] : x \in DOMAIN d}}]
  BY DEF SinkSet
<1>1. DOMAIN n = DOMAIN d /\ n = [x \in DOMAIN d |-> n[x]]
  BY DEF SinkNumbers, SinkShape, SinkSame
<1>2. n.rb \in Rings /\ n.flush \in Int /\ n.has_source \in BOOLEAN
      /\ n.queue \in Seq(Int) /\ n.read \in Seq(Int)
  BY DEF SinkNumbers
<1>3. \A x \in DOMAIN d \ SinkChanges : n[x] = d[x]
  BY DEF SinkSame
<1>4. ASSUME NEW x \in DOMAIN d
      PROVE  n[x] \in UNION {Rings, Int, BOOLEAN, Seq(Int), {d[y] : y \in DOMAIN d}}
  <2>1. CASE x \in SinkChanges
    BY <1>2, <2>1 DEF SinkChanges
  <2>2. CASE x \notin SinkChanges
    BY <1>3, <2>2
  <2> QED
    BY <2>1, <2>2
<1> QED
  BY <1>1, <1>4

LEMMA DecSourceReadyNumbers ==
  ASSUME NEW d, SinkNumbers(d)
  PROVE  SinkNumbers(DecSourceReady(d)) /\ SinkSame(DecSourceReady(d), d)
<1> DEFINE T == SinkSet(d)
<1>1. d \in T
  BY SinkMember DEF SinkSame
<1>2. ASSUME NEW x \in T PROVE DecGetSource(x) \in T
  <2>1. SinkNumbers(x) /\ SinkSame(x, d)
    BY SinkMember
  <2>2. SinkNumbers(DecGetSource(x)) /\ SinkSame(DecGetSource(x), x)
    BY <2>1, DecGetSourceNumbers
  <2> QED
    BY <2>1, <2>2, SinkSameTrans, SinkMember
<1> HIDE DEF T
<1>3. DecSourceReady(d) \in T
  BY <1>1, <1>2, SourceReadyIn
<1> QED
  BY <1>3, SinkMember DEF T


LEMMA DecFlushSourceNumbers ==
  ASSUME NEW d, SinkNumbers(d)
  PROVE  LET ready == [d EXCEPT !.flush = d.seq]
         IN /\ SinkNumbers(ready) /\ SinkSame(ready, d)
            /\ SinkNumbers(DecMoveToNext(ready)) /\ SinkSame(DecMoveToNext(ready), d)
<1> DEFINE ready == [d EXCEPT !.flush = d.seq]
<1>1. /\ DOMAIN ready = DOMAIN d /\ ready = [x \in DOMAIN d |-> ready[x]]
      /\ ready.flush = d.seq /\ ready.queue = d.queue /\ ready.read = d.read
      /\ ready.rb = d.rb /\ ready.has_source = d.has_source
  BY DEF SinkNumbers, SinkShape, SinkFields
<1>2. \A x \in DOMAIN d \ SinkChanges : ready[x] = d[x]
  BY DEF SinkNumbers, SinkShape, SinkChanges
<1> HIDE DEF ready
<1>3. SinkNumbers(ready) /\ SinkSame(ready, d)
  <2>1. d.rb \in Rings /\ d.has_source \in BOOLEAN /\ d.seq \in Int /\ d.queue \in Seq(Int)
        /\ d.read \in Seq(Int)
    BY DEF SinkNumbers
  <2> QED
    BY <1>1, <1>2, <2>1, SinkEdit
<1>4. SinkNumbers(DecMoveToNext(ready)) /\ SinkSame(DecMoveToNext(ready), ready)
  BY <1>3, DecMoveToNextNumbers
<1>5. SinkSame(DecMoveToNext(ready), d)
  BY <1>3, <1>4, SinkSameTrans
<1> QED
  BY <1>3, <1>4, <1>5 DEF ready

(* Blocks that leave the ring are queued, as many as are asked for.        *)
LEMMA DecQueueNumbers ==
  ASSUME NEW x, SinkNumbers(x), NEW s \in Int, NEW lost \in Int
  PROVE  SinkNumbers(DecQueue(x, s, lost)) /\ SinkSame(DecQueue(x, s, lost), x)
<1> DEFINE S == DecReadable(x) \cap 0 .. lost - 1
           decoded == Sorted(S)
           rest == [x EXCEPT !.rb = Ring!RbRead(@, lost)]
           queue == [n \in DOMAIN decoded |->
                       SymbolAt(x.seq, Ring!RbSlot(x.rb, decoded[n]))]
           flush == IF Ring!RbReadSeqno(rest.rb) + Symbols < s
                    THEN Ring!RbReadSeqno(rest.rb) ELSE x.flush
           n == DecQueue(x, s, lost)
<1>1. x.rb \in Rings /\ x.queue \in Seq(Int) /\ x.read \in Seq(Int) /\ x.has_source \in BOOLEAN
      /\ x.seq \in Int /\ x.flush \in Int
  BY DEF SinkNumbers
<1>3. Ring!RbRead(x.rb, lost) \in Rings
  BY <1>1, RingNumbers
<1>4. queue \in Seq(Int)
  <2>1. PICK K \in Nat : S \in SUBSET (0 .. K - 1)
    <3>1. CASE lost >= 0
      BY <3>1
    <3>2. CASE ~(lost >= 0)
      <4>1. S = {}
        BY <3>2
      <4> QED
        BY <4>1
    <3> QED
      BY <3>1, <3>2
  <2> HIDE DEF S
  <2>2. decoded \in [1 .. Cardinality(S) -> S] /\ Cardinality(S) \in Nat
    BY <2>1, SortedOf
  <2>3. S \subseteq Int
    BY <2>1
  <2> HIDE DEF decoded
  <2>4. ASSUME NEW m \in 1 .. Cardinality(S)
        PROVE  SymbolAt(x.seq, Ring!RbSlot(x.rb, decoded[m])) \in Int
    <3>1. decoded[m] \in Int
      BY <2>2, <2>3
    <3>2. Ring!RbSlot(x.rb, decoded[m]) \in Slots
      BY <1>1, <3>1, RingNumbers
    <3> QED
      BY <1>1, <3>2, SymbolAtSlot
  <2>5. DOMAIN decoded = 1 .. Cardinality(S)
    BY <2>2
  <2>6. queue \in [1 .. Cardinality(S) -> Int]
    BY <2>4, <2>5
  <2> HIDE DEF queue
  <2> QED
    BY <2>2, <2>6, SeqDef
<1>5. flush \in Int
  <2>1. rest.rb = Ring!RbRead(x.rb, lost)
    BY DEF SinkNumbers, SinkShape, SinkFields
  <2> HIDE DEF rest
  <2>2. Ring!RbReadSeqno(rest.rb) \in Int
    BY <1>3, <2>1, RingNumbers
  <2> QED
    BY <1>1, <2>2
<1>6. n = [rest EXCEPT !.queue = queue, !.flush = flush, !.has_source = FALSE]
  <2>1. n = [rest EXCEPT !.queue = queue,
               !.flush = IF Ring!RbReadSeqno(rest.rb) + Symbols < s
                         THEN Ring!RbReadSeqno(rest.rb) ELSE @,
               !.has_source = FALSE]
    BY DEF DecQueue
  <2>2. /\ DOMAIN rest = DOMAIN x /\ rest.flush = x.flush
    BY DEF SinkNumbers, SinkShape, SinkFields
  <2> HIDE DEF n, queue, rest
  <2> QED
    BY <2>1, <2>2 DEF SinkNumbers, SinkShape, SinkFields
<1> HIDE DEF n, queue, flush
<1>7. /\ DOMAIN rest = DOMAIN x /\ rest = [y \in DOMAIN x |-> rest[y]]
      /\ rest.read = x.read /\ rest.rb = Ring!RbRead(x.rb, lost)
      /\ \A y \in DOMAIN x \ {"rb"} : rest[y] = x[y]
  BY DEF SinkNumbers, SinkShape, SinkFields
<1> HIDE DEF rest
<1>8. /\ DOMAIN n = DOMAIN x /\ n = [y \in DOMAIN x |-> n[y]]
      /\ n.flush = flush /\ n.queue = queue /\ n.read = rest.read
      /\ n.rb = rest.rb /\ n.has_source = FALSE
      /\ \A y \in DOMAIN x \ {"queue", "flush", "has_source"} : n[y] = rest[y]
  BY <1>6, <1>7 DEF SinkNumbers, SinkShape, SinkFields
<1>9. \A y \in DOMAIN x \ SinkChanges : n[y] = x[y]
  BY <1>7, <1>8 DEF SinkChanges
<1>10. SinkNumbers(n) /\ SinkSame(n, x)
  BY <1>1, <1>3, <1>4, <1>5, <1>7, <1>8, <1>9, SinkEdit
<1> QED
  BY <1>10 DEF n

LEMMA DecSkipLostNumbers ==
  ASSUME NEW x, SinkNumbers(x), NEW s \in Int
  PROVE  SinkNumbers(DecSkipLost(x, s)) /\ SinkSame(DecSkipLost(x, s), x)
<1> DEFINE lost == Ring!RbLost(x.rb, s)
           stops == DecReadable(x) \cap 0 .. lost - 1
           k == IF stops = {} THEN lost ELSE SmallestIn(stops)
           head == x.has_source \/ stops # {}
           n == DecSkipLost(x, s)
<1>1. x.rb \in Rings /\ x.queue \in Seq(Int) /\ x.read \in Seq(Int) /\ x.has_source \in BOOLEAN
  BY DEF SinkNumbers
<1>2. lost \in Int
  BY <1>1, RingNumbers
<1>3. k \in Int
  <2>1. stops \in SUBSET (0 .. lost - 1) /\ 0 \in Int /\ lost - 1 \in Int
        /\ 0 .. lost - 1 \subseteq Int
    BY <1>2
  <2>2. stops # {} => SmallestIn(stops) \in Int
    <3> HIDE DEF stops
    <3>1. stops # {} => SmallestIn(stops) \in stops
      BY <2>1, SmallestOf
    <3> QED
      BY <2>1, <3>1, Zenon
  <2> QED
    BY <1>2, <2>2, Zenon
<1>4. Ring!RbRead(x.rb, k) \in Rings
  <2> HIDE DEF k
  <2> QED
    BY <1>1, <1>3, RingNumbers
<1>5. n = [x EXCEPT !.flush = s - Symbols, !.rb = Ring!RbRead(@, k), !.has_source = head]
  <2>1. n = [x EXCEPT !.flush = s - Symbols, !.rb = Ring!RbRead(@, k),
                      !.has_source = @ \/ stops # {}]
    BY DEF DecSkipLost
  <2> HIDE DEF n, k, stops
  <2> QED
    BY <2>1 DEF SinkNumbers, SinkShape, SinkFields
<1> HIDE DEF n, k, head
<1>6. /\ DOMAIN n = DOMAIN x /\ n = [y \in DOMAIN x |-> n[y]]
      /\ n.flush = s - Symbols /\ n.queue = x.queue /\ n.read = x.read
      /\ n.rb = Ring!RbRead(x.rb, k) /\ n.has_source = head
  BY <1>5 DEF SinkNumbers, SinkShape, SinkFields
<1>7. \A y \in DOMAIN x \ SinkChanges : n[y] = x[y]
  BY <1>5 DEF SinkNumbers, SinkShape, SinkChanges
<1>8. head \in BOOLEAN /\ s - Symbols \in Int
  BY SymbolsAssumption DEF head
<1>9. SinkNumbers(n) /\ SinkSame(n, x)
  BY <1>1, <1>4, <1>6, <1>7, <1>8, SinkEdit
<1> QED
  BY <1>9 DEF n

LEMMA DecConsumeOldNumbers ==
  ASSUME NEW d, SinkNumbers(d), NEW s \in Int
  PROVE  SinkNumbers(DecConsumeOld(d, s)) /\ SinkSame(DecConsumeOld(d, s), d)
<1>2. ASSUME NEW x, SinkNumbers(x)
      PROVE  SinkNumbers(DecQueueLost(x, s)) /\ SinkSame(DecQueueLost(x, s), x)
  <2>1. Ring!RbLost(x.rb, s) \in Int
    BY <1>2, RingNumbers DEF SinkNumbers
  <2> QED
    BY <1>2, <2>1, DecQueueNumbers DEF DecQueueLost
<1> DEFINE a == DecSkipLost(d, s)
           b == DecSourceReady(a)
           c == DecQueueLost(b, s)
<1>3. SinkNumbers(a) /\ SinkSame(a, d)
  BY DecSkipLostNumbers
<1> HIDE DEF a
<1>4. SinkNumbers(b) /\ SinkSame(b, a)
  BY <1>3, DecSourceReadyNumbers
<1> HIDE DEF b
<1>5. SinkNumbers(c) /\ SinkSame(c, b)
  BY <1>2, <1>4
<1> HIDE DEF c
<1>6. SinkSame(c, d)
  BY <1>3, <1>4, <1>5, SinkSameTrans
<1>7. DecConsumeOld(d, s) \in {d, c}
  BY DEF DecConsumeOld, a, b, c
<1>8. SinkSame(d, d)
  BY DEF SinkSame
<1> QED
  BY <1>5, <1>6, <1>7, <1>8


(* Fields that only a decoder or only a recoder has do not matter.         *)
LEMMA OtherFields ==
  ASSUME NEW d, SinkNumbers(d), NEW n,
         DOMAIN n = DOMAIN d, n = [x \in DOMAIN d |-> n[x]],
         \A x \in SinkFields : n[x] = d[x]
  PROVE  SinkNumbers(n)
<1>1. /\ n.rb = d.rb /\ n.seq = d.seq /\ n.flush = d.flush /\ n.has_source = d.has_source
      /\ n.queue = d.queue /\ n.read = d.read
  BY DEF SinkFields
<1> QED
  BY <1>1 DEF SinkNumbers, SinkShape

LEMMA KodoSeqType ==
  ASSUME NEW seq \in Int, NEW span, NEW pkt, pkt.seq \in Int
  PROVE  KodoSeq(seq, span, pkt) \in Int
BY DEF KodoSeq

(* What a packet does to a sink: kodo and the ring take it, the head is    *)
(* looked at again, and the flush point stays ahead.                       *)
LEMMA SinkReads ==
  ASSUME NEW d, SinkNumbers(d), NEW pkt, pkt.seq \in Int, NEW n,
         DOMAIN n = DOMAIN d, n = [x \in DOMAIN d |-> n[x]],
         n.seq = KodoSeq(d.seq, d.span, pkt), n.rb = Ring!RbInsert(d.rb, pkt.seq),
         n.flush = d.flush, n.has_source = d.has_source, n.queue = d.queue, n.read = d.read,
         NEW ready \in BOOLEAN
  PROVE  LET head == [n EXCEPT !.has_source = ready]
             next == [head EXCEPT !.flush = DecFlushAfter(head)]
         IN /\ SinkNumbers(n) /\ SinkNumbers(next) /\ SinkSame(next, n)
<1> DEFINE head == [n EXCEPT !.has_source = ready]
           next == [head EXCEPT !.flush = DecFlushAfter(head)]
<1>0. /\ d.rb \in Rings /\ d.seq \in Int /\ d.flush \in Int /\ d.has_source \in BOOLEAN
      /\ d.queue \in Seq(Int) /\ d.read \in Seq(Int)
  BY DEF SinkNumbers
<1>1. n.seq \in Int /\ n.rb \in Rings
  <2>1. n.seq \in Int
    BY <1>0, KodoSeqType
  <2>2. \A s \in Int : Ring!RbInsert(d.rb, s) \in Rings
    BY <1>0, RingNumbers
  <2> QED
    BY <2>1, <2>2
<1>2. SinkNumbers(n)
  BY <1>0, <1>1 DEF SinkNumbers, SinkShape
<1>3. /\ DOMAIN head = DOMAIN n /\ head = [x \in DOMAIN n |-> head[x]]
      /\ head.rb = n.rb /\ head.has_source = ready /\ head.flush = n.flush
      /\ head.queue = n.queue /\ head.read = n.read
      /\ \A x \in DOMAIN n \ {"has_source"} : head[x] = n[x]
  BY <1>2 DEF SinkNumbers, SinkShape, SinkFields
<1> HIDE DEF head
<1>4. DecFlushAfter(head) \in Int
  BY <1>0, <1>3 DEF DecFlushAfter
<1>5. /\ DOMAIN next = DOMAIN n /\ next = [x \in DOMAIN n |-> next[x]]
      /\ next.rb = n.rb /\ next.has_source = ready /\ next.flush = DecFlushAfter(head)
      /\ next.queue = n.queue /\ next.read = n.read
      /\ \A x \in DOMAIN n \ {"flush"} : next[x] = head[x]
  BY <1>2, <1>3 DEF SinkNumbers, SinkShape, SinkFields
<1> HIDE DEF next
<1>6. \A x \in DOMAIN n \ SinkChanges : next[x] = n[x]
  BY <1>3, <1>5 DEF SinkChanges
<1>7. SinkNumbers(next) /\ SinkSame(next, n)
  BY <1>0, <1>1, <1>2, <1>4, <1>5, <1>6, SinkEdit
<1> QED
  BY <1>2, <1>7 DEF next, head

LEMMA DecPutCodedNumbers ==
  ASSUME NEW d, SinkNumbers(d), NEW pkt, pkt.seq \in Int
  PROVE  SinkNumbers(DecPutCoded(d, pkt))
<1> DEFINE init == DecInitialize(d, pkt)
           old == DecConsumeOld(init, pkt.seq)
           new == DecRead(old, pkt)
           ready == ~Ring!RbEmpty(new.rb) /\ 0 \in DecReadable(new)
           head == [new EXCEPT !.has_source = ready]
           next == [head EXCEPT !.flush = DecFlushAfter(head)]
           feedback == \/ next.has_feedback \/ pkt.asks \/ pkt.flush
                       \/ DecFeedbackRequired(new, Rank(old.span), old.seq)
           last == [next EXCEPT
             !.has_feedback = \/ @ \/ pkt.asks \/ pkt.flush
                              \/ DecFeedbackRequired(new, Rank(old.span), old.seq),
             !.fb_timer = @ \/ (opt.feedback /\ opt.fb_timeout),
             !.timer = @ \/ (~opt.feedback /\ opt.dec_timeout /\ next.flush # next.seq)]
<1>1. SinkNumbers(init)
  <2> DEFINE n == [d EXCEPT !.initialized = TRUE, !.flush = pkt.seq - 1]
  <2>1. /\ DOMAIN n = DOMAIN d /\ n = [x \in DOMAIN d |-> n[x]]
        /\ n.flush = pkt.seq - 1 /\ n.rb = d.rb /\ n.seq = d.seq
        /\ n.has_source = d.has_source /\ n.queue = d.queue /\ n.read = d.read
    BY DEF SinkNumbers, SinkShape, SinkFields
  <2> HIDE DEF n
  <2>2. pkt.seq - 1 \in Int
    OBVIOUS
  <2>3. SinkNumbers(n)
    BY <2>1, <2>2 DEF SinkNumbers, SinkShape
  <2> QED
    BY <2>3 DEF DecInitialize, n
<1> HIDE DEF init
<1>2. SinkNumbers(old)
  BY <1>1, DecConsumeOldNumbers
<1> HIDE DEF old
<1>3. /\ DOMAIN new = DOMAIN old /\ new = [x \in DOMAIN old |-> new[x]]
      /\ new.seq = KodoSeq(old.seq, old.span, pkt)
      /\ new.rb = Ring!RbInsert(old.rb, pkt.seq)
      /\ new.flush = old.flush /\ new.has_source = old.has_source
      /\ new.queue = old.queue /\ new.read = old.read
  BY <1>2 DEF DecRead, SinkNumbers, SinkShape, SinkFields
<1>4. ready \in BOOLEAN
  OBVIOUS
<1>5. DecPutCoded(d, pkt) = DecSourceReady(last)
  BY DEF DecPutCoded, init, old
<1> HIDE DEF new, ready
<1>6. SinkNumbers(next)
  BY <1>2, <1>3, <1>4, SinkReads
<1> HIDE DEF next
<1>7. SinkNumbers(last)
  <2>1. /\ DOMAIN last = DOMAIN next /\ last = [x \in DOMAIN next |-> last[x]]
        /\ \A x \in SinkFields : last[x] = next[x]
    BY <1>6 DEF SinkNumbers, SinkShape, SinkFields
  <2> HIDE DEF last
  <2> QED
    BY <1>6, <2>1, OtherFields
<1> HIDE DEF last
<1> QED
  BY <1>5, <1>7, DecSourceReadyNumbers

LEMMA DecTimeoutNumbers ==
  ASSUME NEW d, SinkNumbers(d)
  PROVE  /\ SinkNumbers(DecFlushSource(d)) /\ SinkNumbers(DecTimeout(d))
         /\ SinkNumbers(DecFbTimeout(d))
<1>1. ASSUME NEW x, SinkNumbers(x) PROVE SinkNumbers(DecFlushSource(x))
  <2> DEFINE off == [x EXCEPT !.fb_timer = FALSE]
             ready == [off EXCEPT !.flush = off.seq]
  <2>1. /\ DOMAIN off = DOMAIN x /\ off = [y \in DOMAIN x |-> off[y]]
        /\ \A y \in SinkFields : off[y] = x[y]
    BY <1>1 DEF SinkNumbers, SinkShape, SinkFields
  <2>2. off.seq = x.seq
    BY <2>1 DEF SinkFields
  <2>3. [x EXCEPT !.fb_timer = FALSE, !.flush = x.seq] = ready
    BY <2>2
  <2>4. DecFlushSource(x) = IF Ring!RbEmpty(x.rb) THEN off
                            ELSE DecSourceReady(IF x.has_source THEN ready
                                                ELSE DecMoveToNext(ready))
    BY <2>3 DEF DecFlushSource
  <2> HIDE DEF off
  <2>5. SinkNumbers(off)
    BY <1>1, <2>1, OtherFields
  <2>6. SinkNumbers(ready) /\ SinkNumbers(DecMoveToNext(ready))
    BY <2>5, DecFlushSourceNumbers
  <2> HIDE DEF ready
  <2>7. SinkNumbers(DecSourceReady(ready)) /\ SinkNumbers(DecSourceReady(DecMoveToNext(ready)))
    BY <2>6, DecSourceReadyNumbers
  <2> QED
    BY <2>4, <2>5, <2>7
<1>2. ASSUME NEW n, DOMAIN n = DOMAIN d, n = [x \in DOMAIN d |-> n[x]],
             \A x \in SinkFields : n[x] = d[x]
      PROVE  SinkNumbers(n) /\ SinkNumbers(DecFlushSource(n))
  BY <1>1, <1>2, OtherFields
<1>3. SinkNumbers(DecTimeout(d))
  <2> DEFINE n == [d EXCEPT !.timer = FALSE]
  <2>1. DOMAIN n = DOMAIN d /\ n = [x \in DOMAIN d |-> n[x]] /\ \A x \in SinkFields : n[x] = d[x]
    BY DEF SinkNumbers, SinkShape, SinkFields
  <2>2. DecTimeout(d) = DecFlushSource(n)
    BY DEF DecTimeout
  <2> HIDE DEF n
  <2> QED
    BY <1>2, <2>1, <2>2
<1>4. SinkNumbers(DecFbTimeout(d))
  <2> DEFINE n == [d EXCEPT !.fb_timer = FALSE]
             m == [n EXCEPT !.feedback_tx_attempts = @ + 1, !.has_feedback = TRUE]
  <2>1. DOMAIN n = DOMAIN d /\ n = [x \in DOMAIN d |-> n[x]] /\ \A x \in SinkFields : n[x] = d[x]
    BY DEF SinkNumbers, SinkShape, SinkFields
  <2>2. DecFbTimeout(d) \in {DecFlushSource(n), m}
    BY DEF DecFbTimeout
  <2> HIDE DEF n
  <2>3. DOMAIN m = DOMAIN d /\ m = [x \in DOMAIN d |-> m[x]] /\ \A x \in SinkFields : m[x] = d[x]
    BY <2>1 DEF SinkNumbers, SinkShape, SinkFields
  <2> HIDE DEF m
  <2> QED
    BY <1>2, <2>1, <2>2, <2>3
<1> QED
  BY <1>1, <1>3, <1>4

LEMMA DecFeedbackNumbers ==
  ASSUME NEW d, SinkNumbers(d)
  PROVE  /\ SinkNumbers(DecGetFeedback(d))
         /\ DecFeedback(d).seq \in Int /\ DecFeedback(d).first_missing \in Int
<1>1. SinkNumbers(DecGetFeedback(d))
  <2> DEFINE n == DecGetFeedback(d)
  <2>1. DOMAIN n = DOMAIN d /\ n = [x \in DOMAIN d |-> n[x]] /\ \A x \in SinkFields : n[x] = d[x]
    BY DEF DecGetFeedback, SinkNumbers, SinkShape, SinkFields
  <2> HIDE DEF n
  <2>2. SinkNumbers(n)
    BY <2>1, OtherFields
  <2> QED
    BY <2>2 DEF n
<1>2. d.seq \in Int /\ d.rb \in Rings
  BY DEF SinkNumbers
<1>3. DecFirstMissing(d) \in Int
  <2> DEFINE undecoded == {s \in DecWindow(d) : ~DecDecoded(d, Slot(s))}
             a == Ring!RbReadSeqno(d.rb)
  <2>0. Ring!RbReadSeqno(d.rb) \in Int
    BY <1>2, RingNumbers
  <2>1. a \in Int /\ d.seq - 1 \in Int
    BY <1>2, <2>0
  <2>2. undecoded \in SUBSET (a .. d.seq - 1) /\ a .. d.seq - 1 \subseteq Int
    BY <2>1 DEF DecWindow
  <2>3. DecFirstMissing(d) = IF undecoded = {} THEN d.seq ELSE SmallestIn(undecoded)
    BY DEF DecFirstMissing
  <2> HIDE DEF undecoded, a
  <2>4. undecoded # {} => SmallestIn(undecoded) \in undecoded
    BY <2>1, <2>2, SmallestOf
  <2>5. undecoded # {} => SmallestIn(undecoded) \in Int
    BY <2>2, <2>4, Zenon
  <2> QED
    BY <1>2, <2>3, <2>5
<1> QED
  BY <1>1, <1>2, <1>3 DEF DecFeedback



-----------------------------------------------------------------------------
(* The recoder is a sink that also keeps the last feedback.                *)
RecNumbers(r) ==
  /\ SinkNumbers(r)
  /\ "feedback_buffer" \in DOMAIN r
  /\ r.feedback_buffer.seq \in Int /\ r.feedback_buffer.first_missing \in Int

RecKeeps == SinkFields \cup {"feedback_buffer"}

RecAlike(n, r) ==
  /\ DOMAIN n = DOMAIN r /\ n = [x \in DOMAIN r |-> n[x]]
  /\ \A x \in RecKeeps : n[x] = r[x]

(* What changes no more than the rate control or the marks of a recoder    *)
(* leaves its numbers alone.                                               *)
LEMMA RecAlikeNumbers ==
  ASSUME NEW r, RecNumbers(r), NEW n, RecAlike(n, r)
  PROVE  RecNumbers(n) /\ n.feedback_buffer = r.feedback_buffer
<1>1. SinkNumbers(n)
  BY OtherFields DEF RecNumbers, RecAlike, RecKeeps
<1>2. n.feedback_buffer = r.feedback_buffer
  BY DEF RecAlike, RecKeeps
<1> QED
  BY <1>1, <1>2 DEF RecNumbers, RecAlike

(* And what the decoder's operators do to it leaves the feedback alone.    *)
LEMMA RecSinkNumbers ==
  ASSUME NEW r, RecNumbers(r), NEW n, SinkNumbers(n), SinkSame(n, r)
  PROVE  RecNumbers(n) /\ n.feedback_buffer = r.feedback_buffer
<1>1. n.feedback_buffer = r.feedback_buffer
  BY DEF SinkSame, RecNumbers, SinkChanges
<1> QED
  BY <1>1 DEF RecNumbers, SinkSame

LEMMA RecAlikeEdits ==
  ASSUME NEW r, RecNumbers(r), NEW v
  PROVE  /\ RecAlike(r, r)
         /\ RecAlike([r EXCEPT !.rc = v], r)
         /\ RecAlike([r EXCEPT !.enabled = v], r)
         /\ RecAlike([r EXCEPT !.last_packet_no = v], r)
         /\ RecAlike([r EXCEPT !.flush_next = v], r)
         /\ RecAlike([r EXCEPT !.flush_packet_no = v], r)
         /\ RecAlike([r EXCEPT !.last_feedback_no = v], r)
         /\ RecAlike([r EXCEPT !.has_feedback = v], r)
         /\ RecAlike([r EXCEPT !.timer = v], r)
BY DEF RecNumbers, SinkNumbers, SinkShape, RecAlike, RecKeeps, SinkFields

LEMMA RecAlikeTrans ==
  ASSUME NEW r, NEW m, NEW n, RecAlike(m, r), RecAlike(n, m)
  PROVE  RecAlike(n, r)
BY DEF RecAlike

LEMMA RecForwardWindowNumbers ==
  ASSUME NEW r, RecNumbers(r), NEW k
  PROVE  RecAlike(RecForwardWindow(r, k), r)
<1> DEFINE moved == AtMost(k, Symbols)
           new   == AtMost(moved, opt.rec_window)
           old   == AtMost(moved, Symbols - opt.rec_window)
           end   == r.seq - opt.rec_window
           v == (r.enabled \cup {Slot(s) : s \in r.seq - new .. r.seq - 1})
                             \ {Slot(s) : s \in end - old .. end - 1}
<1>1. RecForwardWindow(r, k) = [r EXCEPT !.enabled = v]
  BY DEF RecForwardWindow
<1> HIDE DEF v
<1> QED
  BY <1>1, RecAlikeEdits

LEMMA RecQueueLostNumbers ==
  ASSUME NEW r, SinkNumbers(r), NEW s \in Int, NEW lost \in Int
  PROVE  SinkNumbers(RecQueueLost(r, s, lost)) /\ SinkSame(RecQueueLost(r, s, lost), r)
<1> DEFINE blocks == AtMost(lost, r.rb.num_blocks)
           none == IF DecDecoded(r, 0) THEN lost - blocks ELSE 0
           again == [n \in 1 .. none |-> SymbolAt(r.seq, 0)]
           m == DecQueue(r, s, blocks)
           n == RecQueueLost(r, s, lost)
<1>1. r.rb.num_blocks \in Int /\ r.seq \in Int
  BY DEF SinkNumbers, Rings
<1>2. blocks \in Int
  BY <1>1 DEF AtMost
<1>3. none \in Int
  BY <1>2
<1> HIDE DEF blocks
<1>4. SinkNumbers(m) /\ SinkSame(m, r)
  BY <1>2, DecQueueNumbers
<1> HIDE DEF none
<1>5. again \in Seq(Int)
  <2>1. SymbolAt(r.seq, 0) \in Int
    <3>1. 0 \in Slots
      BY SymbolsAssumption DEF Slots
    <3> QED
      BY <1>1, <3>1, SymbolAtSlot
  <2>2. PICK k \in Nat : 1 .. none = 1 .. k
    <3>1. CASE none >= 0
      BY <1>3, <3>1
    <3>2. CASE ~(none >= 0)
      <4>1. 1 .. none = 1 .. 0
        BY <1>3, <3>2
      <4> QED
        BY <4>1
    <3> QED
      BY <3>1, <3>2
  <2>3. again \in [1 .. k -> Int]
    BY <2>1, <2>2
  <2> HIDE DEF again
  <2> QED
    BY <2>3, SeqDef
<1>6. n = [m EXCEPT !.queue = @ \o again]
  BY DEF RecQueueLost, blocks, none
<1> HIDE DEF again, m, n
<1>7. m.queue \o again \in Seq(Int)
  <2>1. m.queue \in Seq(Int)
    BY <1>4 DEF SinkNumbers
  <2> QED
    BY <1>5, <2>1
<1>8. /\ DOMAIN n = DOMAIN m /\ n = [x \in DOMAIN m |-> n[x]]
      /\ n.queue = m.queue \o again /\ n.read = m.read /\ n.rb = m.rb
      /\ n.flush = m.flush /\ n.has_source = m.has_source
      /\ \A x \in DOMAIN m \ SinkChanges : n[x] = m[x]
  BY <1>4, <1>6 DEF SinkNumbers, SinkShape, SinkFields, SinkChanges
<1>9. /\ m.rb \in Rings /\ m.flush \in Int /\ m.has_source \in BOOLEAN
      /\ m.read \in Seq(Int)
  BY <1>4 DEF SinkNumbers
<1>10. SinkNumbers(n) /\ SinkSame(n, m)
  BY <1>4, <1>7, <1>8, <1>9, SinkEdit
<1>11. SinkSame(n, r)
  BY <1>4, <1>10, SinkSameTrans
<1> QED
  BY <1>10, <1>11 DEF n

LEMMA RecConsumeOldNumbers ==
  ASSUME NEW r, RecNumbers(r), NEW s \in Int
  PROVE  /\ RecNumbers(RecConsumeOld(r, s))
         /\ RecConsumeOld(r, s).feedback_buffer = r.feedback_buffer
<1> DEFINE Holds(x) == RecNumbers(x) /\ x.feedback_buffer = r.feedback_buffer
           v == Advance(r.rc, Ring!RbShift(r.rb, s))
           n == [r EXCEPT !.rc = v]
           a == DecSkipLost(n, s)
           b == DecSourceReady(a)
           lost == Ring!RbLost(r.rb, s) - (r.rb.num_blocks - a.rb.num_blocks)
           c == RecQueueLost(b, s, lost)
<1>1. RecConsumeOld(r, s) \in {r, n, c}
  BY DEF RecConsumeOld
<1> HIDE DEF v
<1>2. Holds(n)
  BY RecAlikeEdits, RecAlikeNumbers
<1> HIDE DEF n
<1>3. SinkNumbers(a) /\ SinkSame(a, n)
  BY <1>2, DecSkipLostNumbers DEF RecNumbers
<1>4. lost \in Int
  <2>1. r.rb \in Rings /\ a.rb \in Rings
    BY <1>3 DEF RecNumbers, SinkNumbers
  <2>2. Ring!RbLost(r.rb, s) \in Int
    BY <2>1, RingNumbers
  <2> QED
    BY <2>1, <2>2 DEF Rings
<1> HIDE DEF a
<1>5. SinkNumbers(b) /\ SinkSame(b, a)
  BY <1>3, DecSourceReadyNumbers
<1> HIDE DEF b, lost
<1>6. SinkNumbers(c) /\ SinkSame(c, b)
  BY <1>4, <1>5, RecQueueLostNumbers
<1> HIDE DEF c
<1>7. SinkSame(c, n)
  BY <1>3, <1>5, <1>6, SinkSameTrans
<1>8. Holds(c)
  BY <1>2, <1>6, <1>7, RecSinkNumbers
<1> QED
  BY <1>1, <1>2, <1>8

LEMMA RecEarnAlike ==
  ASSUME NEW r, RecNumbers(r), NEW pkt, NEW k
  PROVE  RecAlike(RecEarn(r, pkt, k), r)
<1> DEFINE a == [r EXCEPT !.rc = Insert(r.rc, TRUE)]
           b == [a EXCEPT !.flush_next = TRUE]
           c == [b EXCEPT !.flush_packet_no = r.last_packet_no]
           paid == [r EXCEPT !.rc = Insert(r.rc, FALSE)]
<1>1. RecEarn(r, pkt, k) \in {c, paid, r}
  BY DEF RecEarn
<1>2. RecNumbers(a) /\ RecAlike(a, r) /\ RecAlike(paid, r) /\ RecAlike(r, r)
  BY RecAlikeEdits, RecAlikeNumbers
<1> HIDE DEF a, paid
<1>3. RecNumbers(b) /\ RecAlike(b, a)
  BY <1>2, RecAlikeEdits, RecAlikeNumbers
<1> HIDE DEF b
<1>4. RecAlike(c, b)
  BY <1>3, RecAlikeEdits
<1> HIDE DEF c
<1>5. RecAlike(c, r)
  BY <1>2, <1>3, <1>4, RecAlikeTrans
<1> QED
  BY <1>1, <1>2, <1>5


(* Every call of the recoder's API keeps its numbers.                      *)
LEMMA RecPutCodedNumbers ==
  ASSUME NEW r, RecNumbers(r), NEW pkt, pkt.seq \in Int
  PROVE  /\ RecNumbers(RecPutCoded(r, pkt))
         /\ RecPutCoded(r, pkt).feedback_buffer = r.feedback_buffer
<1> DEFINE Holds(x) == RecNumbers(x) /\ x.feedback_buffer = r.feedback_buffer
           no == [r EXCEPT !.last_packet_no = RecPacketNo(r, pkt)]
           old == RecConsumeOld(no, pkt.seq)
           kept == Kept(old.span, KodoSeq(old.seq, old.span, pkt))
           seq == KodoSeq(old.seq, old.span, pkt)
           took == [old EXCEPT !.seq = KodoSeq(old.seq, old.span, pkt),
                               !.span = KodoSpan(old.seq, old.span, pkt),
                               !.rb = Ring!RbInsert(@, pkt.seq)]
           read == RecForwardWindow(took, IF seq >= old.seq THEN seq - old.seq ELSE Symbols)
           new == RecEarn(read, pkt, Rank(kept))
           ready == ~Ring!RbEmpty(new.rb) /\ 0 \in DecReadable(new)
           head == [new EXCEPT !.has_source = ready]
           next == [head EXCEPT !.flush = DecFlushAfter(head)]
           last == [next EXCEPT !.timer = @ \/ next.flush # next.seq]
<1>1. RecPutCoded(r, pkt) = DecSourceReady(last)
  BY DEF RecPutCoded, RecRead
<1>2. Holds(no)
  BY RecAlikeEdits, RecAlikeNumbers
<1> HIDE DEF no
<1>3. Holds(old)
  BY <1>2, RecConsumeOldNumbers
<1> HIDE DEF old
<1>4. /\ DOMAIN took = DOMAIN old /\ took = [x \in DOMAIN old |-> took[x]]
      /\ took.seq = KodoSeq(old.seq, old.span, pkt)
      /\ took.rb = Ring!RbInsert(old.rb, pkt.seq)
      /\ took.flush = old.flush /\ took.has_source = old.has_source
      /\ took.queue = old.queue /\ took.read = old.read
      /\ took.feedback_buffer = old.feedback_buffer
  BY <1>3 DEF RecNumbers, SinkNumbers, SinkShape, SinkFields
<1>5. SinkNumbers(old)
  BY <1>3 DEF RecNumbers
<1> HIDE DEF took
<1>6. SinkNumbers(took)
  BY <1>4, <1>5, SinkReads
<1>7. Holds(took)
  BY <1>3, <1>4, <1>6 DEF RecNumbers
<1>8. RecAlike(read, took) /\ Holds(read)
  <2> HIDE DEF seq
  <2>1. RecAlike(read, took)
    BY <1>7, RecForwardWindowNumbers
  <2> QED
    BY <1>7, <2>1, RecAlikeNumbers
<1> HIDE DEF read
<1>9. RecAlike(new, read) /\ Holds(new)
  <2> HIDE DEF kept
  <2>1. RecAlike(new, read)
    BY <1>8, RecEarnAlike
  <2> QED
    BY <1>8, <2>1, RecAlikeNumbers
<1> HIDE DEF new
<1>10. SinkNumbers(new) /\ DOMAIN new = DOMAIN old /\ new = [x \in DOMAIN old |-> new[x]]
  BY <1>4, <1>8, <1>9 DEF RecAlike, RecNumbers
<1>11. /\ new.seq = KodoSeq(old.seq, old.span, pkt)
       /\ new.rb = Ring!RbInsert(old.rb, pkt.seq)
       /\ new.flush = old.flush /\ new.has_source = old.has_source
       /\ new.queue = old.queue /\ new.read = old.read
  <2>1. \A x \in SinkFields : new[x] = took[x]
    BY <1>8, <1>9 DEF RecAlike, RecKeeps
  <2> QED
    BY <2>1, <1>4 DEF SinkFields
<1>12. ready \in BOOLEAN
  OBVIOUS
<1> HIDE DEF ready
<1>13. SinkNumbers(next) /\ SinkSame(next, new)
  BY <1>5, <1>10, <1>11, <1>12, SinkReads
<1> HIDE DEF next
<1>14. Holds(next)
  BY <1>9, <1>13, RecSinkNumbers
<1>15. Holds(last)
  <2> DEFINE v == next.timer \/ next.flush # next.seq
  <2>1. last = [next EXCEPT !.timer = v]
    BY <1>14 DEF RecNumbers, SinkNumbers, SinkShape
  <2> HIDE DEF v, last
  <2> QED
    BY <1>14, <2>1, RecAlikeEdits, RecAlikeNumbers
<1> HIDE DEF last
<1>16. SinkNumbers(DecSourceReady(last)) /\ SinkSame(DecSourceReady(last), last)
  BY <1>15, DecSourceReadyNumbers DEF RecNumbers
<1> QED
  BY <1>1, <1>15, <1>16, RecSinkNumbers

LEMMA RecGetNumbers ==
  ASSUME NEW r, RecNumbers(r), NEW vec
  PROVE  /\ RecNumbers(RecGetCoded(r, vec)) /\ RecNumbers(RecGetSource(r))
         /\ RecNumbers(RecGetFeedback(r))
         /\ RecGetCoded(r, vec).feedback_buffer = r.feedback_buffer
         /\ RecGetSource(r).feedback_buffer = r.feedback_buffer
         /\ RecGetFeedback(r).feedback_buffer = r.feedback_buffer
<1> DEFINE Holds(x) == RecNumbers(x) /\ x.feedback_buffer = r.feedback_buffer
<1>1. Holds(RecGetCoded(r, vec))
  <2> DEFINE v == Step(r.rc)
             a == [r EXCEPT !.rc = v]
             w == r.flush_next /\ vec = {}
             n == [a EXCEPT !.flush_next = w]
  <2>1. RecGetCoded(r, vec) = [r EXCEPT !.rc = v, !.flush_next = w]
    BY DEF RecGetCoded, RecNumbers, SinkNumbers, SinkShape
  <2>2. RecGetCoded(r, vec) = n
    BY <2>1
  <2> HIDE DEF v, w
  <2>3. Holds(a)
    BY RecAlikeEdits, RecAlikeNumbers
  <2> HIDE DEF a
  <2>4. Holds(n)
    BY <2>3, RecAlikeEdits, RecAlikeNumbers
  <2> QED
    BY <2>2, <2>4
<1>2. Holds(RecGetSource(r))
  <2>1. SinkNumbers(DecGetSource(r)) /\ SinkSame(DecGetSource(r), r)
    BY DecGetSourceNumbers DEF RecNumbers
  <2> QED
    BY <2>1, RecSinkNumbers DEF RecGetSource
<1>3. Holds(RecGetFeedback(r))
  BY RecAlikeEdits, RecAlikeNumbers DEF RecGetFeedback
<1> QED
  BY <1>1, <1>2, <1>3

LEMMA RecTimeoutNumbers ==
  ASSUME NEW r, RecNumbers(r)
  PROVE  /\ RecNumbers(RecTimeout(r))
         /\ RecTimeout(r).feedback_buffer = r.feedback_buffer
<1> DEFINE Holds(x) == RecNumbers(x) /\ x.feedback_buffer = r.feedback_buffer
<1>1. ASSUME NEW x, Holds(x) PROVE Holds(RecFlushSource(x))
  <2> DEFINE ready == [x EXCEPT !.flush = x.seq]
             on == IF x.has_source THEN ready ELSE DecMoveToNext(ready)
  <2>1. RecFlushSource(x) \in {x, DecSourceReady(on)}
    BY DEF RecFlushSource, RecMoveToNext
  <2>2. SinkNumbers(on) /\ SinkSame(on, x)
    BY <1>1, DecFlushSourceNumbers DEF RecNumbers
  <2> HIDE DEF on
  <2>3. Holds(on)
    BY <1>1, <2>2, RecSinkNumbers
  <2>4. SinkNumbers(DecSourceReady(on)) /\ SinkSame(DecSourceReady(on), on)
    BY <2>2, DecSourceReadyNumbers
  <2>5. Holds(DecSourceReady(on))
    BY <2>3, <2>4, RecSinkNumbers
  <2> QED
    BY <1>1, <2>1, <2>5
<1>2. ASSUME NEW x, Holds(x) PROVE Holds(RecFlushCoded(x))
  <2> DEFINE v == FlushRate(x.rc)
  <2>1. RecFlushCoded(x) = [x EXCEPT !.rc = v]
    BY DEF RecFlushCoded
  <2> HIDE DEF v
  <2> QED
    BY <1>2, <2>1, RecAlikeEdits, RecAlikeNumbers
<1> DEFINE fired == [r EXCEPT !.timer = FALSE]
           source == IF RecHasSource(fired) THEN fired ELSE RecFlushSource(fired)
<1>3. Holds(fired)
  BY RecAlikeEdits, RecAlikeNumbers
<1>4. RecTimeout(r) \in {source, RecFlushCoded(source)}
  BY DEF RecTimeout
<1> HIDE DEF fired
<1>5. Holds(source)
  BY <1>1, <1>3
<1> HIDE DEF source
<1> QED
  BY <1>2, <1>4, <1>5


LEMMA RecPutFeedbackNumbers ==
  ASSUME NEW r, RecNumbers(r), NEW fb, fb.seq \in Int, fb.first_missing \in Int
  PROVE  /\ RecNumbers(RecPutFeedback(r, fb))
         /\ RecPutFeedback(r, fb).feedback_buffer \in {r.feedback_buffer, fb}
<1> DEFINE Holds(x) == RecNumbers(x) /\ x.feedback_buffer = fb
           caught == RecCatchUp(r, fb)
           applied == RecApplyFeedback(r, fb)
           heard == [applied EXCEPT !.feedback_buffer = fb]
           numbered == [heard EXCEPT !.last_feedback_no = fb.feedback_no]
           told == [numbered EXCEPT !.has_feedback = TRUE]
<1>1. RecNumbers(caught)
  <2> DEFINE old == RecConsumeOld(r, fb.seq)
             kept == RecForwardWindow(old, fb.seq)
             n == [kept EXCEPT !.seq = fb.seq, !.span = Kept(kept.span, fb.seq)]
  <2>1. caught \in {r, n}
    BY DEF RecCatchUp
  <2>2. RecNumbers(old)
    BY RecConsumeOldNumbers
  <2> HIDE DEF old
  <2>3. RecNumbers(kept)
    BY <2>2, RecForwardWindowNumbers, RecAlikeNumbers
  <2> HIDE DEF kept
  <2>4. /\ DOMAIN n = DOMAIN kept /\ n = [x \in DOMAIN kept |-> n[x]]
        /\ n.seq = fb.seq /\ n.feedback_buffer = kept.feedback_buffer
        /\ \A x \in SinkFields \ {"seq", "span"} : n[x] = kept[x]
    BY <2>3 DEF RecNumbers, SinkNumbers, SinkShape, SinkFields
  <2> HIDE DEF n
  <2>5. /\ n.rb = kept.rb /\ n.flush = kept.flush /\ n.has_source = kept.has_source
        /\ n.queue = kept.queue /\ n.read = kept.read
    BY <2>4 DEF SinkFields
  <2>6. RecNumbers(n)
    BY <2>3, <2>4, <2>5 DEF RecNumbers, SinkNumbers, SinkShape
  <2> QED
    BY <2>1, <2>6
<1> HIDE DEF caught
<1>2. RecNumbers(applied)
  <2> DEFINE checked == {Slot(s) : s \in caught.seq - Symbols .. fb.seq - 1}
             v == (caught.enabled \ (checked \ fb.missing)) \cup (checked \cap fb.missing)
             n == [caught EXCEPT !.enabled = v]
  <2>1. applied \in {caught, n}
    BY DEF RecApplyFeedback, caught
  <2> HIDE DEF v
  <2>2. RecNumbers(n)
    BY <1>1, RecAlikeEdits, RecAlikeNumbers
  <2> QED
    BY <1>1, <2>1, <2>2
<1> HIDE DEF applied
<1>3. Holds(heard)
  <2>1. /\ DOMAIN heard = DOMAIN applied /\ heard = [x \in DOMAIN applied |-> heard[x]]
        /\ heard.feedback_buffer = fb
        /\ \A x \in SinkFields : heard[x] = applied[x]
    BY <1>2 DEF RecNumbers, SinkNumbers, SinkShape, SinkFields
  <2> HIDE DEF heard
  <2>2. SinkNumbers(heard)
    BY <1>2, <2>1, OtherFields DEF RecNumbers
  <2> QED
    BY <1>2, <2>1, <2>2 DEF RecNumbers
<1>4. told = [applied EXCEPT !.feedback_buffer = fb, !.last_feedback_no = fb.feedback_no,
                             !.has_feedback = TRUE]
  OBVIOUS
<1> HIDE DEF heard
<1>5. Holds(numbered)
  BY <1>3, RecAlikeEdits, RecAlikeNumbers
<1> HIDE DEF numbered
<1>6. Holds(told)
  BY <1>5, RecAlikeEdits, RecAlikeNumbers
<1>7. RecPutFeedback(r, fb) \in {r, RecSchedule(told, fb)}
  BY <1>4 DEF RecPutFeedback, applied
<1> HIDE DEF told
<1>8. Holds(RecSchedule(told, fb))
  <2> DEFINE again == AtMost(Cardinality(fb.missing), Rank(told.span) + 1)
             pay(rc, n) == Insert(rc, TRUE)
             v == FoldLeft(pay, told.rc, [n \in 1 .. again |-> n])
  <2>1. RecSchedule(told, fb) = [told EXCEPT !.rc = v]
    BY DEF RecSchedule
  <2> HIDE DEF v
  <2> QED
    BY <1>6, <2>1, RecAlikeEdits, RecAlikeNumbers
<1> QED
  BY <1>7, <1>8

LEMMA StartNumbers == SinkNumbers(DecStart) /\ RecNumbers(RecStart)
<1>1. Ring!RbInit \in Rings
  BY SymbolsAssumption DEF Ring!RbInit, Rings, Slots
<1>2. SinkNumbers(DecStart)
  BY <1>1 DEF DecStart, SinkNumbers, SinkShape, SinkFields
<1>3. RecNumbers(RecStart)
  <2> DEFINE r == RecStart
  <2>1. /\ SinkFields \subseteq DOMAIN r /\ "feedback_buffer" \in DOMAIN r
        /\ r = [x \in DOMAIN r |-> r[x]]
    BY DEF RecStart, SinkFields
  <2>2. /\ r.rb = Ring!RbInit /\ r.seq = 0 /\ r.flush = 0 /\ r.has_source = FALSE
        /\ r.queue = <<>> /\ r.read = <<>> /\ r.feedback_buffer = NoFeedback
    BY DEF RecStart
  <2> HIDE DEF r
  <2>3. /\ r.rb \in Rings /\ r.seq \in Int /\ r.flush \in Int /\ r.has_source \in BOOLEAN
        /\ r.queue \in Seq(Int) /\ r.read \in Seq(Int)
    <3>1. r.rb \in Rings
      BY <1>1, <2>2, Zenon
    <3>2. r.queue \in Seq(Int) /\ r.read \in Seq(Int)
      BY <2>2
    <3>3. r.seq \in Int /\ r.flush \in Int
      BY <2>2
    <3>4. r.has_source \in BOOLEAN
      BY <2>2, Zenon
    <3> QED
      BY <3>1, <3>2, <3>3, <3>4
  <2>4. SinkNumbers(r)
    BY <2>1, <2>3 DEF SinkNumbers, SinkShape
  <2>5. RecNumbers(r)
    BY <2>1, <2>2, <2>4 DEF RecNumbers, NoFeedback
  <2> QED
    BY <2>5 DEF r
<1> QED
  BY <1>2, <1>3


-----------------------------------------------------------------------------
(* The channels carry sequences of packets with numbers in them.           *)
IsSeq(s) == s \in Seq({s[j] : j \in DOMAIN s})

MessageOk(hop, m) ==
  m.seq \in Int /\ (hop \in {"answers", "feedback"} => m.first_missing \in Int)

HopOk(hop, s) == IsSeq(s) /\ \A j \in DOMAIN s : MessageOk(hop, s[j])

AirOk(a) ==
  /\ DOMAIN a = Hops /\ a = [hop \in Hops |-> a[hop]]
  /\ \A hop \in Hops : HopOk(hop, a[hop])

LEMMA IsSeqOf ==
  ASSUME NEW S, NEW s \in Seq(S)
  PROVE  IsSeq(s)
<1>1. DOMAIN s = 1 .. Len(s) /\ Len(s) \in Nat /\ s = [j \in 1 .. Len(s) |-> s[j]]
  OBVIOUS
<1> DEFINE T == {s[j] : j \in DOMAIN s}
<1>2. \A j \in 1 .. Len(s) : s[j] \in T
  BY <1>1
<1>3. s \in [1 .. Len(s) -> T]
  <2> HIDE DEF T
  <2> QED
    BY <1>1, <1>2
<1>4. s \in Seq(T)
  <2> HIDE DEF T
  <2> QED
    BY <1>1, <1>3, SeqDef
<1> QED
  BY <1>4 DEF IsSeq

LEMMA HopTaken ==
  ASSUME NEW hop, NEW s, HopOk(hop, s), NEW i \in DOMAIN s
  PROVE  HopOk(hop, RemoveAt(s, i)) /\ MessageOk(hop, s[i])
<1> DEFINE S == {s[j] : j \in DOMAIN s}
           t == RemoveAt(s, i)
<1>1. s \in Seq(S)
  BY DEF HopOk, IsSeq
<1>2. t \in Seq(S) /\ \A j \in DOMAIN t : \E k \in DOMAIN s : t[j] = s[k]
  <2> HIDE DEF S
  <2> QED
    BY <1>1, RemoveAtType
<1>3. IsSeq(t)
  <2> HIDE DEF S, t
  <2> QED
    BY <1>2, IsSeqOf
<1> HIDE DEF t
<1>4. \A j \in DOMAIN t : MessageOk(hop, t[j])
  BY <1>2 DEF HopOk
<1>5. HopOk(hop, t) /\ MessageOk(hop, s[i])
  BY <1>3, <1>4 DEF HopOk
<1> QED
  BY <1>5 DEF t

LEMMA HopSent ==
  ASSUME NEW hop, NEW s, HopOk(hop, s), NEW m, MessageOk(hop, m)
  PROVE  HopOk(hop, Append(s, m))
<1> DEFINE S == {s[j] : j \in DOMAIN s} \cup {m}
           t == Append(s, m)
<1>1. s \in Seq({s[j] : j \in DOMAIN s})
  BY DEF HopOk, IsSeq
<1>2. s \in Seq(S) /\ m \in S
  <2> DEFINE R == {s[j] : j \in DOMAIN s}
  <2>1. s \in Seq(R) /\ R \subseteq S
    BY <1>1
  <2> HIDE DEF R, S
  <2>2. s \in Seq(S)
    BY <2>1
  <2> QED
    BY <2>2 DEF S
<1> HIDE DEF S
<1>3. t \in Seq(S) /\ \A j \in DOMAIN t : t[j] = m \/ \E k \in DOMAIN s : t[j] = s[k]
  BY <1>2, AddedTo
<1> HIDE DEF t
<1>4. IsSeq(t)
  BY <1>3, IsSeqOf
<1>5. \A j \in DOMAIN t : MessageOk(hop, t[j])
  BY <1>3 DEF HopOk
<1>6. HopOk(hop, t)
  BY <1>4, <1>5 DEF HopOk
<1> QED
  BY <1>6 DEF t

LEMMA AirChanged ==
  ASSUME NEW a, AirOk(a), NEW hop \in Hops, NEW s, HopOk(hop, s)
  PROVE  AirOk([a EXCEPT ![hop] = s])
<1> DEFINE b == [a EXCEPT ![hop] = s]
<1>1. DOMAIN b = Hops /\ b = [h \in Hops |-> b[h]]
      /\ \A h \in Hops : b[h] = IF h = hop THEN s ELSE a[h]
  BY DEF AirOk
<1> HIDE DEF b
<1>2. AirOk(b)
  BY <1>1 DEF AirOk
<1> QED
  BY <1>2 DEF b

LEMMA AirTaken ==
  ASSUME AirOk(air), NEW hop \in Hops, NEW i, Takes(hop, i)
  PROVE  AirOk(air') /\ MessageOk(hop, air[hop][i])
<1>1. i \in DOMAIN air[hop]
  BY DEF Takes, Heads
<1>2. HopOk(hop, air[hop])
  BY DEF AirOk
<1>3. HopOk(hop, RemoveAt(air[hop], i)) /\ MessageOk(hop, air[hop][i])
  BY <1>1, <1>2, HopTaken
<1>4. air' \in {[air EXCEPT ![hop] = RemoveAt(air[hop], i)], air}
  BY DEF Takes
<1>5. AirOk([air EXCEPT ![hop] = RemoveAt(air[hop], i)])
  BY <1>3, AirChanged
<1> QED
  BY <1>3, <1>4, <1>5

LEMMA AirSent ==
  ASSUME NEW a, AirOk(a), NEW hop \in Hops, NEW m, MessageOk(hop, m)
  PROVE  AirOk([a EXCEPT ![hop] = Append(a[hop], m)])
<1>1. HopOk(hop, a[hop])
  BY DEF AirOk
<1>2. HopOk(hop, Append(a[hop], m))
  BY <1>1, HopSent
<1> QED
  BY <1>2, AirChanged

(* A packet's number is an integer, in the common stream too.              *)
LEMMA HeaderOk ==
  ASSUME opt \in Options, NEW f \in Flows, EncOk(enc[f]), EncHasCoded(enc[f]), NEW vec
  PROVE  MessageOk("coded", Header(f, EncPacket(enc[f], vec)))
         /\ MessageOk("recoded", Header(f, EncPacket(enc[f], vec)))
<1> DEFINE e == enc[f]
           pkt == EncPacket(e, vec)
           h == Header(f, pkt)
<1>1. opt.nodes \in Nat /\ f \in Int
  BY OptionsAssumption DEF ValidOptions, ValidEnds, Flows, AtLeast
<1>2. e.seq \in Nat /\ (~EncRepairNext(e) => EncNextSystematic(e) \in Slots)
  <2>1. /\ e.source_symbols \in Nat /\ e.systematic \in SUBSET Slots
        /\ e.source_symbols = Cardinality(e.systematic) /\ e.seq \in Nat
    BY DEF EncOk, EncParts, EncCounts
  <2>2. ~EncRepairNext(e) => e.source_symbols > 0
    BY DEF EncHasCoded, EncRepairNext
  <2>3. ~EncRepairNext(e) => e.systematic # {}
    BY <2>1, <2>2, FS_EmptySet
  <2> QED
    BY <2>1, <2>3, NextSystematic
<1>3. pkt.seq \in Int
  <2>1. ~EncRepairNext(e) => SymbolAt(e.seq, EncNextSystematic(e)) \in Int
    BY <1>2, SymbolAtSlot
  <2> QED
    BY <1>2, <2>1 DEF EncPacket
<1>4. "seq" \in DOMAIN pkt
  BY DEF EncPacket
<1> HIDE DEF pkt
<1>5. Global(f, pkt.seq - 1) + 1 \in Int
  BY <1>1, <1>3 DEF Global
<1>6. h.seq \in Int
  <2> DEFINE seq == Global(f, pkt.seq - 1) + 1
             v == IF EncRepairNext(enc[f]) THEN {SymbolAt(seq, Slot(s)) : s \in pkt.vec}
                  ELSE {Global(f, s) : s \in pkt.vec}
  <2>1. opt.nodes # 0 => h = [pkt EXCEPT !.seq = seq, !.no = seq % 2^16, !.vec = v]
    BY DEF Header
  <2>2. opt.nodes = 0 => h = pkt
    BY DEF Header
  <2> HIDE DEF h, v, seq
  <2>3. opt.nodes # 0 => h.seq = seq
    BY <1>4, <2>1
  <2> QED
    BY <1>3, <1>5, <2>2, <2>3 DEF seq
<1> QED
  BY <1>6 DEF MessageOk, h, pkt, e


-----------------------------------------------------------------------------
(* What every step keeps: every encoder is in order, decoder and recoder   *)
(* hold numbers, and so does every packet in flight.                       *)
EncsOk(es) ==
  /\ DOMAIN es = Flows /\ es = [f \in Flows |-> es[f]]
  /\ \A f \in Flows : EncOk(es[f])

LinkNumbers ==
  opt \in Options /\ EncsOk(enc) /\ SinkNumbers(dec) /\ RecNumbers(rec) /\ AirOk(air)

LEMMA InitNumbers == Init => LinkNumbers
<1> SUFFICES ASSUME Init PROVE LinkNumbers
  OBVIOUS
<1>1. opt \in Options /\ SinkNumbers(dec) /\ RecNumbers(rec)
  BY StartNumbers DEF Init
<1>2. EncsOk(enc)
  <2>1. EncOk(EncStart)
    BY <1>1, EncStartOk
  <2>2. enc = [f \in Flows |-> EncStart]
    BY DEF Init
  <2> QED
    BY <2>1, <2>2 DEF EncsOk
<1>3. AirOk(air)
  <2>1. air = [hop \in Hops |-> <<>>]
    BY DEF Init
  <2>2. IsSeq(<<>>)
    <3>1. <<>> \in Seq({})
      OBVIOUS
    <3> QED
      BY <3>1, IsSeqOf
  <2>3. \A hop \in Hops : HopOk(hop, <<>>)
    BY <2>2 DEF HopOk
  <2> QED
    BY <2>1, <2>3 DEF AirOk
<1> QED
  BY <1>1, <1>2, <1>3 DEF LinkNumbers

LEMMA EncChanged ==
  ASSUME EncsOk(enc), NEW f \in Flows, NEW e, EncOk(e)
  PROVE  EncsOk([enc EXCEPT ![f] = e])
<1> DEFINE es == [enc EXCEPT ![f] = e]
<1>1. DOMAIN es = Flows /\ es = [g \in Flows |-> es[g]]
      /\ \A g \in Flows : es[g] = IF g = f THEN e ELSE enc[g]
  BY DEF EncsOk
<1> HIDE DEF es
<1>2. EncsOk(es)
  BY <1>1 DEF EncsOk
<1> QED
  BY <1>2 DEF es

LEMMA AllHear ==
  ASSUME opt \in Options, ~opt.coded_retrans, EncsOk(enc),
         NEW fb, MessageOk("feedback", fb)
  PROVE  EncsOk([f \in Flows |-> EncPutFeedback(enc[f], fb)])
<1>1. fb.seq \in Int /\ fb.first_missing \in Int
  BY DEF MessageOk
<1>2. \A f \in Flows : EncOk(EncPutFeedback(enc[f], fb))
  BY <1>1, EncPutFeedbackOk DEF EncsOk
<1> DEFINE es == [f \in Flows |-> EncPutFeedback(enc[f], fb)]
<1>3. DOMAIN es = Flows /\ es = [f \in Flows |-> es[f]] /\ \A f \in Flows : EncOk(es[f])
  BY <1>2
<1> HIDE DEF es
<1>4. EncsOk(es)
  BY <1>3 DEF EncsOk
<1> QED
  BY <1>4 DEF es

(* The encoders' own steps.                                                *)
LEMMA SenderNumbers ==
  ASSUME LinkNumbers, NEW f \in Flows,
         PutSource(f) \/ Transmit(f) \/ FlushCoded(f) \/ ExpireEncoder(f)
  PROVE  LinkNumbers'
<1>0. /\ opt \in Options /\ EncsOk(enc) /\ SinkNumbers(dec) /\ RecNumbers(rec) /\ AirOk(air)
      /\ EncOk(enc[f])
  BY DEF LinkNumbers, EncsOk
<1>1. opt' = opt /\ dec' = dec /\ rec' = rec
  BY DEF PutSource, Transmit, SendCoded, FlushCoded, ExpireEncoder
<1>2. EncsOk(enc')
  <2>1. PICK e : EncOk(e) /\ enc' = [enc EXCEPT ![f] = e]
    <3>1. CASE PutSource(f)
      <4>1. EncOk(EncPutSource(enc[f])) /\ enc' = [enc EXCEPT ![f] = EncPutSource(enc[f])]
        BY <1>0, <3>1, EncPutSourceOk DEF PutSource
      <4> QED
        BY <4>1
    <3>2. CASE Transmit(f)
      <4>1. EncOk(EncGetCoded(enc[f])) /\ enc' = [enc EXCEPT ![f] = EncGetCoded(enc[f])]
        BY <1>0, <3>2, EncGetCodedOk DEF Transmit, SendCoded
      <4> QED
        BY <4>1
    <3>3. CASE FlushCoded(f)
      <4>1. EncOk(EncFlushCoded(enc[f])) /\ enc' = [enc EXCEPT ![f] = EncFlushCoded(enc[f])]
        BY <1>0, <3>3, EncFlushCodedOk DEF FlushCoded
      <4> QED
        BY <4>1
    <3>4. CASE ExpireEncoder(f)
      <4>1. EncOk(EncTimeout(enc[f])) /\ enc' = [enc EXCEPT ![f] = EncTimeout(enc[f])]
        BY <1>0, <3>4, EncTimeoutOk DEF ExpireEncoder
      <4> QED
        BY <4>1
    <3> QED
      BY <3>1, <3>2, <3>3, <3>4
  <2> QED
    BY <1>0, <2>1, EncChanged
<1>3. AirOk(air')
  <2>1. CASE Transmit(f)
    <3>1. EncHasCoded(enc[f])
      BY <2>1 DEF Transmit
    <3>2. PICK vec \in EncVectors(enc[f]) : SendCoded(f, vec)
      BY <2>1 DEF Transmit
    <3> DEFINE pkt == Header(f, EncPacket(enc[f], vec))
               once == [air EXCEPT !["coded"] = Append(air["coded"], pkt)]
               twice == [air EXCEPT !["coded"] = Append(air["coded"], pkt),
                                    !["recoded"] = Append(air["recoded"], pkt)]
    <3>3. air' \in {once, twice}
      BY <3>2 DEF SendCoded, Sends
    <3>4. MessageOk("coded", pkt) /\ MessageOk("recoded", pkt)
      BY <1>0, <3>1, HeaderOk
    <3> HIDE DEF pkt
    <3>5. AirOk(once)
      BY <1>0, <3>4, AirSent DEF Hops
    <3>6. /\ DOMAIN air = Hops /\ twice = [once EXCEPT !["recoded"] = Append(air["recoded"], pkt)]
          /\ once["recoded"] = air["recoded"]
      BY <1>0 DEF AirOk
    <3> HIDE DEF once, twice
    <3>7. AirOk([once EXCEPT !["recoded"] = Append(once["recoded"], pkt)])
      BY <3>4, <3>5, AirSent DEF Hops
    <3> QED
      BY <3>3, <3>5, <3>6, <3>7
  <2>2. CASE PutSource(f) \/ FlushCoded(f) \/ ExpireEncoder(f)
    BY <1>0, <2>2 DEF PutSource, FlushCoded, ExpireEncoder
  <2> QED
    BY <2>1, <2>2
<1> QED
  BY <1>0, <1>1, <1>2, <1>3 DEF LinkNumbers, EncsOk, Flows, AirOk, Hops


(* What is shown of the parts of the next state holds of the next state.   *)
LEMMA NextNumbers ==
  ASSUME opt \in Options, opt' = opt, EncsOk(enc'), SinkNumbers(dec'), RecNumbers(rec'),
         AirOk(air')
  PROVE  LinkNumbers'
BY DEF LinkNumbers, EncsOk, Flows, AirOk, Hops

(* A feedback is heard, and perhaps lost or doubled on the way.            *)
LEMMA FeedbackNumbers ==
  ASSUME LinkNumbers, ~opt.coded_retrans, NEW i, ReceiveFeedback(i) \/ RelayHears(i)
  PROVE  LinkNumbers'
<1>0. opt \in Options /\ EncsOk(enc) /\ SinkNumbers(dec) /\ RecNumbers(rec) /\ AirOk(air)
  BY DEF LinkNumbers
<1>1. CASE ReceiveFeedback(i)
  <2>1. Takes("feedback", i) /\ opt' = opt /\ rec' = rec /\ dec' = dec
        /\ enc' = [f \in Flows |-> EncPutFeedback(enc[f], air["feedback"][i])]
    BY <1>1 DEF ReceiveFeedback
  <2>2. AirOk(air') /\ MessageOk("feedback", air["feedback"][i])
    BY <1>0, <2>1, AirTaken DEF Hops
  <2>3. EncsOk(enc')
    BY <1>0, <2>1, <2>2, AllHear
  <2> QED
    BY <1>0, <2>1, <2>2, <2>3, NextNumbers
<1>2. CASE RelayHears(i)
  <2> DEFINE fb == air["answers"][i]
  <2>1. Takes("answers", i) /\ opt' = opt /\ rec' = RecPutFeedback(rec, fb) /\ dec' = dec
        /\ enc' \in {[f \in Flows |-> EncPutFeedback(enc[f], fb)], enc}
    BY <1>2 DEF RelayHears
  <2>2. AirOk(air') /\ MessageOk("answers", fb)
    BY <1>0, <2>1, AirTaken DEF Hops
  <2> HIDE DEF fb
  <2>3. MessageOk("feedback", fb) /\ fb.seq \in Int /\ fb.first_missing \in Int
    BY <2>2 DEF MessageOk
  <2>4. EncsOk(enc')
    BY <1>0, <2>1, <2>3, AllHear
  <2>5. RecNumbers(rec')
    BY <1>0, <2>1, <2>3, RecPutFeedbackNumbers
  <2> QED
    BY <1>0, <2>1, <2>2, <2>4, <2>5, NextNumbers
<1> QED
  BY <1>1, <1>2

(* The recoder's other steps.                                              *)
LEMMA RelayNumbers ==
  ASSUME LinkNumbers,
         \/ \E i \in Places("coded") : RelayReceives(i)
         \/ RelaySends \/ RelayAnswers \/ RelayDelivers \/ ExpireRelay
  PROVE  LinkNumbers'
<1>0. opt \in Options /\ EncsOk(enc) /\ SinkNumbers(dec) /\ RecNumbers(rec) /\ AirOk(air)
  BY DEF LinkNumbers
<1>1. ASSUME NEW i, RelayReceives(i) PROVE LinkNumbers'
  <2>1. /\ Takes("coded", i) /\ opt' = opt /\ enc' = enc /\ dec' = dec
        /\ rec' = RecPutCoded(rec, air["coded"][i])
    BY <1>1 DEF RelayReceives
  <2>2. AirOk(air') /\ MessageOk("coded", air["coded"][i])
    BY <1>0, <2>1, AirTaken DEF Hops
  <2>3. air["coded"][i].seq \in Int
    BY <2>2 DEF MessageOk
  <2>4. RecNumbers(rec')
    BY <1>0, <2>1, <2>3, RecPutCodedNumbers
  <2> QED
    BY <1>0, <2>1, <2>2, <2>4, NextNumbers
<1>2. ASSUME RelaySends PROVE LinkNumbers'
  <2>1. opt' = opt /\ enc' = enc /\ dec' = dec
    BY <1>2 DEF RelaySends
  <2>2. PICK vec \in RelayDraws :
          /\ rec' = RecGetCoded(rec, vec)
          /\ air' \in {air, [air EXCEPT !["recoded"] = Append(air["recoded"], RecPacket(rec, vec))]}
    BY <1>2 DEF RelaySends, Sends
  <2>3. MessageOk("recoded", RecPacket(rec, vec))
    BY <1>0 DEF MessageOk, RecPacket, RecNumbers, SinkNumbers
  <2>4. AirOk(air')
    BY <1>0, <2>2, <2>3, AirSent DEF Hops
  <2>5. RecNumbers(rec')
    BY <1>0, <2>2, RecGetNumbers
  <2> QED
    BY <1>0, <2>1, <2>4, <2>5, NextNumbers
<1>3. ASSUME RelayAnswers PROVE LinkNumbers'
  <2>1. /\ opt' = opt /\ enc' = enc /\ dec' = dec /\ rec' = RecGetFeedback(rec)
        /\ air' = [air EXCEPT !["feedback"] = Append(air["feedback"], RecFeedback(rec))]
    BY <1>3 DEF RelayAnswers, Sends
  <2>2. MessageOk("feedback", RecFeedback(rec))
    BY <1>0 DEF MessageOk, RecFeedback, RecNumbers
  <2>3. AirOk(air')
    BY <1>0, <2>1, <2>2, AirSent DEF Hops
  <2>4. RecNumbers(rec')
    BY <1>0, <2>1, RecGetNumbers
  <2> QED
    BY <1>0, <2>1, <2>3, <2>4, NextNumbers
<1>4. ASSUME RelayDelivers PROVE LinkNumbers'
  <2>1. opt' = opt /\ enc' = enc /\ dec' = dec /\ rec' = RecGetSource(rec) /\ air' = air
    BY <1>4 DEF RelayDelivers
  <2>2. RecNumbers(rec')
    BY <1>0, <2>1, RecGetNumbers
  <2> QED
    BY <1>0, <2>1, <2>2, NextNumbers
<1>5. ASSUME ExpireRelay PROVE LinkNumbers'
  <2>1. opt' = opt /\ enc' = enc /\ dec' = dec /\ rec' = RecTimeout(rec) /\ air' = air
    BY <1>5 DEF ExpireRelay
  <2>2. RecNumbers(rec')
    BY <1>0, <2>1, RecTimeoutNumbers
  <2> QED
    BY <1>0, <2>1, <2>2, NextNumbers
<1> QED
  BY <1>1, <1>2, <1>3, <1>4, <1>5

(* The decoder's steps.                                                    *)
LEMMA SinkStepNumbers ==
  ASSUME LinkNumbers,
         \/ \E i \in Places("coded") : ReceiveCoded(i)
         \/ GetSource \/ SendFeedback \/ ExpireDecoder \/ ExpireFeedback
  PROVE  LinkNumbers'
<1>0. opt \in Options /\ EncsOk(enc) /\ SinkNumbers(dec) /\ RecNumbers(rec) /\ AirOk(air)
  BY DEF LinkNumbers
<1>1. ASSUME NEW i, ReceiveCoded(i) PROVE LinkNumbers'
  <2>1. /\ Takes(DataHop, i) /\ opt' = opt /\ enc' = enc /\ rec' = rec
        /\ dec' = DecPutCoded(dec, air[DataHop][i])
    BY <1>1 DEF ReceiveCoded
  <2>2. DataHop \in Hops
    BY DEF DataHop, Hops
  <2>3. AirOk(air') /\ MessageOk(DataHop, air[DataHop][i])
    BY <1>0, <2>1, <2>2, AirTaken
  <2>4. air[DataHop][i].seq \in Int
    BY <2>3 DEF MessageOk
  <2>5. SinkNumbers(dec')
    BY <1>0, <2>1, <2>4, DecPutCodedNumbers
  <2> QED
    BY <1>0, <2>1, <2>3, <2>5, NextNumbers
<1>2. ASSUME GetSource PROVE LinkNumbers'
  <2>1. opt' = opt /\ enc' = enc /\ rec' = rec /\ dec' = DecGetSource(dec) /\ air' = air
    BY <1>2 DEF GetSource
  <2>2. SinkNumbers(dec')
    BY <1>0, <2>1, DecGetSourceNumbers
  <2> QED
    BY <1>0, <2>1, <2>2, NextNumbers
<1>3. ASSUME SendFeedback PROVE LinkNumbers'
  <2>1. /\ opt' = opt /\ enc' = enc /\ rec' = rec /\ dec' = DecGetFeedback(dec)
        /\ air' = [air EXCEPT ![AnswerHop] = Append(air[AnswerHop], DecFeedback(dec))]
        /\ AnswerHop \in Hops
    BY <1>3 DEF SendFeedback, Sends, AnswerHop, Hops
  <2>2. MessageOk(AnswerHop, DecFeedback(dec)) /\ SinkNumbers(dec')
    BY <1>0, <2>1, DecFeedbackNumbers DEF MessageOk
  <2>3. AirOk(air')
    BY <1>0, <2>1, <2>2, AirSent
  <2> QED
    BY <1>0, <2>1, <2>2, <2>3, NextNumbers
<1>4. ASSUME ExpireDecoder \/ ExpireFeedback PROVE LinkNumbers'
  <2>1. opt' = opt /\ enc' = enc /\ rec' = rec /\ air' = air
        /\ dec' \in {DecTimeout(dec), DecFbTimeout(dec)}
    BY <1>4 DEF ExpireDecoder, ExpireFeedback
  <2>2. SinkNumbers(dec')
    BY <1>0, <2>1, DecTimeoutNumbers
  <2> QED
    BY <1>0, <2>1, <2>2, NextNumbers
<1> QED
  BY <1>1, <1>2, <1>3, <1>4

LEMMA LoseNumbers ==
  ASSUME LinkNumbers, Lose
  PROVE  LinkNumbers'
<1>0. opt \in Options /\ EncsOk(enc) /\ SinkNumbers(dec) /\ RecNumbers(rec) /\ AirOk(air)
  BY DEF LinkNumbers
<1>1. opt' = opt /\ enc' = enc /\ rec' = rec /\ dec' = dec
  BY DEF Lose
<1>2. PICK hop \in Hops : \E i \in Heads(hop) :
        air' = [air EXCEPT ![hop] = RemoveAt(air[hop], i)]
  BY DEF Lose
<1>3. PICK i \in DOMAIN air[hop] : air' = [air EXCEPT ![hop] = RemoveAt(air[hop], i)]
  BY <1>2 DEF Heads
<1>4. HopOk(hop, RemoveAt(air[hop], i))
  BY <1>0, <1>3, HopTaken DEF AirOk
<1>5. AirOk(air')
  BY <1>0, <1>3, <1>4, AirChanged
<1> QED
  BY <1>0, <1>1, <1>5, NextNumbers

LEMMA NumbersInvariant ==
  (\A o \in Options : ~o.coded_retrans) => (Spec => []LinkNumbers)
<1> SUFFICES ASSUME \A o \in Options : ~o.coded_retrans PROVE Spec => []LinkNumbers
  OBVIOUS
<1>1. ASSUME LinkNumbers, [Next]_vars PROVE LinkNumbers'
  <2>1. opt \in Options /\ ~opt.coded_retrans
    BY <1>1 DEF LinkNumbers
  <2>2. CASE UNCHANGED vars
    BY <1>1, <2>2 DEF vars, LinkNumbers, EncsOk, Flows, AirOk, Hops
  <2>3. CASE Next
    <3>1. ASSUME NEW f \in Flows,
                 PutSource(f) \/ Transmit(f) \/ FlushCoded(f) \/ ExpireEncoder(f)
          PROVE  LinkNumbers'
      BY <1>1, <3>1, SenderNumbers
    <3>2. ASSUME NEW i, ReceiveFeedback(i) \/ RelayHears(i) PROVE LinkNumbers'
      BY <1>1, <2>1, <3>2, FeedbackNumbers
    <3> QED
      BY <1>1, <2>3, <3>1, <3>2, RelayNumbers, SinkStepNumbers, LoseNumbers DEF Next
  <2> QED
    BY <1>1, <2>2, <2>3
<1> QED
  BY <1>1, InitNumbers, PTL DEF Spec

(* Whatever is lost, doubled or reordered, with feedback or without, over  *)
(* a recoder or not, with one flow or several: as long as lost symbols are *)
(* not answered with coded retransmissions, no assertion of an encoder     *)
(* fails, its counter of source symbols is the number of marked slots, a   *)
(* marked symbol has an attempt left, and the credits pay for them         *)
(* (encoder.cpp).  With coded retransmissions an assertion does fail.      *)
THEOREM SwAccounts ==
  (\A o \in Options : ~o.coded_retrans) => (Spec => []EncAccounts)
<1> SUFFICES ASSUME \A o \in Options : ~o.coded_retrans PROVE Spec => []EncAccounts
  OBVIOUS
<1>1. LinkNumbers => EncAccounts
  BY EncOkFacts DEF LinkNumbers, EncsOk, EncAccounts
<1> QED
  BY <1>1, NumbersInvariant, PTL


-----------------------------------------------------------------------------
(* The ring, its slots and its numbers: a ring that has taken everything   *)
(* up to seq has its blocks in the slots of their numbers.                 *)
RingOk(rb, seq) ==
  /\ rb \in Ring!RingBuffers /\ rb.write_seqno = seq
  /\ Ring!RbAligned(rb) /\ Ring!RbReadSeqno(rb) >= 0

LEMMA RingFacts ==
  ASSUME NEW seq \in Nat, NEW rb, RingOk(rb, seq)
  PROVE  /\ rb.num_blocks \in 0 .. Symbols /\ rb.num_blocks \in Int
         /\ rb.write_seqno = seq /\ rb.write_index \in Slots /\ rb.read_index \in Slots
         /\ Ring!RbReadSeqno(rb) = seq - rb.num_blocks /\ Ring!RbReadSeqno(rb) \in Nat
         /\ rb.read_index = Ring!RbReadSeqno(rb) % Symbols
         /\ rb.write_index = seq % Symbols
         /\ Symbols \in Nat \ {0} /\ Slots \subseteq Int
<1>1. Symbols \in Nat \ {0} /\ Slots \subseteq Int
  BY SymbolsAssumption DEF Slots
<1>2. rb.num_blocks \in 0 .. Symbols /\ rb.write_index \in Slots /\ rb.read_index \in Slots
  BY DEF RingOk, Ring!RingBuffers, Slots
<1>3. Ring!RbReadSeqno(rb) = seq - rb.num_blocks
  BY DEF RingOk, Ring!RbReadSeqno
<1>4. Ring!RbReadSeqno(rb) \in Nat
  BY <1>1, <1>2, <1>3 DEF RingOk
<1> QED
  BY <1>1, <1>2, <1>3, <1>4 DEF RingOk, Ring!RbAligned

LEMMA RingReadOk ==
  ASSUME NEW seq \in Nat, NEW rb, RingOk(rb, seq), NEW k \in 0 .. rb.num_blocks
  PROVE  /\ RingOk(Ring!RbRead(rb, k), seq)
         /\ Ring!RbRead(rb, k).num_blocks = rb.num_blocks - k
         /\ Ring!RbReadSeqno(Ring!RbRead(rb, k)) = Ring!RbReadSeqno(rb) + k
<1> DEFINE r == (rb.read_index + k) % Symbols
           num == rb.num_blocks - k
           n == Ring!RbRead(rb, k)
           a == Ring!RbReadSeqno(rb)
<1>1. /\ rb.num_blocks \in 0 .. Symbols /\ rb.write_seqno = seq
      /\ rb.write_index \in Slots /\ a = seq - rb.num_blocks /\ a \in Nat
      /\ rb.read_index = a % Symbols /\ rb.write_index = seq % Symbols
      /\ Symbols \in Nat \ {0} /\ Slots \subseteq Int
  BY RingFacts
<1>2. k \in Int /\ num \in 0 .. Symbols /\ a + k = seq - num
  BY <1>1
<1>3. r = (a + k) % Symbols /\ r \in Slots
  <2>1. a \in Int /\ a + k \in Int
    BY <1>1, <1>2
  <2> HIDE DEF a
  <2>2. ((a % Symbols) + k) % Symbols = (a + k) % Symbols
    BY <1>1, <1>2, <2>1, ModSum
  <2>3. (a + k) % Symbols \in 0 .. Symbols - 1
    BY <1>1, <2>1, ModRange
  <2> QED
    BY <1>1, <2>2, <2>3 DEF Slots
<1>4. n = [rb EXCEPT !.read_index = r, !.num_blocks = num]
  BY DEF RingOk, Ring!RingBuffers, Ring!RbRead
<1> HIDE DEF r, num, n, a
<1>5. /\ n.num_blocks = num /\ n.write_seqno = seq /\ n.write_index = rb.write_index
      /\ n.read_index = r /\ n \in Ring!RingBuffers
  BY <1>1, <1>2, <1>3, <1>4 DEF RingOk, Ring!RingBuffers, Slots
<1>6. Ring!RbReadSeqno(n) = a + k
  BY <1>2, <1>5 DEF Ring!RbReadSeqno
<1>7. Ring!RbAligned(n)
  BY <1>1, <1>3, <1>5, <1>6 DEF Ring!RbAligned
<1>8. a + k >= 0
  BY <1>1, <1>2
<1>9. RingOk(n, seq)
  BY <1>5, <1>6, <1>7, <1>8 DEF RingOk
<1> QED
  BY <1>5, <1>6, <1>9 DEF n, a, num

LEMMA RingSlotOk ==
  ASSUME NEW seq \in Nat, NEW rb, RingOk(rb, seq), NEW k \in 0 .. rb.num_blocks - 1
  PROVE  /\ SymbolAt(seq, Ring!RbSlot(rb, k)) = Ring!RbReadSeqno(rb) + k
         /\ Ring!RbReadSeqno(rb) + k \in Nat /\ Ring!RbReadSeqno(rb) + k < seq
<1> DEFINE a == Ring!RbReadSeqno(rb)
           s == a + k
<1>1. /\ rb.num_blocks \in 0 .. Symbols /\ a = seq - rb.num_blocks /\ a \in Nat
      /\ rb.read_index = a % Symbols /\ Symbols \in Nat \ {0}
  BY RingFacts
<1> HIDE DEF a
<1>2. s \in Nat /\ s \in WindowOf(seq) /\ s < seq /\ k \in Int
  BY <1>1 DEF WindowOf
<1>3. Ring!RbSlot(rb, k) = Slot(s)
  <2>1. a \in Int /\ k \in Int
    BY <1>1, <1>2
  <2>2. ((a % Symbols) + k) % Symbols = (a + k) % Symbols
    BY <1>1, <2>1, ModSum
  <2> QED
    BY <1>1, <2>2 DEF Slot, Ring!RbSlot
<1>4. SymbolAt(seq, Slot(s)) = s
  <2> HIDE DEF s
  <2> QED
    BY <1>2, SlotSymbol
<1> QED
  BY <1>2, <1>3, <1>4 DEF a

LEMMA RingLostOk ==
  ASSUME NEW seq \in Nat, NEW rb, RingOk(rb, seq), NEW s \in Int
  PROVE  /\ Ring!RbLost(rb, s) \in 0 .. rb.num_blocks
         /\ Ring!RbLost(rb, s) > 0 => s - Symbols \in Nat
<1>1. /\ rb.num_blocks \in 0 .. Symbols /\ rb.write_seqno = seq /\ Symbols \in Nat \ {0}
      /\ seq - rb.num_blocks \in Nat
  BY RingFacts
<1> DEFINE shift == IF s > seq THEN s - seq ELSE 0
<1>2. Ring!RbShift(rb, s) = shift /\ shift \in Int
  BY <1>1 DEF Ring!RbShift
<1>3. Ring!RbLost(rb, s) = IF shift >= Symbols THEN rb.num_blocks
                           ELSE IF shift > Symbols - rb.num_blocks
                           THEN shift - (Symbols - rb.num_blocks) ELSE 0
  BY <1>2 DEF Ring!RbLost
<1> QED
  BY <1>1, <1>3

LEMMA RingInsertOk ==
  ASSUME NEW seq \in Nat, NEW rb, RingOk(rb, seq), NEW s \in Nat
  PROVE  /\ RingOk(Ring!RbInsert(rb, s), IF s > seq THEN s ELSE seq)
         /\ Ring!RbReadSeqno(Ring!RbInsert(rb, s)) >= Ring!RbReadSeqno(rb)
<1> DEFINE a == Ring!RbReadSeqno(rb)
           n == Ring!RbInsert(rb, s)
<1>1. /\ rb.num_blocks \in 0 .. Symbols /\ rb.write_seqno = seq
      /\ rb.write_index \in Slots /\ rb.read_index \in Slots
      /\ a = seq - rb.num_blocks /\ a \in Nat
      /\ rb.read_index = a % Symbols /\ rb.write_index = seq % Symbols
      /\ Symbols \in Nat \ {0} /\ Slots \subseteq Int
  BY RingFacts
<1>2. CASE s <= seq
  <2>1. Ring!RbShift(rb, s) = 0
    BY <1>1, <1>2 DEF Ring!RbShift
  <2>2. n = rb
    BY <2>1 DEF Ring!RbInsert
  <2>3. ~(s > seq) /\ a >= a
    BY <1>1, <1>2
  <2> QED
    BY <2>2, <2>3
<1>3. CASE s > seq
  <2> DEFINE shift == s - seq
             next == (rb.write_index + shift) % Symbols
             fits == Symbols - rb.num_blocks >= shift
             num == IF fits THEN rb.num_blocks + shift ELSE Symbols
             read == IF fits THEN rb.read_index ELSE next
  <2>1. Ring!RbShift(rb, s) = shift /\ shift \in Nat \ {0}
    BY <1>1, <1>3 DEF Ring!RbShift
  <2>2. n = [rb EXCEPT !.write_seqno = s, !.write_index = next, !.num_blocks = num,
                       !.read_index = read]
    <3>1. Ring!RbShift(rb, s) # 0
      BY <2>1
    <3>2. n = [rb EXCEPT !.write_seqno = s,
                         !.write_index = (rb.write_index + Ring!RbShift(rb, s)) % Symbols,
                         !.num_blocks = IF Symbols - @ >= Ring!RbShift(rb, s)
                                        THEN @ + Ring!RbShift(rb, s) ELSE Symbols,
                         !.read_index = IF Symbols - rb.num_blocks >= Ring!RbShift(rb, s) THEN @
                                        ELSE (rb.write_index + Ring!RbShift(rb, s)) % Symbols]
      BY <3>1 DEF Ring!RbInsert
    <3> HIDE DEF n, shift
    <3>3. n = [rb EXCEPT !.write_seqno = s,
                         !.write_index = (rb.write_index + shift) % Symbols,
                         !.num_blocks = IF Symbols - @ >= shift
                                        THEN @ + shift ELSE Symbols,
                         !.read_index = IF Symbols - rb.num_blocks >= shift THEN @
                                        ELSE (rb.write_index + shift) % Symbols]
      BY <2>1, <3>2
    <3> QED
      BY <3>3 DEF RingOk, Ring!RingBuffers
  <2>3. seq + shift = s
    BY <1>1
  <2>4. next = s % Symbols /\ next \in Slots
    <3>1. next = (seq + shift) % Symbols
      <4>1. seq \in Int /\ shift \in Int
        BY <2>1
      <4> HIDE DEF shift
      <4>2. ((seq % Symbols) + shift) % Symbols = (seq + shift) % Symbols
        BY <1>1, <4>1, ModSum
      <4> QED
        BY <1>1, <4>2
    <3>2. s % Symbols \in Slots
      <4>1. s \in Int
        OBVIOUS
      <4>2. s % Symbols \in 0 .. Symbols - 1
        BY <1>1, <4>1, ModRange
      <4> QED
        BY <4>2 DEF Slots
    <3> HIDE DEF next
    <3> QED
      BY <2>3, <3>1, <3>2
  <2>5. num \in 0 .. Symbols /\ s - num >= a
    BY <1>1, <1>3
  <2>6. read = (s - num) % Symbols /\ read \in Slots
    <3>1. CASE fits
      <4>1. s - num = a
        BY <1>1, <3>1
      <4> QED
        BY <1>1, <3>1, <4>1
    <3>2. CASE ~fits
      <4>0. s \in Int
        OBVIOUS
      <4>1. (s - Symbols) % Symbols = s % Symbols
        BY <1>1, <4>0, ModShift
      <4>2. num = Symbols /\ read = next
        BY <3>2
      <4> HIDE DEF next, num, read
      <4> QED
        BY <2>4, <4>1, <4>2
    <3> QED
      BY <3>1, <3>2
  <2> HIDE DEF n, next, num, read, shift, fits
  <2>7. /\ n.num_blocks = num /\ n.write_seqno = s /\ n.write_index = next
        /\ n.read_index = read /\ n \in Ring!RingBuffers
    <3>1. num \in 0 .. Symbols /\ s \in Int /\ next \in 0 .. Symbols - 1
          /\ read \in 0 .. Symbols - 1
      BY <2>4, <2>5, <2>6 DEF Slots
    <3> QED
      BY <2>2, <3>1 DEF RingOk, Ring!RingBuffers
  <2>8. Ring!RbReadSeqno(n) = s - num
    BY <2>7 DEF Ring!RbReadSeqno
  <2>9. Ring!RbAligned(n)
    BY <2>4, <2>6, <2>7, <2>8 DEF Ring!RbAligned
  <2>10. Ring!RbReadSeqno(n) >= 0
    BY <1>1, <2>5, <2>8
  <2>11. RingOk(n, s)
    BY <2>7, <2>9, <2>10 DEF RingOk
  <2> QED
    BY <1>3, <2>5, <2>8, <2>11 DEF n, a
<1> HIDE DEF n, a
<1>4. s \in Int /\ seq \in Int
  OBVIOUS
<1> QED
  BY <1>2, <1>3, <1>4 DEF n, a


-----------------------------------------------------------------------------
(* What was got, what is queued and what is in the ring: in this order.    *)
Ups(seq) == \A m, n \in DOMAIN seq : m < n => seq[m] < seq[n]

Below(seq, a) == \A n \in DOMAIN seq : seq[n] < a

ReadOk(read, queue, a) ==
  /\ read \in Seq(Nat) /\ queue \in Seq(Nat) /\ Ups(read) /\ Ups(queue)
  /\ \A m \in DOMAIN read, n \in DOMAIN queue : read[m] < queue[n]
  /\ Below(read, a) /\ Below(queue, a)

(* Kodo's rows are within its window, and a decoder that has moved has one *)
SpanOk(span, seq) ==
  /\ \A v \in span : v \subseteq WindowOf(seq)
  /\ {} \in span
  /\ span = EmptySpan <=> seq = 0

HeadTrue(d) ==
  d.has_source => d.rb.num_blocks > 0 /\ {Ring!RbReadSeqno(d.rb)} \in d.span

SinkBody(d) ==
  /\ SinkNumbers(d) /\ d.seq \in Nat /\ d.flush \in Nat
  /\ RingOk(d.rb, d.seq) /\ ReadOk(d.read, d.queue, Ring!RbReadSeqno(d.rb))
  /\ SpanOk(d.span, d.seq)

SinkOk(d) == SinkBody(d) /\ HeadTrue(d)

LEMMA SinkOkEdit ==
  ASSUME NEW d, SinkOk(d), NEW n,
         DOMAIN n = DOMAIN d, n = [x \in DOMAIN d |-> n[x]],
         \A x \in DOMAIN d \ SinkChanges : n[x] = d[x],
         RingOk(n.rb, d.seq), n.flush \in Nat, n.has_source \in BOOLEAN,
         ReadOk(n.read, n.queue, Ring!RbReadSeqno(n.rb)),
         n.has_source => n.rb.num_blocks > 0 /\ {Ring!RbReadSeqno(n.rb)} \in d.span
  PROVE  SinkOk(n) /\ SinkSame(n, d)
<1>0. SinkNumbers(d) /\ d.seq \in Nat /\ SpanOk(d.span, d.seq)
  BY DEF SinkOk, SinkBody
<1>1. n.seq = d.seq /\ n.span = d.span
  BY <1>0 DEF SinkNumbers, SinkShape, SinkFields, SinkChanges
<1>2. n.rb \in Rings
  <2>1. n.rb \in Ring!RingBuffers
    BY DEF RingOk
  <2> QED
    BY <2>1, SymbolsAssumption DEF Ring!RingBuffers, Rings, Slots
<1>3. n.queue \in Seq(Int) /\ n.read \in Seq(Int) /\ n.flush \in Int
  <2>1. n.queue \in Seq(Nat) /\ n.read \in Seq(Nat)
    BY DEF ReadOk
  <2>2. Nat \subseteq Int
    OBVIOUS
  <2> QED
    BY <2>1, <2>2
<1>4. SinkNumbers(n) /\ SinkSame(n, d)
  BY <1>0, <1>2, <1>3, SinkEdit
<1>5. SinkBody(n)
  BY <1>0, <1>1, <1>4 DEF SinkBody
<1>6. HeadTrue(n)
  BY <1>1 DEF HeadTrue
<1> QED
  BY <1>4, <1>5, <1>6 DEF SinkOk

LEMMA ReadOkUp ==
  ASSUME NEW read, NEW queue, NEW a \in Int, ReadOk(read, queue, a), NEW b \in Int, a <= b
  PROVE  ReadOk(read, queue, b)
<1>1. ASSUME NEW s \in Seq(Nat), Below(s, a) PROVE Below(s, b)
  <2>1. \A n \in DOMAIN s : s[n] \in Nat /\ s[n] < a
    BY <1>1 DEF Below
  <2>2. \A n \in DOMAIN s : s[n] < b
    BY <2>1
  <2> QED
    BY <2>2 DEF Below
<1> QED
  BY <1>1 DEF ReadOk

(* The readable blocks are those whose symbol is decoded.                  *)
LEMMA ReadableIs ==
  ASSUME NEW d, SinkBody(d)
  PROVE  /\ DecReadable(d) \in SUBSET (0 .. d.rb.num_blocks - 1)
         /\ \A k \in 0 .. d.rb.num_blocks - 1 :
              k \in DecReadable(d) <=> {Ring!RbReadSeqno(d.rb) + k} \in d.span
<1>1. d.seq \in Nat /\ RingOk(d.rb, d.seq)
  BY DEF SinkBody
<1>2. \A k \in 0 .. d.rb.num_blocks - 1 :
        SymbolAt(d.seq, Ring!RbSlot(d.rb, k)) = Ring!RbReadSeqno(d.rb) + k
  BY <1>1, RingSlotOk
<1> QED
  BY <1>2 DEF DecReadable, DecDecoded, IsSymbolUncoded

LEMMA FlushAfterOk ==
  ASSUME NEW d, d.flush \in Nat
  PROVE  DecFlushAfter(d) \in Nat
BY DEF DecFlushAfter

(* The head moves to a block that is decoded, or whose turn it is to be    *)
(* waited for.                                                             *)
LEMMA DecMoveToNextOk ==
  ASSUME NEW d, SinkOk(d)
  PROVE  SinkOk(DecMoveToNext(d)) /\ SinkSame(DecMoveToNext(d), d)
<1> DEFINE waits == {k \in 0 .. d.rb.num_blocks - 1 : Ring!RbReadSeqno(d.rb) + k = d.flush}
           stops == DecReadable(d) \cup waits
           k == IF stops = {} THEN d.rb.num_blocks ELSE SmallestIn(stops)
           head == k \in DecReadable(d)
           moved == [d EXCEPT !.rb = Ring!RbRead(@, k), !.has_source = head]
           n == [moved EXCEPT !.flush = DecFlushAfter(moved)]
           a == Ring!RbReadSeqno(d.rb)
           num == d.rb.num_blocks
<1>0. /\ SinkNumbers(d) /\ d.seq \in Nat /\ d.flush \in Nat /\ RingOk(d.rb, d.seq)
      /\ ReadOk(d.read, d.queue, a) /\ num \in Nat /\ a \in Nat /\ SinkBody(d)
  <2>1. /\ SinkNumbers(d) /\ d.seq \in Nat /\ d.flush \in Nat /\ RingOk(d.rb, d.seq)
        /\ ReadOk(d.read, d.queue, a) /\ SinkBody(d)
    BY DEF SinkOk, SinkBody
  <2>2. num \in 0 .. Symbols /\ a \in Nat /\ Symbols \in Nat \ {0}
    BY <2>1, RingFacts
  <2> QED
    BY <2>1, <2>2
<1>1. DecReadable(d) \in SUBSET (0 .. num - 1)
      /\ \A j \in 0 .. num - 1 : j \in DecReadable(d) => {a + j} \in d.span
  BY <1>0, ReadableIs
<1>2. k \in 0 .. num
  <2>1. stops \in SUBSET (0 .. num - 1) /\ 0 \in Int /\ num - 1 \in Int
    BY <1>0, <1>1
  <2>2. stops # {} => SmallestIn(stops) \in 0 .. num - 1
    <3> HIDE DEF stops, num
    <3>1. stops # {} => SmallestIn(stops) \in stops
      BY <2>1, SmallestOf
    <3> QED
      BY <2>1, <3>1, Zenon
  <2> HIDE DEF stops
  <2>3. CASE stops = {}
    BY <1>0, <2>3
  <2>4. CASE stops # {}
    BY <1>0, <2>2, <2>4
  <2> QED
    BY <2>3, <2>4
<1>3. DecMoveToNext(d) = n
  BY DEF DecMoveToNext
<1>4. head \in BOOLEAN /\ (head => k \in 0 .. num - 1 /\ {a + k} \in d.span)
  BY <1>1
<1> HIDE DEF k, head
<1>5. /\ RingOk(Ring!RbRead(d.rb, k), d.seq)
      /\ Ring!RbRead(d.rb, k).num_blocks = num - k
      /\ Ring!RbReadSeqno(Ring!RbRead(d.rb, k)) = a + k
  BY <1>0, <1>2, RingReadOk
<1>6. /\ DOMAIN moved = DOMAIN d /\ moved = [x \in DOMAIN d |-> moved[x]]
      /\ moved.rb = Ring!RbRead(d.rb, k) /\ moved.has_source = head
      /\ \A x \in DOMAIN d \ {"rb", "has_source"} : moved[x] = d[x]
  BY <1>0 DEF SinkNumbers, SinkShape, SinkFields
<1> HIDE DEF moved
<1>7. moved.flush = d.flush /\ moved.queue = d.queue /\ moved.read = d.read
      /\ SinkFields \subseteq DOMAIN d
  BY <1>0, <1>6 DEF SinkNumbers, SinkShape, SinkFields
<1>8. DecFlushAfter(moved) \in Nat
  BY <1>0, <1>7, FlushAfterOk
<1>9. /\ DOMAIN n = DOMAIN d /\ n = [x \in DOMAIN d |-> n[x]]
      /\ n.flush = DecFlushAfter(moved)
      /\ \A x \in DOMAIN d \ {"flush"} : n[x] = moved[x]
  BY <1>6, <1>7 DEF SinkFields
<1> HIDE DEF n
<1>10. n.rb = moved.rb /\ n.has_source = moved.has_source /\ n.queue = moved.queue
       /\ n.read = moved.read
  BY <1>7, <1>9 DEF SinkFields
<1>11. \A x \in DOMAIN d \ SinkChanges : n[x] = d[x]
  BY <1>6, <1>9 DEF SinkChanges
<1>12. ReadOk(n.read, n.queue, Ring!RbReadSeqno(n.rb))
  <2>1. ReadOk(d.read, d.queue, a + k)
    <3>1. a \in Int /\ a + k \in Int /\ a <= a + k
      BY <1>0, <1>2
    <3> HIDE DEF a
    <3> QED
      BY <1>0, <3>1, ReadOkUp
  <2> QED
    BY <1>5, <1>6, <1>7, <1>10, <2>1
<1>13. n.has_source => n.rb.num_blocks > 0 /\ {Ring!RbReadSeqno(n.rb)} \in d.span
  <2>1. head => num - k > 0
    BY <1>0, <1>4
  <2> QED
    BY <1>4, <1>5, <1>6, <1>10, <2>1
<1>14. RingOk(n.rb, d.seq) /\ n.flush \in Nat /\ n.has_source \in BOOLEAN
  BY <1>4, <1>5, <1>6, <1>8, <1>9, <1>10
<1> QED
  BY <1>3, <1>9, <1>11, <1>12, <1>13, <1>14, SinkOkEdit


(* The head of the queue is got, or the head of the ring.                  *)
LEMMA UpsAppend ==
  ASSUME NEW s \in Seq(Nat), Ups(s), NEW x \in Nat, Below(s, x)
  PROVE  /\ Append(s, x) \in Seq(Nat) /\ Ups(Append(s, x))
         /\ DOMAIN Append(s, x) = 1 .. Len(s) + 1 /\ Len(s) \in Nat
         /\ \A n \in DOMAIN s : Append(s, x)[n] = s[n]
         /\ Append(s, x)[Len(s) + 1] = x /\ DOMAIN s = 1 .. Len(s)
<1> DEFINE t == Append(s, x)
<1>1. /\ t \in Seq(Nat) /\ DOMAIN t = 1 .. Len(s) + 1 /\ Len(s) \in Nat /\ DOMAIN s = 1 .. Len(s)
      /\ \A n \in 1 .. Len(s) : t[n] = s[n]
      /\ t[Len(s) + 1] = x
  BY AppendProperties
<1> HIDE DEF t
<1>2. ASSUME NEW m \in DOMAIN t, NEW n \in DOMAIN t, m < n PROVE t[m] < t[n]
  <2>1. m \in DOMAIN s /\ t[m] = s[m] /\ m \in Int /\ n \in Int
    BY <1>1, <1>2
  <2>2. CASE n = Len(s) + 1
    BY <1>1, <2>1, <2>2 DEF Below
  <2>3. CASE n \in 1 .. Len(s)
    BY <1>1, <1>2, <2>1, <2>3 DEF Ups
  <2> QED
    BY <1>1, <2>2, <2>3
<1> QED
  BY <1>1, <1>2 DEF Ups, t

LEMMA ReadNext ==
  ASSUME NEW read, NEW a \in Nat, ReadOk(read, <<>>, a)
  PROVE  ReadOk(Append(read, a), <<>>, a + 1)
<1> DEFINE t == Append(read, a)
<1>1. read \in Seq(Nat) /\ Ups(read) /\ Below(read, a)
  BY DEF ReadOk
<1>2. /\ t \in Seq(Nat) /\ Ups(t) /\ DOMAIN t = 1 .. Len(read) + 1 /\ Len(read) \in Nat
      /\ \A n \in DOMAIN read : t[n] = read[n]
      /\ t[Len(read) + 1] = a /\ DOMAIN read = 1 .. Len(read)
  BY <1>1, UpsAppend
<1> HIDE DEF t
<1>3. ASSUME NEW n \in DOMAIN t PROVE t[n] < a + 1
  <2>1. CASE n = Len(read) + 1
    BY <1>2, <2>1
  <2>2. CASE n \in DOMAIN read
    <3>1. read[n] \in Nat /\ read[n] < a
      BY <1>1, <2>2 DEF Below
    <3> QED
      BY <1>2, <2>2, <3>1
  <2> QED
    BY <1>2, <2>1, <2>2
<1>4. <<>> \in Seq(Nat) /\ DOMAIN <<>> = {}
  OBVIOUS
<1>5. Ups(<<>>) /\ Below(<<>>, a + 1)
  BY <1>4 DEF Ups, Below
<1>6. \A m \in DOMAIN t, n \in DOMAIN <<>> : t[m] < <<>>[n]
  BY <1>4
<1>7. Below(t, a + 1)
  BY <1>3 DEF Below
<1>8. ReadOk(t, <<>>, a + 1)
  BY <1>2, <1>4, <1>5, <1>6, <1>7 DEF ReadOk
<1> QED
  BY <1>8 DEF t

LEMMA ReadQueued ==
  ASSUME NEW read, NEW queue, NEW a \in Nat, ReadOk(read, queue, a), queue # <<>>
  PROVE  ReadOk(Append(read, Head(queue)), Tail(queue), a)
<1> DEFINE h == Head(queue)
           q == Tail(queue)
           t == Append(read, h)
<1>1. /\ read \in Seq(Nat) /\ Ups(read) /\ Below(read, a) /\ queue \in Seq(Nat) /\ Ups(queue)
      /\ Below(queue, a) /\ \A m \in DOMAIN read, n \in DOMAIN queue : read[m] < queue[n]
  BY DEF ReadOk
<1>2. /\ h = queue[1] /\ h \in Nat /\ q \in Seq(Nat) /\ 1 \in DOMAIN queue
      /\ \A n \in DOMAIN q : n + 1 \in DOMAIN queue /\ q[n] = queue[n + 1] /\ n \in Nat \ {0}
  <2>1. Len(queue) \in Nat \ {0} /\ DOMAIN queue = 1 .. Len(queue)
    BY <1>1
  <2>2. h = queue[1] /\ q \in Seq(Nat) /\ Len(q) = Len(queue) - 1
        /\ \A n \in 1 .. Len(queue) - 1 : q[n] = queue[n + 1]
    BY <1>1, HeadTailProperties
  <2>3. DOMAIN q = 1 .. Len(queue) - 1
    BY <2>2
  <2>4. 1 \in DOMAIN queue /\ queue[1] \in Nat
    BY <1>1, <2>1
  <2> HIDE DEF h, q
  <2> QED
    BY <2>1, <2>2, <2>3, <2>4
<1>3. Below(read, h)
  BY <1>1, <1>2 DEF Below
<1>4. /\ t \in Seq(Nat) /\ Ups(t) /\ DOMAIN t = 1 .. Len(read) + 1 /\ Len(read) \in Nat
      /\ \A n \in DOMAIN read : t[n] = read[n]
      /\ t[Len(read) + 1] = h /\ DOMAIN read = 1 .. Len(read)
  <2> HIDE DEF h
  <2> QED
    BY <1>1, <1>2, <1>3, UpsAppend
<1> HIDE DEF t, q, h
<1>5. ASSUME NEW n \in DOMAIN t PROVE t[n] = h \/ n \in DOMAIN read
  BY <1>4
<1>6. Below(t, a)
  BY <1>1, <1>2, <1>4, <1>5 DEF Below
<1>7. Ups(q) /\ Below(q, a)
  <2>1. ASSUME NEW m \in DOMAIN q, NEW n \in DOMAIN q, m < n PROVE q[m] < q[n]
    <3>1. m + 1 < n + 1 /\ m + 1 \in DOMAIN queue /\ n + 1 \in DOMAIN queue
      BY <1>2, <2>1
    <3> QED
      BY <1>1, <1>2, <3>1 DEF Ups
  <2> QED
    BY <1>1, <1>2, <2>1 DEF Ups, Below
<1>8. ASSUME NEW m \in DOMAIN t, NEW n \in DOMAIN q PROVE t[m] < q[n]
  <2>1. n + 1 \in DOMAIN queue /\ q[n] = queue[n + 1] /\ 1 < n + 1
    BY <1>2
  <2>2. CASE t[m] = h
    BY <1>1, <1>2, <2>1, <2>2 DEF Ups
  <2>3. CASE m \in DOMAIN read
    BY <1>1, <1>4, <2>1, <2>3
  <2> QED
    BY <1>5, <2>2, <2>3
<1>9. ReadOk(t, q, a)
  BY <1>2, <1>4, <1>6, <1>7, <1>8 DEF ReadOk
<1> QED
  BY <1>9 DEF t, q, h

LEMMA DecGetSourceOk ==
  ASSUME NEW d, SinkOk(d), DecHasSource(d)
  PROVE  SinkOk(DecGetSource(d)) /\ SinkSame(DecGetSource(d), d)
<1> DEFINE a == Ring!RbReadSeqno(d.rb)
           num == d.rb.num_blocks
<1>0. /\ SinkNumbers(d) /\ d.seq \in Nat /\ d.flush \in Nat /\ RingOk(d.rb, d.seq)
      /\ ReadOk(d.read, d.queue, a) /\ num \in 0 .. Symbols /\ a \in Nat
      /\ Symbols \in Nat \ {0} /\ HeadTrue(d)
  <2>1. /\ SinkNumbers(d) /\ d.seq \in Nat /\ d.flush \in Nat /\ RingOk(d.rb, d.seq)
        /\ ReadOk(d.read, d.queue, a) /\ HeadTrue(d)
    BY DEF SinkOk, SinkBody
  <2> QED
    BY <2>1, RingFacts
<1>1. CASE d.queue # <<>>
  <2> DEFINE n == [d EXCEPT !.read = Append(@, Head(d.queue)), !.queue = Tail(@)]
  <2>2. /\ DOMAIN n = DOMAIN d /\ n = [x \in DOMAIN d |-> n[x]]
        /\ n.read = Append(d.read, Head(d.queue)) /\ n.queue = Tail(d.queue)
        /\ n.rb = d.rb /\ n.flush = d.flush /\ n.has_source = d.has_source
    BY <1>0 DEF SinkNumbers, SinkShape, SinkFields
  <2>3. \A x \in DOMAIN d \ SinkChanges : n[x] = d[x]
    BY <1>0 DEF SinkNumbers, SinkShape, SinkChanges
  <2>4. DecGetSource(d) = n
    BY <1>1 DEF DecGetSource
  <2> HIDE DEF n
  <2>5. ReadOk(n.read, n.queue, Ring!RbReadSeqno(n.rb))
    <3>1. ReadOk(Append(d.read, Head(d.queue)), Tail(d.queue), a)
      <4> HIDE DEF a
      <4> QED
        BY <1>0, <1>1, ReadQueued
    <3> QED
      BY <2>2, <3>1
  <2>6. RingOk(n.rb, d.seq) /\ n.flush \in Nat /\ n.has_source \in BOOLEAN
        /\ (n.has_source => n.rb.num_blocks > 0 /\ {Ring!RbReadSeqno(n.rb)} \in d.span)
    BY <1>0, <2>2 DEF HeadTrue, SinkNumbers
  <2> QED
    BY <2>2, <2>3, <2>4, <2>5, <2>6, SinkOkEdit
<1>2. CASE d.queue = <<>>
  <2> DEFINE s == SymbolAt(d.seq, Ring!RbSlot(d.rb, 0))
             n == [d EXCEPT !.read = Append(@, s),
                            !.rb = Ring!RbRead(@, 1),
                            !.has_source = FALSE]
  <2>1. num > 0
    BY <1>0, <1>2 DEF HeadTrue, DecHasSource
  <2>2. s = a
    <3>1. 0 \in 0 .. num - 1
      BY <1>0, <2>1
    <3>2. SymbolAt(d.seq, Ring!RbSlot(d.rb, 0)) = a + 0
      BY <1>0, <3>1, RingSlotOk
    <3> QED
      BY <1>0, <3>2
  <2>3. RingOk(Ring!RbRead(d.rb, 1), d.seq)
        /\ Ring!RbReadSeqno(Ring!RbRead(d.rb, 1)) = a + 1
    <3>1. 1 \in 0 .. num
      BY <1>0, <2>1
    <3> QED
      BY <1>0, <3>1, RingReadOk
  <2>4. DecGetSource(d) = DecMoveToNext(n)
    BY <1>2 DEF DecGetSource
  <2> HIDE DEF s
  <2>5. /\ DOMAIN n = DOMAIN d /\ n = [x \in DOMAIN d |-> n[x]]
        /\ n.read = Append(d.read, s) /\ n.queue = d.queue
        /\ n.rb = Ring!RbRead(d.rb, 1) /\ n.flush = d.flush /\ n.has_source = FALSE
    BY <1>0 DEF SinkNumbers, SinkShape, SinkFields
  <2>6. \A x \in DOMAIN d \ SinkChanges : n[x] = d[x]
    BY <1>0 DEF SinkNumbers, SinkShape, SinkChanges
  <2> HIDE DEF n
  <2>7. ReadOk(n.read, n.queue, Ring!RbReadSeqno(n.rb))
    <3>1. ReadOk(Append(d.read, a), <<>>, a + 1)
      <4> HIDE DEF a
      <4> QED
        BY <1>0, <1>2, ReadNext
    <3> QED
      BY <1>2, <2>2, <2>3, <2>5, <3>1
  <2>8. SinkOk(n) /\ SinkSame(n, d)
    BY <1>0, <2>3, <2>5, <2>6, <2>7, SinkOkEdit
  <2>9. SinkOk(DecMoveToNext(n)) /\ SinkSame(DecMoveToNext(n), n)
    BY <2>8, DecMoveToNextOk
  <2> QED
    BY <2>4, <2>8, <2>9, SinkSameTrans
<1> QED
  BY <1>1, <1>2

LEMMA DecSourceReadyOk ==
  ASSUME NEW d, SinkOk(d)
  PROVE  SinkOk(DecSourceReady(d)) /\ SinkSame(DecSourceReady(d), d)
<1> DEFINE T == {n \in SinkSet(d) : SinkOk(n)}
<1>0. \A n : n \in T <=> SinkOk(n) /\ SinkSame(n, d)
  BY SinkMember DEF SinkOk, SinkBody
<1> HIDE DEF T
<1>1. d \in T
  BY <1>0 DEF SinkSame
<1>2. ASSUME NEW x \in T, DecHasSource(x) PROVE DecGetSource(x) \in T
  <2>1. SinkOk(x) /\ SinkSame(x, d)
    BY <1>0
  <2>2. SinkOk(DecGetSource(x)) /\ SinkSame(DecGetSource(x), x)
    BY <1>2, <2>1, DecGetSourceOk
  <2> QED
    BY <1>0, <2>1, <2>2, SinkSameTrans
<1>3. DecSourceReady(d) \in T
  BY <1>1, <1>2, SourceReadyIn
<1> QED
  BY <1>0, <1>3


LEMMA DecFlushOk ==
  ASSUME NEW d, SinkOk(d)
  PROVE  LET ready == [d EXCEPT !.flush = d.seq]
         IN /\ SinkOk(ready) /\ SinkSame(ready, d)
            /\ SinkOk(DecMoveToNext(ready)) /\ SinkSame(DecMoveToNext(ready), d)
<1> DEFINE ready == [d EXCEPT !.flush = d.seq]
<1>0. /\ SinkNumbers(d) /\ d.seq \in Nat /\ RingOk(d.rb, d.seq)
      /\ ReadOk(d.read, d.queue, Ring!RbReadSeqno(d.rb)) /\ HeadTrue(d) /\ d.has_source \in BOOLEAN
  BY DEF SinkOk, SinkBody, SinkNumbers
<1>1. /\ DOMAIN ready = DOMAIN d /\ ready = [x \in DOMAIN d |-> ready[x]]
      /\ ready.flush = d.seq /\ ready.queue = d.queue /\ ready.read = d.read
      /\ ready.rb = d.rb /\ ready.has_source = d.has_source
  BY <1>0 DEF SinkNumbers, SinkShape, SinkFields
<1>2. \A x \in DOMAIN d \ SinkChanges : ready[x] = d[x]
  BY <1>0 DEF SinkNumbers, SinkShape, SinkChanges
<1> HIDE DEF ready
<1>3. ready.has_source => ready.rb.num_blocks > 0 /\ {Ring!RbReadSeqno(ready.rb)} \in d.span
  BY <1>0, <1>1 DEF HeadTrue
<1>4. SinkOk(ready) /\ SinkSame(ready, d)
  BY <1>0, <1>1, <1>2, <1>3, SinkOkEdit
<1>5. SinkOk(DecMoveToNext(ready)) /\ SinkSame(DecMoveToNext(ready), ready)
  BY <1>4, DecMoveToNextOk
<1>6. SinkSame(DecMoveToNext(ready), d)
  BY <1>4, <1>5, SinkSameTrans
<1> QED
  BY <1>4, <1>5, <1>6 DEF ready

(* Before the ring loses symbols the undecoded ones are skipped: a head    *)
(* that was ready is not among them.                                       *)
LEMMA DecSkipLostOk ==
  ASSUME NEW d, SinkOk(d), NEW s \in Int, Ring!RbLost(d.rb, s) # 0
  PROVE  SinkOk(DecSkipLost(d, s)) /\ SinkSame(DecSkipLost(d, s), d)
<1> DEFINE lost == Ring!RbLost(d.rb, s)
           stops == DecReadable(d) \cap 0 .. lost - 1
           k == IF stops = {} THEN lost ELSE SmallestIn(stops)
           head == d.has_source \/ stops # {}
           n == DecSkipLost(d, s)
           a == Ring!RbReadSeqno(d.rb)
           num == d.rb.num_blocks
<1>0. /\ SinkNumbers(d) /\ d.seq \in Nat /\ RingOk(d.rb, d.seq) /\ HeadTrue(d)
      /\ ReadOk(d.read, d.queue, a) /\ a \in Nat /\ num \in Nat /\ SinkBody(d)
      /\ d.has_source \in BOOLEAN
  <2>1. /\ SinkNumbers(d) /\ d.seq \in Nat /\ RingOk(d.rb, d.seq) /\ HeadTrue(d)
        /\ ReadOk(d.read, d.queue, a) /\ SinkBody(d) /\ d.has_source \in BOOLEAN
    BY DEF SinkOk, SinkBody, SinkNumbers
  <2>2. num \in 0 .. Symbols /\ a \in Nat /\ Symbols \in Nat \ {0}
    BY <2>1, RingFacts
  <2> QED
    BY <2>1, <2>2
<1>1. lost \in 0 .. num /\ lost > 0 /\ s - Symbols \in Nat
  <2>1. lost \in 0 .. num /\ (lost > 0 => s - Symbols \in Nat)
    BY <1>0, RingLostOk
  <2>2. lost # 0
    OBVIOUS
  <2> HIDE DEF lost
  <2> QED
    BY <1>0, <2>1, <2>2
<1>2. DecReadable(d) \in SUBSET (0 .. num - 1)
      /\ \A j \in 0 .. num - 1 : j \in DecReadable(d) <=> {a + j} \in d.span
  BY <1>0, ReadableIs
<1> HIDE DEF lost
<1>3. stops \in SUBSET (0 .. lost - 1) /\ (stops # {} => SmallestIn(stops) \in stops)
  <2>1. stops \in SUBSET (0 .. lost - 1) /\ 0 \in Int /\ lost - 1 \in Int
    BY <1>0, <1>1
  <2> HIDE DEF stops
  <2> QED
    BY <2>1, SmallestOf
<1>4. head => stops # {}
  <2>1. ASSUME d.has_source PROVE 0 \in stops
    <3>1. num > 0 /\ {a} \in d.span
      BY <1>0, <2>1 DEF HeadTrue
    <3>2. 0 \in 0 .. num - 1 /\ 0 \in 0 .. lost - 1 /\ a + 0 = a
      BY <1>0, <1>1, <3>1
    <3>3. 0 \in DecReadable(d)
      BY <1>2, <3>1, <3>2
    <3> QED
      BY <3>2, <3>3
  <2> QED
    BY <2>1
<1>5. k \in 0 .. num /\ (stops # {} => k \in 0 .. num - 1 /\ {a + k} \in d.span)
  <2>1. CASE stops = {}
    BY <1>1, <2>1
  <2>2. CASE stops # {}
    <3>1. k \in DecReadable(d) /\ k \in 0 .. num - 1
      BY <1>2, <1>3, <2>2
    <3>2. {a + k} \in d.span
      <4> HIDE DEF k, a, num
      <4> QED
        BY <1>2, <3>1
    <3>3. k \in 0 .. num
      <4> HIDE DEF k
      <4> QED
        BY <1>0, <3>1
    <3> QED
      BY <3>1, <3>2, <3>3
  <2> QED
    BY <2>1, <2>2
<1>6. /\ RingOk(Ring!RbRead(d.rb, k), d.seq)
      /\ Ring!RbRead(d.rb, k).num_blocks = num - k
      /\ Ring!RbReadSeqno(Ring!RbRead(d.rb, k)) = a + k
  <2> HIDE DEF k
  <2> QED
    BY <1>0, <1>5, RingReadOk
<1>7. n = [d EXCEPT !.flush = s - Symbols, !.rb = Ring!RbRead(@, k), !.has_source = head]
  <2>1. n = [d EXCEPT !.flush = s - Symbols, !.rb = Ring!RbRead(@, k),
                      !.has_source = @ \/ stops # {}]
    BY DEF DecSkipLost, lost
  <2> HIDE DEF n, k, stops
  <2> QED
    BY <2>1, <1>0 DEF SinkNumbers, SinkShape, SinkFields
<1>8. head \in BOOLEAN
  OBVIOUS
<1> HIDE DEF n, k, head
<1>9. /\ DOMAIN n = DOMAIN d /\ n = [y \in DOMAIN d |-> n[y]]
      /\ n.flush = s - Symbols /\ n.queue = d.queue /\ n.read = d.read
      /\ n.rb = Ring!RbRead(d.rb, k) /\ n.has_source = head
  BY <1>0, <1>7 DEF SinkNumbers, SinkShape, SinkFields
<1>10. \A y \in DOMAIN d \ SinkChanges : n[y] = d[y]
  BY <1>0, <1>7 DEF SinkNumbers, SinkShape, SinkChanges
<1>11. ReadOk(n.read, n.queue, Ring!RbReadSeqno(n.rb))
  <2>1. a \in Int /\ a + k \in Int /\ a <= a + k
    BY <1>0, <1>5
  <2>2. ReadOk(d.read, d.queue, a + k)
    <3> HIDE DEF a
    <3> QED
      BY <1>0, <2>1, ReadOkUp
  <2> QED
    BY <1>6, <1>9, <2>2
<1>12. n.has_source => n.rb.num_blocks > 0 /\ {Ring!RbReadSeqno(n.rb)} \in d.span
  <2>1. stops # {} => num - k > 0
    BY <1>0, <1>5
  <2> QED
    BY <1>4, <1>5, <1>6, <1>9, <2>1
<1>13. RingOk(n.rb, d.seq) /\ n.flush \in Nat /\ n.has_source \in BOOLEAN
  BY <1>1, <1>6, <1>8, <1>9
<1>14. SinkOk(n) /\ SinkSame(n, d)
  BY <1>9, <1>10, <1>11, <1>12, <1>13, SinkOkEdit
<1> QED
  BY <1>14 DEF n

(* What the consumer leaves is queued, oldest first: all of it is ahead of *)
(* what was got, and behind what is left in the ring.                      *)
LEMMA QueueLostReads ==
  ASSUME NEW d, SinkOk(d), NEW s \in Int
  PROVE  LET lost    == Ring!RbLost(d.rb, s)
             decoded == Sorted(DecReadable(d) \cap 0 .. lost - 1)
             queue   == [n \in DOMAIN decoded |->
                           SymbolAt(d.seq, Ring!RbSlot(d.rb, decoded[n]))]
         IN ReadOk(d.read, queue, Ring!RbReadSeqno(d.rb) + lost)
<1> DEFINE lost == Ring!RbLost(d.rb, s)
           S == DecReadable(d) \cap 0 .. lost - 1
           decoded == Sorted(S)
           c == Cardinality(S)
           queue == [n \in DOMAIN decoded |->
                       SymbolAt(d.seq, Ring!RbSlot(d.rb, decoded[n]))]
           a == Ring!RbReadSeqno(d.rb)
           num == d.rb.num_blocks
<1>0. /\ d.seq \in Nat /\ RingOk(d.rb, d.seq) /\ ReadOk(d.read, d.queue, a)
      /\ a \in Nat /\ num \in Nat
  <2>1. d.seq \in Nat /\ RingOk(d.rb, d.seq) /\ ReadOk(d.read, d.queue, a)
    BY DEF SinkOk, SinkBody
  <2>2. num \in 0 .. Symbols /\ a \in Nat /\ Symbols \in Nat \ {0}
    BY <2>1, RingFacts
  <2> QED
    BY <2>1, <2>2
<1>1. lost \in 0 .. num
  BY <1>0, RingLostOk
<1> HIDE DEF lost
<1>2. lost \in Nat /\ lost <= num /\ S \in SUBSET (0 .. lost - 1)
  BY <1>0, <1>1
<1> HIDE DEF S
<1>3. /\ decoded \in [1 .. c -> S] /\ c \in Nat
      /\ \A m, n \in DOMAIN decoded : m < n => decoded[m] < decoded[n]
  BY <1>2, SortedOf
<1> HIDE DEF decoded, c
<1>4. ASSUME NEW m \in 1 .. c
      PROVE  queue[m] = a + decoded[m] /\ decoded[m] \in Nat /\ decoded[m] < lost
  <2>1. decoded[m] \in S
    BY <1>3
  <2>2. decoded[m] \in 0 .. lost - 1
    BY <1>2, <2>1
  <2>3. decoded[m] \in 0 .. num - 1 /\ decoded[m] \in Nat /\ decoded[m] < lost
    BY <1>0, <1>2, <2>2
  <2>4. SymbolAt(d.seq, Ring!RbSlot(d.rb, decoded[m])) = a + decoded[m]
    BY <1>0, <2>3, RingSlotOk
  <2>5. m \in DOMAIN decoded
    BY <1>3
  <2> QED
    BY <2>3, <2>4, <2>5
<1>5. DOMAIN queue = 1 .. c /\ DOMAIN decoded = 1 .. c
      /\ queue = [m \in 1 .. c |-> queue[m]]
  BY <1>3
<1> HIDE DEF queue, a, num
<1>6. \A m \in 1 .. c : queue[m] \in Nat /\ a <= queue[m] /\ queue[m] < a + lost
  BY <1>0, <1>2, <1>4
<1>7. queue \in Seq(Nat)
  <2>1. queue \in [1 .. c -> Nat]
    BY <1>5, <1>6
  <2> QED
    BY <1>3, <2>1, SeqDef
<1>8. Ups(queue) /\ Below(queue, a + lost)
  <2>1. ASSUME NEW m \in 1 .. c, NEW n \in 1 .. c, m < n PROVE queue[m] < queue[n]
    <3>1. decoded[m] < decoded[n]
      BY <1>3, <1>5, <2>1
    <3>2. queue[m] = a + decoded[m] /\ queue[n] = a + decoded[n]
          /\ decoded[m] \in Nat /\ decoded[n] \in Nat
      BY <1>4
    <3> QED
      BY <1>0, <3>1, <3>2
  <2> QED
    BY <1>5, <1>6, <2>1 DEF Ups, Below
<1>9. d.read \in Seq(Nat) /\ Ups(d.read) /\ \A m \in DOMAIN d.read : d.read[m] \in Nat /\ d.read[m] < a
  BY <1>0 DEF ReadOk, Below
<1>10. \A m \in DOMAIN d.read, n \in 1 .. c : d.read[m] < queue[n]
  BY <1>0, <1>6, <1>9
<1>11. Below(d.read, a + lost)
  BY <1>0, <1>2, <1>9 DEF Below
<1>12. ReadOk(d.read, queue, a + lost)
  BY <1>5, <1>7, <1>8, <1>9, <1>10, <1>11 DEF ReadOk
<1> QED
  BY <1>12 DEF queue, decoded, S, lost, a


LEMMA DecQueueLostOk ==
  ASSUME NEW d, SinkOk(d), NEW s \in Int
  PROVE  SinkOk(DecQueueLost(d, s)) /\ SinkSame(DecQueueLost(d, s), d)
<1> DEFINE lost == Ring!RbLost(d.rb, s)
           decoded == Sorted(DecReadable(d) \cap 0 .. lost - 1)
           rest == [d EXCEPT !.rb = Ring!RbRead(@, lost)]
           queue == [n \in DOMAIN decoded |->
                       SymbolAt(d.seq, Ring!RbSlot(d.rb, decoded[n]))]
           flush == IF Ring!RbReadSeqno(rest.rb) + Symbols < s
                    THEN Ring!RbReadSeqno(rest.rb) ELSE d.flush
           n == DecQueueLost(d, s)
           a == Ring!RbReadSeqno(d.rb)
           num == d.rb.num_blocks
<1>0. /\ SinkNumbers(d) /\ d.seq \in Nat /\ d.flush \in Nat /\ RingOk(d.rb, d.seq)
      /\ a \in Nat /\ num \in Nat
  <2>1. SinkNumbers(d) /\ d.seq \in Nat /\ d.flush \in Nat /\ RingOk(d.rb, d.seq)
    BY DEF SinkOk, SinkBody
  <2>2. num \in 0 .. Symbols /\ a \in Nat /\ Symbols \in Nat \ {0}
    BY <2>1, RingFacts
  <2> QED
    BY <2>1, <2>2
<1>1. lost \in 0 .. num
  BY <1>0, RingLostOk
<1>2. ReadOk(d.read, queue, a + lost)
  BY QueueLostReads
<1>3. n = [rest EXCEPT !.queue = queue, !.flush = flush, !.has_source = FALSE]
  <2>1. n = [rest EXCEPT !.queue = queue,
               !.flush = IF Ring!RbReadSeqno(rest.rb) + Symbols < s
                         THEN Ring!RbReadSeqno(rest.rb) ELSE @,
               !.has_source = FALSE]
    BY DEF DecQueueLost, DecQueue
  <2>2. /\ DOMAIN rest = DOMAIN d /\ rest.flush = d.flush
    BY <1>0 DEF SinkNumbers, SinkShape, SinkFields
  <2> HIDE DEF n, queue, rest
  <2> QED
    BY <2>1, <2>2, <1>0 DEF SinkNumbers, SinkShape, SinkFields
<1> HIDE DEF lost
<1>4. /\ RingOk(Ring!RbRead(d.rb, lost), d.seq)
      /\ Ring!RbReadSeqno(Ring!RbRead(d.rb, lost)) = a + lost
  BY <1>0, <1>1, RingReadOk
<1>5. /\ DOMAIN rest = DOMAIN d /\ rest = [y \in DOMAIN d |-> rest[y]]
      /\ rest.read = d.read /\ rest.rb = Ring!RbRead(d.rb, lost)
      /\ \A y \in DOMAIN d \ {"rb"} : rest[y] = d[y]
  BY <1>0 DEF SinkNumbers, SinkShape, SinkFields
<1> HIDE DEF rest, queue
<1>6. flush \in Nat
  <2>1. Ring!RbReadSeqno(rest.rb) = a + lost /\ a + lost \in Nat
    BY <1>0, <1>1, <1>4, <1>5
  <2> HIDE DEF a
  <2> QED
    BY <1>0, <2>1
<1> HIDE DEF n, flush
<1>7. /\ DOMAIN n = DOMAIN d /\ n = [y \in DOMAIN d |-> n[y]]
      /\ n.flush = flush /\ n.queue = queue /\ n.read = d.read
      /\ n.rb = Ring!RbRead(d.rb, lost) /\ n.has_source = FALSE
      /\ \A y \in DOMAIN d \ {"queue", "flush", "has_source"} : n[y] = rest[y]
  BY <1>0, <1>3, <1>5 DEF SinkNumbers, SinkShape, SinkFields
<1>8. \A y \in DOMAIN d \ SinkChanges : n[y] = d[y]
  BY <1>5, <1>7 DEF SinkChanges
<1>9. ReadOk(n.read, n.queue, Ring!RbReadSeqno(n.rb))
  BY <1>2, <1>4, <1>7
<1>10. RingOk(n.rb, d.seq) /\ n.flush \in Nat /\ n.has_source \in BOOLEAN
  BY <1>4, <1>6, <1>7
<1>11. SinkOk(n) /\ SinkSame(n, d)
  BY <1>7, <1>8, <1>9, <1>10, SinkOkEdit
<1> QED
  BY <1>11 DEF n

LEMMA DecConsumeOldOk ==
  ASSUME NEW d, SinkOk(d), NEW s \in Int
  PROVE  SinkOk(DecConsumeOld(d, s)) /\ SinkSame(DecConsumeOld(d, s), d)
<1> DEFINE a == DecSkipLost(d, s)
           b == DecSourceReady(a)
           c == DecQueueLost(b, s)
<1>1. SinkSame(d, d)
  BY DEF SinkSame
<1>2. CASE Ring!RbLost(d.rb, s) = 0
  BY <1>1, <1>2 DEF DecConsumeOld
<1>3. CASE Ring!RbLost(d.rb, s) # 0
  <2>1. SinkOk(a) /\ SinkSame(a, d)
    BY <1>3, DecSkipLostOk
  <2> HIDE DEF a
  <2>2. SinkOk(b) /\ SinkSame(b, a)
    BY <2>1, DecSourceReadyOk
  <2> HIDE DEF b
  <2>3. SinkOk(c) /\ SinkSame(c, b)
    BY <2>2, DecQueueLostOk
  <2> HIDE DEF c
  <2>4. SinkSame(c, d)
    BY <2>1, <2>2, <2>3, SinkSameTrans
  <2>5. DecConsumeOld(d, s) \in {d, c}
    BY DEF DecConsumeOld, a, b, c
  <2> QED
    BY <1>1, <2>3, <2>4, <2>5
<1> QED
  BY <1>2, <1>3



-----------------------------------------------------------------------------
(* A packet as the encoders and the recoder send it while no draw is all   *)
(* zero: it combines symbols of its own window, at least one.              *)
PacketOk(m) ==
  /\ m.seq \in Nat \ {0} /\ m.no \in Nat
  /\ m.vec \subseteq WindowOf(m.seq) /\ m.vec # {}

(* Kodo takes a number over only to go forward: without rows it has not    *)
(* heard anything yet.                                                     *)
LEMMA KodoReads ==
  ASSUME NEW seq \in Nat, NEW span, SpanOk(span, seq), NEW pkt, PacketOk(pkt)
  PROVE  /\ KodoSeq(seq, span, pkt) = IF pkt.seq > seq THEN pkt.seq ELSE seq
         /\ SpanOk(KodoSpan(seq, span, pkt), KodoSeq(seq, span, pkt))
<1> DEFINE now == KodoSeq(seq, span, pkt)
           kept == Kept(span, now)
           result == KodoSpan(seq, span, pkt)
<1>0. pkt.seq \in Nat \ {0} /\ pkt.vec \subseteq WindowOf(pkt.seq) /\ pkt.vec # {}
  BY DEF PacketOk
<1>1. now = IF pkt.seq > seq THEN pkt.seq ELSE seq
  <2>1. span = EmptySpan => pkt.seq > seq
    BY <1>0 DEF SpanOk
  <2> QED
    BY <2>1 DEF KodoSeq
<1> DEFINE reads == pkt.seq > now - Symbols /\ pkt.vec \subseteq WindowOf(now)
<1>2. result = IF reads THEN ReadPayload(kept, pkt.vec) ELSE kept
  BY DEF KodoSpan
<1> HIDE DEF now, result
<1>3. kept \subseteq span /\ {} \in kept /\ \A v \in kept : v \subseteq WindowOf(now)
  BY DEF Kept, SpanOk
<1>4. CASE reads
  <2>1. \A v \in result : v \subseteq WindowOf(now)
    <3> HIDE DEF kept
    <3> QED
      BY <1>2, <1>3, <1>4 DEF ReadPayload, Plus
  <2>2. {} \in result
    BY <1>2, <1>3, <1>4 DEF ReadPayload
  <2>3. pkt.vec \in result
    <3>1. Plus({}, pkt.vec) = pkt.vec
      BY DEF Plus
    <3> HIDE DEF kept
    <3> QED
      BY <1>2, <1>3, <1>4, <3>1 DEF ReadPayload
  <2>4. result # EmptySpan
    BY <1>0, <2>3 DEF EmptySpan
  <2>5. now # 0
    BY <1>0, <1>1
  <2> QED
    BY <1>1, <2>1, <2>2, <2>4, <2>5 DEF SpanOk, now, result
<1>5. CASE ~reads
  <2>1. now = seq
    <3>1. pkt.seq > pkt.seq - Symbols
      BY <1>0, SymbolsAssumption
    <3>2. now # pkt.seq
      BY <1>0, <1>5, <3>1
    <3> QED
      BY <1>1, <3>2
  <2>2. kept = span
    BY <2>1 DEF Kept, SpanOk
  <2>3. result = span
    BY <1>2, <1>5, <2>2
  <2> QED
    BY <1>1, <2>1, <2>3 DEF now, result
<1> QED
  BY <1>4, <1>5

(* A packet is read: the ring goes as far as kodo does, what was got stays *)
(* behind, and the head is looked at again.                                *)
LEMMA SinkReadsOk ==
  ASSUME NEW d, SinkOk(d), NEW pkt, PacketOk(pkt), NEW n,
         DOMAIN n = DOMAIN d, n = [x \in DOMAIN d |-> n[x]],
         n.seq = KodoSeq(d.seq, d.span, pkt), n.span = KodoSpan(d.seq, d.span, pkt),
         n.rb = Ring!RbInsert(d.rb, pkt.seq),
         n.flush = d.flush, n.has_source = d.has_source, n.queue = d.queue, n.read = d.read
  PROVE  LET head == [n EXCEPT !.has_source = ~Ring!RbEmpty(n.rb) /\ 0 \in DecReadable(n)]
             next == [head EXCEPT !.flush = DecFlushAfter(head)]
         IN /\ SinkOk(next) /\ SinkSame(next, n) /\ SinkBody(n) /\ n.seq >= d.seq
            /\ n.seq = IF pkt.seq > d.seq THEN pkt.seq ELSE d.seq
<1> DEFINE ready == ~Ring!RbEmpty(n.rb) /\ 0 \in DecReadable(n)
           head == [n EXCEPT !.has_source = ready]
           next == [head EXCEPT !.flush = DecFlushAfter(head)]
<1>0. /\ SinkNumbers(d) /\ d.seq \in Nat /\ d.flush \in Nat /\ RingOk(d.rb, d.seq)
      /\ ReadOk(d.read, d.queue, Ring!RbReadSeqno(d.rb)) /\ SpanOk(d.span, d.seq)
      /\ pkt.seq \in Nat \ {0}
  BY DEF SinkOk, SinkBody, PacketOk
<1>1. /\ n.seq = IF pkt.seq > d.seq THEN pkt.seq ELSE d.seq
      /\ SpanOk(n.span, n.seq)
  BY <1>0, KodoReads
<1>2. n.seq \in Nat /\ n.seq >= d.seq
  BY <1>0, <1>1
<1>3. RingOk(n.rb, n.seq) /\ Ring!RbReadSeqno(n.rb) >= Ring!RbReadSeqno(d.rb)
  BY <1>0, <1>1, RingInsertOk
<1>4. Ring!RbReadSeqno(n.rb) \in Nat /\ Ring!RbReadSeqno(d.rb) \in Nat /\ n.rb.num_blocks \in Nat
  <2>1. n.rb.num_blocks \in 0 .. Symbols /\ Symbols \in Nat \ {0}
    BY <1>2, <1>3, RingFacts
  <2> QED
    BY <1>0, <1>2, <1>3, <2>1, RingFacts
<1>5. ReadOk(n.read, n.queue, Ring!RbReadSeqno(n.rb))
  BY <1>0, <1>3, <1>4, ReadOkUp
<1>6. ready \in BOOLEAN
  OBVIOUS
<1>7. SinkNumbers(n)
  <2>1. pkt.seq \in Int
    BY <1>0
  <2> QED
    BY <1>0, <2>1, <1>6, SinkReads
<1>8. SinkBody(n)
  BY <1>0, <1>1, <1>2, <1>3, <1>5, <1>7 DEF SinkBody
<1>9. ready => n.rb.num_blocks > 0 /\ {Ring!RbReadSeqno(n.rb)} \in n.span
  <2> SUFFICES ASSUME ready PROVE n.rb.num_blocks > 0 /\ {Ring!RbReadSeqno(n.rb)} \in n.span
    OBVIOUS
  <2>1. n.rb.num_blocks > 0
    BY <1>4 DEF Ring!RbEmpty
  <2>2. 0 \in 0 .. n.rb.num_blocks - 1
    BY <1>4, <2>1
  <2>3. {Ring!RbReadSeqno(n.rb) + 0} \in n.span
    <3>1. 0 \in DecReadable(n)
      OBVIOUS
    <3> QED
      BY <1>8, <2>2, <3>1, ReadableIs
  <2>4. Ring!RbReadSeqno(n.rb) + 0 = Ring!RbReadSeqno(n.rb)
    BY <1>4
  <2> QED
    BY <2>1, <2>3, <2>4
<1> HIDE DEF ready
<1>10. /\ DOMAIN head = DOMAIN n /\ head = [x \in DOMAIN n |-> head[x]]
      /\ head.rb = n.rb /\ head.has_source = ready /\ head.flush = n.flush
      /\ head.queue = n.queue /\ head.read = n.read /\ head.seq = n.seq /\ head.span = n.span
      /\ \A x \in DOMAIN n \ {"has_source"} : head[x] = n[x]
      /\ SinkFields \subseteq DOMAIN n
  BY <1>7 DEF SinkNumbers, SinkShape, SinkFields
<1> HIDE DEF head
<1>11. DecFlushAfter(head) \in Nat
  BY <1>0, <1>10, FlushAfterOk
<1>12. /\ DOMAIN next = DOMAIN n /\ next = [x \in DOMAIN n |-> next[x]]
      /\ next.rb = n.rb /\ next.has_source = ready /\ next.flush = DecFlushAfter(head)
      /\ next.queue = n.queue /\ next.read = n.read /\ next.seq = n.seq /\ next.span = n.span
      /\ \A x \in DOMAIN n \ {"flush"} : next[x] = head[x]
  BY <1>7, <1>10 DEF SinkNumbers, SinkShape, SinkFields
<1> HIDE DEF next
<1>13. \A x \in DOMAIN n \ SinkChanges : next[x] = n[x]
  BY <1>10, <1>12 DEF SinkChanges
<1>14. SinkNumbers(next) /\ SinkSame(next, n)
  <2>1. DecFlushAfter(head) \in Int
    BY <1>11
  <2>2. n.rb \in Rings /\ n.queue \in Seq(Int) /\ n.read \in Seq(Int)
    BY <1>7 DEF SinkNumbers
  <2> QED
    BY <1>6, <1>7, <1>12, <1>13, <2>1, <2>2, SinkEdit DEF ready
<1>15. SinkOk(next)
  BY <1>1, <1>2, <1>3, <1>5, <1>9, <1>11, <1>12, <1>14 DEF SinkOk, SinkBody, HeadTrue
<1> QED
  BY <1>1, <1>2, <1>8, <1>14, <1>15 DEF next, head, ready



-----------------------------------------------------------------------------
(* What a decoder keeps beside the sink.                                   *)
DecExtras ==
  {"initialized", "has_feedback", "feedback_packet_no", "feedback_no",
   "feedback_tx_attempts", "timer", "fb_timer", "failed"}

DecRest(d) ==
  /\ DecExtras \subseteq DOMAIN d
  /\ d.has_feedback \in BOOLEAN /\ d.timer \in BOOLEAN /\ d.eager \in BOOLEAN
  /\ d.initialized \in BOOLEAN /\ d.fb_timer \in BOOLEAN /\ d.failed = FALSE
  /\ d.feedback_packet_no \in Nat /\ d.feedback_no \in Nat
  /\ d.feedback_tx_attempts \in 0 .. opt.fb_tx

DecOk(d) == SinkOk(d) /\ DecRest(d)

LEMMA SinkOkLike ==
  ASSUME NEW d, SinkOk(d), NEW n,
         DOMAIN n = DOMAIN d, n = [x \in DOMAIN d |-> n[x]],
         \A x \in SinkFields \ {"flush"} : n[x] = d[x], n.flush \in Nat
  PROVE  SinkOk(n)
<1>1. /\ n.rb = d.rb /\ n.seq = d.seq /\ n.has_source = d.has_source
      /\ n.queue = d.queue /\ n.read = d.read /\ n.span = d.span
  BY DEF SinkFields
<1>2. SinkNumbers(n)
  <2>1. n.flush \in Int
    OBVIOUS
  <2> QED
    BY <1>1, <2>1 DEF SinkOk, SinkBody, SinkNumbers, SinkShape
<1> QED
  BY <1>1, <1>2 DEF SinkOk, SinkBody, HeadTrue

LEMMA DecRestSame ==
  ASSUME NEW d, SinkOk(d), DecRest(d), NEW n, SinkSame(n, d)
  PROVE  DecRest(n) /\ n.seq = d.seq
BY DEF DecRest, SinkSame, SinkChanges, DecExtras, SinkOk, SinkBody, SinkNumbers, SinkShape, SinkFields

LEMMA DecPutCodedOk ==
  ASSUME NEW d, DecOk(d), NEW pkt, PacketOk(pkt), opt \in Options
  PROVE  /\ DecOk(DecPutCoded(d, pkt))
         /\ DecPutCoded(d, pkt).seq = IF pkt.seq > d.seq THEN pkt.seq ELSE d.seq
<1> DEFINE init == DecInitialize(d, pkt)
           old == DecConsumeOld(init, pkt.seq)
           new == DecRead(old, pkt)
           ready == ~Ring!RbEmpty(new.rb) /\ 0 \in DecReadable(new)
           head == [new EXCEPT !.has_source = ready]
           next == [head EXCEPT !.flush = DecFlushAfter(head)]
           feedback == \/ next.has_feedback \/ pkt.asks \/ pkt.flush
                       \/ DecFeedbackRequired(new, Rank(old.span), old.seq)
           fb_timer == next.fb_timer \/ (opt.feedback /\ opt.fb_timeout)
           timer == \/ next.timer
                    \/ (~opt.feedback /\ opt.dec_timeout /\ next.flush # next.seq)
           last == [next EXCEPT
             !.has_feedback = \/ @ \/ pkt.asks \/ pkt.flush
                              \/ DecFeedbackRequired(new, Rank(old.span), old.seq),
             !.fb_timer = @ \/ (opt.feedback /\ opt.fb_timeout),
             !.timer = @ \/ (~opt.feedback /\ opt.dec_timeout /\ next.flush # next.seq)]
<1>0. pkt.seq \in Nat \ {0} /\ pkt.no \in Nat /\ pkt.seq \in Int
  BY DEF PacketOk
<1>00. SinkNumbers(d) /\ SinkOk(d) /\ DecRest(d)
  BY DEF DecOk, SinkOk, SinkBody
<1>1. SinkOk(init) /\ DecRest(init) /\ init.seq = d.seq
  <2> DEFINE n == [d EXCEPT !.initialized = TRUE, !.flush = pkt.seq - 1]
  <2>1. /\ DOMAIN n = DOMAIN d /\ n = [x \in DOMAIN d |-> n[x]]
        /\ \A x \in SinkFields \ {"flush"} : n[x] = d[x]
    BY <1>00 DEF SinkNumbers, SinkShape, SinkFields
  <2>2. n.flush = pkt.seq - 1 /\ n.seq = d.seq
    BY <1>00 DEF SinkNumbers, SinkShape, SinkFields
  <2>3. DecRest(n)
    BY <1>00 DEF DecRest, DecExtras
  <2> HIDE DEF n
  <2>4. n.flush \in Nat
    BY <1>0, <2>2
  <2>5. SinkOk(n)
    BY <1>00, <2>1, <2>4, SinkOkLike
  <2> QED
    BY <1>00, <2>2, <2>3, <2>5 DEF DecInitialize, n
<1> HIDE DEF init
<1>2. SinkOk(old) /\ DecRest(old) /\ old.seq = d.seq
  <2>1. SinkOk(old) /\ SinkSame(old, init)
    BY <1>0, <1>1, DecConsumeOldOk
  <2> HIDE DEF old
  <2> QED
    BY <1>1, <2>1, DecRestSame
<1> HIDE DEF old
<1>3. /\ DOMAIN new = DOMAIN old /\ new = [x \in DOMAIN old |-> new[x]]
      /\ new.seq = KodoSeq(old.seq, old.span, pkt)
      /\ new.span = KodoSpan(old.seq, old.span, pkt)
      /\ new.rb = Ring!RbInsert(old.rb, pkt.seq)
      /\ new.flush = old.flush /\ new.has_source = old.has_source
      /\ new.queue = old.queue /\ new.read = old.read
  <2>1. SinkShape(old)
    BY <1>2 DEF SinkOk, SinkBody, SinkNumbers
  <2> QED
    BY <2>1, ZenonT(40) DEF DecRead, SinkShape, SinkFields
<1>4. DecRest(new)
  <2>1. 0 \in 0 .. opt.fb_tx
    BY OptionsAssumption DEF ValidOptions, ValidEnds
  <2> QED
    BY <1>0, <1>2, <2>1 DEF DecRead, DecRest, DecExtras
<1>5. DecPutCoded(d, pkt) = DecSourceReady(last)
  BY DEF DecPutCoded, init, old
<1> HIDE DEF new
<1>6. /\ SinkOk(next) /\ SinkSame(next, new) /\ SinkBody(new)
      /\ new.seq = IF pkt.seq > old.seq THEN pkt.seq ELSE old.seq
  BY <1>2, <1>3, SinkReadsOk, ZenonT(40)
<1> HIDE DEF ready, next
<1>7. DecRest(next) /\ next.seq = new.seq
  BY <1>4, <1>6 DEF DecRest, SinkSame, SinkChanges, DecExtras, SinkBody, SinkNumbers, SinkShape, SinkFields
<1>8. SinkOk(last) /\ DecRest(last) /\ last.seq = next.seq
  <2>1. last = [next EXCEPT !.has_feedback = feedback, !.fb_timer = fb_timer, !.timer = timer]
    <3> HIDE DEF new, old
    <3> QED
      BY <1>7 DEF DecRest, DecExtras
  <2>2. feedback \in BOOLEAN /\ fb_timer \in BOOLEAN /\ timer \in BOOLEAN
    <3>1. feedback \in BOOLEAN
      OBVIOUS
    <3>2. fb_timer \in BOOLEAN /\ timer \in BOOLEAN
      OBVIOUS
    <3> QED
      BY <3>1, <3>2
  <2> HIDE DEF last, feedback, fb_timer, timer
  <2>3. /\ DOMAIN last = DOMAIN next /\ last = [x \in DOMAIN next |-> last[x]]
        /\ \A x \in SinkFields : last[x] = next[x]
    BY <1>6, <2>1 DEF SinkOk, SinkBody, SinkNumbers, SinkShape, SinkFields
  <2>4. last.flush \in Nat /\ last.seq = next.seq
    BY <1>6, <2>3 DEF SinkOk, SinkBody, SinkFields
  <2>5. SinkOk(last)
    BY <1>6, <2>3, <2>4, SinkOkLike
  <2>6. DecRest(last)
    BY <1>7, <2>1, <2>2 DEF DecRest, DecExtras
  <2> QED
    BY <2>4, <2>5, <2>6
<1> HIDE DEF last
<1>9. SinkOk(DecSourceReady(last)) /\ SinkSame(DecSourceReady(last), last)
  BY <1>8, DecSourceReadyOk
<1>10. DecRest(DecSourceReady(last)) /\ DecSourceReady(last).seq = last.seq
  BY <1>8, <1>9, DecRestSame
<1> QED
  BY <1>2, <1>5, <1>6, <1>7, <1>8, <1>9, <1>10 DEF DecOk


(* A flush, of a timer or of the application.                              *)
LEMMA DecFlushSourceOk ==
  ASSUME NEW d, DecOk(d)
  PROVE  DecOk(DecFlushSource(d)) /\ DecFlushSource(d).seq = d.seq
<1> DEFINE off == [d EXCEPT !.fb_timer = FALSE]
           ready == [off EXCEPT !.flush = off.seq]
           m == DecMoveToNext(ready)
<1>0. SinkOk(d) /\ DecRest(d) /\ SinkNumbers(d) /\ d.flush \in Nat
  BY DEF DecOk, SinkOk, SinkBody
<1>1. /\ DOMAIN off = DOMAIN d /\ off = [y \in DOMAIN d |-> off[y]]
      /\ \A y \in SinkFields : off[y] = d[y]
  BY <1>0 DEF SinkNumbers, SinkShape, SinkFields
<1>2. off.seq = d.seq /\ off.flush = d.flush /\ off.has_source = d.has_source
  BY <1>1 DEF SinkFields
<1>3. DecRest(off)
  BY <1>0 DEF DecRest, DecExtras
<1>4. [d EXCEPT !.fb_timer = FALSE, !.flush = d.seq] = ready
  BY <1>2
<1>5. DecFlushSource(d) = IF Ring!RbEmpty(d.rb) THEN off
                          ELSE DecSourceReady(IF d.has_source THEN ready ELSE m)
  BY <1>4 DEF DecFlushSource
<1> HIDE DEF off
<1>6. SinkOk(off)
  BY <1>0, <1>1, <1>2, SinkOkLike
<1>7. /\ SinkOk(ready) /\ SinkSame(ready, off) /\ SinkOk(m) /\ SinkSame(m, off)
  BY <1>6, DecFlushOk
<1> HIDE DEF ready, m
<1>8. DecRest(ready) /\ ready.seq = d.seq /\ DecRest(m) /\ m.seq = d.seq
  BY <1>2, <1>3, <1>6, <1>7, DecRestSame
<1>9. ASSUME NEW x, SinkOk(x), DecRest(x), x.seq = d.seq
      PROVE  DecOk(DecSourceReady(x)) /\ DecSourceReady(x).seq = d.seq
  <2>1. SinkOk(DecSourceReady(x)) /\ SinkSame(DecSourceReady(x), x)
    BY <1>9, DecSourceReadyOk
  <2> QED
    BY <1>9, <2>1, DecRestSame DEF DecOk
<1>10. DecOk(off) /\ off.seq = d.seq
  BY <1>2, <1>3, <1>6 DEF DecOk
<1>11. /\ DecOk(DecSourceReady(ready)) /\ DecSourceReady(ready).seq = d.seq
       /\ DecOk(DecSourceReady(m)) /\ DecSourceReady(m).seq = d.seq
  BY <1>7, <1>8, <1>9
<1> QED
  BY <1>5, <1>10, <1>11

LEMMA DecTimeoutOk ==
  ASSUME NEW d, DecOk(d), opt \in Options
  PROVE  /\ DecOk(DecTimeout(d)) /\ DecTimeout(d).seq = d.seq
         /\ DecOk(DecFbTimeout(d)) /\ DecFbTimeout(d).seq = d.seq
<1>0. SinkOk(d) /\ DecRest(d) /\ SinkNumbers(d) /\ d.flush \in Nat
  BY DEF DecOk, SinkOk, SinkBody
<1>1. ASSUME NEW n, DOMAIN n = DOMAIN d, n = [x \in DOMAIN d |-> n[x]],
             \A x \in SinkFields : n[x] = d[x], DecRest(n)
      PROVE  DecOk(n) /\ n.seq = d.seq
  <2>1. n.flush \in Nat /\ n.seq = d.seq
    BY <1>0, <1>1 DEF SinkFields
  <2>2. SinkOk(n)
    BY <1>0, <1>1, <2>1, SinkOkLike
  <2> QED
    BY <1>1, <2>1, <2>2 DEF DecOk
<1>2. DecOk(DecTimeout(d)) /\ DecTimeout(d).seq = d.seq
  <2> DEFINE n == [d EXCEPT !.timer = FALSE]
  <2>1. DOMAIN n = DOMAIN d /\ n = [x \in DOMAIN d |-> n[x]] /\ \A x \in SinkFields : n[x] = d[x]
    BY <1>0 DEF SinkNumbers, SinkShape, SinkFields
  <2>2. DecRest(n)
    BY <1>0 DEF DecRest, DecExtras
  <2>3. DecTimeout(d) = DecFlushSource(n)
    BY DEF DecTimeout
  <2> HIDE DEF n
  <2>4. DecOk(n) /\ n.seq = d.seq
    BY <1>1, <2>1, <2>2
  <2> QED
    BY <2>3, <2>4, DecFlushSourceOk
<1>3. DecOk(DecFbTimeout(d)) /\ DecFbTimeout(d).seq = d.seq
  <2> DEFINE n == [d EXCEPT !.fb_timer = FALSE]
             m == [n EXCEPT !.feedback_tx_attempts = @ + 1, !.has_feedback = TRUE]
  <2>1. DOMAIN n = DOMAIN d /\ n = [x \in DOMAIN d |-> n[x]] /\ \A x \in SinkFields : n[x] = d[x]
    BY <1>0 DEF SinkNumbers, SinkShape, SinkFields
  <2>2. DecRest(n)
    BY <1>0 DEF DecRest, DecExtras
  <2>3. DecFbTimeout(d) = IF d.feedback_tx_attempts >= opt.fb_tx THEN DecFlushSource(n) ELSE m
    BY DEF DecFbTimeout
  <2>4. DecOk(n) /\ n.seq = d.seq
    <3> HIDE DEF n
    <3> QED
      BY <1>1, <2>1, <2>2
  <2>5. n.feedback_tx_attempts = d.feedback_tx_attempts
    BY <1>0 DEF DecRest, DecExtras
  <2> HIDE DEF n
  <2>6. CASE d.feedback_tx_attempts >= opt.fb_tx
    BY <2>3, <2>4, <2>6, DecFlushSourceOk
  <2>7. CASE ~(d.feedback_tx_attempts >= opt.fb_tx)
    <3>2. d.feedback_tx_attempts + 1 \in 0 .. opt.fb_tx
      <4>1. opt.fb_tx \in Nat
        BY OptionsAssumption DEF ValidOptions, ValidEnds, Unlimited
      <4> QED
        BY <1>0, <2>7, <4>1 DEF DecRest
    <3>3. m = [n EXCEPT !.feedback_tx_attempts = d.feedback_tx_attempts + 1, !.has_feedback = TRUE]
      BY <2>5
    <3> HIDE DEF m
    <3> DEFINE more == d.feedback_tx_attempts + 1
    <3>4. m = [n EXCEPT !.feedback_tx_attempts = more, !.has_feedback = TRUE]
      BY <3>3
    <3> HIDE DEF more
    <3>1. DOMAIN m = DOMAIN d /\ m = [x \in DOMAIN d |-> m[x]] /\ \A x \in SinkFields : m[x] = d[x]
      <4>1. SinkFields \subseteq DOMAIN d
        BY <1>0 DEF SinkNumbers, SinkShape
      <4>2. DOMAIN m = DOMAIN d /\ m = [x \in DOMAIN d |-> m[x]]
        BY <2>1, <3>4
      <4>3. \A x \in DOMAIN d \ {"feedback_tx_attempts", "has_feedback"} : m[x] = n[x]
        BY <2>1, <3>4
      <4> QED
        BY <2>1, <4>1, <4>2, <4>3 DEF SinkFields
    <3> HIDE DEF m
    <3>5. DecRest(m)
      BY <2>2, <3>2, <3>4 DEF DecRest, DecExtras, more
    <3>6. DecOk(m) /\ m.seq = d.seq
      BY <1>1, <3>1, <3>5
    <3> QED
      BY <2>3, <2>7, <3>6
  <2> QED
    BY <2>6, <2>7
<1> QED
  BY <1>2, <1>3

LEMMA DecFeedbackOk ==
  ASSUME NEW d, DecOk(d), opt \in Options
  PROVE  /\ DecOk(DecGetFeedback(d)) /\ DecGetFeedback(d).seq = d.seq
         /\ DecFeedback(d).seq = d.seq /\ DecFeedback(d).feedback_no \in Nat
<1> DEFINE fail == d.failed \/ d.seq - Ring!RbReadSeqno(d.rb) \notin 0 .. Symbols
           fbno == IF opt.relay THEN d.feedback_no + 1 ELSE d.feedback_no
           tm == IF opt.fb_timeout THEN ~Ring!RbEmpty(d.rb) ELSE d.fb_timer
           n == [d EXCEPT !.has_feedback = FALSE, !.feedback_no = fbno,
                          !.fb_timer = tm, !.failed = fail]
<1>0. SinkOk(d) /\ DecRest(d) /\ SinkNumbers(d) /\ d.flush \in Nat /\ d.seq \in Nat /\ RingOk(d.rb, d.seq)
  BY DEF DecOk, SinkOk, SinkBody
<1>1. DecGetFeedback(d) = n
  BY <1>0 DEF DecGetFeedback, DecRest, DecExtras
<1>2. fail = FALSE
  <2>1. Ring!RbReadSeqno(d.rb) = d.seq - d.rb.num_blocks /\ d.rb.num_blocks \in 0 .. Symbols
        /\ Symbols \in Nat \ {0}
    BY <1>0, RingFacts
  <2>2. d.seq - Ring!RbReadSeqno(d.rb) \in 0 .. Symbols
    BY <1>0, <2>1
  <2> QED
    BY <1>0, <2>2 DEF DecRest
<1>3. fbno \in Nat /\ tm \in BOOLEAN
  <2>1. fbno \in Nat
    BY <1>0 DEF DecRest
  <2>2. tm \in BOOLEAN
    BY <1>0, Zenon DEF DecRest
  <2> QED
    BY <2>1, <2>2
<1> HIDE DEF fail, fbno, tm
<1>4. DOMAIN n = DOMAIN d /\ n = [x \in DOMAIN d |-> n[x]] /\ \A x \in SinkFields : n[x] = d[x]
  BY <1>0 DEF SinkNumbers, SinkShape, SinkFields
<1>5. DecRest(n)
  BY <1>0, <1>2, <1>3 DEF DecRest, DecExtras
<1> HIDE DEF n
<1>6. n.flush \in Nat /\ n.seq = d.seq
  BY <1>0, <1>4 DEF SinkFields
<1>7. SinkOk(n)
  BY <1>0, <1>4, <1>6, SinkOkLike
<1> QED
  BY <1>0, <1>1, <1>5, <1>6, <1>7 DEF DecOk, DecFeedback, DecRest



-----------------------------------------------------------------------------
(* The rate control of a recoder: no matter how much is kept back of what  *)
(* a symbol earns, the counter does not go below zero.                     *)
RecRate(rc) == rc \in CreditRate /\ rc.redundancy >= -Symbols

LEMMA RecRateInsert ==
  ASSUME NEW rc, RecRate(rc), NEW again \in BOOLEAN
  PROVE  RecRate(Insert(rc, again))
<1>0. /\ rc.algo = "credit" /\ rc.max_symbols = Symbols /\ rc.redundancy \in Int
      /\ rc.redundancy >= -Symbols /\ rc.counter \in Nat /\ rc.advance_use \in BOOLEAN
      /\ rc.advance_credit \in Int /\ Symbols \in Nat \ {0} /\ ~IsDual(rc)
  BY SymbolsAssumption DEF RecRate, CreditRate, IsDual
<1> DEFINE back == KeptBack(rc)
<1>1. back \in Int /\ back <= Symbols
  BY <1>0 DEF KeptBack, AtLeast, AtMost
<1> HIDE DEF back
<1>2. CASE again
  <2> DEFINE c == rc.counter + Symbols
  <2>1. Insert(rc, again) = [rc EXCEPT !.counter = c]
    BY <1>0, <1>2 DEF Insert, RecRate, CreditRate
  <2>2. c \in Nat
    BY <1>0
  <2> HIDE DEF c
  <2> QED
    BY <2>1, <2>2 DEF RecRate, CreditRate
<1>3. CASE ~again /\ ~rc.advance_use
  <2> DEFINE c == rc.counter + Symbols + rc.redundancy
  <2>1. Insert(rc, again) = [rc EXCEPT !.counter = c]
    BY <1>0, <1>3 DEF Insert, RecRate, CreditRate
  <2>2. c \in Nat
    BY <1>0
  <2> HIDE DEF c
  <2> QED
    BY <2>1, <2>2 DEF RecRate, CreditRate
<1>4. CASE ~again /\ rc.advance_use
  <2> DEFINE c == rc.counter + Symbols - back
             a == rc.advance_credit - back + Symbols
  <2>1. Insert(rc, again) = [rc EXCEPT !.counter = c, !.advance_credit = a]
    <3>1. Insert(rc, again) = [rc EXCEPT !.counter = @ + rc.max_symbols - KeptBack(rc),
                                         !.advance_credit = @ - KeptBack(rc) + rc.max_symbols]
      BY <1>0, <1>4 DEF Insert
    <3> QED
      BY <1>0, <3>1 DEF RecRate, CreditRate, back
  <2>2. c \in Nat /\ a \in Int
    BY <1>0, <1>1
  <2> HIDE DEF c, a
  <2> QED
    BY <2>1, <2>2 DEF RecRate, CreditRate
<1> QED
  BY <1>2, <1>3, <1>4

LEMMA RecRateOthers ==
  ASSUME NEW rc, RecRate(rc)
  PROVE  /\ \A k \in Int : RecRate(Advance(rc, k))
         /\ RecRate(FlushRate(rc))
         /\ NextRepair(rc, 0) => RecRate(Step(rc))
<1>0. /\ rc.algo = "credit" /\ rc.max_symbols = Symbols /\ rc.redundancy \in Int
      /\ rc.redundancy >= -Symbols /\ rc.counter \in Nat /\ rc.advance_use \in BOOLEAN
      /\ rc.advance_credit \in Int /\ Symbols \in Nat \ {0} /\ ~IsDual(rc)
  BY SymbolsAssumption DEF RecRate, CreditRate, IsDual
<1>1. ASSUME NEW k \in Int PROVE RecRate(Advance(rc, k))
  <2> DEFINE p == (rc.max_symbols + rc.redundancy) * k
             q == -rc.max_symbols * rc.max_symbols
             a == AtLeast(rc.advance_credit - p, q)
  <2>1. p \in Int /\ q \in Int
    BY <1>0
  <2>2. a \in Int
    <3> HIDE DEF p, q
    <3> QED
      BY <1>0, <2>1 DEF AtLeast
  <2>3. Advance(rc, k) = [rc EXCEPT !.advance_use = TRUE, !.advance_credit = a]
    <3>1. Advance(rc, k) = [rc EXCEPT !.advance_use = TRUE,
                              !.advance_credit = AtLeast(@ - p, q)]
      BY DEF Advance
    <3> HIDE DEF p, q
    <3> QED
      BY <3>1 DEF RecRate, CreditRate
  <2> HIDE DEF a
  <2> QED
    BY <2>2, <2>3 DEF RecRate, CreditRate
<1>2. RecRate(FlushRate(rc))
  <2> DEFINE c == rc.max_symbols - 1
             n == [rc EXCEPT !.counter = c, !.advance_credit = c]
  <2>1. c \in Nat /\ c \in Int
    BY <1>0
  <2>2. FlushRate(rc) \in {rc, n}
    BY DEF FlushRate
  <2> HIDE DEF c
  <2>3. RecRate(n)
    BY <2>1 DEF RecRate, CreditRate
  <2> QED
    BY <2>2, <2>3
<1>3. ASSUME NextRepair(rc, 0) PROVE RecRate(Step(rc))
  <2> DEFINE c == rc.counter - rc.max_symbols
  <2>1. c \in Nat
    BY <1>0, <1>3 DEF NextRepair
  <2>2. Step(rc) = [rc EXCEPT !.counter = c]
    BY <1>0 DEF Step, RecRate, CreditRate
  <2> HIDE DEF c
  <2> QED
    BY <2>1, <2>2 DEF RecRate, CreditRate
<1> QED
  BY <1>1, <1>2, <1>3


(* What a recoder keeps beside the sink.                                   *)
RecExtras ==
  {"rc", "enabled", "last_packet_no", "flush_next", "flush_packet_no",
   "last_feedback_no", "feedback_buffer", "has_feedback", "timer"}

AnswerOk(m) ==
  /\ m.seq \in Nat /\ m.first_missing \in Int
  /\ m.feedback_no \in Nat /\ m.missing \subseteq Slots

RecRest(r) ==
  /\ RecExtras \subseteq DOMAIN r
  /\ RecRate(r.rc) /\ r.enabled \subseteq Slots
  /\ r.last_packet_no \in Nat /\ r.last_feedback_no \in Nat /\ r.flush_packet_no \in Nat
  /\ r.flush_next \in BOOLEAN /\ r.has_feedback \in BOOLEAN /\ r.timer \in BOOLEAN
  /\ r.eager = FALSE /\ AnswerOk(r.feedback_buffer)

RecOk(r) == SinkOk(r) /\ RecRest(r)

LEMMA RecOkSame ==
  ASSUME NEW r, RecOk(r), NEW n, SinkOk(n), SinkSame(n, r)
  PROVE  /\ RecOk(n) /\ n.seq = r.seq /\ n.rc = r.rc
         /\ n.last_packet_no = r.last_packet_no /\ n.enabled = r.enabled
<1>1. "eager" \in DOMAIN r /\ "seq" \in DOMAIN r /\ RecExtras \subseteq DOMAIN r
  BY DEF RecOk, SinkOk, SinkBody, SinkNumbers, SinkShape, SinkFields, RecRest
<1>2. \A x \in RecExtras \cup {"eager", "seq"} : n[x] = r[x]
  BY <1>1 DEF SinkSame, SinkChanges, RecExtras
<1>3. RecExtras \subseteq DOMAIN n
  BY <1>1 DEF SinkSame
<1>4. /\ n.rc = r.rc /\ n.enabled = r.enabled /\ n.last_packet_no = r.last_packet_no
      /\ n.last_feedback_no = r.last_feedback_no /\ n.flush_packet_no = r.flush_packet_no
      /\ n.flush_next = r.flush_next /\ n.has_feedback = r.has_feedback /\ n.timer = r.timer
      /\ n.eager = r.eager /\ n.feedback_buffer = r.feedback_buffer /\ n.seq = r.seq
  BY <1>2 DEF RecExtras
<1> QED
  BY <1>3, <1>4 DEF RecOk, RecRest

(* The values of the fields that only a recoder has.                       *)
FieldOk(x, v) ==
  /\ x = "rc" => RecRate(v)
  /\ x = "enabled" => v \subseteq Slots
  /\ x \in {"last_packet_no", "last_feedback_no", "flush_packet_no"} => v \in Nat
  /\ x \in {"flush_next", "has_feedback", "timer"} => v \in BOOLEAN
  /\ x = "feedback_buffer" => AnswerOk(v)

RecPart(r) == SinkNumbers(r) /\ RecRest(r)

LEMMA RecPartFacts ==
  ASSUME NEW r, RecPart(r)
  PROVE  RecNumbers(r) /\ r.seq \in Int /\ RecExtras \subseteq DOMAIN r
BY DEF RecPart, RecNumbers, RecRest, AnswerOk, SinkNumbers, RecExtras

(* What changes only what the recoder keeps for itself leaves the sink.    *)
LEMMA RecPartEdit ==
  ASSUME NEW r, RecPart(r), NEW x \in RecExtras, NEW v, NEW n, FieldOk(x, v),
         DOMAIN n = DOMAIN r, n = [y \in DOMAIN r |-> n[y]], n[x] = v,
         \A y \in DOMAIN r \ {x} : n[y] = r[y]
  PROVE  RecPart(n)
<1>0. /\ SinkNumbers(r) /\ RecRest(r) /\ SinkFields \subseteq DOMAIN r
      /\ RecExtras \subseteq DOMAIN r
  BY DEF RecPart, SinkNumbers, SinkShape, RecRest
<1>1. x \notin SinkFields
  BY DEF RecExtras, SinkFields
<1>2. \A y \in SinkFields : n[y] = r[y]
  BY <1>0, <1>1
<1>3. SinkNumbers(n) /\ n.eager = r.eager
  <2>1. SinkNumbers(n)
    BY <1>0, <1>2, OtherFields
  <2> QED
    BY <1>2, <2>1 DEF SinkFields
<1>4. \A y \in RecExtras : n[y] = IF y = x THEN v ELSE r[y]
  BY <1>0
<1>5. /\ x = "rc" => RecRate(v)
      /\ x = "enabled" => v \subseteq Slots
      /\ x \in {"last_packet_no", "last_feedback_no", "flush_packet_no"} => v \in Nat
      /\ x \in {"flush_next", "has_feedback", "timer"} => v \in BOOLEAN
      /\ x = "feedback_buffer" => AnswerOk(v)
  BY DEF FieldOk
<1>6. /\ n.rc = IF x = "rc" THEN v ELSE r.rc
      /\ n.enabled = IF x = "enabled" THEN v ELSE r.enabled
      /\ n.last_packet_no = IF x = "last_packet_no" THEN v ELSE r.last_packet_no
      /\ n.last_feedback_no = IF x = "last_feedback_no" THEN v ELSE r.last_feedback_no
      /\ n.flush_packet_no = IF x = "flush_packet_no" THEN v ELSE r.flush_packet_no
      /\ n.flush_next = IF x = "flush_next" THEN v ELSE r.flush_next
      /\ n.has_feedback = IF x = "has_feedback" THEN v ELSE r.has_feedback
      /\ n.timer = IF x = "timer" THEN v ELSE r.timer
      /\ n.feedback_buffer = IF x = "feedback_buffer" THEN v ELSE r.feedback_buffer
  BY <1>4 DEF RecExtras
<1>7. RecRest(n)
  <2>1. RecRate(n.rc) /\ n.enabled \subseteq Slots /\ AnswerOk(n.feedback_buffer)
    BY <1>0, <1>5, <1>6 DEF RecRest
  <2>2. n.last_packet_no \in Nat /\ n.last_feedback_no \in Nat /\ n.flush_packet_no \in Nat
    BY <1>0, <1>5, <1>6 DEF RecRest
  <2>3. n.flush_next \in BOOLEAN
    BY <1>0, <1>5, <1>6, Zenon DEF RecRest
  <2>4. n.has_feedback \in BOOLEAN
    BY <1>0, <1>5, <1>6, Zenon DEF RecRest
  <2>5. n.timer \in BOOLEAN
    BY <1>0, <1>5, <1>6, Zenon DEF RecRest
  <2>6. n.eager = FALSE /\ RecExtras \subseteq DOMAIN n
    BY <1>0, <1>3 DEF RecRest
  <2> QED
    BY <2>1, <2>2, <2>3, <2>4, <2>5, <2>6 DEF RecRest
<1> QED
  BY <1>3, <1>7 DEF RecPart

LEMMA RecEdits ==
  ASSUME NEW r, RecPart(r)
  PROVE  /\ \A v : RecRate(v) => RecPart([r EXCEPT !.rc = v])
         /\ \A v \in SUBSET Slots : RecPart([r EXCEPT !.enabled = v])
         /\ \A v \in Nat : /\ RecPart([r EXCEPT !.last_packet_no = v])
                           /\ RecPart([r EXCEPT !.last_feedback_no = v])
                           /\ RecPart([r EXCEPT !.flush_packet_no = v])
         /\ \A v \in BOOLEAN : /\ RecPart([r EXCEPT !.flush_next = v])
                               /\ RecPart([r EXCEPT !.has_feedback = v])
                               /\ RecPart([r EXCEPT !.timer = v])
         /\ \A v : AnswerOk(v) => RecPart([r EXCEPT !.feedback_buffer = v])
<1>0. RecExtras \subseteq DOMAIN r /\ r = [y \in DOMAIN r |-> r[y]]
  BY DEF RecPart, RecRest, SinkNumbers, SinkShape
<1>1. ASSUME NEW x \in RecExtras, NEW v, FieldOk(x, v) PROVE RecPart([r EXCEPT ![x] = v])
  <2> DEFINE n == [r EXCEPT ![x] = v]
  <2>1. /\ DOMAIN n = DOMAIN r /\ n = [y \in DOMAIN r |-> n[y]] /\ n[x] = v
        /\ \A y \in DOMAIN r \ {x} : n[y] = r[y]
    BY <1>0
  <2> HIDE DEF n
  <2>2. RecPart(n)
    BY <1>1, <2>1, RecPartEdit
  <2> QED
    BY <2>2 DEF n
<1>2. ASSUME NEW v, RecRate(v) PROVE RecPart([r EXCEPT !["rc"] = v])
  <2>1. "rc" \in RecExtras /\ FieldOk("rc", v)
    BY <1>2 DEF RecExtras, FieldOk
  <2> QED
    BY <1>1, <2>1
<1>3. ASSUME NEW v \in SUBSET Slots PROVE RecPart([r EXCEPT !["enabled"] = v])
  <2>1. "enabled" \in RecExtras /\ FieldOk("enabled", v)
    BY DEF RecExtras, FieldOk
  <2> QED
    BY <1>1, <2>1
<1>4. ASSUME NEW v \in Nat, NEW x \in {"last_packet_no", "last_feedback_no", "flush_packet_no"}
      PROVE  RecPart([r EXCEPT ![x] = v])
  <2>1. x \in RecExtras /\ FieldOk(x, v)
    BY DEF RecExtras, FieldOk
  <2> QED
    BY <1>1, <2>1
<1>5. ASSUME NEW v \in BOOLEAN, NEW x \in {"flush_next", "has_feedback", "timer"}
      PROVE  RecPart([r EXCEPT ![x] = v])
  <2>1. x \in RecExtras /\ FieldOk(x, v)
    BY DEF RecExtras, FieldOk
  <2> QED
    BY <1>1, <2>1
<1>6. ASSUME NEW v, AnswerOk(v) PROVE RecPart([r EXCEPT !["feedback_buffer"] = v])
  <2>1. "feedback_buffer" \in RecExtras /\ FieldOk("feedback_buffer", v)
    BY <1>6 DEF RecExtras, FieldOk
  <2> QED
    BY <1>1, <2>1
<1>7. \A v \in Nat : /\ RecPart([r EXCEPT !.last_packet_no = v])
                     /\ RecPart([r EXCEPT !.last_feedback_no = v])
                     /\ RecPart([r EXCEPT !.flush_packet_no = v])
  BY <1>4
<1>8. \A v \in BOOLEAN : /\ RecPart([r EXCEPT !.flush_next = v])
                         /\ RecPart([r EXCEPT !.has_feedback = v])
                         /\ RecPart([r EXCEPT !.timer = v])
  BY <1>5
<1> QED
  BY <1>2, <1>3, <1>6, <1>7, <1>8

LEMMA RecAlikeOk ==
  ASSUME NEW r, RecOk(r), NEW n, RecAlike(n, r), RecPart(n)
  PROVE  RecOk(n) /\ n.seq = r.seq /\ n.span = r.span
<1>1. \A x \in SinkFields : n[x] = r[x]
  BY DEF RecAlike, RecKeeps
<1>2. n.flush \in Nat /\ n.seq = r.seq /\ n.span = r.span
  BY <1>1 DEF RecOk, SinkOk, SinkBody, SinkFields
<1>3. SinkOk(n)
  <2>1. DOMAIN n = DOMAIN r /\ n = [x \in DOMAIN r |-> n[x]]
    BY DEF RecAlike
  <2> QED
    BY <1>1, <1>2, <2>1, SinkOkLike DEF RecOk
<1> QED
  BY <1>2, <1>3 DEF RecOk, RecPart

LEMMA RecOkPart ==
  ASSUME NEW r, RecOk(r)
  PROVE  RecPart(r) /\ RecNumbers(r)
BY RecPartFacts DEF RecOk, RecPart, SinkOk, SinkBody

LEMMA RecForwardWindowPart ==
  ASSUME NEW r, RecPart(r), NEW k \in Int, opt \in Options
  PROVE  RecPart(RecForwardWindow(r, k)) /\ RecAlike(RecForwardWindow(r, k), r)
<1> DEFINE moved == AtMost(k, Symbols)
           new   == AtMost(moved, opt.rec_window)
           old   == AtMost(moved, Symbols - opt.rec_window)
           end   == r.seq - opt.rec_window
           enable == {Slot(s) : s \in r.seq - new .. r.seq - 1}
           v == (r.enabled \cup enable) \ {Slot(s) : s \in end - old .. end - 1}
<1>0. r.enabled \subseteq Slots /\ r.seq \in Int
  BY DEF RecPart, RecRest, SinkNumbers
<1>1. RecForwardWindow(r, k) = [r EXCEPT !.enabled = v]
  BY DEF RecForwardWindow
<1>2. enable \subseteq Slots
  <2>1. new \in Int
    BY SymbolsAssumption, OptionsAssumption DEF ValidOptions, ValidRelay, AtMost
  <2> HIDE DEF new
  <2>2. \A s \in r.seq - new .. r.seq - 1 : s \in Int
    BY <1>0, <2>1
  <2> QED
    BY <2>2, SlotType
<1>3. v \in SUBSET Slots
  <2> HIDE DEF enable
  <2> QED
    BY <1>0, <1>2
<1> HIDE DEF v
<1>4. RecAlike([r EXCEPT !.enabled = v], r)
  BY RecPartFacts, RecAlikeEdits
<1> QED
  BY <1>1, <1>3, <1>4, RecEdits

(* Without a consumer in the callback the blocks counted before are those  *)
(* that are still lost: the recoder does what the decoder does.            *)
LEMMA RecQueuesAsDec ==
  ASSUME NEW r, SinkOk(r), r.eager = FALSE, NEW s \in Int, Ring!RbLost(r.rb, s) # 0
  PROVE  LET a    == DecSkipLost(r, s)
             lost == Ring!RbLost(r.rb, s) - (r.rb.num_blocks - a.rb.num_blocks)
         IN RecQueueLost(DecSourceReady(a), s, lost) = DecQueueLost(DecSourceReady(a), s)
<1> DEFINE all == Ring!RbLost(r.rb, s)
           stops == DecReadable(r) \cap 0 .. all - 1
           k == IF stops = {} THEN all ELSE SmallestIn(stops)
           a == DecSkipLost(r, s)
           num == r.rb.num_blocks
           lost == all - (num - a.rb.num_blocks)
           q == DecQueue(a, s, lost)
<1>0. /\ SinkNumbers(r) /\ r.seq \in Nat /\ RingOk(r.rb, r.seq) /\ num \in 0 .. Symbols
      /\ r.rb.write_seqno = r.seq /\ Symbols \in Nat \ {0} /\ SinkBody(r)
  <2>1. SinkNumbers(r) /\ r.seq \in Nat /\ RingOk(r.rb, r.seq) /\ SinkBody(r)
    BY DEF SinkOk, SinkBody
  <2> QED
    BY <2>1, RingFacts
<1>1. all \in 0 .. num
  BY <1>0, RingLostOk
<1>2. k \in 0 .. all
  <2>1. stops \in SUBSET (0 .. all - 1) /\ 0 \in Int /\ all - 1 \in Int
    BY <1>0, <1>1
  <2>2. stops # {} => SmallestIn(stops) \in stops
    <3> HIDE DEF stops, all
    <3> QED
      BY <2>1, SmallestOf
  <2>3. CASE stops = {}
    <3> HIDE DEF all
    <3> QED
      BY <1>1, <2>3
  <2>4. CASE stops # {}
    <3>1. k \in stops
      BY <2>2, <2>4
    <3> HIDE DEF stops, all, k
    <3> QED
      BY <1>0, <1>1, <2>1, <3>1
  <2> QED
    BY <2>3, <2>4
<1>3. /\ a.rb = Ring!RbRead(r.rb, k) /\ a.eager = r.eager /\ SinkOk(a) /\ SinkSame(a, r)
  <2>1. SinkOk(a) /\ SinkSame(a, r)
    BY DecSkipLostOk
  <2>2. a = [r EXCEPT !.flush = s - Symbols, !.rb = Ring!RbRead(@, k),
                      !.has_source = @ \/ stops # {}]
    BY DEF DecSkipLost
  <2> HIDE DEF a, k, stops
  <2>3. a.rb = Ring!RbRead(r.rb, k) /\ a.eager = r.eager
    BY <1>0, <2>2 DEF SinkNumbers, SinkShape, SinkFields
  <2> QED
    BY <2>1, <2>3
<1>4. a.rb.num_blocks = num - k /\ a.rb.write_seqno = r.rb.write_seqno
  <2> HIDE DEF a, k
  <2>1. r.rb \in Rings
    BY <1>0 DEF SinkNumbers
  <2> QED
    BY <1>3, <2>1 DEF Ring!RbRead, Rings
<1>5. DecSourceReady(a) = a
  <2> HIDE DEF a
  <2> QED
    BY <1>3 DEF DecSourceReady
<1>6. lost = all - k
  <2> HIDE DEF a, k, all
  <2> QED
    BY <1>0, <1>1, <1>2, <1>4
<1>7. Ring!RbLost(a.rb, s) = lost
  <2> HIDE DEF a, k
  <2>1. DEFINE shift == IF s > r.seq THEN s - r.seq ELSE 0
  <2>2. Ring!RbShift(r.rb, s) = shift /\ Ring!RbShift(a.rb, s) = shift /\ shift \in Int
    BY <1>0, <1>4 DEF Ring!RbShift
  <2>3. all = IF shift >= Symbols THEN num
              ELSE IF shift > Symbols - num THEN shift - (Symbols - num) ELSE 0
    BY <2>2 DEF Ring!RbLost
  <2>4. Ring!RbLost(a.rb, s) =
          IF shift >= Symbols THEN num - k
          ELSE IF shift > Symbols - (num - k) THEN shift - (Symbols - (num - k)) ELSE 0
    BY <1>4, <2>2 DEF Ring!RbLost
  <2> HIDE DEF all, shift, lost
  <2> QED
    BY <1>0, <1>1, <1>2, <1>6, <2>2, <2>3, <2>4
<1>8. RecQueueLost(a, s, lost) = [q EXCEPT !.queue = @ \o <<>>]
  <2> DEFINE blocks == AtMost(lost, a.rb.num_blocks)
             none == IF DecDecoded(a, 0) THEN lost - blocks ELSE 0
  <2>1. blocks = lost /\ lost \in Int
    <3> HIDE DEF a, k, all, lost
    <3> QED
      BY <1>0, <1>1, <1>2, <1>4, <1>6 DEF AtMost
  <2>2. none = 0
    <3> HIDE DEF lost, a, blocks
    <3> QED
      BY <2>1
  <2>3. [n \in 1 .. none |-> SymbolAt(a.seq, 0)] = <<>>
    <3> HIDE DEF none
    <3> QED
      BY <2>2
  <2>4. RecQueueLost(a, s, lost) =
          [DecQueue(a, s, blocks) EXCEPT !.queue = @ \o [n \in 1 .. none |-> SymbolAt(a.seq, 0)]]
    <3> HIDE DEF a, lost
    <3> QED
      BY DEF RecQueueLost
  <2> HIDE DEF blocks, none, lost, a
  <2> QED
    BY <2>1, <2>3, <2>4
<1>9. SinkNumbers(q)
  <2>1. lost \in Int
    <3> HIDE DEF k, all, lost
    <3> QED
      BY <1>1, <1>2, <1>6
  <2> HIDE DEF a, lost
  <2> QED
    BY <1>3, <2>1, DecQueueNumbers DEF SinkOk, SinkBody
<1> HIDE DEF q, all, a, k, lost
<1>10. [q EXCEPT !.queue = @ \o <<>>] = q
  <2>1. q.queue \in Seq(Int) /\ q = [x \in DOMAIN q |-> q[x]] /\ "queue" \in DOMAIN q
    BY <1>9 DEF SinkNumbers, SinkShape, SinkFields
  <2>2. q.queue \o <<>> = q.queue
    BY <2>1
  <2> QED
    BY <2>1, <2>2
<1>11. DecQueueLost(a, s) = q
  BY <1>7 DEF DecQueueLost, q
<1> QED
  BY <1>5, <1>8, <1>10, <1>11 DEF a, lost, all, num

LEMMA RecConsumeOldOk ==
  ASSUME NEW r, RecOk(r), NEW s \in Int
  PROVE  RecOk(RecConsumeOld(r, s)) /\ RecConsumeOld(r, s).seq = r.seq
<1> DEFINE v == Advance(r.rc, Ring!RbShift(r.rb, s))
           n == [r EXCEPT !.rc = v]
           a == DecSkipLost(n, s)
           lost == Ring!RbLost(r.rb, s) - (r.rb.num_blocks - a.rb.num_blocks)
<1>1. n.rb = r.rb /\ RecConsumeOld(r, s) =
        IF Ring!RbOutdated(r.rb, s) THEN r
        ELSE IF Ring!RbLost(r.rb, s) = 0 THEN n
        ELSE RecQueueLost(DecSourceReady(a), s, lost)
  BY DEF RecConsumeOld, RecOk, RecRest, RecExtras
<1>2. Ring!RbShift(r.rb, s) \in Int
  BY RingFacts DEF RecOk, SinkOk, SinkBody, RingOk, Ring!RbShift
<1>3. RecRate(v)
  <2>1. RecRate(r.rc)
    BY DEF RecOk, RecRest
  <2> QED
    BY <1>2, <2>1, RecRateOthers
<1> HIDE DEF v
<1>4. RecOk(n) /\ n.seq = r.seq
  <2>1. RecPart(n) /\ RecAlike(n, r)
    BY <1>3, RecOkPart, RecEdits, RecAlikeEdits
  <2> HIDE DEF n
  <2> QED
    BY <2>1, RecAlikeOk
<1> HIDE DEF n
<1>5. SinkOk(DecConsumeOld(n, s)) /\ SinkSame(DecConsumeOld(n, s), n)
  BY <1>4, DecConsumeOldOk DEF RecOk
<1>6. RecOk(DecConsumeOld(n, s)) /\ DecConsumeOld(n, s).seq = n.seq
  BY <1>4, <1>5, RecOkSame
<1>7. RecConsumeOld(r, s) \in {r, n, DecConsumeOld(n, s)}
  <2>1. ASSUME Ring!RbLost(r.rb, s) # 0
        PROVE  RecQueueLost(DecSourceReady(a), s, lost) = DecQueueLost(DecSourceReady(a), s)
    BY <1>1, <1>4, <2>1, RecQueuesAsDec DEF RecOk, RecRest
  <2> HIDE DEF lost
  <2> QED
    BY <1>1, <2>1 DEF DecConsumeOld
<1> QED
  BY <1>4, <1>6, <1>7

LEMMA RecEarnPart ==
  ASSUME NEW r, RecPart(r), NEW pkt, NEW k
  PROVE  RecPart(RecEarn(r, pkt, k)) /\ RecAlike(RecEarn(r, pkt, k), r)
<1> DEFINE a == [r EXCEPT !.rc = Insert(r.rc, TRUE)]
           b == [a EXCEPT !.flush_next = TRUE]
           c == [b EXCEPT !.flush_packet_no = r.last_packet_no]
           paid == [r EXCEPT !.rc = Insert(r.rc, FALSE)]
<1>0. RecRate(r.rc) /\ r.last_packet_no \in Nat /\ RecNumbers(r)
  BY RecPartFacts DEF RecPart, RecRest
<1>1. RecEarn(r, pkt, k) \in {c, paid, r}
  BY DEF RecEarn
<1>2. RecRate(Insert(r.rc, TRUE)) /\ RecRate(Insert(r.rc, FALSE))
  BY <1>0, RecRateInsert
<1>3. RecPart(a) /\ RecPart(paid)
  BY <1>2, RecEdits
<1> HIDE DEF a, paid
<1>4. RecPart(b)
  BY <1>3, RecEdits
<1> HIDE DEF b
<1>5. RecPart(c)
  BY <1>0, <1>4, RecEdits
<1> HIDE DEF c
<1>6. RecAlike(RecEarn(r, pkt, k), r)
  BY <1>0, RecEarnAlike
<1> QED
  BY <1>1, <1>3, <1>5, <1>6



(* The recoder's calls.                                                    *)
LEMMA RecPutCodedOk ==
  ASSUME NEW r, RecOk(r), NEW pkt, PacketOk(pkt), opt \in Options
  PROVE  /\ RecOk(RecPutCoded(r, pkt))
         /\ RecPutCoded(r, pkt).seq = IF pkt.seq > r.seq THEN pkt.seq ELSE r.seq
<1> DEFINE no == [r EXCEPT !.last_packet_no = RecPacketNo(r, pkt)]
           old == RecConsumeOld(no, pkt.seq)
           kept == Kept(old.span, KodoSeq(old.seq, old.span, pkt))
           seq == KodoSeq(old.seq, old.span, pkt)
           took == [old EXCEPT !.seq = KodoSeq(old.seq, old.span, pkt),
                               !.span = KodoSpan(old.seq, old.span, pkt),
                               !.rb = Ring!RbInsert(@, pkt.seq)]
           k == IF seq >= old.seq THEN seq - old.seq ELSE Symbols
           read == RecForwardWindow(took, k)
           new == RecEarn(read, pkt, Rank(kept))
           ready == ~Ring!RbEmpty(new.rb) /\ 0 \in DecReadable(new)
           head == [new EXCEPT !.has_source = ready]
           next == [head EXCEPT !.flush = DecFlushAfter(head)]
           last == [next EXCEPT !.timer = @ \/ next.flush # next.seq]
<1>0. pkt.seq \in Nat \ {0} /\ pkt.no \in Nat /\ pkt.seq \in Int
  BY DEF PacketOk
<1>1. RecPutCoded(r, pkt) = DecSourceReady(last)
  BY DEF RecPutCoded, RecRead
<1>2. RecOk(no) /\ no.seq = r.seq
  <2> DEFINE v == RecPacketNo(r, pkt)
  <2>1. v \in Nat
    BY <1>0 DEF RecPacketNo, RecOk, RecRest
  <2>2. RecPart(r) /\ RecNumbers(r)
    BY RecOkPart
  <2> HIDE DEF v
  <2>3. RecPart([r EXCEPT !.last_packet_no = v])
    BY <2>1, <2>2, RecEdits
  <2>4. RecAlike([r EXCEPT !.last_packet_no = v], r)
    BY <2>2, RecAlikeEdits
  <2>5. RecPart(no) /\ RecAlike(no, r)
    BY <2>3, <2>4 DEF v
  <2> HIDE DEF no
  <2> QED
    BY <2>5, RecAlikeOk
<1> HIDE DEF no
<1>3. RecOk(old) /\ old.seq = r.seq
  BY <1>0, <1>2, RecConsumeOldOk
<1> HIDE DEF old
<1>4. /\ DOMAIN took = DOMAIN old /\ took = [x \in DOMAIN old |-> took[x]]
      /\ took.seq = KodoSeq(old.seq, old.span, pkt)
      /\ took.span = KodoSpan(old.seq, old.span, pkt)
      /\ took.rb = Ring!RbInsert(old.rb, pkt.seq)
      /\ took.flush = old.flush /\ took.has_source = old.has_source
      /\ took.queue = old.queue /\ took.read = old.read
  BY <1>3 DEF RecOk, SinkOk, SinkBody, SinkNumbers, SinkShape, SinkFields
<1>5. SinkNumbers(old) /\ old.seq \in Nat /\ SpanOk(old.span, old.seq)
  BY <1>3 DEF RecOk, SinkOk, SinkBody
<1>6. RecRest(took)
  BY <1>3 DEF RecOk, RecRest, RecExtras
<1>7. seq = (IF pkt.seq > old.seq THEN pkt.seq ELSE old.seq) /\ k \in Int
  <2>1. seq = IF pkt.seq > old.seq THEN pkt.seq ELSE old.seq
    BY <1>5, KodoReads
  <2> HIDE DEF seq
  <2> QED
    BY <1>0, <1>5, <2>1, SymbolsAssumption
<1> HIDE DEF took, k
<1>8. RecPart(took)
  <2>1. SinkNumbers(took)
    BY <1>0, <1>4, <1>5, SinkReads
  <2> QED
    BY <1>6, <2>1 DEF RecPart
<1>9. RecPart(read) /\ RecAlike(read, took)
  BY <1>7, <1>8, RecForwardWindowPart
<1> HIDE DEF read
<1>10. RecPart(new) /\ RecAlike(new, read)
  <2> HIDE DEF kept
  <2> QED
    BY <1>9, RecEarnPart
<1> HIDE DEF new
<1>11. /\ DOMAIN new = DOMAIN old /\ new = [x \in DOMAIN old |-> new[x]]
       /\ new.seq = KodoSeq(old.seq, old.span, pkt)
       /\ new.span = KodoSpan(old.seq, old.span, pkt)
       /\ new.rb = Ring!RbInsert(old.rb, pkt.seq)
       /\ new.flush = old.flush /\ new.has_source = old.has_source
       /\ new.queue = old.queue /\ new.read = old.read
  <2>1. \A x \in SinkFields : new[x] = took[x]
    BY <1>9, <1>10 DEF RecAlike, RecKeeps
  <2>2. DOMAIN new = DOMAIN old /\ new = [x \in DOMAIN old |-> new[x]]
    BY <1>4, <1>9, <1>10 DEF RecAlike
  <2> QED
    BY <2>1, <2>2, <1>4 DEF SinkFields
<1>12. /\ SinkOk(next) /\ SinkSame(next, new)
       /\ new.seq = IF pkt.seq > old.seq THEN pkt.seq ELSE old.seq
  BY <1>3, <1>11, SinkReadsOk DEF RecOk
<1> HIDE DEF ready, next
<1>13. RecOk(next) /\ next.seq = new.seq
  <2>1. "eager" \in DOMAIN new /\ "seq" \in DOMAIN new /\ RecExtras \subseteq DOMAIN new
    BY <1>10 DEF RecPart, SinkNumbers, SinkShape, SinkFields, RecRest
  <2>2. \A x \in RecExtras \cup {"eager", "seq"} : next[x] = new[x]
    BY <1>12, <2>1 DEF SinkSame, SinkChanges, RecExtras
  <2>3. RecExtras \subseteq DOMAIN next
    BY <1>12, <2>1 DEF SinkSame
  <2>4. /\ next.rc = new.rc /\ next.enabled = new.enabled
        /\ next.last_packet_no = new.last_packet_no
        /\ next.last_feedback_no = new.last_feedback_no
        /\ next.flush_packet_no = new.flush_packet_no
        /\ next.flush_next = new.flush_next /\ next.has_feedback = new.has_feedback
        /\ next.timer = new.timer /\ next.eager = new.eager
        /\ next.feedback_buffer = new.feedback_buffer /\ next.seq = new.seq
    BY <2>2 DEF RecExtras
  <2> QED
    BY <1>10, <1>12, <2>3, <2>4 DEF RecOk, RecPart, RecRest
<1>14. RecOk(last) /\ last.seq = next.seq
  <2> DEFINE v == next.timer \/ next.flush # next.seq
  <2>1. last = [next EXCEPT !.timer = v]
    BY <1>13 DEF RecOk, SinkOk, SinkBody, SinkNumbers, SinkShape
  <2>2. v \in BOOLEAN
    OBVIOUS
  <2> HIDE DEF v, last
  <2>3. RecPart(last) /\ RecAlike(last, next)
    BY <1>13, <2>1, <2>2, RecOkPart, RecEdits, RecAlikeEdits
  <2> QED
    BY <1>13, <2>3, RecAlikeOk
<1> HIDE DEF last
<1>15. SinkOk(DecSourceReady(last)) /\ SinkSame(DecSourceReady(last), last)
  BY <1>14, DecSourceReadyOk DEF RecOk
<1>16. RecOk(DecSourceReady(last)) /\ DecSourceReady(last).seq = last.seq
  BY <1>14, <1>15, RecOkSame
<1> QED
  BY <1>1, <1>3, <1>12, <1>13, <1>14, <1>16


(* A credit is spent only where there is one; and what is sent combines    *)
(* symbols of the window, as long as it is not all zero.                   *)
LEMMA RecGetOk ==
  ASSUME NEW r, RecOk(r)
  PROVE  /\ RecHasCoded(r) => \A vec : /\ RecOk(RecGetCoded(r, vec))
                                       /\ RecGetCoded(r, vec).seq = r.seq
         /\ \A vec \in RecVectors(r) \ {{}} :
              PacketOk(RecPacket(r, vec)) /\ RecPacket(r, vec).seq = r.seq
         /\ RecHasSource(r) => RecOk(RecGetSource(r)) /\ RecGetSource(r).seq = r.seq
         /\ RecOk(RecGetFeedback(r)) /\ RecGetFeedback(r).seq = r.seq
         /\ AnswerOk(RecFeedback(r))
<1>0. RecPart(r) /\ RecNumbers(r) /\ RecRate(r.rc) /\ r.flush_next \in BOOLEAN
  BY RecOkPart DEF RecOk, RecRest
<1>1. ASSUME RecHasCoded(r), NEW vec
      PROVE  RecOk(RecGetCoded(r, vec)) /\ RecGetCoded(r, vec).seq = r.seq
  <2> DEFINE v == Step(r.rc)
             a == [r EXCEPT !.rc = v]
             w == r.flush_next /\ vec = {}
             n == [a EXCEPT !.flush_next = w]
  <2>1. RecGetCoded(r, vec) = [r EXCEPT !.rc = v, !.flush_next = w]
    BY <1>0 DEF RecGetCoded, RecNumbers, SinkNumbers, SinkShape
  <2>2. RecGetCoded(r, vec) = n
    BY <2>1
  <2>3. RecRate(v)
    BY <1>0, <1>1, RecRateOthers DEF RecHasCoded
  <2>4. w \in BOOLEAN
    OBVIOUS
  <2> HIDE DEF v, w
  <2>5. RecPart(a) /\ RecAlike(a, r)
    BY <1>0, <2>3, RecEdits, RecAlikeEdits
  <2> HIDE DEF a
  <2>6. RecOk(a) /\ a.seq = r.seq /\ RecNumbers(a)
    BY <2>5, RecAlikeOk, RecPartFacts
  <2>7. RecPart(n)
    BY <2>4, <2>5, RecEdits
  <2>8. RecAlike(n, a)
    BY <2>6, RecAlikeEdits
  <2> HIDE DEF n
  <2>9. RecOk(n) /\ n.seq = a.seq
    BY <2>6, <2>7, <2>8, RecAlikeOk
  <2> QED
    BY <2>2, <2>6, <2>9
<1>2. ASSUME NEW vec \in RecVectors(r) \ {{}}
      PROVE  PacketOk(RecPacket(r, vec)) /\ RecPacket(r, vec).seq = r.seq
  <2>1. vec \in r.span /\ vec # {}
    BY DEF RecVectors
  <2>2. r.seq \in Nat /\ SpanOk(r.span, r.seq)
    BY DEF RecOk, SinkOk, SinkBody
  <2>3. r.span # EmptySpan
    BY <2>1 DEF EmptySpan
  <2>4. r.seq # 0 /\ vec \subseteq WindowOf(r.seq)
    BY <2>1, <2>2, <2>3 DEF SpanOk
  <2>5. r.last_packet_no \in Nat /\ r.flush_packet_no \in Nat
    BY DEF RecOk, RecRest
  <2> QED
    BY <2>1, <2>2, <2>4, <2>5 DEF PacketOk, RecPacket
<1>3. ASSUME RecHasSource(r) PROVE RecOk(RecGetSource(r)) /\ RecGetSource(r).seq = r.seq
  <2>1. SinkOk(DecGetSource(r)) /\ SinkSame(DecGetSource(r), r)
    BY <1>3, DecGetSourceOk DEF RecOk, RecHasSource
  <2> QED
    BY <2>1, RecOkSame DEF RecGetSource
<1>4. RecOk(RecGetFeedback(r)) /\ RecGetFeedback(r).seq = r.seq
  <2> DEFINE n == [r EXCEPT !.has_feedback = FALSE]
  <2>1. RecPart(n)
    BY <1>0, RecEdits
  <2>2. RecAlike(n, r)
    BY <1>0, RecAlikeEdits
  <2> HIDE DEF n
  <2>3. RecOk(n) /\ n.seq = r.seq
    BY <2>1, <2>2, RecAlikeOk
  <2> QED
    BY <2>3 DEF n, RecGetFeedback
<1>5. AnswerOk(RecFeedback(r))
  BY DEF RecOk, RecRest, RecFeedback
<1> QED
  BY <1>1, <1>2, <1>3, <1>4, <1>5

LEMMA RecTimeoutOk ==
  ASSUME NEW r, RecOk(r)
  PROVE  RecOk(RecTimeout(r)) /\ RecTimeout(r).seq = r.seq
<1>1. ASSUME NEW x, RecOk(x) PROVE RecOk(RecFlushSource(x)) /\ RecFlushSource(x).seq = x.seq
  <2> DEFINE ready == [x EXCEPT !.flush = x.seq]
             on == IF x.has_source THEN ready ELSE DecMoveToNext(ready)
  <2>1. RecFlushSource(x) \in {x, DecSourceReady(on)}
    BY DEF RecFlushSource, RecMoveToNext
  <2>2. SinkOk(on) /\ SinkSame(on, x)
    BY <1>1, DecFlushOk DEF RecOk
  <2> HIDE DEF on
  <2>3. RecOk(on) /\ on.seq = x.seq
    BY <1>1, <2>2, RecOkSame
  <2>4. SinkOk(DecSourceReady(on)) /\ SinkSame(DecSourceReady(on), on)
    BY <2>2, DecSourceReadyOk
  <2>5. RecOk(DecSourceReady(on)) /\ DecSourceReady(on).seq = on.seq
    BY <2>3, <2>4, RecOkSame
  <2> QED
    BY <1>1, <2>1, <2>3, <2>5
<1>2. ASSUME NEW x, RecOk(x) PROVE RecOk(RecFlushCoded(x)) /\ RecFlushCoded(x).seq = x.seq
  <2> DEFINE v == FlushRate(x.rc)
             n == [x EXCEPT !.rc = v]
  <2>1. RecFlushCoded(x) = n
    BY <1>2 DEF RecFlushCoded, RecOk, RecRest, RecExtras
  <2>2. RecRate(v)
    <3>1. RecRate(x.rc)
      BY <1>2 DEF RecOk, RecRest
    <3> QED
      BY <3>1, RecRateOthers
  <2> HIDE DEF v
  <2>3. RecPart(n) /\ RecAlike(n, x)
    BY <1>2, <2>2, RecOkPart, RecEdits, RecAlikeEdits
  <2> HIDE DEF n
  <2> QED
    BY <1>2, <2>1, <2>3, RecAlikeOk
<1> DEFINE fired == [r EXCEPT !.timer = FALSE]
           source == IF RecHasSource(fired) THEN fired ELSE RecFlushSource(fired)
<1>3. RecOk(fired) /\ fired.seq = r.seq
  <2>1. RecPart(r) /\ RecNumbers(r)
    BY RecOkPart
  <2>2. RecPart(fired)
    BY <2>1, RecEdits
  <2>3. RecAlike(fired, r)
    BY <2>1, RecAlikeEdits
  <2> HIDE DEF fired
  <2> QED
    BY <2>2, <2>3, RecAlikeOk
<1>4. RecTimeout(r) \in {source, RecFlushCoded(source)}
  BY DEF RecTimeout
<1> HIDE DEF fired
<1>5. RecOk(source) /\ source.seq = r.seq
  BY <1>1, <1>3
<1> HIDE DEF source
<1> QED
  BY <1>2, <1>4, <1>5


(* The packets that are paid for when feedback asks for them.              *)
LEMMA RecSchedulePays ==
  ASSUME NEW rate, RecRate(rate), NEW K \in Nat
  PROVE  LET pay(rc, n) == Insert(rc, TRUE)
         IN RecRate(FoldLeft(pay, rate, [n \in 1 .. K |-> n]))
<1> DEFINE slots == [n \in 1 .. K |-> n]
           T == {x \in CreditRate : x.redundancy >= -Symbols}
           pay(x, n) == Insert(x, TRUE)
           st == [x \in (1 .. K) \X T |-> pay(x[2], slots[x[1]])]
           Rec(g) == [s \in SUBSET (1 .. K) |->
                       IF s = {} THEN rate ELSE pay(g[s \ {Max(s)}], slots[Max(s)])]
           it == CHOOSE g : g = Rec(g)
<1>0. \A x : x \in T <=> RecRate(x)
  BY DEF RecRate
<1> HIDE DEF T
<1>1. rate \in T
  BY <1>0
<1>2. \A x \in T : \A k \in 1 .. K : pay(x, slots[k]) \in T
  BY <1>0, RecRateInsert
<1>3. st \in [(1 .. K) \X T -> T]
  <2> HIDE DEF pay, slots
  <2> QED
    BY <1>2
<1>4. PICK g \in [SUBSET (1 .. K) -> T] : Folds(g, K, rate, st)
  <2> HIDE DEF st, pay, slots, Rec, it
  <2> QED
    BY <1>1, <1>3, FoldExists
<1>5. g = Rec(g)
  <2> HIDE DEF pay, slots
  <2>1. ASSUME NEW s \in SUBSET (1 .. K)
        PROVE  g[s] = IF s = {} THEN rate ELSE pay(g[s \ {Max(s)}], slots[Max(s)])
    <3>1. CASE s = {}
      BY <3>1, <1>4 DEF Folds
    <3>2. CASE s # {}
      <4>1. Max(s) \in 1 .. K /\ s \ {Max(s)} \in SUBSET (1 .. K)
        BY <3>2, MaxOf
      <4>2. g[s \ {Max(s)}] \in T
        BY <4>1
      <4>3. st[<<Max(s), g[s \ {Max(s)}]>>] = pay(g[s \ {Max(s)}], slots[Max(s)])
        BY <4>1, <4>2
      <4> QED
        BY <3>2, <1>4, <4>3 DEF Folds
    <3> QED
      BY <3>1, <3>2
  <2> QED
    BY <2>1
<1>6. it = Rec(it)
  <2> HIDE DEF Rec
  <2> QED
    BY <1>5
<1>7. FoldLeft(pay, rate, slots) = it[1 .. K]
  <2>1. DOMAIN slots = 1 .. K
    OBVIOUS
  <2> QED
    BY <2>1 DEF FoldLeft, MapThenFoldSet
<1>8. it[{}] \in T
  <2>1. {} \in SUBSET (1 .. K)
    OBVIOUS
  <2> HIDE DEF it, pay, slots
  <2> QED
    BY <1>1, <1>6, <2>1
<1>9. ASSUME NEW s \in SUBSET (1 .. K), s # {}, it[s \ {Max(s)}] \in T PROVE it[s] \in T
  <2>1. Max(s) \in 1 .. K
    BY <1>9, MaxOf
  <2>2. it[s] = pay(it[s \ {Max(s)}], slots[Max(s)])
    <3> HIDE DEF it, pay, slots
    <3> QED
      BY <1>6, <1>9
  <2> HIDE DEF it, pay, slots
  <2> QED
    BY <1>9, <2>1, <2>2, <1>2
<1>10. it[1 .. K] \in T
  <2> HIDE DEF it, pay, slots
  <2> QED
    BY <1>8, <1>9, FoldTyped
<1>11. RecRate(FoldLeft(pay, rate, slots))
  <2> HIDE DEF it, pay, slots
  <2> QED
    BY <1>0, <1>7, <1>10
<1> QED
  BY <1>11

(* The rank of a window's rows is a number.                                *)
LEMMA RankNat ==
  ASSUME NEW seq \in Nat, NEW span, SpanOk(span, seq)
  PROVE  Rank(span) \in Nat
<1> DEFINE a == seq - Symbols
           b == seq - 1
<1>1. a \in Int /\ b \in Int
  BY SymbolsAssumption
<1>2. WindowOf(seq) = a .. b
  BY DEF WindowOf
<1> HIDE DEF a, b
<1>3. ASSUME NEW v \in span \ {{}} PROVE Pivot(v) \in a .. b
  <2>1. v \in SUBSET (a .. b) /\ v # {}
    BY <1>2 DEF SpanOk
  <2>2. SmallestIn(v) \in v
    BY <1>1, <2>1, SmallestOf
  <2>3. Pivot(v) = SmallestIn(v)
    BY DEF Pivot, SmallestIn
  <2> QED
    BY <2>1, <2>2, <2>3
<1>4. Pivots(span) \in SUBSET (a .. b)
  BY <1>3 DEF Pivots
<1>5. IsFiniteSet(a .. b)
  BY <1>1, FS_Interval
<1>6. IsFiniteSet(Pivots(span))
  BY <1>4, <1>5, FS_Subset
<1> QED
  BY <1>6, FS_CardinalityType DEF Rank

(* Feedback that is not ahead of the recoder does not move it.             *)
LEMMA RecPutFeedbackOk ==
  ASSUME NEW r, RecOk(r), NEW fb, AnswerOk(fb), fb.seq <= r.seq
  PROVE  RecOk(RecPutFeedback(r, fb)) /\ RecPutFeedback(r, fb).seq = r.seq
<1> DEFINE applied == RecApplyFeedback(r, fb)
           heard == [applied EXCEPT !.feedback_buffer = fb]
           numbered == [heard EXCEPT !.last_feedback_no = fb.feedback_no]
           told == [numbered EXCEPT !.has_feedback = TRUE]
<1>0. /\ fb.seq \in Nat /\ fb.feedback_no \in Nat /\ fb.missing \subseteq Slots
      /\ r.seq \in Nat
  BY DEF AnswerOk, RecOk, SinkOk, SinkBody
<1>1. RecCatchUp(r, fb) = r
  BY DEF RecCatchUp
<1>2. RecOk(applied) /\ applied.seq = r.seq
  <2> DEFINE checked == {Slot(s) : s \in r.seq - Symbols .. fb.seq - 1}
             v == (r.enabled \ (checked \ fb.missing)) \cup (checked \cap fb.missing)
             n == [r EXCEPT !.enabled = v]
  <2>1. applied \in {r, n}
    BY <1>1 DEF RecApplyFeedback
  <2>2. v \in SUBSET Slots
    BY <1>0 DEF RecOk, RecRest
  <2> HIDE DEF v
  <2>3. RecPart(n) /\ RecAlike(n, r)
    BY <2>2, RecOkPart, RecEdits, RecAlikeEdits
  <2> HIDE DEF n
  <2>4. RecOk(n) /\ n.seq = r.seq
    BY <2>3, RecAlikeOk
  <2> QED
    BY <2>1, <2>4
<1> HIDE DEF applied
<1>3. RecOk(heard) /\ heard.seq = applied.seq
  <2>0. /\ SinkNumbers(applied) /\ SinkOk(applied) /\ RecPart(applied)
        /\ SinkFields \subseteq DOMAIN applied /\ applied = [x \in DOMAIN applied |-> applied[x]]
    BY <1>2, RecOkPart DEF RecOk, SinkOk, SinkBody, SinkNumbers, SinkShape
  <2>1. /\ DOMAIN heard = DOMAIN applied /\ heard = [x \in DOMAIN applied |-> heard[x]]
        /\ \A x \in SinkFields : heard[x] = applied[x]
    BY <2>0 DEF SinkFields
  <2>2. RecPart(heard)
    BY <2>0, RecEdits
  <2> HIDE DEF heard
  <2>3. heard.flush \in Nat /\ heard.seq = applied.seq
    BY <2>0, <2>1 DEF SinkFields, SinkOk, SinkBody
  <2>4. SinkOk(heard)
    BY <2>0, <2>1, <2>3, SinkOkLike
  <2> QED
    BY <2>2, <2>3, <2>4 DEF RecOk, RecPart
<1>4. told = [applied EXCEPT !.feedback_buffer = fb, !.last_feedback_no = fb.feedback_no,
                             !.has_feedback = TRUE]
  OBVIOUS
<1> HIDE DEF heard
<1>5. RecOk(numbered) /\ numbered.seq = heard.seq
  <2>1. RecPart(heard) /\ RecNumbers(heard)
    BY <1>3, RecOkPart
  <2>2. RecPart(numbered)
    <3> DEFINE v == fb.feedback_no
    <3>1. v \in Nat
      BY <1>0
    <3> HIDE DEF v
    <3>2. RecPart([heard EXCEPT !.last_feedback_no = v])
      BY <2>1, <3>1, RecEdits
    <3> QED
      BY <3>2 DEF v
  <2>3. RecAlike(numbered, heard)
    BY <2>1, RecAlikeEdits
  <2> HIDE DEF numbered
  <2> QED
    BY <1>3, <2>2, <2>3, RecAlikeOk
<1> HIDE DEF numbered
<1>6. RecOk(told) /\ told.seq = numbered.seq
  <2>1. RecPart(numbered) /\ RecNumbers(numbered)
    BY <1>5, RecOkPart
  <2>2. RecPart(told)
    BY <2>1, RecEdits
  <2>3. RecAlike(told, numbered)
    BY <2>1, RecAlikeEdits
  <2> HIDE DEF told
  <2> QED
    BY <1>5, <2>2, <2>3, RecAlikeOk
<1>7. RecPutFeedback(r, fb) \in {r, RecSchedule(told, fb)}
  BY <1>4 DEF RecPutFeedback, applied
<1> HIDE DEF told
<1>8. RecOk(RecSchedule(told, fb)) /\ RecSchedule(told, fb).seq = told.seq
  <2> DEFINE again == AtMost(Cardinality(fb.missing), Rank(told.span) + 1)
             pay(rc, n) == Insert(rc, TRUE)
             v == FoldLeft(pay, told.rc, [n \in 1 .. again |-> n])
             n == [told EXCEPT !.rc = v]
  <2>0. RecRate(told.rc) /\ "rc" \in DOMAIN told
    BY <1>6 DEF RecOk, RecRest, RecExtras
  <2>1. RecSchedule(told, fb) = n
    BY <2>0 DEF RecSchedule
  <2>2. again \in Nat
    <3>1. Rank(told.span) \in Nat
      BY <1>6, RankNat DEF RecOk, SinkOk, SinkBody
    <3>2. Cardinality(fb.missing) \in Nat
      <4>1. IsFiniteSet(Slots)
        BY SlotsFinite
      <4> QED
        BY <1>0, <4>1, FS_Subset, FS_CardinalityType
    <3> QED
      BY <3>1, <3>2 DEF AtMost
  <2>3. RecRate(v)
    <3> HIDE DEF again
    <3> QED
      BY <2>0, <2>2, RecSchedulePays
  <2> HIDE DEF v
  <2>4. RecPart(n) /\ RecAlike(n, told)
    BY <1>6, <2>3, RecOkPart, RecEdits, RecAlikeEdits
  <2> HIDE DEF n
  <2> QED
    BY <1>6, <2>1, <2>4, RecAlikeOk
<1> QED
  BY <1>2, <1>3, <1>5, <1>6, <1>7, <1>8



(* The sinks of the initial states, and what their invariant says.         *)
LEMMA StartRing ==
  RingOk(Ring!RbInit, 0) /\ ReadOk(<<>>, <<>>, Ring!RbReadSeqno(Ring!RbInit))
  /\ SpanOk(EmptySpan, 0)
<1> DEFINE rb == Ring!RbInit
<1>1. /\ rb \in Ring!RingBuffers /\ rb.write_seqno = 0 /\ rb.num_blocks = 0
      /\ rb.read_index = 0 /\ rb.write_index = 0
  BY SymbolsAssumption DEF Ring!RbInit, Ring!RingBuffers
<1> HIDE DEF rb
<1>2. Ring!RbReadSeqno(rb) = 0
  BY <1>1 DEF Ring!RbReadSeqno
<1>3. 0 % Symbols = 0
  BY SymbolsAssumption
<1>4. Ring!RbAligned(rb)
  BY <1>1, <1>2, <1>3 DEF Ring!RbAligned
<1>5. RingOk(rb, 0)
  BY <1>1, <1>2, <1>4 DEF RingOk
<1>6. <<>> \in Seq(Nat) /\ DOMAIN <<>> = {}
  OBVIOUS
<1>7. ReadOk(<<>>, <<>>, 0)
  BY <1>6 DEF ReadOk, Ups, Below
<1>8. SpanOk(EmptySpan, 0)
  BY DEF SpanOk, EmptySpan
<1> QED
  BY <1>2, <1>5, <1>7, <1>8 DEF rb

LEMMA DecStartOk ==
  ASSUME opt \in Options
  PROVE  DecOk(DecStart) /\ DecStart.seq = 0
<1> DEFINE d == DecStart
<1>1. /\ d.rb = Ring!RbInit /\ d.seq = 0 /\ d.span = EmptySpan /\ d.flush = 0
      /\ d.has_source = FALSE /\ d.queue = <<>> /\ d.read = <<>>
      /\ d.initialized = opt.sequence /\ d.has_feedback = FALSE
      /\ d.feedback_packet_no = 0 /\ d.feedback_no = 0 /\ d.feedback_tx_attempts = 0
      /\ d.timer = FALSE /\ d.fb_timer = FALSE /\ d.eager = opt.eager /\ d.failed = FALSE
      /\ DecExtras \subseteq DOMAIN d
  BY DEF DecStart, DecExtras
<1>2. SinkNumbers(d)
  BY StartNumbers
<1> HIDE DEF d
<1>3. SinkOk(d)
  <2>1. 0 \in Nat
    OBVIOUS
  <2> QED
    BY <1>1, <1>2, <2>1, StartRing DEF SinkOk, SinkBody, HeadTrue
<1>4. opt.sequence \in BOOLEAN /\ opt.eager \in BOOLEAN /\ 0 \in 0 .. opt.fb_tx
  BY OptionsAssumption DEF ValidOptions, ValidEnds, Unlimited
<1>5. DecRest(d)
  <2>1. d.has_feedback \in BOOLEAN /\ d.timer \in BOOLEAN /\ d.fb_timer \in BOOLEAN
    BY <1>1, Zenon
  <2>2. d.eager \in BOOLEAN /\ d.initialized \in BOOLEAN
    BY <1>1, <1>4, Zenon
  <2>3. /\ d.feedback_packet_no \in Nat /\ d.feedback_no \in Nat
        /\ d.feedback_tx_attempts \in 0 .. opt.fb_tx
    BY <1>1, <1>4
  <2> QED
    BY <1>1, <2>1, <2>2, <2>3 DEF DecRest
<1> QED
  BY <1>1, <1>3, <1>5 DEF DecOk, d

LEMMA RecStartOk ==
  ASSUME opt \in Options, ~(opt.tap /\ opt.eager)
  PROVE  RecOk(RecStart) /\ RecStart.seq = 0
<1> DEFINE r == RecStart
           rc == CreditInit(Symbols, AtLeast(opt.redundancy, -Symbols))
<1>1. /\ r.rb = Ring!RbInit /\ r.seq = 0 /\ r.span = EmptySpan /\ r.flush = 0
      /\ r.has_source = FALSE /\ r.queue = <<>> /\ r.read = <<>>
      /\ r.rc = rc /\ r.enabled = {} /\ r.last_packet_no = 0 /\ r.flush_next = FALSE
      /\ r.flush_packet_no = 0 /\ r.last_feedback_no = 0 /\ r.feedback_buffer = NoFeedback
      /\ r.has_feedback = FALSE /\ r.timer = FALSE /\ r.eager = FALSE
      /\ RecExtras \subseteq DOMAIN r
  BY DEF RecStart, RecExtras
<1>2. SinkNumbers(r)
  BY StartNumbers DEF RecNumbers
<1>3. RecRate(rc)
  <2> DEFINE red == AtLeast(opt.redundancy, -Symbols)
  <2>1. red \in Int /\ red >= -Symbols
    BY SymbolsAssumption, OptionsAssumption DEF ValidOptions, ValidRelay, AtLeast
  <2> HIDE DEF red
  <2>2. CreditInit(Symbols, red) \in CreditRate /\ CreditInit(Symbols, red).redundancy = red
    BY <2>1 DEF CreditInit, CreditRate
  <2> QED
    BY <2>1, <2>2 DEF RecRate, red
<1>4. AnswerOk(NoFeedback)
  BY DEF NoFeedback, AnswerOk
<1> HIDE DEF r, rc
<1>5. SinkOk(r)
  <2>1. 0 \in Nat
    OBVIOUS
  <2> QED
    BY <1>1, <1>2, <2>1, StartRing DEF SinkOk, SinkBody, HeadTrue
<1>6. RecRest(r)
  <2>1. r.eager = FALSE
    BY <1>1
  <2>2. r.has_feedback \in BOOLEAN /\ r.timer \in BOOLEAN /\ r.flush_next \in BOOLEAN
    BY <1>1, Zenon
  <2>3. r.last_packet_no \in Nat /\ r.last_feedback_no \in Nat /\ r.flush_packet_no \in Nat
        /\ r.enabled \subseteq Slots
    BY <1>1
  <2>4. RecRate(r.rc) /\ AnswerOk(r.feedback_buffer)
    BY <1>1, <1>3, <1>4, Zenon
  <2> QED
    BY <1>1, <2>1, <2>2, <2>3, <2>4 DEF RecRest
<1> QED
  BY <1>1, <1>5, <1>6 DEF RecOk, r

LEMMA SinkOkSays ==
  ASSUME NEW d, SinkOk(d)
  PROVE  /\ HeadOf(d) /\ d.rb \in Ring!RingBuffers /\ {d.seq, d.flush} \subseteq Nat
         /\ {d.queue, d.read} \subseteq Seq(Nat) /\ d.has_source \in BOOLEAN
         /\ \A v \in d.span : v \subseteq WindowOf(d.seq)
         /\ Ups(d.read) /\ \A n \in DOMAIN d.read : d.read[n] \in 0 .. d.seq - 1
<1>0. /\ SinkNumbers(d) /\ d.seq \in Nat /\ d.flush \in Nat /\ RingOk(d.rb, d.seq)
      /\ ReadOk(d.read, d.queue, Ring!RbReadSeqno(d.rb)) /\ HeadTrue(d)
      /\ SpanOk(d.span, d.seq)
  BY DEF SinkOk, SinkBody
<1>1. /\ Ring!RbReadSeqno(d.rb) = d.seq - d.rb.num_blocks /\ d.rb.num_blocks \in 0 .. Symbols
      /\ Symbols \in Nat \ {0} /\ Ring!RbReadSeqno(d.rb) \in Nat
  BY <1>0, RingFacts
<1>2. HeadOf(d)
  <2>1. d.has_source => d.rb.num_blocks # 0
    BY <1>0 DEF HeadTrue
  <2> QED
    BY <1>0, <2>1 DEF HeadOf, HeadTrue, RingOk, Ring!RbEmpty, IsSymbolUncoded
<1>3. ASSUME NEW n \in DOMAIN d.read PROVE d.read[n] \in 0 .. d.seq - 1
  <2>1. d.read[n] \in Nat /\ d.read[n] < Ring!RbReadSeqno(d.rb)
    BY <1>0 DEF ReadOk, Below
  <2> QED
    BY <1>0, <1>1, <2>1
<1>4. d.has_source \in BOOLEAN
  BY <1>0 DEF SinkNumbers
<1> QED
  BY <1>0, <1>2, <1>3, <1>4 DEF RingOk, ReadOk, SpanOk

LEMMA OkTyped ==
  /\ \A d : DecOk(d) => DecTyped(d) /\ ~d.failed /\ HeadOf(d)
  /\ \A r : RecOk(r) => RecTyped(r) /\ HeadOf(r)
<1>1. ASSUME NEW d, DecOk(d) PROVE DecTyped(d) /\ ~d.failed /\ HeadOf(d)
  <2>1. SinkOk(d) /\ DecRest(d)
    BY <1>1 DEF DecOk
  <2>2. SinkTyped(d) /\ HeadOf(d)
    <3>1. /\ HeadOf(d) /\ d.rb \in Ring!RingBuffers /\ {d.seq, d.flush} \subseteq Nat
          /\ {d.queue, d.read} \subseteq Seq(Nat) /\ d.has_source \in BOOLEAN
          /\ \A v \in d.span : v \subseteq WindowOf(d.seq)
      BY <2>1, SinkOkSays
    <3>2. d.has_feedback \in BOOLEAN /\ d.timer \in BOOLEAN /\ d.eager \in BOOLEAN
      BY <2>1 DEF DecRest
    <3>3. {d.has_source, d.has_feedback, d.timer, d.eager} \subseteq BOOLEAN
      BY <3>1, <3>2, Zenon
    <3> QED
      BY <3>1, <3>3 DEF SinkTyped
  <2>3. {d.feedback_packet_no, d.feedback_no} \subseteq Nat
        /\ d.feedback_tx_attempts \in 0 .. opt.fb_tx
    BY <2>1 DEF DecRest
  <2>4. {d.initialized, d.fb_timer, d.failed} \subseteq BOOLEAN /\ ~d.failed
    <3>1. d.initialized \in BOOLEAN /\ d.fb_timer \in BOOLEAN /\ d.failed = FALSE
      BY <2>1 DEF DecRest
    <3> QED
      BY <3>1, Zenon
  <2> QED
    BY <2>2, <2>3, <2>4 DEF DecTyped
<1>2. ASSUME NEW r, RecOk(r) PROVE RecTyped(r) /\ HeadOf(r)
  <2>1. SinkOk(r) /\ RecRest(r)
    BY <1>2 DEF RecOk
  <2>2. SinkTyped(r) /\ HeadOf(r)
    <3>1. /\ HeadOf(r) /\ r.rb \in Ring!RingBuffers /\ {r.seq, r.flush} \subseteq Nat
          /\ {r.queue, r.read} \subseteq Seq(Nat) /\ r.has_source \in BOOLEAN
          /\ \A v \in r.span : v \subseteq WindowOf(r.seq)
      BY <2>1, SinkOkSays
    <3>2. r.has_feedback \in BOOLEAN /\ r.timer \in BOOLEAN /\ r.eager \in BOOLEAN
      BY <2>1 DEF RecRest
    <3>3. {r.has_source, r.has_feedback, r.timer, r.eager} \subseteq BOOLEAN
      BY <3>1, <3>2, Zenon
    <3> QED
      BY <3>1, <3>3 DEF SinkTyped
  <2>3. RateTyped(r.rc)
    BY <2>1 DEF RecRest, RecRate, CreditRate, RateTyped, IsDual
  <2>4. {r.last_packet_no, r.last_feedback_no, r.flush_packet_no} \subseteq Nat
        /\ r.enabled \subseteq Slots /\ r.flush_next \in BOOLEAN
    BY <2>1 DEF RecRest
  <2> QED
    BY <2>2, <2>3, <2>4 DEF RecTyped
<1> QED
  BY <1>1, <1>2



-----------------------------------------------------------------------------
(* What an encoder sends is a packet: it has a symbol in it, and only such *)
(* of the window that its number names.                                    *)
LEMMA EncPacketOk ==
  ASSUME NEW e, EncOk(e), EncHasCoded(e), NEW vec \in EncVectors(e), vec # {}
  PROVE  /\ PacketOk(EncPacket(e, vec)) /\ EncPacket(e, vec).seq <= e.seq
         /\ ~EncRepairNext(e) => vec = {EncPacket(e, vec).seq - 1}
<1> DEFINE i == EncNextSystematic(e)
           s == SymbolAt(e.seq, i)
           p == EncPacket(e, vec)
<1>1. /\ e.seq \in Nat /\ e.packet_count \in Nat
      /\ e.enabled \in SUBSET Slots /\ e.systematic \in SUBSET Slots
      /\ e.source_symbols \in Nat /\ e.source_symbols = Cardinality(e.systematic)
      /\ \A j \in e.systematic : e.tx_attempts[j] > 0
      /\ \A j \in Slots : e.tx_attempts[j] > 0 => j < e.seq
      /\ \A j \in e.enabled : j < e.seq
      /\ Slots \subseteq Int /\ Symbols \in Nat \ {0}
  <2>1. EncParts(e) /\ EncCounts(e)
    BY DEF EncOk
  <2>2. /\ e.seq \in Nat /\ e.packet_count \in Nat /\ e.source_symbols \in Nat
        /\ e.enabled \in SUBSET Slots /\ e.systematic \in SUBSET Slots
    BY <2>1, Zenon DEF EncParts
  <2>3. /\ e.source_symbols = Cardinality(e.systematic)
        /\ \A j \in e.systematic : e.tx_attempts[j] > 0
        /\ \A j \in Slots : e.tx_attempts[j] > 0 => j < e.seq
        /\ \A j \in e.enabled : j < e.seq
    BY <2>1, Zenon DEF EncCounts
  <2>4. Slots \subseteq Int /\ Symbols \in Nat \ {0}
    BY SymbolsAssumption DEF Slots
  <2> QED
    BY <2>2, <2>3, <2>4, Zenon
<1>2. /\ p.vec = vec /\ p.no = e.packet_count + 1
      /\ p.seq = IF EncRepairNext(e) THEN e.seq ELSE s + 1
  BY DEF EncPacket
<1> HIDE DEF p
<1>3. CASE EncRepairNext(e)
  <2>1. vec \in SUBSET EncSymbols(e, e.enabled)
    BY <1>3 DEF EncVectors
  <2>2. PICK j \in e.enabled : SymbolAt(e.seq, j) \in vec
    BY <2>1 DEF EncSymbols
  <2>3. e.seq > 0
    BY <1>1, <2>2 DEF Slots
  <2>4. vec \subseteq WindowOf(e.seq)
    BY <1>1, <2>1, SymbolAtSlot DEF EncSymbols
  <2> QED
    BY <1>1, <1>2, <1>3, <2>3, <2>4 DEF PacketOk, p
<1>4. CASE ~EncRepairNext(e)
  <2>1. e.systematic # {}
    <3>1. e.source_symbols > 0
      BY <1>4 DEF EncHasCoded, EncRepairNext
    <3> QED
      BY <1>1, <3>1, FS_EmptySet
  <2>2. i \in e.systematic
    BY <1>1, <2>1, NextSystematic
  <2>3. i \in Slots /\ i < e.seq
    BY <1>1, <2>2
  <2>4. s \in WindowOf(e.seq) /\ s \in Int /\ s >= 0
    <3>1. e.seq \in Int
      BY <1>1
    <3>2. s \in WindowOf(e.seq) /\ s \in Int
      BY <2>3, <3>1, SymbolAtSlot
    <3>3. i < e.seq <=> s >= 0
      BY <1>1, <2>3, SymbolAtNat
    <3> QED
      BY <2>3, <3>2, <3>3
  <2>5. vec = {s}
    BY <1>4 DEF EncVectors, EncSymbols
  <2> HIDE DEF s
  <2>6. s + 1 \in Nat \ {0} /\ s + 1 <= e.seq /\ {s} \subseteq WindowOf(s + 1)
    BY <1>1, <2>4 DEF WindowOf
  <2>7. p.seq = s + 1 /\ s = p.seq - 1
    BY <1>2, <1>4, <2>4
  <2> QED
    BY <1>1, <1>2, <2>5, <2>6, <2>7 DEF PacketOk, p
<1> QED
  BY <1>3, <1>4

(* A node's header makes another packet of it, in the common stream.       *)
LEMMA HeaderPacket ==
  ASSUME opt \in Options, NEW f \in Flows, EncOk(enc[f]), EncHasCoded(enc[f]),
         NEW vec \in EncVectors(enc[f]), vec # {}
  PROVE  /\ PacketOk(Header(f, EncPacket(enc[f], vec)))
         /\ opt.nodes <= 1 => Header(f, EncPacket(enc[f], vec)).seq <= enc[f].seq
<1> DEFINE e == enc[f]
           p == EncPacket(e, vec)
           h == Header(f, p)
           g == Global(f, p.seq - 1)
           v == IF EncRepairNext(e) THEN {SymbolAt(g + 1, Slot(s)) : s \in p.vec}
                ELSE {Global(f, s) : s \in p.vec}
<1>1. opt.nodes \in Nat /\ f \in Nat \ {0} /\ (opt.nodes <= 1 => f = 1)
  BY OptionsAssumption DEF ValidOptions, ValidEnds, Flows, AtLeast
<1>2. PacketOk(p) /\ p.seq <= e.seq /\ (~EncRepairNext(e) => vec = {p.seq - 1})
  BY EncPacketOk
<1>3. p.vec = vec /\ {"seq", "vec", "no"} \subseteq DOMAIN p
  BY DEF EncPacket
<1>4. p.seq \in Nat \ {0} /\ e.seq \in Nat /\ Symbols \in Nat \ {0} /\ p.vec \subseteq Int
  BY <1>2, SymbolsAssumption DEF PacketOk, WindowOf, EncOk, EncParts
<1>5. opt.nodes = 0 => h = p
  BY DEF Header
<1>6. opt.nodes # 0 => h = [p EXCEPT !.seq = g + 1, !.no = (g + 1) % 2^16, !.vec = v]
  BY DEF Header
<1> HIDE DEF p, h
<1>7. ASSUME opt.nodes # 0 PROVE PacketOk(h) /\ (opt.nodes = 1 => h.seq = p.seq)
  <2>1. g = (p.seq - 1) * opt.nodes + f - 1
    BY <1>7 DEF Global
  <2>2. g \in Nat /\ (opt.nodes = 1 => g = p.seq - 1)
    <3>1. (p.seq - 1) * opt.nodes \in Nat
      <4>1. p.seq - 1 \in Nat
        BY <1>4
      <4> QED
        BY <1>1, <4>1
    <3>2. opt.nodes = 1 => (p.seq - 1) * opt.nodes = p.seq - 1
      BY <1>4
    <3> QED
      BY <1>1, <2>1, <3>1, <3>2
  <2>3. v \subseteq WindowOf(g + 1) /\ v # {}
    <3>1. CASE EncRepairNext(e)
      <4>1. v = {SymbolAt(g + 1, Slot(s)) : s \in vec}
        BY <1>3, <3>1
      <4>2. \A s \in vec : SymbolAt(g + 1, Slot(s)) \in WindowOf(g + 1)
        <5>1. g + 1 \in Int
          BY <2>2
        <5>2. \A s \in vec : Slot(s) \in Slots
          BY <1>3, <1>4, SlotType
        <5> QED
          BY <5>1, <5>2, SymbolAtSlot
      <4> QED
        BY <4>1, <4>2
    <3>2. CASE ~EncRepairNext(e)
      <4>1. v = {g}
        BY <1>2, <1>3, <3>2
      <4>2. g \in WindowOf(g + 1)
        BY <1>4, <2>2 DEF WindowOf
      <4> QED
        BY <4>1, <4>2
    <3> QED
      BY <3>1, <3>2
  <2>4. (g + 1) % 2^16 \in Nat
    <3>1. 2^16 \in Nat \ {0}
      OBVIOUS
    <3>2. g + 1 \in Int
      BY <2>2
    <3> DEFINE M == 2^16
               a == g + 1
    <3>3. M \in Nat \ {0} /\ a \in Int
      BY <3>1, <3>2
    <3> HIDE DEF M, a
    <3>4. a % M \in 0 .. M - 1
      BY <3>3, ModRange
    <3>5. a % M \in Nat
      BY <3>3, <3>4
    <3> QED
      BY <3>5 DEF M, a
  <2> HIDE DEF v, g
  <2>5. h.seq = g + 1 /\ h.no = (g + 1) % 2^16 /\ h.vec = v
    BY <1>3, <1>6, <1>7
  <2> QED
    BY <1>4, <2>2, <2>3, <2>4, <2>5 DEF PacketOk
<1>8. PacketOk(h) /\ (opt.nodes <= 1 => h.seq <= e.seq)
  BY <1>1, <1>2, <1>4, <1>5, <1>7
<1> QED
  BY <1>8 DEF h, p


-----------------------------------------------------------------------------
(* What is in flight on a hop.  Nothing comes into a channel but what is   *)
(* sent.                                                                   *)
InAir(a, hop) == {a[hop][j] : j \in DOMAIN a[hop]}

LEMMA InAirRemoved ==
  ASSUME NEW a, AirOk(a), NEW hop \in Hops, NEW i \in DOMAIN a[hop]
  PROVE  /\ a[hop][i] \in InAir(a, hop)
         /\ \A h \in Hops :
              InAir([a EXCEPT ![hop] = RemoveAt(a[hop], i)], h) \subseteq InAir(a, h)
<1> DEFINE s == RemoveAt(a[hop], i)
           b == [a EXCEPT ![hop] = s]
<1>1. a[hop] \in Seq(InAir(a, hop))
  BY DEF AirOk, HopOk, IsSeq, InAir
<1>2. \A j \in DOMAIN s : \E k \in DOMAIN a[hop] : s[j] = a[hop][k]
  <2> DEFINE S == InAir(a, hop)
             t == a[hop]
  <2> HIDE DEF S
  <2>1. t \in Seq(S) /\ i \in DOMAIN t
    BY <1>1 DEF S
  <2> HIDE DEF t
  <2>2. \A j \in DOMAIN RemoveAt(t, i) : \E k \in DOMAIN t : RemoveAt(t, i)[j] = t[k]
    BY <2>1, RemoveAtType
  <2> QED
    BY <2>2 DEF t
<1> HIDE DEF s
<1>3. DOMAIN a = Hops /\ \A h \in Hops : b[h] = IF h = hop THEN s ELSE a[h]
  BY DEF AirOk
<1> HIDE DEF b
<1>4. \A h \in Hops : InAir(b, h) \subseteq InAir(a, h)
  <2>1. InAir(b, hop) \subseteq InAir(a, hop)
    BY <1>2, <1>3 DEF InAir
  <2>2. \A h \in Hops \ {hop} : InAir(b, h) = InAir(a, h)
    BY <1>3 DEF InAir
  <2> QED
    BY <2>1, <2>2
<1>5. a[hop][i] \in InAir(a, hop)
  BY DEF InAir
<1> QED
  BY <1>4, <1>5 DEF b, s

LEMMA InAirTaken ==
  ASSUME AirOk(air), NEW hop \in Hops, NEW i, Takes(hop, i)
  PROVE  /\ air[hop][i] \in InAir(air, hop)
         /\ \A h \in Hops : InAir(air', h) \subseteq InAir(air, h)
<1>1. i \in DOMAIN air[hop]
  BY DEF Takes, Heads
<1>2. air' \in {[air EXCEPT ![hop] = RemoveAt(air[hop], i)], air}
  BY DEF Takes
<1>3. /\ air[hop][i] \in InAir(air, hop)
      /\ \A h \in Hops :
           InAir([air EXCEPT ![hop] = RemoveAt(air[hop], i)], h) \subseteq InAir(air, h)
  BY <1>1, InAirRemoved
<1>4. CASE air' = air
  BY <1>3, <1>4
<1>5. CASE air' = [air EXCEPT ![hop] = RemoveAt(air[hop], i)]
  BY <1>3, <1>5
<1> QED
  BY <1>2, <1>4, <1>5

LEMMA InAirSent ==
  ASSUME AirOk(air), NEW hop \in Hops, NEW m,
         air' = [air EXCEPT ![hop] = Append(air[hop], m)]
  PROVE  \A h \in Hops :
           InAir(air', h) \subseteq InAir(air, h) \cup (IF h = hop THEN {m} ELSE {})
<1> DEFINE S == InAir(air, hop) \cup {m}
           t == air[hop]
           s == Append(t, m)
<1>1. t \in Seq(S) /\ m \in S
  <2> DEFINE R == InAir(air, hop)
  <2>1. t \in Seq(R) /\ R \subseteq S
    BY DEF AirOk, HopOk, IsSeq, InAir
  <2> HIDE DEF R, S
  <2>2. t \in Seq(S)
    BY <2>1
  <2> QED
    BY <2>2 DEF S
<1>2. \A j \in DOMAIN s : s[j] = m \/ \E k \in DOMAIN t : s[j] = t[k]
  <2> HIDE DEF S, t
  <2> QED
    BY <1>1, AddedTo
<1> HIDE DEF s
<1>3. \A h \in Hops : air'[h] = IF h = hop THEN s ELSE air[h]
  BY DEF AirOk, s
<1>4. InAir(air', hop) \subseteq InAir(air, hop) \cup {m}
  BY <1>2, <1>3 DEF InAir
<1>5. \A h \in Hops \ {hop} : InAir(air', h) = InAir(air, h)
  BY <1>3 DEF InAir
<1> QED
  BY <1>4, <1>5

-----------------------------------------------------------------------------
(* What every step keeps, on top of the numbers: decoder and recoder are   *)
(* in order, what is in flight are packets and answers, and no number runs *)
(* ahead of where it comes from: the decoder's and the answers' are not    *)
(* beyond the recoder's, and with a single flow none is beyond the         *)
(* encoder's.                                                              *)
Behind(n, es) == opt.nodes <= 1 => n <= es[1].seq

HeadsOk(es, r, d, a) ==
  /\ RecOk(r) /\ DecOk(d)
  /\ opt.relay => d.seq <= r.seq
  /\ Behind(r.seq, es) /\ Behind(d.seq, es)
  /\ \A m \in InAir(a, "coded") : PacketOk(m) /\ Behind(m.seq, es)
  /\ \A m \in InAir(a, "recoded") : PacketOk(m) /\ m.seq <= r.seq
  /\ \A m \in InAir(a, "answers") : AnswerOk(m) /\ m.seq <= r.seq

LinkHeads == LinkNumbers /\ HeadsOk(enc, rec, dec, air)

LEMMA FirstFlow ==
  ASSUME opt \in Options, NEW es, EncsOk(es)
  PROVE  1 \in Flows /\ es[1].seq \in Nat /\ (opt.nodes <= 1 => Flows = {1})
<1>1. opt.nodes \in Nat
  BY OptionsAssumption DEF ValidOptions, ValidEnds
<1>2. 1 \in Flows /\ (opt.nodes <= 1 => Flows = {1})
  BY <1>1 DEF Flows, AtLeast
<1> QED
  BY <1>2 DEF EncsOk, EncOk, EncParts

(* The parts of the next state, none of whose numbers has gone back.       *)
LEMMA HeadsStep ==
  ASSUME LinkNumbers, HeadsOk(enc, rec, dec, air), opt' = opt, LinkNumbers',
         enc'[1].seq >= enc[1].seq,
         RecOk(rec'), rec'.seq >= rec.seq, Behind(rec'.seq, enc'),
         DecOk(dec'), opt.relay => dec'.seq <= rec'.seq, Behind(dec'.seq, enc'),
         \A m \in InAir(air', "coded") :
           m \in InAir(air, "coded") \/ (PacketOk(m) /\ Behind(m.seq, enc')),
         \A m \in InAir(air', "recoded") :
           m \in InAir(air, "recoded") \/ (PacketOk(m) /\ m.seq <= rec'.seq),
         \A m \in InAir(air', "answers") :
           m \in InAir(air, "answers") \/ (AnswerOk(m) /\ m.seq <= rec'.seq)
  PROVE  LinkHeads'
<1>1. /\ enc[1].seq \in Nat /\ enc'[1].seq \in Nat
  <2>1. opt \in Options /\ EncsOk(enc)
    BY DEF LinkNumbers
  <2>2. EncsOk(enc')
    BY DEF LinkNumbers, EncsOk, Flows
  <2> QED
    BY <2>1, <2>2, FirstFlow
<1>2. rec.seq \in Nat /\ rec'.seq \in Nat
  BY DEF HeadsOk, RecOk, SinkOk, SinkBody
<1>3. ASSUME NEW m \in InAir(air, "coded") PROVE PacketOk(m) /\ Behind(m.seq, enc')
  <2>1. PacketOk(m) /\ Behind(m.seq, enc) /\ m.seq \in Nat
    BY <1>3 DEF HeadsOk, PacketOk
  <2> QED
    BY <1>1, <2>1 DEF Behind
<1>4. ASSUME NEW m \in InAir(air, "recoded") PROVE PacketOk(m) /\ m.seq <= rec'.seq
  <2>1. PacketOk(m) /\ m.seq <= rec.seq /\ m.seq \in Nat
    BY <1>4 DEF HeadsOk, PacketOk
  <2> QED
    BY <1>2, <2>1
<1>5. ASSUME NEW m \in InAir(air, "answers") PROVE AnswerOk(m) /\ m.seq <= rec'.seq
  <2>1. AnswerOk(m) /\ m.seq <= rec.seq /\ m.seq \in Nat
    BY <1>5 DEF HeadsOk, AnswerOk
  <2> QED
    BY <1>2, <2>1
<1>6. HeadsOk(enc', rec', dec', air')
  BY <1>3, <1>4, <1>5 DEF HeadsOk
<1>7. HeadsOk(enc, rec, dec, air)'
  BY <1>6 DEF HeadsOk, DecOk, DecRest, Behind
<1> QED
  BY <1>7 DEF LinkHeads


LEMMA HeadsFacts ==
  ASSUME LinkHeads
  PROVE  /\ opt \in Options /\ LinkNumbers /\ HeadsOk(enc, rec, dec, air)
         /\ EncsOk(enc) /\ AirOk(air) /\ RecOk(rec) /\ DecOk(dec)
         /\ rec.seq \in Nat /\ dec.seq \in Nat /\ enc[1].seq \in Nat /\ 1 \in Flows
         /\ opt.relay \in BOOLEAN /\ opt.overheard \in BOOLEAN
         /\ opt.relay => dec.seq <= rec.seq
         /\ Behind(rec.seq, enc) /\ Behind(dec.seq, enc)
<1>1. opt \in Options /\ LinkNumbers /\ HeadsOk(enc, rec, dec, air) /\ EncsOk(enc) /\ AirOk(air)
  BY DEF LinkHeads, LinkNumbers
<1>2. enc[1].seq \in Nat /\ 1 \in Flows
  BY <1>1, FirstFlow
<1>3. opt.relay \in BOOLEAN /\ opt.overheard \in BOOLEAN
  BY <1>1, OptionsAssumption, Zenon DEF ValidOptions, ValidRelay
<1>5. rec.seq \in Nat /\ dec.seq \in Nat
  BY <1>1 DEF HeadsOk, RecOk, DecOk, SinkOk, SinkBody
<1>6. RecOk(rec) /\ DecOk(dec) /\ (opt.relay => dec.seq <= rec.seq)
      /\ Behind(rec.seq, enc) /\ Behind(dec.seq, enc)
  BY <1>1 DEF HeadsOk
<1> QED
  BY <1>1, <1>2, <1>3, <1>5, <1>6

LEMMA InitHeads ==
  ASSUME Init, Plain(opt)
  PROVE  LinkHeads
<1>1. LinkNumbers /\ opt \in Options
  BY InitNumbers DEF Init
<1>2. RecOk(rec) /\ rec.seq = 0 /\ DecOk(dec) /\ dec.seq = 0
  BY <1>1, DecStartOk, RecStartOk DEF Init, Plain
<1>3. \A hop \in Hops : InAir(air, hop) = {}
  BY DEF Init, InAir
<1>4. enc[1].seq \in Nat
  BY <1>1, FirstFlow DEF LinkNumbers
<1>5. HeadsOk(enc, rec, dec, air)
  BY <1>2, <1>3, <1>4 DEF HeadsOk, Behind, Hops
<1> QED
  BY <1>1, <1>5 DEF LinkHeads

(* A step of an encoder: its number does not go back, and what it sends is *)
(* a packet of its own.                                                    *)
LEMMA SenderHeads ==
  ASSUME LinkHeads, Plain(opt), NEW f \in Flows,
         PutSource(f) \/ Transmit(f) \/ FlushCoded(f) \/ ExpireEncoder(f)
  PROVE  LinkHeads'
<1>0. /\ opt \in Options /\ LinkNumbers /\ HeadsOk(enc, rec, dec, air)
      /\ EncsOk(enc) /\ AirOk(air) /\ RecOk(rec) /\ DecOk(dec)
      /\ rec.seq \in Nat /\ dec.seq \in Nat /\ enc[1].seq \in Nat /\ 1 \in Flows
      /\ opt.relay => dec.seq <= rec.seq
  BY HeadsFacts
<1>1. opt' = opt /\ dec' = dec /\ rec' = rec
  BY DEF PutSource, Transmit, SendCoded, FlushCoded, ExpireEncoder
<1>2. LinkNumbers'
  BY <1>0, SenderNumbers
<1>3. EncOk(enc[f]) /\ enc[f].seq \in Nat
  BY <1>0 DEF EncsOk, EncOk, EncParts
<1>4. \E e : e.seq >= enc[f].seq /\ enc' = [enc EXCEPT ![f] = e]
  <2>1. CASE PutSource(f)
    <3> DEFINE n == EncPutSource(enc[f])
    <3>1. n.seq = enc[f].seq + 1
      BY <1>0, <1>3, EncPutSourceOk
    <3>2. enc' = [enc EXCEPT ![f] = n]
      BY <2>1 DEF PutSource
    <3> HIDE DEF n
    <3>3. n.seq >= enc[f].seq
      BY <1>3, <3>1
    <3> WITNESS n
    <3> QED
      BY <3>2, <3>3
  <2>2. CASE Transmit(f)
    <3> DEFINE n == EncGetCoded(enc[f])
    <3>1. n.seq = enc[f].seq
      BY <1>0, <1>3, <2>2, EncGetCodedOk DEF Transmit
    <3>2. enc' = [enc EXCEPT ![f] = n]
      BY <2>2 DEF Transmit, SendCoded
    <3> HIDE DEF n
    <3>3. n.seq >= enc[f].seq
      BY <1>3, <3>1
    <3> WITNESS n
    <3> QED
      BY <3>2, <3>3
  <2>3. CASE FlushCoded(f)
    <3> DEFINE n == EncFlushCoded(enc[f])
    <3>1. n.seq = enc[f].seq
      BY <1>0, <1>3, <2>3, EncFlushCodedOk DEF FlushCoded
    <3>2. enc' = [enc EXCEPT ![f] = n]
      BY <2>3 DEF FlushCoded
    <3> HIDE DEF n
    <3>3. n.seq >= enc[f].seq
      BY <1>3, <3>1
    <3> WITNESS n
    <3> QED
      BY <3>2, <3>3
  <2>4. CASE ExpireEncoder(f)
    <3> DEFINE n == EncTimeout(enc[f])
    <3>1. n.seq = enc[f].seq
      BY <1>0, <1>3, EncTimeoutOk
    <3>2. enc' = [enc EXCEPT ![f] = n]
      BY <2>4 DEF ExpireEncoder
    <3> HIDE DEF n
    <3>3. n.seq >= enc[f].seq
      BY <1>3, <3>1
    <3> WITNESS n
    <3> QED
      BY <3>2, <3>3
  <2> QED
    BY <2>1, <2>2, <2>3, <2>4
<1>5. enc'[1].seq \in Nat /\ enc'[1].seq >= enc[1].seq
  <2>1. enc'[1].seq \in Nat
    <3>1. EncsOk(enc')
      BY <1>1, <1>2 DEF LinkNumbers, EncsOk, Flows
    <3> QED
      BY <1>0, <3>1, FirstFlow
  <2>2. PICK e : e.seq >= enc[f].seq /\ enc' = [enc EXCEPT ![f] = e]
    BY <1>4
  <2>3. DOMAIN enc = Flows
    BY <1>0 DEF EncsOk
  <2>4. f = 1 => enc'[1] = e
    BY <2>2, <2>3
  <2>5. f # 1 => enc'[1] = enc[1]
    BY <1>0, <2>2, <2>3
  <2> QED
    BY <1>0, <2>1, <2>2, <2>4, <2>5
<1>6. Behind(rec'.seq, enc') /\ Behind(dec'.seq, enc')
  <2>1. Behind(rec.seq, enc) /\ Behind(dec.seq, enc)
    BY <1>0 DEF HeadsOk
  <2> QED
    BY <1>0, <1>1, <1>5, <2>1 DEF Behind
<1>7. /\ \A m \in InAir(air', "coded") :
           m \in InAir(air, "coded") \/ (PacketOk(m) /\ Behind(m.seq, enc'))
      /\ \A h \in Hops \ {"coded"} : InAir(air', h) \subseteq InAir(air, h)
  <2>1. CASE Transmit(f)
    <3>1. EncHasCoded(enc[f])
      BY <2>1 DEF Transmit
    <3>2. PICK vec \in EncVectors(enc[f]) : SendCoded(f, vec)
      BY <2>1 DEF Transmit
    <3> DEFINE pkt == Header(f, EncPacket(enc[f], vec))
    <3>3. vec # {} /\ air' = [air EXCEPT !["coded"] = Append(air["coded"], pkt)]
      BY <3>2 DEF SendCoded, Sends, Plain
    <3>4. PacketOk(pkt) /\ (opt.nodes <= 1 => pkt.seq <= enc[f].seq)
      BY <1>0, <1>3, <3>1, <3>3, HeaderPacket
    <3> HIDE DEF pkt
    <3>5. opt.nodes <= 1 => f = 1
      BY <1>0, FirstFlow
    <3>6. Behind(pkt.seq, enc')
      <4>1. pkt.seq \in Nat
        BY <3>4 DEF PacketOk
      <4> QED
        BY <1>0, <1>5, <3>4, <3>5, <4>1 DEF Behind
    <3>7. \A h \in Hops :
            InAir(air', h) \subseteq InAir(air, h) \cup (IF h = "coded" THEN {pkt} ELSE {})
      BY <1>0, <3>3, InAirSent DEF Hops
    <3>8. InAir(air', "coded") \subseteq InAir(air, "coded") \cup {pkt}
      BY <3>7 DEF Hops
    <3>9. \A h \in Hops \ {"coded"} : InAir(air', h) \subseteq InAir(air, h)
      BY <3>7
    <3> QED
      BY <3>4, <3>6, <3>8, <3>9
  <2>2. CASE PutSource(f) \/ FlushCoded(f) \/ ExpireEncoder(f)
    <3>1. air' = air
      BY <2>2 DEF PutSource, FlushCoded, ExpireEncoder
    <3> QED
      BY <3>1
  <2> QED
    BY <2>1, <2>2
<1>8. RecOk(rec') /\ DecOk(dec') /\ rec'.seq >= rec.seq /\ (opt.relay => dec'.seq <= rec'.seq)
  BY <1>0, <1>1
<1> QED
  BY <1>0, <1>1, <1>2, <1>5, <1>6, <1>7, <1>8, HeadsStep DEF Hops


(* A feedback is heard: no number changes.                                 *)
LEMMA FeedbackHeads ==
  ASSUME LinkHeads, Plain(opt), NEW i, ReceiveFeedback(i) \/ RelayHears(i)
  PROVE  LinkHeads'
<1>0. /\ opt \in Options /\ LinkNumbers /\ HeadsOk(enc, rec, dec, air)
      /\ EncsOk(enc) /\ AirOk(air) /\ RecOk(rec) /\ DecOk(dec)
      /\ rec.seq \in Nat /\ dec.seq \in Nat /\ enc[1].seq \in Nat /\ 1 \in Flows
      /\ opt.relay => dec.seq <= rec.seq
      /\ Behind(rec.seq, enc) /\ Behind(dec.seq, enc)
  BY HeadsFacts
<1>1. ~opt.coded_retrans
  BY DEF Plain
<1>2. LinkNumbers' /\ opt' = opt /\ dec' = dec
  BY <1>0, <1>1, FeedbackNumbers DEF ReceiveFeedback, RelayHears
<1> DEFINE hop == IF ReceiveFeedback(i) THEN "feedback" ELSE "answers"
           fb == air[hop][i]
<1>3. hop \in Hops /\ Takes(hop, i)
  BY DEF ReceiveFeedback, RelayHears, Hops
<1>4. fb \in InAir(air, hop) /\ \A h \in Hops : InAir(air', h) \subseteq InAir(air, h)
  BY <1>0, <1>3, InAirTaken
<1>5. fb.seq \in Int /\ fb.first_missing \in Int
  <2>1. MessageOk(hop, fb)
    BY <1>0, <1>3, AirTaken
  <2> QED
    BY <2>1 DEF MessageOk
<1>6. enc'[1].seq = enc[1].seq
  <2> DEFINE es == [f \in Flows |-> EncPutFeedback(enc[f], fb)]
  <2>1. enc' \in {es, enc}
    BY DEF ReceiveFeedback, RelayHears
  <2>2. es[1] = EncPutFeedback(enc[1], fb)
    BY <1>0
  <2>3. EncOk(enc[1])
    BY <1>0 DEF EncsOk
  <2>4. EncPutFeedback(enc[1], fb).seq = enc[1].seq
    BY <1>0, <1>1, <1>5, <2>3, EncPutFeedbackOk
  <2> HIDE DEF es
  <2> QED
    BY <2>1, <2>2, <2>4
<1>7. RecOk(rec') /\ rec'.seq = rec.seq
  <2>1. CASE ReceiveFeedback(i)
    BY <1>0, <2>1 DEF ReceiveFeedback
  <2>2. CASE ~ReceiveFeedback(i)
    <3>1. hop = "answers" /\ rec' = RecPutFeedback(rec, fb)
      BY <2>2 DEF RelayHears
    <3>2. AnswerOk(fb) /\ fb.seq <= rec.seq
      BY <1>0, <1>4, <3>1 DEF HeadsOk
    <3> HIDE DEF fb
    <3> QED
      BY <1>0, <3>1, <3>2, RecPutFeedbackOk
  <2> QED
    BY <2>1, <2>2
<1> HIDE DEF hop
<1>8. Behind(rec'.seq, enc') /\ Behind(dec'.seq, enc')
  BY <1>0, <1>2, <1>6, <1>7 DEF Behind
<1>9. /\ enc'[1].seq >= enc[1].seq /\ rec'.seq >= rec.seq
      /\ opt.relay => dec'.seq <= rec'.seq
      /\ DecOk(dec')
  BY <1>0, <1>2, <1>6, <1>7
<1>10. /\ InAir(air', "coded") \subseteq InAir(air, "coded")
       /\ InAir(air', "recoded") \subseteq InAir(air, "recoded")
       /\ InAir(air', "answers") \subseteq InAir(air, "answers")
  BY <1>4 DEF Hops
<1> QED
  BY <1>0, <1>2, <1>7, <1>8, <1>9, <1>10, HeadsStep

(* The recoder's other steps: it does not fall back, and what it sends has *)
(* the number it has itself.                                               *)
LEMMA RelayHeads ==
  ASSUME LinkHeads, Plain(opt),
         \/ \E i \in Places("coded") : RelayReceives(i)
         \/ RelaySends \/ RelayAnswers \/ RelayDelivers \/ ExpireRelay
  PROVE  LinkHeads'
<1>0. /\ opt \in Options /\ LinkNumbers /\ HeadsOk(enc, rec, dec, air)
      /\ EncsOk(enc) /\ AirOk(air) /\ RecOk(rec) /\ DecOk(dec)
      /\ rec.seq \in Nat /\ dec.seq \in Nat /\ enc[1].seq \in Nat /\ 1 \in Flows
      /\ opt.relay => dec.seq <= rec.seq
      /\ Behind(rec.seq, enc) /\ Behind(dec.seq, enc)
  BY HeadsFacts
<1>1. LinkNumbers' /\ opt' = opt /\ dec' = dec /\ enc' = enc
  <2>1. LinkNumbers'
    BY <1>0, RelayNumbers
  <2>2. opt' = opt /\ dec' = dec /\ enc' = enc
    BY DEF RelayReceives, RelaySends, RelayAnswers, RelayDelivers, ExpireRelay
  <2> QED
    BY <2>1, <2>2
<1>2. ASSUME RecOk(rec'), rec'.seq >= rec.seq, Behind(rec'.seq, enc),
             InAir(air', "coded") \subseteq InAir(air, "coded"),
             \A m \in InAir(air', "recoded") :
               m \in InAir(air, "recoded") \/ (PacketOk(m) /\ m.seq <= rec'.seq),
             InAir(air', "answers") \subseteq InAir(air, "answers")
      PROVE  LinkHeads'
  <2>1. rec'.seq \in Nat
    BY <1>2 DEF RecOk, SinkOk, SinkBody
  <2>2. opt.relay => dec'.seq <= rec'.seq
    BY <1>0, <1>1, <1>2, <2>1
  <2>3. Behind(dec'.seq, enc') /\ Behind(rec'.seq, enc') /\ enc'[1].seq >= enc[1].seq
        /\ DecOk(dec')
    BY <1>0, <1>1, <1>2
  <2> QED
    BY <1>0, <1>1, <1>2, <2>2, <2>3, HeadsStep
<1>3. ASSUME NEW i, RelayReceives(i) PROVE LinkHeads'
  <2> DEFINE m == air["coded"][i]
  <2>1. Takes("coded", i) /\ rec' = RecPutCoded(rec, m)
    BY <1>3 DEF RelayReceives
  <2>2. m \in InAir(air, "coded") /\ \A h \in Hops : InAir(air', h) \subseteq InAir(air, h)
    BY <1>0, <2>1, InAirTaken DEF Hops
  <2>3. PacketOk(m) /\ Behind(m.seq, enc)
    BY <1>0, <2>2 DEF HeadsOk
  <2> HIDE DEF m
  <2>4. RecOk(rec') /\ rec'.seq = IF m.seq > rec.seq THEN m.seq ELSE rec.seq
    BY <1>0, <2>1, <2>3, RecPutCodedOk
  <2>5. m.seq \in Nat
    BY <2>3 DEF PacketOk
  <2>6. rec'.seq >= rec.seq /\ Behind(rec'.seq, enc)
    BY <1>0, <2>3, <2>4, <2>5 DEF Behind
  <2>7. /\ InAir(air', "coded") \subseteq InAir(air, "coded")
        /\ InAir(air', "recoded") \subseteq InAir(air, "recoded")
        /\ InAir(air', "answers") \subseteq InAir(air, "answers")
    BY <2>2 DEF Hops
  <2> QED
    BY <1>2, <2>4, <2>6, <2>7
<1>4. ASSUME rec'.seq = rec.seq, RecOk(rec'), air' = air PROVE LinkHeads'
  <2>1. rec'.seq >= rec.seq /\ Behind(rec'.seq, enc)
    BY <1>0, <1>4
  <2>2. /\ InAir(air', "coded") \subseteq InAir(air, "coded")
        /\ InAir(air', "recoded") \subseteq InAir(air, "recoded")
        /\ InAir(air', "answers") \subseteq InAir(air, "answers")
    BY <1>4
  <2> QED
    BY <1>2, <1>4, <2>1, <2>2
<1>5. ASSUME RelaySends PROVE LinkHeads'
  <2>1. RecHasCoded(rec)
    BY <1>5 DEF RelaySends
  <2>2. PICK vec \in RelayDraws :
          /\ rec' = RecGetCoded(rec, vec)
          /\ IF vec = {} THEN UNCHANGED air ELSE Sends("recoded", RecPacket(rec, vec))
    BY <1>5 DEF RelaySends
  <2>3. RecOk(rec') /\ rec'.seq = rec.seq
    BY <1>0, <2>1, <2>2, RecGetOk
  <2>4. CASE vec = {}
    <3>1. air' = air
      BY <2>2, <2>4
    <3> QED
      BY <1>4, <2>3, <3>1
  <2>5. CASE vec # {}
    <3> DEFINE pkt == RecPacket(rec, vec)
    <3>1. vec \in RecVectors(rec) \ {{}}
      BY <2>2, <2>5 DEF RelayDraws
    <3>2. PacketOk(pkt) /\ pkt.seq = rec.seq
      BY <1>0, <3>1, RecGetOk
    <3>3. air' = [air EXCEPT !["recoded"] = Append(air["recoded"], pkt)]
      BY <2>2, <2>5 DEF Sends
    <3> HIDE DEF pkt
    <3>4. \A h \in Hops :
            InAir(air', h) \subseteq InAir(air, h) \cup (IF h = "recoded" THEN {pkt} ELSE {})
      BY <1>0, <3>3, InAirSent DEF Hops
    <3>5. /\ InAir(air', "coded") \subseteq InAir(air, "coded")
          /\ InAir(air', "recoded") \subseteq InAir(air, "recoded") \cup {pkt}
          /\ InAir(air', "answers") \subseteq InAir(air, "answers")
      BY <3>4 DEF Hops
    <3>6. rec'.seq >= rec.seq /\ Behind(rec'.seq, enc) /\ pkt.seq <= rec'.seq
      BY <1>0, <2>3, <3>2
    <3> QED
      BY <1>2, <2>3, <3>2, <3>5, <3>6
  <2> QED
    BY <2>4, <2>5
<1>6. ASSUME RelayAnswers PROVE LinkHeads'
  <2> DEFINE pkt == RecFeedback(rec)
  <2>1. /\ rec' = RecGetFeedback(rec)
        /\ air' = [air EXCEPT !["feedback"] = Append(air["feedback"], pkt)]
    BY <1>6 DEF RelayAnswers, Sends
  <2>2. RecOk(rec') /\ rec'.seq = rec.seq
    BY <1>0, <2>1, RecGetOk
  <2> HIDE DEF pkt
  <2>3. \A h \in Hops :
          InAir(air', h) \subseteq InAir(air, h) \cup (IF h = "feedback" THEN {pkt} ELSE {})
    BY <1>0, <2>1, InAirSent DEF Hops
  <2>4. /\ InAir(air', "coded") \subseteq InAir(air, "coded")
        /\ InAir(air', "recoded") \subseteq InAir(air, "recoded")
        /\ InAir(air', "answers") \subseteq InAir(air, "answers")
    BY <2>3 DEF Hops
  <2>5. rec'.seq >= rec.seq /\ Behind(rec'.seq, enc)
    BY <1>0, <2>2
  <2> QED
    BY <1>2, <2>2, <2>4, <2>5
<1>7. ASSUME RelayDelivers PROVE LinkHeads'
  <2>1. RecOk(rec') /\ rec'.seq = rec.seq /\ air' = air
    BY <1>0, <1>7, RecGetOk DEF RelayDelivers
  <2> QED
    BY <1>4, <2>1
<1>8. ASSUME ExpireRelay PROVE LinkHeads'
  <2>1. RecOk(rec') /\ rec'.seq = rec.seq /\ air' = air
    BY <1>0, <1>8, RecTimeoutOk DEF ExpireRelay
  <2> QED
    BY <1>4, <2>1
<1> QED
  BY <1>3, <1>5, <1>6, <1>7, <1>8


(* What a feedback of the decoder says names slots.                        *)
LEMMA DecAnswers ==
  ASSUME NEW d, DecOk(d), opt \in Options
  PROVE  AnswerOk(DecFeedback(d)) /\ DecFeedback(d).seq = d.seq
<1>1. SinkNumbers(d) /\ d.seq \in Nat /\ RingOk(d.rb, d.seq)
  BY DEF DecOk, SinkOk, SinkBody
<1>2. DecFeedback(d).seq = d.seq /\ DecFeedback(d).feedback_no \in Nat
  BY DecFeedbackOk
<1>3. DecFeedback(d).first_missing \in Int
  BY <1>1, DecFeedbackNumbers
<1>4. DecFeedback(d).missing \subseteq Slots
  <2>1. \A s \in DecWindow(d) : Slot(s) \in Slots
    <3>1. DecWindow(d) \subseteq Int
      BY DEF DecWindow
    <3> QED
      BY <3>1, SlotType
  <2> DEFINE T == {t \in DecWindow(d) : SymbolAt(d.seq, Slot(t)) \notin Pivots(d.span)}
  <2>2. DecFeedback(d).missing = {Slot(s) : s \in T}
    BY DEF DecFeedback
  <2>3. T \subseteq DecWindow(d)
    OBVIOUS
  <2> HIDE DEF T
  <2> QED
    BY <2>1, <2>2, <2>3
<1> QED
  BY <1>1, <1>2, <1>3, <1>4 DEF AnswerOk

(* The decoder's steps.                                                    *)
LEMMA SinkHeads ==
  ASSUME LinkHeads, Plain(opt),
         \/ \E i \in Places("coded") : ReceiveCoded(i)
         \/ GetSource \/ SendFeedback \/ ExpireDecoder \/ ExpireFeedback
  PROVE  LinkHeads'
<1>0. /\ opt \in Options /\ LinkNumbers /\ HeadsOk(enc, rec, dec, air)
      /\ EncsOk(enc) /\ AirOk(air) /\ RecOk(rec) /\ DecOk(dec)
      /\ rec.seq \in Nat /\ dec.seq \in Nat /\ enc[1].seq \in Nat /\ 1 \in Flows
      /\ opt.relay \in BOOLEAN
      /\ opt.relay => dec.seq <= rec.seq
      /\ Behind(rec.seq, enc) /\ Behind(dec.seq, enc)
  BY HeadsFacts
<1>1. LinkNumbers' /\ opt' = opt /\ rec' = rec /\ enc' = enc
  <2>1. LinkNumbers'
    BY <1>0, SinkStepNumbers
  <2>2. opt' = opt /\ rec' = rec /\ enc' = enc
    BY DEF ReceiveCoded, GetSource, SendFeedback, ExpireDecoder, ExpireFeedback
  <2> QED
    BY <2>1, <2>2
<1>2. ASSUME DecOk(dec'), opt.relay => dec'.seq <= rec.seq, Behind(dec'.seq, enc),
             InAir(air', "coded") \subseteq InAir(air, "coded"),
             InAir(air', "recoded") \subseteq InAir(air, "recoded"),
             \A m \in InAir(air', "answers") :
               m \in InAir(air, "answers") \/ (AnswerOk(m) /\ m.seq <= rec.seq)
      PROVE  LinkHeads'
  <2>1. /\ RecOk(rec') /\ rec'.seq >= rec.seq /\ enc'[1].seq >= enc[1].seq
        /\ Behind(rec'.seq, enc') /\ Behind(dec'.seq, enc')
    BY <1>0, <1>1, <1>2
  <2>2. opt.relay => dec'.seq <= rec'.seq
    BY <1>1, <1>2
  <2> QED
    BY <1>0, <1>1, <1>2, <2>1, <2>2, HeadsStep
<1>3. ASSUME dec'.seq = dec.seq, DecOk(dec'), air' = air PROVE LinkHeads'
  <2>1. (opt.relay => dec'.seq <= rec.seq) /\ Behind(dec'.seq, enc)
    BY <1>0, <1>3
  <2>2. /\ InAir(air', "coded") \subseteq InAir(air, "coded")
        /\ InAir(air', "recoded") \subseteq InAir(air, "recoded")
        /\ InAir(air', "answers") \subseteq InAir(air, "answers")
    BY <1>3
  <2> QED
    BY <1>2, <1>3, <2>1, <2>2
<1>4. ASSUME NEW i, ReceiveCoded(i) PROVE LinkHeads'
  <2> DEFINE m == air[DataHop][i]
  <2>1. Takes(DataHop, i) /\ dec' = DecPutCoded(dec, m) /\ DataHop \in Hops
    BY <1>4 DEF ReceiveCoded, DataHop, Hops
  <2>2. m \in InAir(air, DataHop) /\ \A h \in Hops : InAir(air', h) \subseteq InAir(air, h)
    BY <1>0, <2>1, InAirTaken
  <2>3. PacketOk(m) /\ (opt.relay => m.seq <= rec.seq) /\ Behind(m.seq, enc)
    <3>1. CASE opt.relay
      <4>1. PacketOk(m) /\ m.seq <= rec.seq
        BY <1>0, <2>2, <3>1 DEF HeadsOk, DataHop
      <4>2. m.seq \in Nat
        BY <4>1 DEF PacketOk
      <4> HIDE DEF m
      <4> QED
        BY <1>0, <4>1, <4>2 DEF Behind
    <3>2. CASE ~opt.relay
      <4>1. PacketOk(m) /\ Behind(m.seq, enc)
        BY <1>0, <2>2, <3>2 DEF HeadsOk, DataHop
      <4> HIDE DEF m
      <4> QED
        BY <3>2, <4>1
    <3> QED
      BY <3>1, <3>2
  <2> HIDE DEF m
  <2>4. DecOk(dec') /\ dec'.seq = IF m.seq > dec.seq THEN m.seq ELSE dec.seq
    BY <1>0, <2>1, <2>3, DecPutCodedOk
  <2>5. m.seq \in Nat
    BY <2>3 DEF PacketOk
  <2>6. (opt.relay => dec'.seq <= rec.seq) /\ Behind(dec'.seq, enc)
    BY <1>0, <2>3, <2>4, <2>5 DEF Behind
  <2>7. /\ InAir(air', "coded") \subseteq InAir(air, "coded")
        /\ InAir(air', "recoded") \subseteq InAir(air, "recoded")
        /\ InAir(air', "answers") \subseteq InAir(air, "answers")
    BY <2>2 DEF Hops
  <2> QED
    BY <1>2, <2>4, <2>6, <2>7
<1>5. ASSUME GetSource PROVE LinkHeads'
  <2>1. dec' = DecGetSource(dec) /\ DecHasSource(dec) /\ air' = air
    BY <1>5 DEF GetSource
  <2>2. SinkOk(dec) /\ DecRest(dec)
    BY <1>0 DEF DecOk
  <2>3. SinkOk(dec') /\ SinkSame(dec', dec)
    BY <2>1, <2>2, DecGetSourceOk
  <2>4. DecRest(dec') /\ dec'.seq = dec.seq
    BY <2>2, <2>3, DecRestSame
  <2>5. DecOk(dec')
    BY <2>3, <2>4 DEF DecOk
  <2> QED
    BY <1>3, <2>1, <2>4, <2>5
<1>6. ASSUME SendFeedback PROVE LinkHeads'
  <2> DEFINE pkt == DecFeedback(dec)
  <2>1. /\ dec' = DecGetFeedback(dec) /\ AnswerHop \in Hops
        /\ air' = [air EXCEPT ![AnswerHop] = Append(air[AnswerHop], pkt)]
    BY <1>6 DEF SendFeedback, Sends, AnswerHop, Hops
  <2>2. AnswerOk(pkt) /\ pkt.seq = dec.seq
    BY <1>0, DecAnswers
  <2>3. DecOk(dec') /\ dec'.seq = dec.seq
    BY <1>0, <2>1, DecFeedbackOk
  <2> HIDE DEF pkt
  <2>4. \A h \in Hops :
          InAir(air', h) \subseteq InAir(air, h) \cup (IF h = AnswerHop THEN {pkt} ELSE {})
    BY <1>0, <2>1, InAirSent
  <2>5. /\ InAir(air', "coded") \subseteq InAir(air, "coded")
        /\ InAir(air', "recoded") \subseteq InAir(air, "recoded")
    BY <2>4 DEF Hops, AnswerHop
  <2>6. \A m \in InAir(air', "answers") :
          m \in InAir(air, "answers") \/ (AnswerOk(m) /\ m.seq <= rec.seq)
    <3>1. CASE opt.relay
      <4>1. InAir(air', "answers") \subseteq InAir(air, "answers") \cup {pkt}
        BY <2>4 DEF Hops
      <4>2. AnswerOk(pkt) /\ pkt.seq <= rec.seq
        BY <1>0, <2>2, <3>1
      <4> QED
        BY <4>1, <4>2
    <3>2. CASE ~opt.relay
      <4>1. InAir(air', "answers") \subseteq InAir(air, "answers")
        BY <2>4, <3>2 DEF Hops, AnswerHop
      <4> QED
        BY <4>1
    <3> QED
      BY <3>1, <3>2
  <2>7. (opt.relay => dec'.seq <= rec.seq) /\ Behind(dec'.seq, enc)
    BY <1>0, <2>3
  <2> QED
    BY <1>2, <2>3, <2>5, <2>6, <2>7
<1>7. ASSUME ExpireDecoder \/ ExpireFeedback PROVE LinkHeads'
  <2>1. dec' \in {DecTimeout(dec), DecFbTimeout(dec)} /\ air' = air
    BY <1>7 DEF ExpireDecoder, ExpireFeedback
  <2>2. DecOk(dec') /\ dec'.seq = dec.seq
    BY <1>0, <2>1, DecTimeoutOk
  <2> QED
    BY <1>3, <2>1, <2>2
<1> QED
  BY <1>4, <1>5, <1>6, <1>7

LEMMA LoseHeads ==
  ASSUME LinkHeads, Lose
  PROVE  LinkHeads'
<1>0. /\ opt \in Options /\ LinkNumbers /\ HeadsOk(enc, rec, dec, air)
      /\ AirOk(air) /\ RecOk(rec) /\ DecOk(dec)
      /\ rec.seq \in Nat /\ enc[1].seq \in Nat
      /\ opt.relay => dec.seq <= rec.seq
      /\ Behind(rec.seq, enc) /\ Behind(dec.seq, enc)
  BY HeadsFacts
<1>1. LinkNumbers' /\ opt' = opt /\ enc' = enc /\ rec' = rec /\ dec' = dec
  BY <1>0, LoseNumbers DEF Lose
<1>2. \A h \in Hops : InAir(air', h) \subseteq InAir(air, h)
  <2>1. PICK hop \in Hops : \E i \in Heads(hop) :
          air' = [air EXCEPT ![hop] = RemoveAt(air[hop], i)]
    BY DEF Lose
  <2>2. PICK i \in DOMAIN air[hop] : air' = [air EXCEPT ![hop] = RemoveAt(air[hop], i)]
    BY <2>1 DEF Heads
  <2> QED
    BY <1>0, <2>2, InAirRemoved
<1>3. /\ InAir(air', "coded") \subseteq InAir(air, "coded")
      /\ InAir(air', "recoded") \subseteq InAir(air, "recoded")
      /\ InAir(air', "answers") \subseteq InAir(air, "answers")
  BY <1>2 DEF Hops
<1>4. /\ RecOk(rec') /\ rec'.seq >= rec.seq /\ enc'[1].seq >= enc[1].seq /\ DecOk(dec')
      /\ Behind(rec'.seq, enc') /\ Behind(dec'.seq, enc')
  BY <1>0, <1>1
<1>5. opt.relay => dec'.seq <= rec'.seq
  BY <1>0, <1>1
<1> QED
  BY <1>0, <1>1, <1>3, <1>4, <1>5, HeadsStep

LEMMA HeadsInvariant ==
  (\A o \in Options : Plain(o)) => (Spec => []LinkHeads)
<1> SUFFICES ASSUME \A o \in Options : Plain(o) PROVE Spec => []LinkHeads
  OBVIOUS
<1>1. ASSUME LinkHeads, [Next]_vars PROVE LinkHeads'
  <2>1. opt \in Options /\ Plain(opt)
    BY <1>1, HeadsFacts
  <2>2. CASE UNCHANGED vars
    <3>1. opt' = opt /\ enc' = enc /\ rec' = rec /\ dec' = dec /\ air' = air
      BY <2>2 DEF vars
    <3>2. LinkNumbers'
      BY <1>1, <3>1 DEF LinkHeads, LinkNumbers, EncsOk, Flows, AirOk, Hops
    <3>3. HeadsOk(enc, rec, dec, air)'
      BY <1>1, <3>1 DEF LinkHeads, HeadsOk, DecOk, DecRest, Behind
    <3> QED
      BY <3>2, <3>3 DEF LinkHeads
  <2>3. CASE Next
    <3>1. ASSUME NEW f \in Flows,
                 PutSource(f) \/ Transmit(f) \/ FlushCoded(f) \/ ExpireEncoder(f)
          PROVE  LinkHeads'
      BY <1>1, <2>1, <3>1, SenderHeads
    <3>2. ASSUME NEW i, ReceiveFeedback(i) \/ RelayHears(i) PROVE LinkHeads'
      BY <1>1, <2>1, <3>2, FeedbackHeads
    <3> QED
      BY <1>1, <2>1, <2>3, <3>1, <3>2, RelayHeads, SinkHeads, LoseHeads DEF Next
  <2> QED
    BY <1>1, <2>2, <2>3
<1> QED
  <2>1. Init => LinkHeads
    BY InitHeads DEF Init
  <2> QED
    BY <1>1, <2>1, PTL DEF Spec


(* Whatever is lost, repeated or reordered, directly or over a recoder,    *)
(* with one flow or several: the state of every coder keeps its type.  In  *)
(* particular no counter of the rate control, credit or phase, and no slot *)
(* or number of the ring or of kodo's window leaves its range.  The packets *)
(* carry something (~zero), the decoder hears the recoder only             *)
(* (~overheard), lost symbols are sent again as they are, and no consumer  *)
(* at the recoder reads in the callback: with one the recoder queues what  *)
(* was taken (RecQueueLost, and the run on EagerRelay).                    *)
THEOREM SwTypeCorrect ==
  (\A o \in Options : Plain(o)) => (Spec => []TypeOK)
<1> SUFFICES ASSUME \A o \in Options : Plain(o) PROVE Spec => []TypeOK
  OBVIOUS
<1>1. ASSUME LinkHeads PROVE TypeOK
  <2>1. EncsOk(enc) /\ RecOk(rec) /\ DecOk(dec)
    BY <1>1, HeadsFacts
  <2>2. \A f \in Flows : EncTyped(enc[f])
    BY <2>1, EncOkFacts DEF EncsOk
  <2> QED
    BY <2>1, <2>2, OkTyped DEF TypeOK
<1> QED
  BY <1>1, HeadsInvariant, PTL

(* Under the same conditions: the decoder's and the recoder's ring agree   *)
(* with kodo on which symbol is in which slot, however far the window has  *)
(* jumped; a cached has_source is true only if there is a symbol to read   *)
(* and it is decoded; and no assertion of the decoder fails.               *)
THEOREM SwHeadIsReady ==
  (\A o \in Options : Plain(o)) => (Spec => []HeadIsReady)
<1> SUFFICES ASSUME \A o \in Options : Plain(o) PROVE Spec => []HeadIsReady
  OBVIOUS
<1>1. ASSUME LinkHeads PROVE HeadIsReady
  <2>1. RecOk(rec) /\ DecOk(dec)
    BY <1>1, HeadsFacts
  <2> QED
    BY <2>1, OkTyped DEF HeadIsReady
<1> QED
  BY <1>1, HeadsInvariant, PTL

(* Under the same conditions, for a single flow: what the application is   *)
(* handed, at the decoder and at the recoder, was put in, and no symbol    *)
(* comes twice or after a later one, whatever is skipped, flushed, queued  *)
(* or given up on the way.                                                 *)
THEOREM SwReadInOrder ==
  (\A o \in Options : Plain(o) /\ o.nodes <= 1) => (Spec => []ReadInOrder)
<1> SUFFICES ASSUME \A o \in Options : Plain(o) /\ o.nodes <= 1 PROVE Spec => []ReadInOrder
  OBVIOUS
<1>1. ASSUME LinkHeads PROVE ReadInOrder
  <2>1. /\ opt \in Options /\ EncsOk(enc) /\ RecOk(rec) /\ DecOk(dec)
        /\ rec.seq \in Nat /\ dec.seq \in Nat /\ enc[1].seq \in Nat
        /\ Behind(rec.seq, enc) /\ Behind(dec.seq, enc)
    BY <1>1, HeadsFacts
  <2>2. opt.nodes \in {0, 1} /\ Flows = {1}
    <3>1. opt.nodes <= 1 /\ opt.nodes \in Nat
      BY <2>1, OptionsAssumption DEF ValidOptions, ValidEnds
    <3> QED
      BY <2>1, <3>1, FirstFlow
  <2>3. dec.seq <= enc[1].seq /\ rec.seq <= enc[1].seq
    BY <2>1, <2>2 DEF Behind
  <2>4. /\ Ups(dec.read) /\ \A n \in DOMAIN dec.read : dec.read[n] \in 0 .. dec.seq - 1
        /\ Ups(rec.read) /\ \A n \in DOMAIN rec.read : rec.read[n] \in 0 .. rec.seq - 1
    BY <2>1, SinkOkSays DEF DecOk, RecOk
  <2>5. /\ Ascending(dec.read, 0 .. enc[1].seq - 1)
        /\ Ascending(rec.read, 0 .. enc[1].seq - 1)
    <3>1. \A n \in DOMAIN dec.read : dec.read[n] \in 0 .. enc[1].seq - 1
      BY <2>1, <2>3, <2>4
    <3>2. \A n \in DOMAIN rec.read : rec.read[n] \in 0 .. enc[1].seq - 1
      BY <2>1, <2>3, <2>4
    <3> QED
      BY <2>4, <3>1, <3>2 DEF Ascending, Ups
  <2>6. {Global(1, s) : s \in 0 .. enc[1].seq - 1} = 0 .. enc[1].seq - 1
    <3>1. \A s \in Int : Global(1, s) = s
      BY <2>2 DEF Global
    <3>2. 0 .. enc[1].seq - 1 \subseteq Int
      OBVIOUS
    <3> DEFINE T == 0 .. enc[1].seq - 1
    <3> HIDE DEF T
    <3>3. {Global(1, s) : s \in T} = T
      BY <3>1, <3>2 DEF T
    <3> QED
      BY <3>3 DEF T
  <2>7. ReadOf(1) = dec.read
    BY <2>2 DEF ReadOf
  <2>8. \A f \in Flows : Ascending(ReadOf(f), {Global(f, s) : s \in 0 .. enc[f].seq - 1})
    BY <2>2, <2>5, <2>6, <2>7
  <2> QED
    BY <2>5, <2>8 DEF ReadInOrder
<1>2. \A o \in Options : Plain(o)
  OBVIOUS
<1> QED
  BY <1>1, <1>2, HeadsInvariant, PTL

-----------------------------------------------------------------------------
(* What a report frees.  The loop of put_feedback leaves the first missing *)
(* symbol alone, and takes the attempts of a slot away only if the report  *)
(* covers its symbol and does not call it missing.                         *)
EncFreed(n, e, fb) ==
  /\ n.first_missing = e.first_missing
  /\ n.flush_attempts \in {e.flush_attempts, opt.tx - 1}
  /\ \A i \in Slots :
       \/ n.tx_attempts[i] = e.tx_attempts[i]
       \/ /\ i \notin fb.missing
          /\ \E s \in e.seq - EncRank(e) .. fb.seq - 1 : i = Slot(s)

LEMMA EncAckedFrees ==
  ASSUME NEW seq, NEW acc, AccOk(acc, seq), NEW i \in Slots
  PROVE  LET n == EncAcked(acc, i).e
         IN /\ n.first_missing = acc.e.first_missing
            /\ n.flush_attempts = acc.e.flush_attempts
            /\ \A j \in Slots : n.tx_attempts[j] = IF j = i THEN 0 ELSE acc.e.tx_attempts[j]
<1> DEFINE e == acc.e
           n == EncAcked(acc, i).e
<1>0. EncShape(e) /\ EncParts(e)
  BY DEF AccOk, EncOk
<1>1. n = [e EXCEPT
          !.enabled = @ \ {i},
          !.systematic = @ \ {i},
          !.tx_attempts[i] = 0,
          !.source_symbols = IF i \in e.systematic THEN @ - 1 ELSE @,
          !.rc = IF i \notin e.systematic /\ e.systematic_time[i] > e.packet_count
                 THEN EncTakeBack(@) ELSE @,
          !.failed = \/ @
                     \/ i \in e.systematic /\ e.source_symbols = 0
                     \/ /\ i \notin e.systematic
                        /\ e.systematic_time[i] > e.packet_count
                        /\ ~(IsDual(e.rc) /\ e.rc.repair_counter > 0)]
  BY DEF EncAcked, AccOk, AccFields
<1>2. /\ n.first_missing = e.first_missing /\ n.flush_attempts = e.flush_attempts
      /\ n.tx_attempts = [e.tx_attempts EXCEPT ![i] = 0]
  BY <1>0, <1>1 DEF EncShape, EncFields
<1>3. e.tx_attempts \in [Slots -> 0 .. Unlimited]
  BY <1>0 DEF EncParts
<1> HIDE DEF n, e
<1>4. \A j \in Slots : n.tx_attempts[j] = IF j = i THEN 0 ELSE e.tx_attempts[j]
  BY <1>2, <1>3
<1> QED
  BY <1>2, <1>4 DEF n, e

LEMMA EncMissingFrees ==
  ASSUME ~opt.coded_retrans, NEW seq, NEW acc, AccOk(acc, seq), NEW i \in Slots, NEW fb
  PROVE  LET n == EncMissing(acc, fb, i).e
         IN /\ n.first_missing = acc.e.first_missing
            /\ n.flush_attempts \in {acc.e.flush_attempts, opt.tx - 1}
            /\ n.tx_attempts = acc.e.tx_attempts
<1> DEFINE lost == [acc EXCEPT !.losses = @ + 1]
           flight == EncInFlight(acc, fb, i)
           counted == [lost EXCEPT !.used = @ \cup {CHOOSE k \in flight : \A j \in flight : k <= j}]
           e == acc.e
           up == [e EXCEPT !.enabled = @ \cup {i}]
           again == [up EXCEPT !.systematic = @ \cup {i},
                               !.source_symbols = @ + 1,
                               !.rc = Insert(@, TRUE),
                               !.flush_attempts = opt.tx - 1]
<1>0. EncShape(e) /\ DOMAIN acc = AccFields
  BY DEF AccOk, EncOk
<1>1. lost.e = e /\ counted.e = e /\ DOMAIN lost = AccFields
  BY <1>0 DEF AccFields
<1>2. /\ up.first_missing = e.first_missing /\ up.flush_attempts = e.flush_attempts
      /\ up.tx_attempts = e.tx_attempts
  BY <1>0 DEF EncShape, EncFields
<1>3. /\ again.first_missing = e.first_missing /\ again.flush_attempts = opt.tx - 1
      /\ again.tx_attempts = e.tx_attempts
  BY <1>0 DEF EncShape, EncFields
<1>4. EncResend(lost, i).e \in {up, again}
  <2>1. EncResend(lost, i) = IF i \in e.systematic THEN [lost EXCEPT !.e = up]
                             ELSE [lost EXCEPT !.resend = @ + 1, !.e = again]
    BY <1>1 DEF EncResend
  <2> HIDE DEF lost, up, again
  <2> QED
    BY <1>1, <2>1 DEF AccFields
<1>5. EncMissing(acc, fb, i) \in {lost, counted, EncResend(lost, i)}
  BY DEF EncMissing
<1> HIDE DEF lost, counted, up, again, e
<1>6. EncMissing(acc, fb, i).e \in {e, up, again}
  BY <1>1, <1>4, <1>5
<1> QED
  BY <1>2, <1>3, <1>6 DEF e

(* The loop stays in a set that holds its start and is closed under what   *)
(* it does with a slot.                                                    *)
LEMMA EncAnswerIn ==
  ASSUME NEW e, e.seq \in Nat, NEW fb, fb.seq \in Int, EncSeqnoValid(e, fb), NEW T,
         [e |-> e, losses |-> 0, resend |-> 0, used |-> {}] \in T,
         \A acc \in T : \A s \in e.seq - EncRank(e) .. fb.seq - 1 :
           (IF Slot(s) \in fb.missing THEN EncMissing(acc, fb, Slot(s))
            ELSE EncAcked(acc, Slot(s))) \in T
  PROVE  EncAnswer(e, fb) \in T
<1> DEFINE oldest == e.seq - EncRank(e)
           K == fb.seq - oldest
           slots == [k \in 1 .. K |-> Slot(oldest + k - 1)]
           read(acc, i) == IF i \in fb.missing THEN EncMissing(acc, fb, i) ELSE EncAcked(acc, i)
           base == [e |-> e, losses |-> 0, resend |-> 0, used |-> {}]
           st == [x \in (1 .. K) \X T |-> read(x[2], slots[x[1]])]
           Rec(g) == [s \in SUBSET (1 .. K) |->
                       IF s = {} THEN base ELSE read(g[s \ {Max(s)}], slots[Max(s)])]
           it == CHOOSE g : g = Rec(g)
<1>1. e.seq \in Nat
  OBVIOUS
<1>2. oldest \in Nat /\ K \in Nat
  <2>1. EncRank(e) \in Int /\ oldest \in Nat
    BY <1>1, EncRankType
  <2> QED
    BY <1>1, <2>1 DEF EncSeqnoValid
<1>3. base \in T
  OBVIOUS
<1>5. \A acc \in T : \A k \in 1 .. K : read(acc, slots[k]) \in T
  <2> SUFFICES ASSUME NEW acc \in T, NEW k \in 1 .. K
               PROVE  read(acc, slots[k]) \in T
    OBVIOUS
  <2>1. oldest + k - 1 \in oldest .. fb.seq - 1
    BY <1>2
  <2>2. slots[k] = Slot(oldest + k - 1)
    OBVIOUS
  <2>3. read(acc, Slot(oldest + k - 1)) \in T
    BY <2>1
  <2> HIDE DEF slots, oldest, K
  <2> QED
    BY <2>2, <2>3
<1>6. st \in [(1 .. K) \X T -> T]
  <2> HIDE DEF read, slots, K
  <2> QED
    BY <1>5
<1>7. PICK g \in [SUBSET (1 .. K) -> T] : Folds(g, K, base, st)
  <2> HIDE DEF st, K, base, read, slots, Rec, it
  <2> QED
    BY <1>2, <1>3, <1>6, FoldExists
<1>8. g = Rec(g)
  <2> HIDE DEF read, slots, base, K
  <2>1. ASSUME NEW s \in SUBSET (1 .. K)
        PROVE  g[s] = IF s = {} THEN base ELSE read(g[s \ {Max(s)}], slots[Max(s)])
    <3>1. CASE s = {}
      BY <3>1, <1>7 DEF Folds
    <3>2. CASE s # {}
      <4>1. Max(s) \in 1 .. K /\ s \ {Max(s)} \in SUBSET (1 .. K)
        BY <1>2, <3>2, MaxOf
      <4>2. g[s \ {Max(s)}] \in T
        BY <4>1
      <4>3. st[<<Max(s), g[s \ {Max(s)}]>>] = read(g[s \ {Max(s)}], slots[Max(s)])
        BY <4>1, <4>2
      <4> QED
        BY <3>2, <1>7, <4>3 DEF Folds
    <3> QED
      BY <3>1, <3>2
  <2> QED
    BY <2>1
<1>9. it = Rec(it)
  <2> HIDE DEF Rec
  <2> QED
    BY <1>8
<1>10. EncAnswer(e, fb) = it[1 .. K]
  <2>1. DOMAIN slots = 1 .. K
    OBVIOUS
  <2> QED
    BY <2>1 DEF EncAnswer, FoldLeft, MapThenFoldSet
<1>11. it[{}] \in T
  <2>1. {} \in SUBSET (1 .. K)
    OBVIOUS
  <2> HIDE DEF it, read, slots, K, base
  <2> QED
    BY <1>9, <1>3, <2>1
<1>12. ASSUME NEW s \in SUBSET (1 .. K), s # {}, it[s \ {Max(s)}] \in T PROVE it[s] \in T
  <2>1. Max(s) \in 1 .. K
    <3> HIDE DEF K
    <3> QED
      BY <1>2, <1>12, MaxOf
  <2>2. it[s] = read(it[s \ {Max(s)}], slots[Max(s)])
    <3> HIDE DEF it, read, slots, K
    <3> QED
      BY <1>9, <1>12
  <2> HIDE DEF it, read, slots, K
  <2> QED
    BY <1>12, <2>1, <2>2, <1>5
<1>13. it[1 .. K] \in T
  <2> HIDE DEF it, read, slots, K
  <2> QED
    BY <1>11, <1>12, <1>2, FoldTyped
<1> QED
  BY <1>10, <1>13

LEMMA EncAnswerFrees ==
  ASSUME opt \in Options, ~opt.coded_retrans,
         NEW e, EncOk(e), NEW fb, fb.seq \in Int, EncSeqnoValid(e, fb)
  PROVE  EncFreed(EncAnswer(e, fb).e, e, fb)
<1> DEFINE T == {acc \in AccSet(e.seq) : EncFreed(acc.e, e, fb)}
           base == [e |-> e, losses |-> 0, resend |-> 0, used |-> {}]
           range == e.seq - EncRank(e) .. fb.seq - 1
<1>0. e.seq \in Nat /\ range \subseteq Int
  <2>1. e.seq \in Nat
    BY DEF EncOk, EncParts
  <2> QED
    BY <2>1, EncRankType
<1>1. \A acc : acc \in T <=> AccOk(acc, e.seq) /\ EncFreed(acc.e, e, fb)
  BY AccMember
<1> HIDE DEF T
<1>2. base \in T
  <2>1. AccOk(base, e.seq) /\ base.e = e
    BY DEF AccOk, AccFields
  <2> HIDE DEF base
  <2>2. EncFreed(e, e, fb)
    BY DEF EncFreed
  <2> QED
    BY <1>1, <2>1, <2>2
<1>3. ASSUME NEW acc \in T, NEW s \in range, Slot(s) \in fb.missing
      PROVE  EncMissing(acc, fb, Slot(s)) \in T
  <2> DEFINE m == EncMissing(acc, fb, Slot(s))
  <2>1. AccOk(acc, e.seq) /\ EncFreed(acc.e, e, fb) /\ Slot(s) \in Slots
    BY <1>0, <1>1, SlotType
  <2>2. AccOk(m, e.seq)
    BY <2>1, EncMissingOk
  <2>3. /\ m.e.first_missing = acc.e.first_missing
        /\ m.e.flush_attempts \in {acc.e.flush_attempts, opt.tx - 1}
        /\ m.e.tx_attempts = acc.e.tx_attempts
    BY <2>1, EncMissingFrees
  <2> HIDE DEF m
  <2>4. EncFreed(m.e, e, fb)
    BY <2>1, <2>3 DEF EncFreed
  <2> QED
    BY <1>1, <2>2, <2>4 DEF m
<1>4. ASSUME NEW acc \in T, NEW s \in range, Slot(s) \notin fb.missing
      PROVE  EncAcked(acc, Slot(s)) \in T
  <2> DEFINE m == EncAcked(acc, Slot(s))
  <2>1. AccOk(acc, e.seq) /\ EncFreed(acc.e, e, fb) /\ Slot(s) \in Slots
    BY <1>0, <1>1, SlotType
  <2>2. AccOk(m, e.seq)
    BY <2>1, EncAckedOk
  <2>3. /\ m.e.first_missing = acc.e.first_missing
        /\ m.e.flush_attempts = acc.e.flush_attempts
        /\ \A j \in Slots : m.e.tx_attempts[j] = IF j = Slot(s) THEN 0 ELSE acc.e.tx_attempts[j]
    BY <2>1, EncAckedFrees
  <2> HIDE DEF m
  <2>4. EncFreed(m.e, e, fb)
    BY <1>4, <2>1, <2>3 DEF EncFreed
  <2> QED
    BY <1>1, <2>2, <2>4 DEF m
<1>5. \A acc \in T : \A s \in range :
        (IF Slot(s) \in fb.missing THEN EncMissing(acc, fb, Slot(s))
         ELSE EncAcked(acc, Slot(s))) \in T
  BY <1>3, <1>4
<1>6. EncAnswer(e, fb) \in T
  BY <1>0, <1>2, <1>5, EncAnswerIn
<1> QED
  BY <1>1, <1>6

-----------------------------------------------------------------------------
(* What the decoder has of a symbol: it was passed on or a row has it as   *)
(* its pivot; it was passed on or is decoded.  Neither is ever lost.       *)
Low(d) == Ring!RbReadSeqno(d.rb)

Seen(d, s) == s < Low(d) \/ s \in Pivots(d.span)

Ready(d, s) == s < Low(d) \/ {s} \in d.span

Grown(n, d) ==
  \A s \in Int : (Seen(d, s) => Seen(n, s)) /\ (Ready(d, s) => Ready(n, s))

(* A report is honest if all it does not call missing is with the decoder. *)
Honest(m, d) ==
  /\ \A s \in 0 .. m.seq - 1 : Slot(s) \notin m.missing => Seen(d, s)
  /\ \A s \in 0 .. m.first_missing - 1 : Ready(d, s)

(* What an encoder with unlimited attempts knows of the decoder: a slot of *)
(* its window that has no attempts left was seen there, all before the     *)
(* first missing symbol is decoded there, and the window does not go past  *)
(* it.  It never runs out of flushes, which would free all its slots.      *)
EncTold(e, d) ==
  opt.tx = Unlimited =>
    /\ e.seq > 0 => e.flush_attempts = Unlimited - 1
    /\ \A s \in WindowOf(e.seq) : s >= 0 /\ e.tx_attempts[Slot(s)] = 0 => Seen(d, s)
    /\ \A s \in 0 .. e.first_missing - 1 : Ready(d, s)
    /\ e.seq - e.first_missing <= Symbols

LEMMA ToldGrows ==
  ASSUME NEW n, NEW d, Grown(n, d)
  PROVE  /\ \A m : Honest(m, d) => Honest(m, n)
         /\ \A e : e.seq \in Nat /\ EncTold(e, d) => EncTold(e, n)
<1>1. ASSUME NEW m, Honest(m, d) PROVE Honest(m, n)
  BY <1>1 DEF Honest, Grown
<1>2. ASSUME NEW e, e.seq \in Nat, EncTold(e, d) PROVE EncTold(e, n)
  <2>1. WindowOf(e.seq) \subseteq Int /\ 0 .. e.first_missing - 1 \subseteq Int
    BY DEF WindowOf
  <2> QED
    BY <1>2, <2>1 DEF EncTold, Grown
<1> QED
  BY <1>1, <1>2

LEMMA EncToldSame ==
  ASSUME NEW d, NEW e, EncTold(e, d), NEW n, n.seq = e.seq,
         n.first_missing = e.first_missing,
         opt.tx = Unlimited => /\ n.flush_attempts \in {e.flush_attempts, opt.tx - 1}
                               /\ n.tx_attempts = e.tx_attempts
  PROVE  EncTold(n, d)
<1> SUFFICES ASSUME opt.tx = Unlimited
             PROVE  /\ n.seq > 0 => n.flush_attempts = Unlimited - 1
                    /\ \A s \in WindowOf(n.seq) : s >= 0 /\ n.tx_attempts[Slot(s)] = 0 => Seen(d, s)
                    /\ \A s \in 0 .. n.first_missing - 1 : Ready(d, s)
                    /\ n.seq - n.first_missing <= Symbols
  BY DEF EncTold
<1> QED
  BY DEF EncTold

(* A full encoder is not given a symbol: the window does not move past the *)
(* first missing one, and the next slot gets all its attempts.             *)
LEMMA EncPutSourceTold ==
  ASSUME opt \in Options, NEW d, NEW e, EncOk(e), EncTold(e, d), ~EncFull(e)
  PROVE  EncTold(EncPutSource(e), d)
<1> DEFINE n == EncPutSource(e)
           i == EncIndex(e)
<1>0. EncShape(e) /\ EncParts(e) /\ e.seq \in Nat /\ e.first_missing \in Nat
  BY DEF EncOk, EncParts
<1>1. i = Slot(e.seq) /\ i \in Slots
  BY <1>0, SlotType DEF EncIndex
<1>2. /\ n.seq = e.seq + 1 /\ n.first_missing = e.first_missing
      /\ n.flush_attempts = opt.tx - 1
      /\ n.tx_attempts = [e.tx_attempts EXCEPT ![i] = opt.tx]
  BY <1>0 DEF EncShape, EncFields, EncPutSource
<1>3. e.tx_attempts \in [Slots -> 0 .. Unlimited]
  BY <1>0 DEF EncParts
<1> HIDE DEF n, i
<1>4. SUFFICES ASSUME opt.tx = Unlimited
               PROVE  /\ n.seq > 0 => n.flush_attempts = Unlimited - 1
                      /\ \A s \in WindowOf(n.seq) : s >= 0 /\ n.tx_attempts[Slot(s)] = 0 => Seen(d, s)
                      /\ \A s \in 0 .. n.first_missing - 1 : Ready(d, s)
                      /\ n.seq - n.first_missing <= Symbols
  BY DEF EncTold, n
<1>5. ASSUME NEW s \in WindowOf(n.seq), s >= 0, n.tx_attempts[Slot(s)] = 0
      PROVE  Seen(d, s)
  <2>1. s \in Int /\ s <= e.seq /\ s >= e.seq + 1 - Symbols
    BY <1>0, <1>2, SymbolsAssumption DEF WindowOf
  <2>2. s # e.seq
    BY <1>1, <1>2, <1>3, <1>4, <1>5 DEF Unlimited
  <2>3. s \in WindowOf(e.seq) /\ e.seq - s < Symbols /\ s - e.seq < Symbols
    BY <1>0, <2>1, <2>2, SymbolsAssumption DEF WindowOf
  <2>4. Slot(s) # i /\ Slot(s) \in Slots
    BY <1>0, <1>1, <2>1, <2>2, <2>3, ModApart, SlotType, SymbolsAssumption DEF Slot
  <2>5. e.tx_attempts[Slot(s)] = 0
    BY <1>2, <1>3, <1>5, <2>4
  <2> QED
    BY <1>4, <1>5, <2>3, <2>5 DEF EncTold
<1>6. n.seq - n.first_missing <= Symbols
  <2>1. opt.period \in Nat /\ (opt.period = 0 => opt.tx = 1)
    BY OptionsAssumption DEF ValidOptions, ValidEnds
  <2>2. opt.period > 0
    BY <1>4, <2>1 DEF Unlimited
  <2>3. e.seq - e.first_missing # Symbols
    BY <1>4, <2>2 DEF EncFull
  <2>4. e.seq - e.first_missing <= Symbols
    BY <1>4 DEF EncTold
  <2> QED
    BY <1>0, <1>2, <2>3, <2>4, SymbolsAssumption
<1> QED
  BY <1>2, <1>4, <1>5, <1>6 DEF EncTold

LEMMA EncGetCodedTold ==
  ASSUME NEW d, NEW e, EncOk(e), EncTold(e, d)
  PROVE  EncTold(EncGetCoded(e), d)
<1> DEFINE no == e.packet_count + 1
           took == [e EXCEPT !.packet_count = no, !.rc = Step(@), !.flush_next = FALSE]
           rep == EncSendRepair(took, no)
           sys == EncSendSystematic(took, no)
           sent == IF EncRepairNext(e) THEN rep ELSE sys
           n == EncGetCoded(e)
<1>0. EncShape(e) /\ e.tx_attempts \in [Slots -> 0 .. Unlimited]
  BY DEF EncOk, EncParts
<1>1. /\ EncShape(took) /\ took.seq = e.seq /\ took.first_missing = e.first_missing
      /\ took.flush_attempts = e.flush_attempts /\ took.tx_attempts = e.tx_attempts
  BY <1>0 DEF EncShape, EncFields
<1>2. n = [sent EXCEPT !.timer = @ \/ (opt.enc_timeout /\ ~EncHasCoded(sent))]
  BY DEF EncGetCoded
<1> HIDE DEF took, no, n
<1>3. /\ DOMAIN rep = EncFields /\ rep.seq = e.seq /\ rep.first_missing = e.first_missing
      /\ rep.flush_attempts = e.flush_attempts /\ rep.tx_attempts = e.tx_attempts
  BY <1>1 DEF EncShape, EncFields, EncSendRepair
<1>4. /\ DOMAIN sys = EncFields /\ sys.seq = e.seq /\ sys.first_missing = e.first_missing
      /\ sys.flush_attempts = e.flush_attempts
      /\ opt.tx = Unlimited => sys.tx_attempts = e.tx_attempts
  <2>1. CASE took.systematic = {}
    BY <1>1, <2>1 DEF EncShape, EncFields, EncSendSystematic
  <2>2. CASE took.systematic # {}
    <3> DEFINE i == EncNextSystematic(took)
    <3>0. i = EncNextSystematic(took) /\ sys = EncSendSystematic(took, no)
      OBVIOUS
    <3> HIDE DEF sys, i
    <3>1. /\ DOMAIN sys = EncFields
          /\ \A x \in EncFields \ {"systematic", "source_symbols", "systematic_time",
                                   "coded_time", "tx_attempts", "failed"} : sys[x] = took[x]
          /\ sys.systematic = took.systematic \ {i}
          /\ sys.source_symbols = took.source_symbols - 1
          /\ sys.systematic_time = [took.systematic_time EXCEPT ![i] = no]
          /\ sys.coded_time = [took.coded_time EXCEPT ![i] = no]
          /\ sys.tx_attempts = [took.tx_attempts EXCEPT ![i] =
                                  IF opt.tx = Unlimited THEN @ ELSE @ - 1]
          /\ sys.failed = (took.failed \/ took.tx_attempts[i] = 0)
      <4>1. EncShape(took)
        BY <1>1
      <4> QED
        BY <2>2, <3>0, <4>1, SentFields
    <3>2. sys.seq = e.seq /\ sys.first_missing = e.first_missing
          /\ sys.flush_attempts = e.flush_attempts
      BY <1>1, <3>1 DEF EncFields
    <3>3. opt.tx = Unlimited => sys.tx_attempts = e.tx_attempts
      BY <1>0, <1>1, <3>1
    <3> QED
      BY <3>1, <3>2, <3>3
  <2> QED
    BY <2>1, <2>2
<1> HIDE DEF rep, sys
<1>5. /\ DOMAIN sent = EncFields /\ sent.seq = e.seq /\ sent.first_missing = e.first_missing
      /\ sent.flush_attempts = e.flush_attempts
      /\ opt.tx = Unlimited => sent.tx_attempts = e.tx_attempts
  BY <1>3, <1>4
<1> HIDE DEF sent
<1>6. /\ n.seq = e.seq /\ n.first_missing = e.first_missing
      /\ n.flush_attempts = e.flush_attempts
      /\ opt.tx = Unlimited => n.tx_attempts = e.tx_attempts
  BY <1>2, <1>5 DEF EncFields
<1> QED
  BY <1>6, EncToldSame DEF n

(* A flush frees the slots only when its attempts are used up, which they  *)
(* never are.                                                              *)
LEMMA EncFlushCodedTold ==
  ASSUME NEW d, NEW e, EncOk(e), EncTold(e, d)
  PROVE  EncTold(EncFlushCoded(e), d)
<1> DEFINE go == [e EXCEPT !.flush_attempts = IF opt.tx = Unlimited THEN @ ELSE @ - 1,
                           !.flush_next = TRUE]
           again == EncSendNewestAgain(go)
           reset == [go EXCEPT !.rc = ResetRepair(@)]
           n == EncFlushCoded(e)
<1>0. EncShape(e) /\ e.seq \in Nat
  BY DEF EncOk, EncParts
<1>1. /\ EncShape(go) /\ go.seq = e.seq /\ go.first_missing = e.first_missing
      /\ go.tx_attempts = e.tx_attempts
      /\ opt.tx = Unlimited => go.flush_attempts = e.flush_attempts
  BY <1>0 DEF EncShape, EncFields
<1>2. \/ n = e \/ n = go \/ n = again \/ n = reset
      \/ EncRank(e) # 0 /\ e.flush_attempts = 0
  BY DEF EncFlushCoded
<1> HIDE DEF go, n
<1>3. /\ again.seq = e.seq /\ again.first_missing = e.first_missing
      /\ again.tx_attempts = e.tx_attempts
      /\ opt.tx = Unlimited => again.flush_attempts = e.flush_attempts
  BY <1>1 DEF EncShape, EncFields, EncSendNewestAgain
<1>4. /\ reset.seq = e.seq /\ reset.first_missing = e.first_missing
      /\ reset.tx_attempts = e.tx_attempts
      /\ opt.tx = Unlimited => reset.flush_attempts = e.flush_attempts
  BY <1>1 DEF EncShape, EncFields
<1> HIDE DEF again, reset
<1>5. CASE opt.tx # Unlimited
  BY <1>5 DEF EncTold, n
<1>6. CASE opt.tx = Unlimited
  <2>1. ~(EncRank(e) # 0 /\ e.flush_attempts = 0)
    <3>1. EncRank(e) # 0 => e.seq > 0
      BY <1>0, SymbolsAssumption DEF EncRank
    <3> QED
      BY <1>6, <3>1 DEF EncTold, Unlimited
  <2>2. /\ n.seq = e.seq /\ n.first_missing = e.first_missing
        /\ n.tx_attempts = e.tx_attempts /\ n.flush_attempts = e.flush_attempts
    BY <1>1, <1>2, <1>3, <1>4, <1>6, <2>1
  <2> QED
    BY <2>2, EncToldSame DEF n
<1> QED
  BY <1>5, <1>6

LEMMA EncTimeoutTold ==
  ASSUME NEW d, NEW e, EncOk(e), EncTold(e, d)
  PROVE  EncTold(EncTimeout(e), d)
<1> DEFINE fired == [e EXCEPT !.timer = FALSE]
<1>0. EncShape(e) /\ EncParts(e) /\ EncCounts(e)
  BY DEF EncOk
<1>1. /\ EncShape(fired) /\ fired.timer = FALSE
      /\ \A x \in EncFields \ {"timer"} : fired[x] = e[x]
  BY <1>0 DEF EncShape, EncFields
<1>2. EncTimeout(e) = IF EncHasCoded(e) THEN fired ELSE EncFlushCoded(fired)
  BY DEF EncTimeout
<1> HIDE DEF fired
<1>3. fired.seq = e.seq /\ fired.enabled = e.enabled /\ fired.systematic = e.systematic
      /\ fired.source_symbols = e.source_symbols /\ fired.first_missing = e.first_missing
      /\ fired.packet_count = e.packet_count /\ fired.systematic_time = e.systematic_time
      /\ fired.coded_time = e.coded_time /\ fired.tx_attempts = e.tx_attempts
      /\ fired.flush_attempts = e.flush_attempts /\ fired.flush_next = e.flush_next
      /\ fired.coded_packets = e.coded_packets /\ fired.failed = e.failed /\ fired.rc = e.rc
  BY <1>1 DEF EncFields
<1>4. EncParts(fired)
  BY <1>0, <1>1, <1>3 DEF EncParts
<1>5. EncCounts(fired)
  BY <1>0, <1>3 DEF EncCounts
<1>6. EncOk(fired)
  BY <1>1, <1>4, <1>5 DEF EncOk
<1>7. EncTold(fired, d)
  BY <1>3, EncToldSame
<1> QED
  BY <1>2, <1>6, <1>7, EncFlushCodedTold

(* An honest report frees only what was seen.                              *)
LEMMA EncPutFeedbackTold ==
  ASSUME opt \in Options, ~opt.coded_retrans, NEW d, NEW e, EncOk(e), EncTold(e, d),
         NEW fb, fb.seq \in Int, fb.first_missing \in Int, Honest(fb, d)
  PROVE  EncTold(EncPutFeedback(e, fb), d)
<1> DEFINE first == IF fb.first_missing > e.first_missing THEN fb.first_missing
                    ELSE e.first_missing
           told == [e EXCEPT !.first_missing = first]
           a == EncAnswer(told, fb)
           plan == EncPlanRepair(a.e.rc, a.resend)
           idle == a.e.enabled = {} /\ NextRepair(plan, a.e.source_symbols)
           after == [a.e EXCEPT !.rc = IF idle THEN ResetSource(plan) ELSE plan]
           set == [after EXCEPT !.timer = opt.enc_timeout
                                          /\ ~(EncHasCoded(after) /\ a.losses = 0)]
<1>0. EncShape(e) /\ EncParts(e) /\ EncCounts(e) /\ e.seq \in Nat /\ e.first_missing \in Nat
  BY DEF EncOk, EncParts
<1>1. EncPutFeedback(e, fb) = IF fb.no > e.packet_count THEN e
                              ELSE IF ~EncSeqnoValid(e, fb) THEN told
                              ELSE set
  <2>1. [e EXCEPT !.first_missing = IF fb.first_missing > @
                                    THEN fb.first_missing ELSE @] = told
    BY <1>0 DEF EncShape, EncFields
  <2> QED
    BY <2>1, Zenon DEF EncPutFeedback
<1>2. first \in Nat /\ first >= e.first_missing
  BY <1>0
<1>3. /\ EncShape(told) /\ told.first_missing = first
      /\ \A x \in EncFields \ {"first_missing"} : told[x] = e[x]
  BY <1>0 DEF EncShape, EncFields
<1> HIDE DEF told
<1>4. /\ told.seq = e.seq /\ told.rc = e.rc /\ told.enabled = e.enabled
      /\ told.systematic = e.systematic /\ told.source_symbols = e.source_symbols
      /\ told.timer = e.timer /\ told.failed = e.failed
      /\ told.systematic_time = e.systematic_time /\ told.packet_count = e.packet_count
      /\ told.coded_time = e.coded_time
      /\ told.coded_packets = e.coded_packets /\ told.tx_attempts = e.tx_attempts
      /\ told.flush_next = e.flush_next /\ told.flush_attempts = e.flush_attempts
  BY <1>3 DEF EncFields
<1>5. EncOk(told)
  <2>1. EncRate(e.rc) /\ e.timer \in BOOLEAN /\ e.flush_next \in BOOLEAN
        /\ e.flush_attempts \in 0 .. Unlimited - 1
        /\ (~IsDual(e.rc) => e.rc.counter >= e.source_symbols * Symbols)
    BY <1>0 DEF EncParts, EncCounts
  <2> QED
    BY <1>2, <1>3, <1>4, <2>1, EncSameCounts
<1>6. EncTold(told, d)
  <2> SUFFICES ASSUME opt.tx = Unlimited
               PROVE  /\ told.seq > 0 => told.flush_attempts = Unlimited - 1
                      /\ \A s \in WindowOf(told.seq) :
                           s >= 0 /\ told.tx_attempts[Slot(s)] = 0 => Seen(d, s)
                      /\ \A s \in 0 .. told.first_missing - 1 : Ready(d, s)
                      /\ told.seq - told.first_missing <= Symbols
    BY DEF EncTold
  <2>1. \A s \in 0 .. first - 1 : Ready(d, s)
    BY DEF EncTold, Honest
  <2>2. e.seq - first <= Symbols
    <3>1. e.seq - e.first_missing <= Symbols
      BY DEF EncTold
    <3> HIDE DEF first
    <3> QED
      BY <1>0, <1>2, <3>1, SymbolsAssumption
  <2> HIDE DEF first
  <2> QED
    BY <1>3, <1>4, <2>1, <2>2 DEF EncTold
<1>7. ASSUME EncSeqnoValid(e, fb) PROVE EncTold(set, d)
  <2>1. EncSeqnoValid(told, fb)
    BY <1>4, <1>7 DEF EncSeqnoValid, EncRank
  <2>2. EncFreed(a.e, told, fb)
    BY <1>5, <2>1, EncAnswerFrees
  <2>3. EncOk(a.e) /\ a.e.seq = e.seq
    <3>1. AccOk(EncAnswer(told, fb), told.seq)
      BY <1>5, <2>1, EncAnswerOk
    <3> QED
      BY <1>4, <3>1 DEF AccOk
  <2>4. EncShape(a.e)
    BY <2>3 DEF EncOk
  <2> HIDE DEF a
  <2> DEFINE rate == IF idle THEN ResetSource(plan) ELSE plan
             armed == opt.enc_timeout /\ ~(EncHasCoded(after) /\ a.losses = 0)
             ae == a.e
  <2>5. set = [[ae EXCEPT !.rc = rate] EXCEPT !.timer = armed]
    OBVIOUS
  <2> HIDE DEF rate, armed, set, ae
  <2>6. /\ set.seq = ae.seq /\ set.first_missing = ae.first_missing
        /\ set.flush_attempts = ae.flush_attempts /\ set.tx_attempts = ae.tx_attempts
    BY <2>4, <2>5 DEF EncShape, EncFields, ae
  <2>7. EncTold(ae, d)
    <3> SUFFICES ASSUME opt.tx = Unlimited
                 PROVE  /\ ae.seq > 0 => ae.flush_attempts = Unlimited - 1
                        /\ \A s \in WindowOf(ae.seq) :
                             s >= 0 /\ ae.tx_attempts[Slot(s)] = 0 => Seen(d, s)
                        /\ \A s \in 0 .. ae.first_missing - 1 : Ready(d, s)
                        /\ ae.seq - ae.first_missing <= Symbols
      BY DEF EncTold
    <3>1. /\ ae.seq = told.seq /\ ae.first_missing = told.first_missing
          /\ ae.flush_attempts \in {told.flush_attempts, opt.tx - 1}
      BY <1>4, <2>2, <2>3 DEF EncFreed, ae
    <3>2. ASSUME NEW s \in WindowOf(ae.seq), s >= 0, ae.tx_attempts[Slot(s)] = 0
          PROVE  Seen(d, s)
      <4>1. s \in WindowOf(told.seq) /\ s \in Int /\ Slot(s) \in Slots /\ s \in WindowOf(e.seq)
        <5>1. s \in WindowOf(e.seq) /\ s \in WindowOf(told.seq)
          BY <1>4, <3>1, <3>2
        <5>2. s \in Int
          BY <1>0, <5>1 DEF WindowOf
        <5> QED
          BY <5>1, <5>2, SlotType
      <4>2. CASE ae.tx_attempts[Slot(s)] = told.tx_attempts[Slot(s)]
        BY <1>6, <3>2, <4>1, <4>2 DEF EncTold
      <4>3. CASE ae.tx_attempts[Slot(s)] # told.tx_attempts[Slot(s)]
        <5>1. PICK t \in told.seq - EncRank(told) .. fb.seq - 1 :
                Slot(s) = Slot(t) /\ Slot(s) \notin fb.missing
          BY <2>2, <4>1, <4>3 DEF EncFreed, ae
        <5>2. EncRank(told) \in 0 .. Symbols /\ told.seq - EncRank(told) \in Nat
              /\ told.seq \in Nat
          BY <1>0, <1>4, EncRankType
        <5>3. t \in Nat /\ t <= fb.seq - 1 /\ fb.seq <= told.seq /\ t >= told.seq - Symbols
          BY <2>1, <5>1, <5>2, SymbolsAssumption DEF EncSeqnoValid
        <5>4. s - t < Symbols /\ t - s < Symbols
          BY <4>1, <5>2, <5>3, SymbolsAssumption DEF WindowOf
        <5>5. s = t
          <6>1. s % Symbols = t % Symbols /\ t \in Int /\ s \in Int /\ Symbols \in Nat \ {0}
            BY <4>1, <5>1, <5>3, SymbolsAssumption DEF Slot
          <6> QED
            BY <5>4, <6>1, ModApart
        <5>6. s \in 0 .. fb.seq - 1
          BY <5>3, <5>5
        <5> QED
          BY <5>1, <5>6 DEF Honest
      <4> QED
        BY <4>2, <4>3
    <3> QED
      BY <1>6, <3>1, <3>2 DEF EncTold
  <2> QED
    BY <2>6, <2>7, EncToldSame
<1> HIDE DEF set, first
<1> QED
  BY <1>1, <1>6, <1>7

LEMMA EncStartTold ==
  ASSUME NEW d
  PROVE  EncTold(EncStart, d)
<1>1. EncStart.seq = 0 /\ EncStart.first_missing = 0
  BY DEF EncStart
<1>2. \A s \in WindowOf(0) : ~(s >= 0)
  BY SymbolsAssumption DEF WindowOf
<1> QED
  BY <1>1, <1>2, SymbolsAssumption DEF EncTold

-----------------------------------------------------------------------------
(* How far the ring goes: a packet that is at most a window ahead pushes   *)
(* out the readable blocks before its own window, and no other.            *)
LEMMA RingLostIs ==
  ASSUME NEW seq \in Nat, NEW rb, RingOk(rb, seq), NEW s \in Int, s <= seq + Symbols
  PROVE  Ring!RbLost(rb, s) = IF s - Symbols > Ring!RbReadSeqno(rb)
                              THEN s - Symbols - Ring!RbReadSeqno(rb) ELSE 0
<1>1. /\ rb.num_blocks \in 0 .. Symbols /\ rb.num_blocks \in Int
      /\ rb.write_seqno = seq /\ Ring!RbReadSeqno(rb) = seq - rb.num_blocks
      /\ Symbols \in Nat \ {0}
  BY RingFacts
<1> QED
  BY <1>1 DEF Ring!RbLost, Ring!RbShift

LEMMA RingInsertLow ==
  ASSUME NEW seq \in Nat, NEW rb, RingOk(rb, seq), NEW s \in Nat,
         s - Symbols <= Ring!RbReadSeqno(rb)
  PROVE  Ring!RbReadSeqno(Ring!RbInsert(rb, s)) = Ring!RbReadSeqno(rb)
<1> DEFINE shift == Ring!RbShift(rb, s)
           next == (rb.write_index + shift) % Symbols
           num == IF Symbols - rb.num_blocks >= shift THEN rb.num_blocks + shift ELSE Symbols
           idx == IF Symbols - rb.num_blocks >= shift THEN rb.read_index ELSE next
           n == [rb EXCEPT !.write_seqno = s, !.write_index = next,
                           !.num_blocks = num, !.read_index = idx]
<1>1. /\ rb.num_blocks \in 0 .. Symbols /\ rb.num_blocks \in Int
      /\ rb.write_seqno = seq /\ Ring!RbReadSeqno(rb) = seq - rb.num_blocks
      /\ Symbols \in Nat \ {0}
      /\ DOMAIN rb = {"num_blocks", "write_seqno", "write_index", "read_index"}
  <2>1. rb \in Ring!RingBuffers
    BY DEF RingOk
  <2>2. DOMAIN rb = {"num_blocks", "write_seqno", "write_index", "read_index"}
    BY <2>1 DEF Ring!RingBuffers
  <2> QED
    BY <2>2, RingFacts
<1>2. shift = IF s > seq THEN s - seq ELSE 0
  BY <1>1 DEF Ring!RbShift
<1>3. Ring!RbInsert(rb, s) = IF shift = 0 THEN rb ELSE n
  <2> HIDE DEF shift
  <2>1. DOMAIN rb = {"num_blocks", "write_seqno", "write_index", "read_index"}
    BY <1>1
  <2>2. Ring!RbInsert(rb, s) = IF shift = 0 THEN rb
          ELSE [rb EXCEPT
             !.write_seqno = s,
             !.write_index = next,
             !.num_blocks  = IF Symbols - @ >= shift THEN @ + shift ELSE Symbols,
             !.read_index  = IF Symbols - rb.num_blocks >= shift THEN @ ELSE next]
    BY DEF Ring!RbInsert, shift
  <2> HIDE DEF next
  <2> QED
    BY <2>1, <2>2
<1> HIDE DEF shift
<1>4. n.write_seqno = s /\ n.num_blocks = num
  BY <1>1
<1> HIDE DEF n
<1>5. CASE shift = 0
  BY <1>3, <1>5
<1>6. CASE shift # 0
  <2>1. num = rb.num_blocks + shift /\ s > seq /\ shift = s - seq
    BY <1>1, <1>2, <1>6
  <2> HIDE DEF num
  <2> QED
    BY <1>1, <1>3, <1>4, <1>6, <2>1 DEF Ring!RbReadSeqno
<1> QED
  BY <1>5, <1>6

-----------------------------------------------------------------------------
(* What a decoder has it keeps: as long as kodo's window stays, only the   *)
(* head of the ring has to go forward.                                     *)
LEMMA GrownTrans ==
  ASSUME NEW a, NEW b, NEW c, Grown(b, a), Grown(c, b)
  PROVE  Grown(c, a)
BY DEF Grown

LEMMA LowNat ==
  ASSUME NEW d, SinkOk(d)
  PROVE  /\ Low(d) \in Nat /\ Low(d) = d.seq - d.rb.num_blocks /\ d.seq \in Nat
         /\ d.rb.num_blocks \in 0 .. Symbols /\ Symbols \in Nat \ {0}
<1>1. d.seq \in Nat /\ RingOk(d.rb, d.seq)
  BY DEF SinkOk, SinkBody
<1> QED
  BY <1>1, RingFacts DEF Low

LEMMA GrownSame ==
  ASSUME NEW d, SinkOk(d), NEW n, SinkOk(n), SinkSame(n, d), Low(d) <= Low(n)
  PROVE  Grown(n, d)
<1>1. Low(d) \in Nat /\ Low(n) \in Nat
  BY LowNat
<1>2. n.span = d.span
  BY DEF SinkSame, SinkOk, SinkBody, SinkNumbers, SinkShape, SinkFields, SinkChanges
<1>3. \A s \in Int : s < Low(d) => s < Low(n)
  BY <1>1
<1> QED
  BY <1>2, <1>3 DEF Grown, Seen, Ready

(* A stream without a gap: what was got and what is queued are the symbols *)
(* from 0 to the head of the ring, and the flush point, if it is beyond    *)
(* the head, has only decoded symbols before it, so that no head is passed *)
(* over.                                                                   *)
Whole(d) ==
  /\ Low(d) <= d.flush
  /\ \A s \in Low(d) .. d.flush - 1 : {s} \in d.span
  /\ d.has_source => Low(d) < d.flush
  /\ \A n \in DOMAIN d.read : d.read[n] = n - 1
  /\ \A n \in DOMAIN d.queue : d.queue[n] = Len(d.read) + n - 1
  /\ Len(d.read) + Len(d.queue) = Low(d)

(* The flush point that is at the head goes past it if it can be taken.    *)
LEMMA WholeFlush ==
  ASSUME NEW low \in Nat, NEW flush \in Nat, NEW span, low <= flush,
         \A s \in low .. flush - 1 : {s} \in span,
         NEW f, \/ f = flush
                \/ flush = low /\ f = flush + 1 /\ {low} \in span
  PROVE  /\ low <= f /\ flush <= f /\ f \in Nat /\ \A s \in low .. f - 1 : {s} \in span
         /\ f = low => f = flush
<1>1. CASE flush = low /\ f = flush + 1 /\ {low} \in span
  <2>1. f = low + 1 /\ \A s \in low .. f - 1 : s = low
    BY <1>1
  <2>2. \A s \in low .. f - 1 : {s} \in span
    BY <1>1, <2>1, Zenon
  <2>3. low <= f /\ flush <= f /\ f # low /\ f \in Nat
    BY <1>1, <2>1
  <2> QED
    BY <2>2, <2>3
<1>2. CASE f = flush
  BY <1>2
<1> QED
  BY <1>1, <1>2

(* move_to_next_source never goes back, and stays where it is if nothing   *)
(* is to be passed over.                                                   *)
LEMMA DecMoveToNextOn ==
  ASSUME NEW d, SinkOk(d)
  PROVE  LET n == DecMoveToNext(d)
         IN /\ Low(d) <= Low(n)
            /\ Whole(d) => Whole(n) /\ n.flush >= d.flush /\ n.queue = d.queue
<1> DEFINE waits == {k \in 0 .. d.rb.num_blocks - 1 : Ring!RbReadSeqno(d.rb) + k = d.flush}
           stops == DecReadable(d) \cup waits
           k == IF stops = {} THEN d.rb.num_blocks ELSE SmallestIn(stops)
           head == k \in DecReadable(d)
           moved == [d EXCEPT !.rb = Ring!RbRead(@, k), !.has_source = head]
           n == [moved EXCEPT !.flush = DecFlushAfter(moved)]
           a == Ring!RbReadSeqno(d.rb)
           num == d.rb.num_blocks
<1>0. /\ SinkNumbers(d) /\ d.seq \in Nat /\ d.flush \in Nat /\ RingOk(d.rb, d.seq)
      /\ num \in Nat /\ a \in Nat /\ SinkBody(d) /\ Low(d) = a
  <2>1. /\ SinkNumbers(d) /\ d.seq \in Nat /\ d.flush \in Nat /\ RingOk(d.rb, d.seq)
        /\ SinkBody(d)
    BY DEF SinkOk, SinkBody
  <2>2. num \in 0 .. Symbols /\ a \in Nat /\ Symbols \in Nat \ {0}
    BY <2>1, RingFacts
  <2> QED
    BY <2>1, <2>2 DEF Low
<1>1. DecReadable(d) \in SUBSET (0 .. num - 1)
      /\ \A j \in 0 .. num - 1 : j \in DecReadable(d) <=> {a + j} \in d.span
  BY <1>0, ReadableIs
<1>2. /\ k \in 0 .. num
      /\ stops # {} => k \in stops /\ \A j \in stops : k <= j
  <2>1. stops \in SUBSET (0 .. num - 1) /\ 0 \in Int /\ num - 1 \in Int
    BY <1>0, <1>1
  <2>2. stops # {} => /\ SmallestIn(stops) \in 0 .. num - 1
                      /\ SmallestIn(stops) \in stops
                      /\ \A j \in stops : SmallestIn(stops) <= j
    <3> HIDE DEF stops, num
    <3>1. stops # {} => SmallestIn(stops) \in stops /\ \A j \in stops : SmallestIn(stops) <= j
      BY <2>1, SmallestOf
    <3> QED
      BY <2>1, <3>1, Zenon
  <2> HIDE DEF stops
  <2>3. CASE stops = {}
    BY <1>0, <2>3
  <2>4. CASE stops # {}
    BY <1>0, <2>2, <2>4
  <2> QED
    BY <2>3, <2>4
<1>3. DecMoveToNext(d) = n
  BY DEF DecMoveToNext
<1>4. Whole(d) => k = 0 /\ \A j \in DecReadable(d) : j # k \/ {a} \in d.span
  <2> SUFFICES ASSUME Whole(d) PROVE k = 0 /\ (0 \in DecReadable(d) => {a} \in d.span)
    BY Zenon
  <2>1. num > 0 => 0 \in stops
    <3> SUFFICES ASSUME num > 0 PROVE 0 \in stops
      OBVIOUS
    <3>1. 0 \in 0 .. num - 1 /\ a + 0 = a
      BY <1>0
    <3>2. CASE d.flush = a
      BY <3>1, <3>2
    <3>3. CASE d.flush # a
      <4>1. a \in a .. d.flush - 1
        BY <1>0, <3>3 DEF Whole
      <4>2. {a + 0} \in d.span
        BY <1>0, <3>1, <4>1 DEF Whole
      <4> QED
        BY <1>1, <3>1, <4>2
    <3> QED
      BY <3>2, <3>3
  <2>2. k = 0
    <3>1. CASE num > 0
      <4> HIDE DEF k, stops, num
      <4>1. k <= 0 /\ k \in 0 .. num
        BY <1>2, <2>1, <3>1
      <4> QED
        BY <1>0, <4>1
    <3>2. CASE ~(num > 0)
      <4> HIDE DEF k
      <4>1. k \in 0 .. num /\ num = 0
        BY <1>0, <1>2, <3>2
      <4> QED
        BY <4>1
    <3> QED
      BY <3>1, <3>2
  <2>3. 0 \in DecReadable(d) => {a} \in d.span
    <3>1. 0 \in DecReadable(d) => 0 \in 0 .. num - 1 /\ {a + 0} \in d.span
      BY <1>1
    <3>2. a + 0 = a
      BY <1>0
    <3> QED
      BY <3>1, <3>2
  <2> QED
    BY <2>2, <2>3
<1>5. head \in BOOLEAN
  OBVIOUS
<1> HIDE DEF k
<1>6. /\ DOMAIN moved = DOMAIN d /\ moved = [x \in DOMAIN d |-> moved[x]]
      /\ moved.rb = Ring!RbRead(d.rb, k) /\ moved.has_source = head
      /\ \A x \in DOMAIN d \ {"rb", "has_source"} : moved[x] = d[x]
  BY <1>0 DEF SinkNumbers, SinkShape, SinkFields
<1> HIDE DEF moved
<1>7. moved.flush = d.flush /\ moved.queue = d.queue /\ moved.read = d.read
      /\ moved.span = d.span /\ SinkFields \subseteq DOMAIN d
  BY <1>0, <1>6 DEF SinkNumbers, SinkShape, SinkFields
<1>8. /\ DOMAIN n = DOMAIN d /\ n.flush = DecFlushAfter(moved)
      /\ \A x \in DOMAIN d \ {"flush"} : n[x] = moved[x]
  BY <1>6, <1>7 DEF SinkFields
<1> HIDE DEF n, head
<1>9. n.rb = Ring!RbRead(d.rb, k) /\ n.has_source = head /\ n.queue = d.queue
      /\ n.read = d.read /\ n.span = d.span
  BY <1>6, <1>7, <1>8 DEF SinkFields
<1>10. Low(n) = a + k
  <2>1. Ring!RbReadSeqno(Ring!RbRead(d.rb, k)) = a + k
    BY <1>0, <1>2, RingReadOk
  <2> QED
    BY <1>9, <2>1 DEF Low
<1>11. Low(d) <= Low(n)
  BY <1>0, <1>2, <1>10
<1>12. ASSUME Whole(d) PROVE Whole(n) /\ n.flush >= d.flush /\ n.queue = d.queue
  <2>1. k = 0 /\ (head => {a} \in d.span)
    BY <1>4, <1>12 DEF head
  <2>2. Low(n) = Low(d)
    BY <1>0, <1>10, <2>1
  <2>3. n.flush = IF head /\ d.flush = Low(d) THEN d.flush + 1 ELSE d.flush
    <3>1. Ring!RbReadSeqno(moved.rb) = Low(d)
      BY <1>6, <1>9, <2>2 DEF Low
    <3> QED
      BY <1>6, <1>7, <1>8, <3>1 DEF DecFlushAfter
  <2>4. Low(d) <= d.flush /\ \A s \in Low(d) .. d.flush - 1 : {s} \in d.span
    BY <1>12 DEF Whole
  <2>5. head => {Low(d)} \in d.span
    BY <1>0, <2>1
  <2>6. /\ Low(d) <= n.flush /\ d.flush <= n.flush /\ n.flush \in Nat
        /\ \A s \in Low(d) .. n.flush - 1 : {s} \in d.span
        /\ head => Low(d) < n.flush
    <3> DEFINE low == Low(d)
               flush == d.flush
               span == d.span
               f == n.flush
    <3>1. /\ low \in Nat /\ flush \in Nat /\ low <= flush
          /\ \A s \in low .. flush - 1 : {s} \in span
          /\ (f = flush \/ (flush = low /\ f = flush + 1 /\ {low} \in span))
          /\ (head /\ f = flush => low # flush)
      <4> HIDE DEF head
      <4>1. low \in Nat /\ flush \in Nat /\ low <= flush
            /\ \A s \in low .. flush - 1 : {s} \in span
        BY <1>0, <2>4
      <4>2. f = IF head /\ flush = low THEN flush + 1 ELSE flush
        BY <2>3
      <4>3. head => {low} \in span
        BY <2>5
      <4> HIDE DEF low, flush, span, f
      <4> QED
        BY <4>1, <4>2, <4>3
    <3> HIDE DEF low, flush, span, f, head
    <3>2. /\ low <= f /\ flush <= f /\ f \in Nat /\ \A s \in low .. f - 1 : {s} \in span
          /\ f = low => f = flush
      BY <3>1, WholeFlush
    <3>3. head => low < f
      BY <3>1, <3>2
    <3> QED
      BY <3>2, <3>3 DEF low, flush, span, f
  <2> QED
    BY <1>0, <1>9, <1>12, <2>2, <2>6 DEF Whole
<1> QED
  BY <1>3, <1>11, <1>12

(* Taking the next symbol: the head of the queue, or of the ring.          *)
LEMMA WholeTakeQueue ==
  ASSUME NEW read \in Seq(Nat), NEW queue \in Seq(Nat), queue # <<>>,
         \A n \in DOMAIN read : read[n] = n - 1,
         \A n \in DOMAIN queue : queue[n] = Len(read) + n - 1
  PROVE  LET r == Append(read, Head(queue))
             q == Tail(queue)
         IN /\ \A n \in DOMAIN r : r[n] = n - 1
            /\ \A n \in DOMAIN q : q[n] = Len(r) + n - 1
            /\ Len(r) + Len(q) = Len(read) + Len(queue)
<1> DEFINE h == Head(queue)
           q == Tail(queue)
           r == Append(read, h)
<1>1. Len(queue) \in Nat \ {0} /\ DOMAIN queue = 1 .. Len(queue) /\ Len(read) \in Nat
      /\ DOMAIN read = 1 .. Len(read)
  OBVIOUS
<1>2. h = queue[1] /\ q \in Seq(Nat) /\ Len(q) = Len(queue) - 1
        /\ \A n \in 1 .. Len(queue) - 1 : q[n] = queue[n + 1]
  BY HeadTailProperties
<1>3. h = Len(read) /\ h \in Nat
  BY <1>1, <1>2
<1> HIDE DEF h
<1>4. /\ r \in Seq(Nat) /\ Len(r) = Len(read) + 1
      /\ \A n \in 1 .. Len(read) : r[n] = read[n]
      /\ r[Len(read) + 1] = h
  BY <1>3, AppendProperties
<1>5. DOMAIN r = 1 .. Len(read) + 1 /\ DOMAIN q = 1 .. Len(queue) - 1
  BY <1>2, <1>4
<1> HIDE DEF q, r
<1>6. \A n \in DOMAIN r : r[n] = n - 1
  BY <1>1, <1>3, <1>4, <1>5
<1>7. ASSUME NEW n \in DOMAIN q PROVE q[n] = Len(r) + n - 1
  <2>1. n + 1 \in DOMAIN queue /\ q[n] = queue[n + 1] /\ n \in Int
    BY <1>1, <1>2, <1>5
  <2>2. queue[n + 1] = Len(read) + (n + 1) - 1
    BY <2>1
  <2> QED
    BY <1>1, <1>4, <2>1, <2>2
<1>8. Len(r) + Len(q) = Len(read) + Len(queue)
  BY <1>1, <1>2, <1>4
<1> QED
  BY <1>6, <1>7, <1>8 DEF q, r, h

LEMMA DecGetSourceOn ==
  ASSUME NEW d, SinkOk(d), DecHasSource(d)
  PROVE  LET n == DecGetSource(d)
         IN /\ Low(d) <= Low(n)
            /\ Whole(d) => /\ Whole(n) /\ n.flush >= d.flush
                           /\ d.queue = <<>> => n.queue = <<>>
<1> DEFINE a == Ring!RbReadSeqno(d.rb)
           num == d.rb.num_blocks
<1>0. /\ SinkNumbers(d) /\ d.seq \in Nat /\ d.flush \in Nat /\ RingOk(d.rb, d.seq)
      /\ ReadOk(d.read, d.queue, a) /\ num \in 0 .. Symbols /\ a \in Nat
      /\ Symbols \in Nat \ {0} /\ HeadTrue(d) /\ Low(d) = a
      /\ d.read \in Seq(Nat) /\ d.queue \in Seq(Nat)
  <2>1. /\ SinkNumbers(d) /\ d.seq \in Nat /\ d.flush \in Nat /\ RingOk(d.rb, d.seq)
        /\ ReadOk(d.read, d.queue, a) /\ HeadTrue(d)
    BY DEF SinkOk, SinkBody
  <2>2. d.read \in Seq(Nat) /\ d.queue \in Seq(Nat)
    BY <2>1 DEF ReadOk
  <2> QED
    BY <2>1, <2>2, RingFacts DEF Low
<1>1. CASE d.queue # <<>>
  <2> DEFINE n == [d EXCEPT !.read = Append(@, Head(d.queue)), !.queue = Tail(@)]
  <2>1. /\ n.read = Append(d.read, Head(d.queue)) /\ n.queue = Tail(d.queue)
        /\ n.rb = d.rb /\ n.flush = d.flush /\ n.has_source = d.has_source /\ n.span = d.span
    BY <1>0 DEF SinkNumbers, SinkShape, SinkFields
  <2>2. DecGetSource(d) = n
    BY <1>1 DEF DecGetSource
  <2> HIDE DEF n
  <2>3. Low(n) = Low(d)
    BY <2>1 DEF Low
  <2>4. ASSUME Whole(d) PROVE Whole(n)
    <3>1. /\ \A m \in DOMAIN n.read : n.read[m] = m - 1
          /\ \A m \in DOMAIN n.queue : n.queue[m] = Len(n.read) + m - 1
          /\ Len(n.read) + Len(n.queue) = Len(d.read) + Len(d.queue)
      <4> DEFINE r == d.read
                 q == d.queue
      <4>1. /\ r \in Seq(Nat) /\ q \in Seq(Nat) /\ q # <<>>
            /\ \A m \in DOMAIN r : r[m] = m - 1
            /\ \A m \in DOMAIN q : q[m] = Len(r) + m - 1
        BY <1>0, <1>1, <2>4 DEF Whole
      <4>2. n.read = Append(r, Head(q)) /\ n.queue = Tail(q)
        BY <2>1
      <4> HIDE DEF r, q
      <4>3. /\ \A m \in DOMAIN Append(r, Head(q)) : Append(r, Head(q))[m] = m - 1
            /\ \A m \in DOMAIN Tail(q) : Tail(q)[m] = Len(Append(r, Head(q))) + m - 1
            /\ Len(Append(r, Head(q))) + Len(Tail(q)) = Len(r) + Len(q)
        BY <4>1, WholeTakeQueue
      <4> QED
        BY <4>2, <4>3, Zenon DEF r, q
    <3>2. Low(d) <= d.flush /\ (\A s \in Low(d) .. d.flush - 1 : {s} \in d.span)
          /\ (d.has_source => Low(d) < d.flush) /\ Len(d.read) + Len(d.queue) = Low(d)
      BY <2>4 DEF Whole
    <3> QED
      BY <2>1, <2>3, <3>1, <3>2 DEF Whole
  <2> QED
    BY <1>0, <1>1, <2>1, <2>2, <2>3, <2>4
<1>2. CASE d.queue = <<>>
  <2> DEFINE s == SymbolAt(d.seq, Ring!RbSlot(d.rb, 0))
             n == [d EXCEPT !.read = Append(@, s),
                            !.rb = Ring!RbRead(@, 1),
                            !.has_source = FALSE]
  <2>1. num > 0 /\ d.has_source
    BY <1>0, <1>2 DEF HeadTrue, DecHasSource
  <2>2. s = a
    <3>1. 0 \in 0 .. num - 1
      BY <1>0, <2>1
    <3>2. SymbolAt(d.seq, Ring!RbSlot(d.rb, 0)) = a + 0
      BY <1>0, <3>1, RingSlotOk
    <3> QED
      BY <1>0, <3>2
  <2>3. RingOk(Ring!RbRead(d.rb, 1), d.seq)
        /\ Ring!RbReadSeqno(Ring!RbRead(d.rb, 1)) = a + 1
    <3>1. 1 \in 0 .. num
      BY <1>0, <2>1
    <3> QED
      BY <1>0, <3>1, RingReadOk
  <2>4. DecGetSource(d) = DecMoveToNext(n)
    BY <1>2 DEF DecGetSource
  <2> HIDE DEF s
  <2>5. /\ DOMAIN n = DOMAIN d /\ n = [x \in DOMAIN d |-> n[x]]
        /\ n.read = Append(d.read, s) /\ n.queue = d.queue /\ n.span = d.span
        /\ n.rb = Ring!RbRead(d.rb, 1) /\ n.flush = d.flush /\ n.has_source = FALSE
    BY <1>0 DEF SinkNumbers, SinkShape, SinkFields
  <2>6. \A x \in DOMAIN d \ SinkChanges : n[x] = d[x]
    BY <1>0 DEF SinkNumbers, SinkShape, SinkChanges
  <2> HIDE DEF n
  <2>7. ReadOk(n.read, n.queue, Ring!RbReadSeqno(n.rb))
    <3>1. ReadOk(Append(d.read, a), <<>>, a + 1)
      <4> HIDE DEF a
      <4> QED
        BY <1>0, <1>2, ReadNext
    <3> QED
      BY <1>2, <2>2, <2>3, <2>5, <3>1
  <2>8. SinkOk(n)
    BY <1>0, <2>3, <2>5, <2>6, <2>7, SinkOkEdit
  <2>9. Low(n) = Low(d) + 1
    BY <1>0, <2>3, <2>5 DEF Low
  <2>10. /\ Low(n) <= Low(DecMoveToNext(n))
         /\ Whole(n) => /\ Whole(DecMoveToNext(n)) /\ DecMoveToNext(n).flush >= n.flush
                        /\ DecMoveToNext(n).queue = n.queue
    BY <2>8, DecMoveToNextOn
  <2>11. Low(d) <= Low(DecMoveToNext(n))
    <3>1. Low(DecMoveToNext(n)) \in Nat
      BY <2>8, DecMoveToNextOk, LowNat
    <3> QED
      BY <1>0, <2>9, <2>10, <3>1
  <2>12. ASSUME Whole(d) PROVE Whole(n)
    <3>1. /\ \A m \in DOMAIN d.read : d.read[m] = m - 1
          /\ Len(d.read) + Len(d.queue) = a /\ a < d.flush
          /\ \A x \in a .. d.flush - 1 : {x} \in d.span
      BY <1>0, <2>1, <2>12 DEF Whole
    <3>2. Len(d.read) = a /\ DOMAIN d.read = 1 .. a /\ Len(d.queue) = 0
      BY <1>0, <1>2, <3>1
    <3> HIDE DEF a
    <3>3. /\ n.read \in Seq(Nat) /\ Len(n.read) = a + 1
          /\ \A m \in 1 .. a : n.read[m] = d.read[m]
          /\ n.read[a + 1] = a
      <4> DEFINE r == d.read
      <4>1. r \in Seq(Nat) /\ Len(r) = a /\ n.read = Append(r, a)
        BY <1>0, <2>2, <2>5, <3>2
      <4> HIDE DEF r
      <4>2. /\ Append(r, a) \in Seq(Nat) /\ Len(Append(r, a)) = Len(r) + 1
            /\ \A m \in 1 .. Len(r) : Append(r, a)[m] = r[m]
            /\ Append(r, a)[Len(r) + 1] = a
        BY <1>0, <4>1, AppendProperties
      <4> QED
        BY <4>1, <4>2 DEF r
    <3>4. DOMAIN n.read = 1 .. a + 1
      BY <3>3
    <3>5. \A m \in DOMAIN n.read : n.read[m] = m - 1
      <4> SUFFICES ASSUME NEW m \in 1 .. a + 1 PROVE n.read[m] = m - 1
        BY <3>4
      <4>1. CASE m = a + 1
        BY <1>0, <3>3, <4>1
      <4>2. CASE m \in 1 .. a
        BY <3>1, <3>2, <3>3, <4>2
      <4> QED
        BY <1>0, <4>1, <4>2
    <3>6. /\ Low(n) <= n.flush /\ \A x \in Low(n) .. n.flush - 1 : {x} \in n.span
      <4>1. Low(n) = a + 1 /\ n.flush = d.flush /\ n.span = d.span
        BY <1>0, <2>5, <2>9
      <4>2. \A x \in a + 1 .. d.flush - 1 : x \in a .. d.flush - 1
        BY <1>0
      <4>3. a + 1 <= d.flush
        BY <1>0, <3>1
      <4> QED
        BY <3>1, <4>1, <4>2, <4>3
    <3>7. n.queue = <<>> /\ DOMAIN n.queue = {} /\ Len(n.queue) = 0
      BY <1>2, <2>5
    <3>8. Len(n.read) + Len(n.queue) = Low(n)
      BY <1>0, <2>9, <3>3, <3>7
    <3> QED
      BY <2>5, <3>5, <3>6, <3>7, <3>8 DEF Whole
  <2> QED
    BY <1>2, <2>4, <2>5, <2>10, <2>11, <2>12
<1> QED
  BY <1>1, <1>2

LEMMA DecSourceReadyOn ==
  ASSUME NEW d, SinkOk(d)
  PROVE  LET n == DecSourceReady(d)
         IN /\ Low(d) <= Low(n)
            /\ Whole(d) => /\ Whole(n) /\ n.flush >= d.flush
                           /\ d.queue = <<>> => n.queue = <<>>
<1> DEFINE On(n) == /\ Low(d) <= Low(n)
                    /\ Whole(d) => /\ Whole(n) /\ n.flush >= d.flush
                                   /\ d.queue = <<>> => n.queue = <<>>
           T == {n \in SinkSet(d) : SinkOk(n) /\ On(n)}
<1>0. \A n : n \in T <=> SinkOk(n) /\ SinkSame(n, d) /\ On(n)
  BY SinkMember DEF SinkOk, SinkBody
<1>01. \A n : SinkOk(n) => Low(n) \in Nat /\ n.flush \in Nat
  BY LowNat DEF SinkOk, SinkBody
<1> HIDE DEF T
<1>1. d \in T
  <2>1. SinkSame(d, d)
    BY DEF SinkSame
  <2>2. On(d)
    BY <1>01
  <2> QED
    BY <1>0, <2>1, <2>2
<1>2. ASSUME NEW x \in T, DecHasSource(x) PROVE DecGetSource(x) \in T
  <2> DEFINE y == DecGetSource(x)
  <2>1. SinkOk(x) /\ SinkSame(x, d) /\ On(x)
    BY <1>0
  <2>2. SinkOk(y) /\ SinkSame(y, x)
    BY <1>2, <2>1, DecGetSourceOk
  <2>3. /\ Low(x) <= Low(y)
        /\ Whole(x) => /\ Whole(y) /\ y.flush >= x.flush
                       /\ x.queue = <<>> => y.queue = <<>>
    BY <1>2, <2>1, DecGetSourceOn
  <2> HIDE DEF y
  <2>4. /\ Low(d) \in Nat /\ Low(x) \in Nat /\ Low(y) \in Nat
        /\ d.flush \in Nat /\ x.flush \in Nat /\ y.flush \in Nat
    BY <1>01, <2>1, <2>2
  <2>5. On(y)
    BY <2>1, <2>3, <2>4
  <2>6. SinkSame(y, d)
    BY <2>1, <2>2, SinkSameTrans
  <2> HIDE DEF On
  <2> QED
    BY <1>0, <2>2, <2>5, <2>6 DEF y
<1>3. DecSourceReady(d) \in T
  <2> HIDE DEF On
  <2> QED
    BY <1>1, <1>2, SourceReadyIn
<1> QED
  BY <1>0, <1>3


-----------------------------------------------------------------------------
(* The numbers of a whole interval, sorted, are in their own place.        *)
LEMMA UpAbove ==
  ASSUME NEW K \in Nat, NEW seq \in [1 .. K -> 0 .. K - 1],
         \A m, n \in 1 .. K : m < n => seq[m] < seq[n]
  PROVE  \A n \in 1 .. K : seq[n] >= n - 1
<1> DEFINE Z == {n \in 0 .. K : n > 0 => seq[n] >= n - 1}
<1>1. 0 \in Z
  OBVIOUS
<1>2. ASSUME NEW n \in 0 .. K - 1, n \in Z PROVE n + 1 \in Z
  <2>1. n + 1 \in 1 .. K /\ seq[n + 1] \in 0 .. K - 1
    OBVIOUS
  <2>2. CASE n = 0
    BY <2>1, <2>2
  <2>3. CASE n # 0
    <3>1. n \in 1 .. K /\ n < n + 1
      BY <2>3
    <3>2. seq[n] < seq[n + 1] /\ seq[n] >= n - 1 /\ seq[n] \in 0 .. K - 1
      BY <1>2, <2>1, <3>1
    <3> QED
      BY <2>1, <3>1, <3>2
  <2> QED
    BY <2>2, <2>3
<1>3. ASSUME NEW n \in 1 .. K PROVE n \in Z
  <2> DEFINE Y == {m \in 0 .. n : m \in Z}
  <2>1. 0 \in Y
    BY <1>1
  <2>2. \A m \in 0 .. n - 1 : m \in Y => m + 1 \in Y
    <3> SUFFICES ASSUME NEW m \in 0 .. n - 1, m \in Z PROVE m + 1 \in 0 .. n /\ m + 1 \in Z
      BY Zenon
    <3>1. m \in 0 .. K - 1 /\ m + 1 \in 0 .. n
      OBVIOUS
    <3> HIDE DEF Z
    <3> QED
      BY <1>2, <3>1
  <2>3. n \in Nat
    OBVIOUS
  <2> HIDE DEF Y, Z
  <2>4. n \in Y
    BY <2>1, <2>2, <2>3, LeastIndex
  <2> QED
    BY <2>4 DEF Y
<1> QED
  BY <1>3

LEMMA SortedAll ==
  ASSUME NEW K \in Nat
  PROVE  /\ DOMAIN Sorted(0 .. K - 1) = 1 .. K
         /\ \A n \in 1 .. K : Sorted(0 .. K - 1)[n] = n - 1
<1> DEFINE S == 0 .. K - 1
           seq == Sorted(S)
           back == [n \in 1 .. K |-> K - 1 - seq[K + 1 - n]]
<1>1. Cardinality(S) = K
  <2>1. Cardinality(0 .. K - 1) = IF 0 > K - 1 THEN 0 ELSE K - 1 - 0 + 1
    BY FS_Interval
  <2> QED
    BY <2>1
<1>2. seq \in [1 .. K -> S] /\ \A m, n \in 1 .. K : m < n => seq[m] < seq[n]
  <2>1. /\ Sorted(S) \in [1 .. Cardinality(S) -> S]
        /\ \A m, n \in DOMAIN Sorted(S) : m < n => Sorted(S)[m] < Sorted(S)[n]
    BY SortedOf
  <2> HIDE DEF S
  <2>2. DOMAIN Sorted(S) = 1 .. K
    BY <1>1, <2>1
  <2> QED
    BY <1>1, <2>1, <2>2
<1> HIDE DEF seq
<1>3. \A n \in 1 .. K : seq[n] >= n - 1 /\ seq[n] \in 0 .. K - 1
  BY <1>2, UpAbove
<1>4. \A n \in 1 .. K : back[n] >= n - 1
  <2>1. \A n \in 1 .. K : K + 1 - n \in 1 .. K
    OBVIOUS
  <2>2. ASSUME NEW n \in 1 .. K PROVE K - 1 - seq[K + 1 - n] \in 0 .. K - 1
    BY <1>3, <2>1
  <2>3. back \in [1 .. K -> 0 .. K - 1]
    BY <2>2
  <2>4. ASSUME NEW m \in 1 .. K, NEW n \in 1 .. K, m < n PROVE back[m] < back[n]
    <3>1. K + 1 - n < K + 1 - m /\ K + 1 - n \in 1 .. K /\ K + 1 - m \in 1 .. K
      BY <2>1, <2>4
    <3>2. seq[K + 1 - n] < seq[K + 1 - m] /\ seq[K + 1 - n] \in Int /\ seq[K + 1 - m] \in Int
      BY <1>2, <1>3, <3>1
    <3>3. back[m] = K - 1 - seq[K + 1 - m] /\ back[n] = K - 1 - seq[K + 1 - n]
      OBVIOUS
    <3> HIDE DEF back
    <3> QED
      BY <3>2, <3>3
  <2> HIDE DEF back
  <2> QED
    BY <2>3, <2>4, UpAbove
<1>5. ASSUME NEW n \in 1 .. K PROVE seq[n] = n - 1
  <2>1. K + 1 - n \in 1 .. K /\ K + 1 - (K + 1 - n) = n
    OBVIOUS
  <2>2. back[K + 1 - n] = K - 1 - seq[n] /\ back[K + 1 - n] >= K + 1 - n - 1
    BY <1>4, <2>1
  <2>3. seq[n] >= n - 1 /\ seq[n] \in 0 .. K - 1
    BY <1>3
  <2> HIDE DEF back
  <2> QED
    BY <2>2, <2>3
<1>6. DOMAIN seq = 1 .. K
  BY <1>2
<1> QED
  BY <1>5, <1>6 DEF seq

-----------------------------------------------------------------------------
(* All that a packet with the number s pushes out of the window is         *)
(* decoded: no sender goes on before it was told so.                       *)
Clear(d, s) == \A x \in 0 .. s - Symbols - 1 : Ready(d, x)

LEMMA ClearNear ==
  ASSUME NEW d, SinkOk(d), NEW s \in Int, Clear(d, s)
  PROVE  s <= d.seq + Symbols
<1>0. /\ d.seq \in Nat /\ Symbols \in Nat \ {0} /\ Low(d) \in Nat /\ Low(d) <= d.seq
      /\ \A v \in d.span : v \subseteq WindowOf(d.seq)
  <2>1. d.seq \in Nat /\ \A v \in d.span : v \subseteq WindowOf(d.seq)
    BY DEF SinkOk, SinkBody, SpanOk
  <2>2. Low(d) \in Nat /\ Low(d) = d.seq - d.rb.num_blocks
        /\ d.rb.num_blocks \in 0 .. Symbols /\ Symbols \in Nat \ {0}
    BY LowNat
  <2> QED
    BY <2>1, <2>2
<1> SUFFICES ASSUME s > d.seq + Symbols PROVE FALSE
  BY <1>0
<1>1. d.seq \in 0 .. s - Symbols - 1
  BY <1>0
<1>2. d.seq < Low(d) \/ {d.seq} \in d.span
  BY <1>1 DEF Clear, Ready
<1>3. {d.seq} \notin d.span
  <2>1. d.seq \notin WindowOf(d.seq)
    BY <1>0 DEF WindowOf
  <2> QED
    BY <1>0, <2>1
<1> QED
  BY <1>0, <1>2, <1>3

LEMMA DecSkipLostOn ==
  ASSUME NEW d, SinkOk(d), NEW s \in Int, Ring!RbLost(d.rb, s) # 0
  PROVE  LET n == DecSkipLost(d, s)
         IN /\ Low(d) <= Low(n)
            /\ Whole(d) /\ d.queue = <<>> /\ Clear(d, s) =>
                 Whole(n) /\ n.queue = <<>> /\ n.flush = s - Symbols
<1> DEFINE lost == Ring!RbLost(d.rb, s)
           stops == DecReadable(d) \cap 0 .. lost - 1
           k == IF stops = {} THEN lost ELSE SmallestIn(stops)
           head == d.has_source \/ stops # {}
           n == DecSkipLost(d, s)
           a == Ring!RbReadSeqno(d.rb)
           num == d.rb.num_blocks
<1>0. /\ SinkNumbers(d) /\ d.seq \in Nat /\ RingOk(d.rb, d.seq) /\ SinkBody(d)
      /\ a \in Nat /\ num \in 0 .. Symbols /\ Symbols \in Nat \ {0} /\ Low(d) = a
  <2>1. /\ SinkNumbers(d) /\ d.seq \in Nat /\ RingOk(d.rb, d.seq) /\ SinkBody(d)
    BY DEF SinkOk, SinkBody
  <2> QED
    BY <2>1, RingFacts DEF Low
<1>1. lost \in 0 .. num /\ lost > 0
  <2>1. lost \in 0 .. num
    BY <1>0, RingLostOk
  <2>2. lost # 0
    OBVIOUS
  <2> HIDE DEF lost
  <2> QED
    BY <1>0, <2>1, <2>2
<1>2. DecReadable(d) \in SUBSET (0 .. num - 1)
      /\ \A j \in 0 .. num - 1 : j \in DecReadable(d) <=> {a + j} \in d.span
  BY <1>0, ReadableIs
<1> HIDE DEF lost
<1>3. stops \in SUBSET (0 .. lost - 1)
      /\ (stops # {} => SmallestIn(stops) \in stops /\ \A j \in stops : SmallestIn(stops) <= j)
  <2>1. stops \in SUBSET (0 .. lost - 1) /\ 0 \in Int /\ lost - 1 \in Int
    BY <1>0, <1>1
  <2> HIDE DEF stops
  <2> QED
    BY <2>1, SmallestOf
<1> HIDE DEF stops
<1>4. k \in 0 .. num
  <2>1. CASE stops = {}
    BY <1>1, <2>1
  <2>2. CASE stops # {}
    <3>1. k \in 0 .. lost - 1
      BY <1>3, <2>2
    <3> HIDE DEF k
    <3> QED
      BY <1>0, <1>1, <3>1
  <2> QED
    BY <2>1, <2>2
<1>5. n = [d EXCEPT !.flush = s - Symbols, !.rb = Ring!RbRead(@, k), !.has_source = head]
  <2>1. n = [d EXCEPT !.flush = s - Symbols, !.rb = Ring!RbRead(@, k),
                      !.has_source = @ \/ stops # {}]
    BY DEF DecSkipLost, lost, stops
  <2> HIDE DEF n, k
  <2> QED
    BY <2>1, <1>0 DEF SinkNumbers, SinkShape, SinkFields
<1>6. ASSUME Whole(d), Clear(d, s)
      PROVE  /\ k = 0 /\ a < s - Symbols
             /\ \A x \in a .. s - Symbols - 1 : {x} \in d.span
  <2>1. s <= d.seq + Symbols
    BY <1>6, ClearNear
  <2>2. lost = s - Symbols - a /\ s - Symbols > a
    <3>1. lost = IF s - Symbols > a THEN s - Symbols - a ELSE 0
      BY <1>0, <2>1, RingLostIs DEF lost
    <3> QED
      BY <1>0, <1>1, <3>1
  <2>3. ASSUME NEW x \in a .. s - Symbols - 1 PROVE {x} \in d.span
    <3>1. x \in 0 .. s - Symbols - 1 /\ ~(x < a)
      BY <1>0, <2>3
    <3> QED
      BY <1>0, <1>6, <3>1 DEF Clear, Ready
  <2>4. 0 \in stops
    <3>1. 0 \in 0 .. num - 1 /\ 0 \in 0 .. lost - 1 /\ a + 0 = a
          /\ a \in a .. s - Symbols - 1
      BY <1>0, <1>1, <2>2
    <3>2. {a + 0} \in d.span
      BY <2>3, <3>1
    <3> QED
      BY <1>2, <3>1, <3>2 DEF stops
  <2>5. k <= 0
    BY <1>3, <2>4
  <2>6. k = 0
    <3> HIDE DEF k
    <3> QED
      BY <1>0, <1>4, <2>5
  <2> QED
    BY <2>2, <2>3, <2>6
<1>7. Ring!RbReadSeqno(Ring!RbRead(d.rb, k)) = a + k
  <2> HIDE DEF k
  <2> QED
    BY <1>0, <1>4, RingReadOk
<1> HIDE DEF n, k, head
<1>8. /\ n.flush = s - Symbols /\ n.queue = d.queue /\ n.read = d.read
      /\ n.rb = Ring!RbRead(d.rb, k) /\ n.span = d.span
  BY <1>0, <1>5 DEF SinkNumbers, SinkShape, SinkFields
<1>9. Low(n) = a + k
  BY <1>7, <1>8 DEF Low
<1>10. Low(d) <= Low(n)
  BY <1>0, <1>4, <1>9
<1>11. ASSUME Whole(d), d.queue = <<>>, Clear(d, s) PROVE Whole(n)
  <2>1. Low(n) = a /\ a < s - Symbols /\ \A x \in a .. s - Symbols - 1 : {x} \in d.span
    <3>1. k = 0 /\ a < s - Symbols /\ \A x \in a .. s - Symbols - 1 : {x} \in d.span
      BY <1>6, <1>11
    <3>2. a \in Nat
      BY <1>0
    <3> HIDE DEF a
    <3>3. Low(n) = a
      BY <1>9, <3>1, <3>2
    <3> QED
      BY <3>1, <3>3
  <2> HIDE DEF a
  <2>2. Low(n) <= n.flush /\ Low(n) < n.flush
    BY <1>0, <1>8, <2>1
  <2>3. \A x \in Low(n) .. n.flush - 1 : {x} \in n.span
    BY <1>8, <2>1
  <2> QED
    BY <1>0, <1>8, <1>11, <2>1, <2>2, <2>3 DEF Whole
<1> QED
  BY <1>8, <1>10, <1>11 DEF n

LEMMA DecQueueLostOn ==
  ASSUME NEW d, SinkOk(d), NEW s \in Int
  PROVE  LET n == DecQueueLost(d, s)
         IN /\ Low(d) <= Low(n)
            /\ Whole(d) /\ d.queue = <<>> /\ s <= d.seq + Symbols /\ s - Symbols <= d.flush =>
                 Whole(n) /\ s - Symbols <= Low(n)
<1> DEFINE lost == Ring!RbLost(d.rb, s)
           decoded == Sorted(DecReadable(d) \cap 0 .. lost - 1)
           rest == [d EXCEPT !.rb = Ring!RbRead(@, lost)]
           queue == [n \in DOMAIN decoded |->
                       SymbolAt(d.seq, Ring!RbSlot(d.rb, decoded[n]))]
           flush == IF Ring!RbReadSeqno(rest.rb) + Symbols < s
                    THEN Ring!RbReadSeqno(rest.rb) ELSE d.flush
           n == DecQueueLost(d, s)
           a == Ring!RbReadSeqno(d.rb)
           num == d.rb.num_blocks
<1>0. /\ SinkNumbers(d) /\ d.seq \in Nat /\ d.flush \in Nat /\ RingOk(d.rb, d.seq)
      /\ a \in Nat /\ num \in 0 .. Symbols /\ Symbols \in Nat \ {0} /\ SinkBody(d)
      /\ Low(d) = a /\ d.read \in Seq(Nat)
  <2>1. /\ SinkNumbers(d) /\ d.seq \in Nat /\ d.flush \in Nat /\ RingOk(d.rb, d.seq)
        /\ SinkBody(d) /\ d.read \in Seq(Nat)
    BY DEF SinkOk, SinkBody, ReadOk
  <2> QED
    BY <2>1, RingFacts DEF Low
<1>1. lost \in 0 .. num
  BY <1>0, RingLostOk
<1>2. n = [rest EXCEPT !.queue = queue, !.flush = flush, !.has_source = FALSE]
  <2>1. n = [rest EXCEPT !.queue = queue,
               !.flush = IF Ring!RbReadSeqno(rest.rb) + Symbols < s
                         THEN Ring!RbReadSeqno(rest.rb) ELSE @,
               !.has_source = FALSE]
    BY DEF DecQueueLost, DecQueue
  <2>2. /\ DOMAIN rest = DOMAIN d /\ rest.flush = d.flush
    BY <1>0 DEF SinkNumbers, SinkShape, SinkFields
  <2> HIDE DEF n, queue, rest
  <2> QED
    BY <2>1, <2>2, <1>0 DEF SinkNumbers, SinkShape, SinkFields
<1>3. s <= d.seq + Symbols => lost = IF s - Symbols > a THEN s - Symbols - a ELSE 0
  BY <1>0, RingLostIs
<1> HIDE DEF lost
<1>4. Ring!RbReadSeqno(Ring!RbRead(d.rb, lost)) = a + lost
  BY <1>0, <1>1, RingReadOk
<1>5. /\ DOMAIN rest = DOMAIN d /\ rest = [y \in DOMAIN d |-> rest[y]]
      /\ rest.read = d.read /\ rest.rb = Ring!RbRead(d.rb, lost) /\ rest.span = d.span
  BY <1>0 DEF SinkNumbers, SinkShape, SinkFields
<1> HIDE DEF rest, queue
<1>6. Ring!RbReadSeqno(rest.rb) = a + lost
  BY <1>4, <1>5
<1> HIDE DEF n
<1>7. /\ n.flush = flush /\ n.queue = queue /\ n.read = d.read /\ n.span = d.span
      /\ n.rb = Ring!RbRead(d.rb, lost) /\ n.has_source = FALSE
  <2> HIDE DEF flush
  <2> QED
    BY <1>0, <1>2, <1>5 DEF SinkNumbers, SinkShape, SinkFields
<1>8. Low(n) = a + lost
  BY <1>4, <1>7 DEF Low
<1>9. Low(d) <= Low(n)
  <2> HIDE DEF a
  <2> QED
    BY <1>0, <1>1, <1>8
<1>10. ASSUME Whole(d), d.queue = <<>>, s <= d.seq + Symbols, s - Symbols <= d.flush
       PROVE  Whole(n) /\ s - Symbols <= Low(n)
  <2>1. /\ a <= d.flush /\ (\A x \in a .. d.flush - 1 : {x} \in d.span)
        /\ (\A m \in DOMAIN d.read : d.read[m] = m - 1) /\ Len(d.read) = a
    <3>1. /\ a <= d.flush /\ (\A x \in a .. d.flush - 1 : {x} \in d.span)
          /\ (\A m \in DOMAIN d.read : d.read[m] = m - 1)
          /\ Len(d.read) + Len(d.queue) = a
      BY <1>0, <1>10 DEF Whole
    <3>2. Len(d.queue) = 0 /\ Len(d.read) \in Nat
      BY <1>0, <1>10
    <3>3. a \in Nat
      BY <1>0
    <3> HIDE DEF a
    <3>4. Len(d.read) = a
      BY <3>1, <3>2, <3>3
    <3> QED
      BY <3>1, <3>4
  <2>2. a + lost <= d.flush /\ s - Symbols <= a + lost /\ lost \in Nat /\ lost <= num
    <3> HIDE DEF a, num
    <3> QED
      BY <1>0, <1>1, <1>3, <1>10, <2>1
  <2>3. DecReadable(d) \cap 0 .. lost - 1 = 0 .. lost - 1
    <3> SUFFICES ASSUME NEW j \in 0 .. lost - 1 PROVE j \in DecReadable(d)
      BY Zenon
    <3>1. j \in 0 .. num - 1
      <4> HIDE DEF num
      <4> QED
        BY <1>0, <2>2
    <3>2. a + j \in a .. d.flush - 1
      <4> HIDE DEF a
      <4> QED
        BY <1>0, <2>2
    <3>3. {a + j} \in d.span
      BY <2>1, <3>2, Zenon
    <3> QED
      BY <1>0, <3>1, <3>3, ReadableIs
  <2>4. DOMAIN decoded = 1 .. lost /\ \A m \in 1 .. lost : decoded[m] = m - 1
    BY <2>2, <2>3, SortedAll
  <2> HIDE DEF decoded
  <2>5. ASSUME NEW m \in 1 .. lost PROVE queue[m] = a + m - 1
    <3>1. decoded[m] = m - 1 /\ m \in DOMAIN decoded
      BY <2>4
    <3>2. m - 1 \in 0 .. num - 1
      <4> HIDE DEF num
      <4> QED
        BY <1>0, <2>2
    <3>3. SymbolAt(d.seq, Ring!RbSlot(d.rb, m - 1)) = a + (m - 1)
      BY <1>0, <3>2, RingSlotOk
    <3>4. queue[m] = SymbolAt(d.seq, Ring!RbSlot(d.rb, decoded[m]))
      BY <3>1 DEF queue
    <3>5. a + (m - 1) = a + m - 1
      <4> HIDE DEF a
      <4> QED
        BY <1>0
    <3> QED
      BY <3>1, <3>3, <3>4, <3>5
  <2>6. DOMAIN queue = 1 .. lost /\ Len(queue) = lost
    <3>1. DOMAIN queue = 1 .. lost
      BY <2>4 DEF queue
    <3>2. queue = [m \in 1 .. lost |-> queue[m]]
      BY <2>4 DEF queue
    <3>3. queue \in [1 .. lost -> Nat]
      <4>1. \A m \in 1 .. lost : queue[m] \in Nat
        <5> SUFFICES ASSUME NEW m \in 1 .. lost PROVE queue[m] \in Nat
          OBVIOUS
        <5>1. queue[m] = a + m - 1
          BY <2>5
        <5> HIDE DEF a
        <5> QED
          BY <1>0, <5>1
      <4> QED
        BY <3>1, <3>2, <4>1
    <3>4. queue \in Seq(Nat)
      BY <2>2, <3>3, SeqDef
    <3> QED
      BY <2>2, <3>1, <3>4, LenProperties
  <2>7. flush = d.flush
    <3> HIDE DEF a
    <3> QED
      BY <1>0, <1>6, <2>2
  <2> HIDE DEF flush
  <2>8. Low(n) <= n.flush /\ s - Symbols <= Low(n)
    BY <1>7, <1>8, <2>2, <2>7
  <2>9. \A x \in Low(n) .. n.flush - 1 : {x} \in n.span
    <3> SUFFICES ASSUME NEW x \in a + lost .. d.flush - 1 PROVE {x} \in d.span
      BY <1>7, <1>8, <2>7
    <3>1. x \in a .. d.flush - 1
      <4> HIDE DEF a
      <4> QED
        BY <1>0, <2>2
    <3> QED
      BY <2>1, <3>1, Zenon
  <2>10. \A m \in DOMAIN n.queue : n.queue[m] = Len(n.read) + m - 1
    BY <1>7, <2>1, <2>5, <2>6
  <2>11. Len(n.read) + Len(n.queue) = Low(n)
    BY <1>7, <1>8, <2>1, <2>6
  <2> QED
    BY <1>7, <2>1, <2>8, <2>9, <2>10, <2>11 DEF Whole
<1> QED
  BY <1>9, <1>10 DEF n

LEMMA DecConsumeOldOn ==
  ASSUME NEW d, SinkOk(d), NEW s \in Int
  PROVE  LET n == DecConsumeOld(d, s)
         IN /\ Low(d) <= Low(n)
            /\ Whole(d) /\ d.queue = <<>> /\ Clear(d, s) =>
                 Whole(n) /\ s - Symbols <= Low(n)
<1> DEFINE a == DecSkipLost(d, s)
           b == DecSourceReady(a)
           c == DecQueueLost(b, s)
<1>0. /\ d.seq \in Nat /\ Low(d) \in Nat /\ Low(d) = d.seq - d.rb.num_blocks
      /\ d.rb.num_blocks \in 0 .. Symbols /\ Symbols \in Nat \ {0} /\ RingOk(d.rb, d.seq)
      /\ d.rb.write_seqno = d.seq
  <2>1. d.seq \in Nat /\ RingOk(d.rb, d.seq)
    BY DEF SinkOk, SinkBody
  <2> QED
    BY <2>1, LowNat, RingFacts
<1>1. CASE Ring!RbOutdated(d.rb, s) \/ Ring!RbLost(d.rb, s) = 0
  <2>1. DecConsumeOld(d, s) = d
    BY <1>1 DEF DecConsumeOld
  <2>2. ASSUME Clear(d, s) PROVE s - Symbols <= Low(d)
    <3>1. s <= d.seq + Symbols
      BY <2>2, ClearNear
    <3>2. CASE Ring!RbOutdated(d.rb, s)
      BY <1>0, <3>2 DEF Ring!RbOutdated
    <3>3. CASE Ring!RbLost(d.rb, s) = 0
      <4>1. Ring!RbLost(d.rb, s) = IF s - Symbols > Low(d) THEN s - Symbols - Low(d) ELSE 0
        BY <1>0, <3>1, RingLostIs DEF Low
      <4> QED
        BY <1>0, <3>3, <4>1
    <3> QED
      BY <1>1, <3>2, <3>3
  <2> QED
    BY <1>0, <2>1, <2>2
<1>2. CASE ~(Ring!RbOutdated(d.rb, s) \/ Ring!RbLost(d.rb, s) = 0)
  <2>1. SinkOk(a) /\ SinkSame(a, d)
    BY <1>2, DecSkipLostOk
  <2>2. /\ Low(d) <= Low(a)
        /\ Whole(d) /\ d.queue = <<>> /\ Clear(d, s) =>
             Whole(a) /\ a.queue = <<>> /\ a.flush = s - Symbols
    BY <1>2, DecSkipLostOn
  <2>3. DecConsumeOld(d, s) = c
    BY <1>2 DEF DecConsumeOld
  <2> HIDE DEF a
  <2>4. SinkOk(b) /\ SinkSame(b, a)
    BY <2>1, DecSourceReadyOk
  <2>5. /\ Low(a) <= Low(b)
        /\ Whole(a) => /\ Whole(b) /\ b.flush >= a.flush
                       /\ a.queue = <<>> => b.queue = <<>>
    BY <2>1, DecSourceReadyOn
  <2> HIDE DEF b
  <2>6. SinkOk(c)
    BY <2>4, DecQueueLostOk
  <2>7. /\ Low(b) <= Low(c)
        /\ Whole(b) /\ b.queue = <<>> /\ s <= b.seq + Symbols /\ s - Symbols <= b.flush =>
             Whole(c) /\ s - Symbols <= Low(c)
    BY <2>4, DecQueueLostOn
  <2> HIDE DEF c
  <2>8. Low(a) \in Nat /\ Low(b) \in Nat /\ Low(c) \in Nat
    BY <2>1, <2>4, <2>6, LowNat
  <2>9. Low(d) <= Low(c)
    BY <1>0, <2>2, <2>5, <2>7, <2>8
  <2>10. a.seq = d.seq /\ b.seq = d.seq
    BY <2>1, <2>4 DEF SinkSame, SinkChanges, SinkOk, SinkBody, SinkNumbers, SinkShape, SinkFields
  <2>11. ASSUME Whole(d), d.queue = <<>>, Clear(d, s)
         PROVE  Whole(c) /\ s - Symbols <= Low(c)
    <3>1. s <= b.seq + Symbols
      BY <2>10, <2>11, ClearNear
    <3>2. Whole(b) /\ b.queue = <<>> /\ b.flush >= s - Symbols
      BY <2>2, <2>5, <2>11
    <3>3. s - Symbols <= b.flush
      <4>1. b.flush \in Nat
        BY <2>4 DEF SinkOk, SinkBody
      <4> QED
        BY <1>0, <3>2, <4>1
    <3> QED
      BY <2>7, <3>1, <3>2, <3>3
  <2> QED
    BY <2>3, <2>9, <2>11
<1> QED
  BY <1>1, <1>2

-----------------------------------------------------------------------------
(* Reading a packet loses nothing that was seen or decoded and not yet     *)
(* passed: a row whose pivot is at the head of the ring or after it is     *)
(* within the window also when the window has moved.                       *)
LEMMA KodoKeeps ==
  ASSUME NEW seq \in Nat, NEW span, SpanOk(span, seq), NEW pkt, PacketOk(pkt),
         NEW s \in Int, KodoSeq(seq, span, pkt) - Symbols <= s
  PROVE  /\ s \in Pivots(span) => s \in Pivots(KodoSpan(seq, span, pkt))
         /\ {s} \in span => {s} \in KodoSpan(seq, span, pkt)
<1> DEFINE now == KodoSeq(seq, span, pkt)
           kept == Kept(span, now)
           result == KodoSpan(seq, span, pkt)
<1>0. /\ Symbols \in Nat \ {0} /\ now \in Nat /\ seq <= now
      /\ \A v \in span : v \subseteq WindowOf(seq)
  <2>1. now = IF pkt.seq > seq THEN pkt.seq ELSE seq
    BY KodoReads
  <2>2. pkt.seq \in Nat
    BY DEF PacketOk
  <2> HIDE DEF now
  <2> QED
    BY <2>1, <2>2, SymbolsAssumption DEF SpanOk
<1>1. kept \subseteq result
  <2>1. result = IF pkt.seq > now - Symbols /\ pkt.vec \subseteq WindowOf(now)
                 THEN ReadPayload(kept, pkt.vec) ELSE kept
    BY DEF KodoSpan
  <2> HIDE DEF result, kept, now
  <2> QED
    BY <2>1 DEF ReadPayload
<1> HIDE DEF now, result
<1>2. ASSUME NEW v \in span, \A j \in v : s <= j PROVE v \in result
  <2>1. v \subseteq WindowOf(now)
    <3> SUFFICES ASSUME NEW j \in v PROVE j \in WindowOf(now)
      OBVIOUS
    <3>1. j \in WindowOf(seq) /\ s <= j
      BY <1>0, <1>2
    <3>2. now - Symbols <= s
      BY DEF now
    <3> QED
      BY <1>0, <3>1, <3>2 DEF WindowOf
  <2> QED
    BY <1>1, <2>1 DEF Kept
<1>3. ASSUME {s} \in span PROVE {s} \in result
  BY <1>2, <1>3
<1>4. ASSUME s \in Pivots(span) PROVE s \in Pivots(result)
  <2>1. PICK v \in span \ {{}} : s = Pivot(v)
    BY <1>4 DEF Pivots
  <2>2. v \subseteq seq - Symbols .. seq - 1 /\ v # {}
    BY <1>0, <2>1 DEF WindowOf
  <2>3. \A j \in v : s <= j
    <3>1. SmallestIn(v) \in v /\ \A j \in v : SmallestIn(v) <= j
      <4>1. seq - Symbols \in Int /\ seq - 1 \in Int
        BY <1>0
      <4> QED
        BY <2>2, <4>1, SmallestOf
    <3>2. Pivot(v) = SmallestIn(v)
      BY DEF Pivot, SmallestIn
    <3> QED
      BY <2>1, <3>1, <3>2
  <2> QED
    BY <1>2, <2>1, <2>3 DEF Pivots
<1> QED
  BY <1>3, <1>4 DEF now, result

LEMMA DecReadOn ==
  ASSUME NEW d, SinkOk(d), NEW pkt, PacketOk(pkt), NEW n,
         DOMAIN n = DOMAIN d, n = [x \in DOMAIN d |-> n[x]],
         n.seq = KodoSeq(d.seq, d.span, pkt), n.span = KodoSpan(d.seq, d.span, pkt),
         n.rb = Ring!RbInsert(d.rb, pkt.seq),
         n.flush = d.flush, n.has_source = d.has_source, n.queue = d.queue, n.read = d.read
  PROVE  LET head == [n EXCEPT !.has_source = ~Ring!RbEmpty(n.rb) /\ 0 \in DecReadable(n)]
             next == [head EXCEPT !.flush = DecFlushAfter(head)]
         IN /\ Grown(next, d)
            /\ Whole(d) /\ pkt.seq - Symbols <= Low(d) => Whole(next)
<1> DEFINE ready == ~Ring!RbEmpty(n.rb) /\ 0 \in DecReadable(n)
           head == [n EXCEPT !.has_source = ready]
           next == [head EXCEPT !.flush = DecFlushAfter(head)]
<1>0. /\ d.seq \in Nat /\ d.flush \in Nat /\ RingOk(d.rb, d.seq)
      /\ SpanOk(d.span, d.seq) /\ pkt.seq \in Nat \ {0} /\ Low(d) \in Nat
      /\ Symbols \in Nat \ {0} /\ SinkNumbers(d)
  <2>1. /\ d.seq \in Nat /\ d.flush \in Nat /\ RingOk(d.rb, d.seq)
        /\ SpanOk(d.span, d.seq) /\ pkt.seq \in Nat \ {0} /\ SinkNumbers(d)
    BY DEF SinkOk, SinkBody, PacketOk
  <2> QED
    BY <2>1, LowNat
<1>1. n.seq = (IF pkt.seq > d.seq THEN pkt.seq ELSE d.seq) /\ n.seq \in Nat
  BY <1>0, KodoReads
<1>2. /\ SinkBody(n)
  BY SinkReadsOk, ZenonT(40)
<1>3. RingOk(n.rb, n.seq) /\ Low(d) <= Low(n)
  BY <1>0, <1>1, RingInsertOk DEF Low
<1>4. /\ Low(n) \in Nat /\ n.seq - Symbols <= Low(n) /\ n.rb.num_blocks \in Nat
      /\ n.rb.num_blocks \in 0 .. Symbols
  <2>1. /\ n.rb.num_blocks \in 0 .. Symbols /\ Low(n) = n.seq - n.rb.num_blocks
        /\ Low(n) \in Nat
    BY <1>1, <1>3, RingFacts DEF Low
  <2> QED
    BY <1>0, <1>1, <2>1
<1>5. ready \in BOOLEAN
  OBVIOUS
<1>6. ready => {Low(n)} \in n.span
  <2> SUFFICES ASSUME ready PROVE {Low(n)} \in n.span
    OBVIOUS
  <2>1. 0 \in DecReadable(n) /\ DecReadable(n) \in SUBSET (0 .. n.rb.num_blocks - 1)
    BY <1>2, ReadableIs
  <2>2. {Low(n) + 0} \in n.span
    BY <1>2, <2>1, ReadableIs DEF Low
  <2>3. Low(n) + 0 = Low(n)
    BY <1>4
  <2> QED
    BY <2>2, <2>3
<1> HIDE DEF ready
<1>7. /\ DOMAIN head = DOMAIN n /\ head.rb = n.rb /\ head.has_source = ready
      /\ head.flush = d.flush /\ head.queue = d.queue /\ head.read = d.read
      /\ head.span = n.span /\ SinkFields \subseteq DOMAIN n
  BY <1>2 DEF SinkBody, SinkNumbers, SinkShape, SinkFields
<1> HIDE DEF head
<1>8. /\ next.rb = n.rb /\ next.has_source = ready /\ next.flush = DecFlushAfter(head)
      /\ next.queue = d.queue /\ next.read = d.read /\ next.span = n.span
  BY <1>7 DEF SinkFields, next
<1>9. DecFlushAfter(head) = IF ready /\ d.flush = Low(n) THEN d.flush + 1 ELSE d.flush
  BY <1>7 DEF DecFlushAfter, Low
<1> HIDE DEF next
<1>10. Low(next) = Low(n)
  BY <1>8 DEF Low
<1>11. Grown(next, d)
  <2> SUFFICES ASSUME NEW s \in Int
               PROVE  (Seen(d, s) => Seen(next, s)) /\ (Ready(d, s) => Ready(next, s))
    BY DEF Grown
  <2>1. CASE s < Low(n)
    BY <1>10, <2>1 DEF Seen, Ready
  <2>2. CASE ~(s < Low(n))
    <3>1. n.seq - Symbols <= s /\ ~(s < Low(d))
      BY <1>0, <1>1, <1>3, <1>4, <2>2
    <3>2. /\ s \in Pivots(d.span) => s \in Pivots(n.span)
          /\ {s} \in d.span => {s} \in n.span
      <4> DEFINE seq == d.seq
                 span == d.span
      <4>1. /\ seq \in Nat /\ SpanOk(span, seq) /\ KodoSeq(seq, span, pkt) - Symbols <= s
            /\ n.span = KodoSpan(seq, span, pkt)
        BY <1>0, <3>1
      <4> HIDE DEF seq, span
      <4>2. /\ s \in Pivots(span) => s \in Pivots(KodoSpan(seq, span, pkt))
            /\ {s} \in span => {s} \in KodoSpan(seq, span, pkt)
        BY <4>1, KodoKeeps
      <4> QED
        BY <4>1, <4>2 DEF seq, span
    <3> QED
      BY <1>8, <3>1, <3>2 DEF Seen, Ready
  <2> QED
    BY <2>1, <2>2
<1>12. ASSUME Whole(d), pkt.seq - Symbols <= Low(d) PROVE Whole(next)
  <2>1. Low(n) = Low(d)
    BY <1>0, <1>12, RingInsertLow DEF Low
  <2>2. Low(n) <= d.flush /\ \A s \in Low(n) .. d.flush - 1 : {s} \in n.span
    <3>1. Low(d) <= d.flush /\ \A s \in Low(d) .. d.flush - 1 : {s} \in d.span
      BY <1>12 DEF Whole
    <3>2. ASSUME NEW s \in Low(d) .. d.flush - 1 PROVE {s} \in n.span
      <4>1. n.seq - Symbols <= s /\ s \in Int
        BY <1>0, <1>1, <1>4, <2>1
      <4>2. {s} \in d.span
        BY <3>1
      <4> QED
        BY <1>0, <4>1, <4>2, KodoKeeps
    <3> QED
      BY <2>1, <3>1, <3>2
  <2>3. /\ Low(n) <= next.flush
        /\ \A s \in Low(n) .. next.flush - 1 : {s} \in n.span
        /\ ready => Low(n) < next.flush
    <3> DEFINE low == Low(n)
               flush == d.flush
               span == n.span
               f == next.flush
    <3>1. /\ low \in Nat /\ flush \in Nat /\ low <= flush
          /\ \A s \in low .. flush - 1 : {s} \in span
          /\ (f = flush \/ (flush = low /\ f = flush + 1 /\ {low} \in span))
          /\ (ready /\ f = flush => low # flush)
      BY <1>0, <1>4, <1>5, <1>6, <1>8, <1>9, <2>2
    <3> HIDE DEF low, flush, span, f
    <3>2. /\ low <= f /\ flush <= f /\ f \in Nat /\ \A s \in low .. f - 1 : {s} \in span
          /\ f = low => f = flush
      BY <3>1, WholeFlush
    <3>3. ready => low < f
      BY <3>1, <3>2
    <3> QED
      BY <3>2, <3>3 DEF low, flush, span, f
  <2> QED
    BY <1>8, <1>10, <1>12, <2>1, <2>3 DEF Whole
<1> QED
  BY <1>11, <1>12 DEF next, head, ready

-----------------------------------------------------------------------------
(* The reliable stream at the decoder: whole, and no timer will make it    *)
(* give anything up.                                                       *)
Steady(d) == Whole(d) /\ d.initialized /\ ~d.timer /\ ~d.fb_timer

(* Fields of the sink as they were, and the same stream.                   *)
LEMMA SinkLike ==
  ASSUME NEW d, NEW n, SinkNumbers(d), \A x \in SinkFields : n[x] = d[x]
  PROVE  Low(n) = Low(d) /\ Grown(n, d) /\ (Whole(d) => Whole(n))
<1>1. /\ n.rb = d.rb /\ n.flush = d.flush /\ n.span = d.span /\ n.read = d.read
      /\ n.queue = d.queue /\ n.has_source = d.has_source
  BY DEF SinkFields
<1>2. Low(n) = Low(d)
  BY <1>1 DEF Low
<1>3. Grown(n, d)
  BY <1>1, <1>2 DEF Grown, Seen, Ready
<1>4. Whole(d) => Whole(n)
  BY <1>1, <1>2 DEF Whole
<1> QED
  BY <1>2, <1>3, <1>4

LEMMA DecPutCodedOn ==
  ASSUME NEW d, DecOk(d), NEW pkt, PacketOk(pkt), opt \in Options
  PROVE  LET n == DecPutCoded(d, pkt)
         IN /\ Grown(n, d)
            /\ Reliable /\ Steady(d) /\ d.queue = <<>> /\ Clear(d, pkt.seq) => Steady(n)
<1> DEFINE init == DecInitialize(d, pkt)
           old == DecConsumeOld(init, pkt.seq)
           new == DecRead(old, pkt)
           ready == ~Ring!RbEmpty(new.rb) /\ 0 \in DecReadable(new)
           head == [new EXCEPT !.has_source = ready]
           next == [head EXCEPT !.flush = DecFlushAfter(head)]
           feedback == \/ next.has_feedback \/ pkt.asks \/ pkt.flush
                       \/ DecFeedbackRequired(new, Rank(old.span), old.seq)
           fb_timer == next.fb_timer \/ (opt.feedback /\ opt.fb_timeout)
           timer == \/ next.timer
                    \/ (~opt.feedback /\ opt.dec_timeout /\ next.flush # next.seq)
           last == [next EXCEPT
             !.has_feedback = \/ @ \/ pkt.asks \/ pkt.flush
                              \/ DecFeedbackRequired(new, Rank(old.span), old.seq),
             !.fb_timer = @ \/ (opt.feedback /\ opt.fb_timeout),
             !.timer = @ \/ (~opt.feedback /\ opt.dec_timeout /\ next.flush # next.seq)]
<1>0. pkt.seq \in Nat \ {0} /\ pkt.no \in Nat /\ pkt.seq \in Int
  BY DEF PacketOk
<1>00. SinkNumbers(d) /\ SinkOk(d) /\ DecRest(d)
  BY DEF DecOk, SinkOk, SinkBody
<1>1. SinkOk(init) /\ DecRest(init) /\ Grown(init, d) /\ (d.initialized => init = d)
  <2> DEFINE n == [d EXCEPT !.initialized = TRUE, !.flush = pkt.seq - 1]
  <2>1. /\ DOMAIN n = DOMAIN d /\ n = [x \in DOMAIN d |-> n[x]]
        /\ \A x \in SinkFields \ {"flush"} : n[x] = d[x]
    BY <1>00 DEF SinkNumbers, SinkShape, SinkFields
  <2>2. n.flush = pkt.seq - 1 /\ n.rb = d.rb /\ n.span = d.span
    BY <1>00 DEF SinkNumbers, SinkShape, SinkFields
  <2>3. DecRest(n)
    BY <1>00 DEF DecRest, DecExtras
  <2>0. init = IF d.initialized THEN d ELSE n
    BY DEF DecInitialize
  <2> HIDE DEF n, init
  <2>4. n.flush \in Nat
    BY <1>0, <2>2
  <2>5. SinkOk(n)
    BY <1>00, <2>1, <2>4, SinkOkLike
  <2>6. Grown(n, d) /\ Grown(d, d)
    BY <2>2 DEF Grown, Seen, Ready, Low
  <2> QED
    BY <1>00, <2>0, <2>3, <2>5, <2>6
<1> HIDE DEF init
<1>2. SinkOk(old) /\ SinkSame(old, init)
  BY <1>0, <1>1, DecConsumeOldOk
<1>3. /\ Low(init) <= Low(old)
      /\ Whole(init) /\ init.queue = <<>> /\ Clear(init, pkt.seq) =>
           Whole(old) /\ pkt.seq - Symbols <= Low(old)
  BY <1>0, <1>1, DecConsumeOldOn
<1> HIDE DEF old
<1>4. Grown(old, init) /\ DecRest(old)
  BY <1>1, <1>2, <1>3, GrownSame, DecRestSame
<1>5. /\ DOMAIN new = DOMAIN old /\ new = [x \in DOMAIN old |-> new[x]]
      /\ new.seq = KodoSeq(old.seq, old.span, pkt)
      /\ new.span = KodoSpan(old.seq, old.span, pkt)
      /\ new.rb = Ring!RbInsert(old.rb, pkt.seq)
      /\ new.flush = old.flush /\ new.has_source = old.has_source
      /\ new.queue = old.queue /\ new.read = old.read
  <2>1. SinkShape(old)
    BY <1>2 DEF SinkOk, SinkBody, SinkNumbers
  <2> QED
    BY <2>1, ZenonT(40) DEF DecRead, SinkShape, SinkFields
<1>6. DecRest(new) /\ new.initialized = old.initialized /\ new.timer = old.timer
      /\ new.fb_timer = old.fb_timer
  <2>1. 0 \in 0 .. opt.fb_tx
    BY OptionsAssumption DEF ValidOptions, ValidEnds
  <2> QED
    BY <1>0, <1>4, <2>1 DEF DecRead, DecRest, DecExtras
<1>7. DecPutCoded(d, pkt) = DecSourceReady(last)
  BY DEF DecPutCoded, init, old
<1> HIDE DEF new
<1>8. /\ Grown(next, old)
      /\ Whole(old) /\ pkt.seq - Symbols <= Low(old) => Whole(next)
  BY <1>2, <1>5, DecReadOn, ZenonT(40)
<1>9. /\ SinkOk(next) /\ SinkSame(next, new) /\ SinkBody(new)
  BY <1>2, <1>5, SinkReadsOk, ZenonT(40)
<1> HIDE DEF ready, next
<1>10. /\ DecRest(next) /\ next.initialized = new.initialized /\ next.timer = new.timer
       /\ next.fb_timer = new.fb_timer
  BY <1>6, <1>9 DEF DecRest, SinkSame, SinkChanges, DecExtras, SinkBody, SinkNumbers, SinkShape, SinkFields
<1>11. /\ last.initialized = next.initialized /\ last.timer = timer /\ last.fb_timer = fb_timer
       /\ SinkOk(last) /\ Grown(last, next) /\ (Whole(next) => Whole(last))
       /\ DOMAIN last = DOMAIN next
  <2>1. last = [next EXCEPT !.has_feedback = feedback, !.fb_timer = fb_timer, !.timer = timer]
    <3> HIDE DEF new, old
    <3> QED
      BY <1>10 DEF DecRest, DecExtras
  <2> HIDE DEF last, feedback, fb_timer, timer
  <2>2. /\ DOMAIN last = DOMAIN next /\ last = [x \in DOMAIN next |-> last[x]]
        /\ \A x \in SinkFields : last[x] = next[x]
    BY <1>9, <2>1 DEF SinkOk, SinkBody, SinkNumbers, SinkShape, SinkFields
  <2>3. last.flush \in Nat
    BY <1>9, <2>2 DEF SinkOk, SinkBody, SinkFields
  <2>4. SinkOk(last)
    BY <1>9, <2>2, <2>3, SinkOkLike
  <2>5. Grown(last, next) /\ (Whole(next) => Whole(last))
    <3>1. SinkNumbers(next)
      BY <1>9 DEF SinkOk, SinkBody
    <3> QED
      BY <2>2, <3>1, SinkLike
  <2>6. last.initialized = next.initialized /\ last.timer = timer /\ last.fb_timer = fb_timer
    BY <1>10, <2>1 DEF DecRest, DecExtras
  <2> QED
    BY <2>2, <2>4, <2>5, <2>6
<1> HIDE DEF last
<1> DEFINE n == DecSourceReady(last)
<1>12. SinkOk(n) /\ SinkSame(n, last)
  BY <1>11, DecSourceReadyOk
<1>13. Low(last) <= Low(n) /\ (Whole(last) => Whole(n))
  BY <1>11, DecSourceReadyOn
<1> HIDE DEF n
<1>14. Grown(n, d)
  <2>1. Grown(n, last)
    BY <1>11, <1>12, <1>13, GrownSame
  <2> QED
    BY <1>1, <1>4, <1>8, <1>11, <2>1 DEF Grown
<1>15. ASSUME Reliable, Steady(d), d.queue = <<>>, Clear(d, pkt.seq) PROVE Steady(n)
  <2>1. init = d /\ Whole(d) /\ d.initialized /\ ~d.timer /\ ~d.fb_timer
    BY <1>1, <1>15 DEF Steady
  <2>2. Whole(n)
    BY <1>3, <1>8, <1>11, <1>13, <1>15, <2>1
  <2>3. old.initialized = d.initialized /\ old.timer = d.timer /\ old.fb_timer = d.fb_timer
    BY <1>00, <1>2, <2>1 DEF SinkSame, SinkChanges, DecRest, DecExtras
  <2>4. last.initialized /\ ~last.timer /\ ~last.fb_timer
    <3>1. ~next.timer /\ ~next.fb_timer /\ next.initialized
      BY <1>6, <1>10, <2>1, <2>3
    <3>2. opt.feedback /\ ~opt.fb_timeout
      BY <1>15 DEF Reliable
    <3> QED
      BY <1>11, <3>1, <3>2
  <2>5. n.initialized = last.initialized /\ n.timer = last.timer /\ n.fb_timer = last.fb_timer
    BY <1>10, <1>11, <1>12 DEF SinkSame, SinkChanges, DecRest, DecExtras
  <2> QED
    BY <2>2, <2>4, <2>5 DEF Steady
<1> QED
  BY <1>7, <1>14, <1>15 DEF n

(* What is not put in, but flushed or asked for, loses nothing either.     *)
LEMMA DecFlushSourceOn ==
  ASSUME NEW d, DecOk(d)
  PROVE  Grown(DecFlushSource(d), d)
<1> DEFINE off == [d EXCEPT !.fb_timer = FALSE]
           ready == [off EXCEPT !.flush = off.seq]
           m == DecMoveToNext(ready)
<1>0. SinkOk(d) /\ DecRest(d) /\ SinkNumbers(d) /\ d.flush \in Nat
  BY DEF DecOk, SinkOk, SinkBody
<1>1. /\ DOMAIN off = DOMAIN d /\ off = [y \in DOMAIN d |-> off[y]]
      /\ \A y \in SinkFields : off[y] = d[y]
  BY <1>0 DEF SinkNumbers, SinkShape, SinkFields
<1>2. off.seq = d.seq /\ off.flush = d.flush
  BY <1>1 DEF SinkFields
<1>3. [d EXCEPT !.fb_timer = FALSE, !.flush = d.seq] = ready
  BY <1>2
<1>4. DecFlushSource(d) = IF Ring!RbEmpty(d.rb) THEN off
                          ELSE DecSourceReady(IF d.has_source THEN ready ELSE m)
  BY <1>3 DEF DecFlushSource
<1> HIDE DEF off
<1>5. SinkOk(off) /\ Grown(off, d)
  BY <1>0, <1>1, <1>2, SinkOkLike, SinkLike
<1>6. SinkOk(ready) /\ SinkSame(ready, off) /\ SinkOk(m) /\ SinkSame(m, off)
  BY <1>5, DecFlushOk
<1>7. Low(ready) = Low(off)
  <2>1. ready.rb = off.rb
    BY <1>5 DEF SinkOk, SinkBody, SinkNumbers, SinkShape, SinkFields
  <2> QED
    BY <2>1 DEF Low
<1> HIDE DEF ready
<1>8. Low(ready) <= Low(m)
  BY <1>6, DecMoveToNextOn
<1> HIDE DEF m
<1>9. ASSUME NEW x, SinkOk(x), SinkSame(x, off), Low(off) <= Low(x)
      PROVE  Grown(DecSourceReady(x), d)
  <2> DEFINE n == DecSourceReady(x)
  <2>1. SinkOk(n) /\ SinkSame(n, x) /\ Low(x) <= Low(n)
    BY <1>9, DecSourceReadyOk, DecSourceReadyOn
  <2> HIDE DEF n
  <2>2. Grown(x, off) /\ Grown(n, x)
    BY <1>5, <1>9, <2>1, GrownSame
  <2>3. Grown(n, d)
    BY <1>5, <2>2 DEF Grown
  <2> QED
    BY <2>3 DEF n
<1>10. Low(off) <= Low(ready) /\ Low(off) <= Low(m)
  <2>1. Low(off) \in Nat
    BY <1>5, LowNat
  <2> QED
    BY <1>7, <1>8, <2>1
<1>11. Grown(DecSourceReady(ready), d) /\ Grown(DecSourceReady(m), d)
  BY <1>6, <1>9, <1>10
<1> QED
  BY <1>4, <1>5, <1>11

LEMMA DecTimeoutOn ==
  ASSUME NEW d, DecOk(d), opt \in Options
  PROVE  Grown(DecTimeout(d), d) /\ Grown(DecFbTimeout(d), d)
<1>0. SinkOk(d) /\ DecRest(d) /\ SinkNumbers(d) /\ d.flush \in Nat
  BY DEF DecOk, SinkOk, SinkBody
<1>1. ASSUME NEW n, DOMAIN n = DOMAIN d, n = [x \in DOMAIN d |-> n[x]],
             \A x \in SinkFields : n[x] = d[x], DecRest(n)
      PROVE  Grown(n, d) /\ Grown(DecFlushSource(n), d)
  <2>1. n.flush \in Nat
    BY <1>0, <1>1 DEF SinkFields
  <2>2. SinkOk(n) /\ Grown(n, d)
    BY <1>0, <1>1, <2>1, SinkOkLike, SinkLike
  <2>3. Grown(DecFlushSource(n), n)
    BY <1>1, <2>2, DecFlushSourceOn DEF DecOk
  <2> QED
    BY <2>2, <2>3 DEF Grown
<1>2. Grown(DecTimeout(d), d)
  <2> DEFINE n == [d EXCEPT !.timer = FALSE]
  <2>1. DOMAIN n = DOMAIN d /\ n = [x \in DOMAIN d |-> n[x]] /\ \A x \in SinkFields : n[x] = d[x]
    BY <1>0 DEF SinkNumbers, SinkShape, SinkFields
  <2>2. DecRest(n)
    BY <1>0 DEF DecRest, DecExtras
  <2>3. DecTimeout(d) = DecFlushSource(n)
    BY DEF DecTimeout
  <2> HIDE DEF n
  <2> QED
    BY <1>1, <2>1, <2>2, <2>3
<1>3. Grown(DecFbTimeout(d), d)
  <2> DEFINE n == [d EXCEPT !.fb_timer = FALSE]
             more == n.feedback_tx_attempts + 1
             m == [n EXCEPT !.feedback_tx_attempts = more, !.has_feedback = TRUE]
  <2>1. DOMAIN n = DOMAIN d /\ n = [x \in DOMAIN d |-> n[x]] /\ \A x \in SinkFields : n[x] = d[x]
    BY <1>0 DEF SinkNumbers, SinkShape, SinkFields
  <2>2. DecRest(n)
    BY <1>0 DEF DecRest, DecExtras
  <2>3. DecFbTimeout(d) = IF d.feedback_tx_attempts >= opt.fb_tx THEN DecFlushSource(n) ELSE m
    BY DEF DecFbTimeout
  <2> HIDE DEF n, more
  <2>4. Grown(DecFlushSource(n), d)
    BY <1>1, <2>1, <2>2
  <2>5. Grown(m, d)
    <3>1. \A x \in SinkFields : m[x] = d[x]
      BY <1>0, <2>1 DEF SinkNumbers, SinkShape, SinkFields
    <3> HIDE DEF m
    <3> QED
      BY <1>0, <3>1, SinkLike
  <2> HIDE DEF m
  <2> QED
    BY <2>3, <2>4, <2>5
<1> QED
  BY <1>2, <1>3

LEMMA DecGetFeedbackOn ==
  ASSUME NEW d, DecOk(d)
  PROVE  /\ Grown(DecGetFeedback(d), d)
         /\ Reliable /\ Steady(d) => Steady(DecGetFeedback(d))
<1> DEFINE fail == d.failed \/ d.seq - Ring!RbReadSeqno(d.rb) \notin 0 .. Symbols
           fbno == IF opt.relay THEN d.feedback_no + 1 ELSE d.feedback_no
           tm == IF opt.fb_timeout THEN ~Ring!RbEmpty(d.rb) ELSE d.fb_timer
           n == [d EXCEPT !.has_feedback = FALSE, !.feedback_no = fbno,
                          !.fb_timer = tm, !.failed = fail]
<1>0. SinkOk(d) /\ DecRest(d) /\ SinkNumbers(d)
  BY DEF DecOk, SinkOk, SinkBody
<1>1. DecGetFeedback(d) = n
  BY <1>0 DEF DecGetFeedback, DecRest, DecExtras
<1>2. ~opt.fb_timeout => tm = d.fb_timer
  OBVIOUS
<1> HIDE DEF fail, fbno, tm
<1>3. /\ \A x \in SinkFields : n[x] = d[x]
      /\ n.fb_timer = tm /\ n.initialized = d.initialized /\ n.timer = d.timer
  BY <1>0 DEF SinkNumbers, SinkShape, SinkFields, DecRest, DecExtras
<1> HIDE DEF n
<1>4. Grown(n, d) /\ (Whole(d) => Whole(n))
  BY <1>0, <1>3, SinkLike
<1> QED
  BY <1>1, <1>2, <1>3, <1>4 DEF Steady, Reliable

(* A decoder's report is honest.                                           *)
LEMMA DecFeedbackHonest ==
  ASSUME NEW d, DecOk(d)
  PROVE  Honest(DecFeedback(d), d)
<1> DEFINE m == DecFeedback(d)
           U == {s \in DecWindow(d) : ~DecDecoded(d, Slot(s))}
           T == {t \in DecWindow(d) : SymbolAt(d.seq, Slot(t)) \notin Pivots(d.span)}
<1>0. /\ Low(d) \in Nat /\ d.seq \in Nat /\ d.seq - Symbols <= Low(d)
      /\ Symbols \in Nat \ {0} /\ DecWindow(d) = Low(d) .. d.seq - 1
  <2>1. /\ Low(d) \in Nat /\ Low(d) = d.seq - d.rb.num_blocks /\ d.seq \in Nat
        /\ d.rb.num_blocks \in 0 .. Symbols /\ Symbols \in Nat \ {0}
    BY LowNat DEF DecOk
  <2> QED
    BY <2>1 DEF DecWindow, Low
<1>1. ASSUME NEW s \in DecWindow(d) PROVE SymbolAt(d.seq, Slot(s)) = s /\ s \in Int
  <2>1. s \in WindowOf(d.seq) /\ s \in Int
    BY <1>0 DEF WindowOf
  <2> QED
    BY <1>0, <2>1, SlotSymbol
<1>2. m.seq = d.seq /\ m.missing = {Slot(s) : s \in T} /\ m.first_missing = DecFirstMissing(d)
  BY DEF DecFeedback
<1> HIDE DEF m
<1>3. ASSUME NEW s \in 0 .. m.seq - 1, Slot(s) \notin m.missing PROVE Seen(d, s)
  <2>1. CASE s < Low(d)
    BY <2>1 DEF Seen
  <2>2. CASE ~(s < Low(d))
    <3>1. s \in DecWindow(d)
      BY <1>0, <1>2, <2>2
    <3>2. s \notin T
      BY <1>2, <1>3
    <3>3. SymbolAt(d.seq, Slot(s)) = s
      BY <1>1, <3>1
    <3>4. s \in Pivots(d.span)
      BY <3>1, <3>2, <3>3
    <3> QED
      BY <3>4 DEF Seen
  <2> QED
    BY <2>1, <2>2
<1>4. ASSUME NEW s \in DecWindow(d), s \notin U PROVE {s} \in d.span
  BY <1>1, <1>4 DEF DecDecoded, IsSymbolUncoded
<1>5. ASSUME NEW s \in 0 .. m.first_missing - 1 PROVE Ready(d, s)
  <2>1. m.first_missing = IF U = {} THEN d.seq ELSE SmallestIn(U)
    BY <1>2 DEF DecFirstMissing
  <2>2. U \subseteq Low(d) .. d.seq - 1
    BY <1>0
  <2> HIDE DEF U
  <2>3. U # {} => SmallestIn(U) \in U /\ \A j \in U : SmallestIn(U) <= j
    <3>1. d.seq - 1 \in Int /\ Low(d) \in Int
      BY <1>0
    <3> QED
      BY <2>2, <3>1, SmallestOf
  <2>4. s < d.seq /\ s \in Nat /\ s \notin U
    <3>1. CASE U = {}
      BY <1>0, <2>1, <3>1
    <3>2. CASE U # {}
      <4>1. SmallestIn(U) \in Low(d) .. d.seq - 1 /\ m.first_missing = SmallestIn(U)
        BY <2>1, <2>2, <2>3, <3>2
      <4>2. s < SmallestIn(U) /\ s \in Nat /\ SmallestIn(U) \in Int /\ SmallestIn(U) < d.seq
        BY <1>0, <4>1
      <4>3. s \notin U
        BY <2>3, <3>2, <4>2
      <4> QED
        BY <1>0, <4>2, <4>3
    <3> QED
      BY <3>1, <3>2
  <2>5. s < Low(d) \/ s \in DecWindow(d)
    BY <1>0, <2>4
  <2> QED
    BY <1>4, <2>4, <2>5 DEF Ready, U
<1> QED
  BY <1>3, <1>5 DEF Honest, m

-----------------------------------------------------------------------------
(* Every encoder knows no more of the decoder than is true, and so do the  *)
(* reports under way and the one that the recoder keeps.                   *)
ToldOk(es, r, d, a) ==
  /\ \A f \in Flows : EncTold(es[f], d)
  /\ Honest(r.feedback_buffer, d)
  /\ \A hop \in {"answers", "feedback"} : \A m \in InAir(a, hop) : Honest(m, d)

LinkTold == LinkHeads /\ ToldOk(enc, rec, dec, air)

LEMMA InitTold ==
  ASSUME Init, Plain(opt)
  PROVE  LinkTold
<1>1. LinkHeads
  BY InitHeads
<1>2. \A f \in Flows : EncTold(enc[f], dec)
  BY EncStartTold DEF Init
<1>3. Honest(rec.feedback_buffer, dec)
  <2>1. rec.feedback_buffer = NoFeedback
    BY DEF Init, RecStart
  <2>2. NoFeedback.seq = 0 /\ NoFeedback.first_missing = 0
    BY DEF NoFeedback
  <2> QED
    BY <2>1, <2>2 DEF Honest
<1>4. \A hop \in {"answers", "feedback"} : InAir(air, hop) = {}
  BY DEF Init, InAir, Hops
<1> QED
  BY <1>1, <1>2, <1>3, <1>4 DEF LinkTold, ToldOk

(* A step of the link: what is with the decoder stays with it, so only     *)
(* what is new has to be looked at.                                        *)
LEMMA ToldStep ==
  ASSUME LinkTold, opt' = opt, LinkHeads', Grown(dec', dec),
         \A f \in Flows : EncTold(enc'[f], dec),
         Honest(rec'.feedback_buffer, dec),
         \A hop \in {"answers", "feedback"} : \A m \in InAir(air', hop) :
           m \in InAir(air, hop) \/ Honest(m, dec)
  PROVE  LinkTold'
<1>1. \A f \in Flows : enc'[f].seq \in Nat
  <2>1. EncsOk(enc')
    BY DEF LinkHeads, LinkNumbers, EncsOk, Flows
  <2> QED
    BY <2>1 DEF EncsOk, EncOk, EncParts
<1>2. \A f \in Flows : EncTold(enc'[f], dec')
  BY <1>1, ToldGrows
<1>3. \A m : Honest(m, dec) => Honest(m, dec')
  BY ToldGrows
<1>4. \A hop \in {"answers", "feedback"} : \A m \in InAir(air', hop) : Honest(m, dec')
  BY <1>3 DEF LinkTold, ToldOk
<1>5. Honest(rec'.feedback_buffer, dec')
  BY <1>3
<1>6. ToldOk(enc', rec', dec', air')
  BY <1>2, <1>4, <1>5 DEF ToldOk
<1>7. ToldOk(enc, rec, dec, air)'
  BY <1>6 DEF ToldOk, Flows, EncTold
<1> QED
  BY <1>7 DEF LinkTold

LEMMA ToldFacts ==
  ASSUME LinkTold
  PROVE  /\ LinkHeads /\ opt \in Options /\ EncsOk(enc) /\ AirOk(air)
         /\ RecNumbers(rec) /\ RecOk(rec) /\ DecOk(dec)
         /\ \A f \in Flows : EncOk(enc[f]) /\ EncTold(enc[f], dec)
         /\ Honest(rec.feedback_buffer, dec)
         /\ \A hop \in {"answers", "feedback"} : \A m \in InAir(air, hop) : Honest(m, dec)
         /\ Grown(dec, dec)
<1>1. LinkHeads /\ ToldOk(enc, rec, dec, air) /\ LinkNumbers
  BY DEF LinkTold, LinkHeads
<1>2. opt \in Options /\ EncsOk(enc) /\ AirOk(air) /\ RecOk(rec) /\ DecOk(dec)
  BY <1>1, HeadsFacts
<1>3. RecNumbers(rec)
  BY <1>1 DEF LinkNumbers
<1>4. \A f \in Flows : EncOk(enc[f])
  BY <1>2 DEF EncsOk
<1> QED
  BY <1>1, <1>2, <1>3, <1>4 DEF ToldOk, Grown

(* An encoder's own steps.                                                 *)
LEMMA SenderTold ==
  ASSUME LinkTold, Plain(opt), NEW f \in Flows,
         PutSource(f) \/ Transmit(f) \/ FlushCoded(f) \/ ExpireEncoder(f)
  PROVE  LinkTold'
<1>0. /\ LinkHeads /\ opt \in Options /\ EncsOk(enc) /\ AirOk(air)
      /\ \A g \in Flows : EncOk(enc[g]) /\ EncTold(enc[g], dec)
      /\ Honest(rec.feedback_buffer, dec) /\ Grown(dec, dec)
  BY ToldFacts
<1>1. opt' = opt /\ dec' = dec /\ rec' = rec
  BY DEF PutSource, Transmit, SendCoded, FlushCoded, ExpireEncoder
<1>2. LinkHeads'
  BY <1>0, SenderHeads
<1>3. \E e : EncTold(e, dec) /\ enc' = [enc EXCEPT ![f] = e]
  <2>1. CASE PutSource(f)
    <3>1. EncTold(EncPutSource(enc[f]), dec)
      BY <1>0, <2>1, EncPutSourceTold DEF PutSource
    <3> QED
      BY <2>1, <3>1 DEF PutSource
  <2>2. CASE Transmit(f)
    <3>1. EncTold(EncGetCoded(enc[f]), dec)
      BY <1>0, EncGetCodedTold
    <3> QED
      BY <2>2, <3>1 DEF Transmit, SendCoded
  <2>3. CASE FlushCoded(f)
    <3>1. EncTold(EncFlushCoded(enc[f]), dec)
      BY <1>0, EncFlushCodedTold
    <3> QED
      BY <2>3, <3>1 DEF FlushCoded
  <2>4. CASE ExpireEncoder(f)
    <3>1. EncTold(EncTimeout(enc[f]), dec)
      BY <1>0, EncTimeoutTold
    <3> QED
      BY <2>4, <3>1 DEF ExpireEncoder
  <2> QED
    BY <2>1, <2>2, <2>3, <2>4
<1>4. \A g \in Flows : EncTold(enc'[g], dec)
  <2>1. PICK e : EncTold(e, dec) /\ enc' = [enc EXCEPT ![f] = e]
    BY <1>3
  <2>2. \A g \in Flows : enc'[g] = IF g = f THEN e ELSE enc[g]
    BY <1>0, <2>1 DEF EncsOk
  <2> QED
    BY <1>0, <2>1, <2>2
<1>5. \A hop \in {"answers", "feedback"} : InAir(air', hop) \subseteq InAir(air, hop)
  <2>1. CASE Transmit(f)
    <3>1. PICK vec \in EncVectors(enc[f]) : SendCoded(f, vec)
      BY <2>1 DEF Transmit
    <3> DEFINE pkt == Header(f, EncPacket(enc[f], vec))
    <3>2. air' = [air EXCEPT !["coded"] = Append(air["coded"], pkt)]
      BY <3>1 DEF SendCoded, Sends, Plain
    <3> HIDE DEF pkt
    <3>3. \A h \in Hops :
            InAir(air', h) \subseteq InAir(air, h) \cup (IF h = "coded" THEN {pkt} ELSE {})
      BY <1>0, <3>2, InAirSent DEF Hops
    <3> QED
      BY <3>3 DEF Hops
  <2>2. CASE PutSource(f) \/ FlushCoded(f) \/ ExpireEncoder(f)
    BY <2>2 DEF PutSource, FlushCoded, ExpireEncoder
  <2> QED
    BY <2>1, <2>2
<1>6. Grown(dec', dec) /\ Honest(rec'.feedback_buffer, dec)
  BY <1>0, <1>1
<1>7. \A hop \in {"answers", "feedback"} : \A m \in InAir(air', hop) :
        m \in InAir(air, hop) \/ Honest(m, dec)
  BY <1>5
<1> QED
  BY <1>1, <1>2, <1>4, <1>6, <1>7, ToldStep

(* A report is heard: it is honest, so the encoders are told the truth.    *)
LEMMA FeedbackTold ==
  ASSUME LinkTold, Plain(opt), NEW i, ReceiveFeedback(i) \/ RelayHears(i)
  PROVE  LinkTold'
<1>0. /\ LinkHeads /\ opt \in Options /\ EncsOk(enc) /\ AirOk(air) /\ RecNumbers(rec)
      /\ \A g \in Flows : EncOk(enc[g]) /\ EncTold(enc[g], dec)
      /\ Honest(rec.feedback_buffer, dec) /\ Grown(dec, dec)
      /\ \A hop \in {"answers", "feedback"} : \A m \in InAir(air, hop) : Honest(m, dec)
  BY ToldFacts
<1>1. opt' = opt /\ dec' = dec /\ ~opt.coded_retrans
  BY DEF ReceiveFeedback, RelayHears, Plain
<1>2. LinkHeads'
  BY <1>0, FeedbackHeads
<1> DEFINE hop == IF ReceiveFeedback(i) THEN "feedback" ELSE "answers"
           fb == air[hop][i]
<1>3. hop \in {"answers", "feedback"} /\ hop \in Hops /\ Takes(hop, i)
  BY DEF ReceiveFeedback, RelayHears, Hops
<1>4. fb \in InAir(air, hop) /\ \A h \in Hops : InAir(air', h) \subseteq InAir(air, h)
  BY <1>0, <1>3, InAirTaken
<1>5. fb.seq \in Int /\ fb.first_missing \in Int /\ Honest(fb, dec)
  <2>1. MessageOk(hop, fb)
    BY <1>0, <1>3, AirTaken
  <2>2. Honest(fb, dec)
    BY <1>0, <1>3, <1>4
  <2> QED
    BY <2>1, <2>2 DEF MessageOk
<1>6. \A f \in Flows : EncTold(enc'[f], dec)
  <2> DEFINE es == [f \in Flows |-> EncPutFeedback(enc[f], fb)]
  <2>1. enc' \in {es, enc}
    BY DEF ReceiveFeedback, RelayHears
  <2> HIDE DEF fb
  <2>2. \A f \in Flows : EncTold(EncPutFeedback(enc[f], fb), dec)
    BY <1>0, <1>1, <1>5, EncPutFeedbackTold
  <2>3. \A f \in Flows : EncTold(es[f], dec)
    BY <2>2
  <2> HIDE DEF es
  <2> QED
    BY <1>0, <2>1, <2>3
<1>7. Honest(rec'.feedback_buffer, dec)
  <2>1. CASE ReceiveFeedback(i)
    BY <1>0, <2>1 DEF ReceiveFeedback
  <2>2. CASE ~ReceiveFeedback(i)
    <3>1. rec' = RecPutFeedback(rec, fb)
      BY <2>2 DEF RelayHears
    <3> HIDE DEF fb
    <3>2. rec'.feedback_buffer \in {rec.feedback_buffer, fb}
      BY <1>0, <1>5, <3>1, RecPutFeedbackNumbers
    <3> QED
      BY <1>0, <1>5, <3>2
  <2> QED
    BY <2>1, <2>2
<1>8. \A h \in {"answers", "feedback"} : \A m \in InAir(air', h) :
        m \in InAir(air, h) \/ Honest(m, dec)
  BY <1>4 DEF Hops
<1>9. Grown(dec', dec)
  BY <1>0, <1>1
<1> QED
  BY <1>1, <1>2, <1>6, <1>7, <1>8, <1>9, ToldStep

(* The recoder passes on the report it got, as it is.                      *)
LEMMA RelayTold ==
  ASSUME LinkTold, Plain(opt),
         \/ \E i \in Places("coded") : RelayReceives(i)
         \/ RelaySends \/ RelayAnswers \/ RelayDelivers \/ ExpireRelay
  PROVE  LinkTold'
<1>0. /\ LinkHeads /\ opt \in Options /\ AirOk(air) /\ RecNumbers(rec)
      /\ \A g \in Flows : EncTold(enc[g], dec)
      /\ Honest(rec.feedback_buffer, dec) /\ Grown(dec, dec)
      /\ \A m \in InAir(air, "coded") : m.seq \in Int
  <2>1. \A m \in InAir(air, "coded") : PacketOk(m)
    BY ToldFacts DEF LinkHeads, HeadsOk
  <2> QED
    BY <2>1, ToldFacts DEF PacketOk
<1>1. opt' = opt /\ dec' = dec /\ enc' = enc
  BY DEF RelayReceives, RelaySends, RelayAnswers, RelayDelivers, ExpireRelay
<1>2. LinkHeads'
  BY <1>0, RelayHeads
<1>3. /\ rec'.feedback_buffer = rec.feedback_buffer
      /\ \A hop \in {"answers", "feedback"} : \A m \in InAir(air', hop) :
           m \in InAir(air, hop) \/ m = rec.feedback_buffer
  <2>1. ASSUME NEW i, RelayReceives(i)
        PROVE  /\ rec'.feedback_buffer = rec.feedback_buffer
               /\ \A hop \in {"answers", "feedback"} : InAir(air', hop) \subseteq InAir(air, hop)
    <3> DEFINE m == air["coded"][i]
    <3>1. Takes("coded", i) /\ rec' = RecPutCoded(rec, m)
      BY <2>1 DEF RelayReceives
    <3>2. m \in InAir(air, "coded") /\ \A h \in Hops : InAir(air', h) \subseteq InAir(air, h)
      BY <1>0, <3>1, InAirTaken DEF Hops
    <3>3. m.seq \in Int
      BY <1>0, <3>2
    <3> HIDE DEF m
    <3>4. rec'.feedback_buffer = rec.feedback_buffer
      BY <1>0, <3>1, <3>3, RecPutCodedNumbers
    <3> QED
      BY <3>2, <3>4 DEF Hops
  <2>2. ASSUME RelaySends
        PROVE  /\ rec'.feedback_buffer = rec.feedback_buffer
               /\ \A hop \in {"answers", "feedback"} : InAir(air', hop) \subseteq InAir(air, hop)
    <3>1. PICK vec \in RelayDraws :
            /\ rec' = RecGetCoded(rec, vec)
            /\ IF vec = {} THEN UNCHANGED air ELSE Sends("recoded", RecPacket(rec, vec))
      BY <2>2 DEF RelaySends
    <3>2. rec'.feedback_buffer = rec.feedback_buffer
      BY <1>0, <3>1, RecGetNumbers
    <3>3. CASE vec = {}
      BY <3>1, <3>2, <3>3
    <3>4. CASE vec # {}
      <4> DEFINE pkt == RecPacket(rec, vec)
      <4>1. air' = [air EXCEPT !["recoded"] = Append(air["recoded"], pkt)]
        BY <3>1, <3>4 DEF Sends
      <4> HIDE DEF pkt
      <4>2. \A h \in Hops :
              InAir(air', h) \subseteq InAir(air, h) \cup (IF h = "recoded" THEN {pkt} ELSE {})
        BY <1>0, <4>1, InAirSent DEF Hops
      <4> QED
        BY <3>2, <4>2 DEF Hops
    <3> QED
      BY <3>3, <3>4
  <2>3. ASSUME RelayAnswers
        PROVE  /\ rec'.feedback_buffer = rec.feedback_buffer
               /\ \A hop \in {"answers", "feedback"} : \A m \in InAir(air', hop) :
                    m \in InAir(air, hop) \/ m = rec.feedback_buffer
    <3> DEFINE pkt == rec.feedback_buffer
    <3>1. /\ rec' = RecGetFeedback(rec)
          /\ air' = [air EXCEPT !["feedback"] = Append(air["feedback"], pkt)]
      BY <2>3 DEF RelayAnswers, Sends, RecFeedback
    <3>2. rec'.feedback_buffer = rec.feedback_buffer
      BY <1>0, <3>1, RecGetNumbers
    <3> HIDE DEF pkt
    <3>3. \A h \in Hops :
            InAir(air', h) \subseteq InAir(air, h) \cup (IF h = "feedback" THEN {pkt} ELSE {})
      BY <1>0, <3>1, InAirSent DEF Hops
    <3>4. \A hop \in {"answers", "feedback"} : \A m \in InAir(air', hop) :
            m \in InAir(air, hop) \/ m = pkt
      BY <3>3 DEF Hops
    <3> QED
      BY <3>2, <3>4 DEF pkt
  <2>4. ASSUME RelayDelivers \/ ExpireRelay
        PROVE  rec'.feedback_buffer = rec.feedback_buffer /\ air' = air
    BY <1>0, <2>4, RecGetNumbers, RecTimeoutNumbers DEF RelayDelivers, ExpireRelay
  <2> QED
    BY <2>1, <2>2, <2>3, <2>4
<1>4. Grown(dec', dec) /\ Honest(rec'.feedback_buffer, dec)
      /\ \A f \in Flows : EncTold(enc'[f], dec)
  BY <1>0, <1>1, <1>3
<1>5. \A hop \in {"answers", "feedback"} : \A m \in InAir(air', hop) :
        m \in InAir(air, hop) \/ Honest(m, dec)
  BY <1>0, <1>3
<1> QED
  BY <1>1, <1>2, <1>4, <1>5, ToldStep

(* A packet that the decoder is handed was not sent before the encoder was *)
(* told of all that it pushes out.                                         *)
LEMMA Arrives ==
  ASSUME LinkTold, NEW i, ReceiveCoded(i)
  PROVE  LET m == air[DataHop][i]
         IN /\ dec' = DecPutCoded(dec, m) /\ dec.queue = <<>> /\ PacketOk(m)
            /\ \A h \in Hops : InAir(air', h) \subseteq InAir(air, h)
            /\ opt.tx = Unlimited /\ opt.nodes <= 1 => Clear(dec, m.seq)
<1> DEFINE m == air[DataHop][i]
<1>0. /\ LinkHeads /\ opt \in Options /\ AirOk(air) /\ EncsOk(enc)
      /\ \A f \in Flows : EncTold(enc[f], dec)
  BY ToldFacts
<1>1. /\ HeadsOk(enc, rec, dec, air) /\ enc[1].seq \in Nat /\ 1 \in Flows
      /\ Behind(rec.seq, enc) /\ rec.seq \in Nat
  BY <1>0, HeadsFacts
<1>2. Takes(DataHop, i) /\ dec' = DecPutCoded(dec, m) /\ DataHop \in Hops /\ dec.queue = <<>>
  BY DEF ReceiveCoded, DataHop, Hops
<1>3. m \in InAir(air, DataHop) /\ \A h \in Hops : InAir(air', h) \subseteq InAir(air, h)
  BY <1>0, <1>2, InAirTaken
<1>4. PacketOk(m) /\ Behind(m.seq, enc)
  <2>1. CASE opt.relay
    <3>1. PacketOk(m) /\ m.seq <= rec.seq
      BY <1>1, <1>3, <2>1 DEF HeadsOk, DataHop
    <3>2. m.seq \in Nat
      BY <3>1 DEF PacketOk
    <3> HIDE DEF m
    <3> QED
      BY <1>1, <3>1, <3>2 DEF Behind
  <2>2. CASE ~opt.relay
    <3>1. PacketOk(m) /\ Behind(m.seq, enc)
      BY <1>1, <1>3, <2>2 DEF HeadsOk, DataHop
    <3> HIDE DEF m
    <3> QED
      BY <3>1
  <2> QED
    BY <2>1, <2>2
<1>5. ASSUME opt.tx = Unlimited, opt.nodes <= 1 PROVE Clear(dec, m.seq)
  <2> DEFINE e == enc[1]
  <2>1. /\ m.seq <= e.seq /\ m.seq \in Nat
    BY <1>4, <1>5 DEF Behind, PacketOk
  <2>2. /\ \A s \in 0 .. e.first_missing - 1 : Ready(dec, s)
        /\ e.seq - e.first_missing <= Symbols /\ e.seq \in Nat
    BY <1>0, <1>1, <1>5 DEF EncTold
  <2>3. e.first_missing \in Int /\ Symbols \in Int
    BY <1>0, <1>1, SymbolsAssumption DEF EncsOk, EncOk, EncParts
  <2> HIDE DEF e, m
  <2>4. \A s \in 0 .. m.seq - Symbols - 1 : s \in 0 .. e.first_missing - 1
    BY <2>1, <2>2, <2>3
  <2> QED
    BY <2>2, <2>4 DEF Clear
<1> QED
  BY <1>2, <1>3, <1>4, <1>5

(* The decoder loses nothing and reports the truth.                        *)
LEMMA SinkTold ==
  ASSUME LinkTold, Plain(opt),
         \/ \E i \in Places("coded") : ReceiveCoded(i)
         \/ GetSource \/ SendFeedback \/ ExpireDecoder \/ ExpireFeedback
  PROVE  LinkTold'
<1>0. /\ LinkHeads /\ opt \in Options /\ AirOk(air) /\ DecOk(dec)
      /\ \A g \in Flows : EncTold(enc[g], dec)
      /\ Honest(rec.feedback_buffer, dec)
  BY ToldFacts
<1>1. opt' = opt /\ enc' = enc /\ rec' = rec
  BY DEF ReceiveCoded, GetSource, SendFeedback, ExpireDecoder, ExpireFeedback
<1>2. LinkHeads'
  BY <1>0, SinkHeads
<1>3. /\ Grown(dec', dec)
      /\ \A hop \in {"answers", "feedback"} : \A m \in InAir(air', hop) :
           m \in InAir(air, hop) \/ m = DecFeedback(dec)
  <2>1. ASSUME NEW i, ReceiveCoded(i)
        PROVE  /\ Grown(dec', dec)
               /\ \A hop \in {"answers", "feedback"} : InAir(air', hop) \subseteq InAir(air, hop)
    <3> DEFINE m == air[DataHop][i]
    <3>1. /\ dec' = DecPutCoded(dec, m) /\ PacketOk(m)
          /\ \A h \in Hops : InAir(air', h) \subseteq InAir(air, h)
      BY <2>1, Arrives
    <3> HIDE DEF m
    <3>2. Grown(dec', dec)
      BY <1>0, <3>1, DecPutCodedOn
    <3> QED
      BY <3>1, <3>2 DEF Hops
  <2>2. ASSUME GetSource PROVE Grown(dec', dec) /\ air' = air
    <3>1. dec' = DecGetSource(dec) /\ DecHasSource(dec) /\ air' = air /\ SinkOk(dec)
      BY <1>0, <2>2 DEF GetSource, DecOk
    <3>2. SinkOk(dec') /\ SinkSame(dec', dec) /\ Low(dec) <= Low(dec')
      BY <3>1, DecGetSourceOk, DecGetSourceOn
    <3> QED
      BY <3>1, <3>2, GrownSame
  <2>3. ASSUME SendFeedback
        PROVE  /\ Grown(dec', dec)
               /\ \A hop \in {"answers", "feedback"} : \A m \in InAir(air', hop) :
                    m \in InAir(air, hop) \/ m = DecFeedback(dec)
    <3> DEFINE pkt == DecFeedback(dec)
    <3>1. /\ dec' = DecGetFeedback(dec) /\ AnswerHop \in Hops
          /\ air' = [air EXCEPT ![AnswerHop] = Append(air[AnswerHop], pkt)]
      BY <2>3 DEF SendFeedback, Sends, AnswerHop, Hops
    <3>2. Grown(dec', dec)
      BY <1>0, <3>1, DecGetFeedbackOn
    <3> HIDE DEF pkt
    <3>3. \A h \in Hops :
            InAir(air', h) \subseteq InAir(air, h) \cup (IF h = AnswerHop THEN {pkt} ELSE {})
      BY <1>0, <3>1, InAirSent
    <3>4. \A hop \in {"answers", "feedback"} : \A m \in InAir(air', hop) :
            m \in InAir(air, hop) \/ m = pkt
      BY <3>3 DEF Hops
    <3> QED
      BY <3>2, <3>4 DEF pkt
  <2>4. ASSUME ExpireDecoder \/ ExpireFeedback PROVE Grown(dec', dec) /\ air' = air
    BY <1>0, <2>4, DecTimeoutOn DEF ExpireDecoder, ExpireFeedback
  <2> QED
    BY <2>1, <2>2, <2>3, <2>4
<1>4. Honest(DecFeedback(dec), dec)
  BY <1>0, DecFeedbackHonest
<1>5. \A hop \in {"answers", "feedback"} : \A m \in InAir(air', hop) :
        m \in InAir(air, hop) \/ Honest(m, dec)
  BY <1>3, <1>4
<1> QED
  BY <1>0, <1>1, <1>2, <1>3, <1>5, ToldStep

LEMMA LoseTold ==
  ASSUME LinkTold, Lose
  PROVE  LinkTold'
<1>0. /\ LinkHeads /\ AirOk(air) /\ Grown(dec, dec)
      /\ \A g \in Flows : EncTold(enc[g], dec)
      /\ Honest(rec.feedback_buffer, dec)
  BY ToldFacts
<1>1. opt' = opt /\ enc' = enc /\ rec' = rec /\ dec' = dec
  BY DEF Lose
<1>2. LinkHeads'
  BY <1>0, LoseHeads
<1>3. \A h \in Hops : InAir(air', h) \subseteq InAir(air, h)
  <2>1. PICK hop \in Hops : \E i \in Heads(hop) :
          air' = [air EXCEPT ![hop] = RemoveAt(air[hop], i)]
    BY DEF Lose
  <2>2. PICK i \in DOMAIN air[hop] : air' = [air EXCEPT ![hop] = RemoveAt(air[hop], i)]
    BY <2>1 DEF Heads
  <2> QED
    BY <1>0, <2>2, InAirRemoved
<1>4. \A hop \in {"answers", "feedback"} : \A m \in InAir(air', hop) :
        m \in InAir(air, hop) \/ Honest(m, dec)
  BY <1>3 DEF Hops
<1>5. /\ Grown(dec', dec) /\ Honest(rec'.feedback_buffer, dec)
      /\ \A f \in Flows : EncTold(enc'[f], dec)
  BY <1>0, <1>1
<1> QED
  BY <1>1, <1>2, <1>4, <1>5, ToldStep

LEMMA ToldNext ==
  ASSUME LinkTold, Plain(opt), [Next]_vars
  PROVE  LinkTold'
<1>1. CASE UNCHANGED vars
  <2>1. opt' = opt /\ enc' = enc /\ rec' = rec /\ dec' = dec /\ air' = air
    BY <1>1 DEF vars
  <2>2. LinkHeads'
    <3>1. LinkNumbers'
      BY <2>1 DEF LinkTold, LinkHeads, LinkNumbers, EncsOk, Flows, AirOk, Hops
    <3>2. HeadsOk(enc, rec, dec, air)'
      BY <2>1 DEF LinkTold, LinkHeads, HeadsOk, DecOk, DecRest, Behind
    <3> QED
      BY <3>1, <3>2 DEF LinkHeads
  <2>3. /\ Grown(dec, dec) /\ Honest(rec.feedback_buffer, dec)
        /\ \A f \in Flows : EncTold(enc[f], dec)
    BY ToldFacts
  <2> QED
    BY <2>1, <2>2, <2>3, ToldStep
<1>2. CASE Next
  <2>1. ASSUME NEW f \in Flows,
               PutSource(f) \/ Transmit(f) \/ FlushCoded(f) \/ ExpireEncoder(f)
        PROVE  LinkTold'
    BY <2>1, SenderTold
  <2>2. ASSUME NEW i, ReceiveFeedback(i) \/ RelayHears(i) PROVE LinkTold'
    BY <2>2, FeedbackTold
  <2> QED
    BY <1>2, <2>1, <2>2, RelayTold, SinkTold, LoseTold DEF Next
<1> QED
  BY <1>1, <1>2

LEMMA ToldInvariant ==
  (\A o \in Options : Plain(o)) => (Spec => []LinkTold)
<1> SUFFICES ASSUME \A o \in Options : Plain(o) PROVE Spec => []LinkTold
  OBVIOUS
<1>1. ASSUME LinkTold, [Next]_vars PROVE LinkTold'
  <2>1. Plain(opt)
    BY <1>1, ToldFacts
  <2> QED
    BY <1>1, <2>1, ToldNext
<1> QED
  <2>1. Init => LinkTold
    BY InitTold DEF Init
  <2> QED
    BY <1>1, <2>1, PTL DEF Spec

(* Whatever is lost, repeated or reordered, directly or over a recoder: an *)
(* encoder with unlimited attempts and feedback frees the slot of a symbol *)
(* only if the decoder has seen the symbol, that is if it was passed on or *)
(* a row of kodo has it as its pivot.                                      *)
THEOREM SwFreedIsSeen ==
  (\A o \in Options : Plain(o)) => (Spec => []FreedIsSeen)
<1> SUFFICES ASSUME \A o \in Options : Plain(o) PROVE Spec => []FreedIsSeen
  OBVIOUS
<1>1. ASSUME LinkTold PROVE FreedIsSeen
  <2>1. /\ EncTold(enc[1], dec) /\ enc[1].seq \in Nat
    <3>1. EncsOk(enc) /\ opt \in Options /\ \A f \in Flows : EncTold(enc[f], dec)
      BY <1>1, ToldFacts
    <3> QED
      BY <3>1, FirstFlow
  <2> SUFFICES ASSUME Reliable, NEW i \in Slots,
                      SymbolAt(enc[1].seq, i) >= 0, enc[1].tx_attempts[i] = 0
               PROVE  Seen(dec, SymbolAt(enc[1].seq, i))
    BY DEF FreedIsSeen, Seen, Low
  <2>2. SymbolAt(enc[1].seq, i) \in WindowOf(enc[1].seq) /\ Slot(SymbolAt(enc[1].seq, i)) = i
    BY <2>1, SymbolAtSlot
  <2> QED
    BY <2>1, <2>2 DEF EncTold, Reliable
<1> QED
  BY <1>1, ToldInvariant, PTL

(* Under the same conditions: its window does not move past a symbol that  *)
(* the decoder has not decoded.                                            *)
THEOREM SwNothingOverrun ==
  (\A o \in Options : Plain(o)) => (Spec => []NothingOverrun)
<1> SUFFICES ASSUME \A o \in Options : Plain(o) PROVE Spec => []NothingOverrun
  OBVIOUS
<1>1. ASSUME LinkTold PROVE NothingOverrun
  <2> DEFINE e == enc[1]
  <2>1. EncTold(e, dec) /\ e.seq \in Nat /\ e.first_missing \in Int
    <3>1. EncsOk(enc) /\ opt \in Options /\ \A f \in Flows : EncTold(enc[f], dec)
      BY <1>1, ToldFacts
    <3>2. EncTold(e, dec) /\ e.seq \in Nat /\ EncOk(e)
      BY <3>1, FirstFlow DEF EncsOk
    <3> HIDE DEF e
    <3> QED
      BY <3>2 DEF EncOk, EncParts
  <2> SUFFICES ASSUME Reliable, NEW s \in 0 .. e.seq - Symbols - 1 PROVE Ready(dec, s)
    BY DEF NothingOverrun, Ready, Low, IsSymbolUncoded
  <2>2. e.seq - e.first_missing <= Symbols /\ \A x \in 0 .. e.first_missing - 1 : Ready(dec, x)
    BY <2>1 DEF EncTold, Reliable
  <2> HIDE DEF e
  <2>3. s \in 0 .. e.first_missing - 1
    BY <2>1, <2>2, SymbolsAssumption
  <2> QED
    BY <2>2, <2>3
<1> QED
  BY <1>1, ToldInvariant, PTL

-----------------------------------------------------------------------------
(* The reliable stream: for a single flow, the decoder's is whole.         *)
LinkWhole == LinkTold /\ (Reliable /\ opt.nodes <= 1 => Steady(dec))

LEMMA InitWhole ==
  ASSUME Init, Plain(opt)
  PROVE  LinkWhole
<1> SUFFICES ASSUME Reliable PROVE LinkTold /\ Steady(dec)
  BY InitTold DEF LinkWhole
<1>1. LinkTold
  BY InitTold
<1>2. /\ dec.rb = Ring!RbInit /\ dec.flush = 0 /\ dec.has_source = FALSE
      /\ dec.read = <<>> /\ dec.queue = <<>> /\ dec.initialized /\ ~dec.timer /\ ~dec.fb_timer
  BY DEF Init, DecStart, Reliable
<1>3. Low(dec) = 0
  BY <1>2 DEF Low, Ring!RbReadSeqno, Ring!RbInit
<1>4. Whole(dec)
  BY <1>2, <1>3 DEF Whole
<1> QED
  BY <1>1, <1>2, <1>4 DEF Steady

LEMMA WholeNext ==
  ASSUME LinkWhole, Plain(opt), [Next]_vars
  PROVE  LinkWhole'
<1>0. LinkTold /\ opt \in Options /\ DecOk(dec) /\ (Reliable /\ opt.nodes <= 1 => Steady(dec))
  BY ToldFacts DEF LinkWhole
<1>1. LinkTold'
  BY <1>0, ToldNext
<1>2. opt' = opt
  BY DEF Next, vars, PutSource, Transmit, SendCoded, FlushCoded, ExpireEncoder,
         ReceiveFeedback, RelayHears, RelayReceives, RelaySends, RelayAnswers, RelayDelivers,
         ExpireRelay, ReceiveCoded, GetSource, SendFeedback, ExpireDecoder, ExpireFeedback, Lose
<1>3. Reliable' = Reliable
  BY <1>2 DEF Reliable
<1>4. ASSUME Reliable, opt.nodes <= 1 PROVE Steady(dec')
  <2>0. Steady(dec)
    BY <1>0, <1>4
  <2>1. ASSUME NEW i, ReceiveCoded(i) PROVE Steady(dec')
    <3> DEFINE m == air[DataHop][i]
    <3>1. /\ dec' = DecPutCoded(dec, m) /\ dec.queue = <<>> /\ PacketOk(m)
          /\ opt.tx = Unlimited /\ opt.nodes <= 1 => Clear(dec, m.seq)
      BY <1>0, <2>1, Arrives
    <3>2. Clear(dec, m.seq)
      BY <1>4, <3>1 DEF Reliable
    <3> HIDE DEF m
    <3> QED
      BY <1>0, <1>4, <2>0, <3>1, <3>2, DecPutCodedOn
  <2>2. ASSUME GetSource PROVE Steady(dec')
    <3>1. dec' = DecGetSource(dec) /\ DecHasSource(dec) /\ SinkOk(dec) /\ DecRest(dec)
      BY <1>0, <2>2 DEF GetSource, DecOk
    <3>2. SinkSame(dec', dec) /\ (Whole(dec) => Whole(dec'))
      BY <3>1, DecGetSourceOk, DecGetSourceOn
    <3>3. dec'.initialized = dec.initialized /\ dec'.timer = dec.timer
          /\ dec'.fb_timer = dec.fb_timer
      BY <3>1, <3>2 DEF SinkSame, SinkChanges, DecRest, DecExtras
    <3> QED
      BY <2>0, <3>2, <3>3 DEF Steady
  <2>3. ASSUME SendFeedback PROVE Steady(dec')
    BY <1>0, <1>4, <2>0, <2>3, DecGetFeedbackOn DEF SendFeedback
  <2>4. ~ExpireDecoder /\ ~ExpireFeedback
    BY <2>0 DEF Steady, ExpireDecoder, ExpireFeedback
  <2>5. ASSUME dec' = dec PROVE Steady(dec')
    BY <2>0, <2>5
  <2>6. ASSUME NEW f \in Flows,
               PutSource(f) \/ Transmit(f) \/ FlushCoded(f) \/ ExpireEncoder(f)
        PROVE  dec' = dec
    BY <2>6 DEF PutSource, Transmit, SendCoded, FlushCoded, ExpireEncoder
  <2>7. ASSUME NEW i, ReceiveFeedback(i) \/ RelayHears(i) \/ RelayReceives(i) PROVE dec' = dec
    BY <2>7 DEF ReceiveFeedback, RelayHears, RelayReceives
  <2>8. ASSUME RelaySends \/ RelayAnswers \/ RelayDelivers \/ ExpireRelay \/ Lose PROVE dec' = dec
    BY <2>8 DEF RelaySends, RelayAnswers, RelayDelivers, ExpireRelay, Lose
  <2>9. UNCHANGED vars => dec' = dec
    BY DEF vars
  <2> QED
    BY <2>1, <2>2, <2>3, <2>4, <2>5, <2>6, <2>7, <2>8, <2>9 DEF Next
<1>5. (Reliable /\ opt.nodes <= 1 => Steady(dec))'
  BY <1>2, <1>3, <1>4
<1> QED
  BY <1>1, <1>5 DEF LinkWhole

(* For a single flow without coded retransmissions, whatever is lost,      *)
(* repeated or reordered: a reliable stream hands the application every    *)
(* symbol, from the first on, and passes over none.                        *)
THEOREM SwNoneMissing ==
  (\A o \in Options : Plain(o) /\ o.nodes <= 1) => (Spec => []NoneMissing)
<1> SUFFICES ASSUME \A o \in Options : Plain(o) /\ o.nodes <= 1
             PROVE  Spec => []NoneMissing
  OBVIOUS
<1>1. ASSUME LinkWhole, [Next]_vars PROVE LinkWhole'
  <2>1. Plain(opt)
    BY <1>1, ToldFacts DEF LinkWhole
  <2> QED
    BY <1>1, <2>1, WholeNext
<1>2. ASSUME LinkWhole PROVE NoneMissing
  <2>1. opt.nodes <= 1
    BY <1>2, ToldFacts DEF LinkWhole
  <2> QED
    BY <1>2, <2>1 DEF LinkWhole, NoneMissing, Steady, Whole
<1> QED
  <2>1. Init => LinkWhole
    BY InitWhole DEF Init
  <2> QED
    BY <1>1, <1>2, <2>1, PTL DEF Spec
=============================================================================
