---------------------------- MODULE FirmwareProofs ----------------------------
(***************************************************************************)
(* Firmware and FirmwareUpdate, for any files and replacements, manifests, *)
(* models and firmwares.                                                   *)
(*                                                                         *)
(* The image.  While a well-formed file is read, each segment of the       *)
(* buffer holds a stretch of the memory that its first records fill, and   *)
(* there is a hole behind it (SegmentsOK): the addresses ascend, so a      *)
(* record goes to the end of the last segment or becomes a new one.        *)
(* Memory without a hole is then in one segment, so what Update finds in   *)
(* the segments are the certificates of the file (UpdatedIs), and a record *)
(* is read back from the one segment that holds it (ReadIs).  While the    *)
(* records are written, what is gone of a replacement is what lies before  *)
(* the frontier, the end of the last record of data (UpdateOK): nextByte   *)
(* is right for the next read, however the certificate is cut.             *)
(*                                                                         *)
(* The directory.  A file gets its contents by one rename of a temporary   *)
(* file that is complete (TempComplete), and what is to be saved follows   *)
(* from the path it is saved under (CallOK): a manifest under its name,    *)
(* the patched form of a firmware under the firmware's.  So the directory  *)
(* never has anything else (DirectoryOK), nor has the thermostat           *)
(* (FetchedOK).                                                            *)
(***************************************************************************)
EXTENDS Firmware, FirmwareUpdate, WellFoundedInduction, TLAPS

-----------------------------------------------------------------------------
(* Induction, by the least counterexample. *)

LEMMA LeastNumber ==
  ASSUME NEW T, T \subseteq Nat, T # {}
  PROVE  \E n \in T : \A m \in T : n <= m
  <1>1. PICK n \in T : \A m \in T : ~ (<<m, n>> \in OpToRel(<, Nat))
    BY NatLessThanWellFounded, WFMin
  <1>2. \A m \in T : ~ (m < n)
    BY <1>1 DEF OpToRel
  <1> QED
    BY <1>2

LEMMA AllNumbers ==
  ASSUME NEW S, 0 \in S, \A n \in Nat : n \in S => n + 1 \in S
  PROVE  Nat \subseteq S
  <1> SUFFICES ASSUME ~ (Nat \subseteq S)
               PROVE  FALSE
    OBVIOUS
  <1>1. PICK n \in Nat \ S : \A m \in Nat \ S : n <= m
    BY LeastNumber
  <1>2. n - 1 \in Nat /\ n - 1 \in S
    BY <1>1
  <1> QED
    BY <1>1, <1>2

\* The least and the greatest of some numbers.
LEMMA MinIs ==
  ASSUME NEW S, S \subseteq Nat, S # {}
  PROVE  Min(S) \in S /\ \A x \in S : Min(S) <= x
  <1>1. \E x \in S : \A y \in S : x <= y
    BY LeastNumber
  <1> QED
    BY <1>1, Zenon DEF Min

LEMMA MaxIs ==
  ASSUME NEW S, NEW m \in Nat, S \subseteq 0 .. m, S # {}
  PROVE  Max(S) \in S /\ \A x \in S : x <= Max(S)
  <1> DEFINE T == {m - x : x \in S}
  <1>1. T \subseteq Nat
    OBVIOUS
  <1>7. T # {}
    OBVIOUS
  <1>2. PICK n \in T : \A k \in T : n <= k
    BY <1>1, <1>7, LeastNumber
  <1>3. PICK x \in S : n = m - x
    BY <1>2
  <1>4. \A y \in S : y <= x
    <2> SUFFICES ASSUME NEW y \in S PROVE y <= x
      OBVIOUS
    <2>1. m - y \in T
      OBVIOUS
    <2>2. n <= m - y
      BY <1>2, <2>1
    <2> QED
      BY <1>3, <2>2
  <1>5. \E z \in S : \A y \in S : z >= y
    BY <1>4
  <1>6. Max(S) \in S /\ \A y \in S : Max(S) >= y
    BY <1>5, Zenon DEF Max
  <1> QED
    BY <1>6

-----------------------------------------------------------------------------
(* Sums and checksums *)

IsTotals(g, s, n) ==
    g = [k \in 0 .. n |-> IF k = 0 THEN 0 ELSE g[k - 1] + s[k]]

LEMMA TotalsExist ==
  ASSUME NEW s
  PROVE  \A n \in Nat : \E g : IsTotals(g, s, n)
  <1> DEFINE Fine == {n \in Nat : \E g : IsTotals(g, s, n)}
  <1>1. 0 \in Fine
    <2>1. IsTotals([k \in 0 .. 0 |-> 0], s, 0)
      BY DEF IsTotals
    <2> QED
      BY <2>1
  <1>2. ASSUME NEW n \in Nat, n \in Fine
        PROVE  n + 1 \in Fine
    <2>1. PICK g : IsTotals(g, s, n)
      BY <1>2
    <2> DEFINE h == [k \in 0 .. n + 1 |->
                        IF k = n + 1 THEN g[n] + s[n + 1] ELSE g[k]]
    <2>2. ASSUME NEW k \in 0 .. n + 1
          PROVE  h[k] = IF k = 0 THEN 0 ELSE h[k - 1] + s[k]
      <3>1. CASE k = n + 1
        BY <3>1
      <3>2. CASE k # n + 1
        <4>1. k \in 0 .. n /\ h[k] = g[k]
          BY <3>2
        <4>2. k # 0 => h[k - 1] = g[k - 1]
          BY <3>2
        <4> QED
          BY <2>1, <4>1, <4>2 DEF IsTotals
      <3> QED
        BY <3>1, <3>2
    <2>3. h = [k \in 0 .. n + 1 |-> h[k]]
      OBVIOUS
    <2> HIDE DEF h
    <2>4. IsTotals(h, s, n + 1)
      BY <2>2, <2>3, Zenon DEF IsTotals
    <2> QED
      BY <2>4
  <1> HIDE DEF Fine
  <1>3. Nat \subseteq Fine
    BY <1>1, <1>2, AllNumbers
  <1> QED
    BY <1>3 DEF Fine

LEMMA TotalsAre ==
  ASSUME NEW s, Len(s) \in Nat
  PROVE  \A k \in 0 .. Len(s) :
            Totals(s)[k] = IF k = 0 THEN 0 ELSE Totals(s)[k - 1] + s[k]
  <1>1. \E g : g = [k \in 0 .. Len(s) |-> IF k = 0 THEN 0 ELSE g[k - 1] + s[k]]
    BY TotalsExist DEF IsTotals
  <1>2. Totals(s) = [k \in 0 .. Len(s) |->
                        IF k = 0 THEN 0 ELSE Totals(s)[k - 1] + s[k]]
    BY <1>1, Zenon DEF Totals
  <1> QED
    BY <1>2, Zenon

LEMMA SumType ==
  ASSUME NEW s \in Seq(Byte)
  PROVE  Sum(s) \in Nat
  <1> DEFINE Fine == {k \in Nat : k <= Len(s) => Totals(s)[k] \in Nat}
  <1>1. 0 \in Fine
    BY TotalsAre
  <1>2. ASSUME NEW k \in Nat, k \in Fine
        PROVE  k + 1 \in Fine
    <2>1. CASE k + 1 <= Len(s)
      <3>1. Totals(s)[k + 1] = Totals(s)[k] + s[k + 1]
        BY <2>1, TotalsAre
      <3>2. Totals(s)[k] \in Nat /\ s[k + 1] \in Nat
        <4>1. k <= Len(s) /\ k + 1 \in 1 .. Len(s)
          BY <2>1
        <4>2. s[k + 1] \in Byte
          BY <4>1
        <4> QED
          BY <1>2, <4>1, <4>2, ByteAssumption DEF Byte
      <3> QED
        BY <3>1, <3>2
    <2> QED
      BY <2>1
  <1> HIDE DEF Fine
  <1>3. Nat \subseteq Fine
    BY <1>1, <1>2, AllNumbers
  <1>4. Totals(s)[Len(s)] \in Nat
    BY <1>3 DEF Fine
  <1> QED
    BY <1>4 DEF Sum

LEMMA QuotientOf ==
  ASSUME NEW x \in Int, NEW m \in Nat, m > 0
  PROVE  /\ x \div m \in Int /\ x % m \in 0 .. m - 1
         /\ x = (x \div m) * m + (x % m)
  OBVIOUS

LEMMA SameRemainder ==
  ASSUME NEW x \in Int, NEW y \in Int, NEW m \in Nat, m > 0,
         NEW k \in Int, x = y + k * m
  PROVE  x % m = y % m
  <1>1. PICK p \in Int, r \in 0 .. m - 1 : x = p * m + r /\ r = x % m
    BY QuotientOf
  <1>2. PICK q \in Int, t \in 0 .. m - 1 : y = q * m + t /\ t = y % m
    BY QuotientOf
  <1>3. PICK l \in Int : l = q + k - p
    OBVIOUS
  <1>4. r = t + l * m
    BY <1>1, <1>2, <1>3
  <1>5. l < 1 /\ l > -1
    BY <1>4
  <1>6. l = 0
    BY <1>5
  <1>7. r = t
    BY <1>4, <1>6
  <1> QED
    BY <1>1, <1>2, <1>7

\* Bytes with the same complement can take the place of each other.
LEMMA ComplementOf ==
  ASSUME NEW a \in Int
  PROVE  /\ Complement(a) \in Byte
         /\ Complement(a) = IF a % W = 0 THEN 0 ELSE W - (a % W)
  <1> DEFINE r == a % W
  <1>w. W \in Nat /\ W > 0
    BY ByteAssumption
  <1>1. r \in 0 .. W - 1
    BY <1>w, QuotientOf
  <1>2. Complement(a) = (W - r) % W
    BY DEF Complement
  <1> HIDE DEF r
  <1>3. CASE r = 0
    <2>1. W % W = 0 % W
      <3>1. W = 0 + 1 * W
        BY <1>w
      <3> QED
        BY <1>w, <3>1, SameRemainder
    <2>2. 0 % W = 0
      BY <1>w
    <2> QED
      BY <1>2, <1>3, <1>w, <2>1, <2>2 DEF r, Byte
  <1>4. CASE r # 0
    <2>1. W - r \in 1 .. W - 1
      BY <1>1, <1>4, <1>w
    <2>2. \A x \in 1 .. W - 1 : x % W = x
      BY <1>w
    <2> QED
      BY <1>2, <1>4, <1>w, <2>1, <2>2 DEF r, Byte
  <1> QED
    BY <1>3, <1>4

LEMMA SameComplement ==
  ASSUME NEW a \in Int, NEW b \in Int, NEW c \in Int,
         Complement(a) = Complement(b)
  PROVE  Complement(c + a) = Complement(c + b)
  <1>w. PICK w \in Nat : w = W /\ w > 0
    BY ByteAssumption
  <1>1. PICK p \in Int, m \in 0 .. w - 1 : a = p * w + m /\ m = a % w
    BY <1>w, QuotientOf
  <1>2. PICK q \in Int, n \in 0 .. w - 1 : b = q * w + n /\ n = b % w
    BY <1>w, QuotientOf
  <1>3. m = n
    <2>1. Complement(a) = IF m = 0 THEN 0 ELSE w - m
      BY <1>1, <1>w, ComplementOf
    <2>2. Complement(b) = IF n = 0 THEN 0 ELSE w - n
      BY <1>2, <1>w, ComplementOf
    <2>3. (IF m = 0 THEN 0 ELSE w - m) = (IF n = 0 THEN 0 ELSE w - n)
      BY <2>1, <2>2, Zenon
    <2> QED
      BY <2>3, <1>w
  <1>4. PICK k \in Int : k = p - q
    OBVIOUS
  <1>5. c + a = (c + b) + k * w
    BY <1>1, <1>2, <1>3, <1>4
  <1>6. PICK x \in Int, y \in Int : x = c + a /\ y = c + b
    OBVIOUS
  <1>7. x % w = y % w
    <2>1. x = y + k * w
      BY <1>5, <1>6
    <2> QED
      BY <1>w, <2>1, SameRemainder
  <1> QED
    BY <1>6, <1>7, <1>w DEF Complement

-----------------------------------------------------------------------------
(* What a well-formed file says *)

Proper == input \in Inputs /\ WellFormed /\ ~StartsAtZero

LEMMA RecordIs ==
  ASSUME input \in Inputs
  PROVE  /\ Len(input) \in Nat /\ DOMAIN input = 1 .. Len(input)
         /\ Data \subseteq 1 .. Len(input)
         /\ \A i \in 1 .. Len(input) :
               /\ input[i].offset \in 0 .. W * W - 1
               /\ input[i].recType \in Byte
               /\ input[i].csum \in Byte
               /\ input[i].body \in Seq(Byte)
               /\ input[i] = [offset |-> input[i].offset,
                              recType |-> input[i].recType,
                              body |-> input[i].body, csum |-> input[i].csum]
  <1>1. input \in Seq(HexRecord)
    BY InputsAssumption
  <1>2. Len(input) \in Nat /\ DOMAIN input = 1 .. Len(input)
    BY <1>1
  <1>3. Data \subseteq 1 .. Len(input)
    BY <1>2 DEF Data
  <1>4. ASSUME NEW i \in 1 .. Len(input)
        PROVE  input[i] \in HexRecord
    BY <1>1
  <1> QED
    BY <1>2, <1>3, <1>4 DEF HexRecord

LEMMA ByteIs == W \in Nat /\ W > 1 /\ Byte \subseteq Nat /\ Byte \subseteq Int
  BY ByteAssumption DEF Byte

\* The sequence of base addresses.
BasesUpTo(k) == {j \in 1 .. k : input[j].recType = BASE}
BaseIn(r) == (r.body[1] * W + r.body[2]) * W * W

LEMMA BaseOfIs ==
  ASSUME NEW k
  PROVE  BaseOf(k) = IF BasesUpTo(k - 1) = {} THEN 0
                     ELSE BaseIn(input[Max(BasesUpTo(k - 1))])
  BY Zenon DEF BaseOf, BasesUpTo, BaseIn

LEMMA LastBase ==
  ASSUME input \in Inputs, NEW k \in Nat, k <= Len(input), BasesUpTo(k) # {}
  PROVE  /\ Max(BasesUpTo(k)) \in BasesUpTo(k)
         /\ \A j \in BasesUpTo(k) : j <= Max(BasesUpTo(k))
  <1>1. BasesUpTo(k) \subseteq 0 .. k
    BY DEF BasesUpTo
  <1> QED
    BY <1>1, MaxIs

LEMMA BaseType ==
  ASSUME Proper, NEW k \in Nat, k <= Len(input)
  PROVE  BaseOf(k + 1) \in Nat
  <1>1. k + 1 - 1 = k
    OBVIOUS
  <1>i. input \in Inputs
    BY DEF Proper
  <1>2. CASE BasesUpTo(k) = {}
    BY <1>1, <1>2, BaseOfIs
  <1>3. CASE BasesUpTo(k) # {}
    <2>1. PICK j \in 1 .. k : j = Max(BasesUpTo(k)) /\ input[j].recType = BASE
      BY <1>3, <1>i, LastBase DEF BasesUpTo
    <2>2. j \in 1 .. Len(input) /\ j \in DOMAIN input
      BY <1>i, RecordIs
    <2>3. Len(input[j].body) = 2
      BY <2>1, <2>2 DEF Proper, WellFormed
    <2>4. input[j].body[1] \in Byte /\ input[j].body[2] \in Byte
      <3>1. input[j].body \in Seq(Byte)
        BY <1>i, <2>2, RecordIs
      <3> QED
        BY <2>3, <3>1
    <2>5. PICK x \in Nat, y \in Nat, w \in Nat :
             x = input[j].body[1] /\ y = input[j].body[2] /\ w = W
      BY <2>4, ByteIs
    <2>6. (x * w + y) * w * w \in Nat
      <3>1. x * w \in Nat
        OBVIOUS
      <3>2. PICK z \in Nat : z = x * w + y
        BY <3>1
      <3>3. PICK v \in Nat : v = z * w
        OBVIOUS
      <3>4. v * w \in Nat
        OBVIOUS
      <3> QED
        BY <3>2, <3>3, <3>4
    <2>7. BaseOf(k + 1) = (x * w + y) * w * w
      <3>1. BaseOf(k + 1) = BaseIn(input[j])
        BY <1>1, <1>3, <2>1, BaseOfIs
      <3> QED
        BY <2>5, <3>1, Zenon DEF BaseIn
    <2> QED
      BY <2>6, <2>7
  <1> QED
    BY <1>2, <1>3

\* What ReadBase makes of the base address, and what the others leave.
LEMMA BaseNext ==
  ASSUME input \in Inputs, NEW k \in 1 .. Len(input)
  PROVE  BaseOf(k + 1) = IF input[k].recType = BASE THEN BaseIn(input[k])
                         ELSE BaseOf(k)
  <1>1. Len(input) \in Nat /\ k \in Nat /\ k - 1 \in Nat /\ k + 1 - 1 = k
        /\ k <= Len(input)
    BY RecordIs
  <1>2. CASE input[k].recType = BASE
    <2>1. k \in BasesUpTo(k)
      BY <1>1, <1>2 DEF BasesUpTo
    <2>2. Max(BasesUpTo(k)) \in BasesUpTo(k) /\ k <= Max(BasesUpTo(k))
      BY <1>1, <2>1, LastBase
    <2>3. Max(BasesUpTo(k)) = k
      BY <1>1, <2>2 DEF BasesUpTo
    <2>4. BaseOf(k + 1) = BaseIn(input[k])
      BY <1>1, <2>1, <2>3, BaseOfIs
    <2> QED
      BY <1>2, <2>4
  <1>3. CASE input[k].recType # BASE
    <2>1. \A j : j \in BasesUpTo(k) <=> j \in BasesUpTo(k - 1)
      BY <1>1, <1>3 DEF BasesUpTo
    <2>2. BasesUpTo(k) = BasesUpTo(k - 1)
      BY <2>1
    <2>3. BaseOf(k + 1) = BaseOf(k)
      BY <1>1, <2>2, BaseOfIs
    <2> QED
      BY <1>3, <2>3
  <1> QED
    BY <1>2, <1>3

LEMMA FirstBase == BaseOf(1) = 0
  <1>1. BasesUpTo(1 - 1) = {}
    BY DEF BasesUpTo
  <1> QED
    BY <1>1, BaseOfIs

-----------------------------------------------------------------------------
(* Addresses *)

After(i) == Address(i) + Len(input[i].body)

LEMMA AddressIs ==
  ASSUME Proper
  PROVE  \A i \in Data :
            /\ Address(i) \in Nat /\ Address(i) # 0
            /\ Len(input[i].body) \in Nat /\ Len(input[i].body) > 0
            /\ After(i) \in Nat /\ Address(i) < After(i)
            /\ After(i) = Address(i) + Len(input[i].body)
            /\ Span(i) = Address(i) .. After(i) - 1
  <1> SUFFICES ASSUME NEW i \in Data
               PROVE  /\ Address(i) \in Nat /\ Address(i) # 0
                      /\ Len(input[i].body) \in Nat /\ Len(input[i].body) > 0
                      /\ After(i) \in Nat /\ Address(i) < After(i)
                      /\ After(i) = Address(i) + Len(input[i].body)
                      /\ Span(i) = Address(i) .. After(i) - 1
    OBVIOUS
  <1>i. input \in Inputs
    BY DEF Proper
  <1>1. i \in 1 .. Len(input) /\ Len(input) \in Nat /\ i \in DOMAIN input
    BY <1>i, RecordIs
  <1>2. BaseOf(i) \in Nat
    <2>1. i - 1 \in Nat /\ i - 1 <= Len(input) /\ (i - 1) + 1 = i
      BY <1>1
    <2> QED
      BY <2>1, BaseType
  <1>3. input[i].offset \in Nat
    <2>1. input[i].offset \in 0 .. W * W - 1
      BY <1>i, <1>1, RecordIs
    <2> QED
      BY <2>1, ByteIs
  <1>4. Address(i) \in Nat
    BY <1>2, <1>3 DEF Address
  <1>5. Address(i) # 0
    BY DEF Proper, StartsAtZero
  <1>6. input[i].body \in Seq(Byte) /\ input[i].body # <<>>
    BY <1>i, <1>1, RecordIs DEF Proper, WellFormed, Data
  <1>7. Len(input[i].body) \in Nat /\ Len(input[i].body) > 0
    BY <1>6
  <1>8. After(i) = Address(i) + Len(input[i].body)
    BY DEF After
  <1>9. Span(i) = Address(i) .. After(i) - 1
    BY <1>4, <1>7, <1>8 DEF Span
  <1> QED
    BY <1>4, <1>5, <1>7, <1>8, <1>9

LEMMA RecordsAscend ==
  ASSUME Proper, NEW i \in Data, NEW j \in Data, i < j
  PROVE  After(i) <= Address(j)
  BY DEF Proper, WellFormed, After

LEMMA SpansApart ==
  ASSUME Proper, NEW i \in Data, NEW j \in Data, NEW x \in Span(i),
         x \in Span(j)
  PROVE  i = j
  <1>1. /\ Address(i) \in Nat /\ After(i) \in Nat
        /\ Address(j) \in Nat /\ After(j) \in Nat
        /\ x \in Address(i) .. After(i) - 1 /\ x \in Address(j) .. After(j) - 1
    BY AddressIs
  <1>2. i \in Nat /\ j \in Nat
    BY RecordIs DEF Proper
  <1>3. i < j => After(i) <= Address(j)
    BY RecordsAscend
  <1>4. j < i => After(j) <= Address(i)
    BY RecordsAscend
  <1> QED
    BY <1>1, <1>2, <1>3, <1>4

LEMMA ByteAtIs ==
  ASSUME Proper, NEW i \in Data, NEW x \in Span(i)
  PROVE  x \in Mapped /\ ByteAt(x) = input[i].body[x - Address(i) + 1]
  <1>1. RecordOf(x) \in Data /\ x \in Span(RecordOf(x))
    BY Zenon DEF RecordOf
  <1>2. RecordOf(x) = i
    BY <1>1, SpansApart
  <1>3. x \in Mapped
    BY DEF Mapped
  <1> QED
    BY <1>2, <1>3 DEF ByteAt

LEMMA MappedIs ==
  ASSUME Proper
  PROVE  /\ \A x : x \in Mapped <=> \E i \in Data : x \in Span(i)
         /\ Mapped \subseteq Nat
  <1>1. \A x : x \in Mapped <=> \E i \in Data : x \in Span(i)
    BY DEF Mapped
  <1>2. ASSUME NEW x \in Mapped
        PROVE  x \in Nat
    <2>1. PICK i \in Data : x \in Span(i)
      BY <1>1
    <2>2. Address(i) \in Nat /\ After(i) \in Nat /\ x \in Address(i) .. After(i) - 1
      BY <2>1, AddressIs
    <2> QED
      BY <2>2
  <1> QED
    BY <1>1, <1>2

-----------------------------------------------------------------------------
(* The memory that the first k records fill *)

Base == Address(Min(Data))
Place(i) == Address(i) - Base
DataUpTo(k) == {i \in Data : i <= k}

Updates == [begin : Nat, length : Nat, str : Seq(Byte), nextByte : Nat]
Segments == [offset : Nat, buf : Seq(Byte), update : Updates]

Holds(b, i) ==
    /\ b.offset <= Place(i)
    /\ Place(i) + Len(input[i].body) <= EndOf(b)
    /\ \A m \in DOMAIN input[i].body :
          b.buf[Place(i) - b.offset + m] = input[i].body[m]

Filled(b, k) ==
    \A x \in DOMAIN b.buf :
        \E i \in DataUpTo(k) : Base + b.offset + x - 1 \in Span(i)

\* Every segment is filled, and there is a hole behind it; every record lies
\* in one.
SegmentsOK(bufs, k) ==
    /\ bufs \in Seq(Segments)
    /\ \A s \in DOMAIN bufs : bufs[s].buf # <<>> /\ Filled(bufs[s], k)
    /\ \A s, t \in DOMAIN bufs : s < t => EndOf(bufs[s]) < bufs[t].offset
    /\ \A i \in DataUpTo(k) : \E s \in DOMAIN bufs : Holds(bufs[s], i)

LEMMA PlaceIs ==
  ASSUME Proper, NEW i \in Data
  PROVE  /\ Base \in Nat /\ Base # 0 /\ Base <= Address(i)
         /\ Place(i) \in Nat /\ Address(i) = Base + Place(i)
         /\ Place(i) + Len(input[i].body) = After(i) - Base
  <1>1. Data \subseteq Nat
    BY RecordIs DEF Proper
  <1>2. Min(Data) \in Data /\ Min(Data) <= i
    BY <1>1, MinIs
  <1>3. Base \in Nat /\ Base # 0
    BY <1>2, AddressIs DEF Base
  <1>4. Base <= Address(i)
    <2>1. PICK m \in Data : m = Min(Data) /\ m <= i
      BY <1>2
    <2>2. CASE m = i
      BY <2>1, <2>2, <1>3 DEF Base
    <2>3. CASE m # i
      <3>1. m < i
        BY <1>1, <2>1, <2>3
      <3>2. After(m) <= Address(i) /\ Address(m) < After(m)
        BY <3>1, RecordsAscend, AddressIs
      <3>3. Address(m) \in Nat /\ After(m) \in Nat /\ Address(i) \in Nat
        BY AddressIs
      <3> QED
        BY <2>1, <3>2, <3>3 DEF Base
    <2> QED
      BY <2>2, <2>3
  <1> QED
    BY <1>3, <1>4, AddressIs DEF Place

LEMMA SegmentIs ==
  ASSUME NEW b \in Segments
  PROVE  /\ b.offset \in Nat /\ b.buf \in Seq(Byte) /\ b.update \in Updates
         /\ Len(b.buf) \in Nat /\ DOMAIN b.buf = 1 .. Len(b.buf)
         /\ EndOf(b) \in Nat /\ EndOf(b) = b.offset + Len(b.buf)
         /\ b.buf # <<>> => Len(b.buf) > 0 /\ b.offset < EndOf(b)
  <1>1. b.offset \in Nat /\ b.buf \in Seq(Byte) /\ b.update \in Updates
    BY DEF Segments
  <1>2. Len(b.buf) \in Nat /\ DOMAIN b.buf = 1 .. Len(b.buf)
    BY <1>1
  <1>3. EndOf(b) = b.offset + Len(b.buf)
    BY DEF EndOf
  <1>4. b.buf # <<>> => Len(b.buf) > 0
    BY <1>1
  <1> QED
    BY <1>1, <1>2, <1>3, <1>4

\* No segment reaches behind the place of a record that is still to come.
LEMMA SegmentEnds ==
  ASSUME Proper, NEW k \in Nat, NEW bufs, SegmentsOK(bufs, k),
         NEW s \in DOMAIN bufs, NEW i \in Data, i > k
  PROVE  EndOf(bufs[s]) <= Place(i)
  <1>1. bufs[s] \in Segments /\ bufs[s].buf # <<>> /\ Filled(bufs[s], k)
    BY DEF SegmentsOK
  <1> DEFINE b == bufs[s]
  <1>2. PICK l \in Nat : l = Len(b.buf) /\ l > 0 /\ l \in DOMAIN b.buf
    BY <1>1, SegmentIs
  <1>3. PICK j \in DataUpTo(k) : Base + b.offset + l - 1 \in Span(j)
    BY <1>1, <1>2 DEF Filled
  <1>4. j \in Data /\ j < i
    BY RecordIs DEF DataUpTo, Proper
  <1>5. Base + b.offset + l - 1 <= After(j) - 1 /\ After(j) <= Address(i)
    BY <1>3, <1>4, AddressIs, RecordsAscend
  <1>6. /\ Base \in Nat /\ b.offset \in Nat /\ EndOf(b) = b.offset + l
        /\ After(j) \in Nat /\ Address(i) = Base + Place(i) /\ Place(i) \in Nat
    BY <1>1, <1>2, <1>4, AddressIs, PlaceIs, SegmentIs
  <1> QED
    BY <1>5, <1>6

LEMMA UpToNext ==
  ASSUME input \in Inputs, NEW k \in Nat
  PROVE  /\ \A i : i \in DataUpTo(k) => i \in DataUpTo(k + 1)
         /\ \A i : i \in DataUpTo(k + 1) <=>
               i \in DataUpTo(k) \/ (i = k + 1 /\ k + 1 \in Data)
  BY RecordIs DEF DataUpTo

LEMMA FilledMore ==
  ASSUME input \in Inputs, NEW k \in Nat, NEW b, Filled(b, k)
  PROVE  Filled(b, k + 1)
  BY UpToNext DEF Filled

-----------------------------------------------------------------------------
(* A record that is written *)

IsGrown(c, b, p) ==
    /\ c \in Segments /\ c.offset = b.offset /\ c.update = b.update
    /\ Len(c.buf) = Len(b.buf) + Len(p)
    /\ \A x \in 1 .. Len(b.buf) : c.buf[x] = b.buf[x]
    /\ \A m \in 1 .. Len(p) : c.buf[Len(b.buf) + m] = p[m]

LEMMA HoldsGrown ==
  ASSUME Proper, NEW b \in Segments, NEW c, NEW p \in Seq(Byte),
         IsGrown(c, b, p), NEW i \in Data, Holds(b, i)
  PROVE  Holds(c, i)
  <1>1. /\ c.offset = b.offset /\ Len(c.buf) = Len(b.buf) + Len(p)
        /\ \A x \in 1 .. Len(b.buf) : c.buf[x] = b.buf[x]
    BY DEF IsGrown
  <1>2. /\ c \in Segments /\ Len(p) \in Nat
        /\ b.offset \in Nat /\ Len(b.buf) \in Nat
        /\ EndOf(b) = b.offset + Len(b.buf) /\ EndOf(c) = c.offset + Len(c.buf)
    BY SegmentIs DEF IsGrown
  <1>3. Place(i) \in Nat /\ Len(input[i].body) \in Nat
    BY PlaceIs, AddressIs
  <1>4. DOMAIN input[i].body = 1 .. Len(input[i].body)
    BY RecordIs DEF Proper
  <1>5. b.offset <= Place(i) /\ Place(i) + Len(input[i].body) <= EndOf(b)
    BY DEF Holds
  <1>6. ASSUME NEW m \in DOMAIN input[i].body
        PROVE  c.buf[Place(i) - c.offset + m] = input[i].body[m]
    <2>1. b.buf[Place(i) - b.offset + m] = input[i].body[m]
      BY DEF Holds
    <2>2. Place(i) - b.offset + m \in 1 .. Len(b.buf)
      <3>1. PICK q \in Nat, o \in Nat, l \in Nat, z \in Nat :
               q = Place(i) /\ o = b.offset /\ l = Len(b.buf)
               /\ z = Len(input[i].body)
        BY <1>2, <1>3
      <3>2. m \in 1 .. z
        BY <1>4, <3>1
      <3>3. o <= q /\ q + z <= o + l
        BY <1>2, <1>5, <3>1
      <3>4. q - o + m \in 1 .. l
        BY <3>2, <3>3
      <3> QED
        BY <3>1, <3>4
    <2> QED
      BY <1>1, <2>1, <2>2
  <1>7. c.offset <= Place(i) /\ Place(i) + Len(input[i].body) <= EndOf(c)
    BY <1>1, <1>2, <1>3, <1>5, SMTT(60)
  <1> QED
    BY <1>6, <1>7 DEF Holds

\* The record itself, at the end of a segment that reaches up to its place.
LEMMA HoldsNew ==
  ASSUME Proper, NEW b \in Segments, NEW c, NEW i \in Data,
         IsGrown(c, b, input[i].body), EndOf(b) = Place(i)
  PROVE  Holds(c, i)
  <1> DEFINE p == input[i].body
  <1>1. /\ c.offset = b.offset /\ Len(c.buf) = Len(b.buf) + Len(p)
        /\ \A m \in 1 .. Len(p) : c.buf[Len(b.buf) + m] = p[m]
    BY DEF IsGrown
  <1>2. /\ c \in Segments /\ Len(p) \in Nat
        /\ b.offset \in Nat /\ Len(b.buf) \in Nat
        /\ EndOf(b) = b.offset + Len(b.buf) /\ EndOf(c) = c.offset + Len(c.buf)
    BY SegmentIs, AddressIs DEF IsGrown
  <1>3. Place(i) = c.offset + Len(b.buf)
    BY <1>1, <1>2
  <1>4. DOMAIN p = 1 .. Len(p)
    BY RecordIs DEF Proper
  <1>5. ASSUME NEW m \in DOMAIN p
        PROVE  c.buf[Place(i) - c.offset + m] = p[m]
    <2>1. Place(i) - c.offset + m = Len(b.buf) + m
      BY <1>1, <1>2, <1>3, <1>4
    <2> QED
      BY <1>1, <1>4, <2>1
  <1>6. c.offset <= Place(i) /\ Place(i) + Len(p) <= EndOf(c)
    <2>1. PICK q \in Nat, o \in Nat, l \in Nat, z \in Nat :
             /\ q = Place(i) /\ o = c.offset /\ l = Len(b.buf) /\ z = Len(p)
      BY <1>1, <1>2, PlaceIs
    <2>2. q = o + l /\ EndOf(c) = o + (l + z)
      BY <1>1, <1>2, <1>3, <2>1
    <2>3. o <= q /\ q + z <= o + (l + z)
      BY <2>2
    <2> QED
      BY <2>1, <2>2, <2>3
  <1> QED
    BY <1>5, <1>6 DEF Holds

LEMMA FilledGrown ==
  ASSUME Proper, NEW k \in Nat, k + 1 \in Data, NEW b \in Segments, NEW c,
         IsGrown(c, b, input[k + 1].body), EndOf(b) = Place(k + 1),
         Filled(b, k)
  PROVE  Filled(c, k + 1)
  <1> DEFINE i == k + 1
             p == input[i].body
  <1>1. /\ c.offset = b.offset /\ Len(c.buf) = Len(b.buf) + Len(p)
    BY DEF IsGrown
  <1>2. /\ c \in Segments /\ Len(p) \in Nat
        /\ b.offset \in Nat /\ Len(b.buf) \in Nat
        /\ EndOf(b) = b.offset + Len(b.buf)
        /\ DOMAIN b.buf = 1 .. Len(b.buf) /\ DOMAIN c.buf = 1 .. Len(c.buf)
    BY SegmentIs, AddressIs DEF IsGrown
  <1>3. i \in DataUpTo(i)
    BY DEF DataUpTo
  <1>4. /\ Base \in Nat /\ Address(i) = Base + Place(i)
        /\ After(i) = Address(i) + Len(p)
        /\ Span(i) = Address(i) .. After(i) - 1
    BY PlaceIs, AddressIs
  <1> SUFFICES ASSUME NEW x \in DOMAIN c.buf
               PROVE  \E j \in DataUpTo(i) : Base + c.offset + x - 1 \in Span(j)
    BY DEF Filled
  <1>5. CASE x <= Len(b.buf)
    <2>1. x \in DOMAIN b.buf
      BY <1>2, <1>5
    <2>2. PICK j \in DataUpTo(k) : Base + b.offset + x - 1 \in Span(j)
      BY <2>1 DEF Filled
    <2>3. j \in DataUpTo(i)
      BY UpToNext DEF Proper
    <2> QED
      BY <1>1, <2>2, <2>3
  <1>6. CASE x > Len(b.buf)
    <2> HIDE DEF p, i
    <2>1. x \in Nat /\ x <= Len(b.buf) + Len(p)
      BY <1>1, <1>2
    <2>2. Address(i) = Base + b.offset + Len(b.buf)
      BY <1>2, <1>4 DEF i
    <2>3. Base + c.offset + x - 1 \in Address(i) .. After(i) - 1
      <3>1. PICK e \in Nat, o \in Nat, l \in Nat, z \in Nat :
               /\ e = Base /\ o = b.offset /\ l = Len(b.buf) /\ z = Len(p)
        BY <1>2, <1>4
      <3>2. /\ Address(i) = e + o + l /\ After(i) = e + o + l + z
            /\ x <= l + z /\ x > l
        BY <1>2, <1>4, <1>6, <2>1, <2>2, <3>1
      <3>3. e + o + x - 1 \in e + o + l .. (e + o + l + z) - 1
        BY <2>1, <3>2
      <3> QED
        BY <1>1, <3>1, <3>2, <3>3
    <2> QED
      BY <1>3, <1>4, <2>3
  <1> QED
    BY <1>2, <1>5, <1>6

LEMMA SegmentReplaced ==
  ASSUME NEW bufs \in Seq(Segments), NEW s \in DOMAIN bufs, NEW c \in Segments,
         NEW bufs2, bufs2 = [bufs EXCEPT ![s] = c]
  PROVE  /\ bufs2 \in Seq(Segments) /\ DOMAIN bufs2 = DOMAIN bufs
         /\ bufs2[s] = c
         /\ \A t \in DOMAIN bufs : t # s => bufs2[t] = bufs[t]
  OBVIOUS

LEMMA InsertedLast ==
  ASSUME NEW bufs \in Seq(Segments), NEW new
  PROVE  InsertAt(bufs, Len(bufs) + 1, new) = Append(bufs, new)
  <1>1. Len(bufs) \in Nat /\ Len(bufs) + 1 - 1 = Len(bufs)
    OBVIOUS
  <1>2. SubSeq(bufs, 1, Len(bufs)) = bufs
    OBVIOUS
  <1>3. SubSeq(bufs, Len(bufs) + 1, Len(bufs)) = <<>>
    OBVIOUS
  <1>4. bufs \o <<new>> = Append(bufs, new)
    OBVIOUS
  <1>5. Append(bufs, new) \o <<>> = Append(bufs, new)
    OBVIOUS
  <1>6. InsertAt(bufs, Len(bufs) + 1, new)
          = SubSeq(bufs, 1, Len(bufs) + 1 - 1) \o <<new>>
              \o SubSeq(bufs, Len(bufs) + 1, Len(bufs))
    BY DEF InsertAt
  <1>7. SubSeq(bufs, 1, Len(bufs) + 1 - 1) = bufs
    BY <1>1, <1>2
  <1> QED
    BY <1>3, <1>4, <1>5, <1>6, <1>7

NoneUpdated(bufs) == \A s \in DOMAIN bufs : bufs[s].update = NoUpdate

Grown(b, p) == [b EXCEPT !.buf = @ \o p]

LEMMA GrownIs ==
  ASSUME NEW b \in Segments, NEW p \in Seq(Byte), p # <<>>
  PROVE  /\ IsGrown(Grown(b, p), b, p)
         /\ Grown(b, p).buf # <<>>
         /\ EndOf(Grown(b, p)) = EndOf(b) + Len(p)
         /\ Grown(b, p).update = b.update /\ Grown(b, p).offset = b.offset
  <1> DEFINE c == Grown(b, p)
  <1>1. b.buf \in Seq(Byte) /\ Len(b.buf) \in Nat /\ b.offset \in Nat
        /\ EndOf(b) = b.offset + Len(b.buf) /\ b.update \in Updates
    BY SegmentIs
  <1>2. c.offset = b.offset /\ c.update = b.update /\ c.buf = b.buf \o p
    BY DEF Grown, Segments
  <1>3. c \in Segments
    <2>1. b.buf \o p \in Seq(Byte)
      BY <1>1
    <2> QED
      BY <2>1 DEF Grown, Segments
  <1>4. b.buf \o p \in Seq(Byte) /\ Len(b.buf \o p) = Len(b.buf) + Len(p)
    BY <1>1
  <1>5. \A x \in 1 .. Len(b.buf) : (b.buf \o p)[x] = b.buf[x]
    BY <1>1
  <1>6. \A m \in 1 .. Len(p) : (b.buf \o p)[Len(b.buf) + m] = p[m]
    BY <1>1
  <1>7. IsGrown(c, b, p)
    BY <1>2, <1>3, <1>4, <1>5, <1>6 DEF IsGrown
  <1>8. Len(p) \in Nat /\ Len(p) > 0
    OBVIOUS
  <1>9. EndOf(c) = EndOf(b) + Len(p)
    BY <1>1, <1>2, <1>4, <1>8 DEF EndOf
  <1>10. c.buf # <<>>
    <2>1. Len(c.buf) > 0
      BY <1>1, <1>2, <1>4, <1>8
    <2> QED
      BY <1>2, <1>4, <2>1
  <1> QED
    BY <1>2, <1>7, <1>9, <1>10

\* What the record k + 1 is when it is data.
LEMMA NextIs ==
  ASSUME Proper, NEW k \in Nat, k + 1 \in Data
  PROVE  /\ input[k + 1].body \in Seq(Byte) /\ input[k + 1].body # <<>>
         /\ Place(k + 1) \in Nat /\ k + 1 > k
  <1>1. k + 1 \in DOMAIN input /\ input[k + 1].recType = DATA
    BY DEF Data
  <1>2. input[k + 1].body \in Seq(Byte)
    BY <1>1, RecordIs DEF Proper
  <1>3. input[k + 1].body # <<>>
    BY <1>1 DEF Proper, WellFormed
  <1> QED
    BY <1>2, <1>3, PlaceIs

LEMMA WrittenBehind ==
  ASSUME Proper, NEW k \in Nat, k + 1 \in Data, NEW bufs,
         SegmentsOK(bufs, k), NoneUpdated(bufs),
         NEW s \in DOMAIN bufs, EndOf(bufs[s]) = Place(k + 1),
         NEW bufs2,
         bufs2 = [bufs EXCEPT ![s] = Grown(bufs[s], input[k + 1].body)]
  PROVE  SegmentsOK(bufs2, k + 1) /\ NoneUpdated(bufs2)
  <1> DEFINE p == input[k + 1].body
             c == Grown(bufs[s], p)
  <1>1. bufs \in Seq(Segments) /\ DOMAIN bufs = 1 .. Len(bufs) /\ Len(bufs) \in Nat
    BY DEF SegmentsOK
  <1>2. \A t \in DOMAIN bufs : bufs[t] \in Segments
    BY <1>1
  <1>3. p \in Seq(Byte) /\ p # <<>> /\ k + 1 > k
    BY NextIs
  <1>4. /\ IsGrown(c, bufs[s], p) /\ c.buf # <<>> /\ c.update = bufs[s].update
        /\ c.offset = bufs[s].offset
    BY <1>2, <1>3, GrownIs
  <1>5. c \in Segments
    BY <1>4 DEF IsGrown
  <1>6. /\ bufs2 \in Seq(Segments) /\ DOMAIN bufs2 = DOMAIN bufs
        /\ bufs2[s] = c
        /\ \A t \in DOMAIN bufs : t # s => bufs2[t] = bufs[t]
    BY <1>1, <1>5, SegmentReplaced
  <1>7. \A t \in DOMAIN bufs : t <= s
    <2> SUFFICES ASSUME NEW t \in DOMAIN bufs, ~(t <= s)
                 PROVE  FALSE
      OBVIOUS
    <2>1. EndOf(bufs[s]) < bufs[t].offset
      BY <1>1 DEF SegmentsOK
    <2>2. EndOf(bufs[t]) <= Place(k + 1)
      BY <1>3, SegmentEnds
    <2>3. bufs[t].offset < EndOf(bufs[t]) /\ bufs[t].offset \in Nat
          /\ EndOf(bufs[t]) \in Nat /\ EndOf(bufs[s]) \in Nat
      BY <1>2, SegmentIs DEF SegmentsOK
    <2> QED
      BY <2>1, <2>2, <2>3
  <1>8. \A t, u \in DOMAIN bufs2 : t < u => EndOf(bufs2[t]) < bufs2[u].offset
    <2> SUFFICES ASSUME NEW t \in DOMAIN bufs, NEW u \in DOMAIN bufs, t < u
                 PROVE  EndOf(bufs2[t]) < bufs2[u].offset
      BY <1>6
    <2>1. EndOf(bufs[t]) < bufs[u].offset
      BY DEF SegmentsOK
    <2>2. t # s
      BY <1>1, <1>7
    <2>3. bufs2[t] = bufs[t] /\ bufs2[u].offset = bufs[u].offset
      BY <1>4, <1>6, <2>2
    <2> QED
      BY <2>1, <2>3
  <1>9. ASSUME NEW t \in DOMAIN bufs2
        PROVE  bufs2[t].buf # <<>> /\ Filled(bufs2[t], k + 1)
               /\ bufs2[t].update = NoUpdate
    <2>1. bufs[t].buf # <<>> /\ Filled(bufs[t], k) /\ bufs[t].update = NoUpdate
      BY <1>6 DEF SegmentsOK, NoneUpdated
    <2>2. CASE t = s
      <3>1. Filled(c, k + 1)
        BY <1>2, <1>4, <2>1, <2>2, FilledGrown
      <3> QED
        BY <1>4, <1>6, <2>1, <2>2, <3>1
    <2>3. CASE t # s
      <3>1. Filled(bufs[t], k + 1)
        BY <2>1, FilledMore DEF Proper
      <3> QED
        BY <1>6, <2>1, <2>3, <3>1
    <2> QED
      BY <2>2, <2>3
  <1>10. ASSUME NEW j \in DataUpTo(k + 1)
         PROVE  \E t \in DOMAIN bufs2 : Holds(bufs2[t], j)
    <2>1. j \in Data
      BY DEF DataUpTo
    <2>2. CASE j = k + 1
      <3>1. Holds(c, k + 1)
        BY <1>2, <1>4, HoldsNew
      <3> QED
        BY <1>6, <2>2, <3>1
    <2>3. CASE j \in DataUpTo(k)
      <3>1. PICK t \in DOMAIN bufs : Holds(bufs[t], j)
        BY <2>3 DEF SegmentsOK
      <3>2. CASE t = s
        <4>1. Holds(c, j)
          BY <1>2, <1>3, <1>4, <2>1, <3>1, <3>2, HoldsGrown
        <4> QED
          BY <1>6, <4>1
      <3>3. CASE t # s
        BY <1>6, <3>1, <3>3
      <3> QED
        BY <3>2, <3>3
    <2> QED
      BY <2>2, <2>3, UpToNext DEF Proper
  <1>11. SegmentsOK(bufs2, k + 1)
    BY <1>6, <1>8, <1>9, <1>10 DEF SegmentsOK
  <1> QED
    BY <1>9, <1>11 DEF NoneUpdated

LEMMA WrittenNew ==
  ASSUME Proper, NEW k \in Nat, k + 1 \in Data, NEW bufs,
         SegmentsOK(bufs, k), NoneUpdated(bufs),
         \A s \in DOMAIN bufs : EndOf(bufs[s]) # Place(k + 1),
         NEW bufs2, NEW b,
         b = [offset |-> Place(k + 1), buf |-> input[k + 1].body,
              update |-> NoUpdate],
         bufs2 = Append(bufs, b)
  PROVE  SegmentsOK(bufs2, k + 1) /\ NoneUpdated(bufs2)
  <1> DEFINE i == k + 1
             p == input[i].body
  <1>1. bufs \in Seq(Segments) /\ DOMAIN bufs = 1 .. Len(bufs) /\ Len(bufs) \in Nat
    BY DEF SegmentsOK
  <1>2. \A t \in DOMAIN bufs : bufs[t] \in Segments
    BY <1>1
  <1>3. p \in Seq(Byte) /\ p # <<>> /\ i > k /\ Place(i) \in Nat
    BY NextIs
  <1>4. b \in Segments /\ b.buf # <<>> /\ b.update = NoUpdate
        /\ b.offset = Place(i) /\ b.buf = p
    <2>1. NoUpdate \in Updates
      BY DEF NoUpdate, Updates
    <2> QED
      BY <1>3, <2>1 DEF Segments
  <1>5. /\ bufs2 \in Seq(Segments)
        /\ DOMAIN bufs2 = 1 .. Len(bufs) + 1
        /\ bufs2[Len(bufs) + 1] = b
        /\ \A t \in DOMAIN bufs : t \in DOMAIN bufs2 /\ bufs2[t] = bufs[t]
    BY <1>1, <1>4
  <1>6. \A t \in DOMAIN bufs2 : t \in DOMAIN bufs \/ t = Len(bufs) + 1
    BY <1>1, <1>5
  <1>7. Len(p) \in Nat /\ Len(p) > 0 /\ EndOf(b) = Place(i) + Len(p)
    BY <1>3, <1>4 DEF EndOf
  <1>8. \A t, u \in DOMAIN bufs2 : t < u => EndOf(bufs2[t]) < bufs2[u].offset
    <2> SUFFICES ASSUME NEW t \in DOMAIN bufs2, NEW u \in DOMAIN bufs2, t < u
                 PROVE  EndOf(bufs2[t]) < bufs2[u].offset
      OBVIOUS
    <2>1. t \in DOMAIN bufs
      BY <1>1, <1>5
    <2>2. CASE u \in DOMAIN bufs
      BY <1>5, <2>1, <2>2 DEF SegmentsOK
    <2>3. CASE u = Len(bufs) + 1
      <3>1. EndOf(bufs[t]) <= Place(i) /\ EndOf(bufs[t]) # Place(i)
        BY <1>3, <2>1, SegmentEnds
      <3>2. EndOf(bufs[t]) \in Nat
        BY <1>2, <2>1, SegmentIs
      <3> QED
        BY <1>3, <1>4, <1>5, <2>1, <2>3, <3>1, <3>2
    <2> QED
      BY <1>6, <2>2, <2>3
  <1>9. Filled(b, i)
    <2> SUFFICES ASSUME NEW x \in DOMAIN p
                 PROVE  Base + b.offset + x - 1 \in Span(i)
      BY <1>4 DEF Filled, DataUpTo
    <2>1. /\ Base \in Nat /\ Address(i) = Base + Place(i)
          /\ After(i) = Address(i) + Len(p)
          /\ Span(i) = Address(i) .. After(i) - 1
      BY PlaceIs, AddressIs
    <2>2. x \in 1 .. Len(p)
      BY <1>3
    <2> HIDE DEF p, i
    <2>3. Base + Place(i) + x - 1 \in Address(i) .. After(i) - 1
      BY <1>3, <1>7, <2>1, <2>2
    <2> QED
      BY <1>4, <2>1, <2>3
  <1>10. ASSUME NEW t \in DOMAIN bufs2
         PROVE  bufs2[t].buf # <<>> /\ Filled(bufs2[t], i)
                /\ bufs2[t].update = NoUpdate
    <2>1. CASE t \in DOMAIN bufs
      <3>1. bufs[t].buf # <<>> /\ Filled(bufs[t], k) /\ bufs[t].update = NoUpdate
        BY <2>1 DEF SegmentsOK, NoneUpdated
      <3>2. Filled(bufs[t], i)
        BY <3>1, FilledMore DEF Proper
      <3> QED
        BY <1>5, <2>1, <3>1, <3>2
    <2>2. CASE t = Len(bufs) + 1
      BY <1>4, <1>5, <1>9, <2>2
    <2> QED
      BY <1>6, <2>1, <2>2
  <1>11. Holds(b, i)
    <2>1. Place(i) + Len(p) <= EndOf(b) /\ b.offset <= Place(i)
      BY <1>3, <1>4, <1>7
    <2>2. \A m \in DOMAIN p : Place(i) - b.offset + m = m
      BY <1>3, <1>4
    <2> QED
      BY <1>4, <2>1, <2>2 DEF Holds
  <1>12. ASSUME NEW j \in DataUpTo(i)
         PROVE  \E t \in DOMAIN bufs2 : Holds(bufs2[t], j)
    <2>1. CASE j = i
      <3>1. Len(bufs) + 1 \in DOMAIN bufs2
        BY <1>1, <1>5
      <3> QED
        BY <1>5, <1>11, <2>1, <3>1
    <2>2. CASE j \in DataUpTo(k)
      <3>1. PICK t \in DOMAIN bufs : Holds(bufs[t], j)
        BY <2>2 DEF SegmentsOK
      <3> QED
        BY <1>5, <3>1
    <2> QED
      BY <2>1, <2>2, UpToNext DEF Proper
  <1>13. SegmentsOK(bufs2, i)
    BY <1>5, <1>8, <1>10, <1>12 DEF SegmentsOK
  <1> QED
    BY <1>10, <1>13 DEF NoneUpdated

LEMMA WrittenIs ==
  ASSUME Proper, NEW k \in Nat, k + 1 \in Data, NEW bufs,
         SegmentsOK(bufs, k), NoneUpdated(bufs),
         NEW bufs2 \in WriteAt(bufs, input[k + 1].body, Place(k + 1))
  PROVE  SegmentsOK(bufs2, k + 1) /\ NoneUpdated(bufs2)
  <1> DEFINE off == Place(k + 1)
             p == input[k + 1].body
             ending == {s \in DOMAIN bufs : EndOf(bufs[s]) = off}
             new == [offset |-> off, buf |-> p, update |-> NoUpdate]
  <1>1. bufs \in Seq(Segments) /\ DOMAIN bufs = 1 .. Len(bufs) /\ Len(bufs) \in Nat
    BY DEF SegmentsOK
  <1>2. CASE ending # {}
    <2>1. Min(ending) \in ending
      <3>1. ending \subseteq Nat
        BY <1>1
      <3> QED
        BY <1>2, <3>1, MinIs
    <2>2. bufs2 = [bufs EXCEPT ![Min(ending)].buf = @ \o p]
      BY <1>2, Zenon DEF WriteAt
    <2>3. bufs2 = [bufs EXCEPT ![Min(ending)] = Grown(bufs[Min(ending)], p)]
      BY <2>2 DEF Grown
    <2> QED
      BY <2>1, <2>3, WrittenBehind
  <1>3. CASE ending = {}
    <2>1. PICK j \in 1 .. Len(bufs) + 1 :
             /\ bufs2 = InsertAt(bufs, j, new)
             /\ \A l \in j .. Len(bufs) : bufs[l].offset >= off
      BY <1>3, Zenon DEF WriteAt
    <2>2. j = Len(bufs) + 1
      <3> SUFFICES ASSUME j # Len(bufs) + 1
                   PROVE  FALSE
        OBVIOUS
      <3>1. j \in DOMAIN bufs /\ j \in j .. Len(bufs)
        BY <1>1
      <3>2. bufs[j].offset >= off
        BY <2>1, <3>1
      <3>3. bufs[j] \in Segments /\ bufs[j].buf # <<>>
        BY <3>1 DEF SegmentsOK
      <3>4. bufs[j].offset < EndOf(bufs[j]) /\ bufs[j].offset \in Nat
            /\ EndOf(bufs[j]) \in Nat
        BY <3>3, SegmentIs
      <3>5. off \in Nat /\ k + 1 > k
        BY NextIs
      <3>6. EndOf(bufs[j]) <= off
        BY <3>1, <3>5, SegmentEnds
      <3> QED
        BY <3>2, <3>4, <3>5, <3>6
    <2>3. InsertAt(bufs, Len(bufs) + 1, new) = Append(bufs, new)
      BY <1>1, InsertedLast
    <2>4. \A s \in DOMAIN bufs : EndOf(bufs[s]) # off
      BY <1>3
    <2> QED
      BY <2>1, <2>2, <2>3, <2>4, WrittenNew
  <1> QED
    BY <1>2, <1>3

-----------------------------------------------------------------------------
(* The memory when the whole file is read *)

Loaded(bufs) == SegmentsOK(bufs, Len(input))

Stretch(b) == Base + b.offset .. Base + EndOf(b) - 1

LEMMA AllData ==
  ASSUME Proper
  PROVE  DataUpTo(Len(input)) = Data
  BY RecordIs DEF DataUpTo, Proper

LEMMA LoadedIs ==
  ASSUME Proper, NEW bufs, Loaded(bufs), NEW s \in DOMAIN bufs
  PROVE  /\ bufs[s] \in Segments /\ bufs[s].buf # <<>>
         /\ Filled(bufs[s], Len(input)) /\ s \in Nat
         /\ bufs \in Seq(Segments) /\ DOMAIN bufs = 1 .. Len(bufs)
  BY DEF Loaded, SegmentsOK

\* The numbers of a segment.
Lies(b, e, o, l) ==
    /\ e = Base /\ e # 0 /\ o = b.offset /\ l = Len(b.buf) /\ l > 0
    /\ DOMAIN b.buf = 1 .. l /\ b.buf \in Seq(Byte)
    /\ EndOf(b) = o + l /\ Base + EndOf(b) = e + o + l
    /\ \A x : x \in Stretch(b) <=> x \in Int /\ e + o <= x /\ x < e + o + l

LEMMA StretchIs ==
  ASSUME Proper, NEW bufs, Loaded(bufs), NEW s \in DOMAIN bufs
  PROVE  \E e \in Nat, o \in Nat, l \in Nat : Lies(bufs[s], e, o, l)
  <1>1. bufs[s] \in Segments /\ bufs[s].buf # <<>>
    BY LoadedIs
  <1>2. PICK o \in Nat, l \in Nat :
           /\ o = bufs[s].offset /\ l = Len(bufs[s].buf)
           /\ l > 0 /\ DOMAIN bufs[s].buf = 1 .. l
           /\ bufs[s].buf \in Seq(Byte)
           /\ EndOf(bufs[s]) = o + l
    BY <1>1, SegmentIs
  <1>3. Base \in Nat /\ Base # 0
    <2>1. Filled(bufs[s], Len(input)) /\ 1 \in DOMAIN bufs[s].buf
      BY <1>2, LoadedIs
    <2>2. PICK i \in Data : TRUE
      BY <2>1 DEF Filled, DataUpTo
    <2> QED
      BY <2>2, PlaceIs
  <1>4. PICK e \in Nat : e = Base
    BY <1>3
  <1>5. Stretch(bufs[s]) = e + o .. e + (o + l) - 1
    BY <1>2, <1>4, Zenon DEF Stretch
  <1>6. e + (o + l) - 1 = (e + o + l) - 1
    OBVIOUS
  <1>7. Stretch(bufs[s]) = e + o .. (e + o + l) - 1
    BY <1>5, <1>6
  <1>8. \A x : x \in Stretch(bufs[s]) <=>
               x \in Int /\ e + o <= x /\ x < e + o + l
    BY <1>7
  <1>9. Base + EndOf(bufs[s]) = e + o + l
    BY <1>2, <1>4
  <1>10. Lies(bufs[s], e, o, l)
    BY <1>2, <1>3, <1>4, <1>8, <1>9 DEF Lies
  <1> QED
    BY <1>10

LEMMA StretchesApart ==
  ASSUME Proper, NEW bufs, Loaded(bufs), NEW s \in DOMAIN bufs,
         NEW t \in DOMAIN bufs, s < t
  PROVE  \A x \in Stretch(bufs[s]), y \in Stretch(bufs[t]) :
            /\ x \in Int /\ y \in Int
            /\ x < Base + EndOf(bufs[s]) /\ Base + EndOf(bufs[s]) < y
  <1>1. PICK e \in Nat, o \in Nat, l \in Nat : Lies(bufs[s], e, o, l)
    BY StretchIs
  <1>2. PICK f \in Nat, q \in Nat, m \in Nat : Lies(bufs[t], f, q, m)
    BY StretchIs
  <1>3. o + l < q
    BY <1>1, <1>2 DEF Lies, Loaded, SegmentsOK
  <1>4. f = e
    BY <1>1, <1>2 DEF Lies
  <1>5. \A x \in Stretch(bufs[s]) : x \in Int /\ x < e + o + l
    BY <1>1 DEF Lies
  <1>6. \A y \in Stretch(bufs[t]) : y \in Int /\ e + o + l < y
    <2> SUFFICES ASSUME NEW y \in Stretch(bufs[t])
                 PROVE  y \in Int /\ e + o + l < y
      OBVIOUS
    <2>1. y \in Int /\ e + q <= y
      BY <1>2, <1>4 DEF Lies
    <2> QED
      BY <1>3, <2>1
  <1> QED
    BY <1>1, <1>5, <1>6 DEF Lies

LEMMA SameStretch ==
  ASSUME Proper, NEW bufs, Loaded(bufs), NEW s \in DOMAIN bufs,
         NEW t \in DOMAIN bufs, NEW x \in Stretch(bufs[s]),
         x \in Stretch(bufs[t])
  PROVE  s = t
  <1>1. s \in Nat /\ t \in Nat
    BY LoadedIs
  <1>2. Base + EndOf(bufs[s]) \in Int /\ Base + EndOf(bufs[t]) \in Int
    <2>1. ASSUME NEW u \in DOMAIN bufs
          PROVE  Base + EndOf(bufs[u]) \in Int
      <3>1. PICK e \in Nat, o \in Nat, l \in Nat : Lies(bufs[u], e, o, l)
        BY StretchIs
      <3> QED
        BY <3>1 DEF Lies
    <2> QED
      BY <2>1 DEF Lies
  <1>3. s < t => FALSE
    BY <1>2, StretchesApart DEF Lies
  <1>4. t < s => FALSE
    BY <1>2, StretchesApart DEF Lies
  <1> QED
    BY <1>1, <1>3, <1>4 DEF Lies

\* A record lies in the stretch of the segment that holds it.
LEMMA HeldIs ==
  ASSUME Proper, NEW bufs, Loaded(bufs), NEW s \in DOMAIN bufs, NEW i \in Data,
         Holds(bufs[s], i)
  PROVE  /\ Span(i) \subseteq Stretch(bufs[s])
         /\ \A x \in Span(i) :
               input[i].body[x - Address(i) + 1]
                 = bufs[s].buf[x - Base - bufs[s].offset + 1]
  <1>1. PICK e \in Nat, o \in Nat, l \in Nat : Lies(bufs[s], e, o, l)
    BY StretchIs
  <1>2. PICK q \in Nat, z \in Nat : q = Place(i) /\ z = Len(input[i].body)
    BY PlaceIs, AddressIs
  <1>3. Address(i) = e + q /\ After(i) = Address(i) + z
        /\ Span(i) = Address(i) .. After(i) - 1
    BY <1>1, <1>2, PlaceIs, AddressIs DEF Lies
  <1>4. o <= q /\ q + z <= o + l
    BY <1>1, <1>2 DEF Lies, Holds
  <1>5. Span(i) = e + q .. (e + q + z) - 1
    BY <1>3
  <1>6. Span(i) \subseteq Stretch(bufs[s])
    <2> SUFFICES ASSUME NEW x \in Span(i)
                 PROVE  x \in Stretch(bufs[s])
      OBVIOUS
    <2>1. x \in Int /\ e + q <= x /\ x <= (e + q + z) - 1
      BY <1>5
    <2>2. e + o <= x /\ x < e + o + l
      BY <1>4, <2>1
    <2> QED
      BY <1>1, <2>1, <2>2 DEF Lies
  <1>7. ASSUME NEW x \in Span(i)
        PROVE  input[i].body[x - Address(i) + 1]
                 = bufs[s].buf[x - Base - bufs[s].offset + 1]
    <2>1. x \in Int /\ x - Address(i) + 1 \in 1 .. z
      BY <1>3, <1>5
    <2>2. x - Address(i) + 1 \in DOMAIN input[i].body
      BY <1>2, <2>1, RecordIs DEF Lies, Proper
    <2>3. bufs[s].buf[Place(i) - bufs[s].offset + (x - Address(i) + 1)]
            = input[i].body[x - Address(i) + 1]
      BY <2>2 DEF Lies, Holds
    <2>4. Place(i) - bufs[s].offset + (x - Address(i) + 1)
            = x - Base - bufs[s].offset + 1
      <3>1. q - o + (x - (e + q) + 1) = x - e - o + 1
        BY <2>1
      <3>2. e = Base /\ o = bufs[s].offset
        BY <1>1 DEF Lies
      <3> QED
        BY <1>2, <1>3, <3>1, <3>2
    <2> QED
      BY <2>3, <2>4
  <1> QED
    BY <1>6, <1>7

LEMMA HeldBy ==
  ASSUME Proper, NEW bufs, Loaded(bufs), NEW i \in Data
  PROVE  \E s \in DOMAIN bufs : Holds(bufs[s], i)
  BY AllData DEF Loaded, SegmentsOK

\* What a segment holds is what the file says.
LEMMA StretchSays ==
  ASSUME Proper, NEW bufs, Loaded(bufs), NEW s \in DOMAIN bufs,
         NEW x \in Stretch(bufs[s])
  PROVE  /\ x \in Mapped /\ x \in Int
         /\ x - Base - bufs[s].offset + 1 \in DOMAIN bufs[s].buf
         /\ ByteAt(x) = bufs[s].buf[x - Base - bufs[s].offset + 1]
  <1>1. PICK e \in Nat, o \in Nat, l \in Nat : Lies(bufs[s], e, o, l)
    BY StretchIs
  <1>2. x \in Int /\ x - Base - bufs[s].offset + 1 \in 1 .. l
    <2>1. x \in Int /\ e + o <= x /\ x < e + o + l
      BY <1>1 DEF Lies
    <2>2. x - e - o + 1 \in 1 .. l
      BY <2>1
    <2> QED
      BY <1>1, <2>1, <2>2 DEF Lies
  <1>3. Filled(bufs[s], Len(input))
    BY LoadedIs
  <1>4. Base + bufs[s].offset + (x - Base - bufs[s].offset + 1) - 1 = x
    <2>1. e = Base /\ o = bufs[s].offset
      BY <1>1 DEF Lies
    <2>2. PICK y \in Int : y = x
      BY <1>2
    <2>3. e + o + (y - e - o + 1) - 1 = y
      OBVIOUS
    <2> QED
      BY <2>1, <2>2, <2>3, Zenon
  <1>5. PICK i \in Data : x \in Span(i)
    BY <1>1, <1>2, <1>3, <1>4 DEF Lies, Filled, DataUpTo
  <1>6. PICK t \in DOMAIN bufs : Holds(bufs[t], i)
    BY HeldBy
  <1>7. x \in Stretch(bufs[t])
        /\ input[i].body[x - Address(i) + 1]
                 = bufs[t].buf[x - Base - bufs[t].offset + 1]
    BY <1>5, <1>6, HeldIs
  <1>8. s = t
    BY <1>7, SameStretch
  <1> QED
    BY <1>1, <1>2, <1>5, <1>7, <1>8, ByteAtIs DEF Lies

LEMMA StretchOf ==
  ASSUME Proper, NEW bufs, Loaded(bufs), NEW x \in Mapped
  PROVE  \E s \in DOMAIN bufs : x \in Stretch(bufs[s])
  <1>1. PICK i \in Data : x \in Span(i)
    BY MappedIs
  <1>2. PICK t \in DOMAIN bufs : Holds(bufs[t], i)
    BY HeldBy
  <1> QED
    BY <1>1, <1>2, HeldIs DEF Lies

\* There is a hole behind each segment.
LEMMA HoleBehind ==
  ASSUME Proper, NEW bufs, Loaded(bufs), NEW s \in DOMAIN bufs
  PROVE  Base + EndOf(bufs[s]) \notin Mapped
  <1> DEFINE x == Base + EndOf(bufs[s])
  <1> SUFFICES ASSUME x \in Mapped
               PROVE  FALSE
    OBVIOUS
  <1>1. PICK t \in DOMAIN bufs : x \in Stretch(bufs[t])
    BY StretchOf
  <1>2. PICK e \in Nat, o \in Nat, l \in Nat : Lies(bufs[s], e, o, l)
    BY StretchIs
  <1>3. x = e + o + l /\ x \in Int
    BY <1>2 DEF Lies
  <1>4. e + o \in Stretch(bufs[s]) /\ x \notin Stretch(bufs[s])
    BY <1>2, <1>3, SMTT(60) DEF Lies
  <1>5. s \in Nat /\ t \in Nat
    BY LoadedIs
  <1>6. CASE s < t
    BY <1>1, <1>3, <1>4, <1>6, StretchesApart DEF Lies
  <1>7. CASE t < s
    <2>1. x < Base + EndOf(bufs[t]) /\ Base + EndOf(bufs[t]) < e + o
      BY <1>1, <1>4, <1>7, StretchesApart DEF Lies
    <2>2. PICK f \in Nat, q \in Nat, m \in Nat : Lies(bufs[t], f, q, m)
      BY StretchIs
    <2>3. x < f + q + m /\ f + q + m < e + o
      BY <2>1, <2>2 DEF Lies
    <2>4. x = e + o + l
      BY <1>2, <1>3
    <2> QED
      BY <2>3, <2>4
  <1>8. CASE s = t
    BY <1>1, <1>4, <1>8 DEF Lies
  <1> QED
    BY <1>5, <1>6, <1>7, <1>8

\* So memory without a hole is in one segment.
LEMMA OneStretch ==
  ASSUME Proper, NEW bufs, Loaded(bufs), NEW s \in DOMAIN bufs,
         NEW x \in Stretch(bufs[s]), NEW y \in Int, x <= y, x .. y \subseteq Mapped
  PROVE  x .. y \subseteq Stretch(bufs[s])
  <1>1. PICK e \in Nat, o \in Nat, l \in Nat : Lies(bufs[s], e, o, l)
    BY StretchIs
  <1>2. Base + EndOf(bufs[s]) \notin x .. y
    BY HoleBehind
  <1>3. Base + EndOf(bufs[s]) = e + o + l
    BY <1>1 DEF Lies
  <1>4. e + o + l \notin x .. y
    BY <1>2, <1>3
  <1>5. x \in Int /\ e + o <= x /\ x < e + o + l
    BY <1>1 DEF Lies
  <1>6. ASSUME NEW z \in x .. y
        PROVE  z \in Stretch(bufs[s])
    <2>1. z \in Int /\ e + o <= z /\ z < e + o + l
      BY <1>4, <1>5
    <2> QED
      BY <1>1, <2>1 DEF Lies
  <1> QED
    BY <1>6

-----------------------------------------------------------------------------
(* Occurrences *)

Sought == {q \in Seq(Byte) : Len(q) > 0}

LEMMA SoughtIs == SearchBegin \in Sought /\ SearchEnd \in Sought
  BY SearchAssumption DEF Sought, Byte

LEMMA SameBytes ==
  ASSUME NEW s \in Seq(Byte), NEW t \in Seq(Byte), Len(s) = Len(t),
         \A j \in 1 .. Len(s) : s[j] = t[j]
  PROVE  s = t
  OBVIOUS

LEMMA OccursIs ==
  ASSUME NEW v \in Seq(Byte), NEW q \in Sought, NEW i \in Nat
  PROVE  i \in Occurrences(v, q) <=>
            \A j \in 1 .. Len(q) : i + j \in 1 .. Len(v) /\ v[i + j] = q[j]
  <1> DEFINE n == Len(q)
             w == SubSeq(v, i + 1, i + n)
  <1>1. q \in Seq(Byte) /\ n \in Nat /\ n > 0 /\ Len(v) \in Nat
    BY DEF Sought
  <1>2. i \in Occurrences(v, q) <=> i <= Len(v) - n /\ w = q
    BY <1>1 DEF Occurrences
  <1>3. ASSUME i <= Len(v) - n
        PROVE  /\ w \in Seq(Byte) /\ Len(w) = n
               /\ \A j \in 1 .. n : i + j \in 1 .. Len(v) /\ w[j] = v[i + j]
    <2>1. i + n <= Len(v) /\ i + 1 \in 1 .. Len(v) /\ i + n \in 1 .. Len(v)
      BY <1>1, <1>3
    <2>2. w \in Seq(Byte) /\ Len(w) = n
      BY <1>1, <2>1
    <2>3. \A j \in 1 .. n : i + j \in 1 .. Len(v) /\ w[j] = v[i + j]
      BY <1>1, <2>1
    <2> QED
      BY <2>2, <2>3
  <1>4. ASSUME i <= Len(v) - n, w = q
        PROVE  \A j \in 1 .. n : i + j \in 1 .. Len(v) /\ v[i + j] = q[j]
    BY <1>3, <1>4
  <1>5. ASSUME \A j \in 1 .. n : i + j \in 1 .. Len(v) /\ v[i + j] = q[j]
        PROVE  i <= Len(v) - n /\ w = q
    <2>1. i + n \in 1 .. Len(v)
      BY <1>1, <1>5
    <2>2. i <= Len(v) - n
      BY <1>1, <2>1
    <2>3. /\ w \in Seq(Byte) /\ Len(w) = n
          /\ \A j \in 1 .. n : w[j] = q[j]
      BY <1>3, <1>5, <2>2
    <2>4. w = q
      <3> HIDE DEF w
      <3> QED
        BY <1>1, <2>3, SameBytes
    <2> QED
      BY <2>2, <2>4
  <1> QED
    BY <1>2, <1>4, <1>5

LEMMA OccurrencesAre ==
  ASSUME NEW v \in Seq(Byte), NEW q \in Sought
  PROVE  Occurrences(v, q) \subseteq Nat
  BY DEF Occurrences, Sought

\* The occurrences behind a place.
LEMMA OccursBehind ==
  ASSUME NEW v \in Seq(Byte), NEW q \in Sought, NEW o \in Nat, o < Len(v),
         NEW i \in Nat
  PROVE  i \in Occurrences(SubSeq(v, o + 1, Len(v)), q)
           <=> o + i \in Occurrences(v, q)
  <1> DEFINE w == SubSeq(v, o + 1, Len(v))
  <1>1. Len(v) \in Nat /\ Len(q) \in Nat
    BY DEF Sought
  <1>2. w \in Seq(Byte) /\ Len(w) = Len(v) - o
        /\ \A x \in 1 .. Len(v) - o : w[x] = v[o + x]
    BY <1>1
  <1> HIDE DEF w
  <1>3. i \in Occurrences(w, q) <=>
          \A j \in 1 .. Len(q) : i + j \in 1 .. Len(w) /\ w[i + j] = q[j]
    BY <1>2, OccursIs
  <1>4. o + i \in Nat
    OBVIOUS
  <1>5. o + i \in Occurrences(v, q) <=>
          \A j \in 1 .. Len(q) :
             (o + i) + j \in 1 .. Len(v) /\ v[(o + i) + j] = q[j]
    BY <1>4, OccursIs
  <1>6. ASSUME NEW j \in 1 .. Len(q)
        PROVE  (i + j \in 1 .. Len(w) /\ w[i + j] = q[j])
                 <=> ((o + i) + j \in 1 .. Len(v) /\ v[(o + i) + j] = q[j])
    <2>1. j \in Nat /\ j > 0 /\ o + (i + j) = (o + i) + j
      BY <1>1
    <2>2. i + j \in 1 .. Len(v) - o <=> (o + i) + j \in 1 .. Len(v)
      BY <1>1, <2>1
    <2> QED
      BY <1>2, <2>1, <2>2
  <1>7. i \in Occurrences(w, q) <=> o + i \in Occurrences(v, q)
    BY <1>3, <1>5, <1>6
  <1> QED
    BY <1>7 DEF w

-----------------------------------------------------------------------------
(* What is in the memory, and in a segment of it *)

LEMMA MatchIs ==
  ASSUME Proper, NEW bufs, Loaded(bufs), NEW s \in DOMAIN bufs,
         NEW a \in Stretch(bufs[s]), NEW q \in Sought
  PROVE  /\ a - Base - bufs[s].offset \in Nat
         /\ Matches(a, q) <=>
              a - Base - bufs[s].offset \in Occurrences(bufs[s].buf, q)
         /\ Matches(a, q) => a + Len(q) - 1 \in Stretch(bufs[s])
  <1> DEFINE v == bufs[s].buf
             i == a - Base - bufs[s].offset
  <1>1. PICK e \in Nat, o \in Nat, l \in Nat : Lies(bufs[s], e, o, l)
    BY StretchIs
  <1>2. a \in Int /\ e + o <= a /\ a < e + o + l
    BY <1>1 DEF Lies
  <1>3. i = a - e - o /\ a - e - o \in Nat
    BY <1>1, <1>2 DEF Lies
  <1>4. v \in Seq(Byte) /\ Len(v) = l
    BY <1>1 DEF Lies
  <1>5. PICK n \in Nat : n = Len(q) /\ n > 0 /\ DOMAIN q = 1 .. n
    BY DEF Sought
  <1>6. i \in Occurrences(v, q) <=>
          \A j \in 1 .. n : i + j \in 1 .. l /\ v[i + j] = q[j]
    <2> HIDE DEF i, v
    <2>1. i \in Nat
      BY <1>3
    <2> QED
      BY <2>1, <1>4, <1>5, OccursIs
  <1>7. \A j \in Int : a + j - 1 \in Stretch(bufs[s]) <=> i + j \in 1 .. l
    <2> SUFFICES ASSUME NEW j \in Int
                 PROVE  a + j - 1 \in Stretch(bufs[s]) <=> i + j \in 1 .. l
      OBVIOUS
    <2>1. a + j - 1 \in Int
      BY <1>2
    <2>2. a + j - 1 \in Stretch(bufs[s]) <=>
             e + o <= a + j - 1 /\ a + j - 1 < e + o + l
      BY <1>1, <2>1 DEF Lies
    <2>3. (e + o <= a + j - 1 /\ a + j - 1 < e + o + l)
            <=> (a - e - o) + j \in 1 .. l
      BY <1>2
    <2> QED
      BY <1>3, <2>2, <2>3
  <1>8. \A j \in Int : i + j \in 1 .. l =>
           a + j - 1 \in Mapped /\ ByteAt(a + j - 1) = v[i + j]
    <2> SUFFICES ASSUME NEW j \in Int, i + j \in 1 .. l
                 PROVE  a + j - 1 \in Mapped /\ ByteAt(a + j - 1) = v[i + j]
      OBVIOUS
    <2>1. a + j - 1 \in Stretch(bufs[s])
      BY <1>7
    <2>2. a + j - 1 \in Mapped
          /\ ByteAt(a + j - 1) = v[(a + j - 1) - Base - bufs[s].offset + 1]
      BY <2>1, StretchSays
    <2>3. (a + j - 1) - Base - bufs[s].offset + 1 = i + j
      <3>1. (a + j - 1) - e - o + 1 = (a - e - o) + j
        BY <1>2
      <3> QED
        BY <1>1, <1>3, <3>1 DEF Lies
    <2> QED
      BY <2>2, <2>3
  <1>9. ASSUME Matches(a, q)
        PROVE  \A j \in 1 .. n : i + j \in 1 .. l
    <2>1. \A j \in 1 .. n : a + j - 1 \in Mapped
      BY <1>5, <1>9 DEF Matches
    <2>2. a .. a + n - 1 \subseteq Mapped
      <3> SUFFICES ASSUME NEW x \in a .. a + n - 1
                   PROVE  x \in Mapped
        OBVIOUS
      <3>1. x - a + 1 \in 1 .. n /\ a + (x - a + 1) - 1 = x
        BY <1>2, <1>5
      <3> QED
        BY <2>1, <3>1
    <2>3. a + n - 1 \in Int /\ a <= a + n - 1
      BY <1>2, <1>5
    <2>4. a .. a + n - 1 \subseteq Stretch(bufs[s])
      BY <2>2, <2>3, OneStretch
    <2> SUFFICES ASSUME NEW j \in 1 .. n
                 PROVE  i + j \in 1 .. l
      OBVIOUS
    <2>5. j \in Int /\ a + j - 1 \in a .. a + n - 1
      BY <1>2
    <2> QED
      BY <1>7, <2>4, <2>5
  <1>10. Matches(a, q) <=> i \in Occurrences(v, q)
    <2>1. ASSUME Matches(a, q)
          PROVE  \A j \in 1 .. n : i + j \in 1 .. l /\ v[i + j] = q[j]
      <3>1. \A j \in 1 .. n : ByteAt(a + j - 1) = q[j]
        BY <1>5, <2>1 DEF Matches
      <3> QED
        BY <1>8, <1>9, <2>1, <3>1
    <2>2. ASSUME \A j \in 1 .. n : i + j \in 1 .. l /\ v[i + j] = q[j]
          PROVE  Matches(a, q)
      BY <1>5, <1>8, <2>2 DEF Matches
    <2> QED
      BY <1>6, <2>1, <2>2
  <1>11. ASSUME Matches(a, q)
         PROVE  a + n - 1 \in Stretch(bufs[s])
    <2>1. i + n \in 1 .. l
      BY <1>5, <1>9, <1>11
    <2> QED
      BY <1>5, <1>7, <2>1
  <1> QED
    BY <1>3, <1>5, <1>10, <1>11

-----------------------------------------------------------------------------
(* Certificates *)

\* A stretch of memory that reaches up to a place in a segment is in it.
LEMMA StretchBack ==
  ASSUME Proper, NEW bufs, Loaded(bufs), NEW s \in DOMAIN bufs,
         NEW a \in Stretch(bufs[s]), NEW b \in Mapped, b <= a,
         b .. a \subseteq Mapped
  PROVE  b \in Stretch(bufs[s])
  <1>1. PICK t \in DOMAIN bufs : b \in Stretch(bufs[t])
    BY StretchOf
  <1>2. a \in Int /\ b \in Int
    BY <1>1, StretchSays
  <1>3. a \in Stretch(bufs[t])
    BY <1>1, <1>2, OneStretch
  <1> QED
    BY <1>1, <1>3, SameStretch

\* A byte of a segment by its place in it.
LEMMA StretchAt ==
  ASSUME Proper, NEW bufs, Loaded(bufs), NEW s \in DOMAIN bufs, NEW x \in Int
  PROVE  /\ Base \in Nat /\ bufs[s].offset \in Nat
         /\ x \in Stretch(bufs[s]) <=>
              /\ x - Base - bufs[s].offset \in Nat
              /\ x - Base - bufs[s].offset < Len(bufs[s].buf)
  <1>1. PICK e \in Nat, o \in Nat, l \in Nat : Lies(bufs[s], e, o, l)
    BY StretchIs
  <1>2. e = Base /\ o = bufs[s].offset /\ l = Len(bufs[s].buf)
    BY <1>1 DEF Lies
  <1>3. x \in Stretch(bufs[s]) <=> e + o <= x /\ x < e + o + l
    BY <1>1 DEF Lies
  <1>4. e + o <= x /\ x < e + o + l <=> x - e - o \in Nat /\ x - e - o < l
    OBVIOUS
  <1> QED
    BY <1>2, <1>3, <1>4

InStretch(bufs, s, x, y) ==
    x .. y \subseteq Stretch(bufs[s]) /\ x .. y \subseteq Mapped

LEMMA StretchFull ==
  ASSUME Proper, NEW bufs, Loaded(bufs), NEW s \in DOMAIN bufs,
         NEW x \in Stretch(bufs[s]), NEW y \in Stretch(bufs[s])
  PROVE  InStretch(bufs, s, x, y)
  <1>1. PICK e \in Nat, o \in Nat, l \in Nat : Lies(bufs[s], e, o, l)
    BY StretchIs
  <1>2. x .. y \subseteq Stretch(bufs[s])
    <2> SUFFICES ASSUME NEW z \in x .. y
                 PROVE  z \in Stretch(bufs[s])
      OBVIOUS
    <2>1. x \in Int /\ y \in Int /\ e + o <= x /\ y < e + o + l
      BY <1>1 DEF Lies
    <2>2. z \in Int /\ e + o <= z /\ z < e + o + l
      BY <2>1
    <2> QED
      BY <1>1, <2>2 DEF Lies
  <1> QED
    BY <1>2, StretchSays DEF InStretch

LEMMA CertificateIs ==
  ASSUME Proper, NEW bufs, Loaded(bufs), NEW s \in DOMAIN bufs,
         NEW a \in Stretch(bufs[s]), NEW i \in Nat,
         i = a - Base - bufs[s].offset
  PROVE  a \in Certificates <=>
            /\ i \in Occurrences(bufs[s].buf, SearchBegin)
            /\ \A k \in Occurrences(bufs[s].buf, SearchBegin) : i <= k
  <1> DEFINE occ == Occurrences(bufs[s].buf, SearchBegin)
  <1>0. a \in Mapped /\ a \in Int
    BY StretchSays
  <1>1. Matches(a, SearchBegin) <=> i \in occ
    BY MatchIs, SoughtIs
  <1>2. PICK e \in Nat, o \in Nat, l \in Nat : Lies(bufs[s], e, o, l)
    BY StretchIs
  <1>3. bufs[s].buf \in Seq(Byte) /\ Len(bufs[s].buf) = l /\ i = a - e - o
        /\ e = Base /\ o = bufs[s].offset
    BY <1>2 DEF Lies
  <1>4. occ \subseteq Nat
    BY <1>3, SoughtIs, OccurrencesAre
  <1>5. ASSUME a \in Certificates, NEW k \in occ, ~(i <= k)
        PROVE  FALSE
    <2>1. PICK b \in Int : b = e + o + k
      BY <1>4
    <2>2. b < a /\ b - e - o = k /\ k \in Nat /\ k < l
      <3>1. i < l
        BY <1>0, <1>3, StretchAt
      <3> QED
        BY <1>0, <1>3, <1>4, <1>5, <2>1, <3>1, SMTT(60)
    <2>3. b \in Stretch(bufs[s])
      BY <1>3, <2>2, StretchAt
    <2>4. b \in Mapped /\ b .. a \subseteq Mapped
      BY <2>3, StretchSays, StretchFull DEF InStretch
    <2>5. b - Base - bufs[s].offset = k
      BY <1>3, <2>2
    <2>6. Matches(b, SearchBegin)
      BY <1>5, <2>3, <2>5, MatchIs, SoughtIs
    <2> QED
      BY <1>5, <2>2, <2>4, <2>6 DEF Certificates
  <1>6. ASSUME i \in occ, \A k \in occ : i <= k, NEW b \in Mapped, b < a,
               b .. a \subseteq Mapped, Matches(b, SearchBegin)
        PROVE  FALSE
    <2>1. b \in Int
      BY MappedIs
    <2>2. b \in Stretch(bufs[s])
      BY <1>0, <1>6, <2>1, StretchBack
    <2>3. b - Base - bufs[s].offset \in occ
      BY <1>6, <2>2, MatchIs, SoughtIs
    <2>4. b - e - o \in occ
      BY <1>3, <2>3
    <2>5. i <= b - e - o
      BY <1>6, <2>4
    <2> QED
      BY <1>0, <1>3, <1>6, <2>1, <2>5
  <1> QED
    BY <1>0, <1>1, <1>5, <1>6 DEF Certificates

\* A segment holds one certificate at most: the first that is found in it.
LEMMA FirstCertificate ==
  ASSUME Proper, NEW bufs, Loaded(bufs), NEW s \in DOMAIN bufs
  PROVE  LET v == bufs[s].buf
             occ == Occurrences(v, SearchBegin)
         IN  \/ occ = {} /\ Index(v, SearchBegin) = -1
                /\ Certificates \cap Stretch(bufs[s]) = {}
             \/ \E a \in Certificates \cap Stretch(bufs[s]) :
                  /\ Certificates \cap Stretch(bufs[s]) = {a}
                  /\ Index(v, SearchBegin) \in occ
                  /\ Index(v, SearchBegin) = a - Base - bufs[s].offset
  <1> DEFINE v == bufs[s].buf
             occ == Occurrences(v, SearchBegin)
             cs == Certificates \cap Stretch(bufs[s])
  <1>1. PICK e \in Nat, o \in Nat, l \in Nat : Lies(bufs[s], e, o, l)
    BY StretchIs
  <1>2. v \in Seq(Byte) /\ Len(v) = l /\ e = Base /\ o = bufs[s].offset
    BY <1>1 DEF Lies
  <1>3. occ \subseteq Nat
    BY <1>2, SoughtIs, OccurrencesAre
  <1>4. \A a \in cs : a \in Int /\ a - Base - bufs[s].offset \in Nat
    BY MatchIs, SoughtIs, StretchSays
  <1>5. CASE occ = {}
    <2>1. cs = {}
      BY <1>4, <1>5, CertificateIs
    <2> QED
      BY <1>5, <2>1 DEF Index
  <1>6. CASE occ # {}
    <2>1. PICK i \in Nat : i = Min(occ) /\ i \in occ /\ \A k \in occ : i <= k
      BY <1>3, <1>6, MinIs
    <2>2. Index(v, SearchBegin) = i
      BY <1>6, <2>1 DEF Index
    <2>3. PICK a \in Int : a = e + o + i
      OBVIOUS
    <2>4. a - e - o = i
      BY <2>3
    <2>5. i < l
      <3>1. Len(SearchBegin) \in Nat /\ Len(SearchBegin) > 0
        BY SoughtIs DEF Sought
      <3>2. i + 1 \in 1 .. l
        BY <1>2, <2>1, <3>1, SoughtIs, OccursIs
      <3> QED
        BY <3>2
    <2>6. a \in Stretch(bufs[s]) /\ i = a - Base - bufs[s].offset
      BY <1>2, <2>4, <2>5, StretchAt
    <2>7. a \in cs
      BY <2>1, <2>6, CertificateIs
    <2>8. ASSUME NEW b \in cs
          PROVE  b = a
      <3>1. PICK k \in Nat : k = b - Base - bufs[s].offset /\ b \in Int
        BY <1>4
      <3>2. k \in occ /\ k <= i
        BY <2>1, <3>1, CertificateIs
      <3>3. i <= k
        BY <2>1, <3>2
      <3>4. b - e - o = i
        BY <1>2, <3>1, <3>2, <3>3
      <3> QED
        BY <2>4, <3>1, <3>4
    <2>9. cs = {a}
      BY <2>7, <2>8
    <2> QED
      BY <2>1, <2>2, <2>6, <2>7, <2>9
  <1> QED
    BY <1>5, <1>6

LEMMA EndIs ==
  ASSUME Proper, NEW bufs, Loaded(bufs), NEW s \in DOMAIN bufs,
         NEW a \in Certificates \cap Stretch(bufs[s]), NEW i \in Nat,
         i = a - Base - bufs[s].offset
  PROVE  LET v == bufs[s].buf
             end == Index(SubSeq(v, i + 1, Len(v)), SearchEnd)
         IN  /\ end \in Nat
             /\ CertificateEnd(a) = a + end + Len(SearchEnd) - 1
             /\ CertificateEnd(a) \in Stretch(bufs[s])
             /\ a <= CertificateEnd(a)
  <1> DEFINE v == bufs[s].buf
             behind == Occurrences(SubSeq(v, i + 1, Len(v)), SearchEnd)
  <1>1. PICK e \in Nat, o \in Nat, l \in Nat : Lies(bufs[s], e, o, l)
    BY StretchIs
  <1>2. v \in Seq(Byte) /\ Len(v) = l /\ e = Base /\ o = bufs[s].offset
    BY <1>1 DEF Lies
  <1>3. a \in Int /\ i = a - e - o /\ i < l
    BY <1>2, StretchSays, StretchAt
  <1>4. behind \subseteq Nat
    <2>1. SubSeq(v, i + 1, Len(v)) \in Seq(Byte)
      BY <1>2
    <2> QED
      BY <2>1, SoughtIs, OccurrencesAre
  <1>5. ASSUME NEW n \in Nat
        PROVE  a + n \in Ends(a) <=> n \in behind
    <2> DEFINE x == a + n
    <2>1. x \in Int /\ a <= x /\ x - e - o = i + n /\ i + n \in Nat
      BY <1>3
    <2>2. n \in behind <=> i + n \in Occurrences(v, SearchEnd)
      BY <1>2, <1>3, SoughtIs, OccursBehind
    <2> HIDE DEF x, behind
    <2>3. ASSUME x \in Stretch(bufs[s])
          PROVE  x \in Ends(a) <=> n \in behind
      <3>1. x - Base - bufs[s].offset = i + n
        BY <1>2, <2>1
      <3>2. Matches(x, SearchEnd) <=> i + n \in Occurrences(v, SearchEnd)
        BY <2>3, <3>1, MatchIs, SoughtIs
      <3>3. x \in Mapped /\ a .. x \subseteq Mapped
        BY <2>3, StretchSays, StretchFull DEF InStretch
      <3> QED
        BY <2>1, <2>2, <3>2, <3>3 DEF Ends
    <2>4. x \in Ends(a) => x \in Stretch(bufs[s])
      <3> SUFFICES ASSUME x \in Ends(a)
                   PROVE  x \in Stretch(bufs[s])
        OBVIOUS
      <3>1. a .. x \subseteq Mapped
        BY DEF Ends
      <3>2. a .. x \subseteq Stretch(bufs[s])
        BY <2>1, <3>1, OneStretch
      <3> QED
        BY <1>3, <2>1, <3>2
    <2>5. n \in behind => x \in Stretch(bufs[s])
      <3> SUFFICES ASSUME i + n \in Occurrences(v, SearchEnd)
                   PROVE  x \in Stretch(bufs[s])
        BY <2>2
      <3>1. Len(SearchEnd) \in Nat /\ Len(SearchEnd) > 0
        BY SoughtIs DEF Sought
      <3>2. (i + n) + 1 \in 1 .. l
        BY <1>2, <2>1, <3>1, SoughtIs, OccursIs
      <3>3. x - Base - bufs[s].offset = i + n
        BY <1>2, <2>1
      <3>4. i + n \in Nat /\ i + n < l
        BY <2>1, <3>2
      <3>5. /\ x - Base - bufs[s].offset \in Nat
            /\ x - Base - bufs[s].offset < Len(bufs[s].buf)
        BY <1>2, <3>3, <3>4, Zenon
      <3> QED
        BY <2>1, <3>5, StretchAt
    <2>6. x \in Ends(a) <=> n \in behind
      BY <2>3, <2>4, <2>5
    <2> QED
      BY <2>6 DEF x
  <1>6. Ends(a) \subseteq Nat /\ Ends(a) # {} /\ \A x \in Ends(a) : a <= x
    <2>1. Ends(a) # {}
      BY DEF Proper, WellFormed
    <2> QED
      BY <2>1, MappedIs DEF Ends
  <1>7. PICK m \in Nat : m = Min(Ends(a)) /\ m \in Ends(a)
                         /\ \A x \in Ends(a) : m <= x
    BY <1>6, MinIs
  <1>8. PICK d \in Nat : m = a + d
    <2>1. m - a \in Nat /\ m = a + (m - a)
      BY <1>3, <1>6, <1>7
    <2> QED
      BY <2>1
  <1>9. d \in behind /\ \A n \in behind : d <= n
    <2>1. d \in behind
      BY <1>5, <1>7, <1>8
    <2>2. ASSUME NEW n \in behind
          PROVE  d <= n
      <3>1. n \in Nat
        BY <1>4
      <3>2. m <= a + n
        BY <1>5, <1>7, <3>1
      <3> QED
        BY <1>3, <1>8, <3>1, <3>2
    <2> QED
      BY <2>1, <2>2
  <1>10. Min(behind) = d
    <2>1. PICK f \in Nat : f = Min(behind) /\ f \in behind
                           /\ \A n \in behind : f <= n
      <3>1. behind # {}
        BY <1>9
      <3> QED
        BY <1>4, <3>1, MinIs
    <2>2. f <= d /\ d <= f
      BY <1>9, <2>1
    <2> QED
      BY <2>1, <2>2
  <1>11. Index(SubSeq(v, i + 1, Len(v)), SearchEnd) = d
    BY <1>9, <1>10 DEF Index
  <1>12. PICK z \in Nat : z = Len(SearchEnd) /\ z > 0
    BY SoughtIs DEF Sought
  <1>13. CertificateEnd(a) = a + d + z - 1
    BY <1>3, <1>7, <1>8, <1>12 DEF CertificateEnd
  <1>14. m + z - 1 \in Stretch(bufs[s])
    <2>1. Matches(m, SearchEnd) /\ a .. m \subseteq Mapped
      BY <1>7 DEF Ends
    <2>2. m \in Stretch(bufs[s])
      <3>1. m \in Int /\ a <= m
        BY <1>3, <1>8
      <3>2. a .. m \subseteq Stretch(bufs[s])
        BY <2>1, <3>1, OneStretch
      <3> QED
        BY <1>3, <3>1, <3>2
    <2> QED
      BY <1>12, <2>1, <2>2, MatchIs, SoughtIs
  <1>15. m + z - 1 = a + d + z - 1 /\ a <= a + d + z - 1
    BY <1>3, <1>8, <1>12
  <1> QED
    BY <1>11, <1>12, <1>13, <1>14, <1>15

-----------------------------------------------------------------------------
(* The records, and where the first slice of a certificate ends *)

ReadOffset(i) == IF i \in Data THEN Place(i) ELSE 0

RecordsOK(recs, k) ==
    /\ recs \in Seq([length : Nat, offset : Nat, recType : Nat,
                     readOffset : Nat, body : Seq(Byte)])
    /\ Len(recs) = k
    /\ \A i \in 1 .. k : recs[i] = Kept(input[i], ReadOffset(i))

AllRecords(recs) == RecordsOK(recs, Len(input))

LEMMA KeptIs ==
  ASSUME NEW r, NEW o
  PROVE  /\ Kept(r, o).length = Len(r.body) /\ Kept(r, o).offset = r.offset
         /\ Kept(r, o).recType = r.recType /\ Kept(r, o).readOffset = o
         /\ Kept(r, o).body = IF r.recType \in {BASE, START} THEN r.body ELSE <<>>
  BY DEF Kept

LEMMA AllRecordsAre ==
  ASSUME Proper, NEW recs, AllRecords(recs)
  PROVE  /\ DOMAIN recs = 1 .. Len(input) /\ DOMAIN input = 1 .. Len(input)
         /\ Len(input) \in Nat /\ 1 \in DOMAIN input
         /\ \A i \in DOMAIN input : recs[i].readOffset = ReadOffset(i)
  <1>1. DOMAIN input = 1 .. Len(input) /\ Len(input) \in Nat
    BY RecordIs DEF Proper
  <1>2. DOMAIN recs = 1 .. Len(input)
    BY <1>1 DEF AllRecords, RecordsOK
  <1>3. 1 \in DOMAIN input
    <2>1. input \in Seq(HexRecord) /\ input # <<>>
      BY InputsAssumption DEF Proper, WellFormed
    <2> QED
      BY <2>1
  <1>4. ASSUME NEW i \in DOMAIN input
        PROVE  recs[i].readOffset = ReadOffset(i)
    <2>1. recs[i] = Kept(input[i], ReadOffset(i))
      BY <1>1 DEF AllRecords, RecordsOK
    <2>2. Kept(input[i], ReadOffset(i)).readOffset = ReadOffset(i)
      BY SMT DEF Kept
    <2> QED
      BY <2>1, <2>2, Zenon
  <1> QED
    BY <1>1, <1>2, <1>3, <1>4

LEMMA AddressesAscend ==
  ASSUME Proper, NEW i \in Data, NEW j \in Data, i <= j
  PROVE  Address(i) <= Address(j)
  <1>1. i \in Nat /\ j \in Nat
    BY RecordIs DEF Proper
  <1>2. Address(i) \in Nat /\ Address(j) \in Nat /\ After(i) \in Nat
        /\ Address(i) < After(i)
    BY AddressIs
  <1>3. CASE i < j
    BY <1>2, <1>3, RecordsAscend
  <1>4. CASE i = j
    BY <1>2, <1>4
  <1> QED
    BY <1>1, <1>3, <1>4

LEMMA FirstAddress ==
  ASSUME Proper, NEW i \in Data
  PROVE  Min(Data) \in Data /\ Min(Data) <= i /\ Base = Address(Min(Data))
  <1>1. Data \subseteq Nat
    BY RecordIs DEF Proper
  <1> QED
    BY <1>1, MinIs DEF Base

LEMMA FirstSlice ==
  ASSUME Proper, NEW recs, AllRecords(recs), NEW a \in Mapped
  PROVE  FirstSliceLen(a - Base, recs)
           = IF SliceStarts(a) = {} THEN -1 ELSE Min(SliceStarts(a)) - a
  <1> DEFINE g == a - Base
             later == {i \in DOMAIN recs : recs[i].readOffset >= g}
             starts == SliceStarts(a)
  <1>1. PICK h \in Data : a \in Span(h)
    BY MappedIs
  <1>2. a \in Nat /\ Base \in Nat /\ g \in Nat
    <2>1. Address(h) \in Nat /\ a \in Address(h) .. After(h) - 1
      BY <1>1, AddressIs
    <2>2. Base \in Nat /\ Base <= Address(h)
      BY PlaceIs
    <2> QED
      BY <2>1, <2>2, AddressIs
  <1>3. /\ DOMAIN recs = DOMAIN input /\ 1 \in DOMAIN input
        /\ DOMAIN input \subseteq Nat /\ Data \subseteq DOMAIN input
        /\ DOMAIN input = 1 .. Len(input)
        /\ \A i \in DOMAIN input : recs[i].readOffset = ReadOffset(i)
    BY AllRecordsAre DEF Data
  <1>4. later \subseteq Nat
    BY <1>3
  <1>5. starts = {Address(i) : i \in {j \in Data : Address(j) >= a}}
    BY DEF SliceStarts
  <1>6. starts \subseteq Nat
    BY <1>5, AddressIs
  <1>7. FirstSliceLen(g, recs)
          = IF later = {} THEN -1 ELSE recs[Min(later)].readOffset - g
    BY Zenon DEF FirstSliceLen
  <1>8. \A i \in Data : recs[i].readOffset = Place(i)
                        /\ Place(i) \in Nat /\ Address(i) = Base + Place(i)
    BY <1>3, PlaceIs DEF ReadOffset
  <1>9. CASE g = 0
    <2>1. \A i \in DOMAIN input : recs[i].readOffset \in Nat
      BY <1>3, PlaceIs DEF ReadOffset
    <2>2. 1 \in later
      BY <1>3, <1>9, <2>1
    <2>3. Min(later) = 1
      <3>1. Min(later) \in later /\ Min(later) <= 1
        BY <1>4, <2>2, MinIs
      <3>2. Min(later) \in 1 .. Len(input)
        BY <1>3, <3>1
      <3> QED
        BY <3>1, <3>2
    <2>4. recs[1].readOffset = 0
      <3>1. CASE 1 \in Data
        <4>1. Min(Data) \in Data /\ Min(Data) <= 1 /\ Base = Address(Min(Data))
          BY <3>1, FirstAddress
        <4>2. Min(Data) \in 1 .. Len(input)
          BY <1>3, <4>1
        <4>3. Min(Data) = 1
          BY <4>1, <4>2
        <4>4. Base = Base + Place(1)
          BY <1>8, <3>1, <4>1, <4>3
        <4> QED
          BY <1>2, <1>8, <3>1, <4>4
      <3>2. CASE 1 \notin Data
        BY <1>3, <3>2 DEF ReadOffset
      <3> QED
        BY <3>1, <3>2
    <2>5. a = Base
      BY <1>2, <1>9
    <2>6. a \in starts
      <3>1. Min(Data) \in Data /\ Base = Address(Min(Data))
        BY <1>1, FirstAddress
      <3> QED
        BY <1>2, <1>5, <2>5, <3>1
    <2>7. Min(starts) = a
      <3>1. Min(starts) \in starts /\ Min(starts) <= a
        BY <1>6, <2>6, MinIs
      <3>2. \A x \in starts : x >= a
        BY <1>5
      <3> QED
        BY <1>2, <1>6, <3>1, <3>2
    <2>8. FirstSliceLen(g, recs) = 0
      BY <1>7, <1>9, <2>2, <2>3, <2>4
    <2> QED
      BY <1>2, <2>6, <2>7, <2>8
  <1>10. CASE g # 0
    <2>1. ASSUME NEW i
          PROVE  i \in later <=> i \in Data /\ Address(i) >= a
      <3>1. CASE i \in Data
        BY <1>2, <1>3, <1>8, <3>1
      <3>2. CASE i \notin Data
        BY <1>2, <1>3, <1>10, <3>2 DEF ReadOffset
      <3> QED
        BY <3>1, <3>2
    <2>2. starts = {} <=> later = {}
      BY <1>5, <2>1
    <2>3. ASSUME later # {}
          PROVE  Min(starts) - a = recs[Min(later)].readOffset - g
      <3>1. PICK m \in later : m = Min(later) /\ \A i \in later : m <= i
        BY <1>4, <2>3, MinIs
      <3>2. m \in Data /\ Address(m) \in starts
        BY <1>5, <2>1, <3>1
      <3>3. \A x \in starts : Address(m) <= x
        <4> SUFFICES ASSUME NEW j \in Data, Address(j) >= a
                     PROVE  Address(m) <= Address(j)
          BY <1>5
        <4>1. m <= j
          BY <2>1, <3>1
        <4> QED
          BY <3>2, <4>1, AddressesAscend
      <3>4. Min(starts) = Address(m)
        <4>1. Min(starts) \in starts /\ Min(starts) <= Address(m)
          BY <1>6, <3>2, MinIs
        <4>2. Address(m) <= Min(starts)
          BY <3>3, <4>1
        <4> QED
          BY <1>6, <3>2, <4>1, <4>2
      <3>5. (Base + Place(m)) - a = Place(m) - g
        BY <1>2, <1>8, <3>2
      <3> QED
        BY <1>8, <3>1, <3>2, <3>4, <3>5
    <2> HIDE DEF later, starts, g
    <2>4. CASE later = {}
      BY <1>7, <2>2, <2>4 DEF starts, g
    <2>5. CASE later # {}
      BY <1>7, <2>2, <2>3, <2>5 DEF starts, g
    <2> QED
      BY <2>4, <2>5
  <1> QED
    BY <1>9, <1>10

-----------------------------------------------------------------------------
(* Update *)

\* How much of the replacement of a certificate has been handed out when the
\* records up to front are written.
Handed(a, front) ==
    IF front <= a THEN 0
    ELSE Minimum(Minimum(front - a, CertificateEnd(a) + 1 - a),
                 Len(Replacement(a)))

UpdateFor(a, offset, front) ==
    [begin |-> a - Base - offset, length |-> CertificateEnd(a) + 1 - a,
     str |-> Replacement(a), nextByte |-> Handed(a, front)]

UpdateOK(b, front) ==
    \/ b.update = NoUpdate /\ Certificates \cap Stretch(b) = {}
    \/ \E a \in Certificates \cap Stretch(b) :
          /\ Certificates \cap Stretch(b) = {a}
          /\ CertificateEnd(a) \in Stretch(b) /\ a <= CertificateEnd(a)
          /\ Replacement(a) \in Seq(Byte)
          /\ b.update = UpdateFor(a, b.offset, front)

LEMMA SameMemory ==
  ASSUME NEW k, NEW bufs, SegmentsOK(bufs, k), NEW bufs2 \in Seq(Segments),
         DOMAIN bufs2 = DOMAIN bufs,
         \A s \in DOMAIN bufs : /\ bufs2[s].offset = bufs[s].offset
                                /\ bufs2[s].buf = bufs[s].buf
  PROVE  /\ SegmentsOK(bufs2, k)
         /\ \A s \in DOMAIN bufs : EndOf(bufs2[s]) = EndOf(bufs[s])
                                   /\ Stretch(bufs2[s]) = Stretch(bufs[s])
  <1>1. \A s \in DOMAIN bufs : EndOf(bufs2[s]) = EndOf(bufs[s])
    BY Zenon DEF EndOf
  <1>2. \A s \in DOMAIN bufs : Stretch(bufs2[s]) = Stretch(bufs[s])
    BY <1>1, Zenon DEF Stretch
  <1>3. \A s \in DOMAIN bufs2 : bufs2[s].buf # <<>> /\ Filled(bufs2[s], k)
    BY DEF SegmentsOK, Filled
  <1>4. \A s, t \in DOMAIN bufs2 : s < t => EndOf(bufs2[s]) < bufs2[t].offset
    BY <1>1 DEF SegmentsOK
  <1>5. \A i \in DataUpTo(k) : \E s \in DOMAIN bufs2 : Holds(bufs2[s], i)
    <2> SUFFICES ASSUME NEW i \in DataUpTo(k)
                 PROVE  \E s \in DOMAIN bufs2 : Holds(bufs2[s], i)
      OBVIOUS
    <2>1. PICK s \in DOMAIN bufs : Holds(bufs[s], i)
      BY DEF SegmentsOK
    <2>2. Holds(bufs2[s], i)
      BY <1>1, <2>1 DEF Holds
    <2> QED
      BY <2>2
  <1> QED
    BY <1>1, <1>2, <1>3, <1>4, <1>5 DEF SegmentsOK

LEMMA WithUpdate ==
  ASSUME NEW b \in Segments, NEW u \in Updates,
         NEW c, c = [b EXCEPT !.update = u]
  PROVE  c \in Segments /\ c.offset = b.offset /\ c.buf = b.buf /\ c.update = u
  BY DEF Segments

LEMMA SameStretchOf ==
  ASSUME NEW b, NEW c, c.offset = b.offset, c.buf = b.buf
  PROVE  Stretch(c) = Stretch(b)
  BY Zenon DEF Stretch, EndOf

LEMMA ReplacementIs ==
  ASSUME NEW a, Min(SliceStarts(a)) - a \in DOMAIN FoundCerts
  PROVE  Replacement(a) \in Seq(Byte)
  BY FoundCertsAssumption DEF Replacement, Byte

LEMMA UpdatedIs ==
  ASSUME Proper, NEW recs, AllRecords(recs), NEW bufs, Loaded(bufs),
         NEW s \in DOMAIN bufs, bufs[s].update = NoUpdate
  PROVE  /\ UpdatedBuffer(bufs[s], recs) = {} => ~Fits
         /\ \A c \in UpdatedBuffer(bufs[s], recs) :
               /\ c \in Segments /\ c.offset = bufs[s].offset
               /\ c.buf = bufs[s].buf /\ UpdateOK(c, 0)
  <1> DEFINE b == bufs[s]
             v == b.buf
             begin == Index(v, SearchBegin)
             end == Index(SubSeq(v, begin + 1, Len(v)), SearchEnd)
             first == FirstSliceLen(b.offset + begin, recs)
             u == [begin |-> begin, length |-> end + Len(SearchEnd),
                   str |-> FoundCerts[first], nextByte |-> 0]
             updated == UpdatedBuffer(b, recs)
             cs == Certificates \cap Stretch(b)
  <1>1. b \in Segments
    BY LoadedIs
  <1>2. updated = IF begin = -1 THEN {b}
                  ELSE IF first \notin DOMAIN FoundCerts THEN {}
                  ELSE {[b EXCEPT !.update = u]}
    BY Zenon DEF UpdatedBuffer
  <1> HIDE DEF updated
  <1>3. CASE cs = {} /\ begin = -1
    <2>1. updated = {b}
      BY <1>2, <1>3
    <2>2. UpdateOK(b, 0)
      BY <1>3 DEF UpdateOK
    <2> QED
      BY <1>1, <2>1, <2>2 DEF updated
  <1>4. ASSUME NEW a \in cs, cs = {a},
               begin \in Occurrences(v, SearchBegin),
               begin = a - Base - b.offset
        PROVE  /\ updated = {} => ~Fits
               /\ \A c \in updated : /\ c \in Segments /\ c.offset = b.offset
                                     /\ c.buf = v /\ UpdateOK(c, 0)
    <2>1. PICK i \in Nat : i = begin
      BY <1>4, SoughtIs, OccurrencesAre, <1>1, SegmentIs
    <2>2. a \in Mapped /\ a \in Int
      BY StretchSays
    <2>3. Base \in Nat /\ b.offset \in Nat
      BY <2>2, StretchAt
    <2>4. b.offset + begin = a - Base
      BY <1>4, <2>2, <2>3
    <2>5. first = IF SliceStarts(a) = {} THEN -1 ELSE Min(SliceStarts(a)) - a
      BY <2>2, <2>4, FirstSlice
    <2>6. begin # -1
      BY <2>1
    <2>7. CASE first \notin DOMAIN FoundCerts
      <3>1. updated = {}
        BY <1>2, <2>6, <2>7
      <3>2. ~Fits
        BY <2>5, <2>7 DEF Fits
      <3> QED
        BY <3>1, <3>2
    <2>8. CASE first \in DOMAIN FoundCerts
      <3>1. SliceStarts(a) # {}
        <4>1. -1 \notin DOMAIN FoundCerts
          BY FoundCertsAssumption
        <4> QED
          BY <2>5, <2>8, <4>1
      <3>2. first = Min(SliceStarts(a)) - a
        BY <2>5, <3>1
      <3>3. FoundCerts[first] = Replacement(a) /\ Replacement(a) \in Seq(Byte)
        BY <2>8, <3>2, ReplacementIs DEF Replacement
      <3>4. PICK d \in Nat :
               /\ d = end /\ CertificateEnd(a) = a + d + Len(SearchEnd) - 1
               /\ CertificateEnd(a) \in Stretch(b) /\ a <= CertificateEnd(a)
        BY <1>4, <2>1, EndIs
      <3>5. PICK z \in Nat : z = Len(SearchEnd)
        BY SoughtIs DEF Sought
      <3>6. CertificateEnd(a) + 1 - a = end + Len(SearchEnd)
        <4>1. (a + d + z - 1) + 1 - a = d + z
          BY <2>2
        <4> QED
          BY <3>4, <3>5, <4>1
      <3>7. Handed(a, 0) = 0
        BY <2>2, MappedIs DEF Handed
      <3>8. u = UpdateFor(a, b.offset, 0)
        BY <1>4, <3>3, <3>6, <3>7 DEF UpdateFor
      <3>9. u \in Updates
        <4>1. end + Len(SearchEnd) \in Nat
          BY <3>4, <3>5
        <4> HIDE DEF end, first
        <4> QED
          BY <2>1, <3>3, <4>1 DEF Updates
      <3>10. PICK c : c = [b EXCEPT !.update = u]
        OBVIOUS
      <3>11. c \in Segments /\ c.offset = b.offset /\ c.buf = v /\ c.update = u
        BY <1>1, <3>9, <3>10, WithUpdate
      <3>12. Stretch(c) = Stretch(b)
        BY <3>11, SameStretchOf
      <3>13. UpdateOK(c, 0)
        BY <1>4, <3>3, <3>4, <3>8, <3>11, <3>12 DEF UpdateOK
      <3>14. updated = {c}
        BY <1>2, <2>6, <2>8, <3>10
      <3> QED
        BY <3>11, <3>13, <3>14
    <2> QED
      BY <2>7, <2>8
  <1>5. \/ cs = {} /\ begin = -1
        \/ \E a \in cs : cs = {a} /\ begin \in Occurrences(v, SearchBegin)
                         /\ begin = a - Base - b.offset
    BY FirstCertificate
  <1> QED
    BY <1>3, <1>4, <1>5 DEF updated

AllUpdated(bufs, front) == \A s \in DOMAIN bufs : UpdateOK(bufs[s], front)

LEMMA UpdateIs ==
  ASSUME Proper, NEW recs, AllRecords(recs), NEW bufs, Loaded(bufs),
         NoneUpdated(bufs)
  PROVE  /\ Update(bufs, recs) = {} => ~Fits
         /\ \A bufs2 \in Update(bufs, recs) :
               Loaded(bufs2) /\ AllUpdated(bufs2, 0)
  <1> DEFINE updated == [s \in DOMAIN bufs |-> UpdatedBuffer(bufs[s], recs)]
  <1>1. ASSUME NEW s \in DOMAIN bufs
        PROVE  /\ updated[s] = {} => ~Fits
               /\ \A c \in updated[s] :
                     /\ c \in Segments /\ c.offset = bufs[s].offset
                     /\ c.buf = bufs[s].buf /\ UpdateOK(c, 0)
    BY UpdatedIs DEF NoneUpdated
  <1>2. Update(bufs, recs)
          = IF \E s \in DOMAIN bufs : updated[s] = {} THEN {}
            ELSE {[s \in DOMAIN bufs |-> CHOOSE c \in updated[s] : TRUE]}
    BY Zenon DEF Update
  <1> HIDE DEF updated
  <1>3. CASE \E s \in DOMAIN bufs : updated[s] = {}
    BY <1>1, <1>2, <1>3
  <1>4. CASE ~ \E s \in DOMAIN bufs : updated[s] = {}
    <2>1. PICK bufs2 :
             bufs2 = [s \in DOMAIN bufs |-> CHOOSE c \in updated[s] : TRUE]
      OBVIOUS
    <2>2. Update(bufs, recs) = {bufs2}
      BY <1>2, <1>4, <2>1
    <2>3. \A s \in DOMAIN bufs : bufs2[s] \in updated[s]
      BY <1>4, <2>1
    <2>4. \A s \in DOMAIN bufs :
             /\ bufs2[s] \in Segments /\ bufs2[s].offset = bufs[s].offset
             /\ bufs2[s].buf = bufs[s].buf /\ UpdateOK(bufs2[s], 0)
      BY <1>1, <2>3
    <2>5. DOMAIN bufs2 = DOMAIN bufs
      BY <2>1
    <2>6. bufs2 \in Seq(Segments)
      <3>1. DOMAIN bufs = 1 .. Len(bufs) /\ Len(bufs) \in Nat
        BY DEF Loaded, SegmentsOK
      <3>2. bufs2 = [s \in 1 .. Len(bufs) |-> bufs2[s]]
        BY <2>1, <3>1
      <3> QED
        BY <2>4, <3>1, <3>2
    <2>7. Loaded(bufs2)
      BY <2>4, <2>5, <2>6, SameMemory DEF Loaded
    <2>8. AllUpdated(bufs2, 0)
      BY <2>4, <2>5 DEF AllUpdated
    <2> QED
      BY <2>2, <2>7, <2>8
  <1> QED
    BY <1>3, <1>4

-----------------------------------------------------------------------------
(* ReadAt *)

\* What the pieces of a read are chosen to be.
IsReads(f, bufs, n, off) ==
    f = [k \in 0 .. n + 1 |->
            IF k = 0 THEN Unread(bufs, n) ELSE Piece(f[k - 1], off)]

LEMMA ReadsAreChosen ==
  ASSUME NEW bufs, NEW n, NEW off
  PROVE  Reads(bufs, n, off) = CHOOSE f : IsReads(f, bufs, n, off)
  BY Zenon DEF Reads, IsReads

\* A read that is over stays as it is.
LEMMA ReadIsOver ==
  ASSUME NEW read, NEW off, ~read.ok \/ read.whole
  PROVE  Piece(read, off) = read
  BY Zenon DEF Piece

LEMMA OnePiece ==
  ASSUME NEW bufs, NEW n \in Nat, NEW off,
         NEW read, read = Piece(Unread(bufs, n), off),
         ~read.ok \/ read.whole
  PROVE  ReadAt(bufs, n, off) = read
  <1>1. Piece(read, off) = read
    BY ReadIsOver
  <1>2. \E f : IsReads(f, bufs, n, off)
    <2> DEFINE f == [k \in 0 .. n + 1 |->
                        IF k = 0 THEN Unread(bufs, n) ELSE read]
    <2>1. ASSUME NEW k \in 0 .. n + 1
          PROVE  f[k] = IF k = 0 THEN Unread(bufs, n) ELSE Piece(f[k - 1], off)
      <3>1. CASE k = 0
        BY <3>1
      <3>2. CASE k = 1
        <4>1. k - 1 \in 0 .. n + 1 /\ k - 1 = 0 /\ k # 0
          BY <3>2
        <4>2. f[k] = read /\ f[k - 1] = Unread(bufs, n)
          BY <4>1
        <4> QED
          BY <4>1, <4>2
      <3>3. CASE k > 1
        <4>1. k - 1 \in 0 .. n + 1 /\ k - 1 # 0 /\ k # 0
          BY <3>3
        <4>2. f[k] = read /\ f[k - 1] = read
          BY <4>1
        <4> QED
          BY <1>1, <4>1, <4>2
      <3> QED
        BY <3>1, <3>2, <3>3
    <2>2. f = [k \in 0 .. n + 1 |->
                  IF k = 0 THEN Unread(bufs, n) ELSE Piece(f[k - 1], off)]
      <3>1. DOMAIN f = 0 .. n + 1
        OBVIOUS
      <3> HIDE DEF f
      <3>2. f = [k \in 0 .. n + 1 |-> f[k]]
        <4>1. f = [k \in 0 .. n + 1 |->
                        IF k = 0 THEN Unread(bufs, n) ELSE read]
          BY DEF f
        <4> QED
          BY <4>1
      <3> QED
        BY <2>1, <3>2
    <2>3. IsReads(f, bufs, n, off)
      BY <2>2, Zenon DEF IsReads
    <2> QED
      BY <2>3
  <1>3. PICK f : f = Reads(bufs, n, off)
    OBVIOUS
  <1>4. IsReads(f, bufs, n, off)
    BY <1>2, <1>3, ReadsAreChosen
  <1>5. \A k \in 0 .. n + 1 :
           f[k] = IF k = 0 THEN Unread(bufs, n) ELSE Piece(f[k - 1], off)
    BY <1>4 DEF IsReads
  <1> DEFINE over == {k \in Nat : k <= n => f[k + 1] = read}
  <1>6. 0 \in over
    <2>1. 0 \in 0 .. n + 1 /\ 0 + 1 \in 0 .. n + 1 /\ 0 + 1 - 1 = 0 /\ 0 + 1 # 0
      OBVIOUS
    <2>2. f[0] = Unread(bufs, n)
      BY <1>5, <2>1
    <2>3. f[0 + 1] = Piece(f[0], off)
      BY <1>5, <2>1
    <2> QED
      BY <2>2, <2>3
  <1>7. \A k \in Nat : k \in over => k + 1 \in over
    <2> SUFFICES ASSUME NEW k \in Nat, k <= n => f[k + 1] = read, k + 1 <= n
                 PROVE  f[(k + 1) + 1] = read
      OBVIOUS
    <2>1. (k + 1) + 1 \in 0 .. n + 1 /\ (k + 1) + 1 - 1 = k + 1
          /\ (k + 1) + 1 # 0
      OBVIOUS
    <2>2. f[(k + 1) + 1] = Piece(f[k + 1], off)
      BY <1>5, <2>1
    <2>3. f[k + 1] = read
      OBVIOUS
    <2> QED
      BY <1>1, <2>2, <2>3
  <1>8. Nat \subseteq over
    <2> HIDE DEF over
    <2> QED
      BY <1>6, <1>7, AllNumbers
  <1>9. f[n + 1] = read
    BY <1>8
  <1> QED
    BY <1>3, <1>9 DEF ReadAt

\* A record is read from the segment that holds it.
LEMMA HeldByOne ==
  ASSUME Proper, NEW bufs, Loaded(bufs), NEW s \in DOMAIN bufs, NEW i \in Data,
         Holds(bufs[s], i)
  PROVE  Holding(bufs, Place(i)) = {s} /\ Max({s}) = s
  <1>1. Place(i) \in Nat /\ Base \in Nat /\ Address(i) = Base + Place(i)
        /\ Address(i) \in Span(i) /\ Address(i) \in Int
    <2>1. Place(i) \in Nat /\ Base \in Nat /\ Address(i) = Base + Place(i)
      BY PlaceIs
    <2>2. Address(i) \in Nat /\ After(i) \in Nat /\ Address(i) < After(i)
          /\ Span(i) = Address(i) .. After(i) - 1
      BY AddressIs
    <2> QED
      BY <2>1, <2>2
  <1>2. Address(i) \in Stretch(bufs[s])
    BY <1>1, HeldIs
  <1>3. ASSUME NEW t \in DOMAIN bufs
        PROVE  bufs[t].offset <= Place(i) /\ Place(i) < EndOf(bufs[t])
                 <=> Address(i) \in Stretch(bufs[t])
    <2>1. PICK e \in Nat, o \in Nat, l \in Nat : Lies(bufs[t], e, o, l)
      BY StretchIs
    <2>2. e = Base /\ bufs[t].offset = o /\ EndOf(bufs[t]) = o + l
      BY <2>1 DEF Lies
    <2>3. Address(i) \in Stretch(bufs[t])
            <=> e + o <= Address(i) /\ Address(i) < e + o + l
      BY <1>1, <2>1 DEF Lies
    <2>4. Address(i) = e + Place(i)
      BY <1>1, <2>2
    <2>5. e + o <= e + Place(i) /\ e + Place(i) < e + o + l
            <=> o <= Place(i) /\ Place(i) < o + l
      BY <1>1
    <2> QED
      BY <2>2, <2>3, <2>4, <2>5
  <1>4. Holding(bufs, Place(i)) = {s}
    BY <1>2, <1>3, SameStretch DEF Holding
  <1>5. Max({s}) = s
    <2>1. s \in Nat
      BY LoadedIs
    <2> QED
      BY <2>1, MaxIs
  <1> QED
    BY <1>4, <1>5

LEMMA ReadIs ==
  ASSUME Proper, NEW bufs, Loaded(bufs), NEW s \in DOMAIN bufs, NEW i \in Data,
         Holds(bufs[s], i), NEW patch,
         patch = Patched(input[i].body, bufs[s].update,
                         Place(i) - bufs[s].offset)
  PROVE  LET read == ReadAt(bufs, Len(input[i].body), Place(i))
         IN  /\ read.ok = patch.ok
             /\ read.p = <<>> \o patch.data
             /\ read.bufs = [bufs EXCEPT ![s].update = patch.update]
  <1> DEFINE off == Place(i)
             body == input[i].body
             n == Len(body)
             b == bufs[s]
             o == off - b.offset
             first == Unread(bufs, n)
             len == Minimum(n, Len(b.buf) - o)
             raw == [j \in 1 .. n |->
                        IF j <= len THEN b.buf[o + j] ELSE first.p[0 + j]]
             read == [ok |-> patch.ok, whole |-> len = n, served |-> 0 + len,
                      p |-> SubSeq(first.p, 1, 0) \o patch.data,
                      bufs |-> [bufs EXCEPT ![s].update = patch.update]]
  <1>1. n \in Nat /\ n > 0 /\ DOMAIN body = 1 .. n /\ body \in Seq(Byte)
    BY AddressIs, RecordIs DEF Proper
  <1>2. /\ first.ok = TRUE /\ first.whole = FALSE /\ first.served = 0
        /\ first.p = [j \in 1 .. n |-> 0] /\ first.bufs = bufs
    BY DEF Unread
  <1>3. Len(first.p) = n /\ SubSeq(first.p, 1, 0) = <<>>
    BY <1>1, <1>2
  <1>4. Holding(bufs, off) = {s} /\ Max(Holding(bufs, off)) = s
    BY HeldByOne
  <1>5. PICK e \in Nat, z \in Nat, l \in Nat : Lies(b, e, z, l)
    BY StretchIs
  <1>6. off \in Nat /\ z = b.offset /\ l = Len(b.buf) /\ z <= off
        /\ off + n <= z + l
    BY <1>5, PlaceIs DEF Lies, Holds
  <1>7. len = n
    <2>1. PICK q \in Nat, m \in Nat : q = off /\ m = n
      BY <1>1, <1>6
    <2>2. z <= q /\ q + m <= z + l
      BY <1>6, <2>1
    <2>3. Minimum(m, l - (q - z)) = m
      BY <2>2 DEF Minimum
    <2> QED
      BY <1>6, <2>1, <2>3
  <1>8. raw = body
    <2> HIDE DEF len, off, o, n
    <2>1. \A j \in 1 .. n : raw[j] = b.buf[o + j]
      BY <1>1, <1>7
    <2>2. \A j \in 1 .. n : b.buf[o + j] = body[j]
      BY <1>1 DEF Holds, off, o
    <2>3. DOMAIN raw = 1 .. n
      OBVIOUS
    <2>4. raw = [j \in 1 .. n |-> raw[j]]
      OBVIOUS
    <2>5. body = [j \in 1 .. n |-> body[j]]
      BY <1>1
    <2> QED
      BY <2>1, <2>2, <2>4, <2>5
  <1>9. off + first.served = off /\ Len(first.p) - first.served = n
    BY <1>1, <1>2, <1>3, <1>6
  <1>10. Piece(first, off) = read
    <2> HIDE DEF off, n, o
    <2>1. Piece(first, off) =
            LET i_ == Max(Holding(bufs, off))
                b_ == bufs[i_]
                o_ == off - b_.offset
                len_ == Minimum(n, Len(b_.buf) - o_)
                raw_ == [j \in 1 .. n |->
                           IF j <= len_ THEN b_.buf[o_ + j] ELSE first.p[0 + j]]
                patch_ == Patched(raw_, b_.update, o_)
            IN  IF Holding(bufs, off) = {} THEN [first EXCEPT !.ok = FALSE]
                ELSE [ok |-> patch_.ok, whole |-> len_ = n, served |-> 0 + len_,
                      p |-> SubSeq(first.p, 1, 0) \o patch_.data,
                      bufs |-> [bufs EXCEPT ![i_].update = patch_.update]]
      <3> HIDE DEF first
      <3> QED
        BY <1>2, <1>9, Zenon DEF Piece
    <2>2. Holding(bufs, off) # {}
      BY <1>4
    <2> HIDE DEF len, first
    <2> QED
      BY <1>4, <1>8, <2>1, <2>2, Zenon DEF o, off, len
  <1>11. /\ read.whole /\ read.ok = patch.ok
         /\ read.p = SubSeq(first.p, 1, 0) \o patch.data
         /\ read.bufs = [bufs EXCEPT ![s].update = patch.update]
    <2> HIDE DEF len, first, n
    <2> QED
      BY <1>7
  <1> HIDE DEF read
  <1>12. ReadAt(bufs, n, off) = read
    BY <1>1, <1>10, <1>11, OnePiece
  <1>13. /\ read.ok = patch.ok
         /\ read.p = <<>> \o patch.data
         /\ read.bufs = [bufs EXCEPT ![s].update = patch.update]
    <2> HIDE DEF first, n
    <2> QED
      BY <1>3, <1>11
  <1> QED
    BY <1>12, <1>13

-----------------------------------------------------------------------------
(* How far the records are written *)

Frontier(n) ==
    IF DataUpTo(n) = {} THEN 0
    ELSE Address(Max(DataUpTo(n))) + Len(input[Max(DataUpTo(n))].body)

LEMMA LastData ==
  ASSUME Proper, NEW n \in Nat, DataUpTo(n) # {}
  PROVE  /\ Max(DataUpTo(n)) \in Data /\ Max(DataUpTo(n)) <= n
         /\ \A j \in DataUpTo(n) : j <= Max(DataUpTo(n))
         /\ Frontier(n) = After(Max(DataUpTo(n)))
  <1>1. DataUpTo(n) \subseteq 0 .. n
    BY RecordIs DEF DataUpTo, Proper
  <1>2. Max(DataUpTo(n)) \in DataUpTo(n)
        /\ \A j \in DataUpTo(n) : j <= Max(DataUpTo(n))
    BY <1>1, MaxIs
  <1>3. Frontier(n) = After(Max(DataUpTo(n)))
    BY DEF Frontier, After
  <1> QED
    BY <1>2, <1>3 DEF DataUpTo

LEMMA FrontierIs ==
  ASSUME Proper, NEW i \in Data, NEW n \in Nat, n + 1 = i
  PROVE  /\ Frontier(n) \in Nat /\ Frontier(n) <= Address(i)
         /\ \A x \in Mapped : x < Address(i) => x < Frontier(n)
         /\ Frontier(i) = After(i)
  <1>1. Address(i) \in Nat
    BY AddressIs
  <1>2. Frontier(n) \in Nat /\ Frontier(n) <= Address(i)
    <2>1. CASE DataUpTo(n) = {}
      BY <1>1, <2>1 DEF Frontier
    <2>2. CASE DataUpTo(n) # {}
      <3>1. PICK m \in Data : m = Max(DataUpTo(n)) /\ m <= n
                              /\ Frontier(n) = After(m)
        BY <2>2, LastData
      <3>2. m < i
        BY <3>1, RecordIs DEF Proper
      <3> QED
        BY <3>1, <3>2, AddressIs, RecordsAscend
    <2> QED
      BY <2>1, <2>2
  <1>3. ASSUME NEW x \in Mapped, x < Address(i)
        PROVE  x < Frontier(n)
    <2>1. PICK j \in Data : x \in Span(j)
      BY MappedIs
    <2>2. /\ Address(j) \in Nat /\ After(j) \in Nat
          /\ x \in Address(j) .. After(j) - 1
      BY <2>1, AddressIs
    <2>3. j < i
      <3> SUFFICES ASSUME ~(j < i)
                   PROVE  FALSE
        OBVIOUS
      <3>1. i <= j
        BY RecordIs DEF Proper
      <3>2. Address(i) <= Address(j)
        BY <3>1, AddressesAscend
      <3> QED
        BY <1>1, <1>3, <2>2, <3>2
    <2>4. j \in DataUpTo(n)
      BY <2>3, RecordIs DEF DataUpTo, Proper
    <2>5. PICK m \in Data : m = Max(DataUpTo(n)) /\ j <= m
                            /\ Frontier(n) = After(m)
      BY <2>4, LastData
    <2>6. After(j) <= After(m)
      <3>1. CASE j = m
        BY <2>2, <3>1
      <3>2. CASE j # m
        <4>1. j < m
          BY <2>5, <3>2, RecordIs DEF Proper
        <4>2. After(j) <= Address(m)
          BY <4>1, RecordsAscend
        <4> QED
          BY <2>2, <4>2, AddressIs
      <3> QED
        BY <3>1, <3>2
    <2>7. After(m) \in Nat
      BY AddressIs
    <2> QED
      BY <2>2, <2>5, <2>6, <2>7
  <1>4. Frontier(i) = After(i)
    <2>1. i \in DataUpTo(i) /\ i \in Nat
      BY RecordIs DEF DataUpTo, Proper
    <2>2. PICK m \in Data : m <= i /\ i <= m /\ Frontier(i) = After(m)
      BY <2>1, LastData
    <2>3. m = i
      BY <2>1, <2>2, RecordIs DEF Proper
    <2> QED
      BY <2>2, <2>3
  <1> QED
    BY <1>2, <1>3, <1>4

LEMMA FrontierStays ==
  ASSUME Proper, NEW n \in Nat, n + 1 \notin Data
  PROVE  Frontier(n + 1) = Frontier(n)
  <1>1. \A i : i \in DataUpTo(n + 1) <=> i \in DataUpTo(n)
    BY UpToNext DEF Proper
  <1>2. DataUpTo(n + 1) = DataUpTo(n)
    BY <1>1
  <1> QED
    BY <1>2 DEF Frontier

LEMMA FirstFrontier ==
  ASSUME Proper
  PROVE  Frontier(0) = 0
  <1>1. DataUpTo(0) = {}
    BY RecordIs DEF DataUpTo, Proper
  <1> QED
    BY <1>1 DEF Frontier

-----------------------------------------------------------------------------
(* What is handed out, in the numbers of a segment: a certificate of m bytes *)
(* at g, its replacement of r bytes, and a record of l bytes at o.           *)

HandedOf(g, m, r, f) ==
    IF f <= g THEN 0 ELSE Minimum(Minimum(f - g, m), r)

LEMMA HandedApart ==
  ASSUME NEW g \in Int, NEW m \in Nat, NEW r \in Nat, NEW f \in Int,
         NEW h \in Int, f <= h, h <= g \/ g + m <= f, m > 0
  PROVE  HandedOf(g, m, r, h) = HandedOf(g, m, r, f)
  BY DEF HandedOf, Minimum

Patching(g, m, r, o, l, f) ==
    /\ g \in Nat /\ m \in Nat /\ r \in Nat /\ m > 0
    /\ o \in Nat /\ l \in Nat /\ l > 0
    /\ f \in Int /\ f <= o /\ (g < o => f = o)

Meeting(g, m, r, o, l, f, left, right, n, h) ==
    /\ left = Maximum(o, g) /\ right = Minimum(o + l, g + m) /\ left < right
    /\ h = HandedOf(g, m, r, f) /\ n = Minimum(right - left, r - h)

\* The replacement and the record meet.
LEMMA HandedMeet ==
  ASSUME NEW g, NEW m, NEW r, NEW o, NEW l, NEW f, Patching(g, m, r, o, l, f),
         NEW left, NEW right, NEW n, NEW h,
         Meeting(g, m, r, o, l, f, left, right, n, h)
  PROVE  /\ h + n = HandedOf(g, m, r, o + l)
         /\ \A j \in 1 .. l :
               /\ (left - o < j /\ j <= left - o + n)
                     <=> (g <= o + j - 1 /\ o + j - 1 < g + m
                            /\ o + j - 1 < g + r)
               /\ (left - o < j /\ j <= left - o + n) =>
                     h + j - (left - o) = o + j - g
  <1> USE DEF Patching, Meeting
  <1>1. CASE o <= g
    <2>1. left = g /\ HandedOf(g, m, r, f) = 0
      BY <1>1 DEF Maximum, HandedOf
    <2>2. n = Minimum(right - g, r)
      BY <2>1
    <2>3. n \in Int /\ n <= right - g /\ n <= r /\ (n = right - g \/ n = r)
          /\ right \in Int /\ right <= o + l /\ right <= g + m
          /\ (right = o + l \/ right = g + m)
      BY <2>2 DEF Minimum
    <2>4. HandedOf(g, m, r, o + l) = n
      BY <1>1, <2>1, <2>2, <2>3 DEF HandedOf, Minimum
    <2> QED
      BY <1>1, <2>1, <2>3, <2>4
  <1>2. CASE g < o
    <2>1. left = o /\ f = o
      BY <1>2 DEF Maximum
    <2>2. right \in Int /\ right <= o + l /\ right <= g + m
          /\ (right = o + l \/ right = g + m)
      BY DEF Minimum
    <2>3. HandedOf(g, m, r, f) = Minimum(o - g, r)
      BY <1>2, <2>1, <2>2 DEF HandedOf, Minimum
    <2>4. PICK k \in Int : k = h /\ k <= o - g /\ k <= r
                           /\ (k = o - g \/ k = r)
      BY <1>2, <2>3 DEF Minimum
    <2>5. n \in Int /\ n <= right - o /\ n <= r - k
          /\ (n = right - o \/ n = r - k)
      BY <2>1, <2>2, <2>4 DEF Minimum
    <2>6. HandedOf(g, m, r, o + l) = Minimum(right - g, r)
      BY <1>2, <2>2 DEF HandedOf, Minimum
    <2>7. k + n = Minimum(right - g, r)
      BY <1>2, <2>1, <2>2, <2>4, <2>5 DEF Minimum
    <2>8. ASSUME NEW j \in 1 .. l
          PROVE  /\ (left - o < j /\ j <= left - o + n)
                     <=> (g <= o + j - 1 /\ o + j - 1 < g + m
                            /\ o + j - 1 < g + r)
                 /\ (left - o < j /\ j <= left - o + n) =>
                     k + j - (left - o) = o + j - g
      <3>1. left - o = 0 /\ j \in Int /\ j >= 1 /\ j <= l
        BY <2>1
      <3>2. CASE k = o - g
        BY <1>2, <2>2, <2>5, <3>1, <3>2
      <3>3. CASE k = r /\ k < o - g
        BY <1>2, <2>1, <2>2, <2>5, <3>1, <3>3
      <3> QED
        BY <2>4, <3>2, <3>3
    <2> QED
      BY <2>4, <2>6, <2>7, <2>8
  <1> QED
    BY <1>1, <1>2

LEMMA HandedMiss ==
  ASSUME NEW g, NEW m, NEW r, NEW o, NEW l, NEW f, Patching(g, m, r, o, l, f),
         ~ (Maximum(o, g) < Minimum(o + l, g + m))
  PROVE  /\ HandedOf(g, m, r, f) = HandedOf(g, m, r, o + l)
         /\ \A j \in 1 .. l : ~ (g <= o + j - 1 /\ o + j - 1 < g + m)
  <1> USE DEF Patching
  <1>1. o + l <= g \/ g + m <= o
    BY DEF Maximum, Minimum
  <1>2. HandedOf(g, m, r, o + l) = HandedOf(g, m, r, f)
    <2>1. f <= o + l /\ o + l \in Int /\ (o + l <= g \/ g + m <= f)
      BY <1>1
    <2> QED
      BY <2>1, HandedApart
  <1>3. \A j \in 1 .. l : ~ (g <= o + j - 1 /\ o + j - 1 < g + m)
    BY <1>1
  <1> QED
    BY <1>2, <1>3

-----------------------------------------------------------------------------
(* A record, patched *)

LEMMA CertificateIn ==
  ASSUME Proper, NEW bufs, Loaded(bufs), NEW front, AllUpdated(bufs, front),
         NEW t \in DOMAIN bufs, NEW a \in Certificates \cap Stretch(bufs[t])
  PROVE  /\ Certificates \cap Stretch(bufs[t]) = {a}
         /\ CertificateEnd(a) \in Stretch(bufs[t]) /\ a <= CertificateEnd(a)
         /\ Replacement(a) \in Seq(Byte)
         /\ bufs[t].update = UpdateFor(a, bufs[t].offset, front)
         /\ a \in Int /\ CertificateEnd(a) \in Int
  <1>1. UpdateOK(bufs[t], front)
    BY DEF AllUpdated
  <1>2. /\ Certificates \cap Stretch(bufs[t]) = {a}
        /\ CertificateEnd(a) \in Stretch(bufs[t]) /\ a <= CertificateEnd(a)
        /\ Replacement(a) \in Seq(Byte)
        /\ bufs[t].update = UpdateFor(a, bufs[t].offset, front)
    BY <1>1 DEF UpdateOK
  <1>3. \A x \in Stretch(bufs[t]) : x \in Int
    BY StretchSays
  <1> QED
    BY <1>2, <1>3

LEMMA ReplacedIs ==
  ASSUME Proper, NEW bufs, Loaded(bufs), NEW front, AllUpdated(bufs, front),
         NEW t \in DOMAIN bufs, NEW a \in Certificates \cap Stretch(bufs[t])
  PROVE  \A x : x \in Replaced(a) <=>
                   /\ x \in Int /\ a <= x /\ x < CertificateEnd(a) + 1
                   /\ x < a + Len(Replacement(a))
  <1>1. PICK c \in Int, e \in Int, r \in Nat :
           c = a /\ e = CertificateEnd(a) /\ r = Len(Replacement(a))
    BY CertificateIn
  <1>2. Replaced(a) = c .. Minimum(e, c + r - 1)
    BY <1>1, Zenon DEF Replaced
  <1>3. \A x : x \in c .. Minimum(e, c + r - 1) <=>
                  x \in Int /\ c <= x /\ x < e + 1 /\ x < c + r
    BY DEF Minimum
  <1> QED
    BY <1>1, <1>2, <1>3

\* The byte at x of the patched image.
LEMMA PatchedByteIs ==
  ASSUME Proper, NEW bufs, Loaded(bufs), NEW front, AllUpdated(bufs, front),
         NEW s \in DOMAIN bufs, NEW x \in Stretch(bufs[s])
  PROVE  /\ Certificates \cap Stretch(bufs[s]) = {} =>
               PatchedByteAt(x) = ByteAt(x)
         /\ \A a \in Certificates \cap Stretch(bufs[s]) :
               PatchedByteAt(x) =
                  IF a <= x /\ x < CertificateEnd(a) + 1
                     /\ x < a + Len(Replacement(a))
                  THEN Replacement(a)[x - a + 1] ELSE ByteAt(x)
  <1> DEFINE covering == {a \in Certificates : x \in Replaced(a)}
  <1>1. PatchedByteAt(x)
          = IF covering = {} THEN ByteAt(x)
            ELSE Replacement(CHOOSE c \in covering : TRUE)
                    [x - (CHOOSE c \in covering : TRUE) + 1]
    BY Zenon DEF PatchedByteAt
  <1>2. x \in Int
    BY StretchSays
  <1>3. ASSUME NEW b \in covering
        PROVE  b \in Stretch(bufs[s])
    <2>1. b \in Mapped
      BY DEF Certificates
    <2>2. PICK t \in DOMAIN bufs : b \in Stretch(bufs[t])
      BY <2>1, StretchOf
    <2>3. b <= x /\ x < CertificateEnd(b) + 1
      BY <2>2, ReplacedIs
    <2>4. CertificateEnd(b) \in Stretch(bufs[t]) /\ b \in Int
          /\ CertificateEnd(b) \in Int
      BY <2>2, CertificateIn
    <2>5. x \in b .. CertificateEnd(b)
      BY <1>2, <2>3, <2>4
    <2>6. x \in Stretch(bufs[t])
      BY <2>2, <2>4, <2>5, StretchFull DEF InStretch
    <2> QED
      BY <2>2, <2>6, SameStretch
  <1>4. ASSUME Certificates \cap Stretch(bufs[s]) = {}
        PROVE  PatchedByteAt(x) = ByteAt(x)
    <2>1. covering = {}
      BY <1>3, <1>4
    <2> QED
      BY <1>1, <2>1
  <1>5. ASSUME NEW a \in Certificates \cap Stretch(bufs[s])
        PROVE  PatchedByteAt(x) =
                  IF a <= x /\ x < CertificateEnd(a) + 1
                     /\ x < a + Len(Replacement(a))
                  THEN Replacement(a)[x - a + 1] ELSE ByteAt(x)
    <2>1. Certificates \cap Stretch(bufs[s]) = {a}
      BY <1>5, CertificateIn
    <2>2. x \in Replaced(a) <=> a <= x /\ x < CertificateEnd(a) + 1
                                  /\ x < a + Len(Replacement(a))
      BY <1>2, <1>5, ReplacedIs
    <2>3. \A b \in covering : b = a
      BY <1>3, <2>1
    <2>4. CASE x \in Replaced(a)
      <3>1. covering = {a}
        BY <2>3, <2>4
      <3>2. (CHOOSE c \in covering : TRUE) = a
        BY <3>1
      <3> QED
        BY <1>1, <2>2, <2>4, <3>1, <3>2
    <2>5. CASE x \notin Replaced(a)
      <3>1. covering = {}
        BY <2>3, <2>5
      <3> QED
        BY <1>1, <2>2, <2>5, <3>1
    <2> QED
      BY <2>4, <2>5
  <1> QED
    BY <1>4, <1>5

LEMMA HandedIs ==
  ASSUME NEW a \in Int, CertificateEnd(a) \in Int,
         Replacement(a) \in Seq(Byte), NEW d \in Int, NEW f \in Int
  PROVE  Handed(a, f) = HandedOf(a - d, CertificateEnd(a) + 1 - a,
                                 Len(Replacement(a)), f - d)
  <1>1. f <= a <=> f - d <= a - d
    OBVIOUS
  <1>2. f - a = (f - d) - (a - d)
    OBVIOUS
  <1> QED
    BY <1>1, <1>2 DEF Handed, HandedOf

Overlap(raw, u, o, left, right, n) ==
    /\ left = Maximum(o, u.begin)
    /\ right = Minimum(o + Len(raw), u.begin + u.length)
    /\ left < right
    /\ n = Minimum(right - left, Len(u.str) - u.nextByte)

IsFunction(d) == d = [j \in DOMAIN d |-> d[j]]

LEMMA PatchedIs ==
  ASSUME NEW raw, NEW u, NEW o, NEW left, NEW right, NEW n,
         Overlap(raw, u, o, left, right, n), NEW p, p = Patched(raw, u, o)
  PROVE  /\ DOMAIN p.data = DOMAIN raw /\ IsFunction(p.data)
         /\ \A j \in DOMAIN raw : p.data[j] =
                IF left - o < j /\ j <= left - o + n
                THEN u.str[u.nextByte + j - (left - o)] ELSE raw[j]
         /\ p.ok = (Checksum(p.data) = Checksum(raw))
         /\ p.update = [u EXCEPT !.nextByte = @ + n]
  <1> DEFINE data == [j \in DOMAIN raw |->
                        IF left - o < j /\ j <= left - o + n
                        THEN u.str[u.nextByte + j - (left - o)] ELSE raw[j]]
  <1>1. p = [ok |-> Checksum(data) = Checksum(raw), data |-> data,
             update |-> [u EXCEPT !.nextByte = @ + n]]
    BY Zenon DEF Patched, Overlap
  <1>2. DOMAIN data = DOMAIN raw /\ IsFunction(data)
        /\ \A j \in DOMAIN raw : data[j] =
                       IF left - o < j /\ j <= left - o + n
                       THEN u.str[u.nextByte + j - (left - o)] ELSE raw[j]
    BY DEF IsFunction
  <1> HIDE DEF data
  <1>3. PICK ok, w : ok = (Checksum(data) = Checksum(raw))
                     /\ w = [u EXCEPT !.nextByte = @ + n]
    BY Zenon
  <1>4. p = [ok |-> ok, data |-> data, update |-> w]
    BY <1>1, <1>3, Zenon
  <1>5. p.ok = ok /\ p.data = data /\ p.update = w
    BY <1>4
  <1> QED
    BY <1>2, <1>3, <1>5, Zenon

LEMMA PatchedNot ==
  ASSUME NEW raw, NEW u, NEW o,
         ~ (Maximum(o, u.begin) < Minimum(o + Len(raw), u.begin + u.length))
  PROVE  Patched(raw, u, o) = [ok |-> TRUE, data |-> raw, update |-> u]
  BY Zenon DEF Patched

\* The bytes of a record.
LEMMA BodyBytes ==
  ASSUME Proper, NEW i \in Data
  PROVE  /\ DOMAIN input[i].body = 1 .. Len(input[i].body)
         /\ DOMAIN PatchedBody(i) = 1 .. Len(input[i].body)
         /\ \A j \in 1 .. Len(input[i].body) :
               /\ Address(i) + j - 1 \in Span(i)
               /\ ByteAt(Address(i) + j - 1) = input[i].body[j]
               /\ PatchedBody(i)[j] = PatchedByteAt(Address(i) + j - 1)
  <1>1. DOMAIN input[i].body = 1 .. Len(input[i].body)
    BY RecordIs DEF Proper
  <1>2. PatchedBody(i) = [j \in 1 .. Len(input[i].body) |->
                             PatchedByteAt(Address(i) + j - 1)]
    BY <1>1, Zenon DEF PatchedBody
  <1>3. ASSUME NEW j \in 1 .. Len(input[i].body)
        PROVE  /\ Address(i) + j - 1 \in Span(i)
               /\ ByteAt(Address(i) + j - 1) = input[i].body[j]
    <2>1. PICK q \in Nat, z \in Nat :
             /\ q = Address(i) /\ z = Len(input[i].body)
             /\ Span(i) = q .. After(i) - 1 /\ After(i) = q + z
      BY AddressIs
    <2>2. j \in 1 .. z
      BY <2>1
    <2>3. q + j - 1 \in q .. (q + z) - 1 /\ (q + j - 1) - q + 1 = j
      BY <2>2
    <2>4. q + j - 1 \in Span(i)
      BY <2>1, <2>3
    <2>5. ByteAt(q + j - 1) = input[i].body[(q + j - 1) - q + 1]
      BY <2>1, <2>4, ByteAtIs
    <2> QED
      BY <2>1, <2>3, <2>4, <2>5
  <1> QED
    BY <1>1, <1>2, <1>3

SaysPatched(d, i) ==
    /\ DOMAIN d = 1 .. Len(input[i].body) /\ IsFunction(d)
    /\ \A j \in 1 .. Len(input[i].body) :
          d[j] = PatchedByteAt(Address(i) + j - 1)

LEMMA IsPatchedBody ==
  ASSUME Proper, NEW i \in Data, NEW d, SaysPatched(d, i)
  PROVE  d = PatchedBody(i)
  <1> DEFINE l == Len(input[i].body)
  <1>1. DOMAIN input[i].body = 1 .. l
    BY RecordIs DEF Proper
  <1>2. PatchedBody(i) = [j \in 1 .. l |-> PatchedByteAt(Address(i) + j - 1)]
    BY <1>1, Zenon DEF PatchedBody
  <1> HIDE DEF l
  <1>3. /\ DOMAIN d = 1 .. l /\ d = [j \in DOMAIN d |-> d[j]]
        /\ \A j \in 1 .. l : d[j] = PatchedByteAt(Address(i) + j - 1)
    BY DEF SaysPatched, IsFunction, l
  <1> QED
    BY <1>2, <1>3

LEMMA RecordPatched ==
  ASSUME Proper, NEW bufs, Loaded(bufs), NEW i \in Data, NEW n \in Nat,
         n + 1 = i, AllUpdated(bufs, Frontier(n)),
         NEW s \in DOMAIN bufs, Holds(bufs[s], i),
         NEW patch, patch = Patched(input[i].body, bufs[s].update,
                                    Place(i) - bufs[s].offset),
         NEW c, c = [bufs[s] EXCEPT !.update = patch.update]
  PROVE  /\ patch.data = PatchedBody(i)
         /\ patch.ok = (Checksum(PatchedBody(i)) = Checksum(input[i].body))
         /\ c \in Segments /\ UpdateOK(c, After(i))
  <1> DEFINE body == input[i].body
             b == bufs[s]
             u == b.update
             cs == Certificates \cap Stretch(b)
             f == Frontier(n)
  <1>1. PICK e \in Nat, z \in Nat, k \in Nat : Lies(b, e, z, k)
    BY StretchIs
  <1>2. PICK o \in Nat, l \in Nat :
           /\ l = Len(body) /\ l > 0 /\ o = Place(i) - b.offset
           /\ Address(i) = e + z + o /\ After(i) = e + z + o + l
    <2>1. PICK q \in Nat, l \in Nat :
             /\ q = Place(i) /\ l = Len(body) /\ l > 0 /\ Address(i) = e + q
             /\ After(i) = Address(i) + l /\ z <= q
      BY <1>1, PlaceIs, AddressIs DEF Lies, Holds
    <2>2. q - z \in Nat /\ e + q = e + z + (q - z)
      BY <2>1
    <2> QED
      BY <1>1, <2>1, <2>2, ZenonT(60) DEF Lies
  <1>3. e = Base /\ z = b.offset /\ b \in Segments
    BY <1>1, LoadedIs DEF Lies
  <1>4. Span(i) \subseteq Stretch(b)
    BY HeldIs
  <1>5. \A j \in 1 .. l : Address(i) + j - 1 \in Stretch(b)
    BY <1>2, <1>4, BodyBytes
  <1>6. DOMAIN body = 1 .. l /\ body = [j \in DOMAIN body |-> body[j]]
    <2>1. body \in Seq(Byte)
      BY RecordIs DEF Proper
    <2> QED
      BY <1>2, <2>1
  <1>7. UpdateOK(b, f)
    BY DEF AllUpdated
  <1>8. patch = Patched(body, u, o)
    BY <1>2
  <1>9. CASE u = NoUpdate /\ cs = {}
    <2>1. ASSUME NEW j \in 1 .. l
          PROVE  body[j] = PatchedByteAt(Address(i) + j - 1)
      <3>1. PICK x : x = Address(i) + j - 1
        OBVIOUS
      <3>2. x \in Stretch(b) /\ ByteAt(x) = body[j]
        BY <1>2, <1>5, <3>1, BodyBytes
      <3>3. PatchedByteAt(x) = ByteAt(x)
        BY <1>9, <3>2, PatchedByteIs
      <3> QED
        BY <3>1, <3>2, <3>3
    <2>2. body = PatchedBody(i)
      <3> HIDE DEF body
      <3> QED
        <4>1. SaysPatched(body, i)
          BY <1>2, <1>6, <2>1 DEF SaysPatched, IsFunction, body
        <4> QED
          BY <4>1, IsPatchedBody
    <2>3. ~ (Maximum(o, u.begin) < Minimum(o + Len(body), u.begin + u.length))
      <3>1. u.begin = 0 /\ u.length = 0
        BY <1>9 DEF NoUpdate
      <3>2. ~ (Maximum(o, 0) < Minimum(o + l, 0 + 0))
        BY DEF Maximum, Minimum
      <3> QED
        BY <1>2, <3>1, <3>2
    <2>4. patch = [ok |-> TRUE, data |-> body, update |-> u]
      BY <1>8, <2>3, PatchedNot
    <2>5. patch.update = u /\ patch.data = body /\ patch.ok = TRUE
      BY <2>4
    <2>6. u \in Updates
      BY <1>3 DEF Segments
    <2>7. c \in Segments /\ c.offset = b.offset /\ c.buf = b.buf /\ c.update = u
      BY <1>3, <2>5, <2>6, WithUpdate
    <2>8. Stretch(c) = Stretch(b)
      BY <2>7, SameStretchOf
    <2>9. UpdateOK(c, After(i))
      BY <1>9, <2>7, <2>8 DEF UpdateOK
    <2> QED
      BY <2>2, <2>5, <2>7, <2>9
  <1>10. ASSUME NEW a \in cs
         PROVE  /\ patch.data = PatchedBody(i)
                /\ patch.ok = (Checksum(PatchedBody(i)) = Checksum(body))
                /\ c \in Segments /\ UpdateOK(c, After(i))
    <2> DEFINE d == e + z
               E == CertificateEnd(a)
               str == Replacement(a)
    <2>1. /\ cs = {a} /\ E \in Stretch(b) /\ a <= E
          /\ str \in Seq(Byte) /\ u = UpdateFor(a, b.offset, f)
          /\ a \in Int /\ E \in Int /\ a \in Stretch(b)
      BY CertificateIn
    <2>2. PICK g \in Nat, m \in Nat, r \in Nat :
             /\ g = a - d /\ m = E + 1 - a /\ m > 0 /\ r = Len(str)
      <3>1. e + z <= a
        BY <1>1, <2>1 DEF Lies
      <3>2. a - d \in Nat /\ E + 1 - a \in Nat /\ E + 1 - a > 0
        BY <2>1, <3>1, SMTT(60)
      <3>3. Len(str) \in Nat
        BY <2>1
      <3> QED
        BY <3>2, <3>3
    <2>3. PICK v \in Int : v = f - d /\ v <= o /\ (g < o => v = o) /\ f \in Nat
      <3>1. /\ f \in Nat /\ f <= Address(i)
            /\ \A x \in Mapped : x < Address(i) => x < f
        BY FrontierIs
      <3>2. ASSUME g < o
            PROVE  f = Address(i)
        <4>1. Address(i) \in Stretch(b) /\ Address(i) \in Int
          <5>1. 1 \in 1 .. l /\ Address(i) \in Int
            BY <1>2
          <5>2. Address(i) + 1 - 1 = Address(i)
            BY <5>1
          <5> QED
            BY <1>5, <5>1, <5>2
        <4>2. Address(i) - 1 \in a .. Address(i)
          <5>1. PICK y \in Int : y = Address(i) /\ y = e + z + o
            BY <1>2
          <5>2. PICK w \in Int : w = a /\ w - (e + z) = g
            BY <2>1, <2>2
          <5>3. w = e + z + g
            BY <5>2
          <5>4. y - 1 \in w .. y
            <6> HIDE DEF f, E, str, b, u, body
            <6> QED
              BY <3>2, <5>1, <5>3
          <5> QED
            BY <5>1, <5>2, <5>4
        <4>3. Address(i) - 1 \in Mapped
          BY <2>1, <4>1, <4>2, StretchFull DEF InStretch
        <4>4. Address(i) - 1 < Address(i) /\ Address(i) - 1 < f
          BY <3>1, <4>1, <4>3
        <4> QED
          BY <3>1, <4>1, <4>4
      <3>3. f - d \in Int /\ f - d <= o /\ (g < o => f - d = o)
        BY <1>2, <3>1, <3>2, SMTT(60)
      <3> QED
        BY <3>1, <3>3
    <2>4. PICK h \in Nat : h = HandedOf(g, m, r, v) /\ h = Handed(a, f)
      <3>1. Handed(a, f) = HandedOf(a - d, E + 1 - a, Len(str), f - d)
        <4>1. d \in Int /\ f \in Int
          BY <2>3
        <4> HIDE DEF d, f
        <4> QED
          BY <2>1, <4>1, HandedIs
      <3>2. HandedOf(g, m, r, v) \in Nat
        BY DEF HandedOf, Minimum
      <3> QED
        BY <2>2, <2>3, <3>1, <3>2
    <2>5. u.begin = g /\ u.length = m /\ u.str = str /\ u.nextByte = h
      <3>1. a - Base - b.offset = g
        BY <1>3, <2>1, <2>2, SMTT(60)
      <3>2. u = [begin |-> g, length |-> m, str |-> str, nextByte |-> h]
        BY <2>1, <2>2, <2>4, <3>1 DEF UpdateFor
      <3> QED
        BY <3>2
    <2>6. Handed(a, After(i)) = HandedOf(g, m, r, o + l)
      <3>1. PICK y \in Int : y = After(i) /\ y = e + z + o + l
        <4>1. e + z + o + l \in Int
          OBVIOUS
        <4> QED
          BY <1>2, <4>1, Zenon
      <3>2. Handed(a, y) = HandedOf(a - d, E + 1 - a, Len(str), y - d)
        <4>1. d \in Int
          OBVIOUS
        <4> HIDE DEF d
        <4> QED
          BY <2>1, <4>1, HandedIs
      <3>3. y - d = o + l
        BY <3>1
      <3> QED
        BY <2>2, <3>1, <3>2, <3>3
    <2>7. \A j \in 1 .. l :
             PatchedByteAt(Address(i) + j - 1) =
                IF g <= o + j - 1 /\ o + j - 1 < g + m /\ o + j - 1 < g + r
                THEN str[o + j - g] ELSE body[j]
      <3> SUFFICES ASSUME NEW j \in 1 .. l
                   PROVE  PatchedByteAt(Address(i) + j - 1) =
                IF g <= o + j - 1 /\ o + j - 1 < g + m /\ o + j - 1 < g + r
                THEN str[o + j - g] ELSE body[j]
        OBVIOUS
      <3>1. PICK x \in Int : x = Address(i) + j - 1
        BY <1>2, SMTT(60)
      <3>2. x \in Stretch(b) /\ ByteAt(x) = body[j]
        BY <1>2, <1>5, <3>1, BodyBytes
      <3>3. PatchedByteAt(x) = IF a <= x /\ x < E + 1 /\ x < a + Len(str)
                               THEN str[x - a + 1] ELSE ByteAt(x)
        BY <1>10, <3>2, PatchedByteIs
      <3>4. x = d + o + j - 1 /\ a = d + g /\ E + 1 = d + g + m /\ d \in Int
        <4>1. PICK y \in Int : y = Address(i) /\ y = e + z + o
          BY <1>2, SMTT(60)
        <4>2. j \in Int
          OBVIOUS
        <4>3. x = e + z + o + j - 1
          BY <3>1, <4>1
        <4>4. a = (e + z) + g /\ E + 1 = (e + z) + g + m
          <5>1. PICK w \in Int, t \in Int :
                   w = a /\ t = E /\ g = w - (e + z) /\ m = t + 1 - w
            BY <2>1, <2>2
          <5>2. w = (e + z) + g /\ t + 1 = (e + z) + g + m
            BY <5>1
          <5> QED
            BY <5>1, <5>2
        <4> QED
          BY <4>3, <4>4
      <3>5. /\ a <= x <=> g <= o + j - 1
            /\ x < E + 1 <=> o + j - 1 < g + m
            /\ x < a + r <=> o + j - 1 < g + r
            /\ x - a + 1 = o + j - g
        <4> HIDE DEF d, E
        <4> QED
          BY <3>4
      <3> HIDE DEF d, E, str
      <3> QED
        BY <2>2, <3>1, <3>2, <3>3, <3>5
    <2>8. PICK left \in Int, right \in Int :
             left = Maximum(o, g) /\ right = Minimum(o + l, g + m)
      BY DEF Maximum, Minimum
    <2>9. PICK p \in Int : p = Minimum(right - left, r - h)
      BY DEF Minimum
    <2>10. /\ left = Maximum(o, u.begin)
           /\ right = Minimum(o + Len(body), u.begin + u.length)
           /\ p = Minimum(right - left, Len(u.str) - u.nextByte)
      BY <1>2, <2>2, <2>5, <2>8, <2>9
    <2> HIDE DEF u, str, E, d, f
    <2>11. ASSUME left < right
           PROVE  /\ patch.data = PatchedBody(i)
                  /\ patch.ok = (Checksum(PatchedBody(i)) = Checksum(body))
                  /\ patch.update = [u EXCEPT !.nextByte
                                        = HandedOf(g, m, r, o + l)]
      <3>0. Overlap(body, u, o, left, right, p)
        BY <2>10, <2>11 DEF Overlap
      <3>1. /\ DOMAIN patch.data = DOMAIN body /\ IsFunction(patch.data)
            /\ \A j \in DOMAIN body : patch.data[j] =
                  IF left - o < j /\ j <= left - o + p
                  THEN u.str[u.nextByte + j - (left - o)] ELSE body[j]
            /\ patch.ok = (Checksum(patch.data) = Checksum(body))
            /\ patch.update = [u EXCEPT !.nextByte = @ + p]
        <4> HIDE DEF body
        <4> QED
          BY <1>8, <3>0, PatchedIs
      <3>2. /\ h + p = HandedOf(g, m, r, o + l)
            /\ \A j \in 1 .. l :
                 /\ (left - o < j /\ j <= left - o + p)
                       <=> (g <= o + j - 1 /\ o + j - 1 < g + m
                              /\ o + j - 1 < g + r)
                 /\ (left - o < j /\ j <= left - o + p) =>
                       h + j - (left - o) = o + j - g
        <4>1. Patching(g, m, r, o, l, v)
          BY <1>2, <2>2, <2>3 DEF Patching
        <4>2. Meeting(g, m, r, o, l, v, left, right, p, h)
          BY <2>4, <2>8, <2>9, <2>11 DEF Meeting
        <4> QED
          BY <4>1, <4>2, HandedMeet
      <3>3. \A j \in 1 .. l :
               patch.data[j] = PatchedByteAt(Address(i) + j - 1)
        <4> SUFFICES ASSUME NEW j \in 1 .. l
                     PROVE  patch.data[j] = PatchedByteAt(Address(i) + j - 1)
          OBVIOUS
        <4> DEFINE in == left - o < j /\ j <= left - o + p
                   within == g <= o + j - 1 /\ o + j - 1 < g + m
                               /\ o + j - 1 < g + r
        <4>1. in <=> within
          BY <3>2
        <4>2. patch.data[j] = IF in THEN u.str[u.nextByte + j - (left - o)]
                              ELSE body[j]
          BY <1>6, <3>1
        <4>3. PatchedByteAt(Address(i) + j - 1)
                = IF within THEN str[o + j - g] ELSE body[j]
          BY <2>7
        <4>4. in => h + j - (left - o) = o + j - g
          BY <3>2
        <4> HIDE DEF in, within
        <4>5. in => u.nextByte + j - (left - o) = o + j - g
          BY <2>5, <4>4
        <4> QED
          BY <2>5, <4>1, <4>2, <4>3, <4>5
      <3>5. patch.data = PatchedBody(i)
        <4>1. DOMAIN patch.data = 1 .. l
          BY <1>6, <3>1
        <4>2. SaysPatched(patch.data, i)
          BY <1>2, <3>1, <3>3, <4>1 DEF SaysPatched
        <4> QED
          BY <4>2, IsPatchedBody
      <3>6. u.nextByte + p = HandedOf(g, m, r, o + l)
        BY <2>5, <3>2
      <3>7. patch.update = [u EXCEPT !.nextByte = HandedOf(g, m, r, o + l)]
        BY <2>1, <3>1, <3>6 DEF UpdateFor
      <3> QED
        BY <3>1, <3>5, <3>7, Zenon
    <2>12. ASSUME ~(left < right)
           PROVE  /\ patch.data = PatchedBody(i)
                  /\ patch.ok = (Checksum(PatchedBody(i)) = Checksum(body))
                  /\ patch.update = [u EXCEPT !.nextByte
                                        = HandedOf(g, m, r, o + l)]
      <3>1. patch = [ok |-> TRUE, data |-> body, update |-> u]
        BY <1>8, <2>10, <2>12, PatchedNot
      <3>2. patch.ok = TRUE /\ patch.data = body /\ patch.update = u
        BY <3>1
      <3>3. ~ (Maximum(o, g) < Minimum(o + l, g + m))
        BY <2>8, <2>12
      <3>4. /\ h = HandedOf(g, m, r, o + l)
            /\ \A j \in 1 .. l : ~ (g <= o + j - 1 /\ o + j - 1 < g + m)
        <4>1. Patching(g, m, r, o, l, v)
          BY <1>2, <2>2, <2>3 DEF Patching
        <4> QED
          BY <2>4, <3>3, <4>1, HandedMiss
      <3>5. \A j \in 1 .. l : body[j] = PatchedByteAt(Address(i) + j - 1)
        BY <2>7, <3>4
      <3>6. body = PatchedBody(i)
        <4> HIDE DEF body
        <4>1. SaysPatched(body, i)
          BY <1>2, <1>6, <3>5 DEF SaysPatched, IsFunction, body
        <4> QED
          BY <4>1, IsPatchedBody
      <3>7. u = [u EXCEPT !.nextByte = HandedOf(g, m, r, o + l)]
        BY <2>1, <2>5, <3>4 DEF UpdateFor
      <3> QED
        BY <3>2, <3>6, <3>7
    <2>13. patch.update = UpdateFor(a, b.offset, After(i))
      <3>1. patch.update = [u EXCEPT !.nextByte = Handed(a, After(i))]
        BY <2>6, <2>11, <2>12
      <3> QED
        BY <2>1, <3>1 DEF UpdateFor
    <2>14. patch.update \in Updates
      <3>1. HandedOf(g, m, r, o + l) \in Nat
        BY DEF HandedOf, Minimum
      <3>2. u \in Updates
        BY <1>3 DEF Segments, u
      <3> QED
        BY <2>11, <2>12, <3>1, <3>2 DEF Updates
    <2>15. c \in Segments /\ c.offset = b.offset /\ c.buf = b.buf
           /\ c.update = patch.update
      BY <1>3, <2>14, WithUpdate
    <2>16. Stretch(c) = Stretch(b)
      BY <2>15, SameStretchOf
    <2>17. UpdateOK(c, After(i))
      BY <2>1, <2>13, <2>15, <2>16 DEF UpdateOK, E, str
    <2> QED
      BY <2>11, <2>12, <2>15, <2>17
  <1> QED
    BY <1>7, <1>9, <1>10 DEF UpdateOK

-----------------------------------------------------------------------------
(* Encoding a record *)

LEMMA UpdateKept ==
  ASSUME Proper, NEW bufs, Loaded(bufs), NEW i \in Data, NEW n \in Nat,
         n + 1 = i, AllUpdated(bufs, Frontier(n)),
         NEW s \in DOMAIN bufs, Holds(bufs[s], i),
         NEW t \in DOMAIN bufs, t # s
  PROVE  UpdateOK(bufs[t], After(i))
  <1> DEFINE f == Frontier(n)
             b == bufs[t]
  <1>1. UpdateOK(b, f)
    BY DEF AllUpdated
  <1>2. CASE b.update = NoUpdate /\ Certificates \cap Stretch(b) = {}
    BY <1>2 DEF UpdateOK
  <1>3. ASSUME NEW a \in Certificates \cap Stretch(b)
        PROVE  UpdateOK(b, After(i))
    <2>1. /\ Certificates \cap Stretch(b) = {a}
          /\ CertificateEnd(a) \in Stretch(b) /\ a <= CertificateEnd(a)
          /\ Replacement(a) \in Seq(Byte)
          /\ b.update = UpdateFor(a, b.offset, f)
          /\ a \in Int /\ CertificateEnd(a) \in Int
      BY CertificateIn
    <2>2. PICK y \in Nat, z \in Nat : y = Address(i) /\ z = After(i) /\ y < z
                                      /\ Span(i) = y .. z - 1
      BY AddressIs
    <2>3. PICK g \in Nat : g = f /\ g <= y
                           /\ \A x \in Mapped : x < y => x < g
      BY <2>2, FrontierIs
    <2>4. y \in Stretch(bufs[s]) /\ z - 1 \in Stretch(bufs[s])
      BY <2>2, HeldIs
    <2>5. PICK c \in Int, e \in Int :
             c = a /\ e = CertificateEnd(a) /\ c <= e
      BY <2>1
    <2>6. z <= c \/ e + 1 <= g
      <3>1. s \in Nat /\ t \in Nat
        BY LoadedIs
      <3>2. CASE s < t
        <4>1. z - 1 < Base + EndOf(bufs[s]) /\ Base + EndOf(bufs[s]) < a
          BY <2>4, <3>2, StretchesApart
        <4>2. Base + EndOf(bufs[s]) \in Int
          <5>1. PICK k \in Nat, o \in Nat, l \in Nat : Lies(bufs[s], k, o, l)
            BY StretchIs
          <5> QED
            BY <5>1 DEF Lies
        <4> QED
          BY <2>5, <4>1, <4>2
      <3>3. CASE t < s
        <4>1. /\ CertificateEnd(a) < Base + EndOf(b)
              /\ Base + EndOf(b) < y
          BY <2>1, <2>4, <3>3, StretchesApart
        <4>2. Base + EndOf(b) \in Int
          <5>1. PICK k \in Nat, o \in Nat, l \in Nat : Lies(b, k, o, l)
            BY StretchIs
          <5> QED
            BY <5>1 DEF Lies
        <4>3. e < y
          BY <2>5, <4>1, <4>2
        <4>4. e \in Mapped
          BY <2>1, <2>5, StretchSays
        <4>5. e < g
          BY <2>3, <4>3, <4>4
        <4> QED
          BY <2>5, <4>5
      <3> QED
        BY <3>1, <3>2, <3>3
    <2>7. Handed(a, g) = Handed(a, z)
      <3>1. PICK r \in Nat : r = Len(Replacement(a))
        BY <2>1
      <3>2. g <= z /\ (z <= c \/ c + (e + 1 - c) <= g) /\ e + 1 - c \in Nat
            /\ e + 1 - c > 0
        BY <2>2, <2>3, <2>5, <2>6, SMTT(60)
      <3>3. HandedOf(c, e + 1 - c, r, z) = HandedOf(c, e + 1 - c, r, g)
        <4>1. PICK m \in Nat : m = e + 1 - c
          BY <3>2
        <4> QED
          BY <3>2, <4>1, HandedApart
      <3>4. \A h \in Nat : Handed(a, h) = HandedOf(c, e + 1 - c, r, h)
        BY <2>5, <3>1 DEF Handed, HandedOf
      <3> QED
        BY <3>3, <3>4
    <2>8. UpdateFor(a, b.offset, f) = UpdateFor(a, b.offset, After(i))
      BY <2>2, <2>3, <2>7 DEF UpdateFor
    <2> QED
      BY <2>1, <2>8 DEF UpdateOK
  <1> QED
    BY <1>1, <1>2, <1>3 DEF UpdateOK

LEMMA PatchedBodyType ==
  ASSUME Proper, NEW bufs, Loaded(bufs), NEW front, AllUpdated(bufs, front),
         NEW i \in Data
  PROVE  PatchedBody(i) \in Seq(Byte)
         /\ Len(PatchedBody(i)) = Len(input[i].body)
         /\ <<>> \o PatchedBody(i) = PatchedBody(i)
  <1>1. PICK l \in Nat : l = Len(input[i].body)
    BY AddressIs
  <1>2. input[i].body \in Seq(Byte)
    BY RecordIs DEF Proper
  <1>3. PICK s \in DOMAIN bufs : Holds(bufs[s], i)
    BY HeldBy
  <1>4. ASSUME NEW j \in 1 .. l
        PROVE  PatchedBody(i)[j] \in Byte
    <2>1. PICK x : x = Address(i) + j - 1 /\ x \in Span(i)
                   /\ ByteAt(x) = input[i].body[j]
                   /\ PatchedBody(i)[j] = PatchedByteAt(x)
      BY <1>1, BodyBytes
    <2>2. x \in Stretch(bufs[s]) /\ x \in Int
      BY <1>3, <2>1, HeldIs, StretchSays
    <2>3. ByteAt(x) \in Byte
      BY <1>1, <1>2, <2>1
    <2>4. ASSUME NEW a \in Certificates \cap Stretch(bufs[s]),
                 a <= x, x < a + Len(Replacement(a))
          PROVE  Replacement(a)[x - a + 1] \in Byte
      <3>1. Replacement(a) \in Seq(Byte) /\ a \in Int
        BY CertificateIn
      <3>2. x - a + 1 \in 1 .. Len(Replacement(a))
        BY <2>2, <2>4, <3>1
      <3> QED
        BY <3>1, <3>2
    <2> QED
      BY <2>1, <2>2, <2>3, <2>4, PatchedByteIs
  <1>5. PatchedBody(i) = [j \in 1 .. l |-> PatchedBody(i)[j]]
    BY <1>1, BodyBytes DEF PatchedBody
  <1>6. PatchedBody(i) \in Seq(Byte) /\ Len(PatchedBody(i)) = l
    BY <1>4, <1>5
  <1> QED
    BY <1>1, <1>6

LEMMA RecordRead ==
  ASSUME Proper, NEW bufs, Loaded(bufs), NEW i \in Data, NEW n \in Nat,
         n + 1 = i, AllUpdated(bufs, Frontier(n)),
         NEW read, read = ReadAt(bufs, Len(input[i].body), Place(i))
  PROVE  /\ read.ok = (Checksum(PatchedBody(i)) = Checksum(input[i].body))
         /\ read.p = PatchedBody(i)
         /\ Loaded(read.bufs) /\ AllUpdated(read.bufs, Frontier(i))
  <1>1. PICK s \in DOMAIN bufs : Holds(bufs[s], i)
    BY HeldBy
  <1>2. PICK patch : patch = Patched(input[i].body, bufs[s].update,
                                     Place(i) - bufs[s].offset)
    OBVIOUS
  <1>3. PICK c : c = [bufs[s] EXCEPT !.update = patch.update]
    OBVIOUS
  <1>4. /\ patch.data = PatchedBody(i)
        /\ patch.ok = (Checksum(PatchedBody(i)) = Checksum(input[i].body))
        /\ c \in Segments /\ UpdateOK(c, After(i))
    BY <1>1, <1>2, <1>3, RecordPatched
  <1>5. /\ read.ok = patch.ok /\ read.p = <<>> \o patch.data
        /\ read.bufs = [bufs EXCEPT ![s].update = patch.update]
    BY <1>1, <1>2, ReadIs
  <1>6. read.p = PatchedBody(i)
    BY <1>4, <1>5, PatchedBodyType
  <1>7. bufs \in Seq(Segments)
    BY LoadedIs, <1>1
  <1>8. read.bufs = [bufs EXCEPT ![s] = c]
    BY <1>3, <1>5, Zenon
  <1>9. /\ read.bufs \in Seq(Segments) /\ DOMAIN read.bufs = DOMAIN bufs
        /\ read.bufs[s] = c
        /\ \A t \in DOMAIN bufs : t # s => read.bufs[t] = bufs[t]
    BY <1>4, <1>7, <1>8, SegmentReplaced
  <1>10. c.offset = bufs[s].offset /\ c.buf = bufs[s].buf
    BY <1>1, <1>3, LoadedIs DEF Segments
  <1>11. Loaded(read.bufs)
    BY <1>9, <1>10, SameMemory DEF Loaded
  <1>12. AllUpdated(read.bufs, Frontier(i))
    <2>1. Frontier(i) = After(i)
      BY FrontierIs
    <2>2. \A t \in DOMAIN bufs : UpdateOK(read.bufs[t], After(i))
      BY <1>1, <1>4, <1>9, UpdateKept
    <2> QED
      BY <1>9, <2>1, <2>2 DEF AllUpdated
  <1> QED
    BY <1>4, <1>5, <1>6, <1>11, <1>12, Zenon

\* The checksum byte of a record stays right when the sum of its body does.
LEMMA ChecksumStays ==
  ASSUME Proper, NEW i \in Data, NEW body \in Seq(Byte),
         Len(body) = Len(input[i].body),
         Checksum(body) = Checksum(input[i].body)
  PROVE  RecordChecksum(input[i].offset, input[i].recType, body)
           = input[i].csum
  <1>1. i \in 1 .. Len(input)
    BY RecordIs DEF Proper
  <1>2. input[i].body \in Seq(Byte) /\ input[i].offset \in 0 .. W * W - 1
        /\ input[i].recType \in Byte
    BY <1>1, RecordIs DEF Proper
  <1>3. PICK a \in Nat, b \in Nat : a = Sum(body) /\ b = Sum(input[i].body)
    BY <1>2, SumType
  <1>4. PICK l \in Nat, hi \in Int, lo \in Int, t \in Int :
           /\ l = Len(body) /\ hi = input[i].offset \div W
           /\ lo = input[i].offset % W /\ t = input[i].recType
    <2>1. PICK w \in Nat, o \in Int : w = W /\ w > 0 /\ o = input[i].offset
      BY <1>2, ByteIs
    <2>2. o \div w \in Int /\ o % w \in Int
      BY <2>1
    <2>3. PICK hi \in Int, lo \in Int : hi = o \div w /\ lo = o % w
      BY <2>2
    <2>4. Len(body) \in Nat /\ input[i].recType \in Int
      <3>1. Len(body) \in Nat
        OBVIOUS
      <3>2. input[i].recType \in Int
        BY <1>2, ByteIs
      <3> QED
        BY <3>1, <3>2
    <2> QED
      BY <2>1, <2>3, <2>4
  <1>5. Complement(a) = Complement(b)
    BY <1>3 DEF Checksum
  <1>6. PICK c \in Int : c = l + hi + lo + t
    OBVIOUS
  <1>7. Complement(c + a) = Complement(c + b)
    BY <1>3, <1>5, SameComplement
  <1>8. RecordChecksum(input[i].offset, input[i].recType, body)
          = Complement(c + a)
    BY <1>3, <1>4, <1>6, Zenon DEF RecordChecksum
  <1>9. RecordChecksum(input[i].offset, input[i].recType, input[i].body)
          = Complement(c + b)
    BY <1>3, <1>4, <1>6, Zenon DEF RecordChecksum
  <1>10. ChecksumOK(input[i])
    BY DEF Proper, WellFormed, Data
  <1> QED
    BY <1>7, <1>8, <1>9, <1>10 DEF ChecksumOK

LEMMA EncodedRecord ==
  ASSUME Proper, NEW i \in Data, NEW r, r = Kept(input[i], ReadOffset(i)),
         NEW body \in Seq(Byte), Len(body) = Len(input[i].body),
         Checksum(body) = Checksum(input[i].body)
  PROVE  Encoded(r, body) = [input[i] EXCEPT !.body = body]
  <1>1. r.offset = input[i].offset /\ r.recType = input[i].recType
    BY KeptIs
  <1>2. RecordChecksum(r.offset, r.recType, body) = input[i].csum
    BY <1>1, ChecksumStays
  <1>3. Encoded(r, body)
          = [offset |-> input[i].offset, recType |-> input[i].recType,
             body |-> body, csum |-> input[i].csum]
    BY <1>1, <1>2 DEF Encoded
  <1>4. input[i] = [offset |-> input[i].offset, recType |-> input[i].recType,
                    body |-> input[i].body, csum |-> input[i].csum]
    BY RecordIs DEF Proper
  <1> QED
    BY <1>3, <1>4

LEMMA EncodedOther ==
  ASSUME Proper, NEW i \in DOMAIN input, i \notin Data,
         NEW r, r = Kept(input[i], ReadOffset(i))
  PROVE  /\ r.recType # DATA
         /\ Encoded(r, IF r.recType = EOF THEN [j \in 1 .. r.length |-> 0]
                       ELSE r.body) = input[i]
  <1>1. r.offset = input[i].offset /\ r.recType = input[i].recType
        /\ r.length = Len(input[i].body)
        /\ r.body = IF input[i].recType \in {BASE, START} THEN input[i].body
                    ELSE <<>>
    BY KeptIs
  <1>2. input[i].recType \in {EOF, BASE, START} /\ r.recType # DATA
    BY <1>1 DEF Proper, WellFormed, Data
  <1>3. (IF r.recType = EOF THEN [j \in 1 .. r.length |-> 0] ELSE r.body)
          = input[i].body
    <2>1. CASE r.recType = EOF
      <3>1. input[i].body = <<>>
        BY <1>1, <2>1 DEF Proper, WellFormed
      <3>2. r.length = 0
        BY <1>1, <3>1
      <3>3. [j \in 1 .. 0 |-> 0] = <<>>
        OBVIOUS
      <3> QED
        BY <2>1, <3>1, <3>2, <3>3
    <2>2. CASE r.recType # EOF
      BY <1>1, <1>2, <2>2
    <2> QED
      BY <2>1, <2>2
  <1>4. RecordChecksum(input[i].offset, input[i].recType, input[i].body)
          = input[i].csum
    BY DEF Proper, WellFormed, ChecksumOK
  <1>5. input[i] = [offset |-> input[i].offset, recType |-> input[i].recType,
                    body |-> input[i].body, csum |-> input[i].csum]
    BY RecordIs, SMTT(60) DEF Proper
  <1> QED
    BY <1>1, <1>2, <1>3, <1>4, <1>5 DEF Encoded

-----------------------------------------------------------------------------
(* The invariant *)

Compacted(k) == IF DataUpTo(k) = {} THEN 0 ELSE -Base

ParseState(eo, base, compact, recs, bufs, out, k) ==
    /\ eo \in BOOLEAN /\ (eo <=> k = Len(input))
    /\ base = BaseOf(k + 1)
    /\ compact = Compacted(k)
    /\ RecordsOK(recs, k)
    /\ SegmentsOK(bufs, k) /\ NoneUpdated(bufs)
    /\ out = <<>>

EncodeState(recs, bufs, out) ==
    /\ AllRecords(recs)
    /\ Loaded(bufs) /\ AllUpdated(bufs, Frontier(Len(out)))
    /\ Len(out) \in 0 .. Len(input)
    /\ out = [i \in 1 .. Len(out) |-> PatchedFile[i]]

ProgramState(st, eo, base, compact, recs, bufs, out, k) ==
    WellFormed /\ ~StartsAtZero =>
        /\ st = "parse" =>
              ParseState(eo, base, compact, recs, bufs, out, k)
        /\ st = "encode" => EncodeState(recs, bufs, out)
        /\ st = "done" => out = PatchedFile
        /\ st = "failed" => ~Fits

FileInv == input \in Inputs /\ parsed \in 0 .. Len(input)

PatchInv ==
    /\ FileInv
    /\ ProgramState(stage, eof, baseAddress, outputOffset, records, buffers,
                    output, parsed)

Primed ==
    ProgramState(stage', eof', baseAddress', outputOffset', records',
                 buffers', output', parsed')

LEMMA SamePatch ==
  ASSUME UNCHANGED input
  PROVE  /\ PatchedFile' = PatchedFile
         /\ Data' = Data /\ Certificates' = Certificates
         /\ \A a : SliceStarts(a)' = SliceStarts(a)
         /\ WellFormed' <=> WellFormed
         /\ StartsAtZero' <=> StartsAtZero
  <1> USE DEF Data, PatchedBody, PatchedByteAt, Certificates, Replaced,
              Replacement, CertificateEnd, Ends, SliceStarts, Matches, Mapped,
              ByteAt, RecordOf, Span, Address, BaseOf
  <1>1. PatchedFile' = PatchedFile
    BY SMTT(60) DEF PatchedFile
  <1>2. WellFormed' <=> WellFormed
    BY SMTT(60) DEF WellFormed, ChecksumOK, RecordChecksum
  <1>3. StartsAtZero' <=> StartsAtZero
    BY SMTT(60) DEF StartsAtZero
  <1>4. Certificates' = Certificates
    BY SMTT(60)
  <1>5. \A a : SliceStarts(a)' = SliceStarts(a)
    BY SMTT(60)
  <1>6. Data' = Data
    OBVIOUS
  <1> QED
    BY <1>1, <1>2, <1>3, <1>4, <1>5, <1>6

WithBody(r, b) == [r EXCEPT !.body = b]

LEMMA WithBodyIs ==
  ASSUME NEW r \in HexRecord, NEW b
  PROVE  WithBody(r, b).body = b
  BY DEF WithBody, HexRecord

LEMMA SamePatchedBody ==
  ASSUME input \in Inputs, UNCHANGED input, NEW i \in Data
  PROVE  PatchedBody(i)' = PatchedBody(i)
  <1>1. i \in DOMAIN input /\ input[i] \in HexRecord
    <2>1. input \in Seq(HexRecord)
      BY InputsAssumption
    <2>2. i \in DOMAIN input
      BY DEF Data
    <2> QED
      BY <2>1, <2>2
  <1>2. PatchedFile[i] = WithBody(input[i], PatchedBody(i))
    BY <1>1 DEF PatchedFile, WithBody
  <1>3. PatchedFile'[i] = WithBody(input[i], PatchedBody(i)')
    BY <1>1, SamePatch DEF PatchedFile, WithBody
  <1>4. PatchedFile'[i] = PatchedFile[i]
    BY SamePatch
  <1>5. PICK b, c : b = PatchedBody(i) /\ c = PatchedBody(i)'
    OBVIOUS
  <1>6. WithBody(input[i], b) = WithBody(input[i], c)
    BY <1>2, <1>3, <1>4, <1>5
  <1>7. b = c
    BY <1>1, <1>6, WithBodyIs
  <1> QED
    BY <1>5, <1>7

LEMMA SameFile ==
  ASSUME input \in Inputs, UNCHANGED input
  PROVE  /\ PatchedFile' = PatchedFile
         /\ (WellFormed /\ ~StartsAtZero)' <=> (WellFormed /\ ~StartsAtZero)
         /\ Fits' <=> Fits
  <1>1. \A i \in Data : Checksum(PatchedBody(i)') = Checksum(PatchedBody(i))
    BY SamePatchedBody
  <1>2. Fits' <=> Fits
    BY <1>1, SamePatch DEF Fits
  <1> QED
    BY <1>2, SamePatch

LEMMA SameState ==
  ASSUME UNCHANGED input
  PROVE  /\ RecordsOK(records, parsed)' <=> RecordsOK(records', parsed')
         /\ SegmentsOK(buffers, parsed)' <=> SegmentsOK(buffers', parsed')
         /\ Loaded(buffers)' <=> Loaded(buffers')
         /\ AllRecords(records)' <=> AllRecords(records')
         /\ Compacted(parsed)' = Compacted(parsed')
         /\ BaseOf(parsed + 1)' = BaseOf(parsed' + 1)
         /\ AllUpdated(buffers, Frontier(Len(output)))'
              <=> AllUpdated(buffers', Frontier(Len(output')))
  <1> USE DEF Data, DataUpTo, Certificates, 
              Replacement, CertificateEnd, Ends, SliceStarts, Matches, Mapped,
              ByteAt, RecordOf, Span, Address, BaseOf, Base, Place
  <1>1. RecordsOK(records, parsed)' <=> RecordsOK(records', parsed')
    BY DEF RecordsOK, ReadOffset, Kept
  <1>2. SegmentsOK(buffers, parsed)' <=> SegmentsOK(buffers', parsed')
    BY DEF SegmentsOK, Filled, Holds, Segments, Updates, EndOf
  <1>3. Loaded(buffers)' <=> Loaded(buffers')
    BY DEF Loaded, SegmentsOK, Filled, Holds, Segments, Updates, EndOf
  <1>4. AllRecords(records)' <=> AllRecords(records')
    BY DEF AllRecords, RecordsOK, ReadOffset, Kept
  <1>5. Compacted(parsed)' = Compacted(parsed')
    BY DEF Compacted
  <1>6. BaseOf(parsed + 1)' = BaseOf(parsed' + 1)
    OBVIOUS
  <1>7. AllUpdated(buffers, Frontier(Len(output)))'
              <=> AllUpdated(buffers', Frontier(Len(output')))
    <2>1. Certificates' = Certificates
      OBVIOUS
    <2>2. \A a : CertificateEnd(a)' = CertificateEnd(a)
      OBVIOUS
    <2>3. \A a : Replacement(a)' = Replacement(a)
      OBVIOUS
    <2>4. Base' = Base
      OBVIOUS
    <2>5. Frontier(Len(output))' = Frontier(Len(output'))
      BY DEF Frontier
    <2> HIDE DEF Certificates, CertificateEnd, Replacement, Base, Frontier
    <2> QED
      BY <2>1, <2>2, <2>3, <2>4, <2>5
         DEF AllUpdated, UpdateOK, UpdateFor, Handed, Stretch, EndOf
  <1> QED
    BY <1>1, <1>2, <1>3, <1>4, <1>5, <1>6, <1>7

LEMMA PrimedIs ==
  ASSUME input \in Inputs, UNCHANGED input, Primed, FileInv'
  PROVE  PatchInv'
  <1>1. ProgramState(stage, eof, baseAddress, outputOffset, records, buffers,
                    output, parsed)'
          <=> Primed
    BY SameFile, SameState
       DEF Primed, ProgramState, ParseState, EncodeState, NoneUpdated
  <1> QED
    BY <1>1 DEF PatchInv

-----------------------------------------------------------------------------
(* Reading a record *)

Parsed ==
    ParseState(eof, baseAddress, outputOffset, records, buffers, output,
               parsed)

ParsedNext ==
    /\ stage' = "parse"
    /\ ParseState(eof', baseAddress', outputOffset', records', buffers',
                  output', parsed')

LEMMA RecordsNext ==
  ASSUME Proper, NEW k \in Nat, k + 1 \in 1 .. Len(input), NEW recs,
         RecordsOK(recs, k), NEW r, r = Kept(input[k + 1], ReadOffset(k + 1))
  PROVE  RecordsOK(Append(recs, r), k + 1)
  <1> DEFINE R == [length : Nat, offset : Nat, recType : Nat,
                   readOffset : Nat, body : Seq(Byte)]
  <1>1. recs \in Seq(R) /\ Len(recs) = k
        /\ \A i \in 1 .. k : recs[i] = Kept(input[i], ReadOffset(i))
    BY DEF RecordsOK
  <1>2. r \in R
    <2>1. /\ input[k + 1].offset \in 0 .. W * W - 1
          /\ input[k + 1].recType \in Byte
          /\ input[k + 1].body \in Seq(Byte)
      BY RecordIs DEF Proper
    <2>2. input[k + 1].offset \in Nat /\ input[k + 1].recType \in Nat
          /\ Len(input[k + 1].body) \in Nat
      BY <2>1, ByteIs
    <2>3. ReadOffset(k + 1) \in Nat
      BY PlaceIs DEF ReadOffset
    <2>4. (IF input[k + 1].recType \in {BASE, START} THEN input[k + 1].body
           ELSE <<>>) \in Seq(Byte)
      BY <2>1
    <2> QED
      BY <2>2, <2>3, <2>4 DEF Kept
  <1> HIDE DEF R
  <1>3. Append(recs, r) \in Seq(R) /\ Len(Append(recs, r)) = k + 1
        /\ Append(recs, r)[k + 1] = r
        /\ \A i \in 1 .. k : Append(recs, r)[i] = recs[i]
    BY <1>1, <1>2
  <1>4. \A i \in 1 .. k + 1 : Append(recs, r)[i] = Kept(input[i], ReadOffset(i))
    <2>1. \A i \in 1 .. k + 1 : i \in 1 .. k \/ i = k + 1
      OBVIOUS
    <2> QED
      BY <1>1, <1>3, <2>1
  <1> QED
    BY <1>3, <1>4 DEF RecordsOK, R

\* A record that is no data leaves the memory.
LEMMA NoDataNext ==
  ASSUME Proper, NEW k \in Nat, k + 1 \notin Data, NEW bufs,
         SegmentsOK(bufs, k)
  PROVE  SegmentsOK(bufs, k + 1) /\ Compacted(k + 1) = Compacted(k)
  <1>1. \A i : i \in DataUpTo(k + 1) <=> i \in DataUpTo(k)
    BY UpToNext DEF Proper
  <1>2. DataUpTo(k + 1) = DataUpTo(k)
    BY <1>1
  <1> QED
    BY <1>2 DEF SegmentsOK, Filled, Compacted

\* The first record of data sets where offset 0 is.
LEMMA CompactNext ==
  ASSUME Proper, NEW k \in Nat, k + 1 \in Data
  PROVE  /\ Compacted(k + 1) = -Base
         /\ -Base = IF Compacted(k) = 0 THEN -Address(k + 1) ELSE Compacted(k)
  <1>1. Base \in Nat /\ Base # 0
    BY PlaceIs
  <1>2. k + 1 \in DataUpTo(k + 1)
    BY UpToNext DEF Proper
  <1>3. Compacted(k + 1) = -Base
    BY <1>2 DEF Compacted
  <1>4. CASE DataUpTo(k) = {}
    <2>1. Min(Data) \in Data /\ Min(Data) <= k + 1 /\ Base = Address(Min(Data))
      BY FirstAddress
    <2>2. PICK m \in Data : m = Min(Data) /\ m <= k + 1 /\ m \in Nat
      BY <2>1, RecordIs DEF Proper
    <2>3. ~ (m <= k)
      BY <1>4, <2>2 DEF DataUpTo
    <2>4. m = k + 1
      BY <2>2, <2>3
    <2>5. Compacted(k) = 0
      BY <1>4 DEF Compacted
    <2> QED
      BY <1>3, <2>1, <2>2, <2>4, <2>5
  <1>5. CASE DataUpTo(k) # {}
    <2>1. Compacted(k) = -Base
      BY <1>5 DEF Compacted
    <2>2. -Base # 0
      BY <1>1
    <2> QED
      BY <1>3, <2>1, <2>2
  <1> QED
    BY <1>4, <1>5

LEMMA NextRecord ==
  ASSUME Proper, FileInv, NEW type, Reading(type)
  PROVE  /\ parsed \in Nat /\ parsed + 1 \in 1 .. Len(input)
         /\ input[parsed + 1].recType = type
         /\ ChecksumOK(input[parsed + 1])
         /\ parsed + 1 \in Data <=> type = DATA
         /\ parsed + 1 = Len(input) <=> type = EOF
  <1>1. DOMAIN input = 1 .. Len(input) /\ Len(input) \in Nat
    BY RecordIs DEF Proper
  <1>2. parsed \in Nat /\ parsed + 1 \in 1 .. Len(input)
    BY <1>1 DEF FileInv, Reading
  <1>3. input[parsed + 1].recType = type
    BY SMTT(60) DEF Reading
  <1>4. ChecksumOK(input[parsed + 1])
        /\ (input[parsed + 1].recType = EOF <=> parsed + 1 = Len(input))
    BY <1>1, <1>2 DEF Proper, WellFormed
  <1>5. parsed + 1 \in Data <=> type = DATA
    BY <1>1, <1>2, <1>3 DEF Data
  <1> QED
    BY <1>2, <1>3, <1>4, <1>5

LEMMA AcceptIs ==
  ASSUME Proper, FileInv, NEW type, Reading(type), RecordsOK(records, parsed),
         NEW o, o = ReadOffset(parsed + 1), Accept(input[parsed + 1], o)
  PROVE  /\ RecordsOK(records', parsed') /\ parsed' = parsed + 1
         /\ stage' = "parse" /\ output' = output
  <1>1. parsed \in Nat /\ parsed + 1 \in 1 .. Len(input)
        /\ ChecksumOK(input[parsed + 1])
    BY NextRecord
  <1>2. records' = Append(records, Kept(input[parsed + 1], o))
        /\ parsed' = parsed + 1 /\ stage' = stage /\ output' = output
    BY <1>1 DEF Accept
  <1>3. RecordsOK(records', parsed + 1)
    BY <1>1, <1>2, RecordsNext
  <1> QED
    BY <1>2, <1>3 DEF Reading, Parsing

LEMMA ReadDataKeeps ==
  ASSUME Proper, FileInv, Parsed, ReadData
  PROVE  ParsedNext
  <1> DEFINE k == parsed
  <1>1. Reading(DATA)
    BY DEF ReadData
  <1>2. k \in Nat /\ k + 1 \in 1 .. Len(input) /\ k + 1 \in Data
    BY <1>1, NextRecord
  <1>3. /\ eof \in BOOLEAN /\ eof = FALSE /\ baseAddress = BaseOf(k + 1)
        /\ outputOffset = Compacted(k) /\ RecordsOK(records, k)
        /\ SegmentsOK(buffers, k) /\ NoneUpdated(buffers) /\ output = <<>>
    BY <1>1 DEF Parsed, ParseState, Reading, Parsing
  <1>4. baseAddress + input[k + 1].offset = Address(k + 1)
    BY <1>3 DEF Address
  <1>5. outputOffset' = -Base
    <2>1. outputOffset' = IF outputOffset = 0
                          THEN -(baseAddress + input[k + 1].offset)
                          ELSE outputOffset
      BY DEF ReadData
    <2> QED
      BY <1>2, <1>3, <1>4, <2>1, CompactNext
  <1>6. Address(k + 1) + outputOffset' = Place(k + 1)
    <2>1. Address(k + 1) \in Nat /\ Base \in Nat
      BY <1>2, AddressIs, PlaceIs
    <2> QED
      BY <1>5, <2>1 DEF Place
  <1>7. /\ buffers' \in WriteAt(buffers, input[k + 1].body, Place(k + 1))
        /\ Accept(input[k + 1], Place(k + 1))
        /\ UNCHANGED <<eof, baseAddress>>
    <2>1. /\ buffers' \in WriteAt(buffers, input[k + 1].body,
                    baseAddress + input[k + 1].offset + outputOffset')
          /\ Accept(input[k + 1],
                    baseAddress + input[k + 1].offset + outputOffset')
          /\ UNCHANGED <<eof, baseAddress>>
      BY DEF ReadData
    <2> QED
      BY <1>4, <1>6, <2>1
  <1>8. /\ RecordsOK(records', parsed') /\ parsed' = k + 1
        /\ stage' = "parse" /\ output' = output
    <2>1. Place(k + 1) = ReadOffset(k + 1)
      BY <1>2 DEF ReadOffset
    <2> QED
      BY <1>1, <1>3, <1>7, <2>1, AcceptIs
  <1>9. SegmentsOK(buffers', k + 1) /\ NoneUpdated(buffers')
    BY <1>2, <1>3, <1>7, WrittenIs
  <1>10. baseAddress' = BaseOf(k + 1 + 1)
    <2>1. input[k + 1].recType # BASE
      BY <1>1, NextRecord DEF DATA, BASE
    <2> QED
      BY <1>2, <1>3, <1>7, <2>1, BaseNext DEF Proper
  <1>11. eof' \in BOOLEAN /\ (eof' <=> parsed' = Len(input))
    BY <1>1, <1>3, <1>7, <1>8, NextRecord DEF DATA, EOF
  <1>12. outputOffset' = Compacted(k + 1)
    BY <1>2, <1>5, CompactNext
  <1> QED
    BY <1>3, <1>8, <1>9, <1>10, <1>11, <1>12 DEF ParsedNext, ParseState

\* The same for the records that are no data, with the new base address.
LEMMA ReadOtherKeeps ==
  ASSUME Proper, FileInv, Parsed, NEW type, type # DATA, Reading(type),
         Accept(input[parsed + 1], 0),
         UNCHANGED <<outputOffset, buffers>>,
         baseAddress' = BaseOf(parsed + 1 + 1),
         eof' = IF type = EOF THEN TRUE ELSE eof
  PROVE  ParsedNext
  <1> DEFINE k == parsed
  <1>1. k \in Nat /\ k + 1 \in 1 .. Len(input) /\ k + 1 \notin Data
        /\ (k + 1 = Len(input) <=> type = EOF)
    BY NextRecord
  <1>2. /\ eof \in BOOLEAN /\ eof = FALSE
        /\ outputOffset = Compacted(k) /\ RecordsOK(records, k)
        /\ SegmentsOK(buffers, k) /\ NoneUpdated(buffers) /\ output = <<>>
    BY DEF Parsed, ParseState, Reading, Parsing
  <1>3. /\ RecordsOK(records', parsed') /\ parsed' = k + 1
        /\ stage' = "parse" /\ output' = output
    <2>1. ReadOffset(k + 1) = 0
      BY <1>1 DEF ReadOffset
    <2> QED
      BY <1>2, <2>1, AcceptIs
  <1>4. SegmentsOK(buffers', k + 1) /\ outputOffset' = Compacted(k + 1)
        /\ NoneUpdated(buffers')
    BY <1>1, <1>2, NoDataNext
  <1>5. eof' \in BOOLEAN /\ (eof' <=> parsed' = Len(input))
    BY <1>1, <1>2, <1>3
  <1> QED
    BY <1>2, <1>3, <1>4, <1>5 DEF ParsedNext, ParseState

LEMMA ReadEOFKeeps ==
  ASSUME Proper, FileInv, Parsed, ReadEOF
  PROVE  ParsedNext
  <1>1. Reading(EOF) /\ eof' = TRUE /\ Accept(input[parsed + 1], 0)
        /\ UNCHANGED <<baseAddress, outputOffset, buffers>>
    BY DEF ReadEOF
  <1>2. baseAddress' = BaseOf(parsed + 1 + 1)
    <2>1. baseAddress = BaseOf(parsed + 1)
      BY DEF Parsed, ParseState
    <2>2. parsed + 1 \in 1 .. Len(input) /\ input[parsed + 1].recType # BASE
      BY <1>1, NextRecord DEF EOF, BASE
    <2> QED
      BY <1>1, <2>1, <2>2, BaseNext DEF Proper
  <1>3. EOF # DATA /\ eof' = IF EOF = EOF THEN TRUE ELSE eof
    BY <1>1 DEF EOF, DATA
  <1> QED
    BY <1>1, <1>2, <1>3, ReadOtherKeeps

LEMMA ReadStartKeeps ==
  ASSUME Proper, FileInv, Parsed, ReadStart
  PROVE  ParsedNext
  <1>1. Reading(START) /\ Accept(input[parsed + 1], 0)
        /\ UNCHANGED <<eof, baseAddress, outputOffset, buffers>>
    BY DEF ReadStart
  <1>2. baseAddress' = BaseOf(parsed + 1 + 1)
    <2>1. baseAddress = BaseOf(parsed + 1)
      BY DEF Parsed, ParseState
    <2>2. parsed + 1 \in 1 .. Len(input) /\ input[parsed + 1].recType # BASE
      BY <1>1, NextRecord DEF START, BASE
    <2> QED
      BY <1>1, <2>1, <2>2, BaseNext DEF Proper
  <1>3. START # DATA /\ eof' = IF START = EOF THEN TRUE ELSE eof
    BY <1>1 DEF START, DATA, EOF
  <1> QED
    BY <1>1, <1>2, <1>3, ReadOtherKeeps

LEMMA ReadBaseKeeps ==
  ASSUME Proper, FileInv, Parsed, ReadBase
  PROVE  ParsedNext
  <1>1. Reading(BASE) /\ Accept(input[parsed + 1], 0)
        /\ UNCHANGED <<eof, outputOffset, buffers>>
        /\ baseAddress' = BaseIn(input[parsed + 1])
    BY DEF ReadBase, BaseIn
  <1>2. baseAddress' = BaseOf(parsed + 1 + 1)
    <2>1. parsed + 1 \in 1 .. Len(input) /\ input[parsed + 1].recType = BASE
      BY <1>1, NextRecord
    <2> QED
      BY <1>1, <2>1, BaseNext DEF Proper
  <1>3. BASE # DATA /\ eof' = IF BASE = EOF THEN TRUE ELSE eof
    BY <1>1 DEF BASE, DATA, EOF
  <1> QED
    BY <1>1, <1>2, <1>3, ReadOtherKeeps

\* Every record of a well-formed file is understood.
LEMMA NothingBad ==
  ASSUME Proper, FileInv, Parsed
  PROVE  ~ReadBad
  <1> SUFFICES ASSUME ReadBad
               PROVE  FALSE
    OBVIOUS
  <1>1. DOMAIN input = 1 .. Len(input) /\ Len(input) \in Nat
    BY RecordIs DEF Proper
  <1>2. ~eof
    BY DEF ReadBad, Parsing
  <1>3. parsed # Len(input) /\ parsed \in 0 .. Len(input)
    BY <1>2, SMTT(60) DEF Parsed, ParseState, FileInv
  <1>4. parsed < Len(input) /\ parsed + 1 \in DOMAIN input
    <2>1. PICK n \in Nat : n = Len(input)
      BY <1>1
    <2>2. PICK k \in 0 .. n : k = parsed /\ k # n
      BY <1>3, <2>1
    <2>3. k < n /\ k + 1 \in 1 .. n
      BY <2>2
    <2> QED
      BY <1>1, <2>1, <2>2, <2>3, ZenonT(60)
  <1>5. /\ input[parsed + 1].recType \in {DATA, EOF, BASE, START}
        /\ input[parsed + 1].recType = BASE => Len(input[parsed + 1].body) = 2
    BY <1>4 DEF Proper, WellFormed
  <1>6. \/ input[parsed + 1].recType \notin {DATA, EOF, BASE, START}
        \/ input[parsed + 1].recType = BASE /\ Len(input[parsed + 1].body) < 2
    BY <1>4 DEF ReadBad
  <1>7. ~ (2 < 2)
    OBVIOUS
  <1> QED
    BY <1>5, <1>6, <1>7, Zenon

-----------------------------------------------------------------------------
(* The steps after reading *)

Writing == EncodeState(records, buffers, output)

WritingNext ==
    stage' = "encode" /\ EncodeState(records', buffers', output')

LEMMA PatchKeeps ==
  ASSUME Proper, FileInv, Parsed, Patch
  PROVE  WritingNext \/ (stage' = "failed" /\ ~Fits)
  <1>1. /\ parsed = Len(input) /\ Len(input) \in Nat
        /\ RecordsOK(records, parsed)
        /\ SegmentsOK(buffers, parsed) /\ NoneUpdated(buffers)
        /\ output = <<>>
    BY RecordIs DEF Proper, Patch, Parsed, ParseState
  <1>2. AllRecords(records) /\ Loaded(buffers)
    BY <1>1 DEF AllRecords, Loaded
  <1>3. CASE buffers' \in Update(buffers, records) /\ stage' = "encode"
    <2>1. Loaded(buffers') /\ AllUpdated(buffers', 0)
      BY <1>1, <1>2, <1>3, UpdateIs
    <2>2. records' = records /\ output' = <<>>
      BY <1>1 DEF Patch, parserVars
    <2>3. Len(output') = 0
      BY <2>2
    <2>4. AllUpdated(buffers', Frontier(Len(output')))
      BY <2>1, <2>3, FirstFrontier
    <2>5. output' = [i \in 1 .. Len(output') |-> PatchedFile[i]]
      BY <2>2, <2>3
    <2>6. Len(output') \in 0 .. Len(input)
      BY <1>1, <2>3
    <2> QED
      BY <1>2, <1>3, <2>1, <2>2, <2>4, <2>5, <2>6
         DEF WritingNext, EncodeState
  <1>4. CASE Update(buffers, records) = {} /\ stage' = "failed"
    BY <1>1, <1>2, <1>4, UpdateIs
  <1> QED
    BY <1>3, <1>4 DEF Patch

\* The record that comes next.
LEMMA NextToWrite ==
  ASSUME Proper, Writing, Encoding
  PROVE  /\ Len(output) \in Nat /\ Len(output) + 1 \in 1 .. Len(input)
         /\ Len(output) + 1 \in DOMAIN input
         /\ records[Len(output) + 1]
              = Kept(input[Len(output) + 1], ReadOffset(Len(output) + 1))
         /\ records[Len(output) + 1].recType = input[Len(output) + 1].recType
         /\ records[Len(output) + 1].recType = DATA
              <=> Len(output) + 1 \in Data
  <1> DEFINE i == Len(output) + 1
  <1>1. Len(input) \in Nat /\ DOMAIN input = 1 .. Len(input)
    BY RecordIs DEF Proper
  <1>2. RecordsOK(records, Len(input)) /\ Len(output) \in 0 .. Len(input)
    BY DEF Writing, EncodeState, AllRecords
  <1>3. Len(records) = Len(input) /\ Len(output) < Len(records)
    BY <1>2 DEF RecordsOK, Encoding
  <1>4. Len(output) \in Nat /\ i \in 1 .. Len(input)
    <2>0. Len(output) \in Nat
      BY <1>1, <1>2, SMTT(60)
    <2>1. PICK n \in Nat, m \in Nat : n = Len(input) /\ m = Len(output)
      BY <1>1, <2>0
    <2>2. m < n
      BY <1>3, <2>1
    <2>3. m + 1 \in 1 .. n
      BY <2>2
    <2> QED
      BY <2>1, <2>3
  <1>5. records[i] = Kept(input[i], ReadOffset(i))
    BY <1>2, <1>4 DEF RecordsOK
  <1>6. records[i].recType = input[i].recType
    BY <1>5, KeptIs
  <1>7. i \in Data <=> input[i].recType = DATA
    BY <1>1, <1>4 DEF Data
  <1> QED
    BY <1>1, <1>4, <1>5, <1>6, <1>7

LEMMA OutputNext ==
  ASSUME NEW n \in Nat, NEW f, NEW x, NEW out,
         out = [i \in 1 .. n |-> f[i]], x = f[n + 1]
  PROVE  /\ Append(out, x) = [i \in 1 .. n + 1 |-> f[i]]
         /\ Len(Append(out, x)) = n + 1
  <1> DEFINE S == {f[i] : i \in 1 .. n + 1}
  <1>1. out \in Seq(S) /\ x \in S /\ Len(out) = n
    <2>1. n + 1 \in 1 .. n + 1 /\ \A i \in 1 .. n : i \in 1 .. n + 1
      OBVIOUS
    <2>2. out \in [1 .. n -> S]
      BY <2>1
    <2> QED
      BY <2>1, <2>2
  <1> HIDE DEF S
  <1>2. DOMAIN Append(out, x) = 1 .. n + 1 /\ Len(Append(out, x)) = n + 1
    BY <1>1
  <1>3. ASSUME NEW i \in 1 .. n + 1
        PROVE  Append(out, x)[i] = f[i]
    <2>1. CASE i = n + 1
      BY <1>1, <2>1
    <2>2. CASE i \in 1 .. n
      BY <1>1, <2>2
    <2> QED
      BY <2>1, <2>2
  <1>4. Append(out, x) = [i \in 1 .. n + 1 |-> Append(out, x)[i]]
    <2>1. Append(out, x) \in Seq(S)
      BY <1>1
    <2> QED
      BY <1>2, <2>1
  <1> QED
    BY <1>2, <1>3, <1>4

\* One more record is written, and it is the one of PatchedFile.
LEMMA OneMoreWritten ==
  ASSUME Proper, Writing, Encoding, NEW x,
         x = PatchedFile[Len(output) + 1], output' = Append(output, x)
  PROVE  /\ Len(output') = Len(output) + 1
         /\ Len(output') \in 0 .. Len(input)
         /\ output' = [i \in 1 .. Len(output') |-> PatchedFile[i]]
  <1>1. PICK n \in Nat : n = Len(output)
    BY NextToWrite
  <1>2. output = [i \in 1 .. n |-> PatchedFile[i]]
    BY <1>1 DEF Writing, EncodeState
  <1>3. PICK f : f = PatchedFile
    OBVIOUS
  <1>4. output' = [i \in 1 .. n + 1 |-> f[i]] /\ Len(output') = n + 1
    <2>1. output = [i \in 1 .. n |-> f[i]] /\ x = f[n + 1]
      BY <1>1, <1>2, <1>3
    <2>2. /\ Append(output, x) = [i \in 1 .. n + 1 |-> f[i]]
          /\ Len(Append(output, x)) = n + 1
      BY <2>1, OutputNext
    <2> QED
      BY <2>2
  <1>5. n + 1 \in 1 .. Len(input) /\ Len(input) \in Nat
    BY <1>1, NextToWrite, RecordIs DEF Proper
  <1>6. n + 1 \in 0 .. Len(input)
    BY <1>5
  <1> QED
    BY <1>1, <1>3, <1>4, <1>6

LEMMA EncodeDataKeeps ==
  ASSUME Proper, Writing, EncodeData
  PROVE  WritingNext \/ (stage' = "failed" /\ ~Fits)
  <1>1. Encoding
    BY DEF EncodeData
  <1>2. PICK n \in Nat, i \in Nat : n = Len(output) /\ i = n + 1
    <2>1. Len(output) \in Nat /\ Len(output) + 1 \in Nat
      BY <1>1, NextToWrite
    <2> QED
      BY <2>1
  <1>3. PICK r : r = records[i]
    OBVIOUS
  <1>4. PICK read : read = ReadAt(buffers, r.length, r.readOffset)
    OBVIOUS
  <1>5. /\ r.recType = DATA
        /\ \/ /\ read.ok /\ output' = Append(output, Encoded(r, read.p))
              /\ buffers' = read.bufs /\ stage' = stage
           \/ ~read.ok /\ stage' = "failed"
        /\ records' = records
    <2>1. r = records[Len(output) + 1]
      BY <1>2, <1>3
    <2> QED
      BY <1>4, <2>1, Zenon DEF EncodeData, parserVars
  <1>6. i \in Data /\ r = Kept(input[i], ReadOffset(i)) /\ i \in DOMAIN input
    BY <1>1, <1>2, <1>3, <1>5, NextToWrite
  <1>7. r.length = Len(input[i].body) /\ r.readOffset = Place(i)
    BY <1>6, KeptIs DEF ReadOffset
  <1>8. Loaded(buffers) /\ AllUpdated(buffers, Frontier(n))
        /\ AllRecords(records)
    BY <1>2 DEF Writing, EncodeState
  <1>9. /\ read.ok = (Checksum(PatchedBody(i)) = Checksum(input[i].body))
        /\ read.p = PatchedBody(i)
        /\ Loaded(read.bufs) /\ AllUpdated(read.bufs, Frontier(i))
    <2>1. read = ReadAt(buffers, Len(input[i].body), Place(i)) /\ n + 1 = i
      BY <1>2, <1>4, <1>7
    <2>2. AllUpdated(buffers, Frontier(n)) /\ Loaded(buffers) /\ i \in Data
      BY <1>6, <1>8
    <2> QED
      BY <2>1, <2>2, RecordRead
  <1>10. CASE ~read.ok /\ stage' = "failed"
    BY <1>6, <1>9, <1>10 DEF Fits
  <1>11. CASE /\ read.ok /\ output' = Append(output, Encoded(r, read.p))
              /\ buffers' = read.bufs /\ stage' = stage
    <2>1. PICK body \in Seq(Byte) :
             body = PatchedBody(i) /\ Len(body) = Len(input[i].body)
      BY <1>6, <1>8, PatchedBodyType
    <2>2. Encoded(r, body) = [input[i] EXCEPT !.body = body]
      <3>1. Checksum(body) = Checksum(input[i].body)
        BY <1>9, <1>11, <2>1
      <3> QED
        BY <1>6, <2>1, <3>1, EncodedRecord
    <2>3. PatchedFile[i] = [input[i] EXCEPT !.body = PatchedBody(i)]
      BY <1>6 DEF PatchedFile
    <2>4. Encoded(r, read.p) = PatchedFile[i]
      BY <1>9, <2>1, <2>2, <2>3
    <2>5. /\ Len(output') = i /\ Len(output') \in 0 .. Len(input)
          /\ output' = [j \in 1 .. Len(output') |-> PatchedFile[j]]
      BY <1>1, <1>2, <1>11, <2>4, OneMoreWritten
    <2>6. stage' = "encode"
      BY <1>1, <1>11 DEF Encoding
    <2>7. Loaded(buffers') /\ AllUpdated(buffers', Frontier(Len(output')))
          /\ AllRecords(records')
      BY <1>5, <1>8, <1>9, <1>11, <2>5
    <2> QED
      BY <2>5, <2>6, <2>7 DEF WritingNext, EncodeState
  <1> QED
    BY <1>5, <1>10, <1>11

LEMMA EncodeOtherKeeps ==
  ASSUME Proper, Writing, EncodeOther
  PROVE  WritingNext
  <1>1. Encoding
    BY DEF EncodeOther
  <1>2. PICK n \in Nat, i \in Nat : n = Len(output) /\ i = n + 1
    <2>1. Len(output) \in Nat /\ Len(output) + 1 \in Nat
      BY <1>1, NextToWrite
    <2> QED
      BY <2>1
  <1>3. PICK r : r = records[i]
    OBVIOUS
  <1>4. PICK x : x = Encoded(r, IF r.recType = EOF
                                THEN [j \in 1 .. r.length |-> 0] ELSE r.body)
    OBVIOUS
  <1>5. /\ r.recType # DATA /\ output' = Append(output, x)
        /\ records' = records /\ buffers' = buffers /\ stage' = stage
    <2>1. r = records[Len(output) + 1]
      BY <1>2, <1>3
    <2> QED
      BY <1>4, <2>1, Zenon DEF EncodeOther, parserVars
  <1>6. i \notin Data /\ r = Kept(input[i], ReadOffset(i)) /\ i \in DOMAIN input
    BY <1>1, <1>2, <1>3, <1>5, NextToWrite
  <1>7. x = PatchedFile[i]
    <2>1. x = input[i]
      BY <1>4, <1>6, EncodedOther
    <2> QED
      BY <1>6, <2>1 DEF PatchedFile
  <1>8. /\ Len(output') = i /\ Len(output') \in 0 .. Len(input)
        /\ output' = [j \in 1 .. Len(output') |-> PatchedFile[j]]
    BY <1>1, <1>2, <1>5, <1>7, OneMoreWritten
  <1>9. Loaded(buffers') /\ AllUpdated(buffers', Frontier(Len(output')))
        /\ AllRecords(records')
    <2>1. Loaded(buffers) /\ AllUpdated(buffers, Frontier(n))
          /\ AllRecords(records)
      BY <1>2 DEF Writing, EncodeState
    <2>2. Frontier(i) = Frontier(n)
      BY <1>2, <1>6, FrontierStays
    <2> QED
      BY <1>5, <1>8, <2>1, <2>2
  <1>10. stage' = "encode"
    BY <1>1, <1>5 DEF Encoding
  <1> QED
    BY <1>8, <1>9, <1>10 DEF WritingNext, EncodeState

LEMMA FinishKeeps ==
  ASSUME Proper, Writing, Finish
  PROVE  stage' = "done" /\ output' = PatchedFile
  <1>1. Len(output) = Len(records) /\ stage' = "done" /\ output' = output
    BY DEF Finish
  <1>2. Len(records) = Len(input)
    BY DEF Writing, EncodeState, AllRecords, RecordsOK
  <1>3. DOMAIN input = 1 .. Len(input)
    BY RecordIs DEF Proper
  <1>4. output = [i \in DOMAIN input |-> PatchedFile[i]]
    BY <1>1, <1>2, <1>3 DEF Writing, EncodeState
  <1>5. PatchedFile = [i \in DOMAIN input |-> PatchedFile[i]]
    BY DEF PatchedFile
  <1> QED
    BY <1>1, <1>4, <1>5

-----------------------------------------------------------------------------
(* The invariant holds *)

State == ProgramState(stage, eof, baseAddress, outputOffset, records, buffers,
                      output, parsed)

LEMMA InitPatch ==
  ASSUME Init
  PROVE  PatchInv
  <1>1. input \in Inputs /\ parsed = 0 /\ eof = FALSE /\ baseAddress = 0
        /\ outputOffset = 0 /\ records = <<>> /\ buffers = <<>>
        /\ stage = "parse" /\ output = <<>>
    BY DEF Init
  <1>2. FileInv
    <2>1. Len(input) \in Nat
      BY <1>1, RecordIs
    <2> QED
      BY <1>1, <2>1 DEF FileInv
  <1>3. ASSUME WellFormed, ~StartsAtZero
        PROVE  ParseState(FALSE, 0, 0, <<>>, <<>>, <<>>, 0)
    <2>1. Proper
      BY <1>1, <1>3 DEF Proper
    <2>2. 0 # Len(input)
      <3>1. input \in Seq(HexRecord) /\ input # <<>>
        BY <1>1, <1>3, InputsAssumption DEF WellFormed
      <3> QED
        BY <3>1
    <2>3. DataUpTo(0) = {}
      BY <1>1, RecordIs DEF DataUpTo
    <2>4. Compacted(0) = 0
      BY <2>3 DEF Compacted
    <2>5. BaseOf(0 + 1) = 0
      BY FirstBase
    <2>6. RecordsOK(<<>>, 0)
      BY DEF RecordsOK
    <2>7. SegmentsOK(<<>>, 0)
      BY <2>3 DEF SegmentsOK
    <2>8. NoneUpdated(<<>>)
      BY DEF NoneUpdated
    <2> QED
      BY <2>2, <2>4, <2>5, <2>6, <2>7, <2>8 DEF ParseState
  <1>4. ProgramState("parse", FALSE, 0, 0, <<>>, <<>>, <<>>, 0)
    BY <1>3 DEF ProgramState
  <1>5. ProgramState(stage, eof, baseAddress, outputOffset, records, buffers,
                     output, parsed)
    BY <1>1, <1>4
  <1> QED
    BY <1>2, <1>5 DEF PatchInv

LEMMA FileKept ==
  ASSUME FileInv, [Next]_vars
  PROVE  FileInv' /\ input' = input
  <1>1. input \in Inputs /\ Len(input) \in Nat /\ parsed \in 0 .. Len(input)
    BY RecordIs DEF FileInv
  <1>2. /\ input' = input
        /\ parsed' = parsed \/ (parsed < Len(input) /\ parsed' = parsed + 1)
    BY DEF Next, ReadRecord, ReadData, ReadEOF, ReadBase, ReadStart, ReadBad,
           Reading, Accept, Patch, EncodeData, EncodeOther, Finish, vars
  <1>3. parsed' \in 0 .. Len(input)
    BY <1>1, <1>2
  <1> QED
    BY <1>1, <1>2, <1>3 DEF FileInv

LEMMA ParsedNextIs ==
  ASSUME ParsedNext
  PROVE  Primed
  BY DEF ParsedNext, Primed, ProgramState

LEMMA WritingNextIs ==
  ASSUME WritingNext
  PROVE  Primed
  BY DEF WritingNext, Primed, ProgramState

LEMMA FailedIs ==
  ASSUME stage' = "failed", ~Fits
  PROVE  Primed
  BY DEF Primed, ProgramState

LEMMA DoneIs ==
  ASSUME stage' = "done", output' = PatchedFile
  PROVE  Primed
  BY DEF Primed, ProgramState

LEMMA NextPatch ==
  ASSUME PatchInv, [Next]_vars
  PROVE  PatchInv'
  <1>1. FileInv /\ State
    BY DEF PatchInv, State
  <1>2. input \in Inputs /\ input' = input /\ FileInv'
    BY <1>1, FileKept DEF FileInv
  <1>3. Primed
    <2>1. CASE ~ (WellFormed /\ ~StartsAtZero)
      BY <2>1 DEF Primed, ProgramState
    <2>2. CASE WellFormed /\ ~StartsAtZero
      <3>1. Proper
        BY <1>2, <2>2 DEF Proper
      <3>2. stage = "parse" => Parsed
        BY <1>1, <2>2 DEF State, ProgramState, Parsed
      <3>3. stage = "encode" => Writing
        BY <1>1, <2>2 DEF State, ProgramState, Writing
      <3>4. CASE ReadData
        <4>1. Parsed
          BY <3>2, <3>4 DEF ReadData, Reading, Parsing
        <4> QED
          BY <1>1, <3>1, <3>4, <4>1, ReadDataKeeps, ParsedNextIs
      <3>5. CASE ReadEOF
        <4>1. Parsed
          BY <3>2, <3>5 DEF ReadEOF, Reading, Parsing
        <4> QED
          BY <1>1, <3>1, <3>5, <4>1, ReadEOFKeeps, ParsedNextIs
      <3>6. CASE ReadBase
        <4>1. Parsed
          BY <3>2, <3>6 DEF ReadBase, Reading, Parsing
        <4> QED
          BY <1>1, <3>1, <3>6, <4>1, ReadBaseKeeps, ParsedNextIs
      <3>7. CASE ReadStart
        <4>1. Parsed
          BY <3>2, <3>7 DEF ReadStart, Reading, Parsing
        <4> QED
          BY <1>1, <3>1, <3>7, <4>1, ReadStartKeeps, ParsedNextIs
      <3>8. ~ReadBad
        <4>1. ReadBad => Parsed
          BY <3>2 DEF ReadBad, Parsing
        <4> QED
          BY <1>1, <3>1, <4>1, NothingBad
      <3>9. CASE Patch
        <4>1. Parsed
          BY <3>2, <3>9 DEF Patch
        <4> QED
          BY <1>1, <3>1, <3>9, <4>1, PatchKeeps, WritingNextIs, FailedIs
      <3>10. CASE EncodeData
        <4>1. Writing
          BY <3>3, <3>10 DEF EncodeData, Encoding
        <4> QED
          BY <3>1, <3>10, <4>1, EncodeDataKeeps, WritingNextIs, FailedIs
      <3>11. CASE EncodeOther
        <4>1. Writing
          BY <3>3, <3>11 DEF EncodeOther, Encoding
        <4> QED
          BY <3>1, <3>11, <4>1, EncodeOtherKeeps, WritingNextIs
      <3>12. CASE Finish
        <4>1. Writing
          BY <3>3, <3>12 DEF Finish
        <4> QED
          BY <3>1, <3>12, <4>1, FinishKeeps, DoneIs
      <3>13. CASE UNCHANGED vars
        <4>1. /\ stage' = stage /\ eof' = eof /\ baseAddress' = baseAddress
              /\ outputOffset' = outputOffset /\ records' = records
              /\ buffers' = buffers /\ output' = output /\ parsed' = parsed
          BY <3>13 DEF vars, parserVars
        <4> QED
          BY <1>1, <4>1 DEF State, Primed
      <3> QED
        BY <3>4, <3>5, <3>6, <3>7, <3>8, <3>9, <3>10, <3>11, <3>12, <3>13
           DEF Next, ReadRecord
    <2> QED
      BY <2>1, <2>2
  <1> QED
    BY <1>2, <1>3, PrimedIs

\* Reading follows the file record by record, the segments are its memory
\* without a hole between, and what has been handed out of a replacement is
\* what the records that are written have of it.
THEOREM PatchInvariant == Spec => []PatchInv
  <1>1. Init => PatchInv
    BY InitPatch
  <1>2. PatchInv /\ [Next]_vars => PatchInv'
    BY NextPatch
  <1> QED
    BY <1>1, <1>2, PTL DEF Spec

\* What mutateFirmware writes is the file it read with the replacement byte by
\* byte in the place of each certificate, whatever the cuts between records
\* and the holes in memory: every read of ReadAt goes on where the one before
\* stopped, and the checksums stay right.
THEOREM FirmwareImagePatched == Spec => []ImagePatched
  <1>1. PatchInv => ImagePatched
    BY DEF PatchInv, ProgramState, ImagePatched
  <1> QED
    BY <1>1, PatchInvariant, PTL

\* mutateFirmware fails only when a certificate has no replacement for its
\* first slice or the replacement breaks the checksum of a record: no record
\* of a well-formed file is refused, and none is read from a hole.
THEOREM FirmwareFittingIsPatched == Spec => []FittingIsPatched
  <1>1. PatchInv => FittingIsPatched
    BY DEF PatchInv, ProgramState, FittingIsPatched
  <1> QED
    BY <1>1, PatchInvariant, PTL

-----------------------------------------------------------------------------
(* Types, for any file *)

\* A segment of the memory, and a record that ReadRecord keeps.
Stored == [offset : Int, buf : Seq(Byte), update : Updates]
Entries == [length : Nat, offset : 0 .. W * W - 1, recType : Byte,
            readOffset : Int, body : Seq(Byte)]

Ordered(bufs) ==
    \A s, t \in DOMAIN bufs : s < t => bufs[s].offset <= bufs[t].offset

\* No replacement is read past its end.
Fitting(u) == u.nextByte <= Len(u.str)

\* What every step keeps of the segments.
StoredOK(bufs) ==
    /\ bufs \in Seq(Stored)
    /\ \A s \in DOMAIN bufs : Fitting(bufs[s].update)
    /\ Ordered(bufs)

\* TypeOK is not inductive: the records that wait to be encoded and the
\* replacements of the segments have types too.
FirmwareTypeInv ==
    /\ FileInv
    /\ eof \in BOOLEAN /\ baseAddress \in Nat /\ outputOffset \in Int
    /\ records \in Seq(Entries) /\ Len(records) <= parsed
    /\ StoredOK(buffers)
    /\ stage \in {"parse", "encode", "done", "failed"}
    /\ output \in Seq(HexRecord) /\ Len(output) <= Len(records)

LEMMA StoredIs ==
  ASSUME NEW b \in Stored
  PROVE  /\ b.offset \in Int /\ b.buf \in Seq(Byte) /\ b.update \in Updates
         /\ Len(b.buf) \in Nat /\ DOMAIN b.buf = 1 .. Len(b.buf)
         /\ EndOf(b) \in Int /\ EndOf(b) = b.offset + Len(b.buf)
  <1>1. b.offset \in Int /\ b.buf \in Seq(Byte) /\ b.update \in Updates
    BY DEF Stored
  <1>2. Len(b.buf) \in Nat /\ DOMAIN b.buf = 1 .. Len(b.buf)
    BY <1>1
  <1>3. EndOf(b) = b.offset + Len(b.buf)
    BY DEF EndOf
  <1> QED
    BY <1>1, <1>2, <1>3

LEMMA StoredReplaced ==
  ASSUME NEW bufs, StoredOK(bufs), NEW s \in DOMAIN bufs, NEW c \in Stored,
         c.offset = bufs[s].offset, Fitting(c.update),
         NEW bufs2, bufs2 = [bufs EXCEPT ![s] = c]
  PROVE  StoredOK(bufs2)
  <1>1. bufs \in Seq(Stored)
    BY DEF StoredOK
  <1>2. /\ bufs2 \in Seq(Stored) /\ DOMAIN bufs2 = DOMAIN bufs
        /\ bufs2[s] = c
        /\ \A t \in DOMAIN bufs : t # s => bufs2[t] = bufs[t]
    BY <1>1
  <1>3. \A t \in DOMAIN bufs2 : bufs2[t].offset = bufs[t].offset
                                /\ Fitting(bufs2[t].update)
    BY <1>2 DEF StoredOK
  <1>4. Ordered(bufs2)
    BY <1>2, <1>3 DEF StoredOK, Ordered
  <1> QED
    BY <1>2, <1>3, <1>4 DEF StoredOK

\* The sequence r is q with e inserted as its element j.
IsInserted(r, q, j, e) ==
    /\ DOMAIN r = 1 .. Len(q) + 1
    /\ r[j] = e
    /\ \A l \in 1 .. Len(q) + 1 :
          /\ l < j => l \in DOMAIN q /\ r[l] = q[l]
          /\ j < l => l - 1 \in DOMAIN q /\ r[l] = q[l - 1]

LEMMA Inserted ==
  ASSUME NEW S, NEW q \in Seq(S), NEW e \in S, NEW j \in 1 .. Len(q) + 1,
         NEW r, r = InsertAt(q, j, e)
  PROVE  r \in Seq(S) /\ IsInserted(r, q, j, e)
  <1> DEFINE front == SubSeq(q, 1, j - 1)
             back == SubSeq(q, j, Len(q))
             mid == front \o <<e>>
  <1>1. Len(q) \in Nat /\ j \in Nat /\ j > 0 /\ j <= Len(q) + 1
    OBVIOUS
  <1>2. /\ front \in Seq(S) /\ Len(front) = j - 1
        /\ \A l \in 1 .. j - 1 : front[l] = q[l]
    BY <1>1
  <1>3. /\ back \in Seq(S) /\ Len(back) = Len(q) - j + 1
        /\ \A l \in 1 .. Len(q) - j + 1 : back[l] = q[j + l - 1]
    BY <1>1
  <1>4. r = mid \o back
    BY DEF InsertAt
  <1> HIDE DEF front, back
  <1>5. /\ mid \in Seq(S) /\ Len(mid) = j /\ mid[j] = e
        /\ \A l \in 1 .. j - 1 : mid[l] = front[l]
    <2>1. mid \in Seq(S) /\ Len(mid) = j
      BY <1>1, <1>2
    <2>2. mid[j] = e
      BY <1>1, <1>2
    <2>3. \A l \in 1 .. j - 1 : mid[l] = front[l]
      BY <1>1, <1>2
    <2> QED
      BY <2>1, <2>2, <2>3
  <1> HIDE DEF mid
  <1>6. r \in Seq(S) /\ Len(r) = Len(q) + 1
    <2>1. PICK x \in Seq(S), y \in Seq(S) : x = mid /\ y = back
      BY <1>3, <1>5
    <2>2. x \o y \in Seq(S) /\ Len(x \o y) = Len(x) + Len(y)
      OBVIOUS
    <2> QED
      BY <1>1, <1>3, <1>4, <1>5, <2>1, <2>2
  <1>7. \A l \in 1 .. j : r[l] = mid[l]
    BY <1>1, <1>3, <1>4, <1>5
  <1>8. \A l \in 1 .. Len(q) - j + 1 : r[j + l] = back[l]
    BY <1>1, <1>3, <1>4, <1>5
  <1>9. ASSUME NEW l \in 1 .. Len(q) + 1
        PROVE  /\ l < j => l \in DOMAIN q /\ r[l] = q[l]
               /\ j < l => l - 1 \in DOMAIN q /\ r[l] = q[l - 1]
    <2>1. CASE l < j
      <3>1. l \in 1 .. j /\ l \in 1 .. j - 1 /\ l \in DOMAIN q
        BY <1>1, <2>1
      <3> QED
        BY <1>2, <1>5, <1>7, <2>1, <3>1
    <2>2. CASE j < l
      <3>1. PICK k \in 1 .. Len(q) - j + 1 : j + k = l /\ j + k - 1 = l - 1
        <4>1. l - j \in 1 .. Len(q) - j + 1
          BY <1>1, <2>2
        <4> QED
          BY <1>1, <4>1
      <3>2. r[l] = q[l - 1]
        BY <1>3, <1>8, <3>1
      <3>3. l - 1 \in DOMAIN q
        BY <1>1, <2>2
      <3> QED
        BY <1>1, <2>2, <3>2, <3>3
    <2> QED
      BY <1>1, <2>1, <2>2
  <1>10. r[j] = e
    BY <1>1, <1>5, <1>7
  <1>11. DOMAIN r = 1 .. Len(q) + 1
    BY <1>6
  <1> QED
    BY <1>6, <1>9, <1>10, <1>11 DEF IsInserted

\* sort.Slice keeps the segments in the order of their offsets.
LEMMA WriteAtStored ==
  ASSUME NEW bufs, StoredOK(bufs), NEW p \in Seq(Byte), NEW off \in Int,
         NEW bufs2 \in WriteAt(bufs, p, off)
  PROVE  StoredOK(bufs2)
  <1> DEFINE ending == {s \in DOMAIN bufs : EndOf(bufs[s]) = off}
             new == [offset |-> off, buf |-> p, update |-> NoUpdate]
  <1>1. bufs \in Seq(Stored) /\ DOMAIN bufs = 1 .. Len(bufs) /\ Len(bufs) \in Nat
    BY DEF StoredOK
  <1>2. CASE ending # {}
    <2>1. PICK s \in DOMAIN bufs : s = Min(ending)
      <3>1. ending \subseteq Nat
        BY <1>1
      <3> QED
        BY <1>2, <3>1, MinIs
    <2>2. bufs2 = [bufs EXCEPT ![Min(ending)].buf = @ \o p]
      BY <1>2, Zenon DEF WriteAt
    <2>3. PICK c : c = [bufs[s] EXCEPT !.buf = @ \o p]
      OBVIOUS
    <2>4. bufs2 = [bufs EXCEPT ![s] = c]
      BY <2>1, <2>2, <2>3
    <2>5. bufs[s] \in Stored /\ Fitting(bufs[s].update)
      BY <1>1 DEF StoredOK
    <2>6. bufs[s].buf \o p \in Seq(Byte)
      BY <2>5, StoredIs
    <2>7. c \in Stored /\ c.offset = bufs[s].offset /\ c.update = bufs[s].update
      BY <2>3, <2>5, <2>6 DEF Stored
    <2> QED
      BY <2>4, <2>5, <2>7, StoredReplaced
  <1>3. CASE ending = {}
    <2>1. PICK j \in 1 .. Len(bufs) + 1 :
             /\ bufs2 = InsertAt(bufs, j, new)
             /\ \A l \in 1 .. j - 1 : bufs[l].offset <= off
             /\ \A l \in j .. Len(bufs) : bufs[l].offset >= off
      BY <1>3, Zenon DEF WriteAt
    <2>2. new \in Stored /\ Fitting(new.update) /\ new.offset = off
      BY DEF Stored, NoUpdate, Updates, Fitting
    <2> HIDE DEF new
    <2>3. /\ bufs2 \in Seq(Stored) /\ DOMAIN bufs2 = 1 .. Len(bufs) + 1
          /\ bufs2[j] = new
          /\ \A l \in 1 .. Len(bufs) + 1 :
                /\ l < j => l \in DOMAIN bufs /\ bufs2[l] = bufs[l]
                /\ j < l => l - 1 \in DOMAIN bufs /\ bufs2[l] = bufs[l - 1]
      <3>1. bufs \in Seq(Stored) /\ new \in Stored
            /\ bufs2 = InsertAt(bufs, j, new)
        BY <1>1, <2>1, <2>2
      <3>2. bufs2 \in Seq(Stored) /\ IsInserted(bufs2, bufs, j, new)
        BY <3>1, Inserted
      <3> QED
        BY <3>2 DEF IsInserted
    <2>4. ASSUME NEW l \in DOMAIN bufs2
          PROVE  Fitting(bufs2[l].update)
      <3>1. l < j \/ l = j \/ j < l
        BY <1>1, <2>3
      <3> QED
        BY <2>2, <2>3, <3>1 DEF StoredOK
    <2>5. \A l \in DOMAIN bufs2 : bufs2[l].offset \in Int
      BY <2>3, StoredIs
    <2>6. \A l \in DOMAIN bufs2 : l < j => bufs2[l].offset <= off
      <3> SUFFICES ASSUME NEW l \in DOMAIN bufs2, l < j
                   PROVE  bufs2[l].offset <= off
        OBVIOUS
      <3>1. l \in 1 .. j - 1
        BY <1>1, <2>3
      <3> QED
        BY <2>1, <2>3, <3>1
    <2>7. \A l \in DOMAIN bufs2 : j < l => off <= bufs2[l].offset
      <3> SUFFICES ASSUME NEW l \in DOMAIN bufs2, j < l
                   PROVE  off <= bufs2[l].offset
        OBVIOUS
      <3>1. l - 1 \in j .. Len(bufs)
        BY <1>1, <2>3
      <3>2. bufs[l - 1].offset >= off /\ bufs2[l] = bufs[l - 1]
        BY <2>1, <2>3, <3>1
      <3>3. bufs2[l].offset \in Int
        BY <2>5
      <3> QED
        BY <3>2, <3>3
    <2>8. Ordered(bufs2)
      <3> SUFFICES ASSUME NEW l \in DOMAIN bufs2, NEW m \in DOMAIN bufs2, l < m
                   PROVE  bufs2[l].offset <= bufs2[m].offset
        BY DEF Ordered
      <3>1. l \in Int /\ m \in Int /\ j \in Int
        BY <1>1, <2>3
      <3>2. CASE m < j
        <4>1. l < j /\ l \in DOMAIN bufs /\ m \in DOMAIN bufs
          BY <2>3, <3>1, <3>2
        <4> QED
          BY <2>3, <3>2, <4>1 DEF StoredOK, Ordered
      <3>3. CASE j < l
        <4>1. j < m /\ l - 1 \in DOMAIN bufs /\ m - 1 \in DOMAIN bufs
              /\ l - 1 < m - 1
          BY <2>3, <3>1, <3>3
        <4>2. bufs[l - 1].offset <= bufs[m - 1].offset
          BY <4>1 DEF StoredOK, Ordered
        <4> QED
          BY <2>3, <3>3, <4>1, <4>2
      <3>4. CASE l <= j /\ j <= m
        <4>1. bufs2[l].offset <= off
          BY <2>2, <2>3, <2>6, <3>1, <3>4
        <4>2. off <= bufs2[m].offset
          BY <2>2, <2>3, <2>7, <3>1, <3>4
        <4> QED
          BY <2>5, <4>1, <4>2
      <3> QED
        BY <3>1, <3>2, <3>3, <3>4
    <2> QED
      BY <2>3, <2>4, <2>8 DEF StoredOK
  <1> QED
    BY <1>2, <1>3

-----------------------------------------------------------------------------

LEMMA IndexType ==
  ASSUME NEW v, NEW q
  PROVE  Index(v, q) \in Nat \cup {-1}
  <1>1. Occurrences(v, q) \subseteq Nat
    BY DEF Occurrences
  <1>2. CASE Occurrences(v, q) = {}
    BY <1>2 DEF Index
  <1>3. CASE Occurrences(v, q) # {}
    <2>1. Min(Occurrences(v, q)) \in Nat
      BY <1>1, <1>3, MinIs
    <2> QED
      BY <1>3, <2>1 DEF Index
  <1> QED
    BY <1>2, <1>3

LEMMA UpdatedStored ==
  ASSUME NEW b \in Stored, Fitting(b.update), NEW recs,
         NEW c \in UpdatedBuffer(b, recs)
  PROVE  c \in Stored /\ c.offset = b.offset /\ Fitting(c.update)
  <1> DEFINE begin == Index(b.buf, SearchBegin)
             end == Index(SubSeq(b.buf, begin + 1, Len(b.buf)), SearchEnd)
             first == FirstSliceLen(b.offset + begin, recs)
             u == [begin |-> begin, length |-> end + Len(SearchEnd),
                   str |-> FoundCerts[first], nextByte |-> 0]
  <1>1. UpdatedBuffer(b, recs) = IF begin = -1 THEN {b}
                  ELSE IF first \notin DOMAIN FoundCerts THEN {}
                  ELSE {[b EXCEPT !.update = u]}
    BY Zenon DEF UpdatedBuffer
  <1>2. PICK i \in Nat \cup {-1}, e \in Nat \cup {-1} : i = begin /\ e = end
    BY IndexType
  <1>3. PICK z \in Nat : z = Len(SearchEnd) /\ z > 0
    BY SoughtIs DEF Sought
  <1> HIDE DEF begin, end, first
  <1>4. CASE c = b
    BY <1>4
  <1>5. CASE begin # -1 /\ first \in DOMAIN FoundCerts
             /\ c = [b EXCEPT !.update = u]
    <2>1. begin \in Nat /\ end + Len(SearchEnd) \in Nat
      BY <1>2, <1>3, <1>5
    <2>2. FoundCerts[first] \in Seq(Byte)
      BY <1>5, FoundCertsAssumption DEF Byte
    <2>3. u \in Updates /\ Fitting(u)
      BY <2>1, <2>2 DEF Updates, Fitting
    <2> HIDE DEF u
    <2> QED
      BY <1>5, <2>3 DEF Stored
  <1> QED
    BY <1>1, <1>4, <1>5

LEMMA UpdateStored ==
  ASSUME NEW bufs, StoredOK(bufs), NEW recs, NEW bufs2 \in Update(bufs, recs)
  PROVE  StoredOK(bufs2)
  <1> DEFINE updated == [s \in DOMAIN bufs |-> UpdatedBuffer(bufs[s], recs)]
  <1>1. bufs \in Seq(Stored) /\ DOMAIN bufs = 1 .. Len(bufs) /\ Len(bufs) \in Nat
    BY DEF StoredOK
  <1>2. Update(bufs, recs)
          = IF \E s \in DOMAIN bufs : updated[s] = {} THEN {}
            ELSE {[s \in DOMAIN bufs |-> CHOOSE b \in updated[s] : TRUE]}
    BY Zenon DEF Update
  <1>3. ASSUME NEW s \in DOMAIN bufs
        PROVE  bufs2[s] \in updated[s] /\ DOMAIN bufs2 = DOMAIN bufs
    <2>1. updated[s] # {}
      BY <1>2
    <2> HIDE DEF updated
    <2>2. bufs2 = [t \in DOMAIN bufs |-> CHOOSE b \in updated[t] : TRUE]
      BY <1>2
    <2>3. bufs2[s] = CHOOSE b \in updated[s] : TRUE
      BY <2>2
    <2> QED
      BY <2>1, <2>2, <2>3
  <1>4. ASSUME NEW s \in DOMAIN bufs
        PROVE  /\ bufs2[s] \in Stored /\ bufs2[s].offset = bufs[s].offset
               /\ Fitting(bufs2[s].update)
    <2>1. bufs2[s] \in UpdatedBuffer(bufs[s], recs)
      BY <1>3
    <2>2. bufs[s] \in Stored /\ Fitting(bufs[s].update)
      BY <1>1 DEF StoredOK
    <2> QED
      BY <2>1, <2>2, UpdatedStored
  <1>5. bufs2 = [s \in DOMAIN bufs |-> bufs2[s]]
    <2> HIDE DEF updated
    <2>1. bufs2 = [t \in DOMAIN bufs |-> CHOOSE b \in updated[t] : TRUE]
      BY <1>2
    <2> QED
      BY <2>1
  <1>6. bufs2 \in Seq(Stored) /\ DOMAIN bufs2 = DOMAIN bufs
    <2>1. bufs2 \in [1 .. Len(bufs) -> Stored]
      BY <1>1, <1>4, <1>5
    <2> QED
      BY <1>1, <2>1
  <1> QED
    BY <1>4, <1>6 DEF StoredOK, Ordered

-----------------------------------------------------------------------------
(* What is read *)

LEMMA WithCursor ==
  ASSUME NEW u \in Updates, NEW n \in Nat
  PROVE  /\ [u EXCEPT !.nextByte = n] \in Updates
         /\ [u EXCEPT !.nextByte = n].nextByte = n
         /\ [u EXCEPT !.nextByte = n].str = u.str
  BY DEF Updates

LEMMA PatchedType ==
  ASSUME NEW raw \in Seq(Byte), NEW u \in Updates, Fitting(u), NEW o \in Nat,
         NEW patch, patch = Patched(raw, u, o)
  PROVE  /\ patch.ok \in BOOLEAN
         /\ patch.data \in Seq(Byte) /\ Len(patch.data) = Len(raw)
         /\ patch.update \in Updates /\ Fitting(patch.update)
  <1> DEFINE left == Maximum(o, u.begin)
             right == Minimum(o + Len(raw), u.begin + u.length)
             n == Minimum(right - left, Len(u.str) - u.nextByte)
             data == [j \in DOMAIN raw |->
                         IF left - o < j /\ j <= left - o + n
                         THEN u.str[u.nextByte + j - (left - o)] ELSE raw[j]]
             moved == [u EXCEPT !.nextByte = @ + n]
  <1>1. patch = IF left < right
                THEN [ok |-> Checksum(data) = Checksum(raw), data |-> data,
                      update |-> moved]
                ELSE [ok |-> TRUE, data |-> raw, update |-> u]
    BY Zenon DEF Patched
  <1>2. PICK b \in Nat, m \in Nat, c \in Nat, z \in Nat, l \in Nat :
           /\ b = u.begin /\ m = u.length /\ c = u.nextByte /\ z = Len(u.str)
           /\ l = Len(raw) /\ c <= z
    <2>1. u.begin \in Nat /\ u.length \in Nat /\ u.nextByte \in Nat
          /\ u.str \in Seq(Byte)
      BY DEF Updates
    <2>2. Len(u.str) \in Nat /\ Len(raw) \in Nat
      BY <2>1
    <2> QED
      BY <2>1, <2>2 DEF Fitting
  <1>3. u.str \in Seq(Byte) /\ DOMAIN raw = 1 .. l
    BY <1>2 DEF Updates
  <1>4. CASE ~(left < right)
    BY <1>1, <1>4
  <1>5. CASE left < right
    <2>1. PICK lo \in Int, k \in Int :
             lo = left - o /\ k = n /\ k >= 0 /\ k <= z - c
      <3>1. left \in Int /\ right \in Int
        BY <1>2 DEF Maximum, Minimum
      <3>2. PICK x \in Int, y \in Int : x = left /\ y = right /\ x < y
        BY <1>5, <3>1
      <3> HIDE DEF left, right
      <3>3. n = Minimum(y - x, z - c)
        BY <1>2, <3>2
      <3>4. PICK k \in Int : k = Minimum(y - x, z - c) /\ k >= 0 /\ k <= z - c
        BY <1>2, <3>2 DEF Minimum
      <3>5. x - o \in Int /\ x - o = left - o
        BY <3>2
      <3> HIDE DEF n
      <3> QED
        BY <3>3, <3>4, <3>5
    <2>2. k \in Nat /\ c + k \in Nat /\ c + k <= z
      <3>1. k >= 0 /\ k <= z - c
        BY <2>1
      <3> QED
        BY <3>1
    <2> HIDE DEF left, right, n
    <2>3. ASSUME NEW j \in DOMAIN raw
          PROVE  data[j] \in Byte
      <3>1. CASE left - o < j /\ j <= left - o + n
        <4>1. c + j - lo \in 1 .. z
          <5>1. PICK h \in Int : h = j /\ lo < h /\ h <= lo + k
            BY <1>3, <2>1, <3>1
          <5>2. c + h - lo \in 1 .. z
            BY <2>1, <5>1
          <5> QED
            BY <5>1, <5>2
        <4>2. u.str[c + j - lo] \in Byte
          BY <1>2, <1>3, <4>1
        <4>3. data[j] = u.str[u.nextByte + j - (left - o)]
          BY <3>1
        <4> QED
          BY <1>2, <2>1, <4>2, <4>3
      <3>2. CASE ~(left - o < j /\ j <= left - o + n)
        BY <3>2
      <3> QED
        BY <3>1, <3>2
    <2>4. data \in Seq(Byte) /\ Len(data) = l
      <3>1. data \in [1 .. l -> Byte]
        <4> HIDE DEF data
        <4>1. DOMAIN data = DOMAIN raw /\ data = [j \in DOMAIN raw |-> data[j]]
          BY DEF data
        <4> QED
          BY <1>3, <2>3, <4>1
      <3> HIDE DEF data
      <3> QED
        BY <3>1
    <2>5. moved \in Updates /\ Fitting(moved)
      <3>1. moved = [u EXCEPT !.nextByte = c + k]
        BY <1>2, <2>1
      <3> QED
        BY <1>2, <2>2, <3>1, WithCursor, ZenonT(60) DEF Fitting
    <2> HIDE DEF data, moved
    <2> QED
      BY <1>1, <1>2, <1>5, <2>4, <2>5
  <1> QED
    BY <1>4, <1>5

\* What ReadAt carries from piece to piece of a read of n bytes.
Readings(n) == [ok : BOOLEAN, whole : BOOLEAN, served : 0 .. n,
                p : Seq(Byte), bufs : Seq(Stored)]

ReadingOK(read, n) ==
    read \in Readings(n) /\ Len(read.p) = n /\ StoredOK(read.bufs)

LEMMA HoldingIs ==
  ASSUME NEW bufs, StoredOK(bufs), NEW at \in Int, Holding(bufs, at) # {}
  PROVE  /\ Max(Holding(bufs, at)) \in DOMAIN bufs
         /\ bufs[Max(Holding(bufs, at))].offset <= at
         /\ at < EndOf(bufs[Max(Holding(bufs, at))])
  <1>1. DOMAIN bufs = 1 .. Len(bufs) /\ Len(bufs) \in Nat
    BY DEF StoredOK
  <1>2. Holding(bufs, at) \subseteq 0 .. Len(bufs)
    BY <1>1 DEF Holding
  <1>3. Max(Holding(bufs, at)) \in Holding(bufs, at)
    BY <1>1, <1>2, MaxIs
  <1> QED
    BY <1>3 DEF Holding

LEMMA PieceOK ==
  ASSUME NEW n \in Nat, NEW off \in Int, NEW read, ReadingOK(read, n)
  PROVE  ReadingOK(Piece(read, off), n)
  <1> DEFINE at == off + read.served
             left == Len(read.p) - read.served
             i == Max(Holding(read.bufs, at))
             b == read.bufs[i]
             o == at - b.offset
             len == Minimum(left, Len(b.buf) - o)
             raw == [j \in 1 .. left |->
                        IF j <= len THEN b.buf[o + j]
                        ELSE read.p[read.served + j]]
             patch == Patched(raw, b.update, o)
             next == [ok |-> patch.ok, whole |-> len = left,
                      served |-> read.served + len,
                      p |-> SubSeq(read.p, 1, read.served) \o patch.data,
                      bufs |-> [read.bufs EXCEPT ![i].update = patch.update]]
  <1>1. Piece(read, off) =
          IF ~read.ok \/ read.whole THEN read
          ELSE IF Holding(read.bufs, at) = {} THEN [read EXCEPT !.ok = FALSE]
          ELSE next
    BY Zenon DEF Piece
  <1>2. /\ read.served \in 0 .. n /\ read.p \in Seq(Byte) /\ Len(read.p) = n
        /\ read.bufs \in Seq(Stored) /\ StoredOK(read.bufs)
    BY DEF ReadingOK, Readings
  <1>3. ReadingOK([read EXCEPT !.ok = FALSE], n)
    BY DEF ReadingOK, Readings
  <1>4. ASSUME Holding(read.bufs, at) # {}
        PROVE  ReadingOK(next, n)
    <2>1. PICK s \in 0 .. n : s = read.served
      BY <1>2
    <2>2. at \in Int
      BY <2>1
    <2>3. PICK t \in DOMAIN read.bufs :
             t = i /\ read.bufs[t].offset <= at /\ at < EndOf(read.bufs[t])
      BY <1>2, <1>4, <2>2, HoldingIs
    <2>4. b \in Stored /\ Fitting(b.update)
      BY <1>2, <2>3 DEF StoredOK
    <2>5. PICK z \in Nat, w \in Nat, e \in Int :
             /\ e = b.offset /\ z = Len(b.buf) /\ w = o /\ w < z
             /\ b.buf \in Seq(Byte)
      <3>1. /\ b.offset \in Int /\ Len(b.buf) \in Nat /\ b.buf \in Seq(Byte)
            /\ EndOf(b) = b.offset + Len(b.buf)
        BY <2>4, StoredIs
      <3>2. b.offset <= at /\ at < EndOf(b)
        BY <2>3
      <3>3. PICK a \in Int, f \in Int, y \in Nat :
               a = at /\ f = b.offset /\ y = Len(b.buf)
        BY <2>2, <3>1
      <3>4. f <= a /\ a < f + y
        BY <3>1, <3>2, <3>3
      <3>5. a - f \in Nat /\ a - f < y
        BY <3>4
      <3> QED
        BY <3>1, <3>3, <3>5
    <2>6. PICK l \in Nat, d \in Nat :
             l = left /\ l = n - s /\ d = len /\ d <= l /\ d <= z - w
      <3>1. left = n - s /\ n - s \in Nat
        BY <1>2, <2>1
      <3>2. PICK y \in Nat : y = n - s
        BY <3>1
      <3>3. len = Minimum(y, z - w)
        BY <2>5, <3>1, <3>2
      <3>4. len \in Nat /\ len <= y /\ len <= z - w
        BY <2>5, <3>3, SMTT(60) DEF Minimum
      <3> QED
        BY <3>1, <3>2, <3>4
    <2> HIDE DEF at, left, len, i, o
    <2>7. raw \in Seq(Byte) /\ Len(raw) = l
      <3>1. ASSUME NEW j \in 1 .. l
            PROVE  raw[j] \in Byte
        <4>1. CASE j <= d
          <5>1. w + j \in 1 .. z
            BY <2>5, <2>6, <4>1
          <5>2. b.buf[w + j] \in Byte
            BY <2>5, <5>1
          <5> QED
            BY <2>5, <2>6, <4>1, <5>2
        <4>2. CASE ~(j <= d)
          <5>1. s + j \in 1 .. n
            BY <2>6
          <5>2. read.p[s + j] \in Byte
            BY <1>2, <5>1
          <5> QED
            BY <2>1, <2>6, <4>2, <5>2
        <4> QED
          BY <4>1, <4>2
      <3>2. raw = [j \in 1 .. l |-> raw[j]]
        BY <2>6
      <3> HIDE DEF raw
      <3> QED
        BY <3>1, <3>2
    <2> HIDE DEF raw
    <2>8. /\ patch.ok \in BOOLEAN
          /\ patch.data \in Seq(Byte) /\ Len(patch.data) = l
          /\ patch.update \in Updates /\ Fitting(patch.update)
      <3>1. b.update \in Updates /\ o \in Nat
        BY <2>4, <2>5, StoredIs
      <3> HIDE DEF b
      <3>2. PICK u \in Updates, v \in Nat : u = b.update /\ v = o /\ Fitting(u)
        BY <2>4, <3>1
      <3>3. patch = Patched(raw, u, v)
        BY <3>2
      <3> QED
        BY <2>7, <3>2, <3>3, PatchedType
    <2>9. PICK c : c = [b EXCEPT !.update = patch.update]
      OBVIOUS
    <2>10. c \in Stored /\ c.offset = b.offset /\ Fitting(c.update)
      <3> HIDE DEF patch, b
      <3> QED
        BY <2>4, <2>8, <2>9 DEF Stored
    <2>11. StoredOK(next.bufs) /\ next.bufs \in Seq(Stored)
      <3>1. next.bufs = [read.bufs EXCEPT ![t] = c]
        BY <2>3, <2>9
      <3>2. b = read.bufs[t]
        BY <2>3
      <3> HIDE DEF next, b
      <3>3. StoredOK(next.bufs)
        BY <1>2, <2>10, <3>1, <3>2, StoredReplaced, SMTT(60)
      <3> QED
        BY <3>3 DEF StoredOK
    <2>12. next.p \in Seq(Byte) /\ Len(next.p) = n
      <3>1. PICK x \in Seq(Byte), y \in Seq(Byte) :
               /\ x = SubSeq(read.p, 1, read.served) /\ y = patch.data
               /\ Len(x) = s /\ Len(y) = l
        <4>1. SubSeq(read.p, 1, s) \in Seq(Byte) /\ Len(SubSeq(read.p, 1, s)) = s
          BY <1>2
        <4> HIDE DEF patch
        <4> QED
          BY <2>1, <2>8, <4>1
      <3>2. x \o y \in Seq(Byte) /\ Len(x \o y) = Len(x) + Len(y)
        OBVIOUS
      <3>3. next.p = x \o y
        BY <3>1
      <3>4. s + l = n
        BY <2>6
      <3> HIDE DEF next
      <3> QED
        BY <3>1, <3>2, <3>3, <3>4
    <2>13. next.served \in 0 .. n
      BY <2>1, <2>6
    <2>14. next.ok \in BOOLEAN /\ next.whole \in BOOLEAN
      BY <2>8
    <2>15. next = [ok |-> next.ok, whole |-> next.whole, served |-> next.served,
                   p |-> next.p, bufs |-> next.bufs]
      OBVIOUS
    <2> HIDE DEF next
    <2> QED
      BY <2>11, <2>12, <2>13, <2>14, <2>15 DEF ReadingOK, Readings
  <1> HIDE DEF next, at
  <1> QED
    BY <1>1, <1>3, <1>4

\* The first m pieces of such a read.
IsRun(f, bufs, n, off, m) ==
    f = [k \in 0 .. m |->
            IF k = 0 THEN Unread(bufs, n) ELSE Piece(f[k - 1], off)]

LEMMA RunsExist ==
  ASSUME NEW bufs, NEW n \in Nat, NEW off
  PROVE  \A m \in Nat : \E f : IsRun(f, bufs, n, off, m)
  <1> DEFINE Fine == {m \in Nat : \E f : IsRun(f, bufs, n, off, m)}
  <1>1. 0 \in Fine
    <2>1. IsRun([k \in 0 .. 0 |-> Unread(bufs, n)], bufs, n, off, 0)
      BY DEF IsRun
    <2> QED
      BY <2>1
  <1>2. ASSUME NEW m \in Nat, m \in Fine
        PROVE  m + 1 \in Fine
    <2>1. PICK g : IsRun(g, bufs, n, off, m)
      BY <1>2
    <2> DEFINE h == [k \in 0 .. m + 1 |->
                        IF k = m + 1 THEN Piece(g[m], off) ELSE g[k]]
    <2>2. ASSUME NEW k \in 0 .. m + 1
          PROVE  h[k] = IF k = 0 THEN Unread(bufs, n) ELSE Piece(h[k - 1], off)
      <3>1. CASE k = m + 1
        <4>1. k # 0 /\ k - 1 = m /\ m \in 0 .. m + 1 /\ m # m + 1
          BY <3>1
        <4>2. h[k] = Piece(g[m], off) /\ h[k - 1] = g[m]
          BY <3>1, <4>1
        <4> QED
          BY <4>1, <4>2
      <3>2. CASE k # m + 1
        <4>1. k \in 0 .. m /\ h[k] = g[k]
          BY <3>2
        <4>2. k # 0 => h[k - 1] = g[k - 1]
          BY <3>2
        <4>3. g[k] = IF k = 0 THEN Unread(bufs, n) ELSE Piece(g[k - 1], off)
          BY <2>1, <4>1 DEF IsRun
        <4> QED
          BY <4>1, <4>2, <4>3
      <3> QED
        BY <3>1, <3>2
    <2>3. h = [k \in 0 .. m + 1 |-> h[k]]
      OBVIOUS
    <2> HIDE DEF h
    <2>4. IsRun(h, bufs, n, off, m + 1)
      BY <2>2, <2>3, Zenon DEF IsRun
    <2> QED
      BY <2>4
  <1> HIDE DEF Fine
  <1>3. Nat \subseteq Fine
    BY <1>1, <1>2, AllNumbers
  <1> QED
    BY <1>3 DEF Fine

LEMMA ReadsAre ==
  ASSUME NEW bufs, NEW n \in Nat, NEW off
  PROVE  \A k \in 0 .. n + 1 :
            Reads(bufs, n, off)[k]
              = IF k = 0 THEN Unread(bufs, n)
                ELSE Piece(Reads(bufs, n, off)[k - 1], off)
  <1>1. PICK m \in Nat : m = n + 1
    OBVIOUS
  <1>2. \E f : IsRun(f, bufs, n, off, n + 1)
    BY <1>1, RunsExist
  <1>3. IsReads(CHOOSE f : IsReads(f, bufs, n, off), bufs, n, off)
    BY <1>2, Zenon DEF IsRun, IsReads
  <1>4. PICK f : f = Reads(bufs, n, off)
    OBVIOUS
  <1>5. IsReads(f, bufs, n, off)
    BY <1>3, <1>4, ReadsAreChosen
  <1>6. \A k \in 0 .. n + 1 :
           f[k] = IF k = 0 THEN Unread(bufs, n) ELSE Piece(f[k - 1], off)
    BY <1>5 DEF IsReads
  <1> QED
    BY <1>4, <1>6

\* ReadAt leaves the segments in their order, and no replacement is read past
\* its end.
LEMMA ReadStored ==
  ASSUME NEW bufs, StoredOK(bufs), NEW n \in Nat, NEW off \in Int,
         NEW read, read = ReadAt(bufs, n, off)
  PROVE  read.p \in Seq(Byte) /\ StoredOK(read.bufs)
  <1>1. PICK f : f = Reads(bufs, n, off)
    OBVIOUS
  <1>2. \A k \in 0 .. n + 1 :
           f[k] = IF k = 0 THEN Unread(bufs, n) ELSE Piece(f[k - 1], off)
    BY <1>1, ReadsAre
  <1> DEFINE Fine == {k \in Nat : k <= n + 1 => ReadingOK(f[k], n)}
  <1>3. 0 \in Fine
    <2>1. ReadingOK(Unread(bufs, n), n)
      <3>1. PICK p : p = [j \in 1 .. n |-> 0]
        OBVIOUS
      <3>2. p \in Seq(Byte) /\ Len(p) = n
        BY <3>1, ByteAssumption DEF Byte
      <3>3. Unread(bufs, n) = [ok |-> TRUE, whole |-> FALSE, served |-> 0,
                               p |-> p, bufs |-> bufs]
        BY <3>1 DEF Unread
      <3>4. bufs \in Seq(Stored) /\ 0 \in 0 .. n
        BY DEF StoredOK
      <3> QED
        BY <3>2, <3>3, <3>4 DEF ReadingOK, Readings
    <2>2. f[0] = Unread(bufs, n)
      BY <1>2
    <2> QED
      BY <2>1, <2>2
  <1>4. ASSUME NEW k \in Nat, k \in Fine
        PROVE  k + 1 \in Fine
    <2>1. CASE k + 1 <= n + 1
      <3>1. k + 1 \in 0 .. n + 1 /\ k + 1 - 1 = k /\ k + 1 # 0 /\ k <= n + 1
        BY <2>1
      <3>2. f[k + 1] = Piece(f[k], off)
        BY <1>2, <3>1
      <3>3. ReadingOK(f[k], n)
        BY <1>4, <3>1
      <3>4. ReadingOK(f[k + 1], n)
        BY <3>2, <3>3, PieceOK
      <3> QED
        BY <3>4
    <2>2. CASE ~(k + 1 <= n + 1)
      BY <2>2
    <2> QED
      BY <2>1, <2>2
  <1> HIDE DEF Fine
  <1>5. Nat \subseteq Fine
    BY <1>3, <1>4, AllNumbers
  <1>6. ReadingOK(f[n + 1], n)
    BY <1>5 DEF Fine
  <1>7. read = f[n + 1]
    BY <1>1 DEF ReadAt
  <1> QED
    BY <1>6, <1>7 DEF ReadingOK, Readings

-----------------------------------------------------------------------------
(* The types of the steps *)

LEMMA ChecksumType ==
  ASSUME NEW offset \in 0 .. W * W - 1, NEW type \in Byte, NEW body \in Seq(Byte)
  PROVE  RecordChecksum(offset, type, body) \in Byte
  <1>1. PICK w \in Nat : w = W /\ w > 0
    BY ByteIs
  <1>2. offset \in Int /\ type \in Int
    BY ByteIs
  <1>3. PICK hi \in Int, lo \in Int : hi = offset \div W /\ lo = offset % W
    <2>1. PICK o \in Int : o = offset
      BY <1>2
    <2>2. o \div w \in Int /\ o % w \in Int
      BY <1>1, QuotientOf
    <2> QED
      BY <1>1, <2>1, <2>2
  <1>4. PICK l \in Int, s \in Int, t \in Int :
           l = Len(body) /\ s = Sum(body) /\ t = type
    BY <1>2, SumType
  <1>5. PICK x \in Int : x = l + hi + lo + t + s
    OBVIOUS
  <1>6. Complement(x) \in Byte
    BY ComplementOf
  <1>7. RecordChecksum(offset, type, body) = Complement(x)
    BY <1>3, <1>4, <1>5, Zenon DEF RecordChecksum
  <1> QED
    BY <1>6, <1>7

LEMMA EncodedType ==
  ASSUME NEW r \in Entries, NEW body \in Seq(Byte)
  PROVE  Encoded(r, body) \in HexRecord
  <1>1. r.offset \in 0 .. W * W - 1 /\ r.recType \in Byte
    BY DEF Entries
  <1>2. RecordChecksum(r.offset, r.recType, body) \in Byte
    BY <1>1, ChecksumType
  <1> QED
    BY <1>1, <1>2 DEF Encoded, HexRecord

LEMMA KeptType ==
  ASSUME NEW r \in HexRecord, NEW o \in Int
  PROVE  Kept(r, o) \in Entries
  <1>1. /\ r.offset \in 0 .. W * W - 1 /\ r.recType \in Byte
        /\ r.body \in Seq(Byte)
    BY DEF HexRecord
  <1>2. Len(r.body) \in Nat
    BY <1>1
  <1>3. (IF r.recType \in {BASE, START} THEN r.body ELSE <<>>) \in Seq(Byte)
    BY <1>1
  <1> QED
    BY <1>1, <1>2, <1>3 DEF Kept, Entries

\* What any kind of record does.
LEMMA AcceptType ==
  ASSUME FirmwareTypeInv, NEW type, Reading(type), NEW o \in Int,
         Accept(input[parsed + 1], o)
  PROVE  /\ FileInv' /\ records' \in Seq(Entries) /\ Len(records') <= parsed'
         /\ stage' \in {"parse", "failed"}
         /\ output' = output /\ Len(output') <= Len(records')
  <1>1. input \in Inputs /\ parsed \in 0 .. Len(input) /\ Len(input) \in Nat
        /\ DOMAIN input = 1 .. Len(input)
    BY RecordIs DEF FirmwareTypeInv, FileInv
  <1>2. parsed < Len(input) /\ stage = "parse"
    BY DEF Reading, Parsing
  <1>3. PICK r \in HexRecord : r = input[parsed + 1]
    <2>1. parsed + 1 \in 1 .. Len(input)
      BY <1>1, <1>2
    <2>2. input \in Seq(HexRecord)
      BY <1>1, InputsAssumption
    <2> QED
      BY <2>1, <2>2
  <1>4. /\ parsed' = parsed + 1 /\ input' = input /\ output' = output
        /\ \/ records' = Append(records, Kept(r, o)) /\ stage' = stage
           \/ records' = records /\ stage' = "failed"
    BY <1>3 DEF Accept
  <1>5. FileInv'
    BY <1>1, <1>2, <1>4 DEF FileInv
  <1>6. /\ records \in Seq(Entries) /\ Len(records) <= parsed
        /\ Len(records) \in Nat /\ output \in Seq(HexRecord)
        /\ Len(output) <= Len(records)
    BY DEF FirmwareTypeInv
  <1>7. CASE records' = records /\ stage' = "failed"
    BY <1>1, <1>4, <1>5, <1>6, <1>7
  <1>8. CASE records' = Append(records, Kept(r, o)) /\ stage' = stage
    <2>1. Kept(r, o) \in Entries
      BY KeptType
    <2>2. PICK e \in Entries : e = Kept(r, o)
      BY <2>1
    <2>3. Append(records, e) \in Seq(Entries)
          /\ Len(Append(records, e)) = Len(records) + 1
      BY <1>6
    <2>4. Len(output) \in Nat
      BY <1>6
    <2> QED
      BY <1>1, <1>2, <1>4, <1>5, <1>6, <1>8, <2>2, <2>3, <2>4
  <1> QED
    BY <1>4, <1>7, <1>8

LEMMA BaseInType ==
  ASSUME NEW r \in HexRecord, Len(r.body) >= 2
  PROVE  BaseIn(r) \in Nat
  <1>1. r.body \in Seq(Byte) /\ Len(r.body) \in Nat
    BY DEF HexRecord
  <1>2. 1 \in 1 .. Len(r.body) /\ 2 \in 1 .. Len(r.body)
    BY <1>1
  <1>3. r.body[1] \in Byte /\ r.body[2] \in Byte
    BY <1>1, <1>2
  <1>4. PICK x \in Nat, y \in Nat, w \in Nat :
           x = r.body[1] /\ y = r.body[2] /\ w = W
    BY <1>3, ByteIs
  <1>5. PICK z \in Nat : z = x * w
    OBVIOUS
  <1>6. PICK v \in Nat : v = (z + y) * w
    OBVIOUS
  <1>7. v * w \in Nat
    OBVIOUS
  <1> QED
    BY <1>4, <1>5, <1>6, <1>7, Zenon DEF BaseIn

LEMMA ReadType ==
  ASSUME FirmwareTypeInv, ReadRecord
  PROVE  FirmwareTypeInv'
  <1>1. /\ eof \in BOOLEAN /\ baseAddress \in Nat /\ outputOffset \in Int
        /\ StoredOK(buffers) /\ FileInv
        /\ stage \in {"parse", "encode", "done", "failed"}
        /\ output \in Seq(HexRecord)
        /\ records \in Seq(Entries) /\ Len(records) <= parsed
        /\ Len(output) <= Len(records)
    BY DEF FirmwareTypeInv
  <1>2. ASSUME NEW type, Reading(type)
        PROVE  input[parsed + 1] \in HexRecord
    <2>1. input \in Seq(HexRecord) /\ parsed + 1 \in 1 .. Len(input)
      BY <1>1, <1>2, InputsAssumption, RecordIs DEF FileInv, Reading
    <2> QED
      BY <2>1
  <1>3. ASSUME NEW type, Reading(type), NEW o \in Int,
               Accept(input[parsed + 1], o),
               eof' \in BOOLEAN, baseAddress' \in Nat, outputOffset' \in Int,
               StoredOK(buffers')
        PROVE  FirmwareTypeInv'
    <2>1. /\ FileInv' /\ records' \in Seq(Entries) /\ Len(records') <= parsed'
          /\ stage' \in {"parse", "failed"}
          /\ output' = output /\ Len(output') <= Len(records')
      BY <1>3, AcceptType
    <2>2. StoredOK(buffers)'
      BY <1>3 DEF StoredOK, Ordered
    <2>3. (records \in Seq(Entries))'
      BY <2>1 DEF Entries
    <2>4. output' \in Seq(HexRecord)
      BY <1>1, <2>1
    <2> QED
      BY <1>3, <2>1, <2>2, <2>3, <2>4 DEF FirmwareTypeInv
  <1>4. CASE ReadData
    <2>1. Reading(DATA)
      BY <1>4 DEF ReadData
    <2>2. PICK r \in HexRecord : r = input[parsed + 1]
      BY <1>2, <2>1
    <2>3. r.offset \in Nat /\ r.body \in Seq(Byte)
      <3>1. r.offset \in 0 .. W * W - 1 /\ r.body \in Seq(Byte)
        BY DEF HexRecord
      <3> QED
        BY <3>1, ByteIs
    <2>4. PICK a \in Int : a = baseAddress + r.offset
      BY <1>1, <2>3
    <2>5. /\ outputOffset' = IF outputOffset = 0 THEN -a ELSE outputOffset
          /\ buffers' \in WriteAt(buffers, r.body, a + outputOffset')
          /\ Accept(r, a + outputOffset')
          /\ UNCHANGED <<eof, baseAddress>>
      BY <1>4, <2>2, <2>4 DEF ReadData
    <2>6. outputOffset' \in Int
      BY <1>1, <2>5
    <2>7. a + outputOffset' \in Int
      BY <2>6
    <2>8. StoredOK(buffers')
      BY <1>1, <2>3, <2>5, <2>7, WriteAtStored
    <2> QED
      BY <1>1, <1>3, <2>1, <2>2, <2>5, <2>6, <2>7, <2>8
  <1>5. CASE ReadEOF
    <2>1. Reading(EOF) /\ Accept(input[parsed + 1], 0) /\ eof' = TRUE
          /\ UNCHANGED <<baseAddress, outputOffset, buffers>>
      BY <1>5 DEF ReadEOF
    <2> QED
      BY <1>1, <1>3, <2>1
  <1>6. CASE ReadBase
    <2>1. Reading(BASE) /\ Accept(input[parsed + 1], 0)
          /\ UNCHANGED <<eof, outputOffset, buffers>>
          /\ Len(input[parsed + 1].body) >= 2
          /\ baseAddress' = BaseIn(input[parsed + 1])
      BY <1>6 DEF ReadBase, BaseIn
    <2>2. baseAddress' \in Nat
      BY <1>2, <2>1, BaseInType
    <2> QED
      BY <1>1, <1>3, <2>1, <2>2
  <1>7. CASE ReadStart
    <2>1. Reading(START) /\ Accept(input[parsed + 1], 0)
          /\ UNCHANGED <<eof, baseAddress, outputOffset, buffers>>
      BY <1>7 DEF ReadStart
    <2> QED
      BY <1>1, <1>3, <2>1
  <1>8. CASE ReadBad
    <2>1. stage' = "failed"
          /\ UNCHANGED <<input, parsed, parserVars, buffers, output>>
      BY <1>8 DEF ReadBad
    <2>2. StoredOK(buffers)'
      BY <1>1, <2>1 DEF StoredOK, Ordered
    <2> QED
      BY <1>1, <2>1, <2>2 DEF FirmwareTypeInv, FileInv, Entries, parserVars
  <1> QED
    BY <1>4, <1>5, <1>6, <1>7, <1>8 DEF ReadRecord

LEMMA WriteType ==
  ASSUME FirmwareTypeInv, Patch \/ EncodeData \/ EncodeOther \/ Finish
  PROVE  FirmwareTypeInv'
  <1>1. /\ eof \in BOOLEAN /\ baseAddress \in Nat /\ outputOffset \in Int
        /\ StoredOK(buffers) /\ input \in Inputs /\ parsed \in 0 .. Len(input)
        /\ stage \in {"parse", "encode", "done", "failed"}
        /\ output \in Seq(HexRecord)
        /\ records \in Seq(Entries) /\ Len(records) <= parsed
        /\ Len(output) <= Len(records)
    BY DEF FirmwareTypeInv, FileInv
  <1>2. UNCHANGED <<input, parsed, parserVars>>
    BY DEF Patch, EncodeData, EncodeOther, Finish
  <1>3. ASSUME StoredOK(buffers'),
               stage' \in {"parse", "encode", "done", "failed"},
               output' \in Seq(HexRecord), Len(output') <= Len(records)
        PROVE  FirmwareTypeInv'
    <2>1. StoredOK(buffers)'
      BY <1>3 DEF StoredOK, Ordered
    <2> QED
      BY <1>1, <1>2, <1>3, <2>1 DEF FirmwareTypeInv, FileInv, Entries, parserVars
  <1>4. ASSUME Encoding, NEW r, r = records[Len(output) + 1]
        PROVE  /\ r \in Entries /\ r.length \in Nat /\ r.readOffset \in Int
               /\ r.body \in Seq(Byte)
               /\ \A x \in HexRecord : /\ Append(output, x) \in Seq(HexRecord)
                                       /\ Len(Append(output, x)) <= Len(records)
    <2>1. Len(output) \in Nat /\ Len(records) \in Nat
          /\ Len(output) < Len(records)
      BY <1>1, <1>4 DEF Encoding
    <2>2. Len(output) + 1 \in 1 .. Len(records)
      BY <2>1
    <2>3. r \in Entries
      BY <1>1, <1>4, <2>2
    <2>4. ASSUME NEW x \in HexRecord
          PROVE  /\ Append(output, x) \in Seq(HexRecord)
                 /\ Len(Append(output, x)) <= Len(records)
      <3>1. Append(output, x) \in Seq(HexRecord)
            /\ Len(Append(output, x)) = Len(output) + 1
        BY <1>1
      <3> QED
        BY <2>1, <3>1
    <2> QED
      BY <2>3, <2>4 DEF Entries
  <1>5. CASE Patch
    <2>1. \/ buffers' \in Update(buffers, records) /\ stage' = "encode"
          \/ stage' = "failed" /\ UNCHANGED buffers
      BY <1>5 DEF Patch
    <2>2. StoredOK(buffers')
      BY <1>1, <2>1, UpdateStored
    <2>3. output' = output
      BY <1>5 DEF Patch
    <2> QED
      BY <1>1, <1>3, <2>1, <2>2, <2>3
  <1>6. CASE EncodeData
    <2>1. Encoding /\ stage = "encode"
      BY <1>6 DEF EncodeData, Encoding
    <2>2. PICK r : r = records[Len(output) + 1]
      OBVIOUS
    <2>3. PICK read : read = ReadAt(buffers, r.length, r.readOffset)
      OBVIOUS
    <2>4. \/ /\ output' = Append(output, Encoded(r, read.p))
             /\ buffers' = read.bufs /\ stage' = stage
          \/ stage' = "failed" /\ UNCHANGED <<buffers, output>>
      BY <1>6, <2>2, <2>3, Zenon DEF EncodeData
    <2>5. r \in Entries /\ r.length \in Nat /\ r.readOffset \in Int
      BY <1>4, <2>1, <2>2
    <2>6. read.p \in Seq(Byte) /\ StoredOK(read.bufs)
      BY <1>1, <2>3, <2>5, ReadStored
    <2>7. PICK x \in HexRecord : x = Encoded(r, read.p)
      BY <2>5, <2>6, EncodedType
    <2>8. Append(output, x) \in Seq(HexRecord)
          /\ Len(Append(output, x)) <= Len(records)
      BY <1>4, <2>1, <2>2
    <2>9. CASE /\ output' = Append(output, Encoded(r, read.p))
               /\ buffers' = read.bufs /\ stage' = stage
      BY <1>1, <1>3, <2>6, <2>7, <2>8, <2>9
    <2>10. CASE stage' = "failed" /\ UNCHANGED <<buffers, output>>
      BY <1>1, <1>3, <2>10
    <2> QED
      BY <2>4, <2>9, <2>10
  <1>7. CASE EncodeOther
    <2>1. Encoding
      BY <1>7 DEF EncodeOther
    <2>2. PICK r : r = records[Len(output) + 1]
      OBVIOUS
    <2>3. PICK body : body = IF r.recType = EOF THEN [i \in 1 .. r.length |-> 0]
                             ELSE r.body
      OBVIOUS
    <2>4. /\ output' = Append(output, Encoded(r, body))
          /\ buffers' = buffers /\ stage' = stage
      BY <1>7, <2>2, <2>3, Zenon DEF EncodeOther
    <2>5. r \in Entries /\ r.length \in Nat /\ r.body \in Seq(Byte)
      BY <1>4, <2>1, <2>2
    <2>6. body \in Seq(Byte)
      <3>1. 0 \in Byte
        BY ByteAssumption DEF Byte
      <3>2. PICK n \in Nat : n = r.length
        BY <2>5
      <3>3. [i \in 1 .. n |-> 0] \in Seq(Byte)
        BY <3>1
      <3> QED
        BY <2>3, <2>5, <3>2, <3>3
    <2>7. PICK x \in HexRecord : x = Encoded(r, body)
      BY <2>5, <2>6, EncodedType
    <2>8. Append(output, x) \in Seq(HexRecord)
          /\ Len(Append(output, x)) <= Len(records)
      BY <1>4, <2>1, <2>2
    <2> QED
      BY <1>1, <1>3, <2>4, <2>7, <2>8
  <1>8. CASE Finish
    <2>1. stage' = "done" /\ output' = output /\ buffers' = buffers
      BY <1>8 DEF Finish
    <2> QED
      BY <1>1, <1>3, <2>1
  <1> QED
    BY <1>5, <1>6, <1>7, <1>8

\* Every variable has its type, for any file and not only for a well-formed one:
\* whatever order its records come in, SetSlice and UpdateBytes keep the
\* segments in the order of their offsets, which ReadAt searches them by, and
\* no replacement is handed out past its end.
THEOREM FirmwareTypeCorrect == Spec => []TypeOK
  <1>1. Init => FirmwareTypeInv
    <2> SUFFICES ASSUME Init
                 PROVE  FirmwareTypeInv
      OBVIOUS
    <2>1. FileInv
      BY InitPatch DEF PatchInv
    <2>2. StoredOK(<<>>)
      BY DEF StoredOK, Ordered
    <2>3. /\ records = <<>> /\ output = <<>> /\ buffers = <<>> /\ parsed = 0
          /\ stage = "parse" /\ baseAddress = 0 /\ outputOffset = 0
      BY Zenon DEF Init
    <2>5. eof \in BOOLEAN
      BY Zenon DEF Init
    <2>6. baseAddress \in Nat /\ outputOffset \in Int
      BY <2>3
    <2>4. /\ <<>> \in Seq(Entries) /\ <<>> \in Seq(HexRecord)
          /\ Len(<<>>) <= 0 /\ Len(<<>>) <= Len(<<>>)
      OBVIOUS
    <2> QED
      BY <2>1, <2>2, <2>3, <2>4, <2>5, <2>6 DEF FirmwareTypeInv
  <1>2. FirmwareTypeInv /\ [Next]_vars => FirmwareTypeInv'
    <2> SUFFICES ASSUME FirmwareTypeInv, [Next]_vars
                 PROVE  FirmwareTypeInv'
      OBVIOUS
    <2>1. CASE ReadRecord
      BY <2>1, ReadType
    <2>2. CASE Patch \/ EncodeData \/ EncodeOther \/ Finish
      BY <2>2, WriteType
    <2>3. CASE UNCHANGED vars
      BY <2>3 DEF FirmwareTypeInv, FileInv, StoredOK, Ordered, Entries,
                  vars, parserVars
    <2> QED
      BY <2>1, <2>2, <2>3 DEF Next
  <1>3. FirmwareTypeInv => TypeOK
    <2> SUFFICES ASSUME FirmwareTypeInv
                 PROVE  TypeOK
      OBVIOUS
    <2>1. input \in Seq(HexRecord) /\ parsed \in 0 .. Len(input)
      BY InputsAssumption DEF FirmwareTypeInv, FileInv
    <2>2. /\ \A i \in DOMAIN buffers :
                /\ buffers[i].offset \in Int
                /\ buffers[i].buf \in Seq(Byte)
                /\ buffers[i].update.nextByte <= Len(buffers[i].update.str)
          /\ \A i, j \in DOMAIN buffers :
                i < j => buffers[i].offset <= buffers[j].offset
      <3>1. \A i \in DOMAIN buffers : buffers[i] \in Stored
        BY DEF FirmwareTypeInv, StoredOK
      <3> QED
        BY <3>1, StoredIs DEF FirmwareTypeInv, StoredOK, Ordered, Fitting
    <2> QED
      BY <2>1, <2>2 DEF FirmwareTypeInv, TypeOK
  <1> QED
    BY <1>1, <1>2, <1>3, PTL DEF Spec

-----------------------------------------------------------------------------
(* The directory of FirmwareUpdate *)

SavedManifests == {ManifestFile(m) : m \in Manifests}

Saving == prepare.at \in {"save", "fill", "rename"}

\* A firmware is on its way, the manifest is saved.
Preparing ==
    \/ prepare.at = "download"
    \/ Saving /\ prepare.path # ManifestName

\* What a call has in hand at each of its steps.
CallOK ==
    prepare # Idle =>
        /\ prepare \in [at : Calls, model : Models, body : Contents,
                        path : Names, data : Contents]
        /\ prepare.at = "fetch" => prepare.path = ManifestName
        /\ prepare.at # "fetch" => prepare.body \in SavedManifests
        /\ prepare.at = "find" => firmwareDir[ManifestName] = prepare.body
        /\ Saving /\ prepare.path = ManifestName =>
              prepare.data = prepare.body
        /\ Saving /\ prepare.path # ManifestName =>
              prepare.data = Adapted(prepare.path)
        /\ Preparing =>
              /\ prepare.path \in FirmwareNames
              /\ firmwareDir[ManifestName] = prepare.body
              /\ Entry[prepare.body.of][prepare.model] = prepare.path

\* The temporary file: there while it is filled, complete before the rename.
TempComplete ==
    /\ temp \in Contents
    /\ prepare.at = "rename" => temp = prepare.data
    /\ prepare.at \notin {"fill", "rename"} => temp = Missing

DirectoryOK ==
    /\ firmwareDir \in [Names -> Contents]
    /\ firmwareDir[ManifestName] \in SavedManifests \cup {Missing}
    /\ \A f \in FirmwareNames : firmwareDir[f] \in {Missing, Adapted(f)}

FetchedOK ==
    /\ fetched \in [Models -> [manifest : Contents, got : Contents]]
    /\ \A m \in Models :
          /\ fetched[m].manifest \in SavedManifests \cup {Missing}
          /\ fetched[m].got # Missing =>
                /\ fetched[m].manifest \in SavedManifests
                /\ fetched[m].got = Adapted(Entry[fetched[m].manifest.of][m])

OutcomeOK == outcome \in {NoOutcome} \cup {Prepared(m) : m \in Models}

UpdateInv ==
    /\ upstream \in Manifests
    /\ CallOK /\ TempComplete /\ DirectoryOK /\ FetchedOK
    /\ OutcomeOK /\ PreparedServable

-----------------------------------------------------------------------------
\* The kinds of contents are different, and all are contents (RawFile and the
\* operators next to it).
LEMMA ContentsKinds ==
    /\ Missing \in Contents /\ Partial \in Contents
    /\ SavedManifests \subseteq Contents
    /\ \A f \in FirmwareNames : Adapted(f) \in Contents
    /\ \A m : ManifestFile(m).kind = "manifest" /\ ManifestFile(m).of = m
    /\ \A f : Adapted(f).kind = "patched"
    /\ Missing.kind = "missing" /\ Partial.kind = "partial"
    /\ ManifestName \in Names /\ FirmwareNames \subseteq Names
BY DEF Contents, Missing, Partial, SavedManifests, ManifestFile, Adapted, Names

\* The first state (the directory is empty, nothing has been asked for).
LEMMA UpdateInvInit == UpdateInit => UpdateInv
BY ContentsKinds, UpdateAssumption
   DEF UpdateInit, UpdateInv, CallOK, TempComplete, DirectoryOK, FetchedOK,
       OutcomeOK, PreparedServable, FetchedNothing, Idle, NoOutcome, Missing

-----------------------------------------------------------------------------

LEMMA ReportModelInv ==
  ASSUME UpdateInv, NEW m \in Models, ReportModel(m)
  PROVE  UpdateInv'
  <1>1. upstream' \in Manifests /\ OutcomeOK'
    BY DEF UpdateInv, ReportModel, OutcomeOK, NoOutcome
  <1>2. CallOK'
    BY ContentsKinds, UpdateAssumption
       DEF UpdateInv, ReportModel, CallOK, Saving, Preparing, Call, Calls, Idle
  <1>3. TempComplete'
    BY DEF UpdateInv, ReportModel, TempComplete, Call, Idle
  <1>4. DirectoryOK'
    BY DEF UpdateInv, ReportModel, DirectoryOK
  <1>5. FetchedOK'
    BY DEF UpdateInv, ReportModel, FetchedOK
  <1>6. PreparedServable'
    BY DEF UpdateInv, ReportModel, PreparedServable, Idle, NoOutcome
  <1> QED
    BY <1>1, <1>2, <1>3, <1>4, <1>5, <1>6 DEF UpdateInv

LEMMA FetchManifestInv ==
  ASSUME UpdateInv, FetchManifest
  PROVE  UpdateInv'
  <1>1. upstream' \in Manifests /\ OutcomeOK'
    BY DEF UpdateInv, FetchManifest, OutcomeOK
  <1>2. ManifestFile(upstream) \in SavedManifests
    BY DEF UpdateInv, SavedManifests
  <1>3. CallOK'
    <2>1. prepare # Idle /\ prepare.at = "fetch"
      BY DEF FetchManifest, Idle
    <2>2. /\ prepare \in [at : Calls, model : Models, body : Contents,
                           path : Names, data : Contents]
          /\ prepare.path = ManifestName
      BY <2>1 DEF UpdateInv, CallOK
    <2>3. /\ prepare' = [prepare EXCEPT !.at = "save",
                                        !.body = ManifestFile(upstream),
                                        !.data = ManifestFile(upstream)]
          /\ firmwareDir' = firmwareDir
      BY DEF FetchManifest
    <2>4. prepare' \in [at : Calls, model : Models, body : Contents,
                        path : Names, data : Contents]
      BY <1>2, <2>2, <2>3, ContentsKinds DEF Calls
    <2>5. /\ prepare'.at = "save" /\ prepare'.path = ManifestName
          /\ prepare'.body = ManifestFile(upstream)
          /\ prepare'.data = ManifestFile(upstream)
      BY <2>2, <2>3
    <2> QED
      BY <1>2, <2>4, <2>5 DEF CallOK, Saving, Preparing
  <1>4. TempComplete'
    BY DEF UpdateInv, FetchManifest, TempComplete, Idle
  <1>5. DirectoryOK'
    BY DEF UpdateInv, FetchManifest, DirectoryOK
  <1>6. FetchedOK'
    BY DEF UpdateInv, FetchManifest, FetchedOK
  <1>7. PreparedServable'
    BY DEF UpdateInv, FetchManifest, PreparedServable, Idle, NoOutcome
  <1> QED
    BY <1>1, <1>2, <1>3, <1>4, <1>5, <1>6, <1>7 DEF UpdateInv

LEMMA FindUpdateInv ==
  ASSUME UpdateInv, FindUpdate
  PROVE  UpdateInv'
  <1>1. /\ prepare # Idle /\ prepare.at = "find"
        /\ UNCHANGED <<upstream, firmwareDir, temp, fetched>>
    BY DEF FindUpdate, Idle
  <1>2. /\ prepare.model \in Models /\ prepare.body \in SavedManifests
        /\ firmwareDir[ManifestName] = prepare.body
        /\ prepare.body.kind = "manifest" /\ prepare.body.of \in Manifests
        /\ temp = Missing
    BY <1>1, ContentsKinds
       DEF UpdateInv, CallOK, TempComplete, SavedManifests, ManifestFile
  <1>3. Entry[prepare.body.of][prepare.model] \in FirmwareNames \cup {NoEntry}
    BY <1>2, UpdateAssumption, SMTT(60)
  <1>4. PICK f \in FirmwareNames :
          /\ Entry[prepare.body.of][prepare.model] = f
          /\ IF firmwareDir[f] # Missing
             THEN prepare' = Idle /\ outcome' = Prepared(prepare.model)
             ELSE /\ prepare' = [prepare EXCEPT !.at = "download", !.path = f]
                  /\ outcome' = outcome
    BY <1>3 DEF FindUpdate, Named, Return
  <1>5. DirectoryOK' /\ FetchedOK'
    BY <1>1 DEF UpdateInv, DirectoryOK, FetchedOK
  <1>6. CASE firmwareDir[f] # Missing
    <2>1. prepare' = Idle /\ outcome' = Prepared(prepare.model)
      BY <1>4, <1>6
    <2>2. CallOK' /\ TempComplete'
      BY <1>1, <1>2, <2>1, ContentsKinds DEF CallOK, TempComplete, Idle
    <2>3. OutcomeOK' /\ PreparedServable'
      BY <1>1, <1>2, <1>4, <1>6, <2>1
         DEF OutcomeOK, PreparedServable, Prepared
    <2> QED
      BY <1>1, <1>5, <2>2, <2>3 DEF UpdateInv
  <1>7. CASE firmwareDir[f] = Missing
    <2>1. /\ prepare' = [prepare EXCEPT !.at = "download", !.path = f]
          /\ outcome' = outcome
      BY <1>4, <1>7
    <2>2. prepare \in [at : Calls, model : Models, body : Contents,
                       path : Names, data : Contents]
      BY <1>1 DEF UpdateInv, CallOK
    <2>3. prepare' \in [at : Calls, model : Models, body : Contents,
                        path : Names, data : Contents]
      BY <2>1, <2>2, ContentsKinds DEF Calls
    <2>4. CallOK'
      BY <1>1, <1>2, <1>4, <2>1, <2>2, <2>3 DEF CallOK, Saving, Preparing
    <2>5. TempComplete'
      BY <1>1, <1>2, <2>1, <2>2, ContentsKinds DEF TempComplete
    <2>6. OutcomeOK' /\ PreparedServable'
      BY <2>1, <2>2 DEF UpdateInv, OutcomeOK, PreparedServable, Idle
    <2> QED
      BY <1>1, <1>5, <2>4, <2>5, <2>6 DEF UpdateInv
  <1> QED
    BY <1>6, <1>7

LEMMA DownloadInv ==
  ASSUME UpdateInv, Download
  PROVE  UpdateInv'
  <1>1. upstream' \in Manifests /\ OutcomeOK'
    BY DEF UpdateInv, Download, OutcomeOK
  <1>2. CallOK'
    <2>1. prepare # Idle /\ prepare.at = "download"
      BY DEF Download, Idle
    <2>2. /\ prepare \in [at : Calls, model : Models, body : Contents,
                           path : Names, data : Contents]
          /\ prepare.body \in SavedManifests
          /\ prepare.path \in FirmwareNames
          /\ firmwareDir[ManifestName] = prepare.body
          /\ Entry[prepare.body.of][prepare.model] = prepare.path
      BY <2>1 DEF UpdateInv, CallOK, Preparing
    <2>3. /\ prepare' = [prepare EXCEPT !.at = "save",
                                        !.data = Adapted(prepare.path)]
          /\ firmwareDir' = firmwareDir
      BY DEF Download, MutateFirmware
    <2>4. prepare' \in [at : Calls, model : Models, body : Contents,
                        path : Names, data : Contents]
      BY <2>2, <2>3, ContentsKinds DEF Calls
    <2>5. /\ prepare'.at = "save" /\ prepare'.path = prepare.path
          /\ prepare'.body = prepare.body /\ prepare'.model = prepare.model
          /\ prepare'.data = Adapted(prepare.path)
      BY <2>2, <2>3
    <2>6. prepare.path # ManifestName
      BY <2>2, UpdateAssumption
    <2> QED
      BY <2>2, <2>3, <2>4, <2>5, <2>6 DEF CallOK, Saving, Preparing
  <1>3. TempComplete'
    BY ContentsKinds DEF UpdateInv, Download, TempComplete, Idle
  <1>4. DirectoryOK'
    BY DEF UpdateInv, Download, DirectoryOK
  <1>5. FetchedOK'
    BY DEF UpdateInv, Download, FetchedOK
  <1>6. PreparedServable'
    BY DEF UpdateInv, Download, PreparedServable, Idle, NoOutcome
  <1> QED
    BY <1>1, <1>2, <1>3, <1>4, <1>5, <1>6 DEF UpdateInv

LEMMA GiveUpInv ==
  ASSUME UpdateInv, GiveUp
  PROVE  UpdateInv'
  <1>1. upstream' \in Manifests /\ OutcomeOK'
    BY DEF UpdateInv, GiveUp, OutcomeOK, Return, NoOutcome
  <1>2. CallOK'
    BY ContentsKinds, UpdateAssumption
       DEF UpdateInv, GiveUp, Named, CallOK, Saving, Preparing, Return, Calls,
           Idle
  <1>3. TempComplete'
    BY DEF UpdateInv, GiveUp, TempComplete, Return, Idle
  <1>4. DirectoryOK'
    BY DEF UpdateInv, GiveUp, DirectoryOK
  <1>5. FetchedOK'
    BY DEF UpdateInv, GiveUp, FetchedOK
  <1>6. PreparedServable'
    BY DEF UpdateInv, GiveUp, Named, PreparedServable, Return, Idle, NoOutcome
  <1> QED
    BY <1>1, <1>2, <1>3, <1>4, <1>5, <1>6 DEF UpdateInv

LEMMA CreateTempInv ==
  ASSUME UpdateInv, CreateTemp
  PROVE  UpdateInv'
  <1>1. upstream' \in Manifests /\ OutcomeOK'
    BY DEF UpdateInv, CreateTemp, OutcomeOK
  <1>2. CallOK'
    BY ContentsKinds, UpdateAssumption
       DEF UpdateInv, CreateTemp, CallOK, Saving, Preparing, Calls, Idle
  <1>3. TempComplete'
    BY ContentsKinds
       DEF UpdateInv, CreateTemp, CallOK, TempComplete, Saving, Preparing,
           Return, Call, Calls, Idle
  <1>4. DirectoryOK'
    BY DEF UpdateInv, CreateTemp, DirectoryOK
  <1>5. FetchedOK'
    BY DEF UpdateInv, CreateTemp, FetchedOK
  <1>6. PreparedServable'
    BY DEF UpdateInv, CreateTemp, PreparedServable, Idle, NoOutcome
  <1> QED
    BY <1>1, <1>2, <1>3, <1>4, <1>5, <1>6 DEF UpdateInv

LEMMA FillTempInv ==
  ASSUME UpdateInv, FillTemp
  PROVE  UpdateInv'
  <1>1. upstream' \in Manifests /\ OutcomeOK'
    BY DEF UpdateInv, FillTemp, OutcomeOK
  <1>2. CallOK'
    BY ContentsKinds, UpdateAssumption
       DEF UpdateInv, FillTemp, Written, CallOK, Saving, Preparing, Calls, Idle
  <1>3. TempComplete'
    BY ContentsKinds
       DEF UpdateInv, FillTemp, Written, CallOK, TempComplete, Idle
  <1>4. DirectoryOK'
    BY DEF UpdateInv, FillTemp, DirectoryOK
  <1>5. FetchedOK'
    BY DEF UpdateInv, FillTemp, FetchedOK
  <1>6. PreparedServable'
    BY DEF UpdateInv, FillTemp, PreparedServable, Idle, NoOutcome
  <1> QED
    BY <1>1, <1>2, <1>3, <1>4, <1>5, <1>6 DEF UpdateInv

LEMMA RenameTempInv ==
  ASSUME UpdateInv, RenameTemp
  PROVE  UpdateInv'
  <1>1. /\ prepare # Idle /\ prepare.at = "rename" /\ Saving
        /\ UNCHANGED <<upstream, fetched>> /\ temp' = Missing
        /\ firmwareDir' = [firmwareDir EXCEPT ![prepare.path] = temp]
    BY DEF RenameTemp, Idle, Saving, Preparing
  <1>2. /\ prepare \in [at : Calls, model : Models, body : Contents,
                         path : Names, data : Contents]
        /\ prepare.body \in SavedManifests /\ temp = prepare.data
        /\ firmwareDir \in [Names -> Contents]
    BY <1>1 DEF UpdateInv, CallOK, TempComplete, DirectoryOK
  <1>3. FetchedOK'
    BY <1>1 DEF UpdateInv, FetchedOK
  <1>4. CASE prepare.path = ManifestName
    <2>1. /\ prepare' = [prepare EXCEPT !.at = "find"] /\ outcome' = outcome
          /\ firmwareDir' = [firmwareDir EXCEPT ![ManifestName] = prepare.body]
      BY <1>1, <1>2, <1>4 DEF RenameTemp, UpdateInv, CallOK
    <2>2. DirectoryOK'
      BY <1>2, <2>1, ContentsKinds, UpdateAssumption
         DEF UpdateInv, DirectoryOK
    <2>3. prepare' \in [at : Calls, model : Models, body : Contents,
                        path : Names, data : Contents]
      BY <1>2, <2>1 DEF Calls
    <2>4. CallOK'
      BY <1>2, <2>1, <2>3, ContentsKinds DEF CallOK, Saving, Preparing
    <2>5. TempComplete'
      BY <1>1, <1>2, <2>1, ContentsKinds DEF TempComplete
    <2>6. OutcomeOK' /\ PreparedServable'
      BY <1>2, <2>1 DEF UpdateInv, OutcomeOK, PreparedServable, Idle
    <2> QED
      BY <1>1, <1>3, <2>2, <2>4, <2>5, <2>6 DEF UpdateInv
  <1>5. CASE prepare.path # ManifestName
    <2>1. prepare' = Idle /\ outcome' = Prepared(prepare.model)
      BY <1>1, <1>5 DEF RenameTemp, Return
    <2>2. /\ prepare.path \in FirmwareNames
          /\ temp = Adapted(prepare.path)
          /\ firmwareDir[ManifestName] = prepare.body
          /\ Entry[prepare.body.of][prepare.model] = prepare.path
      BY <1>1, <1>2, <1>5 DEF UpdateInv, CallOK, Preparing
    <2>3. DirectoryOK'
      BY <1>1, <1>2, <2>2, ContentsKinds, UpdateAssumption
         DEF UpdateInv, DirectoryOK
    <2>4. CallOK' /\ TempComplete'
      BY <1>1, <2>1, ContentsKinds DEF CallOK, TempComplete, Idle
    <2>5. OutcomeOK'
      BY <1>2, <2>1 DEF OutcomeOK
    <2>6. /\ firmwareDir'[ManifestName] = prepare.body
          /\ firmwareDir'[prepare.path] = Adapted(prepare.path)
          /\ prepare.body.kind = "manifest"
          /\ Adapted(prepare.path) # Missing
      BY <1>1, <1>2, <1>5, <2>2, ContentsKinds
         DEF SavedManifests, ManifestFile, Adapted, Missing
    <2>7. PreparedServable'
      BY <1>2, <2>1, <2>2, <2>6 DEF PreparedServable, Prepared
    <2> QED
      BY <1>1, <1>3, <2>3, <2>4, <2>5, <2>7 DEF UpdateInv
  <1> QED
    BY <1>4, <1>5

LEMMA AbandonTempInv ==
  ASSUME UpdateInv, AbandonTemp
  PROVE  UpdateInv'
  <1>1. upstream' \in Manifests /\ OutcomeOK'
    BY DEF UpdateInv, AbandonTemp, OutcomeOK, Return, NoOutcome
  <1>2. CallOK'
    BY ContentsKinds, UpdateAssumption
       DEF UpdateInv, AbandonTemp, RemoveTemp, CallOK, Saving, Preparing,
           Return, Calls, Idle
  <1>3. TempComplete'
    BY ContentsKinds
       DEF UpdateInv, AbandonTemp, RemoveTemp, TempComplete, Return, Idle
  <1>4. DirectoryOK'
    BY DEF UpdateInv, AbandonTemp, DirectoryOK
  <1>5. FetchedOK'
    BY DEF UpdateInv, AbandonTemp, FetchedOK
  <1>6. PreparedServable'
    BY DEF UpdateInv, AbandonTemp, RemoveTemp, PreparedServable, Return, Idle,
           NoOutcome
  <1> QED
    BY <1>1, <1>2, <1>3, <1>4, <1>5, <1>6 DEF UpdateInv

LEMMA PublishInv ==
  ASSUME UpdateInv, Publish
  PROVE  UpdateInv'
  <1>1. upstream' \in Manifests /\ OutcomeOK'
    BY DEF UpdateInv, Publish, OutcomeOK
  <1>2. CallOK'
    BY ContentsKinds, UpdateAssumption
       DEF UpdateInv, Publish, CallOK, Saving, Preparing, Calls, Idle
  <1>3. TempComplete'
    BY DEF UpdateInv, Publish, TempComplete, Idle
  <1>4. DirectoryOK'
    BY DEF UpdateInv, Publish, DirectoryOK
  <1>5. FetchedOK'
    BY DEF UpdateInv, Publish, FetchedOK
  <1>6. PreparedServable'
    BY DEF UpdateInv, Publish, PreparedServable, Idle, NoOutcome
  <1> QED
    BY <1>1, <1>2, <1>3, <1>4, <1>5, <1>6 DEF UpdateInv

LEMMA GetManifestInv ==
  ASSUME UpdateInv, NEW m \in Models, GetManifest(m)
  PROVE  UpdateInv'
  <1>1. upstream' \in Manifests /\ OutcomeOK'
    BY DEF UpdateInv, GetManifest, OutcomeOK
  <1>2. CallOK'
    BY ContentsKinds, UpdateAssumption
       DEF UpdateInv, GetManifest, CallOK, Saving, Preparing, Calls, Idle
  <1>3. TempComplete'
    BY DEF UpdateInv, GetManifest, TempComplete, Idle
  <1>4. DirectoryOK'
    BY DEF UpdateInv, GetManifest, DirectoryOK
  <1>5. FetchedOK'
    BY ContentsKinds DEF UpdateInv, GetManifest, FetchedOK, DirectoryOK
  <1>6. PreparedServable'
    BY DEF UpdateInv, GetManifest, PreparedServable, Idle, NoOutcome
  <1> QED
    BY <1>1, <1>2, <1>3, <1>4, <1>5, <1>6 DEF UpdateInv

LEMMA GetFirmwareInv ==
  ASSUME UpdateInv, NEW m \in Models, GetFirmware(m)
  PROVE  UpdateInv'
  <1>1. upstream' \in Manifests /\ OutcomeOK'
    BY DEF UpdateInv, GetFirmware, OutcomeOK
  <1>2. CallOK'
    BY ContentsKinds, UpdateAssumption
       DEF UpdateInv, GetFirmware, CallOK, Saving, Preparing, Calls, Idle
  <1>3. TempComplete'
    BY DEF UpdateInv, GetFirmware, TempComplete, Idle
  <1>4. DirectoryOK'
    BY DEF UpdateInv, GetFirmware, DirectoryOK
  <1>5. FetchedOK'
    <2> DEFINE f == Entry[fetched[m].manifest.of][m]
    <2>1. /\ f # NoEntry
          /\ fetched' = [fetched EXCEPT ![m].got = firmwareDir[f]]
      BY DEF GetFirmware
    <2>2. /\ fetched \in [Models -> [manifest : Contents, got : Contents]]
          /\ fetched[m].manifest \in SavedManifests
      BY ContentsKinds DEF UpdateInv, FetchedOK, GetFirmware
    <2>3. fetched[m].manifest.of \in Manifests
      BY <2>2 DEF SavedManifests, ManifestFile
    <2>4. f \in FirmwareNames
      BY <2>1, <2>3, UpdateAssumption
    <2>5. firmwareDir[f] \in {Missing, Adapted(f)} /\ firmwareDir[f] \in Contents
      BY <2>4, ContentsKinds DEF UpdateInv, DirectoryOK
    <2>6. /\ fetched'[m].manifest = fetched[m].manifest
          /\ fetched'[m].got = firmwareDir[f]
          /\ \A k \in Models \ {m} : fetched'[k] = fetched[k]
          /\ fetched' \in [Models -> [manifest : Contents, got : Contents]]
      BY <2>1, <2>2, <2>5
    <2> HIDE DEF f
    <2>7. ASSUME NEW k \in Models
          PROVE  /\ fetched'[k].manifest \in SavedManifests \cup {Missing}
                 /\ fetched'[k].got # Missing =>
                       /\ fetched'[k].manifest \in SavedManifests
                       /\ fetched'[k].got =
                             Adapted(Entry[fetched'[k].manifest.of][k])
      <3>1. CASE k = m
        BY <2>2, <2>5, <2>6, <3>1 DEF f
      <3>2. CASE k # m
        BY <2>6, <3>2 DEF UpdateInv, FetchedOK
      <3> QED
        BY <3>1, <3>2
    <2> QED
      BY <2>6, <2>7 DEF FetchedOK
  <1>6. PreparedServable'
    BY DEF UpdateInv, GetFirmware, PreparedServable, Idle, NoOutcome
  <1> QED
    BY <1>1, <1>2, <1>3, <1>4, <1>5, <1>6 DEF UpdateInv

LEMMA RestartUpdateInv ==
  ASSUME UpdateInv, RestartUpdate
  PROVE  UpdateInv'
  <1>1. upstream' \in Manifests /\ OutcomeOK'
    BY DEF UpdateInv, RestartUpdate, OutcomeOK, NoOutcome
  <1>2. CallOK'
    BY ContentsKinds, UpdateAssumption
       DEF UpdateInv, RestartUpdate, CallOK, Saving, Preparing, Calls, Idle
  <1>3. TempComplete'
    BY ContentsKinds DEF UpdateInv, RestartUpdate, TempComplete, Idle
  <1>4. DirectoryOK'
    BY DEF UpdateInv, RestartUpdate, DirectoryOK
  <1>5. FetchedOK'
    BY DEF UpdateInv, RestartUpdate, FetchedOK
  <1>6. PreparedServable'
    BY DEF UpdateInv, RestartUpdate, PreparedServable, Idle, NoOutcome
  <1> QED
    BY <1>1, <1>2, <1>3, <1>4, <1>5, <1>6 DEF UpdateInv

-----------------------------------------------------------------------------
LEMMA UpdateInvStutter ==
  ASSUME UpdateInv, UNCHANGED updateVars
  PROVE  UpdateInv'
  BY DEF UpdateInv, updateVars, CallOK, Saving, Preparing, TempComplete,
         DirectoryOK,
         FetchedOK, OutcomeOK, PreparedServable

LEMMA UpdateInvNext ==
  ASSUME UpdateInv, [UpdateNext]_updateVars
  PROVE  UpdateInv'
  BY ReportModelInv, FetchManifestInv, FindUpdateInv, DownloadInv, GiveUpInv,
     CreateTempInv, FillTempInv, RenameTempInv, AbandonTempInv, PublishInv,
     GetManifestInv, GetFirmwareInv, RestartUpdateInv, UpdateInvStutter
     DEF UpdateNext

LEMMA UpdateInvAlways == UpdateSpec => []UpdateInv
  BY UpdateInvInit, UpdateInvNext, PTL DEF UpdateSpec

\* Every variable has its type (FetchAndPrepareUpdate and what it saves).
THEOREM UpdateTypeCorrect == UpdateSpec => []UpdateTypeOK
  <1>1. UpdateInv => UpdateTypeOK
    BY ContentsKinds
       DEF UpdateInv, UpdateTypeOK, CallOK, TempComplete, DirectoryOK,
           FetchedOK, OutcomeOK
  <1> QED
    BY <1>1, UpdateInvAlways, PTL

\* Nobody reads a part of a file (atomicWriteFile), whenever the process dies
\* and whichever step fails.
THEOREM FilesAreWhole == UpdateSpec => []WholeFiles
  <1>1. UpdateInv => WholeFiles
    <2> SUFFICES ASSUME UpdateInv PROVE WholeFiles
      OBVIOUS
    <2>1. /\ Missing # Partial
          /\ \A c \in SavedManifests : c # Partial
          /\ \A f : Adapted(f) # Partial
      BY DEF Missing, Partial, SavedManifests, ManifestFile, Adapted
    <2>2. \A n \in Names : firmwareDir[n] # Partial
      BY <2>1 DEF UpdateInv, DirectoryOK, Names
    <2>3. \A m \in Models : /\ fetched[m].manifest # Partial
                            /\ fetched[m].got # Partial
      BY <2>1 DEF UpdateInv, FetchedOK
    <2> QED
      BY <2>2, <2>3 DEF WholeFiles
  <1> QED
    BY <1>1, UpdateInvAlways, PTL

\* A thermostat that gets a firmware gets the patched form of the one that the
\* manifest it has read names for its model.
THEOREM OnlyPatchedFirmware == UpdateSpec => []PatchedOnly
  <1>1. UpdateInv => PatchedOnly
    BY DEF UpdateInv, FetchedOK, PatchedOnly, Missing
  <1> QED
    BY <1>1, UpdateInvAlways, PTL

\* A call that returns without an error leaves a manifest and a firmware that
\* the thermostat can download.
THEOREM PreparedIsServable == UpdateSpec => []PreparedServable
  <1>1. UpdateInv => PreparedServable
    BY DEF UpdateInv
  <1> QED
    BY <1>1, UpdateInvAlways, PTL

\* No call leaves its temporary file behind, whichever step fails.
THEOREM NoTempLeft == UpdateSpec => []TempRemoved
  <1>1. UpdateInv => TempRemoved
    BY DEF UpdateInv, TempComplete, TempRemoved, Idle
  <1> QED
    BY <1>1, UpdateInvAlways, PTL
===============================================================================
