------------------------------ MODULE CagenProofs ------------------------------
(***************************************************************************)
(* cagen, for all certificates, firmwares, lengths and numbers of workers. *)
(*                                                                         *)
(* Fitting a certificate (Stuffing).  What is written into its place still *)
(* is the certificate that was generated, every '\r' in it has its '\n',   *)
(* and every slice of it has the sum that it had.  A sum, and what         *)
(* Stripped keeps, are recursive functions: that their equations have a    *)
(* solution is proved by induction (LeastNumber, AllNumbers), and from     *)
(* then on only what SumSplit, SumSame, SumRaised and StrippedConcat say   *)
(* of them is used.  Slices in front of the certificate are as they were,  *)
(* and those behind the cursor of verifyFixedBlobs are balanced, whatever  *)
(* it still moves in front of them, so that only the slice in which the    *)
(* certificate begins is left to fixupStuffBytes (BalanceInv).  A shift    *)
(* adds white space only, with a '\n' behind each '\r', and comes between  *)
(* no earlier '\r' and its '\n', as a slice's first byte of white space is *)
(* a '\n' (CertInv).                                                       *)
(*                                                                         *)
(* The certificate in its place (StuffedImage).  Each record of the        *)
(* firmware holds a slice of it, so that a read is one piece whose sum is  *)
(* that of the original (RecordPatched, PieceIs), and the next one goes on *)
(* behind it (RecordRead).                                                 *)
(*                                                                         *)
(* The search (CagenSearch).  The lock is held by the worker that writes   *)
(* or saves (LockOK), so that nobody else changes the result meanwhile,    *)
(* and whoever finds it free finds the file in agreement with it (FileOK). *)
(* A worker adds its certificate to fslCerts and looks at the earlier ones *)
(* in one critical section, so that of two that cover all lengths the      *)
(* later one sees the other; it then keeps the lock to the end (PairFree). *)
(* What it has saved comes from the two certificates (SavingOK), and it    *)
(* stops when neither has a length that the result lacks.                  *)
(***************************************************************************)
EXTENDS StuffedImage, CagenSearch, WellFoundedInduction, TLAPS

-----------------------------------------------------------------------------
(* Induction, by the least counterexample. *)

LEMMA LeastNumber ==
  ASSUME NEW T, T \subseteq Nat, T # {}
  PROVE  \E n \in T : \A m \in T : n <= m
  <1>1. PICK n \in T : \A m \in T : ~ (<<m, n>> \in OpToRel(<, Nat))
    BY NatLessThanWellFounded, WFMin
  <1>2. \A m \in T : ~ (m < n)
    BY <1>1 DEF OpToRel
  <1> QED
    BY <1>2

LEMMA AllNumbers ==
  ASSUME NEW S, 0 \in S, \A n \in Nat : n \in S => n + 1 \in S
  PROVE  Nat \subseteq S
  <1> SUFFICES ASSUME ~ (Nat \subseteq S)
               PROVE  FALSE
    OBVIOUS
  <1>1. PICK n \in Nat \ S : \A m \in Nat \ S : n <= m
    BY LeastNumber
  <1>2. n - 1 \in Nat /\ n - 1 \in S
    BY <1>1
  <1> QED
    BY <1>1, <1>2

-----------------------------------------------------------------------------
(* Numbers that are equal modulo W *)

Cong(x, y) == \E k \in Int : x = y + k * W

LEMMA ByteTypes ==
  /\ W \in Nat /\ W > 1 /\ Word \in Nat /\ Word > 1
  /\ SliceLen \in Nat /\ SliceLen > 4
  /\ Bytes \subseteq Int /\ NL \in Bytes /\ CR \in Bytes
  <1>1. W \in Nat /\ W > 1
    BY StuffingAssumption
  <1>2. Word \in Nat /\ Word > 1
    BY <1>1 DEF Word
  <1> QED
    BY <1>1, <1>2, StuffingAssumption DEF Bytes

LEMMA QuotientOf ==
  ASSUME NEW x \in Int, NEW m \in Nat, m > 0
  PROVE  /\ x \div m \in Int /\ x % m \in 0 .. m - 1
         /\ x = (x \div m) * m + (x % m)
  OBVIOUS

LEMMA CongRefl ==
  ASSUME NEW x \in Int
  PROVE  Cong(x, x)
  <1>1. x = x + 0 * W
    BY ByteTypes
  <1> QED
    BY <1>1 DEF Cong

LEMMA CongSym ==
  ASSUME NEW x \in Int, NEW y \in Int, Cong(x, y)
  PROVE  Cong(y, x)
  <1>1. PICK k \in Int : x = y + k * W
    BY DEF Cong
  <1>2. y = x + (-k) * W
    BY <1>1, ByteTypes
  <1>3. -k \in Int
    OBVIOUS
  <1> QED
    BY <1>2, <1>3 DEF Cong

LEMMA CongAdd ==
  ASSUME NEW x \in Int, NEW y \in Int, NEW u \in Int, NEW v \in Int,
         Cong(x, y), Cong(u, v)
  PROVE  Cong(x + u, y + v)
  <1>1. PICK k \in Int : x = y + k * W
    BY DEF Cong
  <1>2. PICK l \in Int : u = v + l * W
    BY DEF Cong
  <1>3. x + u = (y + v) + (k + l) * W
    BY <1>1, <1>2, ByteTypes
  <1>4. k + l \in Int
    OBVIOUS
  <1> QED
    BY <1>3, <1>4 DEF Cong

LEMMA CongSub ==
  ASSUME NEW x \in Int, NEW y \in Int, NEW u \in Int, NEW v \in Int,
         Cong(x, y), Cong(u, v)
  PROVE  Cong(x - u, y - v)
  <1>1. PICK k \in Int : x = y + k * W
    BY DEF Cong
  <1>2. PICK l \in Int : u = v + l * W
    BY DEF Cong
  <1>3. x - u = (y - v) + (k - l) * W
    BY <1>1, <1>2, ByteTypes
  <1>4. k - l \in Int
    OBVIOUS
  <1> QED
    BY <1>3, <1>4 DEF Cong

LEMMA CongTrans ==
  ASSUME NEW x \in Int, NEW y \in Int, NEW z \in Int, Cong(x, y), Cong(y, z)
  PROVE  Cong(x, z)
  <1>1. Cong(x + y, y + z)
    BY CongAdd
  <1>2. Cong((x + y) - y, (y + z) - y)
    BY <1>1, CongRefl, CongSub
  <1> QED
    BY <1>2

LEMMA CongMod ==
  ASSUME NEW x \in Int
  PROVE  x % W \in Int /\ Cong(x % W, x) /\ Cong(x, x % W)
  <1>1. /\ x \div W \in Int /\ x % W \in Int
        /\ x = (x % W) + (x \div W) * W
    BY ByteTypes, QuotientOf
  <1>2. Cong(x, x % W)
    BY <1>1 DEF Cong
  <1> QED
    BY <1>1, <1>2, CongSym

LEMMA CongWord ==
  ASSUME NEW x \in Int
  PROVE  x % Word \in 0 .. Word - 1 /\ Cong(x % Word, x)
  <1>1. /\ x \div Word \in Int /\ x % Word \in 0 .. Word - 1
        /\ x = (x \div Word) * Word + (x % Word)
    BY ByteTypes, QuotientOf
  <1> DEFINE q == x \div Word
             r == x % Word
  <1>2. q \in Int /\ r \in Int /\ x = q * (W * W) + r
    BY <1>1 DEF Word
  <1> HIDE DEF q, r
  <1>3. r = x + (- (q * W)) * W /\ - (q * W) \in Int
    BY <1>2, ByteTypes
  <1>4. Cong(r, x)
    BY <1>3 DEF Cong
  <1> QED
    BY <1>1, <1>4 DEF r

LEMMA CongIff ==
  ASSUME NEW x \in Int, NEW y \in Int
  PROVE  Cong(x, y) <=> x % W = y % W
  <1>1. ASSUME x % W = y % W
        PROVE  Cong(x, y)
    BY <1>1, CongMod, CongTrans
  <1>2. ASSUME Cong(x, y)
        PROVE  x % W = y % W
    <2> DEFINE r == x % W
               t == y % W
    <2>1. Cong(r, t)
      BY <1>2, CongMod, CongTrans
    <2>2. r \in 0 .. W - 1 /\ t \in 0 .. W - 1
      BY ByteTypes, QuotientOf
    <2> HIDE DEF r, t
    <2>3. PICK k \in Int : r = t + k * W
      BY <2>1 DEF Cong
    <2>4. k < 1 /\ k > -1
      BY <2>2, <2>3, ByteTypes
    <2>5. r = t
      BY <2>2, <2>3, <2>4, ByteTypes
    <2> QED
      BY <2>5 DEF r, t
  <1> QED
    BY <1>1, <1>2

-----------------------------------------------------------------------------
(* Sums *)

IsTotals(g, s, n) ==
    g = [k \in 0 .. n |-> IF k = 0 THEN 0 ELSE g[k - 1] + s[k]]

LEMMA TotalsExist ==
  ASSUME NEW s
  PROVE  \A n \in Nat : \E g : IsTotals(g, s, n)
  <1> DEFINE Good == {n \in Nat : \E g : IsTotals(g, s, n)}
  <1>1. 0 \in Good
    <2>1. IsTotals([k \in 0 .. 0 |-> 0], s, 0)
      BY DEF IsTotals
    <2> QED
      BY <2>1
  <1>2. ASSUME NEW n \in Nat, n \in Good
        PROVE  n + 1 \in Good
    <2>1. PICK g : IsTotals(g, s, n)
      BY <1>2
    <2> DEFINE h == [k \in 0 .. n + 1 |->
                        IF k = n + 1 THEN g[n] + s[n + 1] ELSE g[k]]
    <2>2. ASSUME NEW k \in 0 .. n + 1
          PROVE  h[k] = IF k = 0 THEN 0 ELSE h[k - 1] + s[k]
      <3>1. CASE k = n + 1
        BY <3>1
      <3>2. CASE k # n + 1
        <4>1. k \in 0 .. n /\ h[k] = g[k]
          BY <3>2
        <4>2. k # 0 => h[k - 1] = g[k - 1]
          BY <3>2
        <4> QED
          BY <2>1, <4>1, <4>2 DEF IsTotals
      <3> QED
        BY <3>1, <3>2
    <2>3. h = [k \in 0 .. n + 1 |-> h[k]]
      OBVIOUS
    <2> HIDE DEF h
    <2>4. IsTotals(h, s, n + 1)
      BY <2>2, <2>3, Zenon DEF IsTotals
    <2> QED
      BY <2>4
  <1> HIDE DEF Good
  <1>3. Nat \subseteq Good
    BY <1>1, <1>2, AllNumbers
  <1> QED
    BY <1>3 DEF Good

LEMMA TotalsAre ==
  ASSUME NEW s, Len(s) \in Nat
  PROVE  \A k \in 0 .. Len(s) :
            Totals(s)[k] = IF k = 0 THEN 0 ELSE Totals(s)[k - 1] + s[k]
  <1>1. \E g : g = [k \in 0 .. Len(s) |-> IF k = 0 THEN 0 ELSE g[k - 1] + s[k]]
    BY TotalsExist DEF IsTotals
  <1>2. Totals(s) = [k \in 0 .. Len(s) |->
                        IF k = 0 THEN 0 ELSE Totals(s)[k - 1] + s[k]]
    BY <1>1, Zenon DEF Totals
  <1> QED
    BY <1>2, Zenon

LEMMA TotalsType ==
  ASSUME NEW s \in Seq(Int)
  PROVE  \A k \in 0 .. Len(s) : Totals(s)[k] \in Int
  <1> DEFINE Good == {k \in Nat : k <= Len(s) => Totals(s)[k] \in Int}
  <1>1. 0 \in Good
    BY TotalsAre
  <1>2. ASSUME NEW k \in Nat, k \in Good
        PROVE  k + 1 \in Good
    <2>1. CASE k + 1 <= Len(s)
      <3>1. Totals(s)[k + 1] = Totals(s)[k] + s[k + 1]
        BY <2>1, TotalsAre
      <3>2. Totals(s)[k] \in Int /\ s[k + 1] \in Int
        BY <1>2, <2>1
      <3> QED
        BY <3>1, <3>2
    <2> QED
      BY <2>1
  <1> HIDE DEF Good
  <1>3. Nat \subseteq Good
    BY <1>1, <1>2, AllNumbers
  <1> QED
    BY <1>3 DEF Good

\* Of the places from a to b.
Within(s, a, b) == a \in Nat /\ b \in Int /\ a <= b + 1 /\ b < Len(s)

LEMMA SumType ==
  ASSUME NEW s \in Seq(Int), NEW a, NEW b, Within(s, a, b)
  PROVE  Sum(s, a, b) \in Int
  BY TotalsType DEF Within, Sum

LEMMA SumSplit ==
  ASSUME NEW s \in Seq(Int), NEW a, NEW b, NEW c, NEW d, d = b + 1,
         Within(s, a, b), Within(s, d, c)
  PROVE  Sum(s, a, c) = Sum(s, a, b) + Sum(s, d, c)
  <1>1. /\ a \in 0 .. Len(s) /\ d \in 0 .. Len(s) /\ c + 1 \in 0 .. Len(s)
        /\ b + 1 = d
    BY DEF Within
  <1>2. /\ Totals(s)[a] \in Int /\ Totals(s)[d] \in Int
        /\ Totals(s)[c + 1] \in Int
    BY <1>1, TotalsType
  <1> QED
    BY <1>1, <1>2 DEF Sum

\* The same for numbers.
LEMMA SumParts ==
  ASSUME NEW s \in Seq(Int), NEW a \in Nat, NEW b \in Int, NEW c \in Int,
         NEW d \in Nat, d = b + 1, Within(s, a, b), Within(s, d, c)
  PROVE  Sum(s, a, c) = Sum(s, a, b) + Sum(s, d, c)
  BY SumSplit

LEMMA SumEmpty ==
  ASSUME NEW s \in Seq(Int), NEW a \in Nat, a <= Len(s)
  PROVE  Sum(s, a, a - 1) = 0
  BY TotalsType DEF Sum

\* Induction over the length of what is added up.
LEMMA SumNext ==
  ASSUME NEW s \in Seq(Int), NEW a \in Nat, NEW n \in Nat, a + n < Len(s)
  PROVE  /\ At(s, a + n) \in Int /\ Sum(s, a, a + n - 1) \in Int
         /\ Sum(s, a, a + n) = Sum(s, a, a + n - 1) + At(s, a + n)
  <1>1. Totals(s)[a + n + 1] = Totals(s)[a + n] + s[a + n + 1]
    <2> DEFINE k == a + n + 1
    <2>1. k \in 0 .. Len(s) /\ k # 0 /\ k - 1 = a + n
      OBVIOUS
    <2>2. Totals(s)[k] = IF k = 0 THEN 0 ELSE Totals(s)[k - 1] + s[k]
      BY <2>1, TotalsAre
    <2> HIDE DEF k
    <2>3. Totals(s)[k] = Totals(s)[a + n] + s[k]
      BY <2>1, <2>2
    <2> QED
      BY <2>3 DEF k
  <1>2. /\ Totals(s)[a] \in Int /\ Totals(s)[a + n] \in Int
        /\ s[a + n + 1] \in Int
    BY TotalsType
  <1>3. a + n - 1 + 1 = a + n
    OBVIOUS
  <1> QED
    BY <1>1, <1>2, <1>3 DEF Sum, At

LEMMA SumSame ==
  ASSUME NEW s \in Seq(Int), NEW t \in Seq(Int), NEW a, NEW b,
         Within(s, a, b), Within(t, a, b),
         \A i \in a .. b : At(s, i) = At(t, i)
  PROVE  Sum(s, a, b) = Sum(t, a, b)
  <1> USE DEF Within
  <1> DEFINE Good == {n \in Nat : a + n - 1 <= b =>
                         Sum(s, a, a + n - 1) = Sum(t, a, a + n - 1)}
  <1>0. a <= Len(s) /\ a <= Len(t) /\ a + 0 - 1 = a - 1
    OBVIOUS
  <1>1. 0 \in Good
    <2>1. Sum(s, a, a - 1) = 0 /\ Sum(t, a, a - 1) = 0
      BY <1>0, SumEmpty
    <2> QED
      BY <1>0, <2>1
  <1>2. ASSUME NEW n \in Nat, n \in Good
        PROVE  n + 1 \in Good
    <2>1. CASE a + n <= b
      <3>0. a + n < Len(s) /\ a + n < Len(t)
        BY <2>1
      <3>1. Sum(s, a, a + n) = Sum(s, a, a + n - 1) + At(s, a + n)
        BY <3>0, SumNext
      <3>2. Sum(t, a, a + n) = Sum(t, a, a + n - 1) + At(t, a + n)
        BY <3>0, SumNext
      <3>3. At(s, a + n) = At(t, a + n)
        BY <2>1
      <3>4. Sum(s, a, a + n) = Sum(t, a, a + n)
        BY <1>2, <2>1, <3>1, <3>2, <3>3
      <3>5. a + (n + 1) - 1 = a + n
        OBVIOUS
      <3> QED
        BY <3>4, <3>5
    <2> QED
      BY <2>1
  <1> HIDE DEF Good
  <1>3. Nat \subseteq Good
    BY <1>1, <1>2, AllNumbers
  <1>4. b - a + 1 \in Good /\ a + (b - a + 1) - 1 = b
    BY <1>3
  <1> QED
    BY <1>4 DEF Good

\* Bytes that are all the same.
LEMMA SumLevel ==
  ASSUME NEW s \in Seq(Int), NEW a, NEW b, NEW v \in Int, Within(s, a, b),
         \A i \in a .. b : At(s, i) = v
  PROVE  Sum(s, a, b) = (b - a + 1) * v
  <1> USE DEF Within
  <1> DEFINE Good == {n \in Nat : a + n - 1 <= b =>
                         Sum(s, a, a + n - 1) = n * v}
  <1>1. 0 \in Good
    BY SumEmpty
  <1>2. ASSUME NEW n \in Nat, n \in Good
        PROVE  n + 1 \in Good
    <2>1. CASE a + n <= b
      <3>0. a + n < Len(s)
        BY <2>1
      <3>1. Sum(s, a, a + n) = Sum(s, a, a + n - 1) + At(s, a + n)
        BY <3>0, SumNext
      <3>2. At(s, a + n) = v
        BY <2>1
      <3>3. Sum(s, a, a + n) = n * v + v
        BY <1>2, <2>1, <3>1, <3>2
      <3>4. n * v + v = (n + 1) * v
        OBVIOUS
      <3>5. a + (n + 1) - 1 = a + n
        OBVIOUS
      <3> QED
        BY <3>3, <3>4, <3>5
    <2> QED
      BY <2>1
  <1> HIDE DEF Good
  <1>3. Nat \subseteq Good
    BY <1>1, <1>2, AllNumbers
  <1>4. b - a + 1 \in Good /\ a + (b - a + 1) - 1 = b
    BY <1>3
  <1> QED
    BY <1>4 DEF Good

\* The same number added to every byte.
LEMMA SumRaised ==
  ASSUME NEW s \in Seq(Int), NEW t \in Seq(Int), NEW a, NEW b, NEW d \in Int,
         Within(s, a, b), Within(t, a, b),
         \A i \in a .. b : At(t, i) = (At(s, i) + d) % W
  PROVE  Cong(Sum(t, a, b), Sum(s, a, b) + (b - a + 1) * d)
  <1> USE DEF Within
  <1> DEFINE Good == {n \in Nat : a + n - 1 <= b =>
                Cong(Sum(t, a, a + n - 1), Sum(s, a, a + n - 1) + n * d)}
  <1>1. 0 \in Good
    <2>1. Sum(t, a, a + 0 - 1) = 0 /\ Sum(s, a, a + 0 - 1) + 0 * d = 0
      BY SumEmpty
    <2>2. Cong(0, 0)
      BY CongRefl
    <2> QED
      BY <2>1, <2>2
  <1>2. ASSUME NEW n \in Nat, n \in Good
        PROVE  n + 1 \in Good
    <2>1. CASE a + n <= b
      <3> DEFINE x == Sum(s, a, a + n - 1)
                 y == Sum(t, a, a + n - 1)
                 v == At(s, a + n)
      <3>0. a + n < Len(s) /\ a + n < Len(t)
        BY <2>1
      <3>1. x \in Int /\ v \in Int /\ Sum(s, a, a + n) = x + v
        BY <3>0, SumNext
      <3>2. PICK u \in Int : u = (v + d) % W /\ Cong(u, v + d)
        <4>1. v + d \in Int
          BY <3>1
        <4> QED
          BY <4>1, CongMod
      <3>3. At(t, a + n) = u
        BY <2>1, <3>2
      <3>4. y \in Int /\ Sum(t, a, a + n) = y + u
        BY <3>0, <3>3, SumNext
      <3>5. Cong(y, x + n * d)
        BY <1>2, <2>1
      <3> HIDE DEF x, y, v
      <3>6. v + d \in Int /\ x + n * d \in Int
        BY <3>1
      <3>7. Cong(y + u, (x + n * d) + (v + d))
        BY <3>2, <3>4, <3>5, <3>6, CongAdd
      <3>9. (x + n * d) + (v + d) = (x + v) + (n + 1) * d
        BY <3>1
      <3>8. a + (n + 1) - 1 = a + n
        OBVIOUS
      <3> QED
        BY <3>1, <3>4, <3>7, <3>8, <3>9
    <2> QED
      BY <2>1
  <1> HIDE DEF Good
  <1>3. Nat \subseteq Good
    BY <1>1, <1>2, AllNumbers
  <1>4. b - a + 1 \in Good /\ a + (b - a + 1) - 1 = b
    BY <1>3
  <1> QED
    BY <1>4 DEF Good

\* Whitespace with crs of its bytes '\r'.
LEMMA SumWhitespace ==
  ASSUME NEW s \in Seq(Int), NEW p \in Nat, NEW n \in Nat, NEW crs \in Nat,
         p + n <= Len(s), crs <= n \div 2,
         \A i \in p .. p + n - 1 :
            At(s, i) = IF (i - p) % 2 = 1 /\ i - p < 2 * crs THEN CR ELSE NL
  PROVE  Sum(s, p, p + n - 1) = crs * CR + (n - crs) * NL
  <1> DEFINE Crs(m) == IF m \div 2 < crs THEN m \div 2 ELSE crs
             Good == {m \in Nat : m <= n =>
                         Sum(s, p, p + m - 1) = Crs(m) * CR + (m - Crs(m)) * NL}
  <1>t. CR \in Int /\ NL \in Int
    BY ByteTypes
  <1>1. 0 \in Good
    <2>1. Sum(s, p, p - 1) = 0 /\ p + 0 - 1 = p - 1
      BY SumEmpty
    <2>2. Crs(0) = 0
      OBVIOUS
    <2> HIDE DEF Crs
    <2>3. Crs(0) * CR + (0 - Crs(0)) * NL = 0
      BY <1>t, <2>2
    <2> QED
      BY <2>1, <2>3
  <1>2. ASSUME NEW m \in Nat, m \in Good
        PROVE  m + 1 \in Good
    <2>1. CASE m + 1 <= n
      <3>1. /\ At(s, p + m) \in Int /\ Sum(s, p, p + m - 1) \in Int
            /\ Sum(s, p, p + m) = Sum(s, p, p + m - 1) + At(s, p + m)
        <4>1. p + m < Len(s)
          BY <2>1
        <4> QED
          BY <4>1, SumNext
      <3>2. At(s, p + m) = IF m % 2 = 1 /\ m < 2 * crs THEN CR ELSE NL
        <4>1. p + m \in p .. p + n - 1 /\ (p + m) - p = m
          BY <2>1
        <4> QED
          BY <4>1
      <3>3. Sum(s, p, p + m - 1) = Crs(m) * CR + (m - Crs(m)) * NL
        BY <1>2, <2>1
      <3>4. Crs(m) \in Int /\ Crs(m + 1) \in Int
        OBVIOUS
      <3>5. CASE m % 2 = 1 /\ m < 2 * crs
        <4>1. Crs(m + 1) = Crs(m) + 1
          BY <3>5
        <4> HIDE DEF Crs
        <4>2. Sum(s, p, p + m) = Crs(m) * CR + (m - Crs(m)) * NL + CR
          BY <3>1, <3>2, <3>3, <3>5
        <4>3. Crs(m) * CR + (m - Crs(m)) * NL + CR
                = (Crs(m) + 1) * CR + ((m + 1) - (Crs(m) + 1)) * NL
          BY <1>t, <3>4
        <4>4. p + (m + 1) - 1 = p + m
          OBVIOUS
        <4> QED
          BY <4>1, <4>2, <4>3, <4>4
      <3>6. CASE ~ (m % 2 = 1 /\ m < 2 * crs)
        <4>1. Crs(m + 1) = Crs(m)
          BY <3>6
        <4> HIDE DEF Crs
        <4>2. Sum(s, p, p + m) = Crs(m) * CR + (m - Crs(m)) * NL + NL
          BY <3>1, <3>2, <3>3, <3>6
        <4>3. Crs(m) * CR + (m - Crs(m)) * NL + NL
                = Crs(m) * CR + ((m + 1) - Crs(m)) * NL
          BY <1>t, <3>4
        <4>4. p + (m + 1) - 1 = p + m
          OBVIOUS
        <4> QED
          BY <4>1, <4>2, <4>3, <4>4
      <3> QED
        BY <3>5, <3>6
    <2> QED
      BY <2>1
  <1>3. Crs(n) = crs
    OBVIOUS
  <1> HIDE DEF Good, Crs
  <1>4. Nat \subseteq Good
    BY <1>1, <1>2, AllNumbers
  <1>5. n \in Good
    BY <1>4
  <1> QED
    BY <1>3, <1>5 DEF Good

-----------------------------------------------------------------------------
(* Sequences without their whitespace *)

KeptStep(prefix, b) == IF b \in {NL, CR} THEN prefix ELSE Append(prefix, b)

IsKept(g, s, n) ==
    g = [k \in 0 .. n |->
            IF k = 0 THEN <<>>
            ELSE IF s[k] \in {NL, CR} THEN g[k - 1]
            ELSE Append(g[k - 1], s[k])]

LEMMA KeptExists ==
  ASSUME NEW s
  PROVE  \A n \in Nat : \E g : IsKept(g, s, n)
  <1> DEFINE Good == {n \in Nat : \E g : IsKept(g, s, n)}
  <1>1. 0 \in Good
    <2>1. IsKept([k \in 0 .. 0 |-> <<>>], s, 0)
      BY DEF IsKept
    <2> QED
      BY <2>1
  <1>2. ASSUME NEW n \in Nat, n \in Good
        PROVE  n + 1 \in Good
    <2>1. PICK g : IsKept(g, s, n)
      BY <1>2
    <2> DEFINE h == [k \in 0 .. n + 1 |->
                        IF k = n + 1
                        THEN IF s[n + 1] \in {NL, CR} THEN g[n]
                             ELSE Append(g[n], s[n + 1])
                        ELSE g[k]]
    <2>2. ASSUME NEW k \in 0 .. n + 1
          PROVE  h[k] = IF k = 0 THEN <<>>
                        ELSE IF s[k] \in {NL, CR} THEN h[k - 1]
                        ELSE Append(h[k - 1], s[k])
      <3>1. CASE k = n + 1
        <4>1. k # 0 /\ h[k - 1] = g[n] /\ s[k] = s[n + 1]
          BY <3>1
        <4> QED
          BY <3>1, <4>1
      <3>2. CASE k # n + 1
        <4>1. k \in 0 .. n /\ h[k] = g[k]
          BY <3>2
        <4>2. k # 0 => h[k - 1] = g[k - 1]
          BY <3>2
        <4> QED
          BY <2>1, <4>1, <4>2 DEF IsKept
      <3> QED
        BY <3>1, <3>2
    <2>3. h = [k \in 0 .. n + 1 |-> h[k]]
      OBVIOUS
    <2> HIDE DEF h
    <2>4. IsKept(h, s, n + 1)
      BY <2>2, <2>3, Zenon DEF IsKept
    <2> QED
      BY <2>4
  <1> HIDE DEF Good
  <1>3. Nat \subseteq Good
    BY <1>1, <1>2, AllNumbers
  <1> QED
    BY <1>3 DEF Good

LEMMA KeptIs ==
  ASSUME NEW s, Len(s) \in Nat
  PROVE  /\ Kept(s)[0] = <<>>
         /\ \A k \in 0 .. Len(s) :
               k # 0 => Kept(s)[k] = KeptStep(Kept(s)[k - 1], s[k])
  <1>1. \E g : g = [k \in 0 .. Len(s) |->
                       IF k = 0 THEN <<>>
                       ELSE IF s[k] \in {NL, CR} THEN g[k - 1]
                       ELSE Append(g[k - 1], s[k])]
    BY KeptExists DEF IsKept
  <1>2. Kept(s) = [k \in 0 .. Len(s) |->
                       IF k = 0 THEN <<>>
                       ELSE IF s[k] \in {NL, CR} THEN Kept(s)[k - 1]
                       ELSE Append(Kept(s)[k - 1], s[k])]
    BY <1>1, Zenon DEF Kept
  <1>3. \A k \in 0 .. Len(s) :
           Kept(s)[k] = IF k = 0 THEN <<>>
                       ELSE IF s[k] \in {NL, CR} THEN Kept(s)[k - 1]
                       ELSE Append(Kept(s)[k - 1], s[k])
    BY <1>2, Zenon
  <1>4. 0 \in 0 .. Len(s)
    OBVIOUS
  <1> QED
    BY <1>3, <1>4, Zenon DEF KeptStep

LEMMA KeptNext ==
  ASSUME NEW s \in Seq(Int), NEW k \in Nat, k < Len(s)
  PROVE  Kept(s)[k + 1] = KeptStep(Kept(s)[k], s[k + 1])
  <1> DEFINE j == k + 1
  <1>1. j \in 0 .. Len(s) /\ j # 0 /\ j - 1 = k
    OBVIOUS
  <1> HIDE DEF j
  <1>2. Kept(s)[j] = KeptStep(Kept(s)[j - 1], s[j])
    BY <1>1, KeptIs
  <1> QED
    BY <1>1, <1>2 DEF j

LEMMA KeptType ==
  ASSUME NEW s \in Seq(Int)
  PROVE  \A k \in 0 .. Len(s) : Kept(s)[k] \in Seq(Int)
  <1> DEFINE Good == {k \in Nat : k <= Len(s) => Kept(s)[k] \in Seq(Int)}
  <1>1. 0 \in Good
    <2>1. Kept(s)[0] = <<>>
      BY KeptIs
    <2>2. Kept(s)[0] \in Seq(Int)
      BY <2>1
    <2> QED
      BY <2>2
  <1>2. ASSUME NEW k \in Nat, k \in Good
        PROVE  k + 1 \in Good
    <2>1. CASE k + 1 <= Len(s)
      <3>0. k < Len(s)
        BY <2>1
      <3>1. Kept(s)[k + 1] = KeptStep(Kept(s)[k], s[k + 1])
        BY <3>0, KeptNext
      <3>2. Kept(s)[k] \in Seq(Int) /\ s[k + 1] \in Int
        BY <1>2, <2>1
      <3>3. ASSUME NEW u \in Seq(Int), NEW b \in Int
            PROVE  KeptStep(u, b) \in Seq(Int)
        <4>1. Append(u, b) \in Seq(Int)
          OBVIOUS
        <4> QED
          BY <4>1 DEF KeptStep
      <3>4. Kept(s)[k + 1] \in Seq(Int)
        BY <3>1, <3>2, <3>3
      <3> QED
        BY <3>4
    <2> QED
      BY <2>1
  <1> HIDE DEF Good
  <1>3. Nat \subseteq Good
    BY <1>1, <1>2, AllNumbers
  <1> QED
    BY <1>3 DEF Good

\* What is kept of the first bytes depends on them only.
LEMMA KeptSame ==
  ASSUME NEW s \in Seq(Int), NEW t \in Seq(Int), NEW m \in Nat,
         m <= Len(s), m <= Len(t), \A i \in 1 .. m : s[i] = t[i]
  PROVE  Kept(s)[m] = Kept(t)[m]
  <1> DEFINE Good == {k \in Nat : k <= m => Kept(s)[k] = Kept(t)[k]}
  <1>1. 0 \in Good
    BY KeptIs
  <1>2. ASSUME NEW k \in Nat, k \in Good
        PROVE  k + 1 \in Good
    <2>1. CASE k + 1 <= m
      <3>0. k < Len(s) /\ k < Len(t)
        BY <2>1
      <3>1. Kept(s)[k + 1] = KeptStep(Kept(s)[k], s[k + 1])
        BY <3>0, KeptNext
      <3>2. Kept(t)[k + 1] = KeptStep(Kept(t)[k], t[k + 1])
        BY <3>0, KeptNext
      <3>3. s[k + 1] = t[k + 1]
        BY <2>1
      <3> QED
        BY <1>2, <2>1, <3>1, <3>2, <3>3
    <2> QED
      BY <2>1
  <1> HIDE DEF Good
  <1>3. Nat \subseteq Good
    BY <1>1, <1>2, AllNumbers
  <1> QED
    BY <1>3 DEF Good

LEMMA AppendConcat ==
  ASSUME NEW u \in Seq(Int), NEW v \in Seq(Int), NEW b \in Int
  PROVE  Append(u \o v, b) = u \o Append(v, b)
  <1> DEFINE x == Append(u \o v, b)
             y == u \o Append(v, b)
  <1>1. x \in Seq(Int) /\ y \in Seq(Int)
    OBVIOUS
  <1>2. Len(x) = Len(u) + Len(v) + 1 /\ Len(y) = Len(u) + Len(v) + 1
    OBVIOUS
  <1>3. ASSUME NEW i \in 1 .. Len(u) + Len(v) + 1
        PROVE  x[i] = y[i]
    OBVIOUS
  <1> HIDE DEF x, y
  <1>4. x = y
    BY <1>1, <1>2, <1>3
  <1> QED
    BY <1>4 DEF x, y

LEMMA StrippedConcat ==
  ASSUME NEW s \in Seq(Int), NEW t \in Seq(Int)
  PROVE  /\ Stripped(s) \in Seq(Int)
         /\ Stripped(s \o t) = Stripped(s) \o Stripped(t)
  <1> DEFINE st == s \o t
             Good == {k \in Nat : k <= Len(t) =>
                         Kept(st)[Len(s) + k] = Stripped(s) \o Kept(t)[k]}
  <1>t. /\ st \in Seq(Int) /\ Len(st) = Len(s) + Len(t)
        /\ \A i \in 1 .. Len(s) : st[i] = s[i]
        /\ \A i \in 1 .. Len(t) : st[Len(s) + i] = t[i]
    OBVIOUS
  <1>s. Stripped(s) \in Seq(Int)
    BY KeptType DEF Stripped
  <1>1. 0 \in Good
    <2>1. Kept(st)[Len(s)] = Stripped(s)
      <3> DEFINE m == Len(s)
      <3>1. m \in Nat /\ m <= Len(st) /\ m <= Len(s) /\ st \in Seq(Int)
        BY <1>t
      <3>2. \A i \in 1 .. m : st[i] = s[i]
        BY <1>t
      <3> HIDE DEF st, m
      <3>3. Kept(st)[m] = Kept(s)[m]
        BY <3>1, <3>2, KeptSame
      <3> QED
        BY <3>3 DEF Stripped, m
    <2>2. Kept(t)[0] = <<>>
      BY KeptIs
    <2>3. Stripped(s) \o <<>> = Stripped(s)
      BY <1>s
    <2>4. Len(s) + 0 = Len(s)
      OBVIOUS
    <2> HIDE DEF st
    <2> QED
      BY <2>1, <2>2, <2>3, <2>4
  <1> HIDE DEF st
  <1>2. ASSUME NEW k \in Nat, k \in Good
        PROVE  k + 1 \in Good
    <2>1. CASE k + 1 <= Len(t)
      <3>0. k < Len(t)
        BY <2>1
      <3>1. Kept(t)[k + 1] = KeptStep(Kept(t)[k], t[k + 1])
        BY <3>0, KeptNext
      <3>2. Kept(st)[Len(s) + k + 1]
              = KeptStep(Kept(st)[Len(s) + k], st[Len(s) + k + 1])
        <4>1. Len(s) + k \in Nat /\ Len(s) + k < Len(st)
          BY <1>t, <2>1, SMTT(60)
        <4> QED
          BY <1>t, <4>1, KeptNext
      <3>3. st[Len(s) + k + 1] = t[k + 1] /\ t[k + 1] \in Int
        <4>1. Len(s) + k + 1 = Len(s) + (k + 1) /\ k + 1 \in 1 .. Len(t)
          BY <2>1
        <4> QED
          BY <1>t, <4>1, SMTT(60)
      <3>4. Kept(t)[k] \in Seq(Int)
        BY <2>1, KeptType
      <3>5. Kept(st)[Len(s) + k] = Stripped(s) \o Kept(t)[k]
        BY <1>2, <2>1
      <3>6. KeptStep(Stripped(s) \o Kept(t)[k], t[k + 1])
              = Stripped(s) \o KeptStep(Kept(t)[k], t[k + 1])
        BY <1>s, <3>3, <3>4, AppendConcat DEF KeptStep
      <3>7. Kept(st)[Len(s) + k + 1] = Stripped(s) \o Kept(t)[k + 1]
        BY <3>1, <3>2, <3>3, <3>5, <3>6
      <3>8. Len(s) + (k + 1) = Len(s) + k + 1
        OBVIOUS
      <3> QED
        BY <3>7, <3>8
    <2> QED
      BY <2>1
  <1> HIDE DEF Good
  <1>3. Nat \subseteq Good
    BY <1>1, <1>2, AllNumbers
  <1>4. Len(t) \in Good
    BY <1>3
  <1>5. Kept(st)[Len(s) + Len(t)] = Stripped(s) \o Kept(t)[Len(t)]
    BY <1>4 DEF Good
  <1>6. Stripped(st) = Stripped(s) \o Stripped(t)
    BY <1>t, <1>5 DEF Stripped
  <1> QED
    BY <1>s, <1>6 DEF st

LEMMA StrippedWhitespace ==
  ASSUME NEW s \in Seq(Int), \A i \in 1 .. Len(s) : s[i] \in {NL, CR}
  PROVE  Stripped(s) = <<>>
  <1> DEFINE Good == {k \in Nat : k <= Len(s) => Kept(s)[k] = <<>>}
  <1>1. 0 \in Good
    BY KeptIs
  <1>2. ASSUME NEW k \in Nat, k \in Good
        PROVE  k + 1 \in Good
    <2>1. CASE k + 1 <= Len(s)
      <3>0. k < Len(s)
        BY <2>1
      <3>1. Kept(s)[k + 1] = KeptStep(Kept(s)[k], s[k + 1])
        BY <3>0, KeptNext
      <3> QED
        BY <1>2, <2>1, <3>1 DEF KeptStep
    <2> QED
      BY <2>1
  <1> HIDE DEF Good
  <1>3. Nat \subseteq Good
    BY <1>1, <1>2, AllNumbers
  <1> QED
    BY <1>3 DEF Good, Stripped

-----------------------------------------------------------------------------
(* Places and slices *)

LEMMA BytesAreNumbers ==
  ASSUME NEW s \in Seq(Bytes)
  PROVE  s \in Seq(Int)
  <1>1. Len(s) \in Nat /\ s \in [1 .. Len(s) -> Bytes]
    OBVIOUS
  <1>2. s \in [1 .. Len(s) -> Int]
    BY <1>1, ByteTypes
  <1> QED
    BY <1>1, <1>2

LEMMA Places ==
  ASSUME TypeOK
  PROVE  /\ blob \in Seq(Int) /\ cert \in Seq(Int)
         /\ Len(blob) \in Nat /\ Len(blob) > SliceLen
         /\ LastPlace = Len(blob) - 1
         /\ ToStuff \in 0 .. Len(blob) - SliceLen
         /\ FrontPlace \in 0 .. ToStuff
         /\ firstSliceLen \in 0 .. SliceLen - 1
         /\ start \in Int
  <1>1. blob \in Seq(Bytes) /\ cert \in Seq(Bytes)
    BY StuffingAssumption DEF TypeOK, Bytes
  <1>3. Len(blob) \in Nat /\ Len(cert) \in Nat
    BY <1>1
  <1>4. Len(blob) > SliceLen /\ Len(cert) >= SliceLen
    BY StuffingAssumption DEF TypeOK
  <1>5. stuffed \in 0 .. ToStuff
    BY DEF TypeOK
  <1>6. blob \in Seq(Int) /\ cert \in Seq(Int)
    BY <1>1, BytesAreNumbers
  <1>7. ToStuff \in 0 .. Len(blob) - SliceLen /\ FrontPlace \in 0 .. ToStuff
    BY <1>3, <1>4, <1>5, ByteTypes DEF ToStuff, FrontPlace
  <1>8. firstSliceLen \in 0 .. SliceLen - 1 /\ start \in Int
    <2>1. start \in -SliceLen .. LastPlace
      BY DEF TypeOK
    <2> QED
      BY <2>1, <1>3, ByteTypes DEF TypeOK, LastPlace
  <1> QED
    BY <1>3, <1>4, <1>6, <1>7, <1>8 DEF LastPlace

OnGrid(i) == \E k \in Int : i = firstSliceLen + k * SliceLen

LEMMA GridMoves ==
  ASSUME NEW i \in Int, firstSliceLen \in Int, OnGrid(i)
  PROVE  OnGrid(i + SliceLen) /\ OnGrid(i - SliceLen)
  <1>1. PICK k \in Int : i = firstSliceLen + k * SliceLen
    BY DEF OnGrid
  <1>2. /\ i + SliceLen = firstSliceLen + (k + 1) * SliceLen
        /\ i - SliceLen = firstSliceLen + (k - 1) * SliceLen
    BY <1>1, ByteTypes
  <1> QED
    BY <1>2 DEF OnGrid

LEMMA GridApart ==
  ASSUME NEW i \in Int, NEW j \in Int, firstSliceLen \in Int,
         OnGrid(i), OnGrid(j), i < j
  PROVE  i + SliceLen <= j
  <1>1. PICK k \in Int : i = firstSliceLen + k * SliceLen
    BY DEF OnGrid
  <1>2. PICK l \in Int : j = firstSliceLen + l * SliceLen
    BY DEF OnGrid
  <1>3. j - i = (l - k) * SliceLen
    BY <1>1, <1>2, ByteTypes
  <1>4. l - k > 0
    BY <1>3, ByteTypes
  <1>5. (l - k) * SliceLen >= SliceLen
    BY <1>4, ByteTypes
  <1> QED
    BY <1>3, <1>5, ByteTypes

LEMMA GridRemainder ==
  ASSUME NEW i \in Int, firstSliceLen \in Int
  PROVE  (i - firstSliceLen) % SliceLen = 0 <=> OnGrid(i)
  <1> DEFINE x == i - firstSliceLen
             q == x \div SliceLen
             r == x % SliceLen
  <1>1. q \in Int /\ r \in 0 .. SliceLen - 1 /\ x = q * SliceLen + r
    BY ByteTypes, QuotientOf
  <1>2. i = firstSliceLen + x /\ x \in Int
    OBVIOUS
  <1> HIDE DEF x, q, r
  <1>3. ASSUME r = 0
        PROVE  OnGrid(i)
    <2>1. i = firstSliceLen + q * SliceLen
      BY <1>1, <1>2, <1>3, ByteTypes
    <2> QED
      BY <1>1, <2>1 DEF OnGrid
  <1>4. ASSUME NEW k \in Int, i = firstSliceLen + k * SliceLen
        PROVE  r = 0
    <2>1. r = (k - q) * SliceLen
      BY <1>1, <1>2, <1>4, ByteTypes
    <2>2. k - q < 1 /\ k - q > -1
      BY <1>1, <2>1, ByteTypes
    <2>3. k - q = 0
      BY <1>1, <2>2
    <2> QED
      BY <2>1, <2>3, ByteTypes
  <1> QED
    BY <1>3, <1>4 DEF OnGrid, r, x

LEMMA SliceStartIff ==
  ASSUME TypeOK, NEW s
  PROVE  s \in SliceStarts <=>
            s = 0 \/ (s \in firstSliceLen .. LastPlace /\ OnGrid(s))
  <1>1. \A i \in firstSliceLen .. LastPlace :
           i \in Int /\ firstSliceLen \in Int
    BY Places
  <1>2. \A i \in firstSliceLen .. LastPlace :
           (i - firstSliceLen) % SliceLen = 0 <=> OnGrid(i)
    BY <1>1, GridRemainder
  <1> QED
    BY <1>2 DEF SliceStarts

LEMMA FirstOnGrid ==
  ASSUME TypeOK
  PROVE  OnGrid(firstSliceLen)
  <1>1. firstSliceLen = firstSliceLen + 0 * SliceLen
    BY Places, ByteTypes
  <1> QED
    BY <1>1 DEF OnGrid

\* Where a slice ends, the next one starts, or the blob ends.
LEMMA SliceEnds ==
  ASSUME TypeOK, NEW s \in SliceStarts
  PROVE  /\ s \in 0 .. LastPlace /\ SliceEnd(s) \in s .. LastPlace
         /\ s >= firstSliceLen => OnGrid(s)
         /\ SliceEnd(s) < s + SliceLen
         /\ \/ SliceEnd(s) + 1 = Len(blob)
            \/ /\ SliceEnd(s) + 1 \in SliceStarts
               /\ SliceEnd(s) + 1 >= firstSliceLen
               /\ s >= firstSliceLen => SliceEnd(s) + 1 = s + SliceLen
  <1>p. /\ Len(blob) \in Nat /\ Len(blob) > SliceLen /\ LastPlace = Len(blob) - 1
        /\ firstSliceLen \in 0 .. SliceLen - 1 /\ SliceLen \in Nat
    BY Places, ByteTypes
  <1>s. /\ s \in Int
        /\ s = 0 \/ (s \in firstSliceLen .. LastPlace /\ OnGrid(s))
    BY <1>p, SliceStartIff
  <1>1. CASE s < firstSliceLen
    <2>1. s = 0
      BY <1>1, <1>p, <1>s
    <2>2. SliceEnd(s) = firstSliceLen - 1
      BY <1>1 DEF SliceEnd
    <2>3. firstSliceLen \in firstSliceLen .. LastPlace
      BY <1>p
    <2>4. firstSliceLen \in SliceStarts
      BY <2>3, FirstOnGrid, SliceStartIff
    <2>5. SliceEnd(s) + 1 = firstSliceLen
      BY <1>p, <2>2
    <2> QED
      BY <1>p, <1>1, <2>1, <2>2, <2>4, <2>5
  <1>2. CASE s >= firstSliceLen
    <2>1. s \in firstSliceLen .. LastPlace /\ OnGrid(s)
      <3>1. CASE s = 0
        <4>1. firstSliceLen = s
          BY <1>p, <1>2, <3>1
        <4> QED
          BY <1>p, <3>1, <4>1, FirstOnGrid
      <3>2. CASE s # 0
        BY <1>s, <3>2
      <3> QED
        BY <3>1, <3>2
    <2>2. SliceEnd(s) = (IF s + SliceLen < Len(blob) THEN s + SliceLen
                         ELSE Len(blob)) - 1
      BY <1>p, <1>s, <1>2 DEF SliceEnd, Minimum
    <2>3. CASE s + SliceLen < Len(blob)
      <3>1. SliceEnd(s) + 1 = s + SliceLen
        BY <1>p, <1>s, <2>2, <2>3
      <3>2. OnGrid(s + SliceLen)
        BY <1>p, <1>s, <2>1, GridMoves
      <3>3. s + SliceLen \in firstSliceLen .. LastPlace
        BY <1>p, <1>s, <2>1, <2>3
      <3>4. s + SliceLen \in SliceStarts
        BY <3>2, <3>3, SliceStartIff
      <3>5. SliceEnd(s) \in s .. LastPlace /\ SliceEnd(s) < s + SliceLen
        BY <1>p, <1>s, <2>2, <2>3
      <3>6. s \in 0 .. LastPlace /\ s + SliceLen >= firstSliceLen
        BY <1>p, <2>1
      <3> QED
        BY <1>2, <2>1, <3>1, <3>4, <3>5, <3>6
    <2>4. CASE ~ (s + SliceLen < Len(blob))
      <3>1. /\ s \in 0 .. LastPlace /\ SliceEnd(s) \in s .. LastPlace
            /\ SliceEnd(s) < s + SliceLen /\ SliceEnd(s) + 1 = Len(blob)
        BY <1>p, <1>s, <2>1, <2>2, <2>4
      <3> QED
        BY <2>1, <3>1
    <2> QED
      BY <2>3, <2>4
  <1> QED
    BY <1>p, <1>s, <1>1, <1>2

LEMMA SlicesApart ==
  ASSUME TypeOK, NEW r \in SliceStarts, NEW s \in SliceStarts,
         r < s
  PROVE  SliceEnd(r) < s
  <1>p. /\ firstSliceLen \in Nat /\ SliceLen \in Nat
        /\ r \in Nat /\ s \in Nat /\ SliceEnd(r) \in Int
        /\ r >= firstSliceLen => OnGrid(r)
        /\ SliceEnd(r) < r + SliceLen
    <2>1. firstSliceLen \in Nat /\ SliceLen \in Nat /\ LastPlace \in Nat
      BY Places, ByteTypes
    <2>2. r \in 0 .. LastPlace /\ s \in 0 .. LastPlace
      BY SliceEnds
    <2>3. SliceEnd(r) \in r .. LastPlace
      BY SliceEnds
    <2>4. /\ r >= firstSliceLen => OnGrid(r)
          /\ SliceEnd(r) < r + SliceLen
      BY SliceEnds
    <2> QED
      BY <2>1, <2>2, <2>3, <2>4
  <1>1. s >= firstSliceLen /\ OnGrid(s)
    <2>1. s # 0
      BY <1>p
    <2>2. s \in firstSliceLen .. LastPlace /\ OnGrid(s)
      BY <2>1, SliceStartIff
    <2>3. LastPlace \in Int
      BY Places
    <2> QED
      BY <1>p, <2>2, <2>3
  <1>2. CASE r < firstSliceLen
    <2>1. SliceEnd(r) = firstSliceLen - 1
      BY <1>2 DEF SliceEnd
    <2> QED
      BY <1>p, <1>1, <2>1
  <1>3. CASE r >= firstSliceLen
    <2>1. r + SliceLen <= s
      BY <1>p, <1>1, <1>3, GridApart
    <2> QED
      BY <1>p, <2>1
  <1> QED
    BY <1>p, <1>2, <1>3

\* The front of the certificate is in one slice at most.
LEMMA FrontSliceIs ==
  ASSUME TypeOK, Straddled # {}
  PROVE  /\ FrontSlice \in SliceStarts
         /\ FrontSlice < FrontPlace /\ FrontPlace <= SliceEnd(FrontSlice)
         /\ \A s \in SliceStarts : s # FrontSlice =>
               s >= FrontPlace \/ SliceEnd(s) < FrontPlace
  <1>p. /\ FrontPlace \in Int
        /\ \A s \in SliceStarts : s \in Int /\ SliceEnd(s) \in Int
    <2>1. FrontPlace \in Int /\ LastPlace \in Int
      BY Places
    <2>2. \A s \in SliceStarts : s \in 0 .. LastPlace /\ SliceEnd(s) \in s .. LastPlace
      BY SliceEnds
    <2> QED
      BY <2>1, <2>2
  <1>1. PICK f \in Straddled : TRUE
    OBVIOUS
  <1>2. \A r, s \in Straddled : ~ (r < s)
    BY <1>p, SlicesApart DEF Straddled
  <1>3. \A s \in Straddled : s = f
    <2> TAKE s \in Straddled
    <2>1. s \in Int /\ f \in Int
      BY <1>1, <1>p DEF Straddled
    <2> QED
      BY <1>1, <1>2, <2>1
  <1>4. f >= f
    BY <1>1, <1>p DEF Straddled
  <1>5. FrontSlice \in Straddled
    BY <1>1, <1>3, <1>4 DEF FrontSlice, Max
  <1>6. FrontSlice \in SliceStarts
    BY <1>5 DEF Straddled
  <1>7. ASSUME NEW s \in SliceStarts, s # FrontSlice
        PROVE  s >= FrontPlace \/ SliceEnd(s) < FrontPlace
    <2>1. s \notin Straddled
      BY <1>3, <1>5, <1>7
    <2> QED
      BY <1>p, <2>1 DEF Straddled
  <1> QED
    BY <1>5, <1>6, <1>7 DEF Straddled

-----------------------------------------------------------------------------
(* Balanced slices, and what is behind them *)

\* A blob that could take the place of the original.
Sized(t) == t \in Seq(Int) /\ Len(t) = Len(blob)

InBlob(a, b) == a \in Nat /\ b \in Int /\ a <= b + 1 /\ b < Len(blob)

TailBalanced(t, p) == Cong(Sum(t, p, LastPlace), Sum(blob, p, LastPlace))

LEMMA BalancedIff ==
  ASSUME TypeOK, NEW t, Sized(t), NEW a, NEW b, InBlob(a, b)
  PROVE  /\ Sum(t, a, b) \in Int /\ Sum(blob, a, b) \in Int
         /\ Balanced(t, a, b) <=> Cong(Sum(t, a, b), Sum(blob, a, b))
  <1>1. blob \in Seq(Int)
    BY Places
  <1>2. Within(t, a, b) /\ Within(blob, a, b)
    BY DEF Within, InBlob, Sized
  <1>3. Sum(t, a, b) \in Int /\ Sum(blob, a, b) \in Int
    BY <1>1, <1>2, SumType DEF Sized
  <1>4. Balanced(t, a, b) <=> Sum(t, a, b) % W = Sum(blob, a, b) % W
    BY DEF Balanced
  <1> QED
    BY <1>3, <1>4, CongIff

LEMMA BalancedSame ==
  ASSUME TypeOK, NEW t, Sized(t), NEW u, Sized(u), NEW a, NEW b, InBlob(a, b),
         \A i \in a .. b : At(t, i) = At(u, i)
  PROVE  Sum(t, a, b) = Sum(u, a, b) /\ (Balanced(t, a, b) <=> Balanced(u, a, b))
  <1>1. Within(t, a, b) /\ Within(u, a, b)
    BY DEF Within, InBlob, Sized
  <1>2. Sum(t, a, b) = Sum(u, a, b)
    BY <1>1, SumSame DEF Sized
  <1> QED
    BY <1>2 DEF Balanced

LEMMA TailAtEnd ==
  ASSUME TypeOK, NEW t, Sized(t)
  PROVE  TailBalanced(t, Len(blob))
  <1>1. blob \in Seq(Int) /\ Len(blob) \in Nat /\ LastPlace = Len(blob) - 1
    BY Places
  <1>2. Sum(t, Len(blob), LastPlace) = 0 /\ Sum(blob, Len(blob), LastPlace) = 0
    BY <1>1, SumEmpty DEF Sized
  <1>3. Cong(0, 0)
    BY CongRefl
  <1> QED
    BY <1>2, <1>3 DEF TailBalanced

\* The tail from a, split behind b.
LEMMA TailSplit ==
  ASSUME TypeOK, NEW t, Sized(t), NEW a \in Nat, NEW b \in Int,
         a <= b + 1, b <= LastPlace
  PROVE  /\ InBlob(a, b) /\ InBlob(b + 1, LastPlace) /\ InBlob(a, LastPlace)
         /\ Sum(t, a, b) \in Int /\ Sum(t, b + 1, LastPlace) \in Int
         /\ Sum(t, a, LastPlace) \in Int
         /\ Sum(t, a, LastPlace) = Sum(t, a, b) + Sum(t, b + 1, LastPlace)
  <1>1. Len(blob) \in Nat /\ LastPlace = Len(blob) - 1
    BY Places
  <1>2. InBlob(a, b) /\ InBlob(b + 1, LastPlace) /\ InBlob(a, LastPlace)
    BY <1>1 DEF InBlob
  <1>3. Within(t, a, b) /\ Within(t, b + 1, LastPlace)
    BY <1>2 DEF Within, InBlob, Sized
  <1>4. /\ Sum(t, a, b) \in Int /\ Sum(t, b + 1, LastPlace) \in Int
        /\ Sum(t, a, LastPlace) \in Int
    BY <1>2, BalancedIff
  <1>5. PICK c \in Int : c = LastPlace
    BY <1>1
  <1>6. PICK d \in Nat : d = b + 1
    OBVIOUS
  <1>7. Within(t, a, b) /\ Within(t, d, c) /\ t \in Seq(Int)
    BY <1>3, <1>5, <1>6 DEF Sized
  <1>8. Sum(t, a, c) = Sum(t, a, b) + Sum(t, d, c)
    BY <1>6, <1>7, SumParts
  <1> QED
    BY <1>2, <1>4, <1>5, <1>6, <1>8

LEMMA TailExtends ==
  ASSUME TypeOK, NEW t, Sized(t), NEW a \in Nat, NEW b \in Int,
         a <= b + 1, b <= LastPlace, TailBalanced(t, b + 1)
  PROVE  Balanced(t, a, b) <=> TailBalanced(t, a)
  <1>0. Sized(blob)
    BY Places DEF Sized
  <1> DEFINE x == Sum(t, a, b)
             y == Sum(t, b + 1, LastPlace)
             u == Sum(blob, a, b)
             v == Sum(blob, b + 1, LastPlace)
  <1>1. x \in Int /\ y \in Int /\ Sum(t, a, LastPlace) = x + y
    BY TailSplit
  <1>2. u \in Int /\ v \in Int /\ Sum(blob, a, LastPlace) = u + v
    BY <1>0, TailSplit
  <1>3. Cong(y, v)
    BY DEF TailBalanced
  <1>4. Balanced(t, a, b) <=> Cong(x, u)
    BY TailSplit, BalancedIff
  <1>5. TailBalanced(t, a) <=> Cong(x + y, u + v)
    BY <1>1, <1>2 DEF TailBalanced
  <1> HIDE DEF x, y, u, v
  <1>6. Cong(x, u) => Cong(x + y, u + v)
    BY <1>1, <1>2, <1>3, CongAdd
  <1>7. ASSUME Cong(x + y, u + v)
        PROVE  Cong(x, u)
    <2>1. x + y \in Int /\ u + v \in Int /\ (x + y) - y = x /\ (u + v) - v = u
      BY <1>1, <1>2
    <2>2. Cong((x + y) - y, (u + v) - v)
      BY <1>1, <1>2, <1>3, <1>7, <2>1, CongSub
    <2> QED
      BY <2>1, <2>2
  <1> QED
    BY <1>4, <1>5, <1>6, <1>7

LEMMA TailSame ==
  ASSUME TypeOK, NEW t, Sized(t), NEW u, Sized(u), NEW a \in Nat,
         a <= Len(blob), \A i \in a .. LastPlace : At(t, i) = At(u, i)
  PROVE  TailBalanced(t, a) <=> TailBalanced(u, a)
  <1>1. InBlob(a, LastPlace)
    BY Places DEF InBlob
  <1>2. Sum(t, a, LastPlace) = Sum(u, a, LastPlace)
    BY <1>1, BalancedSame
  <1> QED
    BY <1>2 DEF TailBalanced

\* One byte takes from its neighbour.
LEMMA SumSpoiled ==
  ASSUME NEW t \in Seq(Int), NEW u \in Seq(Int), NEW a, NEW b,
         Within(t, a, b), Within(u, a, b), NEW i \in a .. b - 1,
         \A j \in a .. b : j \notin {i, i + 1} => At(t, j) = At(u, j),
         At(t, i) = (At(u, i) + 1) % W,
         At(t, i + 1) = (At(u, i + 1) - 1) % W
  PROVE  Cong(Sum(t, a, b), Sum(u, a, b))
  <1>r. a \in Nat /\ b \in Int /\ i \in Nat /\ a <= i /\ i < b
    BY DEF Within
  <1>w. /\ Within(t, a, i - 1) /\ Within(t, (i - 1) + 1, b)
        /\ Within(u, a, i - 1) /\ Within(u, (i - 1) + 1, b)
        /\ Within(t, i, i) /\ Within(t, i + 1, b)
        /\ Within(u, i, i) /\ Within(u, i + 1, b)
        /\ Within(t, i + 1, i + 1) /\ Within(t, (i + 1) + 1, b)
        /\ Within(u, i + 1, i + 1) /\ Within(u, (i + 1) + 1, b)
    BY <1>r DEF Within
  <1>l. i < Len(t) /\ i + 1 < Len(t) /\ i < Len(u) /\ i + 1 < Len(u)
    BY <1>r DEF Within
  <1>1. Sum(t, a, i - 1) = Sum(u, a, i - 1) /\ Sum(u, a, i - 1) \in Int
    <2> DEFINE h == i - 1
    <2>1. \A j \in a .. h : At(t, j) = At(u, j)
      BY <1>r
    <2>2. Within(t, a, h) /\ Within(u, a, h)
      BY <1>w
    <2> HIDE DEF h
    <2>3. Sum(t, a, h) = Sum(u, a, h) /\ Sum(u, a, h) \in Int
      BY <2>1, <2>2, SumSame, SumType
    <2> QED
      BY <2>3 DEF h
  <1>2. /\ Sum(t, i + 2, b) = Sum(u, i + 2, b) /\ Sum(u, i + 2, b) \in Int
    <2>0. (i + 1) + 1 = i + 2
      BY <1>r
    <2> DEFINE h == i + 2
    <2>1. \A j \in h .. b : At(t, j) = At(u, j)
      BY <1>r
    <2>2. Within(t, h, b) /\ Within(u, h, b)
      BY <1>w, <2>0
    <2> HIDE DEF h
    <2>3. Sum(t, h, b) = Sum(u, h, b) /\ Sum(u, h, b) \in Int
      BY <2>1, <2>2, SumSame, SumType
    <2> QED
      BY <2>3 DEF h
  <1>3. ASSUME NEW s \in Seq(Int), Within(s, a, b), NEW k \in Nat, k < Len(s)
        PROVE  At(s, k) \in Int /\ Sum(s, k, k) = At(s, k)
    <2>1. k + 0 < Len(s) /\ k + 0 = k /\ k + 0 - 1 = k - 1 /\ k <= Len(s)
      BY <1>3
    <2>2. At(s, k + 0) \in Int /\ Sum(s, k, k + 0) = Sum(s, k, k + 0 - 1) + At(s, k + 0)
      BY <2>1, SumNext
    <2>3. Sum(s, k, k - 1) = 0
      BY <2>1, SumEmpty
    <2> QED
      BY <2>1, <2>2, <2>3
  <1>4. ASSUME NEW s \in Seq(Int), Within(s, a, b), i + 1 < Len(s)
        PROVE  Sum(s, a, b) = Sum(s, a, i - 1) + (At(s, i) + (At(s, i + 1)
                                + Sum(s, i + 2, b)))
    <2> DEFINE h == i - 1
               k == i + 1
               l == i + 2
    <2>w. /\ Within(s, a, h) /\ Within(s, i, b) /\ Within(s, i, i)
          /\ Within(s, k, b) /\ Within(s, k, k) /\ Within(s, l, b)
          /\ i = h + 1 /\ k = i + 1 /\ l = k + 1
      BY <1>r, <1>4 DEF Within
    <2> HIDE DEF h, k, l
    <2>1. Sum(s, a, b) = Sum(s, a, h) + Sum(s, i, b)
      BY <1>4, <2>w, SumSplit
    <2>2. Sum(s, i, b) = Sum(s, i, i) + Sum(s, k, b)
      BY <1>4, <2>w, SumSplit
    <2>3. Sum(s, k, b) = Sum(s, k, k) + Sum(s, l, b)
      BY <1>4, <2>w, SumSplit
    <2>4. Sum(s, i, i) = At(s, i)
      BY <1>r, <1>3, <1>4
    <2>5. Sum(s, k, k) = At(s, k)
      BY <1>r, <1>3, <1>4, <2>w
    <2> QED
      BY <2>1, <2>2, <2>3, <2>4, <2>5 DEF h, k, l
  <1>5. At(u, i) \in Int /\ At(u, i + 1) \in Int
    BY <1>r, <1>l, <1>3
  <1> DEFINE x == At(u, i)
             y == At(u, i + 1)
             c == Sum(u, a, i - 1)
             d == Sum(u, i + 2, b)
  <1>6. Sum(u, a, b) = c + (x + (y + d))
    BY <1>l, <1>4
  <1>7. Sum(t, a, b) = c + (((x + 1) % W) + (((y - 1) % W) + d))
    BY <1>l, <1>1, <1>2, <1>4
  <1>8. c \in Int /\ d \in Int /\ x \in Int /\ y \in Int
    BY <1>1, <1>2, <1>5
  <1> HIDE DEF c, d, x, y
  <1>9. PICK v \in Int : v = (x + 1) % W /\ Cong(v, x + 1)
    <2>1. x + 1 \in Int
      BY <1>8
    <2> QED
      BY <2>1, CongMod
  <1>10. PICK w \in Int : w = (y - 1) % W /\ Cong(w, y - 1)
    <2>1. y - 1 \in Int
      BY <1>8
    <2> QED
      BY <2>1, CongMod
  <1>11. PICK k \in Int : v = x + 1 + k * W
    BY <1>9 DEF Cong
  <1>12. PICK l \in Int : w = y - 1 + l * W
    BY <1>10 DEF Cong
  <1>13. c + (v + (w + d)) = (c + (x + (y + d))) + (k + l) * W
    BY <1>8, <1>11, <1>12, ByteTypes
  <1>14. k + l \in Int
    OBVIOUS
  <1> QED
    BY <1>6, <1>7, <1>9, <1>10, <1>13, <1>14 DEF Cong

-----------------------------------------------------------------------------
(* What the steps write *)

\* A function on the places of a blob is one.
LEMMA SeqOfPlaces ==
  ASSUME NEW n \in Nat, NEW f, f \in [1 .. n -> Bytes]
  PROVE  f \in Seq(Bytes) /\ Len(f) = n
  OBVIOUS

LEMMA BytePlace ==
  ASSUME NEW s \in Seq(Bytes), NEW i \in 0 .. Len(s) - 1
  PROVE  At(s, i) \in Bytes
  BY DEF At

LEMMA ModIsByte ==
  ASSUME NEW x \in Int
  PROVE  x % W \in Bytes
  <1>1. W \in Nat /\ W > 0
    BY ByteTypes
  <1>2. x % W \in 0 .. W - 1
    BY <1>1, QuotientOf
  <1> QED
    BY <1>2 DEF Bytes

\* The place of the first of the two bytes that are spoiled.
SpoiledPlace == IF firstSliceLen > 2 THEN 0 ELSE 3
Placed == SubSeq(blob, 1, ToStuff) \o cert

LEMMA PlacedIs ==
  ASSUME TypeOK
  PROVE  /\ Placed \in Seq(Bytes) /\ Len(Placed) = Len(blob)
         /\ \A i \in 0 .. LastPlace :
               At(Placed, i) = IF i < ToStuff THEN At(blob, i)
                                              ELSE cert[i - ToStuff + 1]
         /\ SubSeq(Placed, ToStuff + 1, Len(blob)) = cert
  <1>p. /\ Len(blob) \in Nat /\ LastPlace = Len(blob) - 1
        /\ ToStuff \in 0 .. Len(blob) - SliceLen /\ SliceLen \in Nat
    BY Places, ByteTypes
  <1>1. blob \in Seq(Bytes) /\ cert \in Seq(Bytes)
    BY StuffingAssumption DEF TypeOK, Bytes
  <1>2. Len(cert) \in Nat /\ ToStuff = Len(blob) - Len(cert)
    BY <1>1 DEF ToStuff
  <1>3. /\ SubSeq(blob, 1, ToStuff) \in Seq(Bytes)
        /\ Len(SubSeq(blob, 1, ToStuff)) = ToStuff
        /\ \A i \in 1 .. ToStuff : SubSeq(blob, 1, ToStuff)[i] = blob[i]
    BY <1>p, <1>1
  <1> DEFINE front == SubSeq(blob, 1, ToStuff)
  <1> HIDE DEF front
  <1>4. /\ front \o cert \in Seq(Bytes)
        /\ Len(front \o cert) = Len(blob)
        /\ \A i \in 1 .. Len(blob) : (front \o cert)[i] =
              IF i <= ToStuff THEN front[i] ELSE cert[i - ToStuff]
    BY <1>p, <1>1, <1>2, <1>3 DEF front
  <1>5. \A i \in 0 .. LastPlace :
           At(front \o cert, i) = IF i < ToStuff THEN At(blob, i)
                                                 ELSE cert[i - ToStuff + 1]
    <2> SUFFICES ASSUME NEW i \in 0 .. LastPlace
                 PROVE  At(front \o cert, i) =
                           IF i < ToStuff THEN At(blob, i)
                                          ELSE cert[i - ToStuff + 1]
      OBVIOUS
    <2>1. i + 1 \in 1 .. Len(blob) /\ (i + 1) - ToStuff = i - ToStuff + 1
      BY <1>p
    <2>2. CASE i < ToStuff
      <3>1. i + 1 \in 1 .. ToStuff
        BY <1>p, <2>2
      <3> QED
        BY <1>3, <1>4, <2>1, <2>2, <3>1 DEF At, front
    <2>3. CASE ~(i < ToStuff)
      <3>1. ~(i + 1 <= ToStuff)
        BY <1>p, <2>3
      <3>2. (front \o cert)[i + 1] = cert[(i + 1) - ToStuff]
        BY <1>4, <2>1, <3>1
      <3> QED
        BY <2>1, <2>3, <3>2 DEF At
    <2> QED
      BY <2>2, <2>3
  <1>6. SubSeq(front \o cert, ToStuff + 1, Len(blob)) = cert
    <2> DEFINE all == front \o cert
               m == ToStuff + 1
               n == Len(blob)
    <2>0. /\ m \in Int /\ n \in Int /\ 1 <= m /\ m <= n + 1 /\ n <= Len(all)
          /\ n - m + 1 = Len(cert) /\ all \in Seq(Bytes)
      BY <1>p, <1>2, <1>4
    <2>3. \A i \in 1 .. Len(cert) : all[i + m - 1] = cert[i]
      <3> SUFFICES ASSUME NEW i \in 1 .. Len(cert)
                   PROVE  all[i + m - 1] = cert[i]
        OBVIOUS
      <3>1. /\ i + m - 1 = ToStuff + i /\ ToStuff + i \in 1 .. Len(blob)
            /\ ~(ToStuff + i <= ToStuff) /\ (ToStuff + i) - ToStuff = i
        BY <1>p, <1>2
      <3> QED
        BY <1>4, <3>1
    <2> HIDE DEF all, m, n
    <2>1. /\ SubSeq(all, m, n) \in Seq(Bytes)
          /\ Len(SubSeq(all, m, n)) = Len(cert)
          /\ \A i \in 1 .. Len(cert) : SubSeq(all, m, n)[i] = all[i + m - 1]
      BY <1>2, <2>0
    <2> DEFINE u == SubSeq(all, m, n)
    <2>4. \A i \in 1 .. Len(cert) : u[i] = cert[i]
      BY <2>1, <2>3
    <2>5. u \in Seq(Bytes) /\ Len(u) = Len(cert)
      BY <2>1
    <2> HIDE DEF u
    <2>6. u = cert
      BY <1>1, <2>4, <2>5
    <2>2. SubSeq(all, m, n) = cert
      BY <2>6 DEF u
    <2> QED
      BY <2>2 DEF all, m, n
  <1> QED
    BY <1>4, <1>5, <1>6 DEF Placed, front

LEMMA PlaceIs ==
  ASSUME TypeOK, Place
  PROVE  /\ newBlob' \in Seq(Bytes) /\ Len(newBlob') = Len(blob)
         /\ SpoiledPlace + 1 \in 1 .. LastPlace /\ SpoiledPlace <= 3
         /\ \A i \in 0 .. LastPlace :
               At(newBlob', i) =
                  IF i = SpoiledPlace THEN (At(Placed, i) + 1) % W
                  ELSE IF i = SpoiledPlace + 1 THEN (At(Placed, i) - 1) % W
                  ELSE At(Placed, i)
  <1>p. /\ Len(blob) \in Nat /\ LastPlace = Len(blob) - 1
        /\ Len(blob) > SliceLen /\ SliceLen \in Nat /\ SliceLen > 4
    BY Places, ByteTypes
  <1>1. SpoiledPlace \in {0, 3} /\ SpoiledPlace + 1 \in 1 .. LastPlace
    BY <1>p DEF SpoiledPlace
  <1>2. newBlob' = [Placed EXCEPT ![SpoiledPlace + 1] = (@ + 1) % W,
                                  ![SpoiledPlace + 2] = (@ - 1) % W]
    <2> DEFINE i == IF firstSliceLen > 2 THEN 0 ELSE 3
               j == IF firstSliceLen > 2 THEN 1 ELSE 4
    <2>1. newBlob' = [Placed EXCEPT ![i + 1] = (@ + 1) % W,
                                    ![j + 1] = (@ - 1) % W]
      BY Zenon DEF Place, Placed
    <2>2. i = SpoiledPlace /\ j + 1 = SpoiledPlace + 2
      BY DEF SpoiledPlace
    <2> HIDE DEF i, j
    <2> QED
      BY <2>1, <2>2
  <1>3. Placed \in Seq(Bytes) /\ Len(Placed) = Len(blob)
    BY PlacedIs
  <1> DEFINE p == Placed
             m == SpoiledPlace
  <1>4. m \in Nat /\ m + 1 \in 1 .. Len(blob) /\ m + 2 \in 1 .. Len(blob)
    BY <1>p, <1>1
  <1> HIDE DEF p, m
  <1>5. /\ DOMAIN newBlob' = 1 .. Len(blob)
        /\ \A j \in 1 .. Len(blob) : newBlob'[j] =
              IF j = m + 1 THEN (p[j] + 1) % W
              ELSE IF j = m + 2 THEN (p[j] - 1) % W
              ELSE p[j]
    BY <1>2, <1>3, <1>4 DEF p, m
  <1>6. p[m + 1] \in Bytes /\ p[m + 2] \in Bytes /\ Bytes \subseteq Int
    BY <1>3, <1>4, ByteTypes DEF p
  <1>7. (p[m + 1] + 1) % W \in Bytes /\ (p[m + 2] - 1) % W \in Bytes
    <2> DEFINE x == p[m + 1]
               y == p[m + 2]
    <2>1. x \in Int /\ y \in Int
      BY <1>6
    <2> HIDE DEF x, y
    <2>2. x + 1 \in Int /\ y - 1 \in Int
      BY <2>1
    <2>3. (x + 1) % W \in Bytes /\ (y - 1) % W \in Bytes
      BY <2>2, ModIsByte
    <2> QED
      BY <2>3 DEF x, y
  <1>8. \A j \in 1 .. Len(blob) : newBlob'[j] \in Bytes
    <2> SUFFICES ASSUME NEW j \in 1 .. Len(blob)
                 PROVE  newBlob'[j] \in Bytes
      OBVIOUS
    <2>1. p[j] \in Bytes
      BY <1>3 DEF p
    <2> QED
      BY <1>5, <1>7, <2>1
  <1>9. newBlob' \in [1 .. Len(blob) -> Bytes]
    BY <1>2, <1>3, <1>5, <1>8
  <1>10. newBlob' \in Seq(Bytes) /\ Len(newBlob') = Len(blob)
    BY <1>p, <1>9, SeqOfPlaces
  <1>11. \A i \in 0 .. LastPlace :
            /\ i + 1 \in 1 .. Len(blob)
            /\ i + 1 = m + 1 <=> i = m
            /\ i + 1 = m + 2 <=> i = m + 1
    BY <1>p, <1>4
  <1>12. \A i \in 0 .. LastPlace : newBlob'[i + 1] =
            IF i = m THEN (p[i + 1] + 1) % W
            ELSE IF i = m + 1 THEN (p[i + 1] - 1) % W
            ELSE p[i + 1]
    BY <1>5, <1>11
  <1> QED
    BY <1>1, <1>10, <1>12 DEF At, p, m

\* What a slice that is at the cursor is.
LEMMA AtCursor ==
  ASSUME TypeOK, start >= 0, OnGrid(start)
  PROVE  /\ start \in SliceStarts /\ start >= firstSliceLen
         /\ start \in Nat /\ start <= LastPlace
         /\ End = SliceEnd(start) /\ End \in start .. LastPlace
         /\ End < start + SliceLen
  <1>p. /\ firstSliceLen \in 0 .. SliceLen - 1 /\ start \in Int
        /\ Len(blob) \in Nat /\ LastPlace = Len(blob) - 1
    BY Places
  <1>b. SliceLen \in Nat /\ SliceLen > 4
    BY ByteTypes
  <1>1. start <= LastPlace
    BY <1>p DEF TypeOK
  <1>2. start >= firstSliceLen
    <2>1. SUFFICES ASSUME start < firstSliceLen PROVE FALSE
      BY <1>p
    <2>2. OnGrid(firstSliceLen)
      BY FirstOnGrid
    <2>3. start + SliceLen <= firstSliceLen
      BY <1>p, <2>1, <2>2, GridApart
    <2> QED
      BY <1>p, <1>b, <2>3
  <1>3. start \in SliceStarts
    BY <1>p, <1>1, <1>2, SliceStartIff
  <1>4. End = SliceEnd(start)
    BY <1>p, <1>2 DEF End, SliceEnd
  <1> QED
    BY <1>p, <1>1, <1>2, <1>3, <1>4, SliceEnds

\* The first choice is one.
LEMMA FirstChoiceIs ==
  ASSUME TypeOK, Balancings # {}
  PROVE  FirstChoice \in Balancings
  <1> DEFINE Ns == {n \in Nat : \E c \in Balancings : c[1] = n}
  <1>1. \A c \in Balancings : /\ c[1] \in Nat /\ c[2] \in Nat
                              /\ c = <<c[1], c[2]>>
    BY DEF Balancings
  <1>2. PICK n \in Ns : \A m \in Ns : n <= m
    <2>1. Ns \subseteq Nat /\ Ns # {}
      BY <1>1
    <2> HIDE DEF Ns
    <2> QED
      BY <2>1, LeastNumber
  <1> DEFINE Cs == {k \in Nat : \E c \in Balancings : c[1] = n /\ c[2] = k}
  <1>3. PICK k \in Cs : \A m \in Cs : k <= m
    <2>1. Cs \subseteq Nat /\ Cs # {}
      BY <1>1, <1>2
    <2> HIDE DEF Cs
    <2> QED
      BY <2>1, LeastNumber
  <1>4. PICK c \in Balancings : c[1] = n /\ c[2] = k
    BY <1>3
  <1>5. \A d \in Balancings : c[1] < d[1] \/ (c[1] = d[1] /\ c[2] <= d[2])
    <2> SUFFICES ASSUME NEW d \in Balancings
                 PROVE  c[1] < d[1] \/ (c[1] = d[1] /\ c[2] <= d[2])
      OBVIOUS
    <2>1. d[1] \in Ns /\ n \in Nat /\ d[1] \in Nat
      BY <1>1, <1>2
    <2>2. n <= d[1]
      BY <1>2, <2>1
    <2>3. CASE n = d[1]
      <3>1. d[2] \in Cs
        BY <1>1, <2>3
      <3> QED
        BY <1>3, <1>4, <2>3, <3>1
    <2>4. CASE n # d[1]
      BY <1>4, <2>1, <2>2, <2>4
    <2> QED
      BY <2>3, <2>4
  <1> QED
    BY <1>4, <1>5 DEF FirstChoice

-----------------------------------------------------------------------------
(* The inductive invariant *)

\* verifyFixedBlobs goes from slice to slice.
CursorOnGrid ==
    /\ stage = "place" => stuffed = 0
    /\ stage = "verify" => OnGrid(start)
    /\ stage = "fixup" => start < 0

-----------------------------------------------------------------------------
\* The slice at the cursor with the first choice in it.
LEMMA ChoiceIs ==
  ASSUME TypeOK, CursorOnGrid, VerifyStuff
  PROVE  \E n \in Nat, crs \in Nat :
            /\ n = FirstChoice[1] /\ crs = FirstChoice[2]
            /\ n >= 2 /\ n <= FrontPlace /\ n <= End + 1 - start
            /\ crs < n \div 2 /\ 2 * crs + 2 <= n
            /\ Balances(n, crs)
  <1>1. /\ start \in Nat /\ start <= LastPlace /\ End \in start .. LastPlace
        /\ FrontPlace \in Nat /\ start >= FrontPlace /\ End > start
        /\ FirstChoice[1] <= FrontPlace
        /\ LastPlace \in Int
    BY AtCursor, Places DEF CursorOnGrid, VerifyStuff, Unbalanced
  <1>2. FirstChoice \in Balancings
    BY FirstChoiceIs DEF VerifyStuff
  <1>3. PICK c \in Balancings : c = FirstChoice
    BY <1>2
  <1>4. /\ c[1] \in 2 .. MostStuffed /\ c[2] \in 0 .. SliceLen
        /\ c[2] < c[1] \div 2
        /\ Balances(c[1], c[2])
    BY DEF Balancings
  <1>5. MostStuffed \in Int /\ (MostStuffed <= 2 \/ MostStuffed <= End + 1 - start)
    BY <1>1 DEF MostStuffed, Maximum, Minimum
  <1>6. /\ c[1] \in Nat /\ c[2] \in Nat
        /\ c[1] >= 2 /\ c[1] <= FrontPlace /\ c[1] <= End + 1 - start
    BY <1>1, <1>3, <1>4, <1>5, ByteTypes
  <1>7. 2 * c[2] + 2 <= c[1]
    <2> DEFINE x == c[1]
               y == c[2]
    <2>1. x \in Nat /\ y \in Nat /\ y < x \div 2
      BY <1>4, <1>6
    <2> HIDE DEF x, y
    <2>2. 2 * y + 2 <= x
      BY <2>1
    <2> QED
      BY <2>2 DEF x, y
  <1> QED
    BY <1>3, <1>4, <1>6, <1>7

LEMMA ShiftedIs ==
  ASSUME TypeOK, stage # "place", NEW n \in Nat, NEW crs \in Nat,
         start \in Nat, FrontPlace <= start, n <= FrontPlace,
         start + n <= Len(blob)
  PROVE  /\ Shifted(n, crs) \in Seq(Bytes) /\ Len(Shifted(n, crs)) = Len(blob)
         /\ \A i \in 0 .. LastPlace :
               At(Shifted(n, crs), i) =
                  IF FrontPlace - n <= i /\ i < start THEN At(newBlob, i + n)
                  ELSE IF start <= i /\ i < start + n THEN Whitespace(i, crs)
                  ELSE At(newBlob, i)
  <1>p. /\ Len(blob) \in Nat /\ LastPlace = Len(blob) - 1
        /\ FrontPlace \in Nat
    BY Places
  <1>0. newBlob \in Seq(Bytes) /\ Len(newBlob) = Len(blob)
    BY DEF TypeOK
  <1>1. /\ DOMAIN Shifted(n, crs) = 1 .. Len(blob)
        /\ \A j \in 1 .. Len(blob) :
              Shifted(n, crs)[j] =
                 IF j - 1 \in FrontPlace - n .. start + n - 1
                 THEN IF j - 1 < start THEN At(newBlob, j - 1 + n)
                                       ELSE Whitespace(j - 1, crs)
                 ELSE newBlob[j]
    BY <1>0 DEF Shifted, Overwrite
  <1>2. \A i \in 0 .. LastPlace :
           At(Shifted(n, crs), i) =
              IF FrontPlace - n <= i /\ i < start THEN At(newBlob, i + n)
              ELSE IF start <= i /\ i < start + n THEN Whitespace(i, crs)
              ELSE At(newBlob, i)
    <2> SUFFICES ASSUME NEW i \in 0 .. LastPlace
                 PROVE  At(Shifted(n, crs), i) =
                    IF FrontPlace - n <= i /\ i < start THEN At(newBlob, i + n)
                    ELSE IF start <= i /\ i < start + n THEN Whitespace(i, crs)
                    ELSE At(newBlob, i)
      OBVIOUS
    <2>1. i + 1 \in 1 .. Len(blob) /\ (i + 1) - 1 = i
      BY <1>p
    <2>2. Shifted(n, crs)[i + 1] =
                 IF i \in FrontPlace - n .. start + n - 1
                 THEN IF i < start THEN At(newBlob, i + n)
                                   ELSE Whitespace(i, crs)
                 ELSE newBlob[i + 1]
      BY <1>1, <2>1
    <2>3. i \in FrontPlace - n .. start + n - 1
             <=> FrontPlace - n <= i /\ i < start + n
      BY <1>p, <2>1
    <2>4. At(Shifted(n, crs), i) = Shifted(n, crs)[i + 1]
          /\ At(newBlob, i) = newBlob[i + 1]
      BY DEF At
    <2>5. (i < start => i < start + n) /\ (start <= i => FrontPlace - n <= i)
      BY <1>p
    <2>6. start <= i <=> ~(i < start)
      BY <1>p
    <2> QED
      BY <2>2, <2>3, <2>4, <2>5, <2>6
  <1>3. \A i \in 0 .. LastPlace : At(Shifted(n, crs), i) \in Bytes
    <2> SUFFICES ASSUME NEW i \in 0 .. LastPlace
                 PROVE  At(Shifted(n, crs), i) \in Bytes
      OBVIOUS
    <2>1. FrontPlace - n <= i /\ i < start => At(newBlob, i + n) \in Bytes
      <3>1. FrontPlace - n <= i /\ i < start => i + n \in 0 .. Len(newBlob) - 1
        BY <1>p, <1>0
      <3> QED
        BY <1>0, <3>1, BytePlace
    <2>2. Whitespace(i, crs) \in Bytes
      BY ByteTypes DEF Whitespace
    <2>3. At(newBlob, i) \in Bytes
      BY <1>p, <1>0, BytePlace
    <2> QED
      BY <1>2, <2>1, <2>2, <2>3
  <1>4. \A j \in 1 .. Len(blob) : Shifted(n, crs)[j] \in Bytes
    <2> SUFFICES ASSUME NEW j \in 1 .. Len(blob)
                 PROVE  Shifted(n, crs)[j] \in Bytes
      OBVIOUS
    <2>1. PICK i \in 0 .. LastPlace : i + 1 = j
      BY <1>p
    <2> QED
      BY <1>3, <2>1 DEF At
  <1>5. Shifted(n, crs) \in [1 .. Len(blob) -> Bytes]
    BY <1>1, <1>4 DEF Shifted, Overwrite
  <1> QED
    BY <1>p, <1>2, <1>5, SeqOfPlaces

\* The bytes in front of the certificate, all but the last one.
LEMMA LevelIs ==
  ASSUME TypeOK, stage # "place", Straddled # {},
         NEW b \in Bytes, NEW last \in Bytes
  PROVE  /\ Level(b, last) \in Seq(Bytes) /\ Len(Level(b, last)) = Len(blob)
         /\ \A i \in 0 .. LastPlace :
               At(Level(b, last), i) =
                  IF i = FrontPlace - 1 THEN last
                  ELSE IF FrontSlice <= i /\ i < FrontPlace THEN b
                  ELSE At(newBlob, i)
  <1>p. /\ Len(blob) \in Nat /\ LastPlace = Len(blob) - 1
        /\ FrontPlace \in Nat
    BY Places
  <1>f. FrontSlice \in Nat /\ FrontSlice < FrontPlace
    BY <1>p, FrontSliceIs, SliceEnds
  <1>0. newBlob \in Seq(Bytes) /\ Len(newBlob) = Len(blob)
    BY DEF TypeOK
  <1>1. /\ DOMAIN Level(b, last) = 1 .. Len(blob)
        /\ \A j \in 1 .. Len(blob) :
              Level(b, last)[j] =
                 IF j - 1 \in FrontSlice .. FrontPlace - 1
                 THEN IF j - 1 = FrontPlace - 1 THEN last ELSE b
                 ELSE newBlob[j]
    BY <1>0 DEF Level, Overwrite
  <1>2. \A i \in 0 .. LastPlace :
           At(Level(b, last), i) =
              IF i = FrontPlace - 1 THEN last
              ELSE IF FrontSlice <= i /\ i < FrontPlace THEN b
              ELSE At(newBlob, i)
    <2> SUFFICES ASSUME NEW i \in 0 .. LastPlace
                 PROVE  At(Level(b, last), i) =
                           IF i = FrontPlace - 1 THEN last
                           ELSE IF FrontSlice <= i /\ i < FrontPlace THEN b
                           ELSE At(newBlob, i)
      OBVIOUS
    <2>1. i + 1 \in 1 .. Len(blob) /\ (i + 1) - 1 = i
      BY <1>p
    <2>2. Level(b, last)[i + 1] =
             IF i \in FrontSlice .. FrontPlace - 1
             THEN IF i = FrontPlace - 1 THEN last ELSE b
             ELSE newBlob[i + 1]
      BY <1>1, <2>1
    <2>3. i \in FrontSlice .. FrontPlace - 1
             <=> FrontSlice <= i /\ i < FrontPlace
      BY <1>p, <1>f
    <2>4. i = FrontPlace - 1 => FrontSlice <= i /\ i < FrontPlace
      BY <1>p, <1>f
    <2> QED
      BY <2>2, <2>3, <2>4 DEF At
  <1>3. \A j \in 1 .. Len(blob) : Level(b, last)[j] \in Bytes
    BY <1>0, <1>1
  <1>4. Level(b, last) \in [1 .. Len(blob) -> Bytes]
    BY <1>1, <1>3 DEF Level, Overwrite
  <1> QED
    BY <1>p, <1>2, <1>4, SeqOfPlaces

\* Every byte of the slice before raised by the same number.
LEMMA SpreadIs ==
  ASSUME TypeOK, NEW s \in Seq(Bytes), Len(s) = Len(blob), NEW delta \in Int,
         FrontSlice \in Int, SliceEnd(FrontSlice) = FrontSlice + SliceLen - 1
  PROVE  /\ Spread(s, delta) \in Seq(Bytes) /\ Len(Spread(s, delta)) = Len(blob)
         /\ \A i \in 0 .. LastPlace :
               At(Spread(s, delta), i) =
                  IF FrontSlice - SliceLen <= i /\ i < FrontSlice
                  THEN (At(s, i) + (delta \div SliceLen)) % W
                  ELSE At(s, i)
  <1>p. /\ Len(blob) \in Nat /\ LastPlace = Len(blob) - 1
        /\ SliceLen \in Nat /\ SliceLen > 4
    BY Places, ByteTypes
  <1>d. PICK d \in Int : d = delta \div SliceLen
    BY <1>p, QuotientOf
  <1>r. FrontSlice - SliceLen .. SliceEnd(FrontSlice) - SliceLen
            = FrontSlice - SliceLen .. FrontSlice - 1
    BY <1>p
  <1>1. /\ DOMAIN Spread(s, delta) = 1 .. Len(blob)
        /\ \A j \in 1 .. Len(blob) :
              Spread(s, delta)[j] =
                 IF j - 1 \in FrontSlice - SliceLen .. FrontSlice - 1
                 THEN (At(s, j - 1) + d) % W
                 ELSE s[j]
    <2>1. Spread(s, delta) =
             [j \in DOMAIN s |->
                 IF j - 1 \in FrontSlice - SliceLen
                              .. SliceEnd(FrontSlice) - SliceLen
                 THEN (At(s, j - 1) + (delta \div SliceLen)) % W
                 ELSE s[j]]
      BY DEF Spread, Overwrite
    <2>2. Spread(s, delta) =
             [j \in DOMAIN s |->
                 IF j - 1 \in FrontSlice - SliceLen .. FrontSlice - 1
                 THEN (At(s, j - 1) + d) % W
                 ELSE s[j]]
      BY <1>d, <1>r, <2>1
    <2>3. DOMAIN s = 1 .. Len(blob)
      OBVIOUS
    <2> QED
      BY <2>2, <2>3
  <1>2. \A i \in 0 .. LastPlace :
           /\ At(Spread(s, delta), i) =
              IF FrontSlice - SliceLen <= i /\ i < FrontSlice
              THEN (At(s, i) + d) % W
              ELSE At(s, i)
    <2> SUFFICES ASSUME NEW i \in 0 .. LastPlace
                 PROVE  At(Spread(s, delta), i) =
                           IF FrontSlice - SliceLen <= i /\ i < FrontSlice
                           THEN (At(s, i) + d) % W
                           ELSE At(s, i)
      OBVIOUS
    <2>1. i + 1 \in 1 .. Len(blob) /\ (i + 1) - 1 = i
      BY <1>p
    <2>2. Spread(s, delta)[i + 1] =
             IF i \in FrontSlice - SliceLen .. FrontSlice - 1
             THEN (At(s, i) + d) % W
             ELSE s[i + 1]
      BY <1>1, <2>1
    <2>3. i \in FrontSlice - SliceLen .. FrontSlice - 1
             <=> FrontSlice - SliceLen <= i /\ i < FrontSlice
      BY <1>p
    <2> QED
      BY <2>2, <2>3 DEF At
  <1>3. \A i \in 0 .. LastPlace : At(Spread(s, delta), i) \in Bytes
    <2> SUFFICES ASSUME NEW i \in 0 .. LastPlace
                 PROVE  At(Spread(s, delta), i) \in Bytes
      OBVIOUS
    <2>1. PICK x \in Int : x = At(s, i) /\ x \in Bytes
      BY <1>p, BytePlace, ByteTypes
    <2>2. x + d \in Int
      OBVIOUS
    <2>3. (x + d) % W \in Bytes
      BY <2>2, ModIsByte
    <2> QED
      BY <1>2, <2>1, <2>3
  <1>4. \A j \in 1 .. Len(blob) : Spread(s, delta)[j] \in Bytes
    <2> SUFFICES ASSUME NEW j \in 1 .. Len(blob)
                 PROVE  Spread(s, delta)[j] \in Bytes
      OBVIOUS
    <2>1. PICK i \in 0 .. LastPlace : i + 1 = j
      BY <1>p
    <2> QED
      BY <1>3, <2>1 DEF At
  <1>5. Spread(s, delta) \in [1 .. Len(blob) -> Bytes]
    BY <1>1, <1>4 DEF Spread, Overwrite
  <1> QED
    BY <1>p, <1>d, <1>2, <1>5, SeqOfPlaces

-----------------------------------------------------------------------------
(* TypeOK and the cursor *)

LEMMA NewBlobSized ==
  ASSUME TypeOK, stage # "place"
  PROVE  Sized(newBlob) /\ Sized(blob)
  BY Places, BytesAreNumbers DEF Sized, TypeOK

\* A front slice that is not the first one is a full one.
LEMMA FrontSliceFull ==
  ASSUME TypeOK, Straddled # {}, FrontSlice >= firstSliceLen
  PROVE  SliceEnd(FrontSlice) = FrontSlice + SliceLen - 1
  <1>p. /\ Len(blob) \in Nat /\ LastPlace = Len(blob) - 1
        /\ ToStuff \in 0 .. Len(blob) - SliceLen
        /\ FrontPlace \in 0 .. ToStuff
        /\ firstSliceLen \in 0 .. SliceLen - 1
        /\ SliceLen \in Nat
    BY Places, ByteTypes
  <1>1. FrontSlice \in Nat /\ FrontSlice < FrontPlace
    BY <1>p, FrontSliceIs, SliceEnds
  <1> QED
    BY <1>p, <1>1 DEF SliceEnd, Minimum

\* The sums that fixupStuffBytes works with.
LEMMA DeltaIs ==
  ASSUME TypeOK, stage # "place", Straddled # {}
  PROVE  /\ FrontPlace - FrontSlice \in Nat /\ FrontPlace - FrontSlice >= 1
         /\ Sum(blob, FrontSlice, LastPlace) \in Int
         /\ Sum(newBlob, FrontPlace, LastPlace) \in Int
         /\ Delta \in 0 .. Word - 1 /\ Avg \in Nat
         /\ Rest \in 0 .. Word - 1
  <1>p. /\ Len(blob) \in Nat /\ LastPlace = Len(blob) - 1
        /\ FrontPlace \in Nat /\ FrontPlace <= Len(blob)
        /\ W \in Nat /\ W > 1 /\ Word \in Nat
    BY Places, ByteTypes
  <1>f. FrontSlice \in Nat /\ FrontSlice < FrontPlace
    BY <1>p, FrontSliceIs, SliceEnds
  <1>1. FrontPlace - FrontSlice \in Nat /\ FrontPlace - FrontSlice >= 1
    BY <1>p, <1>f
  <1>2. /\ Sum(blob, FrontSlice, LastPlace) \in Int
        /\ Sum(newBlob, FrontPlace, LastPlace) \in Int
    <2>1. InBlob(FrontSlice, LastPlace) /\ InBlob(FrontPlace, LastPlace)
      BY <1>p, <1>f DEF InBlob
    <2> QED
      BY <2>1, NewBlobSized, BalancedIff
  <1>3. Delta \in 0 .. Word - 1
    <2>1. Sum(blob, FrontSlice, LastPlace) - Sum(newBlob, FrontPlace, LastPlace)
              \in Int
      BY <1>2
    <2> QED
      BY <2>1, CongWord DEF Delta
  <1>4. Avg \in Nat
    <2> DEFINE c == FrontPlace - FrontSlice
               d == Delta
    <2>1. c \in Nat /\ c >= 1 /\ d \in Nat
      BY <1>1, <1>3, <1>p
    <2> HIDE DEF c, d
    <2>2. d \div c \in Nat
      BY <2>1
    <2> QED
      BY <2>2 DEF c, d, Avg
  <1>5. Rest \in 0 .. Word - 1
    <2> DEFINE c == FrontPlace - FrontSlice - 1
               m == Minimum(Avg, W - 1)
    <2>1. c \in Int /\ m \in Int
      BY <1>1, <1>4, <1>p DEF Minimum
    <2> HIDE DEF c, m
    <2>2. c * m \in Int
      BY <2>1
    <2>3. Delta - c * m \in Int
      BY <1>3, <1>p, <2>2
    <2>4. (Delta - c * m) % Word \in 0 .. Word - 1
      BY <2>3, CongWord
    <2> QED
      BY <2>4 DEF Rest, c, m
  <1> QED
    BY <1>1, <1>2, <1>3, <1>4, <1>5

LEMMA LevelBytes ==
  ASSUME TypeOK, stage # "place", Straddled # {}
  PROVE  /\ Avg < W /\ Rest < W => Avg \in Bytes /\ Rest \in Bytes
         /\ W - 1 \in Bytes /\ Rest % W \in Bytes /\ Rest - (Rest % W) \in Int
  <1>1. Avg \in Nat /\ Rest \in Nat /\ W \in Nat /\ W > 1
    BY DeltaIs, ByteTypes
  <1>2. Rest % W \in Bytes /\ Rest % W \in Int
    BY <1>1, ModIsByte, ByteTypes
  <1> QED
    BY <1>1, <1>2 DEF Bytes

LEMMA FrontSlicePlaces ==
  ASSUME TypeOK, stage # "place", Straddled # {}, FrontSlice >= SliceLen
  PROVE  /\ FrontSlice \in Int /\ FrontSlice >= firstSliceLen
         /\ SliceEnd(FrontSlice) = FrontSlice + SliceLen - 1
  <1>p. /\ Len(blob) \in Nat /\ LastPlace = Len(blob) - 1
        /\ firstSliceLen \in 0 .. SliceLen - 1 /\ SliceLen \in Nat
    BY Places, ByteTypes
  <1>f. FrontSlice \in SliceStarts
    BY FrontSliceIs
  <1>1. FrontSlice \in Nat /\ firstSliceLen \in 0 .. SliceLen - 1
        /\ SliceLen \in Nat
    BY <1>p, <1>f, SliceEnds
  <1>2. FrontSlice >= firstSliceLen
    BY <1>1
  <1> QED
    BY <1>1, <1>2, FrontSliceFull

LEMMA FixupTyped ==
  ASSUME TypeOK, Fixup
  PROVE  newBlob' \in Seq(Bytes) /\ Len(newBlob') = Len(blob)
  <1>0. stage # "place" /\ stage = "fixup"
    BY DEF Fixup
  <1>1. CASE FixupLevel
    <2>1. Straddled # {} /\ Avg < W /\ Rest < W /\ newBlob' = Level(Avg, Rest)
      BY <1>1 DEF FixupLevel
    <2> QED
      BY <1>0, <2>1, LevelBytes, LevelIs
  <1>2. CASE FixupSpread
    <2>1. /\ Straddled # {} /\ FrontSlice >= SliceLen
          /\ newBlob' = Spread(Level(W - 1, Rest % W), Rest - (Rest % W))
      BY <1>2 DEF FixupSpread
    <2>2. /\ W - 1 \in Bytes /\ Rest % W \in Bytes /\ Rest - (Rest % W) \in Int
      BY <1>0, <2>1, LevelBytes
    <2>3. PICK b \in Bytes, l \in Bytes, d \in Int :
             b = W - 1 /\ l = Rest % W /\ d = Rest - (Rest % W)
      BY <2>2
    <2>4. Level(b, l) \in Seq(Bytes) /\ Len(Level(b, l)) = Len(blob)
      BY <1>0, <2>1, LevelIs
    <2>5. newBlob' = Spread(Level(b, l), d)
      BY <2>1, <2>3
    <2> QED
      BY <1>0, <2>1, <2>4, <2>5, FrontSlicePlaces, SpreadIs
  <1>3. CASE FixupReject
    BY <1>0, <1>3 DEF FixupReject, TypeOK
  <1> QED
    BY <1>1, <1>2, <1>3 DEF Fixup

\* Where place puts the cursor: in the last slice.
LEMMA PlaceCursor ==
  ASSUME TypeOK, Place
  PROVE  /\ start' \in Nat /\ start' <= LastPlace
         /\ start' + SliceLen > LastPlace
         /\ OnGrid(start')
  <1>p. /\ Len(blob) \in Nat /\ LastPlace = Len(blob) - 1
        /\ Len(blob) > SliceLen /\ firstSliceLen \in 0 .. SliceLen - 1
        /\ SliceLen \in Nat /\ SliceLen > 4
    BY Places, ByteTypes
  <1> DEFINE x == LastPlace - firstSliceLen
             k == x \div SliceLen
             r == x % SliceLen
             m == k * SliceLen
  <1>1. x \in Nat
    BY <1>p
  <1>2. k \in Int /\ r \in 0 .. SliceLen - 1 /\ x = m + r
    BY <1>p, <1>1, QuotientOf
  <1>3. start' = firstSliceLen + m
    BY DEF Place
  <1>4. k >= 0
    <2>1. SUFFICES ASSUME k <= -1 PROVE FALSE
      BY <1>2
    <2> HIDE DEF x, r, k
    <2>2. k * SliceLen <= -SliceLen
      BY <1>2, <1>p, <2>1
    <2> QED
      BY <1>1, <1>2, <1>p, <2>2
  <1>5. m \in Nat
    <2> HIDE DEF k
    <2> QED
      BY <1>2, <1>4, <1>p
  <1>6. OnGrid(start')
    BY <1>2, <1>3 DEF OnGrid
  <1>7. x = LastPlace - firstSliceLen
    OBVIOUS
  <1> HIDE DEF x, r, m
  <1> QED
    BY <1>p, <1>1, <1>2, <1>3, <1>5, <1>6, <1>7

LEMMA StuffTyped ==
  ASSUME TypeOK, CursorOnGrid, VerifyStuff
  PROVE  /\ newBlob' \in Seq(Bytes) /\ Len(newBlob') = Len(blob)
         /\ stuffed' \in 0 .. ToStuff
  <1>1. stage # "place" /\ stage = "verify" /\ start >= 0 /\ start >= FrontPlace
        /\ newBlob' = Shifted(FirstChoice[1], FirstChoice[2])
        /\ stuffed' = stuffed + FirstChoice[1]
    BY DEF VerifyStuff, Unbalanced
  <1>2. PICK n \in Nat, crs \in Nat :
            /\ n = FirstChoice[1] /\ crs = FirstChoice[2]
            /\ n <= FrontPlace /\ n <= End + 1 - start
    BY ChoiceIs
  <1>3. start \in Nat /\ End \in start .. LastPlace /\ LastPlace = Len(blob) - 1
        /\ FrontPlace \in Nat /\ Len(blob) \in Nat
    BY <1>1, AtCursor, Places DEF CursorOnGrid
  <1>4. start + n <= Len(blob)
    BY <1>2, <1>3
  <1>5. newBlob' = Shifted(n, crs)
    BY <1>1, <1>2
  <1>6. stuffed \in 0 .. ToStuff /\ ToStuff \in Nat /\ FrontPlace = ToStuff - stuffed
    BY Places DEF TypeOK, FrontPlace
  <1>7. stuffed' \in 0 .. ToStuff
    BY <1>1, <1>2, <1>6
  <1>8. FrontPlace <= start /\ n <= FrontPlace /\ stage # "place"
    BY <1>1, <1>2, <1>3
  <1>9. Shifted(n, crs) \in Seq(Bytes) /\ Len(Shifted(n, crs)) = Len(blob)
    BY <1>3, <1>4, <1>8, ShiftedIs
  <1> QED
    BY <1>5, <1>7, <1>9

LEMMA TypeOKInit ==
  Init => TypeOK /\ CursorOnGrid
  <1> SUFFICES ASSUME Init
               PROVE  TypeOK /\ CursorOnGrid
    OBVIOUS
  <1>1. blob \in Seq(Bytes) /\ cert \in Seq(Bytes) /\ Len(blob) > SliceLen
    BY StuffingAssumption DEF Init, Bytes
  <1>2. Len(blob) \in Nat /\ Len(cert) \in Nat /\ Len(cert) <= Len(blob)
    BY <1>1 DEF Init
  <1>3. ToStuff \in Nat /\ LastPlace \in Nat /\ SliceLen \in Nat
    BY <1>1, <1>2, ByteTypes DEF ToStuff, LastPlace
  <1>4. start \in -SliceLen .. LastPlace /\ stuffed \in 0 .. ToStuff
    BY <1>3 DEF Init
  <1>5. newBlob \in Seq(Bytes)
    BY DEF Init
  <1>6. TypeOK
    BY <1>4, <1>5 DEF Init, TypeOK
  <1> QED
    BY <1>6 DEF Init, CursorOnGrid

LEMMA TypeOKStep ==
  TypeOK /\ CursorOnGrid /\ [Next]_vars => TypeOK' /\ CursorOnGrid'
  <1> SUFFICES ASSUME TypeOK, CursorOnGrid, [Next]_vars
               PROVE  TypeOK' /\ CursorOnGrid'
    OBVIOUS
  <1>p. /\ Len(blob) \in Nat /\ LastPlace = Len(blob) - 1
        /\ SliceLen \in Nat /\ SliceLen > 4 /\ start \in Int
        /\ start <= LastPlace /\ start >= -SliceLen
        /\ firstSliceLen \in Int
    BY Places, ByteTypes DEF TypeOK
  <1>i. ASSUME UNCHANGED inputVars
        PROVE  /\ blob' = blob /\ cert' = cert /\ firstSliceLen' = firstSliceLen
               /\ LastPlace' = LastPlace /\ ToStuff' = ToStuff
               /\ \A s : OnGrid(s)' <=> OnGrid(s)
    BY <1>i DEF inputVars, LastPlace, ToStuff, OnGrid
  <1>c. ASSUME UNCHANGED inputVars, OnGrid(start), start >= 0,
               start' = start - SliceLen
        PROVE  start' \in -SliceLen .. LastPlace' /\ OnGrid(start)'
    <2>1. OnGrid(start - SliceLen)
      BY <1>p, <1>c, GridMoves
    <2>2. start' \in -SliceLen .. LastPlace
      BY <1>p, <1>c
    <2>3. OnGrid(start')
      BY <1>c, <2>1
    <2> QED
      BY <1>c, <1>i, <2>2, <2>3 DEF OnGrid
  <1>1. CASE Place
    <2>1. /\ UNCHANGED inputVars /\ stuffed' = stuffed /\ stage' = "verify"
      BY <1>1 DEF Place
    <2>2. newBlob' \in Seq(Bytes) /\ Len(newBlob') = Len(blob)
      BY <1>1, PlaceIs
    <2>3. start' \in -SliceLen .. LastPlace /\ OnGrid(start')
      BY <1>1, <1>p, PlaceCursor
    <2>4. TypeOK'
      BY <1>i, <2>1, <2>2, <2>3 DEF TypeOK
    <2>5. OnGrid(start)'
      BY <1>i, <2>1, <2>3 DEF OnGrid
    <2> QED
      BY <2>1, <2>4, <2>5 DEF CursorOnGrid
  <1>2. CASE VerifyDone
    <2>1. /\ UNCHANGED <<inputVars, newBlob, start, stuffed>>
          /\ stage' = "fixup" /\ start < 0 /\ stage = "verify"
      BY <1>2 DEF VerifyDone
    <2>2. TypeOK'
      BY <1>i, <2>1 DEF TypeOK
    <2> QED
      BY <2>1, <2>2 DEF CursorOnGrid
  <1>3. CASE VerifySkip
    <2>1. /\ UNCHANGED <<inputVars, newBlob, stuffed, stage>>
          /\ start' = start - SliceLen /\ start >= 0 /\ stage = "verify"
      BY <1>3 DEF VerifySkip
    <2>2. OnGrid(start)
      BY <2>1 DEF CursorOnGrid
    <2>3. start' \in -SliceLen .. LastPlace' /\ OnGrid(start)'
      BY <1>c, <2>1, <2>2
    <2>4. TypeOK'
      BY <1>i, <2>1, <2>3 DEF TypeOK
    <2> QED
      BY <2>1, <2>3, <2>4 DEF CursorOnGrid
  <1>4. CASE VerifyStuff
    <2>1. /\ UNCHANGED <<inputVars, stage>>
          /\ start' = start - SliceLen /\ start >= 0 /\ stage = "verify"
      BY <1>4 DEF VerifyStuff, Unbalanced
    <2>2. OnGrid(start)
      BY <2>1 DEF CursorOnGrid
    <2>3. start' \in -SliceLen .. LastPlace' /\ OnGrid(start)'
      BY <1>c, <2>1, <2>2
    <2>4. /\ newBlob' \in Seq(Bytes) /\ Len(newBlob') = Len(blob)
          /\ stuffed' \in 0 .. ToStuff
      BY <1>4, StuffTyped
    <2>5. TypeOK'
      BY <1>i, <2>1, <2>3, <2>4 DEF TypeOK
    <2> QED
      BY <2>1, <2>3, <2>5 DEF CursorOnGrid
  <1>5. CASE VerifyReject \/ VerifyPanic
    <2>1. /\ UNCHANGED <<inputVars, newBlob, start, stuffed>>
          /\ stage' \in {"rejected", "panic"} /\ stage = "verify"
      BY <1>5 DEF VerifyReject, VerifyPanic, Unbalanced
    <2>2. TypeOK'
      BY <1>i, <2>1 DEF TypeOK
    <2> QED
      BY <2>1, <2>2 DEF CursorOnGrid
  <1>6. CASE Fixup
    <2>1. /\ UNCHANGED <<inputVars, start, stuffed>>
          /\ stage' \in {"check", "rejected"} /\ stage = "fixup"
      BY <1>6 DEF Fixup, FixupLevel, FixupSpread, FixupReject
    <2>2. newBlob' \in Seq(Bytes) /\ Len(newBlob') = Len(blob)
      BY <1>6, FixupTyped
    <2>3. TypeOK'
      BY <1>i, <2>1, <2>2 DEF TypeOK
    <2> QED
      BY <2>1, <2>3 DEF CursorOnGrid
  <1>7. CASE Check
    <2>1. /\ UNCHANGED <<inputVars, newBlob, start, stuffed>>
          /\ stage' \in {"accepted", "rejected"} /\ stage = "check"
      BY <1>7 DEF Check
    <2>2. TypeOK'
      BY <1>i, <2>1 DEF TypeOK
    <2> QED
      BY <2>1, <2>2 DEF CursorOnGrid
  <1>8. CASE UNCHANGED vars
    BY <1>8 DEF vars, inputVars, TypeOK, CursorOnGrid, OnGrid, LastPlace, ToStuff
  <1> QED
    BY <1>1, <1>2, <1>3, <1>4, <1>5, <1>6, <1>7, <1>8 DEF Next, Verify

\* A blob keeps its length, and stuffing stays within what was in front of the
\* certificate.
THEOREM StuffingTypeCorrect == Spec => []TypeOK
  <1>1. Init => TypeOK /\ CursorOnGrid
    BY TypeOKInit
  <1>2. TypeOK /\ CursorOnGrid /\ [Next]_vars => TypeOK' /\ CursorOnGrid'
    BY TypeOKStep
  <1> QED
    BY <1>1, <1>2, PTL DEF Spec

-----------------------------------------------------------------------------
(* Balanced slices *)

\* The slices in front of the certificate, those behind the cursor, and all.
FrontsOf(t, front) ==
    \A s \in SliceStarts :
        SliceEnd(s) < front => Balanced(t, s, SliceEnd(s))
TailsOf(t, front, cursor) ==
    \A s \in SliceStarts :
        s >= firstSliceLen /\ s >= front /\ s > cursor => TailBalanced(t, s)
SlicesOf(t) == \A s \in SliceStarts : Balanced(t, s, SliceEnd(s))

FrontsBalanced ==
    stage \in {"verify", "fixup"} => FrontsOf(newBlob, FrontPlace)
TailsBalanced ==
    stage \in {"verify", "fixup"} => TailsOf(newBlob, FrontPlace, start)

LEMMA SameInputs ==
  ASSUME UNCHANGED inputVars
  PROVE  /\ FrontsOf(newBlob, FrontPlace)' <=> FrontsOf(newBlob', FrontPlace')
         /\ TailsOf(newBlob, FrontPlace, start)'
               <=> TailsOf(newBlob', FrontPlace', start')
         /\ (\A s \in SliceStarts : Balanced(newBlob, s, SliceEnd(s)))'
               <=> SlicesOf(newBlob')
         /\ FrontPlace' = ToStuff - stuffed'
  <1>1. /\ SliceStarts' = SliceStarts /\ firstSliceLen' = firstSliceLen
        /\ LastPlace' = LastPlace /\ ToStuff' = ToStuff /\ blob' = blob
    BY DEF inputVars, SliceStarts, LastPlace, ToStuff
  <1>2. \A s : SliceEnd(s)' = SliceEnd(s)
    BY <1>1 DEF SliceEnd
  <1> QED
    BY <1>1, <1>2
    DEF FrontsOf, TailsOf, SlicesOf, Balanced, TailBalanced, FrontPlace

\* The spoiled bytes are in one slice.
LEMMA SpoiledTogether ==
  ASSUME TypeOK, NEW s \in SliceStarts
  PROVE  SpoiledPlace \in s .. SliceEnd(s)
            <=> SpoiledPlace + 1 \in s .. SliceEnd(s)
  <1>p. /\ Len(blob) \in Nat /\ LastPlace = Len(blob) - 1
        /\ Len(blob) > SliceLen /\ firstSliceLen \in 0 .. SliceLen - 1
        /\ SliceLen \in Nat /\ SliceLen > 4
    BY Places, ByteTypes
  <1>s. /\ s \in Nat /\ SliceEnd(s) \in Nat /\ s <= SliceEnd(s)
        /\ s = 0 \/ s >= firstSliceLen
        /\ s >= firstSliceLen => OnGrid(s)
    BY <1>p, SliceEnds, SliceStartIff
  <1>e. /\ s < firstSliceLen => SliceEnd(s) = firstSliceLen - 1
        /\ s >= firstSliceLen => SliceEnd(s) >= SliceLen - 1 \/
                                 SliceEnd(s) >= s + SliceLen - 1
    BY <1>p, <1>s DEF SliceEnd, Minimum
  <1>1. CASE firstSliceLen > 2
    <2>1. SpoiledPlace = 0
      BY <1>1 DEF SpoiledPlace
    <2>2. s # 1 /\ SliceEnd(s) # 0
      BY <1>1, <1>p, <1>s, <1>e
    <2> QED
      BY <1>s, <2>1, <2>2
  <1>2. CASE firstSliceLen <= 2
    <2>1. SpoiledPlace = 3
      BY <1>2, <1>p DEF SpoiledPlace
    <2>2. s # 4
      <3> SUFFICES ASSUME s = 4 PROVE FALSE
        OBVIOUS
      <3>1. OnGrid(s) /\ OnGrid(firstSliceLen) /\ firstSliceLen < s
        BY <1>2, <1>p, <1>s, FirstOnGrid
      <3>2. firstSliceLen + SliceLen <= s
        BY <1>p, <1>s, <3>1, GridApart
      <3> QED
        BY <1>p, <3>2
    <2>3. SliceEnd(s) # 3
      BY <1>2, <1>p, <1>s, <1>e
    <2> QED
      BY <1>s, <2>1, <2>2, <2>3
  <1> QED
    BY <1>p, <1>1, <1>2

LEMMA SliceRange ==
  ASSUME TypeOK, NEW s \in SliceStarts
  PROVE  InBlob(s, SliceEnd(s)) /\ s \in Nat /\ SliceEnd(s) \in Nat
         /\ s <= SliceEnd(s) /\ SliceEnd(s) <= LastPlace
  <1>p. Len(blob) \in Nat /\ LastPlace = Len(blob) - 1
    BY Places
  <1> QED
    BY <1>p, SliceEnds DEF InBlob

\* place leaves every slice in front of the certificate balanced.
LEMMA PlaceFronts ==
  ASSUME TypeOK, Place
  PROVE  FrontsOf(newBlob', ToStuff)
  <1>p. /\ Len(blob) \in Nat /\ LastPlace = Len(blob) - 1 /\ ToStuff \in Nat
    BY Places
  <1>t. PICK t \in Seq(Bytes) :
           /\ t = newBlob' /\ Len(t) = Len(blob)
           /\ \A i \in 0 .. LastPlace :
                 At(t, i) =
                    IF i = SpoiledPlace THEN (At(Placed, i) + 1) % W
                    ELSE IF i = SpoiledPlace + 1 THEN (At(Placed, i) - 1) % W
                    ELSE At(Placed, i)
    BY PlaceIs
  <1>z. Sized(t) /\ Sized(blob) /\ t \in Seq(Int) /\ blob \in Seq(Int)
    BY <1>t, Places, BytesAreNumbers DEF Sized
  <1>m. PICK m \in Nat : m = SpoiledPlace
    BY DEF SpoiledPlace
  <1>1. SUFFICES ASSUME NEW s \in SliceStarts, SliceEnd(s) < ToStuff
                 PROVE  Balanced(t, s, SliceEnd(s))
    BY <1>t DEF FrontsOf
  <1>2. PICK e \in Nat : e = SliceEnd(s)
    BY SliceRange
  <1>3. /\ InBlob(s, e) /\ s \in Nat /\ s <= e /\ e <= LastPlace
        /\ e < ToStuff
    BY <1>1, <1>2, SliceRange
  <1>4. \A i \in s .. e :
           At(t, i) = IF i = m THEN (At(blob, i) + 1) % W
                      ELSE IF i = m + 1 THEN (At(blob, i) - 1) % W
                      ELSE At(blob, i)
    <2> SUFFICES ASSUME NEW i \in s .. e
                 PROVE  At(t, i) = IF i = m THEN (At(blob, i) + 1) % W
                           ELSE IF i = m + 1 THEN (At(blob, i) - 1) % W
                           ELSE At(blob, i)
      OBVIOUS
    <2>1. i \in 0 .. LastPlace /\ i < ToStuff
      BY <1>p, <1>3
    <2>2. At(Placed, i) = At(blob, i)
      BY <2>1, PlacedIs
    <2> QED
      BY <1>t, <1>m, <2>1, <2>2
  <1>5. m \in s .. e <=> m + 1 \in s .. e
    BY <1>2, <1>m, SpoiledTogether
  <1>w. Within(t, s, e) /\ Within(blob, s, e)
    BY <1>t, <1>3 DEF Within, InBlob
  <1>6. CASE m \in s .. e
    <2>1. m + 1 \in s .. e /\ m \in s .. e - 1
      BY <1>3, <1>5, <1>6
    <2>2. /\ At(t, m) = (At(blob, m) + 1) % W
          /\ At(t, m + 1) = (At(blob, m + 1) - 1) % W
          /\ \A i \in s .. e : i \notin {m, m + 1} => At(t, i) = At(blob, i)
      BY <1>4, <1>6, <2>1
    <2>3. Cong(Sum(t, s, e), Sum(blob, s, e))
      BY <1>z, <1>w, <2>1, <2>2, SumSpoiled
    <2> QED
      BY <1>2, <1>3, <1>z, <2>3, BalancedIff
  <1>7. CASE m \notin s .. e
    <2>1. \A i \in s .. e : At(t, i) = At(blob, i)
      BY <1>4, <1>5, <1>7
    <2>2. Sum(t, s, e) = Sum(blob, s, e)
      BY <1>3, <1>z, <2>1, BalancedSame
    <2> QED
      BY <1>2, <2>2 DEF Balanced
  <1> QED
    BY <1>6, <1>7

\* ... and there is none behind the cursor.
LEMMA PlaceTails ==
  ASSUME TypeOK, Place
  PROVE  TailsOf(newBlob', ToStuff, start')
  <1>p. /\ Len(blob) \in Nat /\ LastPlace = Len(blob) - 1
        /\ firstSliceLen \in Int /\ SliceLen \in Nat
    BY Places, ByteTypes
  <1>1. PICK c \in Nat : c = start' /\ c + SliceLen > LastPlace /\ OnGrid(c)
    BY PlaceCursor
  <1> SUFFICES ASSUME NEW s \in SliceStarts, s >= firstSliceLen, s > c
               PROVE  FALSE
    BY <1>1 DEF TailsOf
  <1>2. OnGrid(s) /\ s \in Nat /\ s <= LastPlace
    BY <1>p, SliceEnds
  <1>3. c + SliceLen <= s
    BY <1>p, <1>1, <1>2, GridApart
  <1>4. PICK x \in Int : x = c + SliceLen
    BY <1>p
  <1>5. x <= s /\ x > LastPlace
    BY <1>1, <1>3, <1>4
  <1> QED
    BY <1>2, <1>4, <1>5, <1>p

\* Behind the slice at the cursor.
LEMMA TailAtCursor ==
  ASSUME TypeOK, stage # "place", OnGrid(start), start >= 0,
         start >= FrontPlace, TailsOf(newBlob, FrontPlace, start)
  PROVE  TailBalanced(newBlob, SliceEnd(start) + 1)
  <1>1. /\ start \in SliceStarts /\ start \in Nat /\ FrontPlace \in Nat
        /\ SliceEnd(start) \in Nat /\ start <= SliceEnd(start)
    BY AtCursor, SliceRange, Places
  <1>2. CASE SliceEnd(start) + 1 = Len(blob)
    BY <1>2, TailAtEnd, NewBlobSized
  <1>3. CASE SliceEnd(start) + 1 # Len(blob)
    <2>1. /\ SliceEnd(start) + 1 \in SliceStarts
          /\ SliceEnd(start) + 1 >= firstSliceLen
      BY <1>1, <1>3, SliceEnds
    <2>2. SliceEnd(start) + 1 >= FrontPlace /\ SliceEnd(start) + 1 > start
      BY <1>1
    <2> QED
      BY <2>1, <2>2 DEF TailsOf
  <1> QED
    BY <1>2, <1>3

\* What is behind the next cursor: the slice at this one too.
LEMMA NextCursor ==
  ASSUME TypeOK, OnGrid(start), start >= 0,
         NEW s \in SliceStarts, s >= firstSliceLen, s > start - SliceLen
  PROVE  s = start \/ (s > start /\ s > SliceEnd(start))
  <1>p. firstSliceLen \in Int /\ SliceLen \in Nat
    BY Places, ByteTypes
  <1>1. start \in Nat /\ start \in SliceStarts
    BY AtCursor
  <1>2. s \in Nat /\ OnGrid(s)
    BY SliceEnds
  <1>3. CASE s < start
    <2>1. s + SliceLen <= start
      BY <1>p, <1>1, <1>2, <1>3, GridApart
    <2> QED
      BY <1>p, <1>1, <1>2, <2>1
  <1>4. CASE s > start
    BY <1>1, <1>4, SlicesApart, SliceRange
  <1> QED
    BY <1>1, <1>2, <1>3, <1>4

LEMMA SkipTails ==
  ASSUME TypeOK, CursorOnGrid, TailsBalanced, VerifySkip
  PROVE  TailsOf(newBlob, FrontPlace, start - SliceLen)
  <1>1. /\ stage = "verify" /\ stage # "place" /\ start >= 0
        /\ start < FrontPlace \/ Balanced(newBlob, start, End)
    BY DEF VerifySkip
  <1>2. OnGrid(start) /\ TailsOf(newBlob, FrontPlace, start)
    BY <1>1 DEF CursorOnGrid, TailsBalanced
  <1> SUFFICES ASSUME NEW s \in SliceStarts, s >= firstSliceLen,
                      s >= FrontPlace, s > start - SliceLen
               PROVE  TailBalanced(newBlob, s)
    BY DEF TailsOf
  <1>3. CASE s > start
    BY <1>2, <1>3 DEF TailsOf
  <1>4. CASE s = start
    <2>1. /\ start \in Nat /\ FrontPlace \in Nat /\ End = SliceEnd(start)
          /\ SliceEnd(start) \in Nat /\ start <= SliceEnd(start) + 1
          /\ SliceEnd(start) <= LastPlace
      BY <1>1, <1>2, AtCursor, Places, SliceRange
    <2>2. start >= FrontPlace /\ Balanced(newBlob, start, SliceEnd(start))
      BY <1>1, <1>4, <2>1
    <2>3. TailBalanced(newBlob, SliceEnd(start) + 1)
      BY <1>1, <1>2, <2>2, TailAtCursor
    <2>4. Sized(newBlob)
      BY <1>1, NewBlobSized
    <2> DEFINE e == SliceEnd(start)
    <2>5. e \in Int /\ start <= e + 1 /\ e <= LastPlace
          /\ TailBalanced(newBlob, e + 1) /\ Balanced(newBlob, start, e)
      BY <2>1, <2>2, <2>3
    <2> HIDE DEF e
    <2>6. TailBalanced(newBlob, start)
      BY <2>1, <2>4, <2>5, TailExtends
    <2> QED
      BY <1>4, <2>6
  <1> QED
    BY <1>1, <1>2, <1>3, <1>4, NextCursor

IsWhite(s, p, n, crs) ==
    \A i \in p .. p + n - 1 :
        At(s, i) = IF (i - p) % 2 = 1 /\ i - p < 2 * crs THEN CR ELSE NL

WhiteSum(n, crs) == crs * CR + (n - crs) * NL

LEMMA SumWhite ==
  ASSUME NEW s \in Seq(Int), NEW p \in Nat, NEW n \in Nat, NEW crs \in Nat,
         p + n <= Len(s), 2 * crs <= n, IsWhite(s, p, n, crs)
  PROVE  Sum(s, p, p + n - 1) = WhiteSum(n, crs)
  <1>1. crs <= n \div 2
    OBVIOUS
  <1> QED
    BY <1>1, SumWhitespace DEF IsWhite, WhiteSum

\* The slice that stuffing leaves.
LEMMA StuffBalances ==
  ASSUME TypeOK, NEW t \in Seq(Bytes), Len(t) = Len(blob), stage # "place",
         NEW n \in Nat, NEW crs \in Nat, 2 * crs <= n,
         NEW e \in Nat, e = End,
         start \in Nat, start + n <= e + 1, e <= LastPlace,
         \A i \in start .. LastPlace :
            At(t, i) = IF i < start + n THEN Whitespace(i, crs)
                                        ELSE At(newBlob, i),
         Balances(n, crs)
  PROVE  Balanced(t, start, e)
  <1>p. Len(blob) \in Nat /\ LastPlace = Len(blob) - 1 /\ blob \in Seq(Int)
    BY Places
  <1>0. newBlob \in Seq(Int) /\ Len(newBlob) = Len(blob) /\ t \in Seq(Int)
    BY NewBlobSized, BytesAreNumbers DEF Sized
  <1>1. PICK p \in Nat : p = start
    OBVIOUS
  <1>2. PICK h \in Int : h = p + n - 1
    BY <1>1
  <1>3. PICK d \in Nat : d = p + n
    BY <1>1
  <1>4. d = h + 1 /\ p + n <= Len(t)
    BY <1>p, <1>0, <1>1, <1>2, <1>3
  <1>l. e < Len(t) /\ e < Len(newBlob) /\ h < Len(t) /\ p <= h + 1 /\ d <= e + 1
    <2>1. e < Len(t) /\ e < Len(newBlob)
      BY <1>p, <1>0
    <2>2. d <= e + 1
      BY <1>1, <1>3
    <2> QED
      BY <1>2, <1>3, <2>1, <2>2
  <1>5. /\ Within(t, p, h) /\ Within(t, d, e) /\ Within(newBlob, d, e)
    BY <1>l DEF Within
  <1>6. Sum(t, p, e) = Sum(t, p, h) + Sum(t, d, e)
    BY <1>0, <1>4, <1>5, SumParts
  <1>7. \A i \in d .. e : At(t, i) = At(newBlob, i)
    BY <1>p, <1>1, <1>3
  <1>8. Sum(t, d, e) = Sum(newBlob, d, e) /\ Sum(newBlob, d, e) \in Int
    BY <1>0, <1>5, <1>7, SumSame, SumType
  <1>9. \A i \in p .. p + n - 1 :
           At(t, i) = IF (i - p) % 2 = 1 /\ i - p < 2 * crs THEN CR ELSE NL
    BY <1>p, <1>1 DEF Whitespace
  <1>10. Sum(t, p, h) = crs * CR + (n - crs) * NL
    <2>1. IsWhite(t, p, n, crs)
      BY <1>9 DEF IsWhite
    <2>2. p + n <= Len(t) /\ t \in Seq(Int)
      BY <1>0, <1>4
    <2>3. Sum(t, p, p + n - 1) = WhiteSum(n, crs)
      BY <2>1, <2>2, SumWhite
    <2> QED
      BY <1>2, <2>3 DEF WhiteSum
  <1>11. crs * CR \in Int /\ (n - crs) * NL \in Int
    BY ByteTypes
  <1>12. Sum(t, p, e) = Sum(newBlob, d, e) + crs * CR + (n - crs) * NL
    BY <1>6, <1>8, <1>10, <1>11
  <1>13. (Sum(newBlob, d, e) + crs * CR + (n - crs) * NL) % W
             = Sum(blob, p, e) % W
    BY <1>1, <1>3 DEF Balances
  <1> QED
    BY <1>1, <1>12, <1>13 DEF Balanced

-----------------------------------------------------------------------------
\* What a blob t is after n bytes are stuffed into the slice that ends at e.
IsStuffed(t, n, crs, e) ==
    /\ t \in Seq(Bytes) /\ Len(t) = Len(blob)
    /\ e = End /\ e = SliceEnd(start) /\ start <= e /\ e <= LastPlace
    /\ n >= 2 /\ n <= FrontPlace /\ start + n <= e + 1 /\ 2 * crs + 2 <= n
    /\ Balances(n, crs)
    /\ \A i \in 0 .. LastPlace :
          At(t, i) = IF FrontPlace - n <= i /\ i < start THEN At(newBlob, i + n)
                     ELSE IF start <= i /\ i < start + n THEN Whitespace(i, crs)
                     ELSE At(newBlob, i)

LEMMA StuffIs ==
  ASSUME TypeOK, CursorOnGrid, VerifyStuff
  PROVE  /\ stage = "verify" /\ start \in Nat /\ start \in SliceStarts
         /\ OnGrid(start) /\ FrontPlace \in Nat /\ start >= FrontPlace
         /\ start >= firstSliceLen
         /\ \E n \in Nat, crs \in Nat, e \in Nat :
               /\ IsStuffed(newBlob', n, crs, e)
               /\ stuffed' = stuffed + n
  <1>1. stage # "place" /\ stage = "verify" /\ start >= 0 /\ start >= FrontPlace
        /\ newBlob' = Shifted(FirstChoice[1], FirstChoice[2])
        /\ stuffed' = stuffed + FirstChoice[1]
    BY DEF VerifyStuff, Unbalanced
  <1>2. PICK n \in Nat, crs \in Nat :
            /\ n = FirstChoice[1] /\ crs = FirstChoice[2]
            /\ n >= 2 /\ n <= FrontPlace /\ n <= End + 1 - start
            /\ 2 * crs + 2 <= n
            /\ Balances(n, crs)
    BY ChoiceIs
  <1>g. OnGrid(start)
    BY <1>1 DEF CursorOnGrid
  <1>3. /\ start \in Nat /\ End \in start .. LastPlace /\ LastPlace = Len(blob) - 1
        /\ FrontPlace \in Nat /\ Len(blob) \in Nat
        /\ start \in SliceStarts /\ End = SliceEnd(start)
        /\ start >= firstSliceLen
    BY <1>1, <1>g, AtCursor, Places
  <1>4. PICK e \in Nat : e = End
    BY <1>3
  <1>5. start + n <= Len(blob) /\ start + n <= e + 1
    <2>1. e <= LastPlace /\ n <= e + 1 - start
      BY <1>2, <1>3, <1>4
    <2>2. PICK a \in Nat : a = start
      BY <1>3
    <2>3. n <= e + 1 - a /\ e + 1 <= Len(blob)
      BY <1>3, <2>1, <2>2
    <2>4. a + n <= e + 1
      BY <2>3
    <2> QED
      BY <1>3, <2>2, <2>3, <2>4
  <1>6. newBlob' = Shifted(n, crs)
    BY <1>1, <1>2
  <1>7. FrontPlace <= start /\ n <= FrontPlace /\ stage # "place"
    BY <1>1, <1>2, <1>3
  <1>8. /\ Shifted(n, crs) \in Seq(Bytes) /\ Len(Shifted(n, crs)) = Len(blob)
        /\ \A i \in 0 .. LastPlace :
              At(Shifted(n, crs), i) =
                 IF FrontPlace - n <= i /\ i < start THEN At(newBlob, i + n)
                 ELSE IF start <= i /\ i < start + n THEN Whitespace(i, crs)
                 ELSE At(newBlob, i)
    BY <1>3, <1>5, <1>7, ShiftedIs
  <1>9. IsStuffed(Shifted(n, crs), n, crs, e)
    BY <1>2, <1>3, <1>4, <1>5, <1>8 DEF IsStuffed
  <1> QED
    BY <1>1, <1>2, <1>3, <1>6, <1>9, <1>g

LEMMA StuffFronts ==
  ASSUME TypeOK, stage = "verify", start \in Nat, start >= FrontPlace,
         NEW t, NEW n \in Nat, NEW crs \in Nat, NEW e \in Nat,
         IsStuffed(t, n, crs, e), FrontsOf(newBlob, FrontPlace)
  PROVE  FrontsOf(t, FrontPlace - n)
  <1>p. FrontPlace \in Nat /\ Len(blob) \in Nat /\ LastPlace = Len(blob) - 1
    BY Places
  <1>z. Sized(t) /\ Sized(newBlob)
    BY NewBlobSized, BytesAreNumbers DEF Sized, IsStuffed
  <1> SUFFICES ASSUME NEW s \in SliceStarts, SliceEnd(s) < FrontPlace - n
               PROVE  Balanced(t, s, SliceEnd(s))
    BY DEF FrontsOf
  <1>1. PICK b \in Nat : b = SliceEnd(s)
    BY SliceRange
  <1>2. /\ InBlob(s, b) /\ s \in Nat /\ s <= b /\ b <= LastPlace
        /\ b < FrontPlace - n
    BY <1>1, SliceRange
  <1>3. Balanced(newBlob, s, b)
    BY <1>1, <1>2, <1>p DEF FrontsOf
  <1>4. \A i \in s .. b : At(t, i) = At(newBlob, i)
    <2> SUFFICES ASSUME NEW i \in s .. b
                 PROVE  At(t, i) = At(newBlob, i)
      OBVIOUS
    <2>1. i \in 0 .. LastPlace /\ ~(FrontPlace - n <= i) /\ ~(start <= i)
      BY <1>2, <1>p
    <2> QED
      BY <2>1 DEF IsStuffed
  <1>5. Balanced(t, s, b)
    BY <1>2, <1>3, <1>4, <1>z, BalancedSame
  <1> QED
    BY <1>1, <1>5

LEMMA StuffTails ==
  ASSUME TypeOK, stage = "verify", start \in Nat, start >= FrontPlace,
         OnGrid(start),
         NEW t, NEW n \in Nat, NEW crs \in Nat, NEW e \in Nat,
         IsStuffed(t, n, crs, e), TailsOf(newBlob, FrontPlace, start)
  PROVE  TailsOf(t, FrontPlace - n, start - SliceLen)
  <1>p. FrontPlace \in Nat /\ Len(blob) \in Nat /\ LastPlace = Len(blob) - 1
    BY Places
  <1>z. Sized(t) /\ Sized(newBlob)
    BY NewBlobSized, BytesAreNumbers DEF Sized, IsStuffed
  <1>e. /\ e = SliceEnd(start) /\ start <= e /\ e <= LastPlace
        /\ start + n <= e + 1 /\ e = End /\ 2 * crs <= n
    BY DEF IsStuffed
  <1>1. \A i \in start .. LastPlace :
           At(t, i) = IF i < start + n THEN Whitespace(i, crs)
                                       ELSE At(newBlob, i)
    BY <1>p DEF IsStuffed
  <1>2. \A i \in e + 1 .. LastPlace : At(t, i) = At(newBlob, i)
    BY <1>p, <1>e, <1>1
  <1>3. ASSUME NEW a \in Nat, a >= e + 1, a <= Len(blob), TailBalanced(newBlob, a)
        PROVE  TailBalanced(t, a)
    <2>1. \A i \in a .. LastPlace : At(t, i) = At(newBlob, i)
      BY <1>2, <1>3, <1>p, <1>e
    <2> QED
      BY <1>3, <1>z, <2>1, TailSame
  <1>4. TailBalanced(t, start)
    <2>1. TailBalanced(newBlob, e + 1)
      BY <1>e, TailAtCursor
    <2>2. TailBalanced(t, e + 1)
      BY <1>3, <1>e, <1>p, <2>1
    <2>3. Balanced(t, start, e)
      BY <1>1, <1>e, StuffBalances DEF IsStuffed
    <2> QED
      BY <1>e, <1>z, <2>2, <2>3, TailExtends
  <1> SUFFICES ASSUME NEW s \in SliceStarts, s >= firstSliceLen,
                      s >= FrontPlace - n, s > start - SliceLen
               PROVE  TailBalanced(t, s)
    BY DEF TailsOf
  <1>5. CASE s = start
    BY <1>4, <1>5
  <1>6. CASE s > start /\ s > SliceEnd(start)
    <2>1. s \in Nat /\ s <= LastPlace
      BY SliceRange, SliceEnds
    <2>2. TailBalanced(newBlob, s)
      BY <1>6, <1>p, <2>1 DEF TailsOf
    <2> QED
      BY <1>3, <1>6, <1>e, <1>p, <2>1, <2>2
  <1> QED
    BY <1>5, <1>6, NextCursor

-----------------------------------------------------------------------------
(* What fixupStuffBytes leaves *)

\* The bytes in front of the certificate: b, but for the last one.
IsLevel(t, f, p, b, last) ==
    \A i \in f .. p - 1 : At(t, i) = IF i = p - 1 THEN last ELSE b

LEMMA LevelSum ==
  ASSUME NEW t \in Seq(Int), NEW f \in Nat, NEW p \in Nat, f < p, p <= Len(t),
         NEW b \in Int, NEW last \in Int, IsLevel(t, f, p, b, last)
  PROVE  Sum(t, f, p - 1) = (p - f - 1) * b + last
  <1>1. PICK n \in Nat : n = p - 1 - f
    OBVIOUS
  <1>2. f + n < Len(t) /\ f + n = p - 1 /\ f + n \in f .. p - 1
    BY <1>1
  <1>3. PICK h \in Int : h = f + n - 1
    BY <1>1
  <1>4. Within(t, f, h) /\ \A i \in f .. h : At(t, i) = b
    BY <1>1, <1>2, <1>3 DEF Within, IsLevel
  <1>5. Sum(t, f, h) = (h - f + 1) * b
    BY <1>4, SumLevel
  <1>6. h - f + 1 = p - f - 1
    BY <1>1, <1>3
  <1>7. Sum(t, f, f + n) = Sum(t, f, f + n - 1) + At(t, f + n)
    BY <1>2, SumNext
  <1>8. At(t, f + n) = last
    BY <1>2 DEF IsLevel
  <1> QED
    BY <1>2, <1>3, <1>5, <1>6, <1>7, <1>8

\* FrontSlice, with names for its places.
LEMMA FrontSliceRange ==
  ASSUME TypeOK, stage # "place", Straddled # {}
  PROVE  /\ FrontSlice \in SliceStarts /\ FrontSlice \in Nat
         /\ FrontPlace \in Nat /\ FrontSlice < FrontPlace
         /\ SliceEnd(FrontSlice) \in Nat
         /\ FrontPlace <= SliceEnd(FrontSlice)
         /\ SliceEnd(FrontSlice) <= LastPlace
         /\ Len(blob) \in Nat /\ LastPlace = Len(blob) - 1
  BY FrontSliceIs, SliceRange, Places

\* Behind the slice that the certificate begins in.
LEMMA TailAtFront ==
  ASSUME TypeOK, stage # "place", Straddled # {}, start < 0,
         TailsOf(newBlob, FrontPlace, start)
  PROVE  TailBalanced(newBlob, SliceEnd(FrontSlice) + 1)
  <1>1. /\ FrontSlice \in SliceStarts /\ FrontSlice \in Nat
        /\ FrontPlace \in Nat /\ SliceEnd(FrontSlice) \in Nat
        /\ FrontPlace <= SliceEnd(FrontSlice) /\ start \in Int
    BY FrontSliceRange, Places
  <1>2. CASE SliceEnd(FrontSlice) + 1 = Len(blob)
    BY <1>2, TailAtEnd, NewBlobSized
  <1>3. CASE SliceEnd(FrontSlice) + 1 # Len(blob)
    <2>1. /\ SliceEnd(FrontSlice) + 1 \in SliceStarts
          /\ SliceEnd(FrontSlice) + 1 >= firstSliceLen
      BY <1>1, <1>3, SliceEnds
    <2>2. /\ SliceEnd(FrontSlice) + 1 >= FrontPlace
          /\ SliceEnd(FrontSlice) + 1 > start
      BY <1>1
    <2> QED
      BY <2>1, <2>2 DEF TailsOf
  <1> QED
    BY <1>2, <1>3

\* What is in front of the certificate makes up for what is behind.
LEMMA LevelTail ==
  ASSUME TypeOK, stage # "place", Straddled # {},
         NEW t \in Seq(Bytes), Len(t) = Len(blob),
         NEW b \in Bytes, NEW last \in Bytes,
         \A i \in 0 .. LastPlace :
            At(t, i) = IF i = FrontPlace - 1 THEN last
                       ELSE IF FrontSlice <= i /\ i < FrontPlace THEN b
                       ELSE At(newBlob, i),
         Cong((FrontPlace - FrontSlice - 1) * b + last, Delta)
  PROVE  TailBalanced(t, FrontSlice)
  <1>f. PICK f \in Nat, p \in Nat, l \in Int :
           /\ f = FrontSlice /\ p = FrontPlace /\ l = LastPlace
           /\ f < p /\ p <= l /\ l = Len(blob) - 1 /\ Len(blob) \in Nat
    <2>1. LastPlace \in Int /\ FrontPlace <= LastPlace
      BY FrontSliceRange
    <2> QED
      BY <2>1, FrontSliceRange
  <1>z. Sized(t) /\ Sized(newBlob) /\ t \in Seq(Int)
    BY NewBlobSized, BytesAreNumbers DEF Sized
  <1>b. b \in Int /\ last \in Int
    BY ByteTypes
  <1>1. Sum(t, f, p - 1) = (p - f - 1) * b + last
    <2>1. IsLevel(t, f, p, b, last)
      <3>1. SUFFICES ASSUME NEW i \in f .. p - 1
                     PROVE  At(t, i) = IF i = p - 1 THEN last ELSE b
        BY DEF IsLevel
      <3>2. i \in 0 .. LastPlace /\ FrontSlice <= i /\ i < FrontPlace
        BY <1>f
      <3>3. i = FrontPlace - 1 <=> i = p - 1
        BY <1>f
      <3> QED
        BY <3>2, <3>3
    <2>2. p <= Len(t)
      BY <1>f
    <2> QED
      BY <1>b, <1>f, <1>z, <2>1, <2>2, LevelSum
  <1>2. Sum(t, p, l) = Sum(newBlob, p, l) /\ InBlob(p, l)
    <2>1. \A i \in p .. l : At(t, i) = At(newBlob, i)
      BY <1>f
    <2>2. InBlob(p, l)
      BY <1>f DEF InBlob
    <2> QED
      BY <1>z, <2>1, <2>2, BalancedSame
  <1>3. PICK h \in Int : h = p - 1
    OBVIOUS
  <1>4. /\ Sum(t, f, l) = Sum(t, f, h) + Sum(t, p, l)
        /\ Sum(t, f, h) \in Int /\ Sum(t, p, l) \in Int
    <2>1. f <= h + 1 /\ h <= LastPlace /\ h + 1 = p
      BY <1>f, <1>3
    <2>2. /\ Sum(t, f, h) \in Int /\ Sum(t, h + 1, LastPlace) \in Int
          /\ Sum(t, f, LastPlace) = Sum(t, f, h) + Sum(t, h + 1, LastPlace)
      BY <1>z, <2>1, TailSplit
    <2> QED
      BY <1>f, <2>1, <2>2
  <1>5. PICK x \in Int, y \in Int, v \in Int :
           x = Sum(t, f, h) /\ y = Sum(newBlob, p, l) /\ v = Sum(blob, f, l)
    BY <1>2, <1>4, <1>f, DeltaIs
  <1>6. Delta = (v - y) % Word /\ Delta \in Int
    BY <1>5, <1>f, DeltaIs, ByteTypes DEF Delta
  <1>7. Cong(Delta, v - y)
    <2>1. v - y \in Int
      OBVIOUS
    <2> QED
      BY <1>6, <2>1, CongWord
  <1>8. Cong(x, Delta)
    BY <1>1, <1>3, <1>5, <1>f
  <1>9. Cong(x, v - y)
    <2>1. v - y \in Int
      OBVIOUS
    <2> QED
      BY <1>6, <1>7, <1>8, <2>1, CongTrans
  <1>10. Cong(x + y, v)
    <2>1. v - y \in Int /\ (v - y) + y = v /\ Cong(y, y)
      BY CongRefl
    <2>2. Cong(x + y, (v - y) + y)
      BY <1>9, <2>1, CongAdd
    <2> QED
      BY <2>1, <2>2
  <1> QED
    BY <1>2, <1>4, <1>5, <1>10, <1>f DEF TailBalanced

LEMMA LevelSlices ==
  ASSUME TypeOK, stage # "place", Straddled # {}, start < 0,
         FrontsOf(newBlob, FrontPlace), TailsOf(newBlob, FrontPlace, start),
         NEW t \in Seq(Bytes), Len(t) = Len(blob),
         NEW b \in Bytes, NEW last \in Bytes,
         \A i \in 0 .. LastPlace :
            At(t, i) = IF i = FrontPlace - 1 THEN last
                       ELSE IF FrontSlice <= i /\ i < FrontPlace THEN b
                       ELSE At(newBlob, i),
         Cong((FrontPlace - FrontSlice - 1) * b + last, Delta)
  PROVE  SlicesOf(t)
  <1>p. /\ FrontSlice \in SliceStarts /\ FrontSlice \in Nat
        /\ FrontPlace \in Nat /\ FrontSlice < FrontPlace
        /\ SliceEnd(FrontSlice) \in Nat
        /\ FrontPlace <= SliceEnd(FrontSlice)
        /\ SliceEnd(FrontSlice) <= LastPlace
        /\ Len(blob) \in Nat /\ LastPlace = Len(blob) - 1 /\ start \in Int
    BY FrontSliceRange, Places
  <1>z. Sized(t) /\ Sized(newBlob)
    BY NewBlobSized, BytesAreNumbers DEF Sized
  <1>1. \A i \in 0 .. LastPlace :
           i < FrontSlice \/ i >= FrontPlace => At(t, i) = At(newBlob, i)
    BY <1>p
  <1>2. ASSUME NEW a \in Nat, FrontPlace <= a, a <= Len(blob),
               TailBalanced(newBlob, a)
        PROVE  TailBalanced(t, a)
    <2>1. \A i \in a .. LastPlace : At(t, i) = At(newBlob, i)
      BY <1>1, <1>2, <1>p
    <2> QED
      BY <1>2, <1>z, <2>1, TailSame
  <1>3. Balanced(t, FrontSlice, SliceEnd(FrontSlice))
    <2>1. PICK f \in Nat, e \in Nat :
             /\ f = FrontSlice /\ e = SliceEnd(FrontSlice)
             /\ f <= e + 1 /\ e <= LastPlace /\ FrontPlace <= e + 1
             /\ e + 1 <= Len(blob)
      <3>1. /\ FrontSlice <= SliceEnd(FrontSlice) + 1
            /\ FrontPlace <= SliceEnd(FrontSlice) + 1
            /\ SliceEnd(FrontSlice) + 1 <= Len(blob)
        BY <1>p
      <3> QED
        BY <1>p, <3>1
    <2>2. TailBalanced(newBlob, e + 1)
      BY <2>1, TailAtFront
    <2>3. TailBalanced(t, e + 1)
      BY <1>2, <2>1, <2>2
    <2>4. TailBalanced(t, f)
      BY <2>1, LevelTail
    <2>5. Balanced(t, f, e)
      BY <1>z, <2>1, <2>3, <2>4, TailExtends
    <2> QED
      BY <2>1, <2>5
  <1> SUFFICES ASSUME NEW s \in SliceStarts, s # FrontSlice
               PROVE  Balanced(t, s, SliceEnd(s))
    BY <1>3 DEF SlicesOf
  <1>4. PICK r \in Nat, e \in Nat :
           /\ r = s /\ e = SliceEnd(s) /\ InBlob(r, e)
           /\ r <= e + 1 /\ r <= e /\ e <= LastPlace
    BY SliceRange
  <1>5. CASE e < FrontPlace
    <2>1. Balanced(newBlob, r, e)
      BY <1>4, <1>5 DEF FrontsOf
    <2>2. r < FrontSlice \/ r > FrontSlice
      BY <1>4, <1>p
    <2>3. e < FrontSlice
      BY <1>4, <1>5, <1>p, <2>2, SlicesApart
    <2>4. \A i \in r .. e : At(t, i) = At(newBlob, i)
      BY <1>1, <1>4, <1>p, <2>3
    <2> QED
      BY <1>4, <1>z, <2>1, <2>4, BalancedSame
  <1>6. CASE r >= FrontPlace
    <2>1. r >= firstSliceLen /\ r > start
      BY <1>4, <1>6, <1>p, SliceStartIff
    <2>2. TailBalanced(newBlob, r)
      BY <1>4, <1>6, <2>1 DEF TailsOf
    <2>3. TailBalanced(newBlob, e + 1)
      <3>1. CASE e + 1 = Len(blob)
        BY <1>z, <3>1, TailAtEnd
      <3>2. CASE e + 1 # Len(blob)
        <4>1. e + 1 \in SliceStarts /\ e + 1 >= firstSliceLen
          BY <1>4, <3>2, SliceEnds
        <4>2. e + 1 >= FrontPlace /\ e + 1 > start
          BY <1>4, <1>6, <1>p
        <4> QED
          BY <4>1, <4>2 DEF TailsOf
      <3> QED
        BY <3>1, <3>2
    <2>4. TailBalanced(t, r) /\ TailBalanced(t, e + 1)
      <3>1. /\ r <= Len(blob) /\ e + 1 <= Len(blob) /\ FrontPlace <= e + 1
            /\ e + 1 \in Nat
        BY <1>4, <1>6, <1>p
      <3> QED
        BY <1>2, <1>6, <2>2, <2>3, <3>1
    <2> QED
      BY <1>4, <1>z, <2>4, TailExtends
  <1> QED
    BY <1>4, <1>5, <1>6, FrontSliceIs

-----------------------------------------------------------------------------
LEMMA DivExact ==
  ASSUME NEW d \in Int, NEW k \in Int, d = k * SliceLen
  PROVE  d \div SliceLen = k
  <1>b. SliceLen \in Nat /\ SliceLen > 4
    BY ByteTypes
  <1>1. PICK q \in Int, r \in Int :
           q = d \div SliceLen /\ r \in 0 .. SliceLen - 1
           /\ d = q * SliceLen + r
    BY <1>b, QuotientOf
  <1>2. r = (k - q) * SliceLen
    BY <1>1, <1>b
  <1>3. PICK j \in Int : j = k - q
    OBVIOUS
  <1>4. r = j * SliceLen
    BY <1>2, <1>3
  <1>5. j < 1
    <2> SUFFICES ASSUME j >= 1 PROVE FALSE
      OBVIOUS
    <2>1. j * SliceLen >= SliceLen
      BY <1>b
    <2> QED
      BY <1>1, <1>4, <1>b, <2>1
  <1>6. j > -1
    <2> SUFFICES ASSUME j <= -1 PROVE FALSE
      OBVIOUS
    <2>1. j * SliceLen <= -SliceLen
      BY <1>b
    <2> QED
      BY <1>1, <1>4, <1>b, <2>1
  <1> QED
    BY <1>1, <1>3, <1>5, <1>6

\* What is spread over a slice adds up to whole words of a byte.
LEMMA SpreadAdds ==
  ASSUME NEW r \in Nat
  PROVE  /\ r - (r % W) \in Int /\ (r - (r % W)) \div SliceLen \in Int
         /\ Cong(SliceLen * ((r - (r % W)) \div SliceLen), 0)
  <1>b. /\ SliceLen \in Nat /\ SliceLen > 4 /\ W \in Nat /\ W > 1
        /\ W % SliceLen = 0
    BY ByteTypes, StuffingAssumption
  <1>1. PICK q \in Int, z \in Int : z = r % W /\ r = q * W + z
    BY <1>b, QuotientOf
  <1>2. PICK m \in Int : W = m * SliceLen
    <2>1. W = (W \div SliceLen) * SliceLen + (W % SliceLen)
          /\ W \div SliceLen \in Int
      BY <1>b, QuotientOf
    <2> QED
      BY <1>b, <2>1
  <1>3. PICK d \in Int : d = r - (r % W) /\ d = q * W
    BY <1>1, <1>b
  <1>4. PICK k \in Int : k = q * m
    OBVIOUS
  <1>5. d = k * SliceLen
    BY <1>2, <1>3, <1>4, <1>b
  <1>6. d \div SliceLen = k
    BY <1>5, DivExact
  <1>7. SliceLen * k = 0 + q * W
    BY <1>3, <1>5, <1>b
  <1>8. Cong(SliceLen * k, 0)
    BY <1>7 DEF Cong
  <1> QED
    BY <1>3, <1>6, <1>8

\* The slice before the one that the certificate begins in.
LEMMA SliceBefore ==
  ASSUME TypeOK, stage # "place", Straddled # {}, FrontSlice >= SliceLen
  PROVE  /\ FrontSlice - SliceLen \in SliceStarts
         /\ SliceEnd(FrontSlice - SliceLen) = FrontSlice - 1
  <1>p. /\ FrontSlice \in SliceStarts /\ FrontSlice \in Nat
        /\ FrontSlice < FrontPlace /\ FrontPlace <= LastPlace
        /\ FrontPlace \in Nat
        /\ Len(blob) \in Nat /\ LastPlace = Len(blob) - 1
        /\ firstSliceLen \in 0 .. SliceLen - 1
        /\ SliceLen \in Nat /\ SliceLen > 4
    <2>1. /\ FrontSlice \in SliceStarts /\ FrontSlice \in Nat
          /\ FrontSlice < FrontPlace /\ FrontPlace <= SliceEnd(FrontSlice)
          /\ SliceEnd(FrontSlice) <= LastPlace /\ FrontPlace \in Nat
          /\ SliceEnd(FrontSlice) \in Nat
          /\ Len(blob) \in Nat /\ LastPlace = Len(blob) - 1
      BY FrontSliceRange
    <2>2. FrontPlace <= LastPlace
      BY <2>1
    <2>3. firstSliceLen \in 0 .. SliceLen - 1
      BY Places
    <2> QED
      BY <2>1, <2>2, <2>3, ByteTypes
  <1>1. FrontSlice > firstSliceLen /\ OnGrid(FrontSlice)
    BY <1>p, SliceEnds
  <1>2. OnGrid(FrontSlice - SliceLen)
    BY <1>1, <1>p, GridMoves
  <1>3. firstSliceLen + SliceLen <= FrontSlice
    BY <1>1, <1>p, FirstOnGrid, GridApart
  <1>4. FrontSlice - SliceLen \in firstSliceLen .. LastPlace
    BY <1>3, <1>p
  <1>5. FrontSlice - SliceLen \in SliceStarts
    BY <1>2, <1>4, SliceStartIff
  <1>6. SliceEnd(FrontSlice - SliceLen) = FrontSlice - 1
    <2>1. ~(FrontSlice - SliceLen < firstSliceLen)
      BY <1>4, <1>p
    <2>2. (FrontSlice - SliceLen) + SliceLen = FrontSlice
      BY <1>p
    <2> QED
      BY <2>1, <2>2, <1>p DEF SliceEnd, Minimum
  <1> QED
    BY <1>5, <1>6

LEMMA SpreadSlices ==
  ASSUME TypeOK, stage # "place", Straddled # {}, FrontSlice >= SliceLen,
         NEW t \in Seq(Bytes), Len(t) = Len(blob), SlicesOf(t),
         NEW r \in Nat
  PROVE  SlicesOf(Spread(t, r - (r % W)))
  <1>p. /\ FrontSlice \in SliceStarts /\ FrontSlice \in Nat
        /\ FrontSlice <= LastPlace
        /\ Len(blob) \in Nat /\ LastPlace = Len(blob) - 1
        /\ SliceLen \in Nat /\ SliceLen > 4
        /\ SliceEnd(FrontSlice) = FrontSlice + SliceLen - 1
    BY FrontSlicePlaces, FrontSliceRange, ByteTypes, SliceEnds
  <1>d. PICK delta \in Int, d \in Int :
           /\ delta = r - (r % W) /\ d = delta \div SliceLen
           /\ Cong(SliceLen * d, 0)
    BY SpreadAdds
  <1>u. PICK u \in Seq(Bytes) :
           /\ u = Spread(t, delta) /\ Len(u) = Len(blob)
           /\ \A i \in 0 .. LastPlace :
                 At(u, i) =
                    IF FrontSlice - SliceLen <= i /\ i < FrontSlice
                    THEN (At(t, i) + (delta \div SliceLen)) % W
                    ELSE At(t, i)
    BY <1>p, SpreadIs
  <1>v. \A i \in 0 .. LastPlace :
           At(u, i) = IF FrontSlice - SliceLen <= i /\ i < FrontSlice
                      THEN (At(t, i) + d) % W
                      ELSE At(t, i)
    BY <1>d, <1>u
  <1>z. Sized(t) /\ Sized(u) /\ t \in Seq(Int) /\ u \in Seq(Int)
    BY <1>u, BytesAreNumbers DEF Sized
  <1>1. PICK p \in Nat, f \in Nat, h \in Int :
           /\ p = FrontSlice - SliceLen /\ f = FrontSlice /\ h = f - 1
           /\ p \in SliceStarts /\ SliceEnd(p) = h /\ p <= h
           /\ h <= LastPlace
    BY <1>p, SliceBefore, SliceRange
  <1> SUFFICES ASSUME NEW s \in SliceStarts
               PROVE  Balanced(u, s, SliceEnd(s))
    BY <1>d, <1>u DEF SlicesOf
  <1>2. PICK a \in Nat, e \in Nat :
           /\ a = s /\ e = SliceEnd(s) /\ InBlob(a, e)
           /\ a <= e /\ e <= LastPlace /\ Balanced(t, a, e)
    BY SliceRange DEF SlicesOf
  <1>3. CASE s = p
    <2>1. a = p /\ e = h
      BY <1>1, <1>2, <1>3
    <2>2. \A i \in p .. h : At(u, i) = (At(t, i) + d) % W
      BY <1>v, <1>1, <1>p
    <2>3. Within(t, p, h) /\ Within(u, p, h)
      BY <1>1, <1>p, <1>u DEF Within
    <2>4. Cong(Sum(u, p, h), Sum(t, p, h) + (h - p + 1) * d)
      BY <1>z, <2>2, <2>3, SumRaised
    <2>5. h - p + 1 = SliceLen
      BY <1>1, <1>p
    <2>6. PICK x \in Int, y \in Int, w \in Int, b \in Int :
             /\ x = Sum(u, p, h) /\ y = Sum(t, p, h) /\ w = SliceLen * d
             /\ b = Sum(blob, p, h)
      <3>1. Sum(u, p, h) \in Int /\ Sum(t, p, h) \in Int
            /\ Sum(blob, p, h) \in Int
        BY <1>2, <1>z, <2>1, BalancedIff
      <3>2. SliceLen * d \in Int
        BY <1>p
      <3> QED
        BY <3>1, <3>2
    <2>7. Cong(x, y + w)
      BY <2>4, <2>5, <2>6
    <2>8. Cong(y, b)
      BY <1>2, <1>z, <2>1, <2>6, BalancedIff
    <2>9. Cong(y + w, b + 0)
      BY <1>d, <2>6, <2>8, CongAdd
    <2>10. Cong(x, b)
      <3>1. y + w \in Int /\ b + 0 = b
        OBVIOUS
      <3> QED
        BY <2>7, <2>9, <3>1, CongTrans
    <2> QED
      BY <1>2, <1>z, <2>1, <2>6, <2>10, BalancedIff
  <1>4. CASE s # p
    <2>1. a < p \/ a > p
      BY <1>1, <1>2, <1>4
    <2>2. e < p \/ h < a
      BY <1>1, <1>2, <2>1, SlicesApart
    <2>3. \A i \in a .. e : At(u, i) = At(t, i)
      BY <1>v, <1>1, <1>2, <1>p, <2>2
    <2> QED
      BY <1>2, <1>z, <2>3, BalancedSame
  <1> QED
    BY <1>3, <1>4

LEMMA FixupSlices ==
  ASSUME TypeOK, CursorOnGrid, FrontsBalanced, TailsBalanced,
         stage = "fixup", FixupLevel \/ FixupSpread
  PROVE  SlicesOf(newBlob')
  <1>1. /\ stage # "place" /\ start < 0 /\ Straddled # {}
        /\ FrontsOf(newBlob, FrontPlace)
        /\ TailsOf(newBlob, FrontPlace, start)
    BY DEF CursorOnGrid, FrontsBalanced, TailsBalanced, FixupLevel, FixupSpread
  <1>2. PICK c \in Nat, a \in Nat, r \in Nat, delta \in Nat :
           /\ c = FrontPlace - FrontSlice /\ c >= 1
           /\ a = Avg /\ r = Rest /\ delta = Delta
    BY <1>1, DeltaIs, ByteTypes
  <1>w. W \in Nat /\ W > 1 /\ Bytes \subseteq Int
    BY ByteTypes
  <1>3. PICK m \in Int : m = Minimum(a, W - 1)
    BY <1>w DEF Minimum
  <1>4. PICK v \in Int : v = (c - 1) * m
    BY <1>3
  <1>5. r = (delta - v) % Word
    BY <1>2, <1>3, <1>4 DEF Rest
  <1>6. Cong(r, delta - v)
    <2>1. delta - v \in Int
      OBVIOUS
    <2> QED
      BY <1>5, <2>1, CongWord
  <1>7. ASSUME NEW l \in Bytes, Cong(l, r)
        PROVE  Cong(v + l, delta)
    <2>1. delta - v \in Int /\ l \in Int /\ v + (delta - v) = delta
      BY <1>w
    <2>2. Cong(l, delta - v)
      BY <1>6, <1>7, <2>1, CongTrans
    <2>3. Cong(v, v)
      BY CongRefl
    <2>4. Cong(v + l, v + (delta - v))
      BY <2>1, <2>2, <2>3, CongAdd
    <2> QED
      BY <2>1, <2>4
  <1>8. ASSUME NEW b \in Bytes, NEW l \in Bytes, b = m, Cong(l, r)
        PROVE  /\ Level(b, l) \in Seq(Bytes) /\ Len(Level(b, l)) = Len(blob)
               /\ SlicesOf(Level(b, l))
    <2>1. Cong((FrontPlace - FrontSlice - 1) * b + l, Delta)
      BY <1>2, <1>4, <1>7, <1>8
    <2>2. PICK t : t = Level(b, l)
      OBVIOUS
    <2>3. /\ t \in Seq(Bytes) /\ Len(t) = Len(blob)
          /\ \A i \in 0 .. LastPlace :
                At(t, i) = IF i = FrontPlace - 1 THEN l
                           ELSE IF FrontSlice <= i /\ i < FrontPlace THEN b
                           ELSE At(newBlob, i)
      BY <1>1, <2>2, LevelIs
    <2>4. SlicesOf(t)
      BY <1>1, <2>1, <2>3, LevelSlices
    <2> QED
      BY <2>2, <2>3, <2>4
  <1>9. CASE FixupLevel
    <2>1. a < W /\ r < W /\ newBlob' = Level(a, r)
      BY <1>2, <1>9 DEF FixupLevel
    <2>2. a \in Bytes /\ r \in Bytes /\ a = m
      BY <1>3, <1>w, <2>1 DEF Bytes, Minimum
    <2>3. Cong(r, r)
      BY CongRefl
    <2> QED
      BY <1>8, <2>1, <2>2, <2>3
  <1>10. CASE FixupSpread
    <2>1. /\ a >= W /\ FrontSlice >= SliceLen
          /\ newBlob' = Spread(Level(W - 1, r % W), r - (r % W))
      BY <1>2, <1>10 DEF FixupSpread
    <2>2. PICK b \in Bytes : b = W - 1 /\ b = m
      BY <1>3, <1>w, <2>1 DEF Bytes, Minimum
    <2>3. PICK l \in Bytes : l = r % W /\ Cong(l, r)
      BY CongMod, ModIsByte
    <2>4. /\ Level(b, l) \in Seq(Bytes) /\ Len(Level(b, l)) = Len(blob)
          /\ SlicesOf(Level(b, l))
      BY <1>8, <2>2, <2>3
    <2>5. newBlob' = Spread(Level(b, l), r - (r % W))
      BY <2>1, <2>2, <2>3
    <2> QED
      BY <1>1, <2>1, <2>4, <2>5, SpreadSlices
  <1> QED
    BY <1>9, <1>10

-----------------------------------------------------------------------------
BalanceInv ==
    /\ TypeOK /\ CursorOnGrid
    /\ FrontsBalanced /\ TailsBalanced
    /\ SlicesBalanced

LEMMA BalanceInvInit ==
  Init => BalanceInv
  BY TypeOKInit
  DEF BalanceInv, Init, FrontsBalanced, TailsBalanced, SlicesBalanced

LEMMA BalanceInvStep ==
  BalanceInv /\ [Next]_vars => BalanceInv'
  <1> SUFFICES ASSUME BalanceInv, [Next]_vars
               PROVE  BalanceInv'
    OBVIOUS
  <1>t. TypeOK /\ CursorOnGrid /\ TypeOK' /\ CursorOnGrid'
    BY TypeOKStep DEF BalanceInv
  <1>b. FrontsBalanced /\ TailsBalanced /\ SlicesBalanced
    BY DEF BalanceInv
  <1> SUFFICES FrontsBalanced' /\ TailsBalanced' /\ SlicesBalanced'
    BY <1>t DEF BalanceInv
  <1>s. ASSUME UNCHANGED inputVars,
               stage' \in {"verify", "fixup"} =>
                  /\ FrontsOf(newBlob', ToStuff - stuffed')
                  /\ TailsOf(newBlob', ToStuff - stuffed', start'),
               stage' = "check" => SlicesOf(newBlob')
        PROVE  FrontsBalanced' /\ TailsBalanced' /\ SlicesBalanced'
    BY <1>s, SameInputs DEF FrontsBalanced, TailsBalanced, SlicesBalanced
  <1>f. FrontPlace = ToStuff - stuffed
    BY DEF FrontPlace
  <1>1. CASE Place
    <2>1. /\ UNCHANGED inputVars /\ stage' = "verify"
          /\ stuffed' = stuffed /\ stage = "place"
      BY <1>1 DEF Place
    <2>2. stuffed = 0 /\ ToStuff - stuffed' = ToStuff
      BY <1>t, <2>1, Places DEF CursorOnGrid
    <2> QED
      BY <1>1, <1>s, <1>t, <2>1, <2>2, PlaceFronts, PlaceTails
  <1>2. CASE VerifyDone
    <2>1. /\ UNCHANGED <<inputVars, newBlob, start, stuffed>>
          /\ stage' = "fixup" /\ stage = "verify"
      BY <1>2 DEF VerifyDone
    <2> QED
      BY <1>b, <1>f, <1>s, <2>1 DEF FrontsBalanced, TailsBalanced
  <1>3. CASE VerifySkip
    <2>1. /\ UNCHANGED <<inputVars, newBlob, stuffed, stage>>
          /\ start' = start - SliceLen /\ stage = "verify"
      BY <1>3 DEF VerifySkip
    <2>2. TailsOf(newBlob, FrontPlace, start - SliceLen)
      BY <1>3, <1>b, <1>t, SkipTails
    <2> QED
      BY <1>b, <1>f, <1>s, <2>1, <2>2 DEF FrontsBalanced
  <1>4. CASE VerifyStuff
    <2>1. /\ UNCHANGED inputVars /\ stage' = stage
          /\ start' = start - SliceLen
      BY <1>4 DEF VerifyStuff
    <2>2. PICK n \in Nat, crs \in Nat, e \in Nat :
             /\ IsStuffed(newBlob', n, crs, e)
             /\ stuffed' = stuffed + n
      BY <1>4, <1>t, StuffIs
    <2>3. /\ stage = "verify" /\ start \in Nat /\ OnGrid(start)
          /\ start >= FrontPlace
      BY <1>4, <1>t, StuffIs
    <2>4. /\ FrontsOf(newBlob, FrontPlace)
          /\ TailsOf(newBlob, FrontPlace, start)
      BY <1>b, <2>3 DEF FrontsBalanced, TailsBalanced
    <2>5. FrontsOf(newBlob', FrontPlace - n)
      BY <1>t, <2>2, <2>3, <2>4, StuffFronts
    <2>6. TailsOf(newBlob', FrontPlace - n, start - SliceLen)
      BY <1>t, <2>2, <2>3, <2>4, StuffTails
    <2>7. ToStuff - stuffed' = FrontPlace - n
      <3>1. ToStuff \in Int /\ stuffed \in Int
        BY <1>t, Places DEF TypeOK
      <3> QED
        BY <1>f, <2>2, <3>1
    <2> QED
      BY <1>s, <2>1, <2>3, <2>5, <2>6, <2>7
  <1>5. CASE VerifyReject \/ VerifyPanic
    <2>1. /\ UNCHANGED <<inputVars, newBlob, start, stuffed>>
          /\ stage' \in {"rejected", "panic"}
      BY <1>5 DEF VerifyReject, VerifyPanic
    <2> QED
      BY <1>s, <2>1
  <1>6. CASE Fixup
    <2>1. /\ UNCHANGED <<inputVars, start, stuffed>> /\ stage = "fixup"
          /\ stage' \in {"check", "rejected"}
          /\ stage' = "check" => FixupLevel \/ FixupSpread
      BY <1>6 DEF Fixup, FixupLevel, FixupSpread, FixupReject
    <2>2. stage' = "check" => SlicesOf(newBlob')
      BY <1>b, <1>t, <2>1, FixupSlices
    <2> QED
      BY <1>s, <2>1, <2>2
  <1>7. CASE Check
    <2>1. /\ UNCHANGED <<inputVars, newBlob, start, stuffed>>
          /\ stage' \in {"accepted", "rejected"}
      BY <1>7 DEF Check
    <2> QED
      BY <1>s, <2>1
  <1>8. CASE UNCHANGED vars
    <2>1. UNCHANGED <<inputVars, newBlob, start, stuffed, stage>>
      BY <1>8 DEF vars
    <2>2. stage = "check" => SlicesOf(newBlob)
      BY <1>b DEF SlicesBalanced, SlicesOf
    <2> QED
      BY <1>b, <1>f, <1>s, <2>1, <2>2 DEF FrontsBalanced, TailsBalanced
  <1> QED
    BY <1>1, <1>2, <1>3, <1>4, <1>5, <1>6, <1>7, <1>8 DEF Next, Verify

\* What verifyFixedBlobs and fixupStuffBytes leave has every slice balanced:
\* firstNonMatchingSlice finds none that is not.
THEOREM SlicesAreBalanced == Spec => []SlicesBalanced
  <1>1. Init => BalanceInv
    BY BalanceInvInit
  <1>2. BalanceInv /\ [Next]_vars => BalanceInv'
    BY BalanceInvStep
  <1>3. BalanceInv => SlicesBalanced
    BY DEF BalanceInv
  <1> QED
    BY <1>1, <1>2, <1>3, PTL DEF Spec

-----------------------------------------------------------------------------
(* Pairs of '\r' and '\n' *)

PairsOf(t, front) ==
    \A i \in front .. LastPlace :
        At(t, i) = CR => i < LastPlace /\ At(t, i + 1) = NL

\* pem.Encode writes none, and spoiling makes none.
LEMMA PlacePairs ==
  ASSUME TypeOK, Place
  PROVE  PairsOf(newBlob', ToStuff)
  <1>p. /\ Len(blob) \in Nat /\ LastPlace = Len(blob) - 1 /\ ToStuff \in Nat
    BY Places
  <1>c. /\ cert \in Certs /\ cert \in Seq(Int) /\ Len(cert) \in Nat
        /\ ToStuff = Len(blob) - Len(cert)
    BY Places DEF TypeOK, ToStuff
  <1>t. PICK t \in Seq(Bytes), m \in Nat :
           /\ t = newBlob' /\ m = SpoiledPlace /\ m <= 3
           /\ \A i \in 0 .. LastPlace :
                 At(t, i) =
                    IF i = m THEN (At(Placed, i) + 1) % W
                    ELSE IF i = m + 1 THEN (At(Placed, i) - 1) % W
                    ELSE At(Placed, i)
    BY PlaceIs DEF SpoiledPlace
  <1> SUFFICES ASSUME NEW i \in ToStuff .. LastPlace
               PROVE  At(t, i) # CR
    BY <1>t DEF PairsOf
  <1>1. i \in 0 .. LastPlace /\ ~(i < ToStuff)
    BY <1>p
  <1>2. PICK j \in Nat : j = i - ToStuff + 1 /\ j \in DOMAIN cert /\ j <= i + 1
    <2>1. i - ToStuff + 1 \in 1 .. Len(cert) /\ i - ToStuff + 1 <= i + 1
      BY <1>p, <1>c
    <2>2. DOMAIN cert = 1 .. Len(cert)
      BY <1>c
    <2> QED
      BY <2>1, <2>2
  <1>3. At(Placed, i) = cert[j]
    BY <1>1, <1>2, PlacedIs
  <1>4. cert[j] # CR
    BY <1>2, <1>c, PEMAssumption
  <1>5. j <= 5 => (cert[j] + 1) % W # CR /\ (cert[j] - 1) % W # CR
    BY <1>2, <1>c, PEMAssumption
  <1>6. i = m \/ i = m + 1 => j <= 5
    BY <1>2, <1>t
  <1> QED
    BY <1>1, <1>3, <1>4, <1>5, <1>6, <1>t

\* Whitespace begins and ends with '\n'.
LEMMA WhitespaceIs ==
  ASSUME NEW n \in Nat, NEW crs \in Nat, n >= 2, 2 * crs + 2 <= n,
         start \in Nat, NEW i \in Nat, start <= i, i < start + n
  PROVE  /\ Whitespace(i, crs) \in {NL, CR}
         /\ i = start => Whitespace(i, crs) = NL
         /\ Whitespace(i, crs) = CR =>
               i + 1 < start + n /\ Whitespace(i + 1, crs) = NL
  <1>1. PICK o \in Nat : o = i - start
    OBVIOUS
  <1>2. (i + 1) - start = o + 1 /\ (o < n - 2 => i + 1 < start + n)
    BY <1>1
  <1>3. Whitespace(i, crs) = IF o % 2 = 1 /\ o < 2 * crs THEN CR ELSE NL
    BY <1>1 DEF Whitespace
  <1>4. Whitespace(i + 1, crs) =
           IF (o + 1) % 2 = 1 /\ o + 1 < 2 * crs THEN CR ELSE NL
    BY <1>2 DEF Whitespace
  <1>5. i = start => o % 2 # 1
    BY <1>1
  <1>6. o % 2 = 1 => (o + 1) % 2 # 1
    OBVIOUS
  <1>7. o < 2 * crs => o < n - 2
    OBVIOUS
  <1>8. NL # CR
    BY StuffingAssumption
  <1> QED
    BY <1>2, <1>3, <1>4, <1>5, <1>6, <1>7, <1>8

LEMMA StuffPairs ==
  ASSUME TypeOK, start \in Nat, start >= FrontPlace,
         NEW t, NEW n \in Nat, NEW crs \in Nat, NEW e \in Nat,
         IsStuffed(t, n, crs, e), PairsOf(newBlob, FrontPlace)
  PROVE  PairsOf(t, FrontPlace - n)
  <1>p. FrontPlace \in Nat /\ Len(blob) \in Nat /\ LastPlace = Len(blob) - 1
    BY Places
  <1>1. PICK f \in Nat, a \in Nat, l \in Nat :
           /\ f = FrontPlace /\ a = start /\ l = LastPlace
           /\ f <= a /\ a + n <= e + 1 /\ e <= l /\ n <= f /\ n >= 2
           /\ 2 * crs + 2 <= n
    <2>1. /\ start + n <= e + 1 /\ e <= LastPlace /\ n <= FrontPlace /\ n >= 2
          /\ 2 * crs + 2 <= n
      BY DEF IsStuffed
    <2>2. LastPlace \in Nat
      BY <1>p, <2>1
    <2> QED
      BY <1>p, <2>1, <2>2
  <1>2. \A i \in 0 .. l :
          At(t, i) = IF f - n <= i /\ i < a THEN At(newBlob, i + n)
                     ELSE IF a <= i /\ i < a + n THEN Whitespace(i, crs)
                     ELSE At(newBlob, i)
    BY <1>1 DEF IsStuffed
  <1>3. \A i \in f .. l :
           At(newBlob, i) = CR => i < l /\ At(newBlob, i + 1) = NL
    BY <1>1 DEF PairsOf
  <1> SUFFICES ASSUME NEW i \in f - n .. l, At(t, i) = CR
               PROVE  i < l /\ At(t, i + 1) = NL
    BY <1>1 DEF PairsOf
  <1>i. i \in Nat /\ f - n <= i /\ i <= l /\ i + 1 \in Nat /\ i \in 0 .. l
    BY <1>1
  <1>w. \A j \in Nat : a <= j /\ j < a + n =>
           /\ j = a => Whitespace(j, crs) = NL
           /\ Whitespace(j, crs) = CR =>
                 j + 1 < a + n /\ Whitespace(j + 1, crs) = NL
    BY <1>1, WhitespaceIs
  <1>4. CASE i < a
    <2>1. At(newBlob, i + n) = CR
      BY <1>2, <1>4, <1>i
    <2>2. i + n \in f .. l
      BY <1>1, <1>4, <1>i
    <2>3. i + n < l /\ At(newBlob, (i + n) + 1) = NL
      BY <1>3, <2>1, <2>2
    <2>4. i + 1 \in 0 .. l /\ (i + n) + 1 = (i + 1) + n
      BY <1>1, <1>4, <1>i
    <2>5. CASE i + 1 < a
      <3>1. At(t, i + 1) = At(newBlob, (i + 1) + n)
        BY <1>2, <1>i, <2>4, <2>5
      <3> QED
        BY <1>i, <2>3, <2>4, <2>5, <1>1, <3>1
    <2>6. CASE i + 1 = a
      <3>1. At(t, i + 1) = Whitespace(i + 1, crs)
        BY <1>1, <1>2, <1>i, <2>4, <2>6
      <3>2. Whitespace(i + 1, crs) = NL
        BY <1>1, <1>i, <1>w, <2>6
      <3> QED
        BY <1>1, <1>i, <2>6, <3>1, <3>2
    <2> QED
      BY <1>4, <1>i, <2>5, <2>6
  <1>5. CASE a <= i /\ i < a + n
    <2>1. Whitespace(i, crs) = CR
      BY <1>2, <1>5, <1>i
    <2>2. i + 1 < a + n /\ Whitespace(i + 1, crs) = NL
      BY <1>5, <1>i, <1>w, <2>1
    <2>3. i + 1 \in 0 .. l /\ a <= i + 1 /\ i < l
      BY <1>1, <1>5, <1>i, <2>2
    <2>4. At(t, i + 1) = Whitespace(i + 1, crs)
      BY <1>2, <2>2, <2>3
    <2> QED
      BY <2>2, <2>3, <2>4
  <1>6. CASE a + n <= i
    <2>1. At(newBlob, i) = CR
      BY <1>2, <1>6, <1>i
    <2>2. i \in f .. l
      BY <1>1, <1>6, <1>i
    <2>3. i < l /\ At(newBlob, i + 1) = NL
      BY <1>3, <2>1, <2>2
    <2>4. i + 1 \in 0 .. l /\ ~(i + 1 < a) /\ ~(i + 1 < a + n)
      BY <1>1, <1>6, <1>i, <2>3
    <2>5. At(t, i + 1) = At(newBlob, i + 1)
      BY <1>2, <2>4
    <2> QED
      BY <2>3, <2>5
  <1> QED
    BY <1>1, <1>4, <1>5, <1>6, <1>i

\* fixupStuffBytes writes in front of the certificate only.
LEMMA FixupBehind ==
  ASSUME TypeOK, stage = "fixup", FixupLevel \/ FixupSpread \/ FixupReject
  PROVE  \A i \in 0 .. LastPlace :
            i >= FrontPlace => At(newBlob', i) = At(newBlob, i)
  <1>0. stage # "place"
    OBVIOUS
  <1>1. CASE FixupLevel
    <2>1. Straddled # {} /\ Avg < W /\ Rest < W /\ newBlob' = Level(Avg, Rest)
      BY <1>1 DEF FixupLevel
    <2>2. PICK b \in Bytes, l \in Bytes : b = Avg /\ l = Rest
      BY <1>0, <2>1, LevelBytes
    <2>3. \A i \in 0 .. LastPlace :
             At(Level(b, l), i) =
                IF i = FrontPlace - 1 THEN l
                ELSE IF FrontSlice <= i /\ i < FrontPlace THEN b
                ELSE At(newBlob, i)
      BY <1>0, <2>1, LevelIs
    <2>4. FrontPlace \in Nat
      BY Places
    <2>5. newBlob' = Level(b, l)
      BY <2>1, <2>2
    <2> QED
      BY <2>3, <2>4, <2>5
  <1>2. CASE FixupSpread
    <2>1. /\ Straddled # {} /\ FrontSlice >= SliceLen
          /\ newBlob' = Spread(Level(W - 1, Rest % W), Rest - (Rest % W))
      BY <1>2 DEF FixupSpread
    <2>3. PICK b \in Bytes, l \in Bytes, d \in Int :
             b = W - 1 /\ l = Rest % W /\ d = Rest - (Rest % W)
      BY <1>0, <2>1, LevelBytes
    <2>4. /\ Level(b, l) \in Seq(Bytes) /\ Len(Level(b, l)) = Len(blob)
          /\ \A i \in 0 .. LastPlace :
                At(Level(b, l), i) =
                   IF i = FrontPlace - 1 THEN l
                   ELSE IF FrontSlice <= i /\ i < FrontPlace THEN b
                   ELSE At(newBlob, i)
      BY <1>0, <2>1, LevelIs
    <2>5. newBlob' = Spread(Level(b, l), d)
      BY <2>1, <2>3
    <2>6. \A i \in 0 .. LastPlace :
             At(newBlob', i) =
                IF FrontSlice - SliceLen <= i /\ i < FrontSlice
                THEN (At(Level(b, l), i) + (d \div SliceLen)) % W
                ELSE At(Level(b, l), i)
      <3>1. PICK t \in Seq(Bytes) : t = Level(b, l) /\ Len(t) = Len(blob)
        BY <2>4
      <3>2. FrontSlice \in Int /\ SliceEnd(FrontSlice) = FrontSlice + SliceLen - 1
        BY <1>0, <2>1, FrontSlicePlaces
      <3>3. \A i \in 0 .. LastPlace :
               At(Spread(t, d), i) =
                  IF FrontSlice - SliceLen <= i /\ i < FrontSlice
                  THEN (At(t, i) + (d \div SliceLen)) % W
                  ELSE At(t, i)
        BY <3>1, <3>2, SpreadIs
      <3> QED
        BY <2>5, <3>1, <3>3
    <2>7. FrontSlice < FrontPlace /\ FrontSlice \in Nat /\ FrontPlace \in Nat
      BY <1>0, <2>1, FrontSliceRange
    <2> QED
      BY <2>4, <2>6, <2>7
  <1>3. CASE FixupReject
    BY <1>3 DEF FixupReject
  <1> QED
    BY <1>1, <1>2, <1>3

-----------------------------------------------------------------------------
(* Parts of a sequence *)

LEMMA SubSeqIs ==
  ASSUME NEW s \in Seq(Int), NEW a \in Nat, NEW b \in Nat,
         1 <= a, a <= b + 1, b <= Len(s)
  PROVE  /\ SubSeq(s, a, b) \in Seq(Int)
         /\ Len(SubSeq(s, a, b)) = b + 1 - a
         /\ \A i \in 1 .. b + 1 - a : SubSeq(s, a, b)[i] = s[a + i - 1]
  <1>1. SubSeq(s, a, b) \in Seq(Int)
    OBVIOUS
  <1>2. Len(SubSeq(s, a, b)) = b + 1 - a
    OBVIOUS
  <1>3. ASSUME NEW i \in 1 .. b + 1 - a
        PROVE  SubSeq(s, a, b)[i] = s[a + i - 1]
    OBVIOUS
  <1> QED
    BY <1>1, <1>2, <1>3

LEMMA SameSeq ==
  ASSUME NEW s \in Seq(Int), NEW t \in Seq(Int), Len(s) = Len(t),
         \A i \in 1 .. Len(s) : s[i] = t[i]
  PROVE  s = t
  BY SMTT(60)

LEMMA ConcatIs ==
  ASSUME NEW s \in Seq(Int), NEW t \in Seq(Int)
  PROVE  /\ s \o t \in Seq(Int) /\ Len(s \o t) = Len(s) + Len(t)
         /\ \A i \in 1 .. Len(s) + Len(t) :
               (s \o t)[i] = IF i <= Len(s) THEN s[i] ELSE t[i - Len(s)]
  OBVIOUS

\* t has from a to b what s has k places further.
LEMMA SubSeqShifted ==
  ASSUME NEW s \in Seq(Int), NEW t \in Seq(Int),
         NEW a \in Nat, NEW b \in Nat, NEW c \in Nat, NEW d \in Nat,
         NEW k \in Nat, c = a + k, d = b + k,
         1 <= a, a <= b + 1, b <= Len(t), d <= Len(s),
         \A i \in a .. b : t[i] = s[i + k]
  PROVE  SubSeq(t, a, b) = SubSeq(s, c, d)
  <1> DEFINE u == SubSeq(t, a, b)
             v == SubSeq(s, c, d)
  <1>1. /\ u \in Seq(Int) /\ Len(u) = b + 1 - a
        /\ \A i \in 1 .. b + 1 - a : u[i] = t[a + i - 1]
    BY SubSeqIs, SMTT(30)
  <1>2. /\ v \in Seq(Int) /\ Len(v) = d + 1 - c
        /\ \A i \in 1 .. d + 1 - c : v[i] = s[c + i - 1]
    <2>1. 1 <= c /\ c <= d + 1
      OBVIOUS
    <2> QED
      BY <2>1, SubSeqIs, SMTT(30)
  <1> HIDE DEF u, v
  <1>3. d + 1 - c = b + 1 - a
    OBVIOUS
  <1>4. \A i \in 1 .. Len(u) : u[i] = v[i]
    <2> SUFFICES ASSUME NEW i \in 1 .. b + 1 - a
                 PROVE  u[i] = v[i]
      BY <1>1
    <2>1. a + i - 1 \in a .. b /\ (a + i - 1) + k = c + i - 1
      OBVIOUS
    <2>2. t[a + i - 1] = s[c + i - 1]
      BY <2>1
    <2> QED
      BY <1>1, <1>2, <1>3, <2>2
  <1>5. u = v
    BY <1>1, <1>2, <1>3, <1>4, SameSeq
  <1> QED
    BY <1>5 DEF u, v

\* s from a to c is cut in front of d.
IsCut(s, a, b, c, d) == SubSeq(s, a, c) = SubSeq(s, a, b) \o SubSeq(s, d, c)

LEMMA SubSeqParts ==
  ASSUME NEW s \in Seq(Int), NEW a \in Nat, NEW b \in Nat, NEW c \in Nat,
         NEW d \in Nat, d = b + 1,
         1 <= a, a <= d, b <= c, c <= Len(s)
  PROVE  IsCut(s, a, b, c, d)
  <1> DEFINE u == SubSeq(s, a, c)
             x == SubSeq(s, a, b)
             y == SubSeq(s, d, c)
             z == x \o y
  <1>0. a <= c + 1 /\ b <= Len(s) /\ 1 <= d /\ d <= c + 1
    OBVIOUS
  <1>1. /\ u \in Seq(Int) /\ Len(u) = c + 1 - a
        /\ \A i \in 1 .. c + 1 - a : u[i] = s[a + i - 1]
    BY <1>0, SubSeqIs
  <1>2. /\ x \in Seq(Int) /\ Len(x) = b + 1 - a
        /\ \A i \in 1 .. b + 1 - a : x[i] = s[a + i - 1]
    BY <1>0, SubSeqIs
  <1>3. /\ y \in Seq(Int) /\ Len(y) = c + 1 - d
        /\ \A i \in 1 .. c + 1 - d : y[i] = s[d + i - 1]
    BY <1>0, SubSeqIs
  <1> HIDE DEF u, x, y
  <1>4. /\ z \in Seq(Int) /\ Len(z) = Len(x) + Len(y)
        /\ \A i \in 1 .. Len(x) + Len(y) :
              z[i] = IF i <= Len(x) THEN x[i] ELSE y[i - Len(x)]
    BY <1>2, <1>3, ConcatIs
  <1> HIDE DEF z
  <1>5. Len(z) = c + 1 - a
    BY <1>2, <1>3, <1>4
  <1>6. \A i \in 1 .. Len(u) : u[i] = z[i]
    <2> SUFFICES ASSUME NEW i \in 1 .. c + 1 - a
                 PROVE  u[i] = z[i]
      BY <1>1
    <2>1. CASE i <= Len(x)
      <3>1. i \in 1 .. b + 1 - a /\ i \in 1 .. Len(z)
        BY <1>2, <1>5, <2>1
      <3>2. z[i] = x[i] /\ x[i] = s[a + i - 1]
        BY <1>2, <1>4, <2>1, <3>1
      <3> QED
        BY <1>1, <3>2
    <2>2. CASE ~(i <= Len(x))
      <3>1. PICK j \in Nat : /\ j = i - Len(x) /\ j \in 1 .. c + 1 - d
                             /\ d + j - 1 = a + i - 1
        BY <1>2, <2>2
      <3> QED
        BY <1>1, <1>3, <1>4, <1>5, <2>2, <3>1
    <2> QED
      BY <2>1, <2>2
  <1>7. u = z
    BY <1>1, <1>4, <1>5, <1>6, SameSeq
  <1> QED
    BY <1>7 DEF IsCut, u, x, y, z

-----------------------------------------------------------------------------
(* The certificate *)

Behind(t, front) == SubSeq(t, front + 1, Len(blob))

LEMMA PlaceBehind ==
  ASSUME TypeOK, Place, ToStuff > 4
  PROVE  Behind(newBlob', ToStuff) = cert
  <1>p. /\ Len(blob) \in Nat /\ LastPlace = Len(blob) - 1
        /\ ToStuff \in Nat /\ ToStuff <= Len(blob)
    BY Places, ByteTypes
  <1>1. PICK s \in Seq(Int) :
           /\ s = Placed /\ Len(s) = Len(blob)
           /\ SubSeq(s, ToStuff + 1, Len(blob)) = cert
    BY PlacedIs, BytesAreNumbers
  <1>2. PICK t \in Seq(Int), m \in Nat :
           /\ t = newBlob' /\ Len(t) = Len(blob) /\ m = SpoiledPlace /\ m <= 3
           /\ \A i \in 0 .. LastPlace : i \notin {m, m + 1} => At(t, i) = At(s, i)
    BY <1>1, PlaceIs, BytesAreNumbers DEF SpoiledPlace
  <1>3. PICK a \in Nat, b \in Nat : a = ToStuff + 1 /\ b = Len(blob)
    <2>1. ToStuff + 1 \in Nat
      BY <1>p
    <2> QED
      BY <1>p, <2>1
  <1>4. \A i \in a .. b : t[i] = s[i + 0]
    <2> SUFFICES ASSUME NEW i \in a .. b PROVE t[i] = s[i]
      OBVIOUS
    <2>1. PICK j \in Nat : j + 1 = i /\ j > 4 /\ j \in 0 .. LastPlace
      BY <1>3, <1>p
    <2>2. At(t, j) = At(s, j)
      BY <1>2, <2>1
    <2> QED
      BY <2>1, <2>2 DEF At
  <1>5. /\ a = a + 0 /\ b = b + 0 /\ 1 <= a /\ a <= b + 1
        /\ b <= Len(t) /\ b <= Len(s) /\ 0 \in Nat
    BY <1>1, <1>2, <1>3, <1>p
  <1>6. SubSeq(t, a, b) = SubSeq(s, a, b)
    BY <1>4, <1>5, SubSeqShifted
  <1> QED
    BY <1>1, <1>2, <1>3, <1>6 DEF Behind

LEMMA StuffBehind ==
  ASSUME TypeOK, stage = "verify", start \in Nat, start >= FrontPlace,
         NEW t, NEW n \in Nat, NEW crs \in Nat, NEW e \in Nat,
         IsStuffed(t, n, crs, e)
  PROVE  Stripped(Behind(t, FrontPlace - n))
            = Stripped(Behind(newBlob, FrontPlace))
  <1>p. FrontPlace \in Nat /\ Len(blob) \in Nat /\ LastPlace = Len(blob) - 1
    BY Places
  <1>z. /\ newBlob \in Seq(Int) /\ Len(newBlob) = Len(blob)
        /\ t \in Seq(Int) /\ Len(t) = Len(blob)
    BY NewBlobSized, BytesAreNumbers DEF Sized, IsStuffed
  <1>1. PICK f \in Nat, a \in Nat, z \in Nat :
           /\ f = FrontPlace /\ a = start /\ z = Len(blob)
           /\ f <= a /\ a + n <= z /\ n <= f /\ n >= 2
           /\ 2 * crs + 2 <= n
    <2>1. /\ start + n <= e + 1 /\ e <= LastPlace /\ n <= FrontPlace /\ n >= 2
          /\ 2 * crs + 2 <= n
      BY DEF IsStuffed
    <2>2. start + n <= Len(blob)
      BY <1>p, <2>1
    <2> QED
      BY <1>p, <2>1, <2>2
  <1>2. \A i \in 0 .. z - 1 :
          At(t, i) = IF f - n <= i /\ i < a THEN At(newBlob, i + n)
                     ELSE IF a <= i /\ i < a + n THEN Whitespace(i, crs)
                     ELSE At(newBlob, i)
    BY <1>1, <1>p DEF IsStuffed
  <1>3. \A i \in 1 .. z :
          t[i] = IF f - n + 1 <= i /\ i <= a THEN newBlob[i + n]
                 ELSE IF a + 1 <= i /\ i <= a + n THEN Whitespace(i - 1, crs)
                 ELSE newBlob[i]
    <2> SUFFICES ASSUME NEW i \in 1 .. z
                 PROVE  t[i] =
                    IF f - n + 1 <= i /\ i <= a THEN newBlob[i + n]
                    ELSE IF a + 1 <= i /\ i <= a + n THEN Whitespace(i - 1, crs)
                    ELSE newBlob[i]
      OBVIOUS
    <2>1. PICK j \in Nat : j = i - 1 /\ j + 1 = i /\ j \in 0 .. z - 1
                           /\ (j + n) + 1 = i + n
      OBVIOUS
    <2>2. /\ f - n <= j /\ j < a <=> f - n + 1 <= i /\ i <= a
          /\ a <= j /\ j < a + n <=> a + 1 <= i /\ i <= a + n
      BY <2>1
    <2>3. t[j + 1] = IF f - n <= j /\ j < a THEN newBlob[(j + n) + 1]
                     ELSE IF a <= j /\ j < a + n THEN Whitespace(j, crs)
                     ELSE newBlob[j + 1]
      BY <1>2, <2>1 DEF At
    <2> QED
      BY <2>1, <2>2, <2>3
  <1>u. PICK u \in Seq(Int), v \in Seq(Int) :
           /\ u = t /\ v = newBlob /\ Len(u) = z /\ Len(v) = z
    BY <1>1, <1>z
  <1>v. \A i \in 1 .. z :
          u[i] = IF f - n + 1 <= i /\ i <= a THEN v[i + n]
                 ELSE IF a + 1 <= i /\ i <= a + n THEN Whitespace(i - 1, crs)
                 ELSE v[i]
    BY <1>3, <1>u
  <1>4. PICK g \in Nat, h \in Nat, b \in Nat, c \in Nat, d \in Nat :
           /\ g = f - n + 1 /\ h = f + 1 /\ b = a + 1 /\ c = a + n
           /\ d = c + 1
    BY <1>1
  <1>5. /\ h = g + n /\ c = a + n /\ 1 <= g /\ g <= a + 1 /\ a <= Len(u)
        /\ c <= Len(v) /\ g <= b /\ a <= z /\ b <= d /\ c <= z
        /\ z <= Len(u) /\ z <= Len(v) /\ 1 <= h /\ h <= d /\ 1 <= b
        /\ d <= z + 1 /\ 1 <= d
    BY <1>1, <1>4, <1>u
  <1> DEFINE x == SubSeq(v, h, c)
             y == SubSeq(v, d, z)
             w == SubSeq(u, b, c)
  <1>6. SubSeq(u, g, a) = x
    <2>1. \A i \in g .. a : u[i] = v[i + n]
      <3> SUFFICES ASSUME NEW i \in g .. a PROVE u[i] = v[i + n]
        OBVIOUS
      <3>1. i \in 1 .. z /\ f - n + 1 <= i /\ i <= a
        BY <1>1, <1>4
      <3> QED
        BY <1>v, <3>1
    <2> QED
      BY <1>5, <1>u, <2>1, SubSeqShifted
  <1>7. SubSeq(u, d, z) = y
    <2>1. \A i \in d .. z : u[i] = v[i + 0]
      <3> SUFFICES ASSUME NEW i \in d .. z PROVE u[i] = v[i]
        OBVIOUS
      <3>1. i \in 1 .. z /\ ~(i <= a) /\ ~(i <= a + n)
        BY <1>1, <1>4
      <3> QED
        BY <1>v, <3>1
    <2>2. d = d + 0 /\ z = z + 0 /\ 0 \in Nat
      OBVIOUS
    <2> QED
      BY <1>5, <1>u, <2>1, <2>2, SubSeqShifted
  <1>8. SubSeq(u, g, z) = x \o (w \o y)
    <2>1. IsCut(u, g, a, z, b) /\ IsCut(u, b, c, z, d)
      BY <1>4, <1>5, <1>u, SubSeqParts
    <2>2. SubSeq(u, g, z) = SubSeq(u, g, a) \o SubSeq(u, b, z)
      BY <2>1, Zenon DEF IsCut
    <2>3. SubSeq(u, b, z) = w \o SubSeq(u, d, z)
      BY <2>1, Zenon DEF IsCut
    <2> HIDE DEF x, y, w
    <2> QED
      BY <1>6, <1>7, <2>2, <2>3, Zenon
  <1>9. SubSeq(v, h, z) = x \o y
    <2>1. IsCut(v, h, c, z, d)
      BY <1>4, <1>5, <1>u, SubSeqParts
    <2> QED
      BY <2>1, Zenon DEF IsCut
  <1>10. x \in Seq(Int) /\ y \in Seq(Int)
    <2>1. c <= Len(v) /\ z <= Len(v) /\ h <= c + 1 /\ d <= z + 1
      BY <1>4, <1>5
    <2> QED
      BY <1>5, <2>1, SubSeqIs
  <1>11. /\ w \in Seq(Int) /\ Len(w) = c + 1 - b
         /\ \A i \in 1 .. c + 1 - b : w[i] = u[b + i - 1]
    <2>1. 1 <= b /\ b <= c + 1 /\ c <= Len(u)
      BY <1>4, <1>5
    <2> DEFINE r == SubSeq(u, b, c)
    <2>2. r \in Seq(Int)
      BY <2>1
    <2>3. Len(r) = c + 1 - b
      BY <2>1
    <2>4. \A i \in 1 .. c + 1 - b : r[i] = u[b + i - 1]
      BY <2>1
    <2> QED
      BY <2>2, <2>3, <2>4, Zenon
  <1>12. \A i \in 1 .. Len(w) : w[i] \in {NL, CR}
    <2> SUFFICES ASSUME NEW i \in 1 .. Len(w)
                 PROVE  w[i] \in {NL, CR}
      OBVIOUS
    <2>1. PICK k \in Nat : k = b + i - 1 /\ a + 1 <= k /\ k <= a + n
      BY <1>4, <1>11
    <2>2. u[k] = Whitespace(k - 1, crs)
      <3>1. k \in 1 .. z /\ ~(k <= a)
        BY <1>1, <2>1
      <3> QED
        BY <1>v, <2>1, <3>1
    <2>3. w[i] = u[k]
      BY <1>11, <2>1
    <2> QED
      BY <2>2, <2>3 DEF Whitespace
  <1> HIDE DEF x, y, w
  <1>13. Stripped(w) = <<>>
    BY <1>11, <1>12, StrippedWhitespace
  <1>14. w \o y \in Seq(Int)
    BY <1>10, <1>11
  <1>15. /\ Stripped(x \o y) = Stripped(x) \o Stripped(y)
         /\ Stripped(w \o y) = Stripped(w) \o Stripped(y)
         /\ Stripped(x \o (w \o y)) = Stripped(x) \o Stripped(w \o y)
         /\ Stripped(y) \in Seq(Int)
    BY <1>10, <1>11, <1>14, StrippedConcat
  <1>16. <<>> \o Stripped(y) = Stripped(y)
    BY <1>15
  <1>17. Stripped(x \o (w \o y)) = Stripped(x \o y)
    BY <1>13, <1>15, <1>16
  <1>18. /\ Behind(t, FrontPlace - n) = SubSeq(u, g, z)
         /\ Behind(newBlob, FrontPlace) = SubSeq(v, h, z)
    BY <1>1, <1>4, <1>u DEF Behind
  <1> QED
    BY <1>8, <1>9, <1>17, <1>18

LEMMA FixupKept ==
  ASSUME TypeOK, Fixup
  PROVE  Behind(newBlob', FrontPlace) = Behind(newBlob, FrontPlace)
  <1>p. /\ FrontPlace \in Nat /\ Len(blob) \in Nat
        /\ LastPlace = Len(blob) - 1 /\ FrontPlace <= Len(blob)
    BY Places, ByteTypes
  <1>1. PICK t \in Seq(Int) : t = newBlob' /\ Len(t) = Len(blob)
    BY FixupTyped, BytesAreNumbers
  <1>2. newBlob \in Seq(Int) /\ Len(newBlob) = Len(blob)
    BY NewBlobSized DEF Fixup, Sized
  <1>3. \A i \in 0 .. LastPlace :
           i >= FrontPlace => At(t, i) = At(newBlob, i)
    BY <1>1, FixupBehind DEF Fixup
  <1>4. PICK a \in Nat, b \in Nat : a = FrontPlace + 1 /\ b = Len(blob)
    <2>1. FrontPlace + 1 \in Nat
      BY <1>p
    <2> QED
      BY <1>p, <2>1
  <1>5. \A i \in a .. b : t[i] = newBlob[i + 0]
    <2> SUFFICES ASSUME NEW i \in a .. b PROVE t[i] = newBlob[i]
      OBVIOUS
    <2>1. PICK j \in Nat : j + 1 = i /\ j >= FrontPlace /\ j \in 0 .. LastPlace
      BY <1>4, <1>p
    <2>2. At(t, j) = At(newBlob, j)
      BY <1>3, <2>1
    <2> QED
      BY <2>1, <2>2 DEF At
  <1>6. /\ a = a + 0 /\ b = b + 0 /\ 1 <= a /\ a <= b + 1
        /\ b <= Len(t) /\ b <= Len(newBlob) /\ 0 \in Nat
    BY <1>1, <1>2, <1>4, <1>p
  <1>7. SubSeq(t, a, b) = SubSeq(newBlob, a, b)
    BY <1>2, <1>5, <1>6, SubSeqShifted
  <1> QED
    BY <1>1, <1>4, <1>7 DEF Behind

-----------------------------------------------------------------------------
(* CertificateKept and CarriageReturnsPaired *)

CertInv ==
    /\ TypeOK /\ CursorOnGrid
    /\ CertificateKept
    /\ CarriageReturnsPaired

LEMMA SameCertificate ==
  ASSUME UNCHANGED inputVars, Len(newBlob') = Len(blob)
  PROVE  /\ SubSeq(newBlob, FrontPlace + 1, Len(newBlob))'
               = Behind(newBlob', ToStuff - stuffed')
         /\ (\A i \in FrontPlace .. LastPlace :
                At(newBlob, i) = CR =>
                    i < LastPlace /\ At(newBlob, i + 1) = NL)'
               <=> PairsOf(newBlob', ToStuff - stuffed')
         /\ ToStuff' = ToStuff /\ cert' = cert
  BY DEF inputVars, FrontPlace, ToStuff, LastPlace, Behind, PairsOf, At

LEMMA CertInvInit ==
  Init => CertInv
  BY TypeOKInit
  DEF CertInv, Init, CertificateKept, CarriageReturnsPaired

LEMMA CertInvStep ==
  CertInv /\ [Next]_vars => CertInv'
  <1> SUFFICES ASSUME CertInv, [Next]_vars
               PROVE  CertInv'
    OBVIOUS
  <1>t. TypeOK /\ CursorOnGrid /\ TypeOK' /\ CursorOnGrid'
    BY TypeOKStep DEF CertInv
  <1>f. FrontPlace = ToStuff - stuffed
    BY DEF FrontPlace
  <1>b. stage \notin {"place", "panic"} =>
           /\ ToStuff > 4 => Stripped(Behind(newBlob, FrontPlace)) = Stripped(cert)
           /\ PairsOf(newBlob, FrontPlace)
    <2>1. stage # "place" => Len(newBlob) = Len(blob)
      BY <1>t DEF TypeOK
    <2> QED
      BY <2>1 DEF CertInv, CertificateKept, CarriageReturnsPaired, Behind, PairsOf
  <1> SUFFICES CertificateKept' /\ CarriageReturnsPaired'
    BY <1>t DEF CertInv
  <1>s. ASSUME UNCHANGED inputVars,
               stage' \notin {"place", "panic"} =>
                  /\ ToStuff > 4 =>
                        Stripped(Behind(newBlob', ToStuff - stuffed'))
                            = Stripped(cert)
                  /\ PairsOf(newBlob', ToStuff - stuffed')
        PROVE  CertificateKept' /\ CarriageReturnsPaired'
    <2>1. CASE stage' \in {"place", "panic"}
      BY <2>1 DEF CertificateKept, CarriageReturnsPaired
    <2>2. CASE stage' \notin {"place", "panic"}
      <3>1. Len(newBlob') = Len(blob)
        <4>1. Len(newBlob') = Len(blob')
          BY <1>t, <2>2 DEF TypeOK
        <4> QED
          BY <1>s, <4>1 DEF inputVars
      <3>2. /\ SubSeq(newBlob, FrontPlace + 1, Len(newBlob))'
                  = Behind(newBlob', ToStuff - stuffed')
            /\ (\A i \in FrontPlace .. LastPlace :
                   At(newBlob, i) = CR =>
                       i < LastPlace /\ At(newBlob, i + 1) = NL)'
            /\ ToStuff' = ToStuff /\ cert' = cert
        BY <1>s, <2>2, <3>1, SameCertificate
      <3>3. CertificateKept'
        BY <1>s, <2>2, <3>2 DEF CertificateKept
      <3>4. CarriageReturnsPaired'
        BY <3>2 DEF CarriageReturnsPaired
      <3> QED
        BY <3>3, <3>4
    <2> QED
      BY <2>1, <2>2
  <1>u. ASSUME UNCHANGED <<inputVars, newBlob, stuffed>>,
               stage' \notin {"place", "panic"}
                   => stage \notin {"place", "panic"}
        PROVE  CertificateKept' /\ CarriageReturnsPaired'
    BY <1>b, <1>f, <1>s, <1>u
  <1>1. CASE Place
    <2>1. /\ UNCHANGED inputVars /\ stuffed' = stuffed /\ stage = "place"
      BY <1>1 DEF Place
    <2>2. ToStuff - stuffed' = ToStuff
      BY <1>t, <2>1, Places DEF CursorOnGrid
    <2>3. ToStuff > 4 => Behind(newBlob', ToStuff) = cert
      BY <1>1, <1>t, PlaceBehind
    <2>4. PairsOf(newBlob', ToStuff)
      BY <1>1, <1>t, PlacePairs
    <2> QED
      BY <1>s, <2>1, <2>2, <2>3, <2>4
  <1>2. CASE VerifyDone
    BY <1>2, <1>u DEF VerifyDone
  <1>3. CASE VerifySkip
    BY <1>3, <1>u DEF VerifySkip
  <1>4. CASE VerifyStuff
    <2>1. UNCHANGED inputVars
      BY <1>4 DEF VerifyStuff
    <2>2. PICK n \in Nat, crs \in Nat, e \in Nat :
             /\ IsStuffed(newBlob', n, crs, e)
             /\ stuffed' = stuffed + n
      BY <1>4, <1>t, StuffIs
    <2>3. stage = "verify" /\ start \in Nat /\ start >= FrontPlace
      BY <1>4, <1>t, StuffIs
    <2>4. Stripped(Behind(newBlob', FrontPlace - n))
              = Stripped(Behind(newBlob, FrontPlace))
      BY <1>t, <2>2, <2>3, StuffBehind
    <2>5. PairsOf(newBlob', FrontPlace - n)
      BY <1>b, <1>t, <2>2, <2>3, StuffPairs
    <2>6. ToStuff - stuffed' = FrontPlace - n
      <3>1. ToStuff \in Int /\ stuffed \in Int
        BY <1>t, Places DEF TypeOK
      <3> QED
        BY <1>f, <2>2, <3>1
    <2> QED
      BY <1>b, <1>s, <2>1, <2>3, <2>4, <2>5, <2>6
  <1>5. CASE VerifyReject \/ VerifyPanic
    BY <1>5, <1>u DEF VerifyReject, VerifyPanic, Unbalanced
  <1>6. CASE Fixup
    <2>1. /\ UNCHANGED <<inputVars, stuffed>> /\ stage = "fixup"
          /\ FixupLevel \/ FixupSpread \/ FixupReject
      BY <1>6 DEF Fixup
    <2>2. Behind(newBlob', FrontPlace) = Behind(newBlob, FrontPlace)
      BY <1>6, <1>t, FixupKept
    <2>3. PairsOf(newBlob', FrontPlace)
      <3>1. \A i \in 0 .. LastPlace :
               i >= FrontPlace => At(newBlob', i) = At(newBlob, i)
        BY <1>t, <2>1, FixupBehind
      <3>2. FrontPlace \in Nat /\ LastPlace \in Int
        BY <1>t, Places
      <3>3. PairsOf(newBlob, FrontPlace)
        BY <1>b, <2>1
      <3> SUFFICES ASSUME NEW i \in FrontPlace .. LastPlace,
                          At(newBlob', i) = CR
                   PROVE  i < LastPlace /\ At(newBlob', i + 1) = NL
        BY DEF PairsOf
      <3>4. At(newBlob, i) = CR
        BY <3>1, <3>2
      <3>5. i < LastPlace /\ At(newBlob, i + 1) = NL
        BY <3>3, <3>4 DEF PairsOf
      <3>6. i + 1 \in 0 .. LastPlace /\ i + 1 >= FrontPlace
        BY <3>2, <3>5
      <3> QED
        BY <3>1, <3>5, <3>6
    <2> QED
      BY <1>b, <1>f, <1>s, <2>1, <2>2, <2>3
  <1>7. CASE Check
    BY <1>7, <1>u DEF Check
  <1>8. CASE UNCHANGED vars
    BY <1>8, <1>u DEF vars
  <1> QED
    BY <1>1, <1>2, <1>3, <1>4, <1>5, <1>6, <1>7, <1>8 DEF Next, Verify

\* The certificate that is generated is all there, with nothing but whitespace
\* added, while place, stuffSlice and fixupStuffBytes move it about.
THEOREM CertificateIsKept == Spec => []CertificateKept
  <1>1. Init => CertInv
    BY CertInvInit
  <1>2. CertInv /\ [Next]_vars => CertInv'
    BY CertInvStep
  <1>3. CertInv => CertificateKept
    BY DEF CertInv
  <1> QED
    BY <1>1, <1>2, <1>3, PTL DEF Spec

\* "every \r is immediately followed by \n": no later shift comes between
\* them.
THEOREM CarriageReturnsArePaired == Spec => []CarriageReturnsPaired
  <1>1. Init => CertInv
    BY CertInvInit
  <1>2. CertInv /\ [Next]_vars => CertInv'
    BY CertInvStep
  <1>3. CertInv => CarriageReturnsPaired
    BY DEF CertInv
  <1> QED
    BY <1>1, <1>2, <1>3, PTL DEF Spec

-----------------------------------------------------------------------------
(* An accepted certificate in its place *)

\* The places of the certificate that lie before record i.
Covered(i) ==
    IF i * SliceLen <= Preamble THEN 0
    ELSE Minimum(i * SliceLen - Preamble, Len(blob))

LEMMA PreambleIs ==
  ASSUME TypeOK
  PROVE  /\ Preamble \in 0 .. SliceLen - 1
         /\ \/ firstSliceLen = 0 /\ Preamble = 0
            \/ firstSliceLen > 0 /\ Preamble = SliceLen - firstSliceLen
  <1>1. firstSliceLen \in 0 .. SliceLen - 1 /\ SliceLen \in Nat /\ SliceLen > 4
    BY Places, ByteTypes
  <1> DEFINE x == SliceLen - firstSliceLen
             q == x \div SliceLen
             r == x % SliceLen
  <1>2. x \in 1 .. SliceLen
    BY <1>1
  <1>3. q \in Int /\ r \in 0 .. SliceLen - 1 /\ x = q * SliceLen + r
    BY <1>1, <1>2, QuotientOf
  <1>4. Preamble = r
    BY DEF Preamble
  <1>5. x = SliceLen - firstSliceLen
    OBVIOUS
  <1> HIDE DEF x, q, r
  <1>6. CASE x = SliceLen
    <2>1. r = (1 - q) * SliceLen
      BY <1>1, <1>3, <1>6
    <2>2. 1 - q < 1 /\ 1 - q > -1
      BY <1>1, <1>3, <2>1
    <2>3. r = 0
      BY <1>1, <1>3, <2>1, <2>2
    <2> QED
      BY <1>1, <1>4, <1>5, <1>6, <2>3
  <1>7. CASE x # SliceLen
    <2>1. q * SliceLen < SliceLen /\ q * SliceLen > - SliceLen
      BY <1>1, <1>2, <1>3, <1>7
    <2>2. q < 1 /\ q > -1
      BY <1>1, <1>3, <2>1
    <2>3. q = 0
      BY <1>3, <2>2
    <2>4. r = x
      BY <1>1, <1>2, <1>3, <2>3
    <2> QED
      BY <1>1, <1>2, <1>4, <1>5, <1>7, <2>4
  <1> QED
    BY <1>6, <1>7

LEMMA RecordCountIs ==
  ASSUME TypeOK
  PROVE  /\ RecordCount \in Nat
         /\ \A i \in Nat : i < RecordCount =>
               i * SliceLen \in Nat /\ i * SliceLen < Preamble + Len(blob)
  <1>1. /\ Preamble \in 0 .. SliceLen - 1 /\ Len(blob) \in Nat
        /\ Len(blob) > SliceLen /\ LastPlace = Len(blob) - 1
        /\ SliceLen \in Nat /\ SliceLen > 4
    BY PreambleIs, Places, ByteTypes
  <1> DEFINE x == Preamble + LastPlace
             q == x \div SliceLen
             r == x % SliceLen
  <1>2. x \in Nat /\ x = Preamble + Len(blob) - 1
    BY <1>1
  <1>3. q \in Int /\ r \in 0 .. SliceLen - 1 /\ x = q * SliceLen + r
    BY <1>1, <1>2, QuotientOf
  <1>4. RecordCount = q + 1
    BY DEF RecordCount
  <1> HIDE DEF x, q, r
  <1>5. q >= 0
    <2>1. q * SliceLen > - SliceLen
      BY <1>1, <1>2, <1>3
    <2>2. q > -1
      BY <1>1, <1>3, <2>1
    <2> QED
      BY <1>3, <2>2
  <1>6. ASSUME NEW i \in Nat, i < RecordCount
        PROVE  i * SliceLen \in Nat /\ i * SliceLen < Preamble + Len(blob)
    <2>1. i <= q
      BY <1>3, <1>4, <1>6
    <2>2. i * SliceLen <= q * SliceLen /\ i * SliceLen \in Nat
      BY <1>1, <1>3, <2>1
    <2>3. q * SliceLen \in Int
      BY <1>1, <1>3
    <2> QED
      BY <1>1, <1>2, <1>3, <2>2, <2>3
  <1> QED
    BY <1>3, <1>4, <1>5, <1>6

LEMMA RecordCut ==
  ASSUME TypeOK, NEW i \in Nat, i < RecordCount,
         NEW c, c = i * SliceLen, NEW n, n = RecordLen(i),
         NEW a, a = Covered(i), NEW e, e = Covered(i + 1)
  PROVE  /\ c \in Nat /\ n \in Nat /\ a \in Nat /\ e \in Nat
         /\ n > 0 /\ a < e /\ e <= Len(blob) /\ c + n = Preamble + e
         /\ c <= Preamble + a /\ (c < Preamble => a = 0)
         /\ (c >= Preamble => c = Preamble + a)
         /\ a \in SliceStarts /\ SliceEnd(a) = e - 1
  <1>1. /\ Preamble \in 0 .. SliceLen - 1 /\ Len(blob) \in Nat
        /\ Len(blob) > SliceLen /\ LastPlace = Len(blob) - 1
        /\ SliceLen \in Nat /\ SliceLen > 4
        /\ firstSliceLen \in 0 .. SliceLen - 1
    BY PreambleIs, Places, ByteTypes
  <1>2. c \in Nat /\ c < Preamble + Len(blob)
    BY RecordCountIs
  <1>3. (i + 1) * SliceLen = c + SliceLen
    BY <1>1
  <1>4. /\ n = IF SliceLen < Preamble + Len(blob) - c THEN SliceLen
                 ELSE Preamble + Len(blob) - c
        /\ a = IF c <= Preamble THEN 0
               ELSE IF c - Preamble < Len(blob) THEN c - Preamble
               ELSE Len(blob)
        /\ e = IF c + SliceLen <= Preamble THEN 0
               ELSE IF c + SliceLen - Preamble < Len(blob)
                    THEN c + SliceLen - Preamble
               ELSE Len(blob)
    <2>1. n = IF SliceLen < Preamble + Len(blob) - c THEN SliceLen
              ELSE Preamble + Len(blob) - c
      BY DEF RecordLen, Minimum
    <2>2. a = IF c <= Preamble THEN 0
              ELSE IF c - Preamble < Len(blob) THEN c - Preamble
              ELSE Len(blob)
      BY DEF Covered, Minimum
    <2>3. e = IF c + SliceLen <= Preamble THEN 0
              ELSE IF c + SliceLen - Preamble < Len(blob)
                   THEN c + SliceLen - Preamble
              ELSE Len(blob)
      <3> DEFINE d == (i + 1) * SliceLen
      <3>1. e = IF d <= Preamble THEN 0
                ELSE IF d - Preamble < Len(blob) THEN d - Preamble
                ELSE Len(blob)
        BY DEF Covered, Minimum
      <3> HIDE DEF d
      <3>2. d = c + SliceLen
        BY <1>3 DEF d
      <3> QED
        BY <1>1, <1>2, <3>1, <3>2, SMTT(60)
    <2> QED
      BY <2>1, <2>2, <2>3
  <1>5. /\ n \in Nat /\ a \in Nat /\ e \in Nat
        /\ n > 0 /\ a < e /\ e <= Len(blob) /\ c + n = Preamble + e
        /\ c <= Preamble + a /\ (c < Preamble => a = 0)
        /\ (c >= Preamble => c = Preamble + a)
    <2>1. n \in Nat /\ n > 0
      BY <1>1, <1>2, <1>4
    <2>2. /\ a \in Nat /\ c <= Preamble + a /\ a < Len(blob)
          /\ (c < Preamble => a = 0) /\ (c >= Preamble => c = Preamble + a)
      BY <1>1, <1>2, <1>4
    <2>3. e \in Nat /\ e <= Len(blob) /\ a < e
      BY <1>1, <1>2, <1>4, SMTT(60)
    <2>4. c + n = Preamble + e
      <3>1. c + SliceLen > Preamble
        BY <1>1, <1>2
      <3>2. CASE c + SliceLen < Preamble + Len(blob)
        <4>1. n = SliceLen /\ e = c + SliceLen - Preamble
          BY <1>1, <1>2, <1>4, <3>1, <3>2, SMTT(60)
        <4> QED
          BY <1>1, <1>2, <4>1
      <3>3. CASE ~ (c + SliceLen < Preamble + Len(blob))
        <4>0. /\ ~ (SliceLen < Preamble + Len(blob) - c)
              /\ ~ (c + SliceLen <= Preamble)
              /\ ~ (c + SliceLen - Preamble < Len(blob))
          BY <1>1, <1>2, <3>1, <3>3
        <4>1. n = Preamble + Len(blob) - c /\ e = Len(blob)
          BY <1>4, <4>0
        <4> QED
          BY <1>1, <1>2, <4>1
      <3> QED
        BY <3>2, <3>3
    <2> QED
      BY <2>1, <2>2, <2>3, <2>4
  <1>6. c = 0 \/ c >= SliceLen
    <2>1. CASE i = 0
      BY <1>1, <2>1
    <2>2. CASE i # 0
      <3>1. i >= 1
        BY <2>2
      <3> QED
        BY <1>1, <3>1
    <2> QED
      BY <2>1, <2>2
  <1>7. \/ firstSliceLen = 0 /\ Preamble = 0
        \/ firstSliceLen > 0 /\ Preamble = SliceLen - firstSliceLen
    BY PreambleIs
  <1>8. a = 0 \/ (a \in firstSliceLen .. LastPlace /\ OnGrid(a))
    <2>1. CASE c = 0
      BY <1>1, <1>4, <2>1
    <2>2. CASE c >= SliceLen
      <3>1. a = c - Preamble /\ a <= LastPlace
        BY <1>1, <1>2, <1>4, <2>2, SMTT(60)
      <3>2. CASE firstSliceLen = 0
        <4>1. a = firstSliceLen + i * SliceLen
          BY <1>1, <1>7, <3>1, <3>2
        <4>2. i \in Int
          OBVIOUS
        <4> QED
          BY <1>1, <1>5, <3>1, <3>2, <4>1, <4>2 DEF OnGrid
      <3>3. CASE firstSliceLen > 0
        <4>1. a = c - SliceLen + firstSliceLen
          BY <1>1, <1>2, <1>7, <3>1, <3>3
        <4>2. c - SliceLen = (i - 1) * SliceLen
          BY <1>1
        <4>3. a = firstSliceLen + (i - 1) * SliceLen
          BY <1>1, <1>2, <4>1, <4>2
        <4>4. i - 1 \in Int
          OBVIOUS
        <4>5. a >= firstSliceLen
          BY <1>1, <1>2, <2>2, <4>1
        <4>6. OnGrid(a)
          BY <4>3, <4>4, Zenon DEF OnGrid
        <4> QED
          BY <1>1, <1>5, <3>1, <4>5, <4>6
      <3> QED
        BY <1>1, <3>2, <3>3
    <2> QED
      BY <1>6, <2>1, <2>2
  <1>9. a \in SliceStarts
    BY <1>8, SliceStartIff
  <1>10. SliceEnd(a) = IF a < firstSliceLen THEN firstSliceLen - 1
                       ELSE (IF a + SliceLen < Len(blob) THEN a + SliceLen
                             ELSE Len(blob)) - 1
    BY Zenon DEF SliceEnd, Minimum
  <1>11. SliceEnd(a) = e - 1
    <2>1. CASE c = 0
      BY <1>1, <1>4, <1>7, <1>10, <2>1, SMTT(60)
    <2>2. CASE c >= SliceLen
      <3>1. a = c - Preamble /\ a >= firstSliceLen
        BY <1>1, <1>2, <1>4, <1>7, <2>2, SMTT(60)
      <3>2. SliceEnd(a) = (IF a + SliceLen < Len(blob) THEN a + SliceLen
                           ELSE Len(blob)) - 1
        BY <1>1, <1>2, <1>10, <3>1
      <3>3. e = IF a + SliceLen < Len(blob) THEN a + SliceLen ELSE Len(blob)
        <4>1. c + SliceLen > Preamble /\ c + SliceLen - Preamble = a + SliceLen
          BY <1>1, <1>2, <1>5, <3>1
        <4>2. ~ (c + SliceLen <= Preamble)
          BY <1>1, <1>2, <4>1
        <4>3. e = IF c + SliceLen - Preamble < Len(blob)
                  THEN c + SliceLen - Preamble ELSE Len(blob)
          BY <1>4, <4>2
        <4> QED
          BY <4>1, <4>3
      <3> QED
        BY <3>2, <3>3
    <2> QED
      BY <1>6, <2>1, <2>2
  <1> QED
    BY <1>2, <1>5, <1>9, <1>11

\* The same numbers at other places.
Moved(s, a, t, b, m) ==
    /\ a + m <= Len(s) /\ b + m <= Len(t)
    /\ \A j \in 0 .. m - 1 : At(s, a + j) = At(t, b + j)

LEMMA SumMoved ==
  ASSUME NEW s \in Seq(Int), NEW t \in Seq(Int), NEW a \in Nat, NEW b \in Nat,
         NEW m \in Nat, Moved(s, a, t, b, m)
  PROVE  Sum(s, a, a + m - 1) = Sum(t, b, b + m - 1)
  <1> USE DEF Moved
  <1> DEFINE Good == {n \in Nat : n <= m =>
                         Sum(s, a, a + n - 1) = Sum(t, b, b + n - 1)}
  <1>1. 0 \in Good
    <2>1. a <= Len(s) /\ b <= Len(t) /\ a + 0 - 1 = a - 1 /\ b + 0 - 1 = b - 1
      OBVIOUS
    <2>2. Sum(s, a, a - 1) = 0 /\ Sum(t, b, b - 1) = 0
      BY <2>1, SumEmpty
    <2> QED
      BY <2>1, <2>2
  <1>2. ASSUME NEW n \in Nat, n \in Good
        PROVE  n + 1 \in Good
    <2>1. CASE n < m
      <3>0. a + n < Len(s) /\ b + n < Len(t)
        BY <2>1
      <3>1. Sum(s, a, a + n) = Sum(s, a, a + n - 1) + At(s, a + n)
        BY <3>0, SumNext
      <3>2. Sum(t, b, b + n) = Sum(t, b, b + n - 1) + At(t, b + n)
        BY <3>0, SumNext
      <3>3. At(s, a + n) = At(t, b + n)
        BY <2>1
      <3>4. Sum(s, a, a + n) = Sum(t, b, b + n)
        BY <1>2, <2>1, <3>1, <3>2, <3>3
      <3>5. a + (n + 1) - 1 = a + n /\ b + (n + 1) - 1 = b + n
        OBVIOUS
      <3> QED
        BY <3>4, <3>5
    <2> QED
      BY <2>1
  <1> HIDE DEF Good
  <1>3. Nat \subseteq Good
    BY <1>1, <1>2, AllNumbers
  <1>4. m \in Good /\ m <= m
    BY <1>3
  <1> QED
    BY <1>4 DEF Good

\* membuf and cagen add up alike.
LEMMA MemorySum ==
  ASSUME NEW p \in Seq(Int)
  PROVE  Memory!Sum(p) = Sum(p, 0, Len(p) - 1)
  <1>1. Memory!Totals(p) = Totals(p)
    BY DEF Memory!Totals, Totals
  <1>2. Memory!Sum(p) = Totals(p)[Len(p)]
    BY <1>1 DEF Memory!Sum
  <1>3. Totals(p)[0] = 0 /\ Totals(p)[Len(p)] \in Int
    BY TotalsAre, TotalsType
  <1>4. Len(p) - 1 + 1 = Len(p)
    OBVIOUS
  <1> QED
    BY <1>2, <1>3, <1>4 DEF Sum

LEMMA MemoryChecksum ==
  ASSUME NEW p \in Seq(Int), NEW q \in Seq(Int), Len(p) = Len(q),
         Cong(Sum(p, 0, Len(p) - 1), Sum(q, 0, Len(q) - 1))
  PROVE  Memory!Checksum(p) = Memory!Checksum(q)
  <1>1. Within(p, 0, Len(p) - 1) /\ Within(q, 0, Len(q) - 1)
    BY DEF Within
  <1>2. /\ Sum(p, 0, Len(p) - 1) \in Int
        /\ Sum(q, 0, Len(q) - 1) \in Int
    BY <1>1, SumType
  <1>3. Sum(p, 0, Len(p) - 1) % W = Sum(q, 0, Len(q) - 1) % W
    BY <1>2, CongIff
  <1>4. Memory!Sum(p) % W = Memory!Sum(q) % W
    BY <1>3, MemorySum
  <1> QED
    BY <1>4, Zenon DEF Memory!Checksum, Memory!Complement

-----------------------------------------------------------------------------

\* The memory, with the first h bytes of the certificate handed out.
LoadedBytes == [i \in 1 .. Preamble |-> 0] \o blob
Handing(h) == [begin |-> Preamble, length |-> Len(blob), str |-> newBlob,
               nextByte |-> h]
ImageWith(h) == <<[offset |-> 0, buf |-> LoadedBytes, update |-> Handing(h)]>>

LEMMA LoadedIs ==
  ASSUME TypeOK
  PROVE  /\ LoadedBytes \in Seq(Int) /\ Len(LoadedBytes) = Preamble + Len(blob)
         /\ \A k \in 1 .. Len(blob) : LoadedBytes[Preamble + k] = blob[k]
  <1>1. Preamble \in Nat /\ blob \in Seq(Int) /\ Len(blob) \in Nat
    BY PreambleIs, Places, ByteTypes
  <1> DEFINE zeros == [i \in 1 .. Preamble |-> 0]
  <1>2. zeros \in Seq(Int) /\ Len(zeros) = Preamble
    BY <1>1
  <1> HIDE DEF zeros
  <1>3. /\ zeros \o blob \in Seq(Int) /\ Len(zeros \o blob) = Preamble + Len(blob)
        /\ \A k \in 1 .. Len(blob) : (zeros \o blob)[Preamble + k] = blob[k]
    <2> DEFINE all == zeros \o blob
    <2>1. all \in Seq(Int) /\ Len(all) = Preamble + Len(blob)
      BY <1>1, <1>2
    <2>2. ASSUME NEW k \in 1 .. Len(blob)
          PROVE  all[Preamble + k] = blob[k]
      BY <1>1, <1>2
    <2> QED
      BY <2>1, <2>2
  <1> QED
    BY <1>3 DEF LoadedBytes, zeros

\* The bytes raw are those at c of the memory.
ReadFrom(raw, c) == \A j \in 1 .. Len(raw) : raw[j] = LoadedBytes[c + j]

\* The bytes data and raw are the same d bytes, and then t and the original from
\* a to e - 1.
Alike(data, raw, t, a, e, d) ==
    /\ \A j \in 1 .. d : data[j] = raw[j]
    /\ \A j \in d + 1 .. d + (e - a) :
          data[j] = t[a + j - d] /\ raw[j] = blob[a + j - d]

\* Patched does not change the checksum of a balanced slice.
LEMMA RecordSums ==
  ASSUME TypeOK, NEW t, Sized(t),
         NEW a \in Nat, NEW e \in Nat, a <= e, e <= Len(blob), NEW d \in Nat,
         NEW raw \in Seq(Int), NEW data \in Seq(Int),
         Len(raw) = d + (e - a), Len(data) = d + (e - a),
         Alike(data, raw, t, a, e, d),
         Balanced(t, a, e - 1)
  PROVE  Memory!Checksum(data) = Memory!Checksum(raw)
  <1> DEFINE m == e - a
             n == d + m
  <1>1. /\ m \in Nat /\ n \in Nat /\ n = d + m /\ a + m = e
        /\ a + m <= Len(blob)
        /\ blob \in Seq(Int) /\ t \in Seq(Int) /\ Len(t) = Len(blob)
        /\ Len(blob) \in Nat
    BY Places DEF Sized
  <1>2. Len(raw) = n /\ Len(data) = n
    OBVIOUS
  <1>3. ASSUME NEW j \in 0 .. m - 1
        PROVE  At(data, d + j) = At(t, a + j) /\ At(raw, d + j) = At(blob, a + j)
    <2>1. d + j + 1 \in d + 1 .. d + (e - a)
      BY <1>1
    <2>2. a + (d + j + 1) - d = a + j + 1
      OBVIOUS
    <2>3. data[d + j + 1] = t[a + j + 1] /\ raw[d + j + 1] = blob[a + j + 1]
      BY <2>1, <2>2 DEF Alike
    <2> QED
      BY <2>3 DEF At
  <1>4. ASSUME NEW i \in 0 .. d - 1
        PROVE  At(data, i) = At(raw, i)
    BY DEF At, Alike
  <1> HIDE DEF m, n
  <1>5. /\ Within(data, 0, d - 1) /\ Within(raw, 0, d - 1)
        /\ Within(data, d, n - 1) /\ Within(raw, d, n - 1)
    BY <1>1, <1>2 DEF Within
  <1>6. /\ Sum(data, d, d + m - 1) = Sum(t, a, a + m - 1)
        /\ Sum(raw, d, d + m - 1) = Sum(blob, a, a + m - 1)
    <2>1. d + m <= Len(data) /\ d + m <= Len(raw) /\ a + m <= Len(t)
      BY <1>1, <1>2
    <2>2. Moved(data, d, t, a, m)
      BY <1>3, <2>1 DEF Moved
    <2>3. Moved(raw, d, blob, a, m)
      BY <1>1, <1>3, <2>1 DEF Moved
    <2>4. Sum(data, d, d + m - 1) = Sum(t, a, a + m - 1)
      BY <1>1, <2>1, <2>2, SumMoved, SMTT(60)
    <2>5. Sum(raw, d, d + m - 1) = Sum(blob, a, a + m - 1)
      BY <1>1, <2>1, <2>3, SumMoved, SMTT(60)
    <2> QED
      BY <2>4, <2>5
  <1>7. Sum(data, 0, d - 1) = Sum(raw, 0, d - 1)
    BY <1>4, <1>5, SumSame
  <1>8. /\ d + m - 1 = n - 1 /\ a + m - 1 = e - 1
        /\ d = (d - 1) + 1 /\ d - 1 \in Int /\ n - 1 \in Int
    BY <1>1
  <1>9. /\ Sum(data, 0, n - 1) = Sum(data, 0, d - 1) + Sum(data, d, n - 1)
        /\ Sum(raw, 0, n - 1) = Sum(raw, 0, d - 1) + Sum(raw, d, n - 1)
    <2>1. Sum(data, 0, n - 1) = Sum(data, 0, d - 1) + Sum(data, d, n - 1)
      BY <1>5, <1>8, SumParts
    <2>2. Sum(raw, 0, n - 1) = Sum(raw, 0, d - 1) + Sum(raw, d, n - 1)
      BY <1>5, <1>8, SumParts
    <2> QED
      BY <2>1, <2>2
  <1>10. InBlob(a, e - 1)
    BY <1>1 DEF InBlob
  <1>11. /\ Sum(t, a, e - 1) \in Int /\ Sum(blob, a, e - 1) \in Int
         /\ Cong(Sum(t, a, e - 1), Sum(blob, a, e - 1))
    BY <1>10, BalancedIff
  <1>12. Sum(raw, 0, d - 1) \in Int
    BY <1>5, SumType
  <1>13. Cong(Sum(raw, 0, d - 1) + Sum(t, a, e - 1),
              Sum(raw, 0, d - 1) + Sum(blob, a, e - 1))
    BY <1>11, <1>12, CongAdd, CongRefl
  <1>14. Cong(Sum(data, 0, n - 1), Sum(raw, 0, n - 1))
    BY <1>6, <1>7, <1>8, <1>9, <1>13
  <1> QED
    BY <1>2, <1>14, MemoryChecksum

\* n bytes at c that hold the places a .. e - 1 of the certificate.
Holds(c, n, a, e) ==
    /\ n > 0 /\ a < e /\ e <= Len(blob) /\ c + n = Preamble + e
    /\ c <= Preamble + a /\ (c < Preamble => a = 0)
    /\ (c >= Preamble => c = Preamble + a)

LEMMA RecordPatched ==
  ASSUME TypeOK, Sized(newBlob), NEW c \in Nat, NEW n \in Nat, NEW a \in Nat,
         NEW e \in Nat, Holds(c, n, a, e),
         Balanced(newBlob, a, e - 1),
         NEW raw \in Seq(Int), Len(raw) = n, ReadFrom(raw, c)
  PROVE  /\ Memory!Patched(raw, Handing(a), c).ok
         /\ Memory!Patched(raw, Handing(a), c).update = Handing(e)
  <1>1. /\ n > 0 /\ a < e /\ e <= Len(blob) /\ c + n = Preamble + e
        /\ c <= Preamble + a /\ (c < Preamble => a = 0)
        /\ (c >= Preamble => c = Preamble + a)
    BY DEF Holds
  <1>2. /\ Preamble \in Nat /\ Len(blob) \in Nat /\ Len(newBlob) = Len(blob)
        /\ newBlob \in Seq(Int)
    BY PreambleIs, Places, ByteTypes DEF Sized
  <1> DEFINE u == Handing(a)
             left == Memory!Maximum(c, u.begin)
             right == Memory!Minimum(c + Len(raw), u.begin + u.length)
             m == Memory!Minimum(right - left, Len(u.str) - u.nextByte)
             data == [j \in DOMAIN raw |->
                         IF left - c < j /\ j <= left - c + m
                         THEN u.str[u.nextByte + j - (left - c)] ELSE raw[j]]
             patched == Memory!Patched(raw, u, c)
  <1>3. patched = IF left < right
                  THEN [ok |-> Memory!Checksum(data) = Memory!Checksum(raw),
                        data |-> data,
                        update |-> [u EXCEPT !.nextByte = @ + m]]
                  ELSE [ok |-> TRUE, data |-> raw, update |-> u]
    BY Zenon DEF Memory!Patched
  <1>4. /\ u.begin = Preamble /\ u.length = Len(blob) /\ u.str = newBlob
        /\ u.nextByte = a
    BY DEF Handing
  <1>5. left = Preamble + a
    <2>1. left = IF c > Preamble THEN c ELSE Preamble
      BY <1>4 DEF Memory!Maximum
    <2> HIDE DEF left
    <2> QED
      BY <1>1, <1>2, <2>1
  <1>6. right = Preamble + e
    <2>1. right = IF c + n < Preamble + Len(blob) THEN c + n
                  ELSE Preamble + Len(blob)
      BY <1>4 DEF Memory!Minimum
    <2> HIDE DEF right
    <2>2. CASE c + n < Preamble + Len(blob)
      BY <1>1, <2>1, <2>2
    <2>3. CASE ~ (c + n < Preamble + Len(blob))
      <3>1. e = Len(blob)
        BY <1>1, <1>2, <2>3
      <3> QED
        BY <2>1, <2>3, <3>1
    <2> QED
      BY <2>2, <2>3
  <1>7. m = e - a
    <2>1. m = IF right - left < Len(newBlob) - a THEN right - left
              ELSE Len(newBlob) - a
      BY <1>4, Zenon DEF Memory!Minimum
    <2> HIDE DEF left, right, m
    <2> QED
      BY <1>1, <1>2, <1>5, <1>6, <2>1
  <1>8. data = [j \in 1 .. n |->
                   IF left - c < j /\ j <= left - c + m
                   THEN newBlob[a + j - (left - c)] ELSE raw[j]]
    <2>1. DOMAIN raw = 1 .. n
      BY <1>1
    <2> QED
      BY <1>4, <2>1
  <1>9. [u EXCEPT !.nextByte = @ + m] = Handing(a + m)
    BY SMTT(60) DEF Handing
  <1> HIDE DEF u, left, right, m, data, patched
  <1>10. patched = [ok |-> Memory!Checksum(data) = Memory!Checksum(raw),
                    data |-> data, update |-> Handing(e)]
    <2>1. left < right /\ a + m = e
      BY <1>1, <1>2, <1>5, <1>6, <1>7
    <2> QED
      BY <1>3, <1>9, <2>1
  <1>11. PICK d \in Nat : d = Preamble + a - c /\ d + (e - a) = n /\ d <= n
    BY <1>1, <1>2
  <1>12. data = [j \in 1 .. n |->
                    IF d < j /\ j <= n THEN newBlob[a + j - d] ELSE raw[j]]
    <2>1. left - c = d /\ d + m = n
      BY <1>1, <1>2, <1>5, <1>7, <1>11
    <2> QED
      BY <1>8, <2>1
  <1>13. ASSUME NEW j \in 1 .. d
         PROVE  data[j] = raw[j]
    BY <1>1, <1>11, <1>12, SMTT(60)
  <1>14. ASSUME NEW j \in d + 1 .. n
         PROVE  data[j] = newBlob[a + j - d] /\ raw[j] = blob[a + j - d]
    <2>1. j \in 1 .. n /\ d < j /\ j <= n
      BY <1>1, <1>11, SMTT(60)
    <2>2. data[j] = newBlob[a + j - d]
      BY <1>12, <2>1
    <2>3. PICK k \in 1 .. Len(blob) : k = a + j - d
      BY <1>1, <1>2, <1>11, <2>1
    <2>4. c + j = Preamble + k
      BY <1>1, <1>2, <1>5, <1>11, <2>1, <2>3
    <2>5. raw[j] = blob[k]
      BY <2>1, <2>4, LoadedIs DEF ReadFrom
    <2> QED
      BY <2>2, <2>3, <2>5
  <1>15. data \in Seq(Int) /\ Len(data) = n
    <2>1. ASSUME NEW j \in 1 .. n
          PROVE  data[j] \in Int
      <3>1. CASE j <= d
        BY <1>11, <1>13, <3>1
      <3>2. CASE ~ (j <= d)
        <4>1. j \in d + 1 .. n
          BY <1>1, <1>11, <3>2
        <4>2. data[j] = newBlob[a + j - d]
          BY <1>14, <4>1
        <4>3. a + j - d \in 1 .. Len(newBlob)
          BY <1>1, <1>2, <1>11, <4>1
        <4> QED
          BY <1>2, <4>2, <4>3
      <3> QED
        BY <3>1, <3>2
    <2>2. data = [j \in 1 .. n |-> data[j]]
      BY <1>12
    <2>3. data \in [1 .. n -> Int]
      BY <2>1, <2>2
    <2> QED
      BY <1>1, <2>3
  <1>16. Memory!Checksum(data) = Memory!Checksum(raw)
    <2>1. a <= e /\ e <= Len(blob) /\ Len(raw) = d + (e - a)
          /\ Len(data) = d + (e - a)
      BY <1>1, <1>11, <1>15
    <2>4. Alike(data, raw, newBlob, a, e, d)
      BY <1>11, <1>13, <1>14 DEF Alike
    <2> QED
      BY <1>1, <1>15, <2>1, <2>4, RecordSums, SMTT(60)
  <1>17. /\ patched.ok = (Memory!Checksum(data) = Memory!Checksum(raw))
         /\ patched.update = Handing(e)
    BY <1>10, Zenon
  <1>18. patched.ok /\ patched.update = Handing(e)
    BY <1>16, <1>17, Zenon
  <1> QED
    BY <1>18, Zenon DEF patched, u

LEMMA HoldingIs ==
  ASSUME TypeOK, NEW c \in Nat, NEW a, c < Preamble + Len(blob)
  PROVE  Memory!Holding(ImageWith(a), c) = {1} /\ Memory!Max({1}) = 1
  <1>1. ImageWith(a)[1].offset = 0 /\ ImageWith(a)[1].buf = LoadedBytes
    BY DEF ImageWith
  <1>2. Memory!EndOf(ImageWith(a)[1]) = 0 + Len(LoadedBytes)
    BY <1>1 DEF Memory!EndOf
  <1>3. Len(LoadedBytes) = Preamble + Len(blob) /\ Preamble + Len(blob) \in Nat
    BY LoadedIs, PreambleIs, Places, ByteTypes
  <1>4. DOMAIN ImageWith(a) = {1}
    BY DEF ImageWith
  <1>5. c < Memory!EndOf(ImageWith(a)[1]) /\ 0 <= c
    BY <1>2, <1>3
  <1>6. Memory!Holding(ImageWith(a), c) = {1}
    BY <1>1, <1>4, <1>5 DEF Memory!Holding
  <1>7. Memory!Max({1}) = 1
    BY DEF Memory!Max
  <1> QED
    BY <1>6, <1>7

LEMMA ImageMoves ==
  ASSUME NEW a, NEW e
  PROVE  [ImageWith(a) EXCEPT ![1].update = Handing(e)] = ImageWith(e)
  BY DEF ImageWith

LEMMA PieceIs ==
  ASSUME TypeOK, Sized(newBlob), NEW c \in Nat, NEW n \in Nat, NEW a \in Nat,
         NEW e \in Nat, Holds(c, n, a, e),
         Balanced(newBlob, a, e - 1)
  PROVE  LET piece == Memory!Piece(Memory!Unread(ImageWith(a), n), c)
         IN  piece.ok /\ piece.whole /\ piece.bufs = ImageWith(e)
  <1>1. n > 0 /\ c + n = Preamble + e /\ e <= Len(blob)
    BY DEF Holds
  <1>2. Len(blob) \in Nat /\ Preamble \in Nat
    BY PreambleIs, Places, ByteTypes
  <1>3. c < Preamble + Len(blob)
    BY <1>1, <1>2
  <1> DEFINE read == Memory!Unread(ImageWith(a), n)
             at == c + read.served
             left == Len(read.p) - read.served
             i == Memory!Max(Memory!Holding(read.bufs, at))
             b == read.bufs[i]
             o == at - b.offset
             len == Memory!Minimum(left, Len(b.buf) - o)
             raw == [j \in 1 .. left |->
                        IF j <= len THEN b.buf[o + j]
                        ELSE read.p[read.served + j]]
             patch == Memory!Patched(raw, b.update, o)
             piece == Memory!Piece(read, c)
  <1>4. piece = IF ~read.ok \/ read.whole THEN read
                ELSE IF Memory!Holding(read.bufs, at) = {}
                     THEN [read EXCEPT !.ok = FALSE]
                ELSE [ok |-> patch.ok, whole |-> len = left,
                      served |-> read.served + len,
                      p |-> SubSeq(read.p, 1, read.served) \o patch.data,
                      bufs |-> [read.bufs EXCEPT ![i].update = patch.update]]
    BY Zenon DEF Memory!Piece
  <1>5. /\ read.ok = TRUE /\ read.whole = FALSE /\ read.served = 0
        /\ read.p = [j \in 1 .. n |-> 0] /\ read.bufs = ImageWith(a)
    BY Zenon DEF Memory!Unread
  <1> HIDE DEF read
  <1>6. at = c
    BY <1>5
  <1>7. Memory!Holding(read.bufs, at) = {1}
    BY <1>3, <1>5, <1>6, HoldingIs
  <1>8. i = 1
    BY <1>3, <1>7, HoldingIs
  <1>9. Len(read.p) = n
    BY <1>5
  <1>10. left = n
    BY <1>5, <1>9
  <1>11. /\ b.offset = 0 /\ b.buf = LoadedBytes /\ b.update = Handing(a)
    <2>1. b = ImageWith(a)[1]
      BY <1>5, <1>8
    <2> HIDE DEF b
    <2> QED
      BY <2>1 DEF ImageWith
  <1> HIDE DEF at, i, b, left
  <1>12. o = c
    BY <1>6, <1>11
  <1> HIDE DEF o
  <1>13. /\ LoadedBytes \in Seq(Int) /\ Len(LoadedBytes) = Preamble + Len(blob)
    BY LoadedIs
  <1>14. len = n
    <2>1. len = Memory!Minimum(n, (Preamble + Len(blob)) - c)
      BY <1>10, <1>11, <1>12, <1>13
    <2> HIDE DEF len
    <2>4. len = IF n < (Preamble + Len(blob)) - c THEN n
                ELSE (Preamble + Len(blob)) - c
      BY <2>1 DEF Memory!Minimum
    <2>2. CASE n < (Preamble + Len(blob)) - c
      BY <2>2, <2>4
    <2>3. CASE ~ (n < (Preamble + Len(blob)) - c)
      <3>1. n = (Preamble + Len(blob)) - c
        BY <1>1, <1>2, <2>3
      <3> QED
        BY <2>3, <2>4, <3>1
    <2> QED
      BY <2>2, <2>3
  <1> HIDE DEF len
  <1>15. raw = [j \in 1 .. n |-> LoadedBytes[c + j]]
    <2>1. raw = [j \in 1 .. n |-> IF j <= n THEN LoadedBytes[c + j]
                                 ELSE read.p[read.served + j]]
      BY <1>10, <1>11, <1>12, <1>14
    <2> HIDE DEF raw
    <2> QED
      BY <2>1
  <1> HIDE DEF raw
  <1>16. raw \in Seq(Int) /\ Len(raw) = n /\ ReadFrom(raw, c)
    <2>1. ASSUME NEW j \in 1 .. n
          PROVE  LoadedBytes[c + j] \in Int
      <3>1. c + j \in 1 .. Len(LoadedBytes)
        BY <1>1, <1>2, <1>13
      <3> QED
        BY <1>13, <3>1
    <2>2. raw \in [1 .. n -> Int]
      BY <1>15, <2>1
    <2>3. raw \in Seq(Int) /\ Len(raw) = n
      BY <2>2
    <2> QED
      BY <1>15, <2>3 DEF ReadFrom
  <1>17. patch.ok /\ patch.update = Handing(e)
    <2>1. patch = Memory!Patched(raw, Handing(a), c)
      BY <1>11, <1>12
    <2> HIDE DEF patch
    <2> QED
      BY <1>16, <2>1, RecordPatched
  <1> HIDE DEF patch
  <1>18. piece = [ok |-> patch.ok, whole |-> len = left,
                  served |-> read.served + len,
                  p |-> SubSeq(read.p, 1, read.served) \o patch.data,
                  bufs |-> [ImageWith(a) EXCEPT ![1].update = Handing(e)]]
    BY <1>4, <1>5, <1>7, <1>8, <1>17
  <1> HIDE DEF piece
  <1>19. /\ piece.ok = patch.ok /\ piece.whole = (len = left)
         /\ piece.bufs = [ImageWith(a) EXCEPT ![1].update = Handing(e)]
    BY <1>18, Zenon
  <1>20. piece.ok /\ piece.whole /\ piece.bufs = ImageWith(e)
    BY <1>10, <1>14, <1>17, <1>19, ImageMoves
  <1> QED
    BY <1>20, Zenon DEF piece, read

\* A read of one piece.
LEMMA ReadAtIs ==
  ASSUME NEW bufs, NEW n \in Nat, n > 0, NEW c,
         NEW one, one = Memory!Piece(Memory!Unread(bufs, n), c),
         one.whole
  PROVE  Memory!ReadAt(bufs, n, c) = one
  <1> DEFINE first == Memory!Unread(bufs, n)
             h == [k \in 0 .. n + 1 |-> IF k = 0 THEN first ELSE one]
             f == Memory!Reads(bufs, n, c)
  <1>1. Memory!Piece(one, c) = one
    BY Zenon DEF Memory!Piece
  <1>2. ASSUME NEW k \in 0 .. n + 1
        PROVE  h[k] = IF k = 0 THEN first ELSE Memory!Piece(h[k - 1], c)
    <2>1. CASE k = 0
      BY <2>1
    <2>2. CASE k = 1
      <3>1. h[k] = one /\ h[k - 1] = first
        BY <2>2
      <3> QED
        BY <2>2, <3>1
    <2>3. CASE k # 0 /\ k # 1
      <3>1. h[k] = one /\ h[k - 1] = one
        BY <2>3
      <3> QED
        BY <1>1, <2>3, <3>1
    <2> QED
      BY <2>1, <2>2, <2>3
  <1>3. h = [k \in 0 .. n + 1 |-> h[k]]
    OBVIOUS
  <1> HIDE DEF h
  <1>4. h = [k \in 0 .. n + 1 |->
                IF k = 0 THEN Memory!Unread(bufs, n)
                ELSE Memory!Piece(h[k - 1], c)]
    BY <1>2, <1>3, Zenon
  <1>5. f = [k \in 0 .. n + 1 |->
                IF k = 0 THEN Memory!Unread(bufs, n)
                ELSE Memory!Piece(f[k - 1], c)]
    BY <1>4, Zenon DEF Memory!Reads
  <1>6. Memory!ReadAt(bufs, n, c) = f[n + 1]
    BY DEF Memory!ReadAt
  <1> HIDE DEF f
  <1> DEFINE Good == {k \in Nat : k <= n => f[k + 1] = one}
  <1>7. 0 \in Good
    <2>1. 0 \in 0 .. n + 1 /\ 1 \in 0 .. n + 1 /\ 1 # 0 /\ 1 - 1 = 0
      OBVIOUS
    <2>2. f[0] = Memory!Unread(bufs, n)
      BY <1>5, <2>1, Zenon
    <2>3. f[1] = Memory!Piece(f[1 - 1], c)
      BY <1>5, <2>1, Zenon
    <2>4. f[1] = one
      BY <2>1, <2>2, <2>3
    <2> QED
      BY <2>4
  <1>8. ASSUME NEW k \in Nat, k \in Good
        PROVE  k + 1 \in Good
    <2>1. CASE k + 1 <= n
      <3> DEFINE l == k + 2
      <3>1. l \in 0 .. n + 1 /\ l # 0 /\ l - 1 = k + 1 /\ l = (k + 1) + 1
        BY <2>1
      <3> HIDE DEF l
      <3>2. f[l] = Memory!Piece(f[l - 1], c)
        BY <1>5, <3>1, Zenon
      <3>3. f[k + 1] = one
        BY <1>8, <2>1
      <3>4. f[l] = one
        BY <1>1, <3>1, <3>2, <3>3
      <3> QED
        BY <3>1, <3>4
    <2> QED
      BY <2>1
  <1> HIDE DEF Good
  <1>9. Nat \subseteq Good
    BY <1>7, <1>8, AllNumbers
  <1>10. f[n + 1] = one
    BY <1>9 DEF Good
  <1> QED
    BY <1>6, <1>10

\* A read of a record with a balanced slice goes through.
LEMMA RecordRead ==
  ASSUME TypeOK, Sized(newBlob),
         \A s \in SliceStarts : Balanced(newBlob, s, SliceEnd(s)),
         NEW i \in Nat, i < RecordCount,
         NEW read, read.ok, read.bufs = ImageWith(Covered(i))
  PROVE  /\ ReadRecord(read, i).ok
         /\ ReadRecord(read, i).bufs = ImageWith(Covered(i + 1))
  <1>1. PICK c, n, a, e : /\ c = i * SliceLen /\ n = RecordLen(i)
                          /\ a = Covered(i) /\ e = Covered(i + 1)
    OBVIOUS
  <1>2. /\ c \in Nat /\ n \in Nat /\ a \in Nat /\ e \in Nat /\ n > 0
        /\ Holds(c, n, a, e)
        /\ a \in SliceStarts /\ SliceEnd(a) = e - 1
    BY <1>1, RecordCut DEF Holds
  <1>3. Balanced(newBlob, a, e - 1)
    BY <1>2
  <1> DEFINE one == Memory!Piece(Memory!Unread(ImageWith(a), n), c)
  <1>4. one.ok /\ one.whole /\ one.bufs = ImageWith(e)
    BY <1>2, <1>3, PieceIs
  <1>5. Memory!ReadAt(ImageWith(a), n, c) = one
    BY <1>2, <1>4, ReadAtIs
  <1> HIDE DEF one
  <1>6. ReadRecord(read, i) = one
    BY <1>1, <1>5 DEF ReadRecord
  <1> QED
    BY <1>1, <1>4, <1>6

FirstRead == [ok |-> TRUE, bufs |-> Image]

\* What k records give: those before it have gone through.
Gone(read, k) == read.ok /\ read.bufs = ImageWith(Covered(k))

LEMMA NothingRead ==
  ASSUME TypeOK
  PROVE  Gone(FirstRead, 0)
  <1>1. 0 * SliceLen <= Preamble
    BY PreambleIs, ByteTypes
  <1>2. Covered(0) = 0
    BY <1>1 DEF Covered
  <1>3. Image = ImageWith(0)
    BY DEF Image, ImageWith, LoadedBytes, Handing
  <1> QED
    BY <1>2, <1>3 DEF Gone, FirstRead

LEMMA RecordsRead ==
  ASSUME TypeOK, Sized(newBlob),
         \A s \in SliceStarts : Balanced(newBlob, s, SliceEnd(s))
  PROVE  ReadRecords[RecordCount].ok
  <1> DEFINE before(k) == [ok |-> TRUE, bufs |-> ImageWith(Covered(k))]
             h == [k \in 0 .. RecordCount |->
                      IF k = 0 THEN FirstRead
                      ELSE ReadRecord(before(k - 1), k - 1)]
             f == ReadRecords
  <1>1. RecordCount \in Nat
    BY RecordCountIs
  <1>2. ASSUME NEW k \in Nat, k < RecordCount, NEW read, Gone(read, k)
        PROVE  /\ Gone(ReadRecord(read, k), k + 1)
               /\ ReadRecord(read, k) = ReadRecord(before(k), k)
    <2>1. Gone(ReadRecord(read, k), k + 1)
      BY <1>2, RecordRead DEF Gone
    <2>2. ReadRecord(read, k) = ReadRecord(before(k), k)
      BY <1>2 DEF Gone, ReadRecord
    <2> QED
      BY <2>1, <2>2
  <1>3. ASSUME NEW k \in 0 .. RecordCount
        PROVE  Gone(h[k], k)
    <2>1. CASE k = 0
      BY <2>1, NothingRead
    <2>2. CASE k # 0
      <3>1. PICK l \in Nat : k = l + 1 /\ l < RecordCount /\ k - 1 = l
        BY <1>1, <2>2
      <3>2. Gone(before(l), l)
        BY DEF Gone
      <3>3. h[k] = ReadRecord(before(l), l)
        BY <2>2, <3>1
      <3> HIDE DEF h, before
      <3> QED
        BY <1>2, <3>1, <3>2, <3>3
    <2> QED
      BY <2>1, <2>2
  <1>4. ASSUME NEW k \in 0 .. RecordCount
        PROVE  h[k] = IF k = 0 THEN FirstRead ELSE ReadRecord(h[k - 1], k - 1)
    <2>1. CASE k = 0
      BY <2>1
    <2>2. CASE k # 0
      <3>1. PICK l \in Nat : /\ k = l + 1 /\ l < RecordCount /\ k - 1 = l
                             /\ l \in 0 .. RecordCount
        BY <1>1, <2>2
      <3>2. h[k] = ReadRecord(before(l), l)
        BY <2>2, <3>1
      <3>3. Gone(h[l], l)
        BY <1>3, <3>1
      <3> HIDE DEF h, before
      <3>4. ReadRecord(h[l], l) = ReadRecord(before(l), l)
        BY <1>2, <3>1, <3>3
      <3> QED
        BY <2>2, <3>1, <3>2, <3>4
    <2> QED
      BY <2>1, <2>2
  <1>5. h = [k \in 0 .. RecordCount |-> h[k]]
    OBVIOUS
  <1> HIDE DEF h
  <1>6. h = [k \in 0 .. RecordCount |->
                IF k = 0 THEN [ok |-> TRUE, bufs |-> Image]
                ELSE ReadRecord(h[k - 1], k - 1)]
    BY <1>4, <1>5, Zenon DEF FirstRead
  <1>7. f = [k \in 0 .. RecordCount |->
                IF k = 0 THEN [ok |-> TRUE, bufs |-> Image]
                ELSE ReadRecord(f[k - 1], k - 1)]
    BY <1>6, Zenon DEF ReadRecords
  <1> HIDE DEF f, before
  <1> DEFINE Good == {k \in Nat : k <= RecordCount => Gone(f[k], k)}
  <1>8. 0 \in Good
    <2>1. 0 \in 0 .. RecordCount
      BY <1>1
    <2>2. f[0] = FirstRead
      BY <1>7, <2>1, Zenon DEF FirstRead
    <2> QED
      BY <2>2, NothingRead
  <1>9. ASSUME NEW k \in Nat, k \in Good
        PROVE  k + 1 \in Good
    <2>1. CASE k + 1 <= RecordCount
      <3> DEFINE l == k + 1
      <3>1. /\ l \in 0 .. RecordCount /\ l # 0 /\ l - 1 = k
            /\ k < RecordCount /\ k <= RecordCount
        BY <1>1, <2>1
      <3> HIDE DEF l
      <3>2. f[l] = ReadRecord(f[l - 1], l - 1)
        BY <1>7, <3>1, Zenon
      <3>3. f[l] = ReadRecord(f[k], k)
        BY <3>1, <3>2
      <3>4. Gone(f[k], k)
        BY <1>9, <3>1
      <3>5. Gone(f[l], k + 1)
        BY <1>2, <3>1, <3>3, <3>4
      <3> QED
        BY <3>5 DEF l
    <2> QED
      BY <2>1
  <1> HIDE DEF Good
  <1>10. Nat \subseteq Good
    BY <1>8, <1>9, AllNumbers
  <1>11. Gone(f[RecordCount], RecordCount)
    BY <1>1, <1>10 DEF Good
  <1> QED
    BY <1>11 DEF Gone, f

\* firstNonMatchingSlice, which has the last word, lets nothing else through.
AcceptedBalanced ==
    stage = "accepted" =>
        \A s \in SliceStarts : Balanced(newBlob, s, SliceEnd(s))

LEMMA AcceptedStep ==
  ASSUME AcceptedBalanced, [Next]_vars
  PROVE  AcceptedBalanced'
  <1>1. ASSUME UNCHANGED <<inputVars, newBlob>>, SlicesOf(newBlob)
        PROVE  AcceptedBalanced'
    <2>1. UNCHANGED inputVars /\ newBlob' = newBlob
      BY <1>1
    <2>2. SlicesOf(newBlob')
      BY <1>1, <2>1
    <2>3. (\A s \in SliceStarts : Balanced(newBlob, s, SliceEnd(s)))'
      BY <2>1, <2>2, SameInputs
    <2> QED
      BY <2>3 DEF AcceptedBalanced
  <1>2. CASE Check
    <2> SUFFICES ASSUME stage' = "accepted"
                 PROVE  AcceptedBalanced'
      BY DEF AcceptedBalanced
    <2>1. Agrees
      BY <1>2 DEF Check
    <2>2. SlicesOf(newBlob)
      BY <2>1, Zenon DEF Agrees, SlicesOf
    <2>3. UNCHANGED <<inputVars, newBlob>>
      BY <1>2 DEF Check
    <2> QED
      BY <1>1, <2>2, <2>3
  <1>3. CASE UNCHANGED vars
    <2> SUFFICES ASSUME stage' = "accepted"
                 PROVE  AcceptedBalanced'
      BY DEF AcceptedBalanced
    <2>1. stage = "accepted" /\ UNCHANGED <<inputVars, newBlob>>
      BY <1>3 DEF vars
    <2>2. SlicesOf(newBlob)
      BY <2>1, Zenon DEF AcceptedBalanced, SlicesOf
    <2> QED
      BY <1>1, <2>1, <2>2
  <1>4. CASE Place \/ Verify \/ Fixup
    <2>1. stage' # "accepted"
      BY <1>4 DEF Place, Verify, VerifyDone, VerifySkip,
                  VerifyStuff, VerifyReject, VerifyPanic, Unbalanced, Fixup,
                  FixupLevel, FixupSpread, FixupReject
    <2> QED
      BY <2>1 DEF AcceptedBalanced
  <1> QED
    BY <1>2, <1>3, <1>4 DEF Next

\* membuf reads back every record of a firmware that an accepted certificate
\* takes the place of the original in, however the cut between records lies to
\* it: ReadAt finds no checksum changed.
THEOREM AcceptedIsReadBack == Spec => []RecordsKeepChecksum
  <1>1. Init => AcceptedBalanced
    BY DEF Init, AcceptedBalanced
  <1>2. AcceptedBalanced /\ [Next]_vars => AcceptedBalanced'
    BY AcceptedStep
  <1>3. TypeOK /\ AcceptedBalanced => RecordsKeepChecksum
    <2> SUFFICES ASSUME TypeOK, AcceptedBalanced, stage = "accepted"
                 PROVE  ReadRecords[RecordCount].ok
      BY DEF RecordsKeepChecksum
    <2>1. Sized(newBlob)
      BY NewBlobSized
    <2> QED
      BY <2>1, RecordsRead DEF AcceptedBalanced
  <1> QED
    BY <1>1, <1>2, <1>3, StuffingTypeCorrect, PTL DEF Spec

-----------------------------------------------------------------------------
(* cagen's search *)

LockedSteps == {"writing", "saving", "savingWrite"}
SavingSteps == {"saving", "savingWrite"}

LockOK == \A w \in Workers : lock = w <=> step[w] \in LockedSteps

CertsOK == \A w \in Workers : step[w] # "idle" => caPEM[w] \in Candidates

FileOK ==
    lock = NoWorker =>
        resultFile.certs = FoundCerts /\ resultFile.state # "torn"

\* A worker that saves its pair, and what it has saved so far.
SavesPair(w) ==
    /\ partner[w] \in Candidates
    /\ Covers(partner[w], caPEM[w]) /\ Fits[caPEM[w]] # {}
    /\ \A l \in Lens : FoundCerts[l] # NoCert =>
          /\ FoundCerts[l] \in {partner[w], caPEM[w]}
          /\ l \in Fits[FoundCerts[l]]
    /\ step[w] = "saving" =>
          FoundCerts = Nothing \/ resultFile = Whole(FoundCerts)

SavingOK == \A w \in Workers : step[w] \in SavingSteps => SavesPair(w)

\* No two of the certificates cover all lengths, but for a worker that is
\* saving them.
PairFree ==
    (\A w \in Workers : step[w] \notin SavingSteps) =>
        \A i, k \in 1 .. Len(fslCerts) :
            i < k => ~Covers(fslCerts[i], fslCerts[k])

WorkersOK == LockOK /\ CertsOK /\ FileOK /\ SavingOK /\ PairFree

\* A file that is not whole has no certificates (Absent, Torn).
EmptyOK == resultFile.state # "whole" => resultFile.certs = Nothing

SearchInv ==
    /\ SearchTypeOK /\ EmptyOK /\ PairSaved
    /\ phase = "running" => WorkersOK

-----------------------------------------------------------------------------
LEMMA NothingIsResult == Nothing \in Results
  BY DEF Nothing, Results

LEMMA SearchInvInit == SearchInit => SearchInv
  BY NothingIsResult, SearchAssumption
     DEF SearchInit, SearchInv, SearchTypeOK, EmptyOK, PairSaved, WorkersOK,
         LockOK, CertsOK, FileOK, SavingOK, PairFree, Absent, Steps, Phases,
         LockedSteps, SavingSteps

LEMMA GenerateInv ==
  ASSUME SearchInv, NEW w \in Workers, Generate(w)
  PROVE  SearchInv'
  <1>1. phase = "running" /\ phase' = phase /\ WorkersOK
    BY DEF SearchInv, Generate, AtStep
  <1>2. SearchTypeOK'
    BY SearchAssumption, NothingIsResult
       DEF SearchInv, Generate, SearchTypeOK, AtStep, Moves, Steps, Results,
           resultVars
  <1>3. EmptyOK' /\ PairSaved'
    BY <1>1, SearchAssumption
       DEF SearchInv, Generate, EmptyOK, PairSaved, resultVars
  <1>4. LockOK'
    BY <1>1, SearchAssumption
       DEF SearchInv, Generate, SearchTypeOK, AtStep, Moves, WorkersOK, LockOK,
           LockedSteps
  <1>5. CertsOK'
    BY <1>1
       DEF SearchInv, Generate, SearchTypeOK, AtStep, Moves, WorkersOK, CertsOK
  <1>6. FileOK'
    BY <1>1, SearchAssumption
       DEF SearchInv, Generate, SearchTypeOK, AtStep, Moves, WorkersOK, FileOK,
           LockOK, LockedSteps, resultVars
  <1>7. SavingOK'
    BY <1>1, SearchAssumption
       DEF SearchInv, Generate, SearchTypeOK, AtStep, Moves, WorkersOK,
           SavingOK, SavesPair, LockOK, SavingSteps, LockedSteps, resultVars
  <1>8. PairFree'
    BY <1>1
       DEF SearchInv, Generate, SearchTypeOK, AtStep, Moves, WorkersOK,
           PairFree, SavingSteps
  <1> QED
    BY <1>1, <1>2, <1>3, <1>4, <1>5, <1>6, <1>7, <1>8
       DEF SearchInv, WorkersOK

LEMMA KeepResultInv ==
  ASSUME SearchInv, NEW w \in Workers, KeepResult(w)
  PROVE  SearchInv'
  <1>1. phase = "running" /\ phase' = phase /\ WorkersOK
    BY DEF SearchInv, KeepResult, AtStep
  <1>2. SearchTypeOK'
    BY SearchAssumption, NothingIsResult
       DEF SearchInv, KeepResult, SearchTypeOK, Moves, Steps, Results,
           resultVars, Tried
  <1>3. EmptyOK' /\ PairSaved'
    BY <1>1, SearchAssumption
       DEF SearchInv, KeepResult, EmptyOK, PairSaved, resultVars
  <1>4. LockOK'
    BY <1>1, SearchAssumption
       DEF SearchInv, KeepResult, SearchTypeOK, AtStep, Moves, WorkersOK,
           LockOK, LockedSteps
  <1>5. CertsOK'
    BY <1>1
       DEF SearchInv, KeepResult, SearchTypeOK, AtStep, Moves, WorkersOK,
           CertsOK
  <1>6. FileOK'
    BY <1>1, SearchAssumption
       DEF SearchInv, KeepResult, SearchTypeOK, AtStep, Moves, WorkersOK,
           FileOK, LockOK, LockedSteps, resultVars
  <1>7. SavingOK'
    BY <1>1, SearchAssumption
       DEF SearchInv, KeepResult, SearchTypeOK, AtStep, Moves, WorkersOK,
           SavingOK, SavesPair, LockOK, SavingSteps, LockedSteps, resultVars,
           Tried
  <1>8. PairFree'
    BY <1>1
       DEF SearchInv, KeepResult, SearchTypeOK, AtStep, Moves, WorkersOK,
           PairFree, SavingSteps
  <1> QED
    BY <1>1, <1>2, <1>3, <1>4, <1>5, <1>6, <1>7, <1>8
       DEF SearchInv, WorkersOK

LEMMA AddCertInv ==
  ASSUME SearchInv, NEW w \in Workers, AddCert(w)
  PROVE  SearchInv'
  <1>1. phase = "running" /\ phase' = phase /\ WorkersOK
    BY DEF SearchInv, AddCert, AtStep
  <1>2. SearchTypeOK'
    BY SearchAssumption, NothingIsResult
       DEF SearchInv, AddCert, SearchTypeOK, Moves, Steps, Results, Torn,
           resultVars, Tried, Locks, Truncate
  <1>3. EmptyOK' /\ PairSaved'
    BY <1>1, SearchAssumption
       DEF SearchInv, AddCert, EmptyOK, PairSaved, Torn, resultVars, Locks,
           Truncate
  <1>4. LockOK'
    BY <1>1, SearchAssumption
       DEF SearchInv, AddCert, SearchTypeOK, AtStep, Moves, WorkersOK, LockOK,
           LockedSteps, Locks
  <1>5. CertsOK'
    BY <1>1
       DEF SearchInv, AddCert, SearchTypeOK, AtStep, Moves, WorkersOK, CertsOK,
           Locks
  <1>6. FileOK'
    BY <1>1, SearchAssumption
       DEF SearchInv, AddCert, SearchTypeOK, AtStep, Moves, WorkersOK, FileOK,
           LockOK, LockedSteps, Torn, resultVars, Locks, Truncate
  <1>7. SavingOK'
    BY <1>1, SearchAssumption
       DEF SearchInv, AddCert, SearchTypeOK, AtStep, Moves, WorkersOK,
           SavingOK, SavesPair, LockOK, SavingSteps, LockedSteps, resultVars,
           Tried, Locks, Truncate
  <1>8. PairFree'
    BY <1>1
       DEF SearchInv, AddCert, SearchTypeOK, AtStep, Moves, WorkersOK,
           PairFree, SavingSteps
  <1> QED
    BY <1>1, <1>2, <1>3, <1>4, <1>5, <1>6, <1>7, <1>8
       DEF SearchInv, WorkersOK

LEMMA FinishWriteInv ==
  ASSUME SearchInv, NEW w \in Workers, FinishWrite(w)
  PROVE  SearchInv'
  <1>1. phase = "running" /\ phase' = phase /\ WorkersOK
    BY DEF SearchInv, FinishWrite, AtStep
  <1>2. SearchTypeOK'
    BY SearchAssumption, NothingIsResult
       DEF SearchInv, FinishWrite, SearchTypeOK, Moves, Steps, Results, Whole,
           resultVars
  <1>3. EmptyOK' /\ PairSaved'
    BY <1>1, SearchAssumption
       DEF SearchInv, FinishWrite, EmptyOK, PairSaved, Whole, resultVars
  <1>4. LockOK'
    BY <1>1, SearchAssumption
       DEF SearchInv, FinishWrite, SearchTypeOK, AtStep, Moves, WorkersOK,
           LockOK, LockedSteps
  <1>5. CertsOK'
    BY <1>1
       DEF SearchInv, FinishWrite, SearchTypeOK, AtStep, Moves, WorkersOK,
           CertsOK
  <1>6. FileOK'
    BY <1>1, SearchAssumption
       DEF SearchInv, FinishWrite, SearchTypeOK, AtStep, Moves, WorkersOK,
           FileOK, LockOK, LockedSteps, Whole, resultVars
  <1>7. SavingOK'
    BY <1>1, SearchAssumption
       DEF SearchInv, FinishWrite, SearchTypeOK, AtStep, Moves, WorkersOK,
           SavingOK, SavesPair, LockOK, SavingSteps, LockedSteps, resultVars
  <1>8. PairFree'
    BY <1>1
       DEF SearchInv, FinishWrite, SearchTypeOK, AtStep, Moves, WorkersOK,
           PairFree, SavingSteps
  <1> QED
    BY <1>1, <1>2, <1>3, <1>4, <1>5, <1>6, <1>7, <1>8
       DEF SearchInv, WorkersOK

LEMMA DiscardInv ==
  ASSUME SearchInv, NEW w \in Workers, Discard(w)
  PROVE  SearchInv'
  <1>1. phase = "running" /\ phase' = phase /\ WorkersOK
    BY DEF SearchInv, Discard, AtStep
  <1>2. SearchTypeOK'
    BY SearchAssumption, NothingIsResult
       DEF SearchInv, Discard, SearchTypeOK, Moves, Steps, Results, resultVars
  <1>3. EmptyOK' /\ PairSaved'
    BY <1>1, SearchAssumption
       DEF SearchInv, Discard, EmptyOK, PairSaved, resultVars
  <1>4. LockOK'
    BY <1>1, SearchAssumption
       DEF SearchInv, Discard, SearchTypeOK, AtStep, Moves, WorkersOK, LockOK,
           LockedSteps
  <1>5. CertsOK'
    BY <1>1
       DEF SearchInv, Discard, SearchTypeOK, AtStep, Moves, WorkersOK, CertsOK
  <1>6. FileOK'
    BY <1>1, SearchAssumption
       DEF SearchInv, Discard, SearchTypeOK, AtStep, Moves, WorkersOK, FileOK,
           LockOK, LockedSteps, resultVars
  <1>7. SavingOK'
    BY <1>1, SearchAssumption
       DEF SearchInv, Discard, SearchTypeOK, AtStep, Moves, WorkersOK,
           SavingOK, SavesPair, LockOK, SavingSteps, LockedSteps, resultVars
  <1>8. PairFree'
    BY <1>1
       DEF SearchInv, Discard, SearchTypeOK, AtStep, Moves, WorkersOK,
           PairFree, SavingSteps
  <1> QED
    BY <1>1, <1>2, <1>3, <1>4, <1>5, <1>6, <1>7, <1>8
       DEF SearchInv, WorkersOK

LEMMA UnpairedInv ==
  ASSUME SearchInv, NEW w \in Workers, Unpaired(w)
  PROVE  SearchInv'
  <1>1. phase = "running" /\ phase' = phase /\ WorkersOK
    BY DEF SearchInv, Unpaired, JoinFsl, AtStep
  <1>2. SearchTypeOK'
    <2>1. caPEM[w] \in Candidates /\ fslCerts' = Append(fslCerts, caPEM[w])
      BY <1>1 DEF Unpaired, JoinFsl, AtStep, WorkersOK, CertsOK
    <2>2. fslCerts' \in Seq(Candidates)
      BY <2>1 DEF SearchInv, SearchTypeOK
    <2> QED
      BY <2>2
         DEF SearchInv, SearchTypeOK, Unpaired, Moves, Steps, resultVars
  <1>3. EmptyOK' /\ PairSaved'
    BY <1>1, SearchAssumption
       DEF SearchInv, Unpaired, EmptyOK, PairSaved, resultVars, JoinFsl
  <1>4. LockOK'
    BY <1>1, SearchAssumption
       DEF SearchInv, Unpaired, SearchTypeOK, AtStep, Moves, WorkersOK, LockOK,
           LockedSteps, JoinFsl
  <1>5. CertsOK'
    BY <1>1
       DEF SearchInv, Unpaired, SearchTypeOK, AtStep, Moves, WorkersOK,
           CertsOK, JoinFsl
  <1>6. FileOK'
    BY <1>1, SearchAssumption
       DEF SearchInv, Unpaired, SearchTypeOK, AtStep, Moves, WorkersOK, FileOK,
           LockOK, LockedSteps, resultVars, JoinFsl
  <1>7. SavingOK'
    BY <1>1, SearchAssumption
       DEF SearchInv, Unpaired, SearchTypeOK, AtStep, Moves, WorkersOK,
           SavingOK, SavesPair, LockOK, SavingSteps, LockedSteps, resultVars,
           JoinFsl, Earlier
  <1>8. PairFree'
    BY <1>1
       DEF SearchInv, Unpaired, SearchTypeOK, AtStep, Moves, WorkersOK,
           PairFree, SavingSteps, JoinFsl, Earlier
  <1> QED
    BY <1>1, <1>2, <1>3, <1>4, <1>5, <1>6, <1>7, <1>8
       DEF SearchInv, WorkersOK

LEMMA PairInv ==
  ASSUME SearchInv, NEW w \in Workers, Pair(w)
  PROVE  SearchInv'
  <1>1. phase = "running" /\ phase' = phase /\ WorkersOK
    BY DEF SearchInv, Pair, JoinFsl, AtStep
  <1>2. SearchTypeOK'
    <2>1. caPEM[w] \in Candidates /\ fslCerts' = Append(fslCerts, caPEM[w])
      BY <1>1 DEF Pair, JoinFsl, AtStep, WorkersOK, CertsOK
    <2>2. fslCerts' \in Seq(Candidates)
      BY <2>1 DEF SearchInv, SearchTypeOK
    <2>3. PICK i \in Earlier : partner' = [partner EXCEPT ![w] = fslCerts[i]]
      BY DEF Pair
    <2>4. fslCerts[i] \in Candidates
      BY <2>3 DEF Earlier, SearchInv, SearchTypeOK
    <2>5. partner' \in [Workers -> Candidates \cup {NoCert}]
      BY <2>3, <2>4 DEF SearchInv, SearchTypeOK
    <2> QED
      BY <2>2, <2>5, NothingIsResult
         DEF SearchInv, SearchTypeOK, Pair, Moves, Steps
  <1>3. EmptyOK' /\ PairSaved'
    BY <1>1, SearchAssumption
       DEF SearchInv, Pair, EmptyOK, PairSaved, resultVars, JoinFsl
  <1>4. LockOK'
    BY <1>1, SearchAssumption
       DEF SearchInv, Pair, SearchTypeOK, AtStep, Moves, WorkersOK, LockOK,
           LockedSteps, JoinFsl
  <1>5. CertsOK'
    BY <1>1
       DEF SearchInv, Pair, SearchTypeOK, AtStep, Moves, WorkersOK, CertsOK,
           JoinFsl
  <1>6. FileOK'
    BY <1>1, SearchAssumption
       DEF SearchInv, Pair, SearchTypeOK, AtStep, Moves, WorkersOK, FileOK,
           LockOK, LockedSteps, resultVars, JoinFsl
  <1>7. SavingOK'
    <2>1. PICK i \in Earlier :
             /\ Covers(fslCerts[i], caPEM[w])
             /\ partner' = [partner EXCEPT ![w] = fslCerts[i]]
      BY DEF Pair
    <2>2. fslCerts[i] \in Candidates
      BY <2>1 DEF Earlier, SearchInv, SearchTypeOK
    <2>3. /\ partner'[w] = fslCerts[i] /\ caPEM' = caPEM
          /\ Fits[caPEM[w]] # {} /\ FoundCerts' = Nothing
          /\ step' = [step EXCEPT ![w] = "saving"]
      BY <2>1 DEF Pair, JoinFsl, Moves, SearchInv, SearchTypeOK
    <2>4. SavesPair(w)'
      BY <2>1, <2>2, <2>3 DEF SavesPair, Covers, Nothing
    <2>5. \A v \in Workers \ {w} : step'[v] \notin SavingSteps
      BY <1>1, <2>3, SearchAssumption
         DEF Pair, JoinFsl, WorkersOK, LockOK, SavingSteps, LockedSteps,
             SearchInv, SearchTypeOK
    <2> QED
      BY <2>4, <2>5 DEF SavingOK
  <1>8. PairFree'
    BY <1>1
       DEF SearchInv, Pair, SearchTypeOK, AtStep, Moves, WorkersOK, PairFree,
           SavingSteps, JoinFsl, Earlier
  <1> QED
    BY <1>1, <1>2, <1>3, <1>4, <1>5, <1>6, <1>7, <1>8
       DEF SearchInv, WorkersOK

LEMMA SavePairInv ==
  ASSUME SearchInv, NEW w \in Workers, SavePair(w)
  PROVE  SearchInv'
  <1>1. phase = "running" /\ phase' = phase /\ WorkersOK
    BY DEF SearchInv, SavePair, AtStep
  <1>2. SearchTypeOK'
    <2>1. PairMember(w) \in Candidates
      BY <1>1
         DEF SavePair, AtStep, PairMember, WorkersOK, CertsOK, SavingOK,
             SavesPair, SavingSteps
    <2>2. FoundCerts' \in Results
      BY <2>1 DEF SavePair, Results, SearchInv, SearchTypeOK
    <2> QED
      BY <2>2, NothingIsResult
         DEF SearchInv, SearchTypeOK, SavePair, Truncate, Torn, Moves, Steps
  <1>3. EmptyOK' /\ PairSaved'
    BY <1>1, SearchAssumption
       DEF SearchInv, SavePair, EmptyOK, PairSaved, Torn, resultVars, Truncate
  <1>4. LockOK'
    BY <1>1, SearchAssumption
       DEF SearchInv, SavePair, SearchTypeOK, AtStep, Moves, WorkersOK, LockOK,
           LockedSteps
  <1>5. CertsOK'
    BY <1>1
       DEF SearchInv, SavePair, SearchTypeOK, AtStep, Moves, WorkersOK, CertsOK
  <1>6. FileOK'
    BY <1>1, SearchAssumption
       DEF SearchInv, SavePair, SearchTypeOK, AtStep, Moves, WorkersOK, FileOK,
           LockOK, LockedSteps, Torn, resultVars, Truncate, Lacking, PairMember
  <1>7. SavingOK'
    BY <1>1, SearchAssumption
       DEF SearchInv, SavePair, SearchTypeOK, AtStep, Moves, WorkersOK,
           SavingOK, SavesPair, LockOK, SavingSteps, LockedSteps, resultVars,
           Truncate, Lacking, PairMember
  <1>8. PairFree'
    BY <1>1
       DEF SearchInv, SavePair, SearchTypeOK, AtStep, Moves, WorkersOK,
           PairFree, SavingSteps
  <1> QED
    BY <1>1, <1>2, <1>3, <1>4, <1>5, <1>6, <1>7, <1>8
       DEF SearchInv, WorkersOK

LEMMA WriteFailsInv ==
  ASSUME SearchInv, NEW w \in Workers, WriteFails(w)
  PROVE  SearchInv'
  BY DEF SearchInv, WriteFails, AtStep, SearchTypeOK, EmptyOK, PairSaved,
         Phases, resultVars, workerVars

\* A worker stops when the result has every length (PairMember, Lacking).
LEMMA EndFoundInv ==
  ASSUME SearchInv, NEW w \in Workers, EndFound(w)
  PROVE  SearchInv'
  <1>1. /\ phase = "running" /\ phase' = "found" /\ step[w] = "saving"
        /\ Lacking(PairMember(w)) = {} /\ WorkersOK
        /\ UNCHANGED <<resultVars, fslCerts, lock, workerVars, made>>
    BY DEF SearchInv, EndFound, AtStep
  <1>2. SearchTypeOK' /\ EmptyOK'
    BY <1>1 DEF SearchInv, SearchTypeOK, EmptyOK, Phases, resultVars,
                workerVars
  <1>3. Lacking(partner[w]) = {} /\ Lacking(caPEM[w]) = {}
    BY <1>1 DEF PairMember
  <1>4. SavesPair(w)
    BY <1>1 DEF WorkersOK, SavingOK, SavingSteps
  <1>5. caPEM[w] \in Candidates
    BY <1>1 DEF WorkersOK, CertsOK
  <1>6. \A l \in Lens : FoundCerts[l] # NoCert
    BY <1>3, <1>4 DEF SavesPair, Covers, Lacking
  <1>7. FoundCerts # Nothing
    <2>1. PICK l \in Lens : TRUE
      BY <1>4, <1>5, SearchAssumption DEF SavesPair
    <2> QED
      BY <2>1, <1>6 DEF Nothing
  <1>8. resultFile = Whole(FoundCerts)
    BY <1>1, <1>4, <1>7 DEF SavesPair
  <1>9. PairSaved'
    BY <1>1, <1>4, <1>5, <1>6, <1>8 DEF PairSaved, SavesPair, Whole, resultVars
  <1> QED
    BY <1>1, <1>2, <1>9 DEF SearchInv

LEMMA KillInv ==
  ASSUME SearchInv, Kill
  PROVE  SearchInv'
  BY DEF SearchInv, Kill, SearchTypeOK, EmptyOK, PairSaved, Phases, resultVars,
         workerVars

\* The file is all that a new process knows (main, loadResult).
LEMMA StartInv ==
  ASSUME SearchInv, Start
  PROVE  SearchInv'
  <1>1. SearchTypeOK' /\ EmptyOK'
    BY DEF SearchInv, Start, SearchTypeOK, EmptyOK, Phases, Steps, Loaded
  <1>2. PairSaved'
    BY DEF Start, PairSaved
  <1>3. phase' = "running" => WorkersOK'
    BY SearchAssumption
       DEF Start, WorkersOK, LockOK, CertsOK, FileOK, SavingOK, PairFree,
           LockedSteps, SavingSteps, Loaded
  <1> QED
    BY <1>1, <1>2, <1>3 DEF SearchInv

LEMMA SearchInvNext ==
  ASSUME SearchInv, [SearchNext]_searchVars
  PROVE  SearchInv'
  <1>1. CASE UNCHANGED searchVars
    BY <1>1
       DEF SearchInv, searchVars, resultVars, workerVars, SearchTypeOK, EmptyOK,
           PairSaved, WorkersOK, LockOK, CertsOK, FileOK, SavingOK, SavesPair,
           PairFree
  <1>2. CASE SearchNext
    BY <1>2, GenerateInv, KeepResultInv, AddCertInv, FinishWriteInv,
       WriteFailsInv, DiscardInv, UnpairedInv, PairInv, SavePairInv,
       EndFoundInv, KillInv, StartInv
       DEF SearchNext, Work
  <1> QED
    BY <1>1, <1>2

LEMMA SearchInvAlways == SearchSpec => []SearchInv
  BY SearchInvInit, SearchInvNext, PTL DEF SearchSpec

-----------------------------------------------------------------------------
\* Every variable has its type (Result and the workers of main).
THEOREM SearchTypeCorrect == SearchSpec => []SearchTypeOK
  <1>1. SearchInv => SearchTypeOK
    BY DEF SearchInv
  <1> QED
    BY <1>1, SearchInvAlways, PTL

\* What cagen announces is on the disk: for every length a certificate that
\* fits, and no more than two of them (certsetup).
THEOREM AnnouncedPairSaved == SearchSpec => []PairSaved
  <1>1. SearchInv => PairSaved
    BY DEF SearchInv
  <1> QED
    BY <1>1, SearchInvAlways, PTL

\* No pair of certificates that cover all lengths is passed over, whatever the
\* order in which the workers come by.
THEOREM PairsAreFound == SearchSpec => []NoPairMissed
  <1>1. SearchInv => NoPairMissed
    <2> SUFFICES ASSUME SearchInv, phase = "running", lock = NoWorker
                 PROVE  \A i, k \in 1 .. Len(fslCerts) :
                           i < k => ~Covers(fslCerts[i], fslCerts[k])
      BY DEF NoPairMissed
    <2>1. \A w \in Workers : step[w] \notin SavingSteps
      BY SearchAssumption
         DEF SearchInv, WorkersOK, LockOK, LockedSteps, SavingSteps
    <2> QED
      BY <2>1 DEF SearchInv, WorkersOK, PairFree
  <1> QED
    BY <1>1, SearchInvAlways, PTL

\* Whoever finds the lock free finds the file as the result is (AddCert).
THEOREM ProgressIsSaved == SearchSpec => []ProgressSaved
  <1>1. SearchInv => ProgressSaved
    BY DEF SearchInv, WorkersOK, FileOK, EmptyOK, ProgressSaved
  <1> QED
    BY <1>1, SearchInvAlways, PTL
================================================================================
