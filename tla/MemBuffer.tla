------------------------------- MODULE MemBuffer -------------------------------
(***************************************************************************)
(* The memory that a firmware image is loaded into (membuf/membuf.go): a   *)
(* list of segments in the order of their offsets, each with the           *)
(* replacement of a certificate, if one is found in it.  Replaced bytes    *)
(* are handed out one after the other as the image is read back.           *)
(*                                                                         *)
(* A byte is a number below W, offsets count from 0.  Operators whose name *)
(* starts with Slip are the ones after them with a plausible mistake.      *)
(***************************************************************************)
EXTENDS Integers, SequencesExt

CONSTANTS
    W,            \* the number of values of a byte (256)
    SearchBegin,  \* how the certificate to replace begins
    SearchEnd,    \* ... and ends
    FoundCerts    \* the replacement, per length of its first slice

ASSUME ByteAssumption == W \in Nat \ {0, 1}
ASSUME SearchAssumption ==
    /\ SearchBegin \in Seq(0 .. W - 1) /\ Len(SearchBegin) > 0
    /\ SearchEnd \in Seq(0 .. W - 1) /\ Len(SearchEnd) > 0
\* A length without a replacement is not in the domain.
ASSUME FoundCertsAssumption ==
    \A len \in DOMAIN FoundCerts :
        len \in Nat /\ FoundCerts[len] \in Seq(0 .. W - 1) \ {<<>>}

NoUpdate == [begin |-> 0, length |-> 0, str |-> <<>>, nextByte |-> 0]

\* The sums of the first bytes of p, and of all.
Totals(p) ==
    LET total[n \in 0 .. Len(p)] == IF n = 0 THEN 0 ELSE total[n - 1] + p[n]
    IN  total
Sum(p) == Totals(p)[Len(p)]

\* The two's complement of the sum of some bytes, in a byte.
Complement(sum) == (W - (sum % W)) % W
Checksum(p) == Complement(Sum(p))

EndOf(b) == b.offset + Len(b.buf)

Minimum(x, y) == IF x < y THEN x ELSE y
Maximum(x, y) == IF x > y THEN x ELSE y

-----------------------------------------------------------------------------
(* WriteAt *)

\* The segments after p is written at off: the first segment that ends there
\* grows, or there is a new one.  sort.Slice leaves the order of segments with
\* the same offset open.
WriteAt(bufs, p, off) ==
    LET ending == {i \in DOMAIN bufs : EndOf(bufs[i]) = off}
        new == [offset |-> off, buf |-> p, update |-> NoUpdate]
    IN  IF ending # {}
        THEN {[bufs EXCEPT ![Min(ending)].buf = @ \o p]}
        ELSE {InsertAt(bufs, i, new) : i \in
                {j \in 1 .. Len(bufs) + 1 :
                    /\ \A l \in 1 .. j - 1 : bufs[l].offset <= off
                    /\ \A l \in j .. Len(bufs) : bufs[l].offset >= off}}

-----------------------------------------------------------------------------
(* ReadAt *)

\* FittingIsPatched, RecordsKeepChecksum: every read starts the replacement anew.
SlipPatched(raw, u, o) ==
    LET left == Maximum(o, u.begin)
        right == Minimum(o + Len(raw), u.begin + u.length)
        n == Minimum(right - left, Len(u.str))
        data == [j \in DOMAIN raw |->
                    IF left - o < j /\ j <= left - o + n
                    THEN u.str[j - (left - o)] ELSE raw[j]]
    IN  IF left < right
        THEN [ok |-> Checksum(data) = Checksum(raw), data |-> data,
              update |-> u]
        ELSE [ok |-> TRUE, data |-> raw, update |-> u]

\* The bytes raw, read at o in a segment, with the part of the certificate in
\* them overwritten by what is next of its replacement.  That must leave their
\* checksum as it is.
Patched(raw, u, o) ==
    LET left == Maximum(o, u.begin)
        right == Minimum(o + Len(raw), u.begin + u.length)
        n == Minimum(right - left, Len(u.str) - u.nextByte)
        data == [j \in DOMAIN raw |->
                    IF left - o < j /\ j <= left - o + n
                    THEN u.str[u.nextByte + j - (left - o)] ELSE raw[j]]
    IN  IF left < right
        THEN [ok |-> Checksum(data) = Checksum(raw), data |-> data,
              update |-> [u EXCEPT !.nextByte = @ + n]]
        ELSE [ok |-> TRUE, data |-> raw, update |-> u]

\* The segment a byte is read from: the last of those that hold it.
Holding(bufs, off) ==
    {i \in DOMAIN bufs : bufs[i].offset <= off /\ off < EndOf(bufs[i])}

\* A call of ReadAt, for what is left of p: the part of it that one segment
\* holds, and the segments with the replacement moved on.
Piece(read, off) ==
    LET at == off + read.served
        left == Len(read.p) - read.served
        i == Max(Holding(read.bufs, at))
        b == read.bufs[i]
        o == at - b.offset
        len == Minimum(left, Len(b.buf) - o)
        raw == [j \in 1 .. left |->
                   IF j <= len THEN b.buf[o + j] ELSE read.p[read.served + j]]
        patch == Patched(raw, b.update, o)
    IN  IF ~read.ok \/ read.whole THEN read
        ELSE IF Holding(read.bufs, at) = {} THEN [read EXCEPT !.ok = FALSE]
        ELSE [ok |-> patch.ok, whole |-> len = left,
              served |-> read.served + len,
              p |-> SubSeq(read.p, 1, read.served) \o patch.data,
              bufs |-> [read.bufs EXCEPT ![i].update = patch.update]]

\* A read before the first call.
Unread(bufs, n) ==
    [ok |-> TRUE, whole |-> FALSE, served |-> 0, p |-> [j \in 1 .. n |-> 0],
     bufs |-> bufs]

\* n bytes at off.  A read that goes past the end of a segment goes on in
\* another, and each of them has one byte of it at least.
Reads(bufs, n, off) ==
    LET read[k \in 0 .. n + 1] ==
            IF k = 0 THEN Unread(bufs, n) ELSE Piece(read[k - 1], off)
    IN  read
ReadAt(bufs, n, off) == Reads(bufs, n, off)[n + 1]

-----------------------------------------------------------------------------
(* Update *)

\* The places in s where sub begins, counted from 0.
Occurrences(s, sub) ==
    {i \in 0 .. Len(s) - Len(sub) : SubSeq(s, i + 1, i + Len(sub)) = sub}

Index(s, sub) ==
    IF Occurrences(s, sub) = {} THEN -1 ELSE Min(Occurrences(s, sub))

\* The number of bytes from the place begin to the next record, if any.
FirstSliceLen(begin, records) ==
    LET later == {i \in DOMAIN records : records[i].readOffset >= begin}
    IN  IF later = {} THEN -1 ELSE records[Min(later)].readOffset - begin

\* ImagePatched: what is replaced is as long as what is searched for.
SlipUpdatedBuffer(b, records) ==
    LET begin == Index(b.buf, SearchBegin)
        first == FirstSliceLen(b.offset + begin, records)
    IN  IF begin = -1 THEN {b}
        ELSE IF first \notin DOMAIN FoundCerts THEN {}
        ELSE {[b EXCEPT !.update = [begin |-> begin,
                                    length |-> Len(SearchBegin),
                                    str |-> FoundCerts[first],
                                    nextByte |-> 0]]}

\* A segment with its replacement; none when there is no record after the
\* certificate (a panic) or no replacement for its first slice (log.Fatalf).
UpdatedBuffer(b, records) ==
    LET begin == Index(b.buf, SearchBegin)
        end == Index(SubSeq(b.buf, begin + 1, Len(b.buf)), SearchEnd)
        first == FirstSliceLen(b.offset + begin, records)
    IN  IF begin = -1 THEN {b}
        ELSE IF first \notin DOMAIN FoundCerts THEN {}
        ELSE {[b EXCEPT !.update = [begin |-> begin,
                                    length |-> end + Len(SearchEnd),
                                    str |-> FoundCerts[first],
                                    nextByte |-> 0]]}

\* The segments after Update, unless the program ends there.
Update(bufs, records) ==
    LET updated == [i \in DOMAIN bufs |-> UpdatedBuffer(bufs[i], records)]
    IN  IF \E i \in DOMAIN bufs : updated[i] = {}
        THEN {}
        ELSE {[i \in DOMAIN bufs |-> CHOOSE b \in updated[i] : TRUE]}

=============================================================================
