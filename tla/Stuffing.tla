------------------------------- MODULE Stuffing -------------------------------
(***************************************************************************)
(* How cagen (cmd/cagen/main.go) makes a CA certificate fit in the place   *)
(* of another: for one number of bytes before the first slice boundary,    *)
(* it puts the new certificate at the end of a copy of the old one, moves  *)
(* parts of it to the left to make room for whitespace that balances the   *)
(* sum of each slice, and balances the rest with the bytes in front of it. *)
(*                                                                         *)
(* Sums of a slice are bytes (below W), sums of everything have two bytes. *)
(* Places in a blob count from 0.  Operators whose name starts with Slip   *)
(* are the ones after them with a plausible mistake.                       *)
(***************************************************************************)
EXTENDS Integers, SequencesExt

CONSTANTS
    W,          \* the number of values of a byte (256)
    SliceLen,   \* 128
    NL, CR,     \* '\n' and '\r'
    Blobs,      \* original certificates, as PEM
    Certs       \* generated certificates, as PEM

ASSUME StuffingAssumption ==
    /\ W \in Nat \ {0, 1}
    /\ SliceLen \in Nat /\ SliceLen > 4 /\ W % SliceLen = 0
    /\ NL \in 0 .. W - 1 /\ CR \in 0 .. W - 1 /\ NL # CR
    /\ Blobs \cup Certs \subseteq Seq(0 .. W - 1)
    /\ \A b \in Blobs : Len(b) > SliceLen
    /\ \A c \in Certs : Len(c) >= SliceLen

\* pem.Encode writes no '\r', and five '-' first, which stay none when they
\* are spoiled.
ASSUME PEMAssumption ==
    \A c \in Certs : \A i \in DOMAIN c :
        /\ c[i] # CR
        /\ i <= 5 => (c[i] + 1) % W # CR /\ (c[i] - 1) % W # CR

VARIABLES
    blob, cert, firstSliceLen,
    newBlob,     \* what becomes PublicMangled
    start,       \* of the slice that verifyFixedBlobs is at
    stuffed,     \* stuffedInternalBytes
    stage

inputVars == <<blob, cert, firstSliceLen>>
vars == <<inputVars, newBlob, start, stuffed, stage>>

Word == W * W

Minimum(x, y) == IF x < y THEN x ELSE y
Maximum(x, y) == IF x > y THEN x ELSE y

LastPlace == Len(blob) - 1
At(s, i) == s[i + 1]

\* The sums of the first bytes of s.
Totals(s) ==
    LET total[n \in 0 .. Len(s)] == IF n = 0 THEN 0 ELSE total[n - 1] + s[n]
    IN  total

\* The sum of the bytes of s at the places from .. to.
Sum(s, from, to) == Totals(s)[to + 1] - Totals(s)[from]

\* A blob with the bytes at some places replaced.
Overwrite(s, places, Op(_)) ==
    [j \in DOMAIN s |-> IF j - 1 \in places THEN Op(j - 1) ELSE s[j]]

ToStuff == Len(blob) - Len(cert)

\* The place of the first byte of the certificate.
FrontPlace == ToStuff - stuffed

Balanced(s, from, to) == Sum(blob, from, to) % W = Sum(s, from, to) % W

Init ==
    /\ blob \in Blobs
    /\ cert \in {c \in Certs : Len(c) <= Len(blob)}
    /\ firstSliceLen \in 0 .. SliceLen - 1
    /\ newBlob = <<>>
    /\ start = 0
    /\ stuffed = 0
    /\ stage = "place"

-----------------------------------------------------------------------------
\* certsetup: the certificate at the end of the blob, and the header that is
\* left in front of it spoiled, within one slice.
Place ==
    /\ stage = "place"
    /\ LET placed == SubSeq(blob, 1, ToStuff) \o cert
           i == IF firstSliceLen > 2 THEN 0 ELSE 3
           j == IF firstSliceLen > 2 THEN 1 ELSE 4
       IN  newBlob' = [placed EXCEPT ![i + 1] = (@ + 1) % W,
                                     ![j + 1] = (@ - 1) % W]
    /\ start' = firstSliceLen
                  + ((LastPlace - firstSliceLen) \div SliceLen) * SliceLen
    /\ stage' = "verify"
    /\ UNCHANGED <<inputVars, stuffed>>

-----------------------------------------------------------------------------
(* verifyFixedBlobs: the next slice, from the last to the first.           *)

End == Minimum(start + SliceLen, Len(blob)) - 1

\* SlicesBalanced: what is overwritten is still counted.
SlipBalances(n, crs) ==
    (Sum(newBlob, start, End) + crs * CR + (n - crs) * NL) % W
        = Sum(blob, start, End) % W

\* n whitespace bytes at the start of the slice, crs of them '\r'.
Whitespace(i, crs) ==
    IF (i - start) % 2 = 1 /\ i - start < 2 * crs THEN CR ELSE NL

\* The slice would be balanced with them.
Balances(n, crs) ==
    (Sum(newBlob, start + n, End) + crs * CR + (n - crs) * NL) % W
        = Sum(blob, start, End) % W

\* The most whitespace that is tried.
MostStuffed == Maximum(2, Minimum(End + 1 - start, FrontPlace))

\* CarriageReturnsPaired: as many '\r' as '\n'.
SlipBalancings ==
    {c \in (2 .. MostStuffed) \X (0 .. SliceLen) :
        /\ c[2] <= c[1] \div 2
        /\ c[1] = MostStuffed => c[2] = 0
        /\ Balances(c[1], c[2])}

\* What balances it: the number of bytes, and of '\r' among them.
Balancings ==
    {c \in (2 .. MostStuffed) \X (0 .. SliceLen) :
        /\ c[2] < c[1] \div 2
        /\ c[1] = MostStuffed => c[2] = 0
        /\ Balances(c[1], c[2])}

\* The first of them in the order they are tried.
FirstChoice ==
    CHOOSE c \in Balancings :
        \A d \in Balancings : c[1] < d[1] \/ (c[1] = d[1] /\ c[2] <= d[2])

\* CertificateKept: less is moved than is overwritten.
SlipShifted(n, crs) ==
    Overwrite(newBlob, FrontPlace - n .. start + n - 1,
              LAMBDA i : IF i < start - 1 THEN At(newBlob, i + n)
                                          ELSE Whitespace(i, crs))

Shifted(n, crs) ==
    Overwrite(newBlob, FrontPlace - n .. start + n - 1,
              LAMBDA i : IF i < start THEN At(newBlob, i + n)
                                      ELSE Whitespace(i, crs))

VerifyDone ==
    /\ stage = "verify" /\ start < 0
    /\ stage' = "fixup"
    /\ UNCHANGED <<inputVars, newBlob, start, stuffed>>

\* In front of the certificate, or balanced as it is.
VerifySkip ==
    /\ stage = "verify" /\ start >= 0
    /\ start < FrontPlace \/ Balanced(newBlob, start, End)
    /\ start' = start - SliceLen
    /\ UNCHANGED <<inputVars, newBlob, stuffed, stage>>

Unbalanced ==
    /\ stage = "verify" /\ start >= 0
    /\ start >= FrontPlace
    /\ ~Balanced(newBlob, start, End)

VerifyStuff ==
    /\ Unbalanced /\ End > start
    /\ Balancings # {}
    /\ FirstChoice[1] <= FrontPlace
    /\ newBlob' = Shifted(FirstChoice[1], FirstChoice[2])
    /\ stuffed' = stuffed + FirstChoice[1]
    /\ start' = start - SliceLen
    /\ UNCHANGED <<inputVars, stage>>

VerifyReject ==
    /\ Unbalanced /\ End > start
    /\ Balancings = {}
    /\ stage' = "rejected"
    /\ UNCHANGED <<inputVars, newBlob, start, stuffed>>

\* newBlob[start+1] is behind the end, or a slice expression of copy starts in
\* front of the first place.
VerifyPanic ==
    /\ Unbalanced
    /\ \/ End = start
       \/ End > start /\ Balancings # {} /\ FirstChoice[1] > FrontPlace
    /\ stage' = "panic"
    /\ UNCHANGED <<inputVars, newBlob, start, stuffed>>

-----------------------------------------------------------------------------
(* fixupStuffBytes: the slice that the certificate begins in.              *)

SliceStarts ==
    {0} \cup {i \in firstSliceLen .. LastPlace :
                (i - firstSliceLen) % SliceLen = 0}
SliceEnd(s) ==
    IF s < firstSliceLen THEN firstSliceLen - 1
    ELSE Minimum(s + SliceLen, Len(blob)) - 1

Straddled == {s \in SliceStarts : s < FrontPlace /\ FrontPlace <= SliceEnd(s)}
FrontSlice == Max(Straddled)

\* What the bytes in front of the certificate must add up to, and each of them,
\* and what is left for the last one.
Delta ==
    (Sum(blob, FrontSlice, LastPlace) - Sum(newBlob, FrontPlace, LastPlace))
        % Word
Avg == Delta \div (FrontPlace - FrontSlice)
Rest == (Delta - (FrontPlace - FrontSlice - 1) * Minimum(Avg, W - 1)) % Word

\* Every byte in front of it is the same, but for the last one...
Level(b, last) ==
    Overwrite(newBlob, FrontSlice .. FrontPlace - 1,
              LAMBDA i : IF i = FrontPlace - 1 THEN last ELSE b)

\* ... and the slice before takes what is too much for them.
Spread(s, delta) ==
    Overwrite(s, FrontSlice - SliceLen .. SliceEnd(FrontSlice) - SliceLen,
              LAMBDA i : (At(s, i) + (delta \div SliceLen)) % W)

FixupLevel ==
    /\ Straddled # {} /\ Avg < W /\ Rest < W
    /\ newBlob' = Level(Avg, Rest)
    /\ stage' = "check"

FixupSpread ==
    /\ Straddled # {} /\ Avg >= W /\ FrontSlice >= SliceLen
    /\ newBlob' = Spread(Level(W - 1, Rest % W), Rest - (Rest % W))
    /\ stage' = "check"

FixupReject ==
    /\ \/ Straddled = {}
       \/ Straddled # {} /\ Avg >= W /\ FrontSlice < SliceLen
       \/ Straddled # {} /\ Avg < W /\ Rest >= W
    /\ stage' = "rejected"
    /\ UNCHANGED newBlob

Fixup ==
    /\ stage = "fixup"
    /\ FixupLevel \/ FixupSpread \/ FixupReject
    /\ UNCHANGED <<inputVars, start, stuffed>>

-----------------------------------------------------------------------------
\* firstNonMatchingSlice
Agrees ==
    /\ \A s \in SliceStarts : Balanced(newBlob, s, SliceEnd(s))
    /\ Sum(blob, 0, LastPlace) % Word = Sum(newBlob, 0, LastPlace) % Word

Check ==
    /\ stage = "check"
    /\ stage' = IF Agrees THEN "accepted" ELSE "rejected"
    /\ UNCHANGED <<inputVars, newBlob, start, stuffed>>

Verify ==
    VerifyDone \/ VerifySkip \/ VerifyStuff \/ VerifyReject \/ VerifyPanic

Next == Place \/ Verify \/ Fixup \/ Check

Spec == Init /\ [][Next]_vars

-----------------------------------------------------------------------------
(* Properties *)

Bytes == 0 .. W - 1

\* A blob keeps its length, and stuffing stays within what was in front of the
\* certificate.
TypeOK ==
    /\ blob \in Blobs /\ cert \in Certs
    /\ firstSliceLen \in 0 .. SliceLen - 1
    /\ newBlob \in Seq(Bytes)
    /\ stage # "place" => Len(newBlob) = Len(blob)
    /\ start \in -SliceLen .. LastPlace
    /\ stuffed \in 0 .. ToStuff
    /\ stage \in {"place", "verify", "fixup", "check", "accepted", "rejected",
                  "panic"}

\* What is not whitespace in the first bytes of s, and in all of it.
Kept(s) ==
    LET kept[n \in 0 .. Len(s)] ==
            IF n = 0 THEN <<>>
            ELSE IF s[n] \in {NL, CR} THEN kept[n - 1]
            ELSE Append(kept[n - 1], s[n])
    IN  kept
Stripped(s) == Kept(s)[Len(s)]

\* The certificate is all there behind the front, with nothing but whitespace
\* added, while slices are moved about and after: it still is the one that the
\* private key belongs to.  What is spoiled of the old header, up to place 4,
\* must lie in front of it.
CertificateKept ==
    stage \notin {"place", "panic"} /\ ToStuff > 4 =>
        Stripped(SubSeq(newBlob, FrontPlace + 1, Len(newBlob))) = Stripped(cert)

\* "every \r is immediately followed by \n": no later shift comes between
\* them.
CarriageReturnsPaired ==
    stage \notin {"place", "panic"} =>
        \A i \in FrontPlace .. LastPlace :
            At(newBlob, i) = CR => i < LastPlace /\ At(newBlob, i + 1) = NL

\* What verifyFixedBlobs and fixupStuffBytes leave has every slice balanced:
\* firstNonMatchingSlice, which looks at all of them again, never finds one
\* that is not, only a sum of everything that is.
SlicesBalanced ==
    stage = "check" =>
        \A s \in SliceStarts : Balanced(newBlob, s, SliceEnd(s))

\* "If any don't match, this firstSliceLen fails and we try the next one": the
\* search goes on.
NeverPanics == stage # "panic"
=============================================================================
