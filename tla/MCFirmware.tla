------------------------------ MODULE MCFirmware ------------------------------
(***************************************************************************)
(* Small firmware files for TLC: bytes of three bits, a certificate of     *)
(* four bytes, records of up to three.                                     *)
(***************************************************************************)
EXTENDS Firmware, TLC

MCSearchBegin == <<7, 1>>
MCSearchEnd == <<2, 7>>
Certificate == <<7, 1, 2, 7>>

\* Made for records of two bytes, or of three.
MCFoundCerts ==
    0 :> <<1, 7, 7, 2>> @@ 1 :> <<7, 2, 1, 7>> @@ 2 :> <<1, 7, 7, 2>>
      @@ 3 :> <<2, 7, 1, 7>>

Images ==
    {pre \o mid \o post :
        pre \in {<<>>, <<0>>, <<7>>, <<0, 3>>},
        mid \in {Certificate, <<7, 1, 3>>, Certificate \o Certificate},
        post \in {<<>>, <<4>>}}

\* The ways to cut an image into records.
Cuts(n) ==
    {c \in UNION {[1 .. k -> 1 .. 3] : k \in 1 .. 4} : FoldSeq(+, 0, c) = n}

Before(c, k) == FoldSeq(+, 0, SubSeq(c, 1, k - 1))

Hex(recType, offset, body) ==
    [recType |-> recType, offset |-> offset, body |-> body,
     csum |-> RecordChecksum(offset, recType, body)]

\* An image at an address, with a hole before its record g.
DataOf(image, c, start, g) ==
    [k \in DOMAIN c |->
        Hex(DATA, start + Before(c, k) + (IF k >= g THEN 1 ELSE 0),
            SubSeq(image, Before(c, k) + 1, Before(c, k) + c[k]))]

Prologues == {<<>>, <<Hex(BASE, 0, <<0, 1>>), Hex(START, 0, <<1>>)>>}

File(prologue, data) == prologue \o data \o <<Hex(EOF, 0, <<>>)>>

Files(starts) ==
    UNION {{File(p, DataOf(image, c, start, g)) :
              p \in Prologues, start \in starts, g \in {2, 5},
              c \in Cuts(Len(image))} : image \in Images}

\* A file that is damaged, cut short, or out of order.
Damaged(f) ==
    {[f EXCEPT ![Len(f)].csum = (@ + 1) % W], Front(f),
     <<Hex(3, 0, <<>>)>> \o f, <<Hex(BASE, 0, <<1>>)>> \o f}
      \cup (IF f[1].recType = DATA /\ f[2].recType = DATA
            THEN {[f EXCEPT ![1] = f[2], ![2] = f[1]]} ELSE {})

MCInputs == {<<>>} \cup Files({5}) \cup UNION {Damaged(f) : f \in Files({9})}
MCZeroInputs == Files({0})
=============================================================================
