------------------------------- MODULE MCCagen -------------------------------
(***************************************************************************)
(* Both halves of cagen for TLC, side by side: the stuffing of a           *)
(* certificate, and the search that calls it.  They share no state, so a   *)
(* behaviour is one of the first with the other at rest, or the reverse.   *)
(*                                                                         *)
(* Small certificates: bytes of four bits, slices of eight, so that half   *)
(* of W is the length of a slice, as it is in the program.  Three lengths, *)
(* and certificates that cover them in pairs in several ways, that overlap *)
(* and that fit nowhere.                                                   *)
(***************************************************************************)
EXTENDS StuffedImage, CagenSearch, TLC

CONSTANTS w1, w2, c1, c2, c3, c4, c5

Begin == <<11, 11, 11, 11, 11>>
Ending == <<11, NL>>
Old == Begin \o <<0, 3, 1, 15, 14>>

\* One file does not end with a newline.
MCBlobs ==
    {Old \o <<10, 5, 13, 1, x, y>> \o Ending : x \in {0, 13}, y \in {1, 6}}
      \cup {Old \o <<10, 5, 13, 1, 0, 11, 11, 11>>}

\* Some that leave room, and some that leave none.
MCCerts ==
    {Begin \o <<x, y, z>> \o Ending : x, y, z \in {0, 1, 4, 9, 14, 15}}
      \cup {Old \o <<3, 1, 15, x, y, z>> \o Ending : x, y, z \in {0, 1, 4, 9}}

MCFits == c1 :> {0, 1} @@ c2 :> {2} @@ c3 :> {1, 2} @@ c4 :> {} @@ c5 :> {0}
MCSymmetry == Permutations({w1, w2})

VARIABLE part  \* which half this behaviour is of

OneBlob == CHOOSE b \in Blobs : TRUE
OneCert == CHOOSE c \in Certs : Len(c) <= Len(OneBlob)

MCInit ==
    /\ Init /\ SearchInit
    /\ part \in {"stuffing", "search"}
    \* The half at rest need not take every input.
    /\ part = "search" => blob = OneBlob /\ cert = OneCert /\ firstSliceLen = 0

MCNext ==
    \/ part = "stuffing" /\ Next /\ UNCHANGED <<searchVars, part>>
    \/ part = "search" /\ SearchNext /\ UNCHANGED <<vars, part>>

MCSpec == MCInit /\ [][MCNext]_<<vars, searchVars, part>>
=============================================================================
