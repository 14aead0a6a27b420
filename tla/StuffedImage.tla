----------------------------- MODULE StuffedImage -----------------------------
(***************************************************************************)
(* What cagen is for: a certificate that it has accepted, put in the place *)
(* of the original by the memory buffer of a firmware (membuf/membuf.go).  *)
(***************************************************************************)
EXTENDS Stuffing

Memory == INSTANCE MemBuffer
    WITH SearchBegin <- <<NL>>, SearchEnd <- <<NL>>, FoundCerts <- <<>>

\* The firmware, with the original certificate behind as many bytes as make its
\* first slice firstSliceLen long.
Preamble == (SliceLen - firstSliceLen) % SliceLen
Image ==
    <<[offset |-> 0,
       buf |-> [i \in 1 .. Preamble |-> 0] \o blob,
       update |-> [begin |-> Preamble, length |-> Len(blob), str |-> newBlob,
                   nextByte |-> 0]]>>

\* The firmware is read back record by record, each as long as a slice or to
\* the end, unless an earlier one was refused.
RecordLen(i) == Minimum(SliceLen, Preamble + Len(blob) - i * SliceLen)
RecordCount == (Preamble + LastPlace) \div SliceLen + 1

ReadRecord(read, i) ==
    IF read.ok THEN Memory!ReadAt(read.bufs, RecordLen(i), i * SliceLen)
    ELSE read

\* What the first k records give.
ReadRecords ==
    LET read[k \in 0 .. RecordCount] ==
            IF k = 0 THEN [ok |-> TRUE, bufs |-> Image]
            ELSE ReadRecord(read[k - 1], k - 1)
    IN  read

\* The records of a firmware can all be read with an accepted certificate in
\* place: membuf, which looks at the checksum of each, does not refuse it.
RecordsKeepChecksum == stage = "accepted" => ReadRecords[RecordCount].ok
=============================================================================
