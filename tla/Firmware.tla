-------------------------------- MODULE Firmware --------------------------------
(***************************************************************************)
(* Patching a firmware image (mutateFirmware in update.go, edit-firmware): *)
(* the records of an Intel HEX file are parsed into a MemBuffer            *)
(* (intelhex/parser.go), the CA certificate in it is marked for            *)
(* replacement, and the records are encoded again with the data as the     *)
(* buffer now reads (intelhex/encoder.go).                                 *)
(*                                                                         *)
(* A file is a sequence of records.  An offset has two bytes, and so has   *)
(* the base address that a record of type 4 sets.                          *)
(***************************************************************************)
EXTENDS MemBuffer

CONSTANT Inputs      \* the files

DATA == 0
EOF == 1
BASE == 4            \* extended linear address
START == 5           \* start linear address

Byte == 0 .. W - 1
HexRecord == [offset : 0 .. W * W - 1, recType : Byte, body : Seq(Byte),
              csum : Byte]

ASSUME InputsAssumption == Inputs \subseteq Seq(HexRecord)

VARIABLES
    input,         \* the file that is patched
    parsed,        \* the number of its records that have been read
    eof, baseAddress, outputOffset,  \* of Parser
    records,       \* of Parser, later of Encoder
    buffers,       \* of memBuffer
    stage,         \* of mutateFirmware
    output         \* what is written

parserVars == <<eof, baseAddress, outputOffset, records>>
vars == <<input, parsed, parserVars, buffers, stage, output>>

Init ==
    /\ input \in Inputs
    /\ parsed = 0
    /\ eof = FALSE
    /\ baseAddress = 0
    /\ outputOffset = 0
    /\ records = <<>>
    /\ buffers = <<>>
    /\ stage = "parse"
    /\ output = <<>>

-----------------------------------------------------------------------------
(* Parser.ReadRecord *)

\* The checksum byte of a record: over its length, both bytes of its offset,
\* its type and its body.
RecordChecksum(offset, recType, body) ==
    Complement(Len(body) + (offset \div W) + (offset % W) + recType
                 + Sum(body))

ChecksumOK(r) == r.csum = RecordChecksum(r.offset, r.recType, r.body)

\* The bodies of data records go to the buffer, and of an end-of-file record
\* nowhere.
Kept(r, readOffset) ==
    [length |-> Len(r.body), offset |-> r.offset, recType |-> r.recType,
     readOffset |-> readOffset,
     body |-> IF r.recType \in {BASE, START} THEN r.body ELSE <<>>]

Parsing == stage = "parse" /\ ~eof

Reading(recType) ==
    /\ Parsing /\ parsed < Len(input)
    /\ input[parsed + 1].recType = recType

\* The last part of ReadRecord.
Accept(r, readOffset) ==
    /\ IF ChecksumOK(r)
       THEN /\ records' = Append(records, Kept(r, readOffset))
            /\ UNCHANGED stage
       ELSE stage' = "failed" /\ UNCHANGED records
    /\ parsed' = parsed + 1
    /\ UNCHANGED <<input, output>>

\* The address of the first byte becomes offset 0.  The zero that outputOffset
\* starts with stands for not being set.
ReadData ==
    /\ Reading(DATA)
    /\ LET r == input[parsed + 1]
           address == baseAddress + r.offset
           compact == IF outputOffset = 0 THEN -address ELSE outputOffset
       IN  /\ outputOffset' = compact
           /\ buffers' \in WriteAt(buffers, r.body, address + compact)
           /\ Accept(r, address + compact)
    /\ UNCHANGED <<eof, baseAddress>>

ReadEOF ==
    /\ Reading(EOF)
    /\ eof' = TRUE
    /\ Accept(input[parsed + 1], 0)
    /\ UNCHANGED <<baseAddress, outputOffset, buffers>>

ReadBase ==
    /\ Reading(BASE)
    /\ LET r == input[parsed + 1]
       IN  /\ Len(r.body) >= 2
           /\ baseAddress' = (r.body[1] * W + r.body[2]) * W * W
           /\ Accept(r, 0)
    /\ UNCHANGED <<eof, outputOffset, buffers>>

ReadStart ==
    /\ Reading(START)
    /\ Accept(input[parsed + 1], 0)
    /\ UNCHANGED <<eof, baseAddress, outputOffset, buffers>>

\* The file ends early, or holds a record that is not understood.
ReadBad ==
    /\ Parsing
    /\ parsed < Len(input) =>
          LET r == input[parsed + 1]
          IN  \/ r.recType \notin {DATA, EOF, BASE, START}
              \/ r.recType = BASE /\ Len(r.body) < 2
    /\ stage' = "failed"
    /\ UNCHANGED <<input, parsed, parserVars, buffers, output>>

ReadRecord == ReadData \/ ReadEOF \/ ReadBase \/ ReadStart \/ ReadBad

-----------------------------------------------------------------------------
\* mutateFirmware between parsing and encoding.
Patch ==
    /\ stage = "parse" /\ eof
    /\ \/ buffers' \in Update(buffers, records) /\ stage' = "encode"
       \/ Update(buffers, records) = {} /\ stage' = "failed"
          /\ UNCHANGED buffers
    /\ UNCHANGED <<input, parsed, parserVars, output>>

-----------------------------------------------------------------------------
(* Encoder.EncodeRecords: the next record. *)

Encoding == stage = "encode" /\ Len(output) < Len(records)

Encoded(r, body) ==
    [offset |-> r.offset, recType |-> r.recType, body |-> body,
     csum |-> RecordChecksum(r.offset, r.recType, body)]

EncodeData ==
    /\ Encoding
    /\ LET r == records[Len(output) + 1]
           read == ReadAt(buffers, r.length, r.readOffset)
       IN  /\ r.recType = DATA
           /\ IF read.ok
              THEN /\ output' = Append(output, Encoded(r, read.p))
                   /\ buffers' = read.bufs
                   /\ UNCHANGED stage
              ELSE stage' = "failed" /\ UNCHANGED <<buffers, output>>
    /\ UNCHANGED <<input, parsed, parserVars>>

EncodeOther ==
    /\ Encoding
    /\ LET r == records[Len(output) + 1]
           zeros == [i \in 1 .. r.length |-> 0]
       IN  /\ r.recType # DATA
           /\ output' = Append(output, Encoded(r,
                           IF r.recType = EOF THEN zeros ELSE r.body))
    /\ UNCHANGED <<input, parsed, parserVars, buffers, stage>>

Finish ==
    /\ stage = "encode" /\ Len(output) = Len(records)
    /\ stage' = "done"
    /\ UNCHANGED <<input, parsed, parserVars, buffers, output>>

Next == ReadRecord \/ Patch \/ EncodeData \/ EncodeOther \/ Finish

Spec == Init /\ [][Next]_vars

-----------------------------------------------------------------------------
(* What the file says, byte by byte *)

Data == {i \in DOMAIN input : input[i].recType = DATA}

BaseOf(i) ==
    LET bases == {j \in 1 .. i - 1 : input[j].recType = BASE}
        body == input[Max(bases)].body
    IN  IF bases = {} THEN 0 ELSE (body[1] * W + body[2]) * W * W

Address(i) == BaseOf(i) + input[i].offset
Span(i) == Address(i) .. Address(i) + Len(input[i].body) - 1
RecordOf(a) == CHOOSE i \in Data : a \in Span(i)
Mapped == UNION {Span(i) : i \in Data}
ByteAt(a) == input[RecordOf(a)].body[a - Address(RecordOf(a)) + 1]

Matches(a, s) ==
    \A j \in DOMAIN s : a + j - 1 \in Mapped /\ ByteAt(a + j - 1) = s[j]

\* The first certificate of each stretch of memory without a hole.
Certificates ==
    {a \in Mapped : /\ Matches(a, SearchBegin)
                    /\ ~ \E b \in Mapped : /\ b < a /\ b .. a \subseteq Mapped
                                           /\ Matches(b, SearchBegin)}

Ends(a) ==
    {e \in Mapped : /\ a <= e /\ a .. e \subseteq Mapped
                    /\ Matches(e, SearchEnd)}
CertificateEnd(a) == Min(Ends(a)) + Len(SearchEnd) - 1

\* Its first slice ends where the next record begins.
SliceStarts(a) == {Address(i) : i \in {j \in Data : Address(j) >= a}}
Replacement(a) == FoundCerts[Min(SliceStarts(a)) - a]
Replaced(a) ==
    a .. Minimum(CertificateEnd(a), a + Len(Replacement(a)) - 1)

PatchedByteAt(x) ==
    LET covering == {a \in Certificates : x \in Replaced(a)}
        a == CHOOSE c \in covering : TRUE
    IN  IF covering = {} THEN ByteAt(x) ELSE Replacement(a)[x - a + 1]

PatchedBody(i) ==
    [j \in DOMAIN input[i].body |-> PatchedByteAt(Address(i) + j - 1)]

\* A file as the vendor makes them: its records ascend and do not overlap,
\* every certificate has an end, and the last record, and only that, is the
\* end of the file.
WellFormed ==
    /\ input # <<>>
    /\ \A i \in DOMAIN input :
          /\ ChecksumOK(input[i])
          /\ input[i].recType \in {DATA, EOF, BASE, START}
          /\ input[i].recType = EOF <=> i = Len(input)
          /\ input[i].recType = EOF => input[i].body = <<>>
          /\ input[i].recType = BASE => Len(input[i].body) = 2
          /\ input[i].recType = DATA => input[i].body # <<>>
    /\ \A i, j \in Data : i < j => Address(i) + Len(input[i].body) <= Address(j)
    /\ \A a \in Certificates : Ends(a) # {}

StartsAtZero == \E i \in Data : Address(i) = 0

\* The replacement of each certificate is there, and leaves the checksum of
\* each record as it is, which is what cagen looks for.
Fits ==
    /\ \A a \in Certificates :
          /\ SliceStarts(a) # {}
          /\ Min(SliceStarts(a)) - a \in DOMAIN FoundCerts
    /\ \A i \in Data : Checksum(PatchedBody(i)) = Checksum(input[i].body)

-----------------------------------------------------------------------------
(* Properties *)

\* The segments of the buffer are in the order of their offsets, which ReadAt
\* relies on when it stops looking, and no replacement is read past its end.
TypeOK ==
    /\ input \in Seq(HexRecord)
    /\ parsed \in 0 .. Len(input)
    /\ eof \in BOOLEAN
    /\ baseAddress \in Nat /\ outputOffset \in Int
    /\ Len(records) <= parsed
    /\ \A i \in DOMAIN buffers :
          /\ buffers[i].offset \in Int
          /\ buffers[i].buf \in Seq(Byte)
          /\ buffers[i].update.nextByte <= Len(buffers[i].update.str)
    /\ \A i, j \in DOMAIN buffers :
          i < j => buffers[i].offset <= buffers[j].offset
    /\ stage \in {"parse", "encode", "done", "failed"}
    /\ output \in Seq(HexRecord) /\ Len(output) <= Len(records)

\* The file as it is, but for the bytes of the certificates.
PatchedFile ==
    [i \in DOMAIN input |->
        IF i \in Data THEN [input[i] EXCEPT !.body = PatchedBody(i)]
        ELSE input[i]]

\* What is written is the file that was read, with the replacement byte by
\* byte in the place of each certificate, however it lies across records and
\* segments; the checksum of every record stays what it was.  The first byte
\* of the image must not be at address 0.
ImagePatched ==
    stage = "done" /\ WellFormed /\ ~StartsAtZero => output = PatchedFile

\* A file whose certificates have a replacement that fits is patched.
FittingIsPatched ==
    stage = "failed" => ~WellFormed \/ StartsAtZero \/ ~Fits

\* ImagePatched without its last condition: "preserving firmware checksum
\* validation", "Patch firmware hex files by replacing CA certificates".
AnyImagePatched == stage = "done" /\ WellFormed => output = PatchedFile
=============================================================================
