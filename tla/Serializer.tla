----------------------------- MODULE Serializer -----------------------------
(***************************************************************************)
(* The serializers and deserializers of include/jaffarCommon: Contiguous   *)
(* copies records into a buffer, Differential may also compress a record   *)
(* against the part of a reference buffer that belongs to it.  The two     *)
(* sides never exchange a position: each one counts for itself, and they   *)
(* only fit if every operation moves both in the same way.                 *)
(*                                                                         *)
(* The model holds a serializer, a deserializer that is opened on the same *)
(* buffer at any moment, and a second serializer without a buffer, which   *)
(* is how a caller measures.  The callers make the calls that belong       *)
(* together: the reader pops with the operation and the size of the push.  *)
(* A call that throws before it has changed anything is no step.           *)
(*                                                                         *)
(* xdelta3 is external: its code of a record has some length of at least   *)
(* one, the encoder fails when the space given to it is too small, and may *)
(* fail otherwise; the decoder returns the record for the whole code and   *)
(* the same part of the reference, and fails for anything else.            *)
(***************************************************************************)
EXTENDS Integers, Sequences, FiniteSets

CONSTANTS Bytes,
          Unset,       \* a byte of the buffer that nothing was written to
          Null,        \* nullptr, for the data or for the place to put it
          Sizes,       \* the sizes of the records
          Capacity,    \* the size of the output buffer
          RefSizes,    \* the sizes of the reference the reader may be given
          RefSize,     \* the size of the writer's reference
          CountSize,   \* sizeof(usize_t)
          MaxCode,     \* bound: the longest code of a record
          MaxRecords   \* bound: records pushed

ASSUME SerializerAssumption ==
  /\ Sizes \subseteq Nat
  /\ RefSizes \subseteq Nat
  /\ {Capacity, RefSize, CountSize, MaxCode, MaxRecords} \subseteq Nat
  /\ {Unset, Null} \cap Bytes = {}

VARIABLES kind,      \* the class of all three objects
          buffer,    \* the bytes of the output buffer, which is the input buffer too
          outPos,    \* serializer _outputDataBufferPos
          refPos,    \* serializer _referenceDataBufferPos
          outDiff,   \* serializer _differentialBytesCount
          broken,    \* the encoder has failed: the caller gives the serializer up
          measured,  \* _outputDataBufferPos of the serializer without a buffer
          inSize,    \* deserializer _inputDataBufferSize, Null until it is opened
          inRefSize, \* deserializer _referenceDataBufferSize
          inPos,     \* deserializer _inputDataBufferPos
          inRefPos,  \* deserializer _referenceDataBufferPos
          inDiff,    \* deserializer _differentialBytesCount
          stuck,     \* a pop has failed: the caller gives the deserializer up
          written,   \* the records pushed, with the positions each one left
          got        \* what each pop delivered, Null if it was given no place

writer == <<buffer, outPos, refPos, outDiff, broken, measured, written>>
reader == <<inSize, inRefSize, inPos, inRefPos, inDiff, stuck, got>>
vars   == <<kind, writer, reader>>

\* A buffer of the program: the bytes from p on, and the same with others there.
Get(p, n) == [i \in 1 .. n |-> buffer[p + i - 1]]
Put(p, s) == [q \in DOMAIN buffer |->
                IF q - p \in 0 .. Len(s) - 1 THEN s[q - p + 1] ELSE buffer[q]]

Init ==
  /\ kind \in {"contiguous", "differential"}
  /\ buffer = [p \in 0 .. Capacity - 1 |-> Unset]
  /\ outPos = 0 /\ refPos = 0 /\ outDiff = 0 /\ broken = FALSE
  /\ measured = 0
  /\ inSize = Null /\ inRefSize = 0
  /\ inPos = 0 /\ inRefPos = 0 /\ inDiff = 0 /\ stuck = FALSE
  /\ written = <<>> /\ got = <<>>

-----------------------------------------------------------------------------
(* The bytes of a differential record: its length, and its code, which only *)
(* means something together with the place r in the reference.             *)

CountBytes(k)   == [i \in 1 .. CountSize |-> [count |-> k, at |-> i]]
Code(d, r, k)   == [i \in 1 .. k |-> [data |-> d, ref |-> r, length |-> k, at |-> i]]
CountAt(p)      == {k \in 1 .. MaxCode : Get(p, CountSize) = CountBytes(k)}
Decode(p, k, r, n) ==
  {d \in [1 .. n -> Bytes] : p + k <= Capacity /\ Get(p, k) = Code(d, r, k)}

-----------------------------------------------------------------------------
(* The serializer                                                           *)

OutputFull(n) == outPos + n > Capacity
FaultyRefExceeded(n) == kind = "differential" /\ refPos > RefSize
RefExceeded(n) == kind = "differential" /\ refPos + n > RefSize

\* The caller remembers what was pushed and where the serializer then stood.
Record(op, data) ==
  written' = Append(written, [op |-> op, data |-> data,
                              ends |-> <<outPos', refPos', outDiff'>>])

\* Contiguous does not know a reference.
RefMoves(n) == IF kind = "differential" THEN n ELSE 0

FaultyStore(data, n) == IF data = Null THEN buffer ELSE Put(outPos + n, data)
Store(data, n) == IF data = Null THEN buffer ELSE Put(outPos, data)

\* Null data leaves the bytes of the buffer as they are, and counts them.
PushContiguous(data, n) ==
  /\ ~broken
  /\ Len(written) < MaxRecords
  /\ ~OutputFull(n)
  /\ ~RefExceeded(n)
  /\ buffer' = Store(data, n)
  /\ outPos' = outPos + n
  /\ refPos' = refPos + RefMoves(n)
  /\ measured' = measured + n
  /\ UNCHANGED <<kind, outDiff, broken, reader>>
  /\ Record("contiguous", IF data = Null THEN Get(outPos, n) ELSE data)

\* Without data, or without a buffer, a differential push does nothing at all.
CanEncode(n) ==
  /\ kind = "differential"
  /\ ~broken
  /\ Len(written) < MaxRecords
  /\ ~RefExceeded(n)
  /\ ~(outPos + CountSize >= Capacity)

FaultyDiffAdded(k) == k + CountSize
DiffAdded(k) == k

PushDifferential(data, n) ==
  /\ CanEncode(n)
  /\ \E k \in 1 .. MaxCode :
       /\ outPos + CountSize + k <= Capacity
       /\ buffer' = Put(outPos, CountBytes(k) \o Code(data, refPos, k))
       /\ outPos' = outPos + CountSize + k
       /\ outDiff' = outDiff + DiffAdded(k)
  /\ refPos' = refPos + n
  /\ Record("differential", data)
  /\ UNCHANGED <<kind, broken, measured, reader>>

\* The position has moved past the length when the encoder fails, and what it
\* wrote into the rest of the buffer until then is not known.
PushFails(n) ==
  /\ CanEncode(n)
  /\ buffer' = [p \in DOMAIN buffer |-> IF p < outPos THEN buffer[p] ELSE Unset]
  /\ outPos' = outPos + CountSize
  /\ broken' = TRUE
  /\ UNCHANGED <<kind, refPos, outDiff, measured, written, reader>>

-----------------------------------------------------------------------------
(* The deserializer                                                         *)

\* The caller passes any size; more than the buffer's makes no difference.
Open(refSize) ==
  /\ inSize = Null
  /\ inSize' \in 0 .. Capacity
  /\ inRefSize' = refSize
  /\ UNCHANGED <<kind, writer, inPos, inRefPos, inDiff, stuck, got>>

\* The record that the reader is at, and its size.
AtRecord(op) ==
  /\ inSize # Null
  /\ ~stuck
  /\ Len(got) < Len(written)
  /\ written[Len(got) + 1].op = op
Size == Len(written[Len(got) + 1].data)

InputShort(n) == inPos + n > inSize
InRefExceeded(n) == kind = "differential" /\ inRefPos + n > inRefSize

PopContiguous(skip) ==
  /\ AtRecord("contiguous")
  /\ ~InputShort(Size)
  /\ ~InRefExceeded(Size)
  /\ got' = Append(got, IF skip THEN Null ELSE Get(inPos, Size))
  /\ inPos' = inPos + Size
  /\ inRefPos' = inRefPos + RefMoves(Size)
  /\ UNCHANGED <<kind, writer, inSize, inRefSize, inDiff, stuck>>

FaultyInputEnds == inPos + CountSize > inSize
InputEnds == inPos + CountSize >= inSize

\* What the pop of a differential record makes of the bytes it finds: pairs of a
\* code length and a record; none if it fails.  The length is not compared with the
\* input's size: what the decoder is given may lie beyond it.
Decoded ==
  IF InRefExceeded(Size) THEN {}
  ELSE UNION {{k} \X Decode(inPos + CountSize, k, inRefPos, Size) : k \in CountAt(inPos)}

FaultyInRefMoved(n) == inRefPos
InRefMoved(n) == inRefPos + n

\* Given no place to put the record, a differential pop does nothing at all.
PopDifferential ==
  /\ AtRecord("differential")
  /\ ~InputEnds
  /\ \E kd \in Decoded :
       /\ got' = Append(got, kd[2])
       /\ inPos' = inPos + CountSize + kd[1]
       /\ inDiff' = inDiff + kd[1]
  /\ inRefPos' = InRefMoved(Size)
  /\ UNCHANGED <<kind, writer, inSize, inRefSize, stuck>>

\* The position has moved past the length when the reference turns out to be too
\* short, or the decoder fails.
PopFails ==
  /\ AtRecord("differential")
  /\ ~InputEnds
  /\ Decoded = {}
  /\ inPos' = inPos + CountSize
  /\ stuck' = TRUE
  /\ UNCHANGED <<kind, writer, inSize, inRefSize, inRefPos, inDiff, got>>

-----------------------------------------------------------------------------
Next ==
  \/ \E n \in Sizes :
       \/ \E data \in [1 .. n -> Bytes] \cup {Null} : PushContiguous(data, n)
       \/ \E data \in [1 .. n -> Bytes] : PushDifferential(data, n)
       \/ PushFails(n)
  \/ \E r \in RefSizes : Open(r)
  \/ \E skip \in BOOLEAN : PopContiguous(skip)
  \/ PopDifferential
  \/ PopFails

Spec == Init /\ [][Next]_vars

-----------------------------------------------------------------------------
CountCells == UNION {{CountBytes(k)[i] : i \in 1 .. CountSize} : k \in 1 .. MaxCode}
CodeCells  == [data : UNION {[1 .. n -> Bytes] : n \in Sizes}, ref : 0 .. RefSize,
               length : 1 .. MaxCode, at : 1 .. MaxCode]
Cells == Bytes \cup {Unset} \cup CountCells \cup CodeCells

TypeOK ==
  /\ kind \in {"contiguous", "differential"}
  /\ buffer \in [0 .. Capacity - 1 -> Cells]
  /\ outPos \in 0 .. Capacity
  /\ refPos \in 0 .. RefSize
  /\ outDiff \in 0 .. Capacity
  /\ measured \in 0 .. Capacity
  /\ inSize \in 0 .. Capacity \cup {Null}
  /\ inRefSize \in RefSizes \cup {0}
  /\ inPos \in Nat
  /\ inRefPos \in 0 .. RefSize
  /\ inDiff \in 0 .. Capacity
  /\ {broken, stuck} \subseteq BOOLEAN
  /\ \A i \in 1 .. Len(written) : written[i].op \in {"contiguous", "differential"}
  /\ Len(got) <= Len(written)

\* Where the serializer stood when it had pushed the first i records.
Ends(i) == IF i = 0 THEN <<0, 0, 0>> ELSE written[i].ends

\* The deserializer stands where the serializer stood: in the bytes, in the
\* reference, and in the count of differential bytes, after every record.  The two
\* reach each position by operations written independently of each other.
StayInStep == ~stuck => <<inPos, inRefPos, inDiff>> = Ends(Len(got))

\* What pop and popContiguous compare with the sizes they were given, and what the
\* decoder makes of the bytes, let the next record pass.
Passes ==
  IF written[Len(got) + 1].op = "contiguous"
  THEN ~InputShort(Size) /\ ~InRefExceeded(Size)
  ELSE ~InputEnds /\ Decoded # {}

\* The input ends inside the code of record i, not before it.
EndsInCode(i) ==
  /\ i > 0
  /\ written[i].op = "differential"
  /\ Ends(i - 1)[1] + CountSize < inSize
  /\ inSize < Ends(i)[1]

\* The reader never moves past the reference it was given, and past the input only
\* with the last record it pops, if the input ends inside the code of that one: pop
\* does not compare the length it finds with the input's size.  A record that input
\* and reference hold to its end is not refused.
InputBoundsPops ==
  inSize # Null =>
    /\ inRefPos <= inRefSize
    /\ inPos <= inSize \/ EndsInCode(Len(got))
    /\ LET i == Len(got) + 1
       IN  ~stuck /\ i <= Len(written) /\ Ends(i)[1] <= inSize /\ Ends(i)[2] <= inRefSize
             => Passes

\* The differential records.
Differential == {i \in 1 .. Len(written) : written[i].op = "differential"}

\* What a serializer without a buffer has measured is the size of the output but
\* for the differential records: those it ignores, their codes and their lengths.
SizeIsAccountedFor ==
  ~broken =>
    outPos = measured + outDiff + CountSize * Cardinality(Differential)

\* Both sides together are a stream of records, from which none is lost, changed
\* or exchanged for another, even if an encoder or a decoder fails later.
R == INSTANCE RecordStream WITH
       Records <- UNION {[1 .. n -> Bytes \cup {Unset}] : n \in Sizes},
       Skipped <- Null,
       written <- [i \in 1 .. Len(written) |-> written[i].data]
ImplementsRecordStream == R!Init /\ [][R!Next]_(R!vars)
=============================================================================
