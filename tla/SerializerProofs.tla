-------------------------- MODULE SerializerProofs --------------------------
(***************************************************************************)
(* The safety of Serializer for any records, any sizes of the buffers and  *)
(* of the length field, and any number of pushes; and that both sides      *)
(* together implement RecordStream.                                        *)
(***************************************************************************)
EXTENDS Serializer, SequenceTheorems, CountingLemmas

\* A record, as its owner sees it, and as the model remembers it.
Datum == UNION {[1 .. n -> Bytes \cup {Unset}] : n \in Sizes}
Entry == [op : {"contiguous", "differential"}, data : Datum, ends : Nat \X Nat \X Nat]

-----------------------------------------------------------------------------
(* The invariant that every step keeps.                                     *)

Typed ==
  /\ kind \in {"contiguous", "differential"}
  /\ buffer \in [0 .. Capacity - 1 -> Cells]
  /\ outPos \in 0 .. Capacity
  /\ refPos \in 0 .. RefSize
  /\ outDiff \in Nat
  /\ measured \in Nat
  /\ broken \in BOOLEAN
  /\ inSize \in 0 .. Capacity \cup {Null}
  /\ inRefSize \in RefSizes \cup {0}
  /\ inPos \in Nat
  /\ inRefPos \in 0 .. RefSize
  /\ inDiff \in 0 .. Capacity
  /\ stuck \in BOOLEAN
  /\ written \in Seq(Entry)
  /\ got \in Seq(Datum \cup {Null})
  /\ Len(got) <= Len(written)

\* Nothing was written beyond the position.
Blank == \A p \in outPos .. Capacity - 1 : buffer[p] = Unset

\* The serializer stands where the last record ends, or behind it once it is broken.
Standing ==
  LET e == Ends(Len(written))
  IN  /\ e[1] <= outPos /\ (~broken => e[1] = outPos)
      /\ refPos = e[2] /\ outDiff = e[3]
      /\ measured + outDiff <= outPos

EndsInside ==
  \A i \in 0 .. Len(written) : Ends(i) \in (0 .. outPos) \X (0 .. RefSize) \X (0 .. outDiff)

\* Record i is in the buffer, from where the record before it ends to where it ends.
PlainAt(i) ==
  LET w == written[i]
      e == Ends(i - 1)
  IN  w.op = "contiguous" =>
        /\ Ends(i) = <<e[1] + Len(w.data), e[2] + RefMoves(Len(w.data)), e[3]>>
        /\ \A j \in 1 .. Len(w.data) : buffer[e[1] + j - 1] = w.data[j]

CodedAt(i) ==
  LET w == written[i]
      e == Ends(i - 1)
  IN  w.op = "differential" =>
        /\ kind = "differential"
        /\ w.data \in [1 .. Len(w.data) -> Bytes]
        /\ \E k \in 1 .. MaxCode :
             /\ Ends(i) = <<e[1] + CountSize + k, e[2] + Len(w.data), e[3] + k>>
             /\ \A j \in 1 .. CountSize : buffer[e[1] + j - 1] = CountBytes(k)[j]
             /\ \A j \in 1 .. k : buffer[e[1] + CountSize + j - 1] = Code(w.data, e[2], k)[j]

LaidOut == \A i \in 1 .. Len(written) : PlainAt(i) /\ CodedAt(i)

\* The reader starts at the beginning, and leaves what it was given only by the code of
\* the last record it has popped.
ReaderInside ==
  /\ inSize = Null => inPos = 0 /\ inRefPos = 0
  /\ inRefPos <= inRefSize
  /\ inSize # Null => inPos <= inSize \/ EndsInCode(Len(got))

IInv == /\ Typed /\ Blank /\ Standing /\ EndsInside /\ LaidOut
        /\ StayInStep /\ ReaderInside /\ SizeIsAccountedFor

-----------------------------------------------------------------------------
(* What the parts of the invariant say.                                     *)

\* A datum is a sequence of its bytes.
LEMMA DatumIsASeq ==
  ASSUME NEW d \in Datum
  PROVE  /\ d \in Seq(Bytes \cup {Unset}) /\ Len(d) \in Nat /\ Len(d) \in Sizes
         /\ d \in [1 .. Len(d) -> Bytes \cup {Unset}]
<1>1. PICK n \in Sizes : d \in [1 .. n -> Bytes \cup {Unset}]
  BY DEF Datum
<1>2. n \in Nat
  BY SerializerAssumption
<1>3. d \in Seq(Bytes \cup {Unset}) /\ Len(d) = n
  BY <1>1, <1>2
<1> QED
  BY <1>1, <1>2, <1>3

\* A position that a record ends at is inside what the serializer has written.
LEMMA EndsAreInside ==
  ASSUME Typed, EndsInside, NEW i \in 0 .. Len(written)
  PROVE  /\ Ends(i) = <<Ends(i)[1], Ends(i)[2], Ends(i)[3]>>
         /\ Ends(i)[1] \in Nat /\ Ends(i)[1] <= outPos
         /\ Ends(i)[2] \in Nat /\ Ends(i)[2] <= RefSize
         /\ Ends(i)[3] \in Nat /\ Ends(i)[3] <= outDiff
<1> DEFINE e == Ends(i)
<1>1. e \in (0 .. outPos) \X (0 .. RefSize) \X (0 .. outDiff)
  BY DEF EndsInside
<1>2. outPos \in Nat /\ RefSize \in Nat /\ outDiff \in Nat
  BY SerializerAssumption DEF Typed
<1> HIDE DEF e
<1> QED
  BY <1>1, <1>2 DEF e

\* The counts are bounded by the position.
LEMMA CountsAreInside ==
  ASSUME Typed, Standing
  PROVE  outDiff \in 0 .. Capacity /\ measured \in 0 .. Capacity
<1>1. measured + outDiff <= outPos
  BY DEF Standing
<1>2. /\ measured \in Nat /\ outDiff \in Nat /\ outPos \in Nat /\ outPos <= Capacity
      /\ Capacity \in Nat
  BY SerializerAssumption DEF Typed
<1> QED
  BY <1>1, <1>2

\* What is remembered of a record is of its types.
LEMMA WrittenIs ==
  ASSUME Typed, NEW i \in 1 .. Len(written)
  PROVE  /\ written[i] \in Entry /\ written[i].data \in Datum
         /\ written[i].op \in {"contiguous", "differential"}
         /\ Len(written[i].data) \in Nat
         /\ i \in 0 .. Len(written) /\ i - 1 \in 0 .. Len(written)
         /\ Ends(i) = written[i].ends
<1>1. Len(written) \in Nat
  BY LenProperties DEF Typed
<1>2. i \in 0 .. Len(written) /\ i - 1 \in 0 .. Len(written) /\ i # 0
  BY <1>1
<1>3. written[i] \in Entry
  BY ElementOfSeq DEF Typed
<1>4. written[i].data \in Datum /\ written[i].op \in {"contiguous", "differential"}
  BY <1>3 DEF Entry
<1> QED
  BY <1>2, <1>3, <1>4, DatumIsASeq DEF Ends

\* One more record, and the ends of the others stay.
LEMMA EndsAppend ==
  ASSUME Typed, NEW w \in Entry, written' = Append(written, w)
  PROVE  /\ written' \in Seq(Entry) /\ Len(written) \in Nat /\ Len(written') = Len(written) + 1
         /\ \A i \in 1 .. Len(written) : written'[i] = written[i]
         /\ written'[Len(written) + 1] = w
         /\ \A i \in 0 .. Len(written) : Ends(i)' = Ends(i)
         /\ \A i \in Nat : i = Len(written) + 1 => Ends(i)' = w.ends
<1>1. /\ written' \in Seq(Entry) /\ Len(written') = Len(written) + 1
      /\ \A i \in 1 .. Len(written) : written'[i] = written[i]
      /\ written'[Len(written) + 1] = w
  BY AppendProperties DEF Typed
<1>2. Len(written) \in Nat
  BY LenProperties DEF Typed
<1>3. \A i \in 0 .. Len(written) : Ends(i)' = Ends(i)
  <2> TAKE i \in 0 .. Len(written)
  <2>1. i = 0 \/ i \in 1 .. Len(written)
    BY <1>2
  <2> QED
    BY <1>1, <2>1 DEF Ends
<1>4. \A i \in Nat : i = Len(written) + 1 => Ends(i)' = w.ends
  <2> TAKE i \in Nat
  <2> HAVE i = Len(written) + 1
  <2>1. i # 0
    BY <1>2
  <2> QED
    BY <1>1, <2>1 DEF Ends
<1> QED
  BY <1>1, <1>2, <1>3, <1>4

\* Bytes put at the position leave those before it, and come there in their order.
LEMMA PutProperties ==
  ASSUME Typed, Blank, NEW S, NEW s \in Seq(S), outPos + Len(s) <= Capacity
  PROVE  /\ \A q \in 0 .. outPos - 1 : Put(outPos, s)[q] = buffer[q]
         /\ \A j \in 1 .. Len(s) : Put(outPos, s)[outPos + j - 1] = s[j]
         /\ \A q \in outPos + Len(s) .. Capacity - 1 : Put(outPos, s)[q] = Unset
         /\ S \subseteq Cells => Put(outPos, s) \in [0 .. Capacity - 1 -> Cells]
<1>1. /\ Len(s) \in Nat /\ outPos \in Nat /\ outPos <= Capacity /\ Capacity \in Nat
      /\ \A j \in 1 .. Len(s) : s[j] \in S
  BY LenProperties, ElementOfSeq, SerializerAssumption DEF Typed
<1> DEFINE n == Len(s)
<1>2. Put(outPos, s) = [q \in 0 .. Capacity - 1 |->
                          IF q - outPos \in 0 .. n - 1 THEN s[q - outPos + 1] ELSE buffer[q]]
  BY DEF Put, Typed
<1> HIDE DEF n
<1>3. n \in Nat /\ outPos + n <= Capacity
  BY <1>1 DEF n
<1>4. \A q \in 0 .. outPos - 1 : Put(outPos, s)[q] = buffer[q]
  <2> TAKE q \in 0 .. outPos - 1
  <2>1. q \in 0 .. Capacity - 1 /\ q - outPos \notin 0 .. n - 1
    BY <1>1, <1>3
  <2> QED
    BY <1>2, <2>1
<1>5. \A j \in 1 .. n : Put(outPos, s)[outPos + j - 1] = s[j]
  <2> TAKE j \in 1 .. n
  <2> DEFINE q == outPos + j - 1
  <2>1. q \in 0 .. Capacity - 1 /\ q - outPos \in 0 .. n - 1 /\ q - outPos + 1 = j
    BY <1>1, <1>3
  <2> HIDE DEF q
  <2>2. Put(outPos, s)[q] = s[j]
    BY <1>2, <2>1
  <2> QED
    BY <2>2 DEF q
<1>6. \A q \in outPos + n .. Capacity - 1 : Put(outPos, s)[q] = Unset
  <2> TAKE q \in outPos + n .. Capacity - 1
  <2>1. q \in 0 .. Capacity - 1 /\ q - outPos \notin 0 .. n - 1 /\ q \in outPos .. Capacity - 1
    BY <1>1, <1>3
  <2> QED
    BY <1>2, <2>1 DEF Blank
<1>7. ASSUME S \subseteq Cells PROVE Put(outPos, s) \in [0 .. Capacity - 1 -> Cells]
  <2>1. ASSUME NEW q \in 0 .. Capacity - 1
        PROVE  (IF q - outPos \in 0 .. n - 1 THEN s[q - outPos + 1] ELSE buffer[q]) \in Cells
    <3>1. CASE q - outPos \in 0 .. n - 1
      <4>1. q - outPos + 1 \in 1 .. Len(s)
        BY <1>1, <3>1 DEF n
      <4> QED
        BY <1>1, <1>7, <3>1, <4>1
    <3>2. CASE q - outPos \notin 0 .. n - 1
      BY <3>2 DEF Typed
    <3> QED
      BY <3>1, <3>2
  <2> QED
    BY <1>2, <2>1
<1> QED
  BY <1>4, <1>5, <1>6, <1>7 DEF n

-----------------------------------------------------------------------------
(* A push, of either kind, and a failed one.                                *)

\* What a step leaves of the records in the buffer, if it only writes behind them.
LEMMA RecordStays ==
  ASSUME Typed, EndsInside, LaidOut, UNCHANGED kind,
         \A q \in 0 .. outPos - 1 : buffer'[q] = buffer[q],
         NEW i \in 1 .. Len(written), written'[i] = written[i],
         Ends(i)' = Ends(i), Ends(i - 1)' = Ends(i - 1)
  PROVE  PlainAt(i)' /\ CodedAt(i)'
<1> DEFINE d == written[i].data
           a == Ends(i - 1)[1]
           b == Ends(i - 1)[2]
           c == Ends(i - 1)[3]
<1>1. /\ Len(d) \in Nat /\ a \in Nat /\ Ends(i)[1] <= outPos /\ outPos \in Nat
      /\ CountSize \in Nat
  <2>1. i \in 0 .. Len(written) /\ i - 1 \in 0 .. Len(written) /\ Len(d) \in Nat
    BY WrittenIs
  <2>2. a \in Nat /\ Ends(i)[1] <= outPos
    BY <2>1, EndsAreInside
  <2> QED
    BY <2>1, <2>2, SerializerAssumption DEF Typed
<1>2. PlainAt(i) /\ CodedAt(i)
  BY DEF LaidOut
<1>3. ASSUME written[i].op = "contiguous"
      PROVE  /\ Ends(i) = <<a + Len(d), b + RefMoves(Len(d)), c>>
             /\ \A j \in 1 .. Len(d) : buffer'[a + j - 1] = d[j]
  <2>1. /\ Ends(i) = <<a + Len(d), b + RefMoves(Len(d)), c>>
        /\ \A j \in 1 .. Len(d) : buffer[a + j - 1] = d[j]
    BY <1>2, <1>3 DEF PlainAt
  <2>2. a + Len(d) <= outPos
    BY <1>1, <2>1
  <2> HIDE DEF a, d
  <2>3. ASSUME NEW j \in 1 .. Len(d) PROVE buffer'[a + j - 1] = buffer[a + j - 1]
    <3>1. a + j - 1 \in 0 .. outPos - 1
      BY <1>1, <2>2
    <3> QED
      BY <3>1
  <2> QED
    BY <2>1, <2>3
<1>4. PlainAt(i)'
  <2>1. RefMoves(Len(d))' = RefMoves(Len(d'))
    BY DEF RefMoves
  <2> QED
    BY <1>3 DEF PlainAt, RefMoves
<1>5. ASSUME written[i].op = "differential"
      PROVE  /\ kind = "differential" /\ d \in [1 .. Len(d) -> Bytes]
             /\ \E k \in 1 .. MaxCode :
                  /\ Ends(i) = <<a + CountSize + k, b + Len(d), c + k>>
                  /\ \A j \in 1 .. CountSize : buffer'[a + j - 1] = CountBytes(k)[j]
                  /\ \A j \in 1 .. k : buffer'[a + CountSize + j - 1] = Code(d, b, k)[j]
  <2>1. /\ kind = "differential" /\ d \in [1 .. Len(d) -> Bytes]
        /\ \E k \in 1 .. MaxCode :
             /\ Ends(i) = <<a + CountSize + k, b + Len(d), c + k>>
             /\ \A j \in 1 .. CountSize : buffer[a + j - 1] = CountBytes(k)[j]
             /\ \A j \in 1 .. k : buffer[a + CountSize + j - 1] = Code(d, b, k)[j]
    BY <1>2, <1>5 DEF CodedAt
  <2>2. PICK k \in 1 .. MaxCode :
          /\ Ends(i) = <<a + CountSize + k, b + Len(d), c + k>>
          /\ \A j \in 1 .. CountSize : buffer[a + j - 1] = CountBytes(k)[j]
          /\ \A j \in 1 .. k : buffer[a + CountSize + j - 1] = Code(d, b, k)[j]
    BY <2>1
  <2>3. k \in Nat /\ a + CountSize + k <= outPos
    BY <1>1, <2>2, SerializerAssumption
  <2> HIDE DEF a, b, d
  <2>4. ASSUME NEW j \in 1 .. CountSize PROVE buffer'[a + j - 1] = buffer[a + j - 1]
    <3>1. a + j - 1 \in 0 .. outPos - 1
      BY <1>1, <2>3
    <3> QED
      BY <3>1
  <2>5. ASSUME NEW j \in 1 .. k PROVE buffer'[a + CountSize + j - 1] = buffer[a + CountSize + j - 1]
    <3>1. a + CountSize + j - 1 \in 0 .. outPos - 1
      BY <1>1, <2>3
    <3> QED
      BY <3>1
  <2>6. \A j \in 1 .. CountSize : buffer'[a + j - 1] = CountBytes(k)[j]
    BY <2>2, <2>4
  <2>7. \A j \in 1 .. k : buffer'[a + CountSize + j - 1] = Code(d, b, k)[j]
    BY <2>2, <2>5
  <2> QED
    BY <2>1, <2>2, <2>6, <2>7
<1>6. CodedAt(i)'
  BY <1>5 DEF CodedAt
<1> QED
  BY <1>4, <1>6

\* A push that leaves one more record behind, its bytes from the old position to
\* the new one, keeps what does not count the records.
LEMMA PushKeeps ==
  ASSUME IInv, ~broken, NEW w \in Entry, written' = Append(written, w),
         w.ends = <<outPos', refPos', outDiff'>>,
         UNCHANGED <<kind, broken, reader>>,
         outPos' \in 0 .. Capacity, outPos <= outPos',
         refPos' \in 0 .. RefSize, refPos <= refPos',
         outDiff' \in Nat, outDiff <= outDiff',
         measured' \in Nat, measured' + outDiff' <= outPos',
         buffer' \in [0 .. Capacity - 1 -> Cells],
         \A q \in 0 .. outPos - 1 : buffer'[q] = buffer[q],
         \A q \in outPos' .. Capacity - 1 : buffer'[q] = Unset,
         \A i \in Nat : i = Len(written) + 1 => PlainAt(i)' /\ CodedAt(i)',
         SizeIsAccountedFor'
  PROVE  IInv'
<1>1. /\ written' \in Seq(Entry) /\ Len(written) \in Nat /\ Len(written') = Len(written) + 1
      /\ \A i \in 1 .. Len(written) : written'[i] = written[i]
      /\ written'[Len(written) + 1] = w
      /\ \A i \in 0 .. Len(written) : Ends(i)' = Ends(i)
      /\ \A i \in Nat : i = Len(written) + 1 => Ends(i)' = w.ends
  BY EndsAppend DEF IInv
<1>2. /\ outPos \in Nat /\ refPos \in Nat /\ outDiff \in Nat /\ Capacity \in Nat /\ RefSize \in Nat
      /\ outPos' \in Nat /\ refPos' \in Nat /\ outDiff' \in Nat
      /\ Len(got) \in Nat /\ Len(got) <= Len(written)
  BY SerializerAssumption, LenProperties DEF IInv, Typed
<1>3. Typed'
  <2>1. Len(got) <= Len(written')
    BY <1>1, <1>2
  <2> QED
    BY <1>1, <2>1 DEF IInv, Typed, reader
<1>4. Blank'
  BY DEF Blank
<1>5. Standing'
  <2>1. Ends(Len(written))' = w.ends
    BY <1>1 DEF Ends
  <2> QED
    BY <1>2, <2>1 DEF Standing
<1>6. EndsInside'
  <2> SUFFICES ASSUME NEW i \in 0 .. Len(written)'
               PROVE  Ends(i)' \in (0 .. outPos') \X (0 .. RefSize) \X (0 .. outDiff')
    BY DEF EndsInside
  <2>1. CASE i \in 0 .. Len(written)
    <3>1. /\ Ends(i)' = <<Ends(i)[1], Ends(i)[2], Ends(i)[3]>>
          /\ Ends(i)[1] \in 0 .. outPos' /\ Ends(i)[2] \in 0 .. RefSize /\ Ends(i)[3] \in 0 .. outDiff'
      <4>1. /\ Ends(i) = <<Ends(i)[1], Ends(i)[2], Ends(i)[3]>>
            /\ Ends(i)[1] \in Nat /\ Ends(i)[1] <= outPos
            /\ Ends(i)[2] \in Nat /\ Ends(i)[2] <= RefSize
            /\ Ends(i)[3] \in Nat /\ Ends(i)[3] <= outDiff
        BY <2>1, EndsAreInside DEF IInv
      <4>2. Ends(i)' = Ends(i)
        BY <1>1, <2>1
      <4> HIDE DEF Ends
      <4> QED
        BY <1>2, <4>1, <4>2, SMTT(30)
    <3> QED
      BY <3>1
  <2>2. CASE i \notin 0 .. Len(written)
    <3>1. i \in Nat /\ i = Len(written) + 1
      BY <1>1, <2>2
    <3>2. Ends(i)' = <<outPos', refPos', outDiff'>>
      BY <1>1, <3>1
    <3>3. outPos' \in 0 .. outPos' /\ refPos' \in 0 .. RefSize /\ outDiff' \in 0 .. outDiff'
      BY <1>2, <1>3 DEF Typed
    <3> QED
      BY <3>2, <3>3
  <2> QED
    BY <2>1, <2>2
<1>7. LaidOut'
  <2> SUFFICES ASSUME NEW i \in 1 .. Len(written)' PROVE PlainAt(i)' /\ CodedAt(i)'
    BY DEF LaidOut
  <2>1. CASE i \in 1 .. Len(written)
    <3>1. i \in 0 .. Len(written) /\ i - 1 \in 0 .. Len(written)
      BY <1>1, <2>1
    <3>2. Ends(i)' = Ends(i) /\ Ends(i - 1)' = Ends(i - 1) /\ written'[i] = written[i]
      BY <1>1, <2>1, <3>1
    <3> QED
      BY <2>1, <3>2, RecordStays DEF IInv
  <2>2. CASE i \notin 1 .. Len(written)
    <3>1. i \in Nat /\ i = Len(written) + 1
      BY <1>1, <2>2
    <3> QED
      BY <3>1
  <2> QED
    BY <2>1, <2>2
<1>8. StayInStep'
  <2>1. \A i \in 0 .. Len(written) : i = Len(got) => Ends(i)' = Ends(i)
    BY <1>1
  <2>2. got' = got /\ Len(got) \in 0 .. Len(written)
    BY <1>2 DEF reader
  <2>3. Ends(Len(got))' = Ends(Len(got))
    BY <1>1, <2>2 DEF Ends
  <2> QED
    BY <2>3 DEF StayInStep, reader, IInv
<1>9. ReaderInside'
  <2>1. ASSUME EndsInCode(Len(got)) PROVE EndsInCode(Len(got))'
    <3>1. Len(got) \in 1 .. Len(written)
      BY <1>2, <2>1 DEF EndsInCode
    <3>2. Len(got) \in 0 .. Len(written) /\ Len(got) - 1 \in 0 .. Len(written)
      BY <1>2, <3>1
    <3>3. /\ Ends(Len(got))' = Ends(Len(got)) /\ Ends(Len(got) - 1)' = Ends(Len(got) - 1)
          /\ written'[Len(got)] = written[Len(got)] /\ got' = got /\ inSize' = inSize
      <4>1. \A i, j \in 0 .. Len(written) :
              i = Len(got) /\ j = Len(got) - 1 => Ends(i)' = Ends(i) /\ Ends(j)' = Ends(j)
        BY <1>1
      <4>2. got' = got /\ inSize' = inSize
        BY DEF reader
      <4>3. Ends(Len(got))' = Ends(Len(got)) /\ Ends(Len(got) - 1)' = Ends(Len(got) - 1)
        BY <3>2, <4>1, <4>2 DEF Ends
      <4> QED
        BY <1>1, <3>1, <4>2, <4>3
    <3> QED
      BY <2>1, <3>3 DEF EndsInCode
  <2> QED
    BY <2>1 DEF IInv, ReaderInside, reader
<1> QED
  BY <1>3, <1>4, <1>5, <1>6, <1>7, <1>8, <1>9 DEF IInv

\* A push adds to the differential records or leaves them.
LEMMA DifferentialAppend ==
  ASSUME Typed, NEW w \in Entry, written' = Append(written, w)
  PROVE  /\ Cardinality(Differential) \in Nat
         /\ w.op = "contiguous" => Differential' = Differential
         /\ w.op = "differential" => Cardinality(Differential)' = Cardinality(Differential) + 1
<1>1. /\ Len(written) \in Nat /\ Len(written') = Len(written) + 1
      /\ \A i \in 1 .. Len(written) : written'[i] = written[i]
      /\ written'[Len(written) + 1] = w
  BY EndsAppend
<1> DEFINE n == Len(written)
<1>2. IsFiniteSet(Differential) /\ n + 1 \notin Differential
  <2>1. IsFiniteSet(1 .. n) /\ Differential \subseteq 1 .. n
    BY <1>1, FS_Interval DEF Differential
  <2>2. n + 1 \notin 1 .. n
    BY <1>1
  <2> QED
    BY <2>1, <2>2, FS_Subset
<1>3. w.op = "contiguous" => Differential' = Differential
  BY <1>1 DEF Differential
<1>4. w.op = "differential" => Differential' = Differential \cup {n + 1}
  BY <1>1 DEF Differential
<1> HIDE DEF n
<1> QED
  BY <1>2, <1>3, <1>4, FS_CardinalityType, FS_AddElement

\* Every operation keeps every part of the invariant.
LEMMA PushContiguousKeeps ==
  ASSUME IInv, NEW n \in Sizes, NEW data \in [1 .. n -> Bytes] \cup {Null}, PushContiguous(data, n)
  PROVE  IInv' /\ \E w \in Entry : written' = Append(written, w)
<1> DEFINE d == IF data = Null THEN Get(outPos, n) ELSE data
           w == [op |-> "contiguous", data |-> d, ends |-> <<outPos', refPos', outDiff'>>]
<1>1. /\ n \in Nat /\ outPos \in Nat /\ refPos \in Nat /\ outDiff \in Nat /\ measured \in Nat
      /\ Capacity \in Nat /\ RefSize \in Nat /\ outPos <= Capacity /\ refPos <= RefSize
      /\ kind \in {"contiguous", "differential"}
      /\ buffer \in [0 .. Capacity - 1 -> Cells]
  BY SerializerAssumption DEF IInv, Typed
<1>2. /\ ~broken /\ outPos + n <= Capacity /\ (kind = "differential" => refPos + n <= RefSize)
      /\ outPos' = outPos + n /\ refPos' = refPos + RefMoves(n) /\ measured' = measured + n
      /\ outDiff' = outDiff /\ broken' = broken /\ kind' = kind /\ UNCHANGED reader
      /\ buffer' = Store(data, n)
      /\ written' = Append(written, w)
  BY <1>1 DEF PushContiguous, OutputFull, RefExceeded, Record
<1>3. /\ Standing /\ Typed /\ Blank /\ SizeIsAccountedFor /\ measured + outDiff <= outPos
      /\ Ends(Len(written)) = <<outPos, refPos, outDiff>>
  <2>1. Ends(Len(written))[1] = outPos /\ Ends(Len(written))[2] = refPos /\ Ends(Len(written))[3] = outDiff
        /\ measured + outDiff <= outPos
    BY <1>2 DEF IInv, Standing
  <2>2. Len(written) \in 0 .. Len(written)
    BY LenProperties DEF IInv, Typed
  <2>3. Ends(Len(written)) = <<Ends(Len(written))[1], Ends(Len(written))[2], Ends(Len(written))[3]>>
    BY <2>2 DEF IInv, EndsInside
  <2> HIDE DEF Ends
  <2> QED
    BY <2>1, <2>3 DEF IInv
<1>4. RefMoves(n) \in Nat /\ refPos + RefMoves(n) \in 0 .. RefSize
  BY <1>1, <1>2 DEF RefMoves
<1>5. /\ d \in [1 .. n -> Bytes \cup {Unset}] /\ d \in Seq(Bytes \cup {Unset}) /\ Len(d) = n /\ d \in Datum
      /\ buffer' \in [0 .. Capacity - 1 -> Cells]
      /\ \A q \in 0 .. outPos - 1 : buffer'[q] = buffer[q]
      /\ \A q \in outPos + n .. Capacity - 1 : buffer'[q] = Unset
      /\ \A j \in 1 .. n : buffer'[outPos + j - 1] = d[j]
  <2>1. CASE data = Null
    <3>1. buffer' = buffer /\ d = [i \in 1 .. n |-> buffer[outPos + i - 1]]
      BY <1>2, <2>1 DEF Store, Get
    <3>2. \A j \in 1 .. n : outPos + j - 1 \in outPos .. Capacity - 1
      BY <1>1, <1>2
    <3>3. \A j \in 1 .. n : buffer[outPos + j - 1] = Unset
      BY <1>3, <3>2 DEF Blank
    <3> HIDE DEF d
    <3>4. d \in [1 .. n -> Bytes \cup {Unset}]
      BY <3>1, <3>3
    <3>5. d \in Seq(Bytes \cup {Unset}) /\ Len(d) = n /\ d \in Datum
      BY <1>1, <3>4 DEF Datum
    <3>6. \A q \in outPos + n .. Capacity - 1 : q \in outPos .. Capacity - 1
      BY <1>1
    <3> QED
      BY <1>1, <1>3, <3>1, <3>4, <3>5, <3>6 DEF Blank
  <2>2. CASE data # Null
    <3>1. d = data /\ d \in [1 .. n -> Bytes] /\ buffer' = Put(outPos, d)
      BY <1>2, <2>2 DEF Store
    <3> HIDE DEF d
    <3>2. d \in Seq(Bytes) /\ Len(d) = n /\ d \in [1 .. n -> Bytes \cup {Unset}]
      BY <1>1, <3>1
    <3>3. d \in Seq(Bytes \cup {Unset}) /\ d \in Datum
      BY <1>1, <3>2 DEF Datum
    <3>4. Bytes \subseteq Cells
      BY DEF Cells
    <3> QED
      BY <1>2, <1>3, <3>1, <3>2, <3>3, <3>4, PutProperties
  <2> QED
    BY <2>1, <2>2
<1> HIDE DEF d
<1>6. w \in Entry /\ w.op = "contiguous" /\ w.data = d /\ w.ends = <<outPos', refPos', outDiff'>>
  BY <1>1, <1>2, <1>4, <1>5 DEF Entry
<1> HIDE DEF w
<1>7. ASSUME NEW i \in Nat, i = Len(written) + 1
      PROVE  PlainAt(i)' /\ CodedAt(i)'
  <2>1. /\ written'[i] = w /\ Ends(i)' = w.ends /\ Ends(i - 1)' = Ends(Len(written))
    <3>1. /\ Len(written) \in Nat /\ written'[Len(written) + 1] = w
          /\ \A m \in 0 .. Len(written) : Ends(m)' = Ends(m)
          /\ \A m \in Nat : m = Len(written) + 1 => Ends(m)' = w.ends
      BY <1>2, <1>3, <1>6, EndsAppend
    <3>2. i - 1 = Len(written) /\ i - 1 \in 0 .. Len(written)
      BY <1>7, <3>1
    <3> QED
      BY <1>7, <3>1, <3>2
  <2>2. Ends(i - 1)' = <<outPos, refPos, outDiff>> /\ Ends(i)' = <<outPos + n, refPos + RefMoves(n), outDiff>>
    BY <1>2, <1>3, <1>6, <2>1
  <2>3. RefMoves(Len(d)) = IF kind' = "differential" THEN Len(d) ELSE 0
    BY <1>2 DEF RefMoves
  <2> QED
    BY <1>5, <1>6, <2>1, <2>2, <2>3 DEF PlainAt, CodedAt, RefMoves
<1>8. SizeIsAccountedFor'
  <2>1. Differential' = Differential /\ Cardinality(Differential) \in Nat
    BY <1>2, <1>3, <1>6, DifferentialAppend
  <2> DEFINE m == CountSize * Cardinality(Differential)
  <2>2. outPos = measured + outDiff + m
    BY <1>2, <1>3 DEF SizeIsAccountedFor
  <2>3. m \in Nat
    BY <2>1, SerializerAssumption
  <2> HIDE DEF m
  <2>4. outPos' = measured' + outDiff' + m
    BY <1>1, <1>2, <2>2, <2>3
  <2> QED
    BY <2>1, <2>4 DEF SizeIsAccountedFor, m
<1>9. /\ outPos' \in 0 .. Capacity /\ outPos <= outPos'
      /\ refPos' \in 0 .. RefSize /\ refPos <= refPos'
      /\ outDiff' \in Nat /\ outDiff <= outDiff'
      /\ measured' \in Nat /\ measured' + outDiff' <= outPos'
  BY <1>1, <1>2, <1>3, <1>4
<1>10. IInv'
  BY <1>2, <1>5, <1>6, <1>7, <1>8, <1>9, PushKeeps
<1> QED
  BY <1>2, <1>6, <1>10

\* The length and the code of a record are as long as they say, and fit the buffer.
LEMMA CodedProperties ==
  ASSUME NEW k \in 1 .. MaxCode, NEW r \in 0 .. RefSize, NEW n \in Sizes, NEW d \in [1 .. n -> Bytes]
  PROVE  LET s == CountBytes(k) \o Code(d, r, k)
         IN  /\ s \in Seq(Cells) /\ Len(s) = CountSize + k
             /\ \A j \in 1 .. CountSize : s[j] = CountBytes(k)[j]
             /\ \A j \in 1 .. k : s[CountSize + j] = Code(d, r, k)[j]
<1> DEFINE c == CountBytes(k)
           e == Code(d, r, k)
<1>1. CountSize \in Nat /\ k \in Nat /\ k <= MaxCode /\ MaxCode \in Nat
  BY SerializerAssumption
<1>2. c \in Seq(Cells) /\ Len(c) = CountSize
  <2>1. ASSUME NEW i \in 1 .. CountSize PROVE CountBytes(k)[i] \in Cells
    <3>1. CountBytes(k)[i] \in {CountBytes(k)[j] : j \in 1 .. CountSize}
      OBVIOUS
    <3>2. CountBytes(k)[i] \in CountCells
      BY <3>1 DEF CountCells
    <3> QED
      BY <3>2 DEF Cells
  <2>2. c = [i \in 1 .. CountSize |-> [count |-> k, at |-> i]]
    BY DEF CountBytes
  <2>3. \A i \in 1 .. CountSize : [count |-> k, at |-> i] \in Cells
    BY <2>1, <2>2
  <2> HIDE DEF c
  <2> QED
    BY <1>1, <2>2, <2>3
<1>3. e \in Seq(Cells) /\ Len(e) = k
  <2>1. \A i \in 1 .. k : i \in 1 .. MaxCode
    BY <1>1
  <2>2. e = [i \in 1 .. k |-> [data |-> d, ref |-> r, length |-> k, at |-> i]]
    BY DEF Code
  <2>3. \A i \in 1 .. k : [data |-> d, ref |-> r, length |-> k, at |-> i] \in Cells
    <3>1. d \in UNION {[1 .. m -> Bytes] : m \in Sizes}
      OBVIOUS
    <3>2. ASSUME NEW i \in 1 .. k PROVE [data |-> d, ref |-> r, length |-> k, at |-> i] \in CodeCells
      BY <2>1, <3>1 DEF CodeCells
    <3> QED
      BY <3>2 DEF Cells
  <2> HIDE DEF e
  <2> QED
    BY <1>1, <2>2, <2>3
<1> HIDE DEF c, e
<1>4. /\ c \o e \in Seq(Cells) /\ Len(c \o e) = Len(c) + Len(e)
      /\ \A i \in 1 .. Len(c) + Len(e) : (c \o e)[i] = IF i <= Len(c) THEN c[i] ELSE e[i - Len(c)]
  BY <1>2, <1>3, ConcatProperties
<1> DEFINE s == c \o e
<1>5. /\ s \in Seq(Cells) /\ Len(s) = CountSize + k
      /\ \A i \in 1 .. CountSize + k : s[i] = IF i <= CountSize THEN c[i] ELSE e[i - CountSize]
  BY <1>2, <1>3, <1>4
<1> HIDE DEF s
<1>6. \A j \in 1 .. CountSize : s[j] = c[j]
  BY <1>1, <1>5
<1>7. ASSUME NEW j \in 1 .. k PROVE s[CountSize + j] = e[j]
  <2> DEFINE q == CountSize + j
  <2>1. q \in 1 .. CountSize + k /\ ~(q <= CountSize) /\ q - CountSize = j
    BY <1>1
  <2> HIDE DEF q
  <2>2. s[q] = e[j]
    BY <1>5, <2>1
  <2> QED
    BY <2>2 DEF q
<1> QED
  BY <1>5, <1>6, <1>7 DEF s, c, e

LEMMA PushDifferentialKeeps ==
  ASSUME IInv, NEW n \in Sizes, NEW d \in [1 .. n -> Bytes], PushDifferential(d, n)
  PROVE  IInv' /\ \E w \in Entry : written' = Append(written, w)
<1> DEFINE w == [op |-> "differential", data |-> d, ends |-> <<outPos', refPos', outDiff'>>]
<1>1. /\ n \in Nat /\ outPos \in Nat /\ refPos \in Nat /\ outDiff \in Nat /\ measured \in Nat
      /\ Capacity \in Nat /\ RefSize \in Nat /\ CountSize \in Nat /\ MaxCode \in Nat
      /\ outPos <= Capacity /\ refPos <= RefSize /\ refPos \in 0 .. RefSize
  BY SerializerAssumption DEF IInv, Typed
<1>2. PICK k \in 1 .. MaxCode :
        /\ outPos + CountSize + k <= Capacity
        /\ buffer' = Put(outPos, CountBytes(k) \o Code(d, refPos, k))
        /\ outPos' = outPos + CountSize + k
        /\ outDiff' = outDiff + k
  BY DEF PushDifferential, DiffAdded
<1>3. /\ ~broken /\ kind = "differential" /\ refPos + n <= RefSize
      /\ refPos' = refPos + n /\ measured' = measured /\ broken' = broken /\ kind' = kind
      /\ UNCHANGED reader
      /\ written' = Append(written, w)
  <2>1. ~broken /\ kind = "differential" /\ refPos + n <= RefSize
    BY <1>1 DEF PushDifferential, CanEncode, RefExceeded
  <2>2. written' = Append(written, w)
    BY DEF PushDifferential, Record
  <2> QED
    BY <2>1, <2>2 DEF PushDifferential
<1>4. /\ Standing /\ Typed /\ Blank /\ SizeIsAccountedFor /\ measured + outDiff <= outPos
      /\ Ends(Len(written)) = <<outPos, refPos, outDiff>>
  <2>1. Ends(Len(written))[1] = outPos /\ Ends(Len(written))[2] = refPos /\ Ends(Len(written))[3] = outDiff
        /\ measured + outDiff <= outPos
    BY <1>3 DEF IInv, Standing
  <2>2. Len(written) \in 0 .. Len(written)
    BY LenProperties DEF IInv, Typed
  <2>3. Ends(Len(written)) = <<Ends(Len(written))[1], Ends(Len(written))[2], Ends(Len(written))[3]>>
    BY <2>2 DEF IInv, EndsInside
  <2> HIDE DEF Ends
  <2> QED
    BY <2>1, <2>3 DEF IInv
<1>5. /\ d \in Seq(Bytes) /\ Len(d) = n /\ d \in [1 .. n -> Bytes \cup {Unset}] /\ d \in Datum
  <2>1. d \in Seq(Bytes) /\ Len(d) = n /\ d \in [1 .. n -> Bytes \cup {Unset}]
    BY <1>1
  <2> QED
    BY <2>1 DEF Datum
<1> DEFINE s == CountBytes(k) \o Code(d, refPos, k)
<1>6. /\ s \in Seq(Cells) /\ Len(s) = CountSize + k
      /\ \A j \in 1 .. CountSize : s[j] = CountBytes(k)[j]
      /\ \A j \in 1 .. k : s[CountSize + j] = Code(d, refPos, k)[j]
  BY <1>1, CodedProperties
<1>7. buffer' = Put(outPos, s)
  BY <1>2
<1> HIDE DEF s
<1>8. /\ k \in Nat /\ outPos + Len(s) <= Capacity /\ outPos + Len(s) = outPos' /\ outPos' <= Capacity
  BY <1>1, <1>2, <1>6, SMTT(30)
<1>9. /\ buffer' \in [0 .. Capacity - 1 -> Cells]
      /\ \A q \in 0 .. outPos - 1 : buffer'[q] = buffer[q]
      /\ \A q \in outPos' .. Capacity - 1 : buffer'[q] = Unset
      /\ \A j \in 1 .. Len(s) : buffer'[outPos + j - 1] = s[j]
  BY <1>4, <1>6, <1>7, <1>8, PutProperties
<1>10. /\ \A j \in 1 .. CountSize : buffer'[outPos + j - 1] = CountBytes(k)[j]
       /\ \A j \in 1 .. k : buffer'[outPos + CountSize + j - 1] = Code(d, refPos, k)[j]
  <2>1. ASSUME NEW j \in 1 .. CountSize PROVE buffer'[outPos + j - 1] = CountBytes(k)[j]
    <3>1. j \in 1 .. Len(s)
      BY <1>1, <1>6, <1>8
    <3> QED
      BY <1>6, <1>9, <3>1
  <2>2. ASSUME NEW j \in 1 .. k PROVE buffer'[outPos + CountSize + j - 1] = Code(d, refPos, k)[j]
    <3>1. /\ CountSize + j \in 1 .. Len(s)
          /\ outPos + CountSize + j - 1 = outPos + (CountSize + j) - 1
      BY <1>1, <1>6, <1>8
    <3>2. buffer'[outPos + (CountSize + j) - 1] = s[CountSize + j]
      BY <1>9, <3>1
    <3> QED
      BY <1>6, <3>1, <3>2
  <2> QED
    BY <2>1, <2>2
<1>11. w \in Entry /\ w.op = "differential" /\ w.data = d /\ w.ends = <<outPos', refPos', outDiff'>>
  BY <1>1, <1>2, <1>3, <1>5, <1>8 DEF Entry
<1> HIDE DEF w
<1>12. ASSUME NEW i \in Nat, i = Len(written) + 1
       PROVE  PlainAt(i)' /\ CodedAt(i)'
  <2>1. /\ written'[i] = w /\ Ends(i)' = w.ends /\ Ends(i - 1)' = Ends(Len(written))
    <3>1. /\ Len(written) \in Nat /\ written'[Len(written) + 1] = w
          /\ \A m \in 0 .. Len(written) : Ends(m)' = Ends(m)
          /\ \A m \in Nat : m = Len(written) + 1 => Ends(m)' = w.ends
      BY <1>3, <1>4, <1>11, EndsAppend
    <3>2. i - 1 = Len(written) /\ i - 1 \in 0 .. Len(written)
      BY <1>12, <3>1
    <3> QED
      BY <1>12, <3>1, <3>2
  <2>2. /\ Ends(i - 1)' = <<outPos, refPos, outDiff>>
        /\ Ends(i)' = <<outPos + CountSize + k, refPos + Len(d), outDiff + k>>
    BY <1>2, <1>3, <1>4, <1>5, <1>11, <2>1
  <2>3. CodedAt(i)'
    <3>1. /\ written'[i].op = "differential" /\ written'[i].data = d /\ kind' = "differential"
          /\ d \in [1 .. Len(d) -> Bytes]
          /\ Ends(i - 1)'[1] = outPos /\ Ends(i - 1)'[2] = refPos /\ Ends(i - 1)'[3] = outDiff
      BY <1>3, <1>5, <1>11, <2>1, <2>2
    <3>2. /\ \A j \in 1 .. CountSize : buffer'[Ends(i - 1)'[1] + j - 1] = CountBytes(k)[j]
          /\ \A j \in 1 .. k : buffer'[Ends(i - 1)'[1] + CountSize + j - 1] = Code(d, Ends(i - 1)'[2], k)[j]
          /\ Ends(i)' = <<Ends(i - 1)'[1] + CountSize + k, Ends(i - 1)'[2] + Len(d), Ends(i - 1)'[3] + k>>
      BY <1>10, <2>2, <3>1
    <3> HIDE DEF Ends
    <3> QED
      BY <3>1, <3>2 DEF CodedAt
  <2>4. PlainAt(i)'
    BY <1>11, <2>1 DEF PlainAt
  <2> QED
    BY <2>3, <2>4
<1>13. SizeIsAccountedFor'
  <2>1. /\ Cardinality(Differential)' = Cardinality(Differential) + 1
        /\ Cardinality(Differential) \in Nat
    BY <1>3, <1>4, <1>11, DifferentialAppend
  <2> DEFINE c == Cardinality(Differential)
             m == CountSize * c
  <2>2. outPos = measured + outDiff + m
    BY <1>3, <1>4 DEF SizeIsAccountedFor
  <2>3. m \in Nat /\ CountSize * (c + 1) = m + CountSize
    <3> HIDE DEF c
    <3> QED
      BY <1>1, <2>1 DEF c
  <2> HIDE DEF m
  <2>4. outPos' = measured' + outDiff' + (m + CountSize)
    BY <1>1, <1>2, <1>3, <1>8, <2>2, <2>3
  <2> QED
    BY <2>1, <2>3, <2>4 DEF SizeIsAccountedFor
<1>14. /\ outPos' \in 0 .. Capacity /\ outPos <= outPos'
       /\ refPos' \in 0 .. RefSize /\ refPos <= refPos'
       /\ outDiff' \in Nat /\ outDiff <= outDiff'
       /\ measured' \in Nat /\ measured' + outDiff' <= outPos'
  BY <1>1, <1>2, <1>3, <1>4, <1>8
<1>15. IInv'
  BY <1>3, <1>9, <1>11, <1>12, <1>13, <1>14, PushKeeps
<1> QED
  BY <1>3, <1>11, <1>15

\* An encoder that fails leaves the records, and only the position has moved.
LEMMA PushFailsKeeps ==
  ASSUME IInv, NEW n \in Sizes, PushFails(n)
  PROVE  IInv'
<1>1. /\ n \in Nat /\ outPos \in Nat /\ Capacity \in Nat /\ CountSize \in Nat /\ outPos <= Capacity
      /\ measured \in Nat /\ outDiff \in Nat
  BY SerializerAssumption DEF IInv, Typed
<1>2. outPos + CountSize < Capacity /\ ~broken
  BY <1>1 DEF PushFails, CanEncode
<1>3. /\ buffer' = [p \in 0 .. Capacity - 1 |-> IF p < outPos THEN buffer[p] ELSE Unset]
      /\ outPos' = outPos + CountSize /\ broken' = TRUE
      /\ UNCHANGED <<kind, refPos, outDiff, measured, written, reader>>
  BY DEF PushFails, IInv, Typed
<1>4. outPos' \in 0 .. Capacity /\ outPos' \in Nat /\ outPos <= outPos'
  BY <1>1, <1>2, <1>3
<1>5. \A i : Ends(i)' = Ends(i)
  BY <1>3 DEF Ends
<1>6. Typed'
  <2>1. \A p \in 0 .. Capacity - 1 : (IF p < outPos THEN buffer[p] ELSE Unset) \in Cells
    BY DEF IInv, Typed, Cells
  <2>2. buffer' \in [0 .. Capacity - 1 -> Cells]
    BY <1>3, <2>1
  <2> QED
    BY <1>3, <1>4, <2>2 DEF IInv, Typed, reader
<1>7. Blank'
  BY <1>1, <1>3, <1>4 DEF Blank
<1>8. Standing'
  <2>1. Standing /\ Len(written) \in 0 .. Len(written)
    BY LenProperties DEF IInv, Typed
  <2>2. Ends(Len(written))[1] \in Nat
    BY <2>1, EndsAreInside DEF IInv
  <2>3. Ends(Len(written))' = Ends(Len(written))
    BY <1>3, <1>5 DEF Ends
  <2> QED
    BY <1>1, <1>3, <1>4, <2>1, <2>2, <2>3, SMTT(30) DEF Standing
<1>9. EndsInside'
  <2>1. ASSUME NEW i \in 0 .. Len(written)
        PROVE  Ends(i)' \in (0 .. outPos') \X (0 .. RefSize) \X (0 .. outDiff')
    <3>1. /\ Ends(i) = <<Ends(i)[1], Ends(i)[2], Ends(i)[3]>>
          /\ Ends(i)[1] \in Nat /\ Ends(i)[1] <= outPos
          /\ Ends(i)[2] \in Nat /\ Ends(i)[2] <= RefSize
          /\ Ends(i)[3] \in Nat /\ Ends(i)[3] <= outDiff
      BY EndsAreInside DEF IInv
    <3>2. Ends(i)[1] \in 0 .. outPos' /\ Ends(i)[2] \in 0 .. RefSize /\ Ends(i)[3] \in 0 .. outDiff'
      BY <1>1, <1>3, <1>4, <3>1, SerializerAssumption, SMTT(30)
    <3> QED
      BY <1>5, <3>1, <3>2
  <2> QED
    BY <1>3, <2>1 DEF EndsInside
<1>10. LaidOut'
  <2>1. \A q \in 0 .. outPos - 1 : buffer'[q] = buffer[q]
    BY <1>1, <1>2, <1>3
  <2>2. ASSUME NEW i \in 1 .. Len(written) PROVE PlainAt(i)' /\ CodedAt(i)'
    BY <1>3, <1>5, <2>1, RecordStays DEF IInv
  <2> QED
    BY <1>3, <2>2 DEF LaidOut
<1>11. StayInStep'
  <2>1. Ends(Len(got))' = Ends(Len(got))
    BY <1>3, <1>5 DEF Ends, reader
  <2> QED
    BY <1>3, <2>1 DEF IInv, StayInStep, reader
<1>12. ReaderInside'
  <2>1. EndsInCode(Len(got))' <=> EndsInCode(Len(got))
    BY <1>3 DEF EndsInCode, Ends, reader
  <2> QED
    BY <1>3, <2>1 DEF IInv, ReaderInside, reader
<1>13. SizeIsAccountedFor'
  BY <1>3 DEF SizeIsAccountedFor
<1> QED
  BY <1>6, <1>7, <1>8, <1>9, <1>10, <1>11, <1>12, <1>13 DEF IInv

-----------------------------------------------------------------------------
(* The deserializer.                                                        *)

\* The parts of the invariant that only look at the serializer.
LEMMA WriterStays ==
  ASSUME IInv, UNCHANGED <<kind, writer>>
  PROVE  /\ Blank' /\ Standing' /\ EndsInside' /\ LaidOut' /\ SizeIsAccountedFor'
         /\ \A i : Ends(i)' = Ends(i)
         /\ UNCHANGED inSize => \A i : EndsInCode(i)' <=> EndsInCode(i)
<1>1. UNCHANGED <<kind, buffer, outPos, refPos, outDiff, broken, measured, written>>
  BY DEF writer
<1>2. \A i : Ends(i)' = Ends(i)
  BY <1>1 DEF Ends
<1>3. Blank'
  BY <1>1 DEF IInv, Blank
<1>4. Standing'
  <2>1. Ends(Len(written))' = Ends(Len(written))
    BY <1>1 DEF Ends
  <2> QED
    BY <1>1, <2>1 DEF IInv, Standing
<1>5. EndsInside'
  BY <1>1, <1>2 DEF IInv, EndsInside
<1>6. LaidOut'
  <2>1. ASSUME NEW i \in 1 .. Len(written) PROVE PlainAt(i)' /\ CodedAt(i)'
    BY <1>1, <1>2, RecordStays DEF IInv
  <2> QED
    BY <1>1, <2>1 DEF LaidOut
<1>7. SizeIsAccountedFor'
  BY <1>1 DEF IInv, SizeIsAccountedFor, Differential
<1>8. UNCHANGED inSize => \A i : EndsInCode(i)' <=> EndsInCode(i)
  BY <1>1 DEF EndsInCode, Ends
<1> QED
  BY <1>2, <1>3, <1>4, <1>5, <1>6, <1>7, <1>8

LEMMA OpenKeeps ==
  ASSUME IInv, NEW r \in RefSizes, Open(r)
  PROVE  IInv'
<1>1. /\ Blank' /\ Standing' /\ EndsInside' /\ LaidOut' /\ SizeIsAccountedFor'
      /\ \A i : Ends(i)' = Ends(i)
  BY WriterStays DEF Open
<1>2. inPos \in Nat /\ Capacity \in Nat /\ r \in Nat
  BY SerializerAssumption DEF IInv, Typed
<1>3. /\ inSize = Null /\ inSize' \in 0 .. Capacity /\ inRefSize' = r
      /\ UNCHANGED <<kind, writer, inPos, inRefPos, inDiff, stuck, got>>
  BY DEF Open
<1>4. Typed'
  BY <1>3 DEF IInv, Typed, writer
<1>5. StayInStep'
  <2>1. Ends(Len(got))' = Ends(Len(got))
    BY <1>3 DEF Ends, writer
  <2> QED
    BY <1>3, <2>1 DEF IInv, StayInStep
<1>6. ReaderInside'
  <2>1. inPos = 0 /\ inRefPos = 0
    BY <1>3 DEF IInv, ReaderInside
  <2>2. 0 <= r /\ 0 <= inSize'
    BY <1>2, <1>3
  <2> QED
    BY <1>3, <2>1, <2>2 DEF ReaderInside
<1> QED
  BY <1>1, <1>4, <1>5, <1>6 DEF IInv

\* The record the deserializer is at.
LEMMA NextRecord ==
  ASSUME IInv, ~stuck, NEW i, i = Len(got) + 1, Len(got) < Len(written)
  PROVE  /\ i \in 1 .. Len(written) /\ Ends(i - 1) = <<inPos, inRefPos, inDiff>>
         /\ Size = Len(written[i].data) /\ Size \in Nat /\ Size \in Sizes
         /\ written[i].data \in Datum
<1>1. Len(got) \in Nat /\ Len(written) \in Nat
  BY LenProperties DEF IInv, Typed
<1>2. i \in 1 .. Len(written) /\ i - 1 = Len(got)
  BY <1>1
<1>3. Ends(i - 1) = <<inPos, inRefPos, inDiff>>
  BY <1>2 DEF IInv, StayInStep
<1>4. written[i].data \in Datum
  BY <1>2, WrittenIs DEF IInv
<1> QED
  BY <1>2, <1>3, <1>4, DatumIsASeq DEF Size

\* What a contiguous record leaves in the buffer is what it is.
LEMMA PlainRecord ==
  ASSUME IInv, ~stuck, NEW i, i = Len(got) + 1, Len(got) < Len(written),
         written[i].op = "contiguous"
  PROVE  /\ Ends(i) = <<inPos + Size, inRefPos + RefMoves(Size), inDiff>>
         /\ Get(inPos, Size) = written[i].data
<1>1. /\ i \in 1 .. Len(written) /\ Ends(i - 1) = <<inPos, inRefPos, inDiff>>
      /\ Size = Len(written[i].data) /\ written[i].data \in Datum
  BY NextRecord
<1> DEFINE d == written[i].data
<1>2. /\ Ends(i) = <<Ends(i - 1)[1] + Len(d), Ends(i - 1)[2] + RefMoves(Len(d)), Ends(i - 1)[3]>>
      /\ \A j \in 1 .. Len(d) : buffer[Ends(i - 1)[1] + j - 1] = d[j]
  BY <1>1 DEF IInv, LaidOut, PlainAt
<1>3. \A j \in 1 .. Len(d) : buffer[inPos + j - 1] = d[j]
  BY <1>1, <1>2
<1>4. d \in [1 .. Len(d) -> Bytes \cup {Unset}]
  BY <1>1, DatumIsASeq
<1> HIDE DEF d
<1>5. [j \in 1 .. Len(d) |-> buffer[inPos + j - 1]] = d
  BY <1>3, <1>4
<1>6. Size = Len(d)
  BY <1>1 DEF d
<1>7. Get(inPos, Size) = d
  BY <1>5, <1>6 DEF Get
<1>8. Ends(i) = <<inPos + Size, inRefPos + RefMoves(Size), inDiff>>
  BY <1>1, <1>2, <1>6
<1> QED
  BY <1>7, <1>8 DEF d

\* The code of a record at its place decodes to that record and nothing else.
LEMMA CodedRecord ==
  ASSUME IInv, ~stuck, NEW i, i = Len(got) + 1, Len(got) < Len(written),
         written[i].op = "differential"
  PROVE  /\ kind = "differential"
         /\ \E k \in 1 .. MaxCode :
              /\ Ends(i) = <<inPos + CountSize + k, inRefPos + Size, inDiff + k>>
              /\ Decoded = IF InRefExceeded(Size) THEN {} ELSE {<<k, written[i].data>>}
<1>1. /\ i \in 1 .. Len(written) /\ Ends(i - 1) = <<inPos, inRefPos, inDiff>>
      /\ Size = Len(written[i].data) /\ written[i].data \in Datum /\ Size \in Nat
  BY NextRecord
<1> DEFINE d == written[i].data
           p == inPos + CountSize
<1>2. kind = "differential" /\ d \in [1 .. Size -> Bytes]
  BY <1>1 DEF IInv, LaidOut, CodedAt
<1>3. PICK k \in 1 .. MaxCode :
        /\ Ends(i) = <<inPos + CountSize + k, inRefPos + Size, inDiff + k>>
        /\ \A j \in 1 .. CountSize : buffer[inPos + j - 1] = CountBytes(k)[j]
        /\ \A j \in 1 .. k : buffer[inPos + CountSize + j - 1] = Code(d, inRefPos, k)[j]
  <2> DEFINE e == Ends(i - 1)
  <2>1. PICK k \in 1 .. MaxCode :
          /\ Ends(i) = <<e[1] + CountSize + k, e[2] + Len(d), e[3] + k>>
          /\ \A j \in 1 .. CountSize : buffer[e[1] + j - 1] = CountBytes(k)[j]
          /\ \A j \in 1 .. k : buffer[e[1] + CountSize + j - 1] = Code(d, e[2], k)[j]
    BY <1>1 DEF IInv, LaidOut, CodedAt
  <2>2. e[1] = inPos /\ e[2] = inRefPos /\ e[3] = inDiff /\ Len(d) = Size
    BY <1>1
  <2> HIDE DEF e, d
  <2> QED
    BY <2>1, <2>2
<1>4. /\ k \in Nat /\ 1 <= k /\ inPos \in Nat /\ CountSize \in Nat /\ Capacity \in Nat
      /\ inPos + CountSize + k <= Capacity
  <2>1. i \in 0 .. Len(written)
    BY <1>1, WrittenIs DEF IInv
  <2>2. Ends(i)[1] <= outPos
    BY <2>1, EndsAreInside DEF IInv
  <2>3. inPos \in Nat /\ CountSize \in Nat /\ Capacity \in Nat /\ MaxCode \in Nat /\ outPos \in Nat
        /\ outPos <= Capacity
    BY SerializerAssumption DEF IInv, Typed
  <2> QED
    BY <1>3, <2>2, <2>3
<1>5. Get(inPos, CountSize) = CountBytes(k)
  <2>1. CountBytes(k) = [j \in 1 .. CountSize |-> CountBytes(k)[j]]
    BY DEF CountBytes
  <2> QED
    BY <1>3, <2>1 DEF Get
<1>6. Get(p, k) = Code(d, inRefPos, k)
  <2>1. Code(d, inRefPos, k) = [j \in 1 .. k |-> Code(d, inRefPos, k)[j]]
    BY DEF Code
  <2>2. \A j \in 1 .. k : buffer[p + j - 1] = Code(d, inRefPos, k)[j]
    BY <1>3
  <2> HIDE DEF p
  <2> QED
    BY <2>1, <2>2 DEF Get
<1>7. ASSUME NEW l \in 1 .. MaxCode, NEW e, Get(p, l) = Code(e, inRefPos, l)
      PROVE  l = k /\ e = d
  <2>1. 1 \in 1 .. l /\ 1 \in 1 .. k
    BY <1>4, SerializerAssumption
  <2>2. Get(p, l)[1] = buffer[p + 1 - 1] /\ Get(p, k)[1] = buffer[p + 1 - 1]
    BY <2>1 DEF Get
  <2>3. /\ Code(e, inRefPos, l)[1] = [data |-> e, ref |-> inRefPos, length |-> l, at |-> 1]
        /\ Code(d, inRefPos, k)[1] = [data |-> d, ref |-> inRefPos, length |-> k, at |-> 1]
    BY <2>1 DEF Code
  <2> HIDE DEF p, d
  <2>4. [data |-> e, ref |-> inRefPos, length |-> l, at |-> 1] = [data |-> d, ref |-> inRefPos, length |-> k, at |-> 1]
    BY <1>6, <1>7, <2>2, <2>3
  <2> QED
    BY <2>4
<1>8. k \in CountAt(inPos) /\ CountAt(inPos) \subseteq 1 .. MaxCode
  BY <1>5 DEF CountAt
<1>9. /\ d \in Decode(p, k, inRefPos, Size)
      /\ \A l \in 1 .. MaxCode : \A e \in Decode(p, l, inRefPos, Size) : l = k /\ e = d
  <2> HIDE DEF d
  <2> QED
    BY <1>2, <1>4, <1>6, <1>7 DEF Decode
<1>10. UNION {{l} \X Decode(p, l, inRefPos, Size) : l \in CountAt(inPos)} = {<<k, d>>}
  <2> HIDE DEF d, p
  <2> QED
    BY <1>8, <1>9
<1>11. Decoded = IF InRefExceeded(Size) THEN {} ELSE {<<k, d>>}
  BY <1>10 DEF Decoded
<1> QED
  BY <1>2, <1>3, <1>11

\* A pop that moves to the end of the next record keeps the invariant.
LEMMA PopKeeps ==
  ASSUME IInv, ~stuck, NEW i, i = Len(got) + 1, Len(got) < Len(written),
         UNCHANGED <<kind, writer, inSize, inRefSize, stuck>>,
         NEW g \in Datum \cup {Null}, got' = Append(got, g),
         <<inPos', inRefPos', inDiff'>> = Ends(i),
         inSize # Null, inRefPos' <= inRefSize, inPos' <= inSize \/ EndsInCode(i)
  PROVE  IInv'
<1>1. /\ Blank' /\ Standing' /\ EndsInside' /\ LaidOut' /\ SizeIsAccountedFor'
      /\ \A j : Ends(j)' = Ends(j) /\ (EndsInCode(j)' <=> EndsInCode(j))
  BY WriterStays
<1>2. /\ Len(got) \in Nat /\ Len(written) \in Nat
      /\ got' \in Seq(Datum \cup {Null}) /\ Len(got') = Len(got) + 1
  BY LenProperties, AppendProperties DEF IInv, Typed
<1>3. i \in 0 .. Len(written)
  BY <1>2
<1>4. /\ inPos' \in Nat /\ inRefPos' \in 0 .. RefSize /\ inDiff' \in 0 .. Capacity
  <2>1. /\ Ends(i)[1] \in Nat
        /\ Ends(i)[2] \in Nat /\ Ends(i)[2] <= RefSize
        /\ Ends(i)[3] \in Nat /\ Ends(i)[3] <= outDiff
    BY <1>3, EndsAreInside DEF IInv
  <2>2. outDiff \in 0 .. Capacity
    BY CountsAreInside DEF IInv
  <2>3. Ends(i)[1] = inPos' /\ Ends(i)[2] = inRefPos' /\ Ends(i)[3] = inDiff'
    <3> DEFINE e == Ends(i)
    <3>1. e = <<inPos', inRefPos', inDiff'>>
      OBVIOUS
    <3> HIDE DEF e
    <3>2. e[1] = inPos' /\ e[2] = inRefPos' /\ e[3] = inDiff'
      BY <3>1
    <3> QED
      BY <3>2 DEF e
  <2>4. outDiff \in Nat /\ Capacity \in Nat /\ RefSize \in Nat
    BY SerializerAssumption DEF IInv, Typed
  <2> QED
    BY <2>1, <2>2, <2>3, <2>4
<1>5. Typed'
  <2>1. Len(got') <= Len(written')
    BY <1>2 DEF writer
  <2> QED
    BY <1>2, <1>4, <2>1 DEF IInv, Typed, writer
<1>6. StayInStep'
  <2>1. Len(got)' = i /\ written' = written
    BY <1>2 DEF writer
  <2>2. Ends(Len(got))' = Ends(i)
    BY <2>1 DEF Ends
  <2> QED
    BY <2>2 DEF StayInStep
<1>7. ReaderInside'
  <2>1. EndsInCode(Len(got))' <=> EndsInCode(i)
    <3>1. Len(got)' = i /\ written' = written
      BY <1>2 DEF writer
    <3> QED
      BY <3>1 DEF EndsInCode, Ends
  <2> QED
    BY <2>1 DEF ReaderInside
<1> QED
  BY <1>1, <1>5, <1>6, <1>7 DEF IInv

LEMMA PopContiguousKeeps ==
  ASSUME IInv, NEW skip \in BOOLEAN, PopContiguous(skip)
  PROVE  /\ IInv' /\ Len(got) < Len(written)
         /\ \E g \in {written[Len(got) + 1].data, Null} : got' = Append(got, g)
         /\ UNCHANGED written
<1>1. PICK i : i = Len(got) + 1
  OBVIOUS
<1>2. ~stuck /\ Len(got) < Len(written) /\ written[i].op = "contiguous"
  BY <1>1 DEF PopContiguous, AtRecord
<1> DEFINE g == IF skip THEN Null ELSE Get(inPos, Size)
<1>3. /\ Ends(i) = <<inPos + Size, inRefPos + RefMoves(Size), inDiff>>
      /\ Get(inPos, Size) = written[i].data /\ written[i].data \in Datum
  BY <1>1, <1>2, PlainRecord, NextRecord
<1>4. /\ got' = Append(got, g) /\ inPos' = inPos + Size /\ inRefPos' = inRefPos + RefMoves(Size)
      /\ inDiff' = inDiff /\ UNCHANGED <<kind, writer, inSize, inRefSize, stuck>>
  BY DEF PopContiguous
<1>5. g \in {written[i].data, Null} /\ g \in Datum \cup {Null}
  BY <1>3
<1> HIDE DEF g
<1>6. inSize # Null /\ inRefPos' <= inRefSize /\ inPos' <= inSize
  <2>1. inSize # Null /\ ~InputShort(Size) /\ ~InRefExceeded(Size)
    BY DEF PopContiguous, AtRecord
  <2>2. /\ inPos \in Nat /\ inRefPos \in Nat /\ inRefSize \in Nat /\ inSize \in Nat /\ Size \in Nat
        /\ inRefPos <= inRefSize
    BY <1>1, <1>2, <2>1, NextRecord, SerializerAssumption DEF IInv, Typed, ReaderInside
  <2> QED
    BY <1>4, <2>1, <2>2 DEF InputShort, InRefExceeded, RefMoves
<1>7. IInv'
  BY <1>1, <1>2, <1>3, <1>4, <1>5, <1>6, PopKeeps
<1> QED
  BY <1>1, <1>2, <1>4, <1>5, <1>7 DEF writer

LEMMA PopDifferentialKeeps ==
  ASSUME IInv, PopDifferential
  PROVE  /\ IInv' /\ Len(got) < Len(written)
         /\ got' = Append(got, written[Len(got) + 1].data)
         /\ UNCHANGED written
<1>1. PICK i : i = Len(got) + 1
  OBVIOUS
<1>2. ~stuck /\ Len(got) < Len(written) /\ written[i].op = "differential"
  BY <1>1 DEF PopDifferential, AtRecord
<1>3. PICK k \in 1 .. MaxCode :
        /\ Ends(i) = <<inPos + CountSize + k, inRefPos + Size, inDiff + k>>
        /\ Decoded = IF InRefExceeded(Size) THEN {} ELSE {<<k, written[i].data>>}
  BY <1>1, <1>2, CodedRecord
<1>4. PICK kd \in Decoded :
        /\ got' = Append(got, kd[2])
        /\ inPos' = inPos + CountSize + kd[1]
        /\ inDiff' = inDiff + kd[1]
  BY DEF PopDifferential
<1>5. kd[1] = k /\ kd[2] = written[i].data
  BY <1>3, <1>4
<1>6. inRefPos' = inRefPos + Size /\ UNCHANGED <<kind, writer, inSize, inRefSize, stuck>>
  BY DEF PopDifferential, InRefMoved
<1>7. written[i].data \in Datum
  BY <1>1, <1>2, NextRecord
<1>8. got' = Append(got, written[i].data) /\ <<inPos', inRefPos', inDiff'>> = Ends(i)
  BY <1>3, <1>4, <1>5, <1>6
<1>9. inSize # Null /\ inRefPos' <= inRefSize /\ (inPos' <= inSize \/ EndsInCode(i))
  <2>1. inSize # Null /\ ~InputEnds /\ ~InRefExceeded(Size) /\ kind = "differential"
    BY <1>1, <1>2, <1>3, CodedRecord DEF PopDifferential, AtRecord
  <2>2. /\ i \in 1 .. Len(written) /\ Ends(i - 1) = <<inPos, inRefPos, inDiff>> /\ Size \in Nat
    BY <1>1, <1>2, NextRecord
  <2>3. /\ inPos \in Nat /\ inRefPos \in Nat /\ inRefSize \in Nat /\ inSize \in Nat
        /\ CountSize \in Nat /\ k \in Nat
    BY <2>1, SerializerAssumption DEF IInv, Typed
  <2>4. inPos + CountSize < inSize /\ inRefPos' <= inRefSize
    BY <1>6, <2>1, <2>2, <2>3 DEF InputEnds, InRefExceeded
  <2>5. Ends(i)[1] = inPos' /\ inPos' \in Nat /\ Ends(i - 1)[1] = inPos /\ i > 0
    BY <1>4, <1>5, <1>3, <2>2, <2>3
  <2>6. inPos' <= inSize \/ EndsInCode(i)
    BY <1>2, <2>3, <2>4, <2>5 DEF EndsInCode
  <2> QED
    BY <2>1, <2>4, <2>6
<1>10. IInv'
  BY <1>1, <1>2, <1>6, <1>7, <1>8, <1>9, PopKeeps
<1> QED
  BY <1>1, <1>2, <1>6, <1>8, <1>10 DEF writer

LEMMA PopFailsKeeps ==
  ASSUME IInv, PopFails
  PROVE  IInv'
<1>1. /\ Blank' /\ Standing' /\ EndsInside' /\ LaidOut' /\ SizeIsAccountedFor'
      /\ \A j : Ends(j)' = Ends(j)
  BY WriterStays DEF PopFails
<1>2. /\ inPos' = inPos + CountSize /\ stuck' = TRUE
      /\ UNCHANGED <<kind, writer, inSize, inRefSize, inRefPos, inDiff, got>>
  BY DEF PopFails
<1>3. Typed'
  <2>1. inPos' \in Nat
    BY <1>2, SerializerAssumption, SMTT(30) DEF IInv, Typed
  <2> QED
    BY <1>2, <2>1 DEF IInv, Typed, writer
<1>4. StayInStep'
  BY <1>2 DEF StayInStep
<1>5. ReaderInside'
  <2>1. inSize # Null /\ ~InputEnds
    BY DEF PopFails, AtRecord
  <2>2. inPos \in Nat /\ inSize \in Nat /\ CountSize \in Nat
    BY <2>1, SerializerAssumption DEF IInv, Typed
  <2>3. inPos' <= inSize
    BY <1>2, <2>1, <2>2 DEF InputEnds
  <2> QED
    BY <1>2, <2>1, <2>3 DEF IInv, ReaderInside
<1> QED
  BY <1>1, <1>3, <1>4, <1>5 DEF IInv

-----------------------------------------------------------------------------
\* The invariant holds at the start, and every step keeps it.
LEMMA InitIInv == Init => IInv
<1> SUFFICES ASSUME Init PROVE IInv
  OBVIOUS
<1>1. /\ Capacity \in Nat /\ RefSize \in Nat /\ Len(<<>>) = 0
      /\ <<>> \in Seq(Entry) /\ <<>> \in Seq(Datum \cup {Null}) /\ Unset \in Cells
  BY SerializerAssumption, EmptySeq DEF Cells
<1>2. Typed
  <2>1. buffer \in [0 .. Capacity - 1 -> Cells]
    BY <1>1 DEF Init
  <2>2. 0 \in 0 .. Capacity /\ 0 \in 0 .. RefSize
    BY <1>1
  <2>3. written \in Seq(Entry) /\ got \in Seq(Datum \cup {Null}) /\ Len(got) <= Len(written)
    BY <1>1 DEF Init
  <2>4. /\ kind \in {"contiguous", "differential"} /\ broken \in BOOLEAN /\ stuck \in BOOLEAN
        /\ inSize = Null /\ inRefSize = 0 /\ outPos = 0 /\ refPos = 0 /\ outDiff = 0
        /\ measured = 0 /\ inPos = 0 /\ inRefPos = 0 /\ inDiff = 0
    BY DEF Init
  <2> QED
    BY <2>1, <2>2, <2>3, <2>4 DEF Typed
<1>3. Blank
  BY DEF Init, Blank
<1>4. \A i \in 0 .. Len(written) : i = 0 /\ Ends(i) = <<0, 0, 0>>
  BY <1>1 DEF Init, Ends
<1>5. Ends(Len(written)) = <<0, 0, 0>> /\ Ends(Len(got)) = <<0, 0, 0>>
  BY <1>1 DEF Init, Ends
<1>6. Standing
  BY <1>5 DEF Init, Standing
<1>7. EndsInside
  BY <1>1, <1>4 DEF Init, EndsInside
<1>8. LaidOut
  BY <1>1 DEF Init, LaidOut
<1>9. StayInStep
  BY <1>5 DEF Init, StayInStep
<1>10. ReaderInside
  BY DEF Init, ReaderInside
<1>11. SizeIsAccountedFor
  <2>1. Differential = {}
    BY <1>1 DEF Init, Differential
  <2>2. Cardinality(Differential) = 0 /\ CountSize * 0 = 0
    BY <2>1, FS_EmptySet, SerializerAssumption
  <2> QED
    BY <2>2 DEF Init, SizeIsAccountedFor
<1> QED
  BY <1>2, <1>3, <1>6, <1>7, <1>8, <1>9, <1>10, <1>11 DEF IInv

LEMMA NextKeepsIInv == IInv /\ [Next]_vars => IInv'
<1> SUFFICES ASSUME IInv, [Next]_vars PROVE IInv'
  OBVIOUS
<1>1. ASSUME UNCHANGED vars PROVE IInv'
  <2>1. /\ Blank' /\ Standing' /\ EndsInside' /\ LaidOut' /\ SizeIsAccountedFor'
        /\ \A j : Ends(j)' = Ends(j) /\ (EndsInCode(j)' <=> EndsInCode(j))
    BY <1>1, WriterStays DEF vars, reader
  <2>2. Typed' /\ StayInStep' /\ ReaderInside'
    <3>1. Ends(Len(got))' = Ends(Len(got))
      BY <1>1 DEF Ends, vars, writer, reader
    <3>2. EndsInCode(Len(got))' <=> EndsInCode(Len(got))
      BY <1>1 DEF EndsInCode, Ends, vars, writer, reader
    <3> QED
      BY <1>1, <3>1, <3>2 DEF IInv, Typed, StayInStep, ReaderInside, vars, writer, reader
  <2> QED
    BY <2>1, <2>2 DEF IInv
<1> QED
  BY <1>1, PushContiguousKeeps, PushDifferentialKeeps, PushFailsKeeps, OpenKeeps,
     PopContiguousKeeps, PopDifferentialKeeps, PopFailsKeeps DEF Next

\* The invariant holds in every reachable state.
LEMMA Inductive == Spec => []IInv
<1> QED
  BY InitIInv, NextKeepsIInv, PTL DEF Spec

-----------------------------------------------------------------------------
\* Types: every position is inside its buffer, the reader is never ahead.
THEOREM TypeCorrect == Spec => []TypeOK
<1>1. IInv => TypeOK
  <2> SUFFICES ASSUME IInv PROVE TypeOK
    OBVIOUS
  <2>1. outDiff \in 0 .. Capacity /\ measured \in 0 .. Capacity
    BY CountsAreInside DEF IInv
  <2>2. \A i \in 1 .. Len(written) : written[i].op \in {"contiguous", "differential"}
    BY WrittenIs DEF IInv
  <2> QED
    BY <2>1, <2>2 DEF IInv, Typed, TypeOK
<1> QED
  BY <1>1, Inductive, PTL

\* After every record the deserializer stands where the serializer stood: in the
\* bytes, in the reference and in the count of differential bytes.
THEOREM InStep == Spec => []StayInStep
<1>1. IInv => StayInStep
  BY DEF IInv
<1> QED
  BY <1>1, Inductive, PTL

\* The measured size and the lengths of the differential records add up to the size
\* of the output.
THEOREM SizeAddsUp == Spec => []SizeIsAccountedFor
<1>1. IInv => SizeIsAccountedFor
  BY DEF IInv
<1> QED
  BY <1>1, Inductive, PTL

\* A reader with an input and a reference of any sizes stays inside them, but for the
\* code of the last record it pops, if the input ends in it; and what they hold to the
\* end it can pop.
THEOREM InputBounds == Spec => []InputBoundsPops
<1>1. IInv => InputBoundsPops
  <2> SUFFICES ASSUME IInv, inSize # Null PROVE
        /\ inRefPos <= inRefSize
        /\ inPos <= inSize \/ EndsInCode(Len(got))
        /\ LET i == Len(got) + 1
           IN  ~stuck /\ i <= Len(written) /\ Ends(i)[1] <= inSize /\ Ends(i)[2] <= inRefSize
                 => Passes
    BY DEF InputBoundsPops
  <2>1. ASSUME NEW i, i = Len(got) + 1, ~stuck, i <= Len(written),
               Ends(i)[1] <= inSize, Ends(i)[2] <= inRefSize
        PROVE  Passes
    <3>1. /\ Len(got) \in Nat /\ Len(written) \in Nat /\ inPos \in Nat /\ inRefPos \in Nat
          /\ inRefSize \in Nat /\ inSize \in Nat /\ CountSize \in Nat
      BY SerializerAssumption, LenProperties DEF IInv, Typed
    <3>2. Len(got) < Len(written)
      BY <2>1, <3>1
    <3>3. Size \in Nat /\ i \in 1 .. Len(written)
      BY <2>1, <3>2, NextRecord
    <3>4. CASE written[i].op = "contiguous"
      <4>1. Ends(i) = <<inPos + Size, inRefPos + RefMoves(Size), inDiff>>
        BY <2>1, <3>2, <3>4, PlainRecord
      <4>2. inPos + Size <= inSize /\ inRefPos + RefMoves(Size) <= inRefSize
        BY <2>1, <4>1
      <4>3. ~InputShort(Size) /\ ~InRefExceeded(Size)
        BY <3>1, <3>3, <4>2 DEF InputShort, InRefExceeded, RefMoves
      <4> QED
        BY <2>1, <3>4, <4>3 DEF Passes
    <3>5. CASE written[i].op # "contiguous"
      <4>1. written[i].op = "differential"
        BY <3>3, <3>5, WrittenIs DEF IInv
      <4>2. PICK k \in 1 .. MaxCode :
              /\ Ends(i) = <<inPos + CountSize + k, inRefPos + Size, inDiff + k>>
              /\ Decoded = IF InRefExceeded(Size) THEN {} ELSE {<<k, written[i].data>>}
        BY <2>1, <3>2, <4>1, CodedRecord
      <4>3. inPos + CountSize + k <= inSize /\ inRefPos + Size <= inRefSize
        BY <2>1, <4>2
      <4>4. k \in Nat /\ 1 <= k
        BY SerializerAssumption
      <4>5. ~InputEnds
        BY <3>1, <4>3, <4>4 DEF InputEnds
      <4>6. ~InRefExceeded(Size)
        BY <3>1, <3>3, <4>3 DEF InRefExceeded
      <4>7. Decoded # {}
        BY <4>2, <4>6
      <4> QED
        BY <2>1, <3>5, <4>5, <4>7 DEF Passes
    <3> QED
      BY <3>4, <3>5
  <2> QED
    BY <2>1 DEF IInv, ReaderInside
<1> QED
  BY <1>1, Inductive, PTL

-----------------------------------------------------------------------------
(* The refinement of RecordStream.                                          *)

Data == [i \in 1 .. Len(written) |-> written[i].data]

\* The data of the records, one for each, and one more after a push.
LEMMA DataProperties ==
  ASSUME Typed
  PROVE  /\ Data \in Seq(Datum) /\ Len(Data) = Len(written)
         /\ \A i \in 1 .. Len(written) : Data[i] = written[i].data
<1>1. Len(written) \in Nat
  BY LenProperties DEF Typed
<1>2. \A i \in 1 .. Len(written) : written[i].data \in Datum
  BY WrittenIs
<1> QED
  BY <1>1, <1>2 DEF Data

\* A push appends its record to the stream.
LEMMA DataAppend ==
  ASSUME Typed, NEW w \in Entry, written' = Append(written, w)
  PROVE  Data' = Append(Data, w.data)
<1>1. /\ Len(written) \in Nat /\ Len(written') = Len(written) + 1
      /\ \A i \in 1 .. Len(written) : written'[i] = written[i]
      /\ written'[Len(written) + 1] = w
  BY EndsAppend
<1>2. w.data \in Datum
  BY DEF Entry
<1>3. Data \in Seq(Datum) /\ Len(Data) = Len(written)
  BY DataProperties
<1> DEFINE n == Len(written)
<1>4. /\ Append(Data, w.data) \in Seq(Datum) /\ Len(Append(Data, w.data)) = n + 1
      /\ \A i \in 1 .. n : Append(Data, w.data)[i] = Data[i]
      /\ Append(Data, w.data)[n + 1] = w.data
  <2>1. /\ Append(Data, w.data) \in Seq(Datum) /\ Len(Append(Data, w.data)) = Len(Data) + 1
        /\ \A i \in 1 .. Len(Data) : Append(Data, w.data)[i] = Data[i]
        /\ Append(Data, w.data)[Len(Data) + 1] = w.data
    BY <1>2, <1>3, AppendProperties
  <2> QED
    BY <1>3, <2>1
<1>5. Data' = [i \in 1 .. n + 1 |-> written'[i].data]
  BY <1>1 DEF Data
<1> HIDE DEF n
<1>6. n \in Nat /\ \A i \in 1 .. n + 1 : i \in 1 .. n \/ i = n + 1
  BY <1>1 DEF n
<1>7. \A i \in 1 .. n : written'[i].data = Data[i]
  BY <1>1, DataProperties DEF n
<1>8. written'[n + 1].data = w.data
  BY <1>1 DEF n
<1> DEFINE t == Append(Data, w.data)
<1>9. t \in Seq(Datum) /\ Len(t) = n + 1 /\ \A i \in 1 .. n + 1 : t[i] = written'[i].data
  BY <1>4, <1>6, <1>7, <1>8
<1> HIDE DEF t
<1>10. t = [i \in 1 .. n + 1 |-> t[i]]
  BY <1>6, <1>9
<1> QED
  BY <1>5, <1>9, <1>10 DEF t

LEMMA StreamVars == R!vars = <<Data, got>> /\ R!vars' = <<Data', got'>>
  BY DEF R!vars, Data

\* A push of a datum is a push of the stream.
LEMMA PushRefines ==
  ASSUME IInv, NEW w \in Entry, written' = Append(written, w), UNCHANGED got
  PROVE  R!Next
<1>1. Data' = Append(Data, w.data)
  BY DataAppend DEF IInv
<1>2. w.data \in Datum
  BY DEF Entry
<1>3. w.data \in UNION {[1 .. n -> Bytes \cup {Unset}] : n \in Sizes}
  BY <1>2 DEF Datum
<1>4. PICK r \in UNION {[1 .. n -> Bytes \cup {Unset}] : n \in Sizes} : Data' = Append(Data, r)
  BY <1>1, <1>3
<1>5. R!Push(r)
  BY <1>4 DEF R!Push, Data
<1> QED
  BY <1>5 DEF R!Next

\* A pop of the next record, or past it, is one of the stream.
LEMMA PopRefines ==
  ASSUME IInv, UNCHANGED written, Len(got) < Len(written),
         NEW g \in {written[Len(got) + 1].data, Null}, got' = Append(got, g)
  PROVE  R!Next
<1>1. /\ Len(Data) = Len(written) /\ Data[Len(got) + 1] = written[Len(got) + 1].data
  <2>1. Len(got) \in Nat /\ Len(written) \in Nat
    BY LenProperties DEF IInv, Typed
  <2>2. Len(got) + 1 \in 1 .. Len(written)
    BY <2>1
  <2>3. Len(Data) = Len(written) /\ \A i \in 1 .. Len(written) : Data[i] = written[i].data
    BY DataProperties DEF IInv
  <2> QED
    BY <2>2, <2>3
<1>2. Data' = Data
  BY DEF Data
<1>3. Len(got) < Len(Data) /\ \E r \in {Data[Len(got) + 1], Null} : got' = Append(got, r)
  BY <1>1
<1>4. R!Pop
  BY <1>2, <1>3 DEF R!Pop, Data
<1> QED
  BY <1>4 DEF R!Next

LEMMA InitRefines == Init => R!Init
<1> SUFFICES ASSUME Init PROVE R!Init
  OBVIOUS
<1>1. written = <<>> /\ got = <<>> /\ Len(<<>>) = 0
  BY EmptySeq DEF Init
<1>2. Data = <<>>
  <2>1. Data = [i \in 1 .. 0 |-> written[i].data]
    BY <1>1 DEF Data
  <2> QED
    BY <2>1
<1> QED
  BY <1>1, <1>2 DEF R!Init, Data

LEMMA NextRefines == IInv /\ [Next]_vars => [R!Next]_(R!vars)
<1> SUFFICES ASSUME IInv, [Next]_vars PROVE R!Next \/ UNCHANGED R!vars
  OBVIOUS
<1>1. ASSUME UNCHANGED <<written, got>> PROVE UNCHANGED R!vars
  BY <1>1, StreamVars DEF Data
<1>2. CASE UNCHANGED vars
  BY <1>1, <1>2 DEF vars, writer, reader
<1>3. ASSUME NEW n \in Sizes, NEW data \in [1 .. n -> Bytes] \cup {Null}, PushContiguous(data, n)
      PROVE  R!Next
  BY <1>3, PushContiguousKeeps, PushRefines DEF PushContiguous, reader
<1>4. ASSUME NEW n \in Sizes, NEW data \in [1 .. n -> Bytes], PushDifferential(data, n)
      PROVE  R!Next
  BY <1>4, PushDifferentialKeeps, PushRefines DEF PushDifferential, reader
<1>5. ASSUME NEW n \in Sizes, PushFails(n) PROVE UNCHANGED R!vars
  BY <1>1, <1>5 DEF PushFails, reader
<1>6. ASSUME NEW r \in RefSizes, Open(r) PROVE UNCHANGED R!vars
  BY <1>1, <1>6 DEF Open, writer
<1>7. ASSUME NEW skip \in BOOLEAN, PopContiguous(skip) PROVE R!Next
  BY <1>7, PopContiguousKeeps, PopRefines
<1>8. CASE PopDifferential
  BY <1>8, PopDifferentialKeeps, PopRefines
<1>9. CASE PopFails
  BY <1>1, <1>9 DEF PopFails, writer
<1> QED
  BY <1>2, <1>3, <1>4, <1>5, <1>6, <1>7, <1>8, <1>9 DEF Next

\* The two sides together are a stream of records: none is lost, changed or
\* exchanged for another, whatever fails later.
THEOREM Refinement == Spec => ImplementsRecordStream
<1>1. IInv /\ [Next]_vars => [R!Next]_(R!vars)
  BY NextRefines
<1> QED
  BY <1>1, Inductive, InitRefines, PTL DEF Spec, ImplementsRecordStream
=============================================================================
