-------------------------- MODULE MemoryFileProofs --------------------------
(***************************************************************************)
(* The safety of MemoryFile as long as memory lasts, for any files, bytes, *)
(* sizes and transfers, and any depth of callbacks; and that MemoryFile    *)
(* implements FileStore.                                                   *)
(***************************************************************************)
EXTENDS MemoryFile, SequenceTheorems, CountingLemmas

FileRecord ==
  [size : 0 .. MaxSize, buffer : Seq(Bytes \cup {Junk}), head : Nat,
   error : {0, -1, -2, -3}, flags : SUBSET (Flag \cup Defined)]

\* A file whose position and size are inside what its buffer holds.
InOrder == {r \in FileRecord : r.head <= r.size /\ r.size <= Len(r.buffer)}

Call == [file : Files, op : {"read", "write"}, value : Nat]

\* The invariant that every step keeps.
IInv ==
  /\ dir \in [Names -> Files \cup {None}]
  /\ file \in [Files -> InOrder]
  /\ calls \in Seq(Call)
  /\ read \in Seq(Bytes \cup {Junk})
  /\ last.value \in Int
  /\ overrun = FALSE

-----------------------------------------------------------------------------
(* The buffer.                                                              *)

\* A division of natural numbers rounds down.
LEMMA DivisionBound ==
  ASSUME NEW a \in Nat, NEW b \in Nat \ {0}
  PROVE  a \div b \in Nat /\ b * (a \div b) <= a
  OBVIOUS

\* A buffer doubled often enough holds the target: 2^target is never less than it.
LEMMA BufferSizeFits ==
  ASSUME NEW b \in Seq(Bytes \cup {Junk}), NEW n \in Nat
  PROVE  BufferSizeFor(b, n) \in Nat /\ BufferSizeFor(b, n) >= n
<1> DEFINE start == IF Len(b) = 0 THEN 1 ELSE Len(b)
           sizes == {start * 2^k : k \in 0 .. n}
           fitting == {s \in sizes : s >= n}
<1>1. start \in Nat \ {0}
  BY LenProperties
<1>2. \A k \in Nat : start * 2^k \in Nat /\ start * 2^k >= 2^k /\ 2^k >= k
  <2> SUFFICES ASSUME NEW k \in Nat PROVE start * 2^k \in Nat /\ start * 2^k >= 2^k /\ 2^k >= k
    OBVIOUS
  <2> DEFINE p == 2^k
  <2>1. p \in Nat /\ k <= p
    BY PowerOfTwo
  <2> HIDE DEF p, start
  <2>2. start * p \in Nat /\ start * p >= p
    BY <1>1, <2>1
  <2> QED
    BY <2>1, <2>2 DEF p
<1> HIDE DEF start
<1>3. sizes \subseteq Nat /\ start * 2^n \in sizes /\ start * 2^n >= n
  <2>1. \A k \in 0 .. n : start * 2^k \in Nat
    BY <1>2
  <2>2. n \in 0 .. n
    OBVIOUS
  <2>3. start * 2^n >= n
    <3> DEFINE p == 2^n
               q == start * 2^n
    <3>1. q \in Nat /\ q >= p /\ p >= n /\ p \in Nat
      BY <1>2, PowerOfTwo
    <3> HIDE DEF p, q
    <3>2. q >= n
      BY <3>1
    <3> QED
      BY <3>2 DEF q
  <2> QED
    BY <2>1, <2>2, <2>3
<1> HIDE DEF sizes
<1>4. PICK s \in fitting : \A r \in fitting : s <= r
  BY <1>3, LeastElement
<1>5. BufferSizeFor(b, n) = CHOOSE t \in sizes : t >= n /\ \A r \in sizes : r >= n => t <= r
  BY DEF BufferSizeFor, sizes, start
<1>6. s \in sizes /\ s >= n /\ \A r \in sizes : r >= n => s <= r
  BY <1>4
<1>7. BufferSizeFor(b, n) \in sizes /\ BufferSizeFor(b, n) >= n
  BY <1>5, <1>6
<1> QED
  BY <1>3, <1>7

\* A buffer that is grown keeps its bytes and holds the target.
LEMMA GrownFits ==
  ASSUME NEW b \in Seq(Bytes \cup {Junk}), NEW n \in Nat, Len(b) <= n
  PROVE  /\ Grown(b, n) \in Seq(Bytes \cup {Junk})
         /\ Len(Grown(b, n)) \in Nat /\ Len(Grown(b, n)) >= n
         /\ \A i \in 1 .. Len(b) : Grown(b, n)[i] = b[i]
<1> DEFINE k == BufferSizeFor(b, n)
<1>1. k \in Nat /\ k >= n
  BY BufferSizeFits
<1>2. Len(b) \in Nat /\ \A i \in 1 .. Len(b) : b[i] \in Bytes \cup {Junk}
  BY LenProperties, ElementOfSeq
<1>3. Grown(b, n) = [i \in 1 .. k |-> IF i <= Len(b) THEN b[i] ELSE Junk]
  BY DEF Grown
<1> HIDE DEF k
<1>4. \A i \in 1 .. k : (IF i <= Len(b) THEN b[i] ELSE Junk) \in Bytes \cup {Junk}
  BY <1>1, <1>2
<1>5. Grown(b, n) \in Seq(Bytes \cup {Junk}) /\ Len(Grown(b, n)) = k
  BY <1>1, <1>3, <1>4
<1>6. \A i \in 1 .. Len(b) : i \in 1 .. k /\ i <= Len(b)
  BY <1>1, <1>2
<1> QED
  BY <1>1, <1>3, <1>5, <1>6

-----------------------------------------------------------------------------
(* The calls, one lemma for those that change more than a field.            *)

LEMMA LiveAreFiles == ASSUME IInv, NEW f \in Live PROVE f \in Files
  BY DEF IInv, Live

LEMMA NewFileInOrder == NewFile \in InOrder
<1>1. 0 \in 0 .. MaxSize /\ <<>> \in Seq(Bytes \cup {Junk}) /\ Len(<<>>) = 0
  BY BoundsAssumption, EmptySeq
<1> QED
  BY <1>1 DEF NewFile, InOrder, FileRecord

\* The invariant holds at the start, and every step keeps it as long as memory lasts.
LEMMA InitIInv == Init => IInv
<1> SUFFICES ASSUME Init PROVE IInv
  OBVIOUS
<1>1. <<>> \in Seq(Call) /\ <<>> \in Seq(Bytes \cup {Junk})
  BY EmptySeq
<1> QED
  BY <1>1, NewFileInOrder DEF Init, IInv

\* A transfer that stays in its buffer leaves the file r behind, called back or not.
LEMMA TransferredKeeps ==
  ASSUME IInv, NEW f \in Files, NEW o \in {"read", "write"}, NEW r \in InOrder, NEW v \in Nat,
         Transferred(f, o, r, v), UNCHANGED <<dir, overrun>>, read' \in Seq(Bytes \cup {Junk})
  PROVE  IInv'
<1>1. [r EXCEPT !.error = 0] \in InOrder
  BY DEF InOrder, FileRecord
<1>2. CASE CallbackOf[o] \in r.flags
  <2>1. file' \in [Files -> InOrder] /\ UNCHANGED last
    BY <1>2 DEF Transferred, IInv
  <2>2. calls' \in Seq(Call)
    <3> DEFINE c == [file |-> f, op |-> o, value |-> v]
    <3>1. c \in Call /\ calls' = <<c>> \o calls /\ <<c>> \in Seq(Call)
      BY <1>2 DEF Transferred, Call
    <3> QED
      BY <3>1, ConcatProperties DEF IInv
  <2> QED
    BY <2>1, <2>2 DEF IInv
<1>3. CASE CallbackOf[o] \notin r.flags
  <2> DEFINE q == [r EXCEPT !.error = 0]
  <2>1. /\ file' = [file EXCEPT ![f] = q] /\ UNCHANGED calls
        /\ last' = [op |-> o, value |-> v]
    BY <1>3 DEF Transferred, Returns
  <2>2. q \in InOrder
    BY <1>1
  <2> HIDE DEF q
  <2> QED
    BY <2>1, <2>2 DEF IInv
<1> QED
  BY <1>2, <1>3

\* A read is cut to the elements that are wholly in the file.
LEMMA ReadStays ==
  ASSUME IInv, NEW f \in Files, NEW size \in Nat, NEW count \in Nat
  PROVE  /\ ReadCount(f, size, count) \in Nat
         /\ size * ReadCount(f, size, count) \in Nat
         /\ file[f].head + size * ReadCount(f, size, count) <= file[f].size
<1>1. /\ file[f].head \in Nat /\ file[f].size \in Nat /\ file[f].head <= file[f].size
  BY BoundsAssumption DEF IInv, InOrder, FileRecord
<1>2. CASE size > 0 /\ file[f].head + size * count > file[f].size
  <2> DEFINE a == file[f].size - file[f].head
  <2>1. a \in Nat /\ size \in Nat \ {0}
    BY <1>1, <1>2
  <2>2. a \div size \in Nat /\ size * (a \div size) <= a
    BY <2>1, DivisionBound
  <2>3. ReadCount(f, size, count) = a \div size
    BY <1>2 DEF ReadCount
  <2> DEFINE n == a \div size
  <2>4. a = file[f].size - file[f].head
    OBVIOUS
  <2> HIDE DEF a
  <2> HIDE DEF n
  <2>5. n \in Nat /\ size * n <= a
    BY <2>2 DEF n
  <2>6. size * n \in Nat
    BY <2>5
  <2> QED
    BY <1>1, <2>3, <2>4, <2>5, <2>6 DEF n
<1>3. CASE ~(size > 0 /\ file[f].head + size * count > file[f].size)
  <2>1. ReadCount(f, size, count) = count
    BY <1>3 DEF ReadCount
  <2>2. size * count \in Nat
    OBVIOUS
  <2>3. size = 0 \/ file[f].head + size * count <= file[f].size
    BY <1>1, <1>3, <2>2
  <2>4. size = 0 => size * count = 0
    OBVIOUS
  <2> QED
    BY <1>1, <2>1, <2>2, <2>3, <2>4
<1> QED
  BY <1>2, <1>3

LEMMA FreadKeeps ==
  ASSUME IInv, NEW f \in Files, NEW size \in Nat, NEW count \in Nat, Fread(f, size, count)
  PROVE  IInv'
<1> DEFINE n == ReadCount(f, size, count)
           end == file[f].head + size * n
           r == [file[f] EXCEPT !.head = end]
<1>1. /\ file[f] \in InOrder /\ file[f].head \in Nat /\ file[f].size \in Nat
      /\ file[f].size <= Len(file[f].buffer) /\ file[f].buffer \in Seq(Bytes \cup {Junk})
      /\ Len(file[f].buffer) \in Nat
  BY BoundsAssumption, LenProperties DEF IInv, InOrder, FileRecord
<1>2. n \in Nat /\ size * n \in Nat /\ end <= file[f].size
  BY ReadStays
<1>3. end \in Nat /\ file[f].head + 1 \in Int /\ end <= Len(file[f].buffer)
  BY <1>1, <1>2, SMTT(30)
<1>4. /\ read' = SubSeq(file[f].buffer, file[f].head + 1, end)
      /\ Transferred(f, "read", r, n)
      /\ UNCHANGED <<dir, overrun>>
  BY <1>3 DEF Fread
<1> HIDE DEF n, end
<1>5. r \in InOrder
  BY <1>1, <1>2, <1>3 DEF InOrder, FileRecord
<1>6. read' \in Seq(Bytes \cup {Junk})
  <2>1. \A i \in file[f].head + 1 .. end : i \in 1 .. Len(file[f].buffer)
    BY <1>1, <1>3
  <2>2. \A i \in file[f].head + 1 .. end : file[f].buffer[i] \in Bytes \cup {Junk}
    BY <1>1, <2>1, ElementOfSeq
  <2> QED
    BY <1>3, <1>4, <2>2, SubSeqProperties
<1> HIDE DEF r
<1> QED
  BY <1>2, <1>4, <1>5, <1>6, TransferredKeeps

\* While memory lasts, a write has room for all it writes, and the old bytes stay.
LEMMA RoomFits ==
  ASSUME IInv, ~MayFail, NEW f \in Files, NEW end \in Nat, NEW b \in Room(f, end)
  PROVE  /\ b \in Seq(Bytes \cup {Junk}) /\ Len(b) \in Nat /\ end <= Len(b)
         /\ Len(file[f].buffer) <= Len(b)
         /\ \A i \in 1 .. Len(file[f].buffer) : b[i] = file[f].buffer[i]
<1>1. file[f].buffer \in Seq(Bytes \cup {Junk}) /\ Len(file[f].buffer) \in Nat
  BY LenProperties DEF IInv, InOrder, FileRecord
<1>2. CASE end > Len(file[f].buffer)
  <2>1. b = Grown(file[f].buffer, end + 1) /\ end + 1 \in Nat /\ Len(file[f].buffer) <= end + 1
    BY <1>1, <1>2 DEF Room, ResizedToFit
  <2>2. /\ b \in Seq(Bytes \cup {Junk}) /\ Len(b) \in Nat /\ Len(b) >= end + 1
        /\ \A i \in 1 .. Len(file[f].buffer) : b[i] = file[f].buffer[i]
    BY <1>1, <2>1, GrownFits
  <2> QED
    BY <1>1, <1>2, <2>2
<1>3. CASE ~(end > Len(file[f].buffer))
  BY <1>1, <1>3 DEF Room
<1> QED
  BY <1>2, <1>3

\* The file after a write of the bytes s up to end, to a buffer with room for it.
Written(r, b, s, end) ==
  [r EXCEPT !.buffer = [i \in DOMAIN b |-> IF i \in DOMAIN s THEN s[i] ELSE b[i]],
            !.head = end,
            !.size = IF end > @ THEN end ELSE @]

\* A write to a buffer that is large enough leaves the file in order.
LEMMA WrittenInOrder ==
  ASSUME NEW r \in InOrder, NEW end \in 0 .. MaxSize, r.head <= end,
         NEW b \in Seq(Bytes \cup {Junk}), end <= Len(b), Len(r.buffer) <= Len(b),
         NEW s \in [r.head + 1 .. end -> Bytes]
  PROVE  /\ Written(r, b, s, end) \in InOrder
         /\ Len(Written(r, b, s, end).buffer) = Len(b)
<1>1. /\ Len(b) \in Nat /\ DOMAIN b = 1 .. Len(b) /\ \A i \in 1 .. Len(b) : b[i] \in Bytes \cup {Junk}
      /\ end \in Nat /\ r.head \in Nat /\ r.size \in 0 .. MaxSize /\ r.size \in Nat
      /\ Len(r.buffer) \in Nat /\ r.size <= Len(r.buffer)
  BY BoundsAssumption, LenProperties, ElementOfSeq DEF InOrder, FileRecord
<1>2. \A i \in DOMAIN s : s[i] \in Bytes
  OBVIOUS
<1> DEFINE c == [i \in DOMAIN b |-> IF i \in DOMAIN s THEN s[i] ELSE b[i]]
           z == IF end > r.size THEN end ELSE r.size
<1>3. c \in Seq(Bytes \cup {Junk}) /\ Len(c) = Len(b)
  <2>1. c = [i \in 1 .. Len(b) |-> IF i \in DOMAIN s THEN s[i] ELSE b[i]]
    BY <1>1
  <2>2. \A i \in 1 .. Len(b) : (IF i \in DOMAIN s THEN s[i] ELSE b[i]) \in Bytes \cup {Junk}
    BY <1>1, <1>2
  <2> QED
    BY <1>1, <2>1, <2>2
<1>4. z \in 0 .. MaxSize /\ end <= z /\ z <= Len(b)
  BY <1>1
<1>5. Written(r, b, s, end) = [r EXCEPT !.buffer = c, !.head = end, !.size = z]
  BY DEF Written
<1> HIDE DEF c, z
<1> QED
  BY <1>1, <1>3, <1>4, <1>5 DEF InOrder, FileRecord

LEMMA FwriteKeeps ==
  ASSUME IInv, ~MayFail, NEW f \in Files, NEW size \in Nat, NEW count \in Nat,
         Fwrite(f, size, count)
  PROVE  IInv'
<1> DEFINE start == file[f].head
           end == start + size * count
<1>1. file[f] \in InOrder /\ start \in Nat /\ size * count \in Nat
  BY DEF IInv, InOrder, FileRecord
<1>2. end \in 0 .. MaxSize /\ end \in Nat /\ start <= end
  <2>1. end <= MaxSize
    BY DEF Fwrite
  <2>2. end \in Nat /\ start <= end
    BY <1>1
  <2> HIDE DEF end
  <2> QED
    BY <2>1, <2>2, BoundsAssumption
<1>3. PICK b \in Room(f, end) :
        IF end <= Len(b)
        THEN /\ \E s \in [start + 1 .. end -> Bytes] :
                  Transferred(f, "write", Written(file[f], b, s, end), count)
             /\ UNCHANGED <<dir, read, overrun>>
        ELSE overrun' = TRUE
  BY DEF Fwrite, Written
<1>4. /\ b \in Seq(Bytes \cup {Junk}) /\ end <= Len(b) /\ Len(file[f].buffer) <= Len(b)
  BY <1>2, RoomFits
<1>5. PICK s \in [start + 1 .. end -> Bytes] :
        Transferred(f, "write", Written(file[f], b, s, end), count)
  BY <1>3, <1>4
<1> HIDE DEF end
<1>6. Written(file[f], b, s, end) \in InOrder
  BY <1>1, <1>2, <1>4, <1>5, WrittenInOrder
<1>7. UNCHANGED <<dir, read, overrun>>
  BY <1>3, <1>4
<1> QED
  BY <1>5, <1>6, <1>7, TransferredKeeps DEF IInv

\* A resize grows the buffer or leaves it, and moves the position into the file.
LEMMA ResizeSteps ==
  ASSUME IInv, ~MayFail, NEW f \in Files, NEW n \in 0 .. MaxSize, Resize(f, n)
  PROVE  \E b \in Seq(Bytes \cup {Junk}) :
           /\ n <= Len(b) /\ Len(file[f].buffer) <= Len(b)
           /\ \A i \in 1 .. Len(file[f].buffer) : b[i] = file[f].buffer[i]
           /\ Clamped([file[f] EXCEPT !.size = n, !.buffer = b]) \in InOrder
           /\ file' = [file EXCEPT ![f] = Clamped([file[f] EXCEPT !.size = n, !.buffer = b])]
           /\ Returns("resize", 0)
<1> DEFINE c == file[f].buffer
<1>1. /\ file[f] \in InOrder /\ c \in Seq(Bytes \cup {Junk}) /\ Len(c) \in Nat
      /\ n \in Nat
  BY BoundsAssumption, LenProperties DEF IInv, InOrder, FileRecord
<1>2. PICK b \in IF Len(c) < n THEN ResizedToFit(c, n) ELSE {c} :
        LET r == [file[f] EXCEPT !.size = n, !.buffer = b]
        IN  IF Len(c) < n /\ b = <<>>
            THEN file' = [file EXCEPT ![f] = r] /\ Returns("resize", -1)
            ELSE file' = [file EXCEPT ![f] = Clamped(r)] /\ Returns("resize", 0)
  BY DEF Resize
<1>3. /\ b \in Seq(Bytes \cup {Junk}) /\ Len(b) \in Nat /\ n <= Len(b) /\ Len(c) <= Len(b)
      /\ \A i \in 1 .. Len(c) : b[i] = c[i]
  <2>1. CASE Len(c) < n
    <3>1. b = Grown(c, n)
      BY <1>2, <2>1 DEF ResizedToFit
    <3>2. /\ Grown(c, n) \in Seq(Bytes \cup {Junk}) /\ Len(Grown(c, n)) \in Nat
          /\ Len(Grown(c, n)) >= n /\ \A i \in 1 .. Len(c) : Grown(c, n)[i] = c[i]
      BY <1>1, <2>1, GrownFits
    <3> QED
      BY <1>1, <2>1, <3>1, <3>2
  <2>2. CASE ~(Len(c) < n)
    BY <1>1, <1>2, <2>2
  <2> QED
    BY <2>1, <2>2
<1>4. ~(Len(c) < n /\ b = <<>>)
  BY <1>1, <1>3, EmptySeq
<1> DEFINE r == [file[f] EXCEPT !.size = n, !.buffer = b]
<1>5. file' = [file EXCEPT ![f] = Clamped(r)] /\ Returns("resize", 0)
  BY <1>2, <1>4
<1>6. Clamped(r) \in InOrder
  <2>1. r \in FileRecord /\ r.size = n /\ r.buffer = b
    BY <1>1, <1>3 DEF InOrder, FileRecord
  <2> HIDE DEF r
  <2> DEFINE h == IF r.head > r.size THEN r.size ELSE r.head
  <2>2. h \in Nat /\ h <= n
    BY <1>1, <2>1 DEF FileRecord
  <2>3. Clamped(r) = [r EXCEPT !.head = h, !.error = 0]
    BY DEF Clamped
  <2> HIDE DEF h
  <2>4. Clamped(r) \in FileRecord /\ Clamped(r).head = h /\ Clamped(r).size = n /\ Clamped(r).buffer = b
    BY <2>1, <2>2, <2>3 DEF FileRecord
  <2> QED
    BY <1>3, <2>2, <2>4 DEF InOrder
<1> QED
  BY <1>3, <1>5, <1>6

\* The calls that leave the buffer of their file alone.
LEMMA FieldsKeep ==
  ASSUME IInv, NEW f \in Files, NEW r \in InOrder, file' = [file EXCEPT ![f] = r],
         last'.value \in Int, UNCHANGED <<dir, calls, read, overrun>>
  PROVE  IInv'
  BY DEF IInv

\* A call that is refused changes the error code only.
LEMMA RefusesKeeps ==
  ASSUME IInv, NEW f \in Files, NEW o, NEW e \in {-1, -2, -3}, Refuses(f, o, e)
  PROVE  IInv'
<1> DEFINE r == [file[f] EXCEPT !.error = e]
<1>1. r \in InOrder
  BY DEF IInv, InOrder, FileRecord
<1>2. /\ file' = [file EXCEPT ![f] = r] /\ last'.value \in Int
      /\ UNCHANGED <<dir, calls, read, overrun>>
  BY DEF Refuses, Returns, IInv
<1> HIDE DEF r
<1> QED
  BY <1>1, <1>2, FieldsKeep

LEMMA FseekKeeps ==
  ASSUME IInv, NEW f \in Files, NEW d \in Offsets, NEW o \in Origins, Fseek(f, d, o)
  PROVE  IInv'
<1> DEFINE to == (CASE o = "SEEK_SET" -> 0
                    [] o = "SEEK_END" -> file[f].size
                    [] OTHER -> file[f].head) + d
<1>1. \/ \E e \in {-1, -2, -3} : Refuses(f, "seek", e)
      \/ /\ InFile(f, to)
         /\ file' = [file EXCEPT ![f] = [file[f] EXCEPT !.head = to, !.error = 0]]
         /\ Returns("seek", 0)
         /\ UNCHANGED <<dir, calls, read, overrun>>
  BY DEF Fseek, IInv
<1> HIDE DEF to
<1>2. CASE \E e \in {-1, -2, -3} : Refuses(f, "seek", e)
  BY <1>2, RefusesKeeps
<1>3. CASE /\ InFile(f, to)
           /\ file' = [file EXCEPT ![f] = [file[f] EXCEPT !.head = to, !.error = 0]]
           /\ Returns("seek", 0)
           /\ UNCHANGED <<dir, calls, read, overrun>>
  <2>1. file[f] \in InOrder /\ to \in 0 .. file[f].size /\ file[f].size \in Nat
    BY <1>3, BoundsAssumption DEF IInv, InFile, InOrder, FileRecord
  <2> DEFINE r == [file[f] EXCEPT !.head = to, !.error = 0]
  <2>2. r \in InOrder
    <3>1. to \in Nat /\ to <= file[f].size
      BY <2>1
    <3> QED
      BY <2>1, <3>1 DEF InOrder, FileRecord
  <2>3. file' = [file EXCEPT ![f] = r] /\ last'.value \in Int
    BY <1>3 DEF Returns
  <2> HIDE DEF r
  <2> QED
    BY <1>3, <2>2, <2>3, FieldsKeep
<1> QED
  BY <1>1, <1>2, <1>3

LEMMA SetSizeKeeps ==
  ASSUME IInv, NEW f \in Files, NEW n \in 0 .. MaxSize, SetSize(f, n)
  PROVE  IInv'
<1>1. n \in file[f].head .. Len(file[f].buffer) /\ file[f] \in InOrder
  BY DEF SetSize, IInv
<1> DEFINE r == [file[f] EXCEPT !.size = n]
<1>2. r \in InOrder
  BY <1>1 DEF InOrder, FileRecord
<1>3. /\ file' = [file EXCEPT ![f] = r] /\ last'.value \in Int
      /\ UNCHANGED <<dir, calls, read, overrun>>
  BY DEF SetSize, Returns, IInv
<1> HIDE DEF r
<1> QED
  BY <1>2, <1>3, FieldsKeep

\* A change of flags, of the error, or of the position to the start.
LEMMA FlagsInOrder ==
  ASSUME NEW r \in InOrder, NEW s \in SUBSET (Flag \cup Defined)
  PROVE  /\ [r EXCEPT !.flags = s] \in InOrder
         /\ [r EXCEPT !.error = 0] \in InOrder
         /\ [r EXCEPT !.head = 0, !.error = 0] \in InOrder
         /\ [r EXCEPT !.flags = s, !.head = 0, !.error = 0] \in InOrder
<1>1. 0 \in Nat /\ 0 <= r.size
  BY BoundsAssumption DEF InOrder, FileRecord
<1> QED
  BY <1>1 DEF InOrder, FileRecord

\* So does the opening of a file in any mode.
LEMMA OpenedInOrder ==
  ASSUME NEW r \in InOrder, NEW mode \in {"r", "w"}, NEW plus \in BOOLEAN
  PROVE  Opened(r, mode, plus) \in InOrder
<1>1. r.flags \subseteq Flag \cup Defined
  BY DEF InOrder, FileRecord
<1>2. OpenFlags(r.flags, mode, plus) \in SUBSET (Flag \cup Defined)
  BY <1>1 DEF OpenFlags, Flag
<1> QED
  BY <1>2, FlagsInOrder DEF Opened

LEMMA FileCallKeeps ==
  ASSUME IInv, ~MayFail, NEW f \in Files, FileCall(f)
  PROVE  IInv'
<1>1. file[f] \in InOrder /\ file[f].flags \subseteq Flag \cup Defined
  BY DEF IInv, InOrder, FileRecord
<1>2. ASSUME NEW t \in Transfers, Fread(f, t[1], t[2]) \/ Fwrite(f, t[1], t[2]) PROVE IInv'
  <2>1. t[1] \in Nat /\ t[2] \in Nat
    BY TransfersAssumption
  <2> QED
    BY <1>2, <2>1, FreadKeeps, FwriteKeeps
<1>3. CASE RefuseClosed(f) \/ RefuseMode(f)
  BY <1>3, RefusesKeeps DEF RefuseClosed, RefuseMode
<1>4. CASE Rewind(f)
  <2> DEFINE r == [file[f] EXCEPT !.head = 0, !.error = 0]
  <2>1. last'.value \in Int /\ UNCHANGED <<dir, calls, read, overrun>>
    BY <1>4 DEF Rewind, Returns
  <2>2. file' = [file EXCEPT ![f] = r]
    BY <1>4 DEF Rewind, IInv
  <2>3. r \in InOrder
    BY <1>1, FlagsInOrder
  <2> HIDE DEF r
  <2> QED
    BY <2>1, <2>2, <2>3, FieldsKeep
<1>5. CASE Answer(f)
  <2>1. last'.value \in Int
    BY <1>1, <1>5 DEF Answer, Returns, InOrder, FileRecord
  <2> DEFINE r == [file[f] EXCEPT !.error = 0]
  <2>2. file' = [file EXCEPT ![f] = r] /\ UNCHANGED <<dir, calls, read, overrun>>
    BY <1>5 DEF Answer, IInv
  <2>3. r \in InOrder
    BY <1>1, FlagsInOrder
  <2> HIDE DEF r
  <2> QED
    BY <2>1, <2>2, <2>3, FieldsKeep
<1>6. ASSUME NEW n \in 0 .. MaxSize, Resize(f, n) PROVE IInv'
  <2> DEFINE After(b) == Clamped([file[f] EXCEPT !.size = n, !.buffer = b])
  <2>1. PICK b \in Seq(Bytes \cup {Junk}) :
          After(b) \in InOrder /\ file' = [file EXCEPT ![f] = After(b)] /\ Returns("resize", 0)
    BY <1>6, ResizeSteps
  <2>2. last'.value \in Int /\ UNCHANGED <<dir, calls, read, overrun>>
    BY <1>6, <2>1 DEF Returns, Resize
  <2> HIDE DEF After
  <2> QED
    BY <2>1, <2>2, FieldsKeep
<1>7. ASSUME NEW flag \in Flag \cup Defined, NEW on \in BOOLEAN, SetFlag(f, flag, on) PROVE IInv'
  <2> DEFINE s == IF on THEN file[f].flags \cup {flag} ELSE file[f].flags \ {flag}
  <2>1. s \in SUBSET (Flag \cup Defined)
    BY <1>1
  <2>2. file' = [file EXCEPT ![f] = [file[f] EXCEPT !.flags = s]] /\ last'.value \in Int
    BY <1>7 DEF SetFlag, Returns, IInv
  <2> DEFINE r == [file[f] EXCEPT !.flags = s]
  <2>3. r \in InOrder /\ file' = [file EXCEPT ![f] = r]
    BY <1>1, <2>1, <2>2, FlagsInOrder
  <2> HIDE DEF r
  <2> QED
    BY <1>7, <2>2, <2>3, FieldsKeep DEF SetFlag
<1>8. CASE Fclose(f)
  <2> DEFINE s == file[f].flags \ {"opened"}
  <2>1. s \in SUBSET (Flag \cup Defined)
    BY <1>1
  <2>2. file' = [file EXCEPT ![f] = [file[f] EXCEPT !.flags = s]] /\ last'.value \in Int
    BY <1>8 DEF Fclose, Returns, IInv
  <2> DEFINE r == [file[f] EXCEPT !.flags = s]
  <2>3. r \in InOrder /\ file' = [file EXCEPT ![f] = r]
    BY <1>1, <2>1, <2>2, FlagsInOrder
  <2> HIDE DEF r
  <2> QED
    BY <1>8, <2>2, <2>3, FieldsKeep DEF Fclose
<1> QED
  BY <1>2, <1>3, <1>4, <1>5, <1>6, <1>7, <1>8, FseekKeeps, SetSizeKeeps DEF FileCall

LEMMA DirectoryCallKeeps ==
  ASSUME IInv, NEW n \in Names, DirectoryCall(n)
  PROVE  IInv'
<1>1. ASSUME NEW plus \in BOOLEAN, FopenRead(n, plus) PROVE IInv'
  <2> DEFINE f == dir[n]
  <2>1. f \in Files /\ file[f] \in InOrder
    BY <1>1 DEF FopenRead, IInv
  <2>2. file' = [file EXCEPT ![f] = Opened(file[f], "r", plus)] /\ last'.value \in Int
    BY <1>1 DEF FopenRead, Returns, IInv
  <2> HIDE DEF f
  <2> DEFINE r == Opened(file[f], "r", plus)
  <2>3. r \in InOrder /\ file' = [file EXCEPT ![f] = r]
    BY <2>1, <2>2, OpenedInOrder
  <2> HIDE DEF r
  <2> QED
    BY <1>1, <2>1, <2>2, <2>3, FieldsKeep DEF FopenRead
<1>2. ASSUME NEW plus \in BOOLEAN, NEW x \in BOOLEAN, FopenWrite(n, plus, x) PROVE IInv'
  <2>1. PICK f \in Files \ Live :
          /\ dir' = [dir EXCEPT ![n] = f]
          /\ file' = [g \in Files |-> IF g = f THEN Opened(NewFile, "w", plus)
                                      ELSE IF g = dir[n] THEN NewFile ELSE file[g]]
    BY <1>2 DEF FopenWrite
  <2>2. Opened(NewFile, "w", plus) \in InOrder
    BY NewFileInOrder, OpenedInOrder
  <2>3. file' \in [Files -> InOrder] /\ dir' \in [Names -> Files \cup {None}]
    BY <2>1, <2>2, NewFileInOrder DEF IInv
  <2>4. last'.value \in Int
    BY <1>2 DEF FopenWrite, Returns
  <2> QED
    BY <1>2, <2>3, <2>4 DEF FopenWrite, IInv
<1>3. CASE Fdestroy(n)
  <2>1. last'.value \in Int
    BY <1>3 DEF Fdestroy, Returns
  <2> QED
    BY <1>3, <2>1, NewFileInOrder DEF Fdestroy, IInv
<1> QED
  BY <1>1, <1>2, <1>3 DEF DirectoryCall

LEMMA CallbackReturnsKeeps == ASSUME IInv, CallbackReturns PROVE IInv'
<1>1. Head(calls) \in Call /\ Tail(calls) \in Seq(Call)
  BY HeadTailProperties DEF CallbackReturns, IInv
<1> DEFINE f == Head(calls).file
<1>2. f \in Files /\ Head(calls).value \in Nat
  BY <1>1 DEF Call
<1>3. file' = [file EXCEPT ![f] = [file[f] EXCEPT !.error = 0]]
  BY DEF CallbackReturns, IInv
<1> DEFINE r == [file[f] EXCEPT !.error = 0]
<1>4. r \in InOrder /\ file' = [file EXCEPT ![f] = r]
  BY <1>2, <1>3, FlagsInOrder DEF IInv
<1>5. last'.value \in Int /\ calls' = Tail(calls) /\ UNCHANGED <<dir, read, overrun>>
  BY <1>2 DEF CallbackReturns, Returns
<1> HIDE DEF r, f
<1> QED
  BY <1>1, <1>2, <1>4, <1>5 DEF IInv

LEMMA NextKeepsIInv == ~MayFail /\ IInv /\ [Next]_vars => IInv'
<1> SUFFICES ASSUME ~MayFail, IInv, [Next]_vars PROVE IInv'
  OBVIOUS
<1>1. ASSUME NEW f \in Live, FileCall(f) PROVE IInv'
  BY <1>1, LiveAreFiles, FileCallKeeps
<1>2. CASE UNCHANGED vars
  BY <1>2 DEF vars, IInv
<1> QED
  BY <1>1, <1>2, DirectoryCallKeeps, CallbackReturnsKeeps DEF Next

\* The strengthened invariant holds in every reachable state.
LEMMA Inductive == ~MayFail => (Spec => []IInv)
<1> SUFFICES ASSUME ~MayFail PROVE Spec => []IInv
  OBVIOUS
<1>1. IInv /\ [Next]_vars => IInv'
  BY NextKeepsIInv
<1> QED
  BY <1>1, InitIInv, PTL DEF Spec

-----------------------------------------------------------------------------
\* Types: sizes in their bound, positions not negative, only live objects named.
THEOREM TypeCorrect == ~MayFail => (Spec => []TypeOK)
<1> SUFFICES ASSUME ~MayFail PROVE Spec => []TypeOK
  OBVIOUS
<1>1. IInv => TypeOK
  <2> SUFFICES ASSUME IInv PROVE TypeOK
    OBVIOUS
  <2>1. \A f \in Files : file[f] \in FileRecord
    BY DEF IInv, InOrder
  <2>2. \A f \in Files : /\ file[f].size \in 0 .. MaxSize
                         /\ file[f].buffer \in Seq(Bytes \cup {Junk})
                         /\ file[f].head \in Nat
                         /\ file[f].error \in {0, -1, -2, -3}
                         /\ file[f].flags \subseteq Flag \cup Defined
    BY <2>1 DEF FileRecord
  <2> QED
    BY <2>2 DEF IInv, TypeOK, Call
<1> QED
  BY <1>1, Inductive, PTL

\* As long as realloc finds memory no transfer leaves its buffer, whatever calls
\* come before it and whatever the callbacks do.
THEOREM BuffersHold == ~MayFail => (Spec => []AccessesStayInBuffer)
<1> SUFFICES ASSUME ~MayFail PROVE Spec => []AccessesStayInBuffer
  OBVIOUS
<1>1. IInv => AccessesStayInBuffer
  BY DEF IInv, AccessesStayInBuffer, InOrder
<1> QED
  BY <1>1, Inductive, PTL

-----------------------------------------------------------------------------
(* The refinement of FileStore.                                             *)

Content(r) == SubSeq(r.buffer, 1, r.size)
Contents   == [f \in Files |-> Content(file[f])]
Heads      == [f \in Files |-> file[f].head]
FlagsOf    == [f \in Files |-> file[f].flags \cap Flag]

\* The content of a file in order is its buffer up to its size.
LEMMA ContentIs ==
  ASSUME NEW r \in InOrder
  PROVE  /\ Content(r) \in Seq(Bytes \cup {Junk})
         /\ Len(Content(r)) = r.size
         /\ \A i \in 1 .. r.size : Content(r)[i] = r.buffer[i]
         /\ r.size \in 0 .. MaxSize /\ r.size \in Nat /\ r.head \in Nat /\ r.head <= r.size
         /\ r.buffer \in Seq(Bytes \cup {Junk})
         /\ Len(r.buffer) \in Nat /\ r.size <= Len(r.buffer)
<1>1. /\ r.size \in 0 .. MaxSize /\ r.size \in Nat /\ r.head \in Nat /\ r.head <= r.size
      /\ r.buffer \in Seq(Bytes \cup {Junk}) /\ Len(r.buffer) \in Nat /\ r.size <= Len(r.buffer)
  BY BoundsAssumption, LenProperties DEF InOrder, FileRecord
<1>2. \A i \in 1 .. r.size : r.buffer[i] \in Bytes \cup {Junk}
  <2> TAKE i \in 1 .. r.size
  <2>1. i \in 1 .. Len(r.buffer)
    BY <1>1
  <2> QED
    BY <1>1, <2>1, ElementOfSeq
<1>3. /\ SubSeq(r.buffer, 1, r.size) \in Seq(Bytes \cup {Junk})
      /\ Len(SubSeq(r.buffer, 1, r.size)) = IF 1 <= r.size THEN r.size - 1 + 1 ELSE 0
      /\ \A i \in 1 .. r.size - 1 + 1 : SubSeq(r.buffer, 1, r.size)[i] = r.buffer[1 + i - 1]
  BY <1>1, <1>2, SubSeqProperties, SMTT(30)
<1> QED
  BY <1>1, <1>3 DEF Content

\* Files with the same buffer and size have the same content.
LEMMA SameContent ==
  ASSUME NEW r, NEW q, r.buffer = q.buffer, r.size = q.size
  PROVE  Content(r) = Content(q)
  BY DEF Content

\* The variables of FileStore, now and after the step.
LEMMA StoreVars ==
  /\ Store!vars = <<dir, Contents, Heads, FlagsOf, read>>
  /\ Store!vars' = <<dir', Contents', Heads', FlagsOf', read'>>
  BY DEF Store!vars, Contents, Content, Heads, FlagsOf

\* A call that leaves r behind at f changes the content, the position and the
\* flags of f and of no other file.
LEMMA OneFile ==
  ASSUME IInv, NEW f \in Files, NEW r \in InOrder, file' = [file EXCEPT ![f] = r]
  PROVE  /\ Contents' = [Contents EXCEPT ![f] = Content(r)]
         /\ Heads' = [Heads EXCEPT ![f] = r.head]
         /\ FlagsOf' = [FlagsOf EXCEPT ![f] = r.flags \cap Flag]
         /\ Contents[f] = Content(file[f]) /\ Contents'[f] = Content(r)
         /\ \A g \in Files \ {f} : Contents'[g] = Contents[g]
         /\ Heads[f] = file[f].head /\ FlagsOf[f] = file[f].flags \cap Flag
         /\ file[f] \in InOrder
<1>1. \A g \in Files : file'[g] = IF g = f THEN r ELSE file[g]
  BY DEF IInv
<1>2. Contents' = [g \in Files |-> Content(file'[g])] /\ Contents = [g \in Files |-> Content(file[g])]
  BY DEF Contents, Content
<1>3. Contents' = [Contents EXCEPT ![f] = Content(r)]
  <2>1. \A g \in Files : Content(file'[g]) = IF g = f THEN Content(r) ELSE Content(file[g])
    BY <1>1
  <2> QED
    BY <1>2, <2>1
<1>4. Heads' = [Heads EXCEPT ![f] = r.head] /\ FlagsOf' = [FlagsOf EXCEPT ![f] = r.flags \cap Flag]
  <2>1. \A g \in Files : /\ file'[g].head = IF g = f THEN r.head ELSE file[g].head
                         /\ file'[g].flags \cap Flag = IF g = f THEN r.flags \cap Flag ELSE file[g].flags \cap Flag
    BY <1>1
  <2> QED
    BY <2>1 DEF Heads, FlagsOf
<1> QED
  BY <1>3, <1>4 DEF Contents, Heads, FlagsOf, IInv

\* A call that leaves a file as it was, but for its error and its callbacks.
LEMMA SameFile ==
  ASSUME IInv, NEW f \in Files, NEW r \in InOrder, file' = [file EXCEPT ![f] = r],
         r.buffer = file[f].buffer, r.size = file[f].size, r.head = file[f].head,
         r.flags \cap Flag = file[f].flags \cap Flag,
         UNCHANGED <<dir, read>>
  PROVE  UNCHANGED Store!vars
<1>1. Content(r) = Content(file[f])
  BY SameContent
<1>2. Contents' = Contents /\ Heads' = Heads /\ FlagsOf' = FlagsOf
  BY <1>1, OneFile DEF Contents, Heads, FlagsOf
<1> QED
  BY <1>2, StoreVars

LEMMA InitRefines == Init => Store!Init
<1> SUFFICES ASSUME Init PROVE Store!Init
  OBVIOUS
<1>1. SubSeq(<<>>, 1, 0) = <<>>
  BY SubSeqEmpty
<1>2. \A f \in Files : /\ file[f].buffer = <<>> /\ file[f].size = 0
                       /\ file[f].head = 0 /\ file[f].flags = {}
  BY DEF Init, NewFile
<1> QED
  BY <1>1, <1>2 DEF Init, Store!Init

\* A read takes what the content holds from the position on.
LEMMA FreadRefines ==
  ASSUME IInv, NEW f \in Files, NEW size \in Nat, NEW count \in Nat, Fread(f, size, count)
  PROVE  Store!Read(f)
<1> DEFINE n == ReadCount(f, size, count)
           start == file[f].head
           end == start + size * n
           r == [file[f] EXCEPT !.head = end]
           c == Content(file[f])
<1>1. /\ c \in Seq(Bytes \cup {Junk}) /\ Len(c) = file[f].size
      /\ \A i \in 1 .. file[f].size : c[i] = file[f].buffer[i]
      /\ file[f].size \in Nat /\ start \in Nat /\ start <= file[f].size
      /\ file[f].buffer \in Seq(Bytes \cup {Junk})
      /\ Len(file[f].buffer) \in Nat /\ file[f].size <= Len(file[f].buffer)
      /\ file[f] \in InOrder
  BY ContentIs DEF IInv
<1>2. size * n \in Nat /\ end <= file[f].size
  BY ReadStays
<1>3. end \in Nat /\ start <= end /\ end <= Len(file[f].buffer)
  BY <1>1, <1>2
<1>4. /\ read' = SubSeq(file[f].buffer, start + 1, end)
      /\ Transferred(f, "read", r, n)
      /\ UNCHANGED dir
      /\ "opened" \in file[f].flags /\ "writeonly" \notin file[f].flags
  BY <1>3 DEF Fread, Is
<1>5. \E q \in InOrder : file' = [file EXCEPT ![f] = q] /\ q.head = end /\ q.buffer = file[f].buffer
                         /\ q.size = file[f].size /\ q.flags = file[f].flags
  <2> HIDE DEF end
  <2>1. /\ r \in InOrder /\ r.head = end /\ r.buffer = file[f].buffer
        /\ r.size = file[f].size /\ r.flags = file[f].flags
    BY <1>1, <1>2, <1>3 DEF InOrder, FileRecord
  <2>2. file' = [file EXCEPT ![f] = r] \/ file' = [file EXCEPT ![f] = [r EXCEPT !.error = 0]]
    BY <1>4 DEF Transferred
  <2> HIDE DEF r
  <2> DEFINE q == [r EXCEPT !.error = 0]
  <2>3. /\ q \in InOrder /\ q.head = end /\ q.buffer = file[f].buffer
        /\ q.size = file[f].size /\ q.flags = file[f].flags
    BY <2>1 DEF InOrder, FileRecord
  <2>4. file' = [file EXCEPT ![f] = r] \/ file' = [file EXCEPT ![f] = q]
    BY <2>2
  <2> HIDE DEF q
  <2> QED
    BY <2>1, <2>3, <2>4
<1>6. PICK q \in InOrder : file' = [file EXCEPT ![f] = q] /\ q.head = end /\ q.buffer = file[f].buffer
                           /\ q.size = file[f].size /\ q.flags = file[f].flags
  BY <1>5
<1>7. Content(q) = c
  BY <1>6, SameContent
<1> HIDE DEF end, c
<1>8. /\ Contents' = Contents /\ FlagsOf' = FlagsOf
      /\ Heads' = [Heads EXCEPT ![f] = end]
      /\ Contents[f] = c /\ Heads[f] = start /\ FlagsOf[f] = file[f].flags \cap Flag
  <2>1. /\ Contents' = [Contents EXCEPT ![f] = c]
        /\ Heads' = [Heads EXCEPT ![f] = end]
        /\ FlagsOf' = [FlagsOf EXCEPT ![f] = file[f].flags \cap Flag]
        /\ Contents[f] = c /\ Heads[f] = start /\ FlagsOf[f] = file[f].flags \cap Flag
    <3>1. /\ Contents' = [Contents EXCEPT ![f] = Content(q)]
          /\ Heads' = [Heads EXCEPT ![f] = q.head]
          /\ FlagsOf' = [FlagsOf EXCEPT ![f] = q.flags \cap Flag]
          /\ Contents[f] = Content(file[f]) /\ Heads[f] = file[f].head
          /\ FlagsOf[f] = file[f].flags \cap Flag
      BY <1>6, OneFile
    <3>2. c = Content(file[f])
      BY DEF c
    <3> QED
      BY <1>6, <1>7, <3>1, <3>2
  <2>2. Contents' = Contents
    BY <2>1 DEF Contents
  <2>3. FlagsOf' = FlagsOf
    BY <2>1 DEF FlagsOf
  <2> QED
    BY <2>1, <2>2, <2>3
<1>9. read' = SubSeq(c, start + 1, end)
  <2>1. \A i \in start + 1 .. end : i \in 1 .. Len(c) /\ i \in 1 .. Len(file[f].buffer)
    BY <1>1, <1>2, <1>3, SMTT(30)
  <2>2. \A i \in start + 1 .. end : c[i] \in Bytes \cup {Junk} /\ file[f].buffer[i] \in Bytes \cup {Junk}
    BY <1>1, <2>1, ElementOfSeq
  <2>3. start + 1 \in Int /\ end \in Int
    BY <1>1, <1>3
  <2> DEFINE m == IF start + 1 <= end THEN end - (start + 1) + 1 ELSE 0
             x == SubSeq(c, start + 1, end)
             y == SubSeq(file[f].buffer, start + 1, end)
  <2>4. /\ x \in Seq(Bytes \cup {Junk}) /\ Len(x) = m
        /\ \A i \in 1 .. end - (start + 1) + 1 : x[i] = c[(start + 1) + i - 1]
    BY <2>2, <2>3, SubSeqProperties
  <2>5. /\ y \in Seq(Bytes \cup {Junk}) /\ Len(y) = m
        /\ \A i \in 1 .. end - (start + 1) + 1 : y[i] = file[f].buffer[(start + 1) + i - 1]
    BY <2>2, <2>3, SubSeqProperties
  <2> HIDE DEF x, y
  <2>6. \A i \in 1 .. m : x[i] = y[i]
    <3> TAKE i \in 1 .. m
    <3>1. m = end - start /\ end - (start + 1) + 1 = end - start
      BY <1>1, <1>3
    <3> HIDE DEF m, start
    <3>2. i \in 1 .. end - (start + 1) + 1 /\ i \in Nat /\ i <= end - start
      BY <1>1, <1>3, <3>1
    <3>3. (start + 1) + i - 1 = start + i /\ start + i \in 1 .. file[f].size
      BY <1>1, <1>2, <1>3, <3>2
    <3> QED
      BY <1>1, <2>4, <2>5, <3>2, <3>3
  <2>7. x = y
    BY <2>4, <2>5, <2>6, SeqEqual
  <2> QED
    BY <1>4, <2>7 DEF x, y
<1>10. \E j \in 0 .. Len(Contents[f]) - Heads[f] :
         /\ read' = SubSeq(Contents[f], Heads[f] + 1, Heads[f] + j)
         /\ Heads' = [Heads EXCEPT ![f] = Heads[f] + j]
  <2>1. end - start \in 0 .. Len(c) - start /\ start + (end - start) = end
    BY <1>1, <1>2, <1>3, SMTT(30)
  <2> QED
    BY <1>8, <1>9, <2>1
<1>11. "opened" \in FlagsOf[f] /\ "writeonly" \notin FlagsOf[f]
  BY <1>4, <1>8 DEF Flag
<1> QED
  BY <1>4, <1>8, <1>10, <1>11 DEF Store!Read, Contents, Content, Heads, FlagsOf

\* The content after a write: what was there up to the position, the new bytes, and
\* what was there after them, if anything was.
LEMMA WrittenContent ==
  ASSUME NEW r \in InOrder, NEW end \in 0 .. MaxSize, r.head <= end,
         NEW b \in Seq(Bytes \cup {Junk}), end <= Len(b), Len(r.buffer) <= Len(b),
         \A i \in 1 .. Len(r.buffer) : b[i] = r.buffer[i],
         NEW s \in [r.head + 1 .. end -> Bytes]
  PROVE  \E t \in [1 .. end - r.head -> Bytes \cup {Junk}] :
           Content(Written(r, b, s, end)) =
             Store!First(Content(r), r.head) \o t \o Store!From(Content(r), end)
<1> DEFINE S == Bytes \cup {Junk}
           h == r.head
           z == r.size
           c == Content(r)
           q == Written(r, b, s, end)
           d == Content(q)
           t == [i \in 1 .. end - h |-> s[h + i]]
           A == SubSeq(c, 1, h)
           C == SubSeq(c, end + 1, z)
<1>1. /\ c \in Seq(S) /\ Len(c) = z /\ \A i \in 1 .. z : c[i] = r.buffer[i]
      /\ z \in Nat /\ h \in Nat /\ h <= z /\ Len(r.buffer) \in Nat /\ z <= Len(r.buffer)
      /\ end \in Nat /\ Len(b) \in Nat
  BY ContentIs, BoundsAssumption, LenProperties
<1>2. q \in InOrder
  BY WrittenInOrder
<1>3. /\ q.size = (IF end > z THEN end ELSE z)
      /\ \A i \in 1 .. Len(b) : q.buffer[i] = IF i \in h + 1 .. end THEN s[i] ELSE b[i]
  <2>1. DOMAIN b = 1 .. Len(b) /\ DOMAIN s = h + 1 .. end
    BY LenProperties
  <2>2. /\ q.size = (IF end > r.size THEN end ELSE r.size)
        /\ q.buffer = [i \in DOMAIN b |-> IF i \in DOMAIN s THEN s[i] ELSE b[i]]
    BY DEF Written, InOrder, FileRecord
  <2> QED
    BY <2>1, <2>2
<1>4. /\ d \in Seq(S) /\ Len(d) = q.size /\ \A i \in 1 .. q.size : d[i] = q.buffer[i]
      /\ q.size \in Nat
  BY <1>2, ContentIs
<1> HIDE DEF q, d, c
<1>5. /\ end - h \in Nat
      /\ t \in [1 .. end - h -> Bytes] /\ t \in Seq(S) /\ Len(t) = end - h
      /\ \A i \in 1 .. end - h : t[i] = s[h + i]
  <2>1. \A i \in 1 .. end - h : s[h + i] \in Bytes
    <3> TAKE i \in 1 .. end - h
    <3>1. h + i \in h + 1 .. end
      BY <1>1
    <3> QED
      BY <3>1
  <2>2. end - h \in Nat
    BY <1>1
  <2>3. t \in [1 .. end - h -> Bytes]
    BY <2>1
  <2>4. t \in Seq(S) /\ Len(t) = end - h
    BY <2>1, <2>2, SMTT(30)
  <2> QED
    BY <2>2, <2>3, <2>4
<1>6. A \in Seq(S) /\ Len(A) = h /\ \A i \in 1 .. h : A[i] = c[i]
  <2>1. \A i \in 1 .. h : c[i] \in S
    <3> TAKE i \in 1 .. h
    <3>1. i \in 1 .. Len(c)
      BY <1>1
    <3> QED
      BY <1>1, <3>1, ElementOfSeq
  <2>2. /\ A \in Seq(S) /\ Len(A) = IF 1 <= h THEN h - 1 + 1 ELSE 0
        /\ \A i \in 1 .. h - 1 + 1 : A[i] = c[1 + i - 1]
    BY <1>1, <2>1, SubSeqProperties
  <2> HIDE DEF A, h
  <2> QED
    BY <1>1, <2>2
<1>7. /\ C \in Seq(S) /\ Len(C) = (IF end < z THEN z - end ELSE 0)
      /\ \A i \in 1 .. z - end : C[i] = c[end + i]
  <2>1. \A i \in end + 1 .. z : c[i] \in S
    <3> TAKE i \in end + 1 .. z
    <3>1. i \in 1 .. Len(c)
      BY <1>1
    <3> QED
      BY <1>1, <3>1, ElementOfSeq
  <2>2. /\ C \in Seq(S) /\ Len(C) = IF end + 1 <= z THEN z - (end + 1) + 1 ELSE 0
        /\ \A i \in 1 .. z - (end + 1) + 1 : C[i] = c[(end + 1) + i - 1]
    BY <1>1, <2>1, SubSeqProperties
  <2>3. /\ (IF end + 1 <= z THEN z - (end + 1) + 1 ELSE 0) = (IF end < z THEN z - end ELSE 0)
        /\ z - (end + 1) + 1 = z - end
        /\ \A i \in 1 .. z - end : (end + 1) + i - 1 = end + i
    BY <1>1
  <2> HIDE DEF C, z
  <2> QED
    BY <2>2, <2>3
<1> HIDE DEF A, C, t
<1> DEFINE v == A \o t
           e == v \o C
<1>8. /\ v \in Seq(S) /\ Len(v) = end
      /\ \A i \in 1 .. end : v[i] = IF i <= h THEN A[i] ELSE t[i - h]
  <2>1. /\ A \o t \in Seq(S) /\ Len(A \o t) = Len(A) + Len(t)
        /\ \A i \in 1 .. Len(A) + Len(t) : (A \o t)[i] = IF i <= Len(A) THEN A[i] ELSE t[i - Len(A)]
    BY <1>5, <1>6, ConcatProperties, ZenonT(30)
  <2>2. Len(A) + Len(t) = end
    BY <1>1, <1>5, <1>6
  <2> QED
    BY <1>6, <2>1, <2>2
<1> HIDE DEF v
<1>9. /\ e \in Seq(S) /\ Len(e) = end + Len(C)
      /\ \A i \in 1 .. end + Len(C) : e[i] = IF i <= end THEN v[i] ELSE C[i - end]
  <2>1. /\ v \o C \in Seq(S) /\ Len(v \o C) = Len(v) + Len(C)
        /\ \A i \in 1 .. Len(v) + Len(C) : (v \o C)[i] = IF i <= Len(v) THEN v[i] ELSE C[i - Len(v)]
    <3>1. v \in Seq(S) /\ C \in Seq(S)
      BY <1>7, <1>8
    <3> HIDE DEF S
    <3> QED
      BY <3>1, ConcatProperties
  <2>2. e = v \o C
    OBVIOUS
  <2> HIDE DEF e
  <2> QED
    BY <1>8, <2>1, <2>2
<1> HIDE DEF e
<1>10. Len(e) = q.size
  BY <1>1, <1>3, <1>7, <1>9
<1>11. ASSUME NEW i \in 1 .. q.size PROVE d[i] = e[i]
  <2>1. /\ i \in Nat /\ i >= 1 /\ i \in 1 .. end + Len(C) /\ i \in 1 .. Len(b)
        /\ d[i] = IF i \in h + 1 .. end THEN s[i] ELSE b[i]
    BY <1>1, <1>3, <1>4, <1>9, <1>10
  <2>2. CASE i <= h
    <3>1. i \in 1 .. h /\ i \in 1 .. end /\ i \in 1 .. z /\ i \in 1 .. Len(r.buffer) /\ i \notin h + 1 .. end
      BY <1>1, <2>1, <2>2
    <3>2. d[i] = c[i]
      BY <1>1, <2>1, <3>1
    <3>3. v[i] = A[i]
      BY <1>8, <2>2, <3>1
    <3>4. e[i] = v[i]
      BY <1>9, <2>1, <3>1
    <3> QED
      BY <1>6, <3>1, <3>2, <3>3, <3>4
  <2>3. CASE h < i /\ i <= end
    <3>1. i \in h + 1 .. end /\ i \in 1 .. end /\ i - h \in 1 .. end - h /\ ~(i <= h) /\ h + (i - h) = i
      BY <1>1, <2>1, <2>3
    <3>2. v[i] = t[i - h]
      BY <1>8, <3>1
    <3>3. e[i] = v[i]
      BY <1>9, <2>1, <3>1
    <3>4. t[i - h] = s[i]
      BY <1>5, <3>1
    <3> QED
      BY <2>1, <3>1, <3>2, <3>3, <3>4
  <2>4. CASE end < i
    <3>1. i <= z
      BY <1>3, <1>1, <2>1, <2>4
    <3>2. i \notin h + 1 .. end /\ i \in 1 .. z /\ i \in 1 .. Len(r.buffer)
          /\ i - end \in 1 .. z - end /\ end + (i - end) = i /\ ~(i <= end)
      BY <1>1, <2>1, <2>4, <3>1
    <3>3. e[i] = C[i - end]
      BY <1>9, <2>1, <3>2
    <3>4. C[i - end] = c[i]
      BY <1>7, <3>2
    <3> QED
      BY <1>1, <2>1, <3>2, <3>3, <3>4
  <2> QED
    BY <1>1, <2>1, <2>2, <2>3, <2>4
<1>12. d = e
  BY <1>4, <1>9, <1>10, <1>11, SeqEqual
<1>13. t \in [1 .. end - h -> S]
  BY <1>5
<1>14. d = Store!First(c, h) \o t \o Store!From(c, end)
  BY <1>1, <1>12 DEF e, v, A, C, Store!First, Store!From
<1> QED
  BY <1>13, <1>14 DEF d, q, c

\* A transfer leaves the file that it made, but perhaps for its error.
LEMMA TransferredFile ==
  ASSUME IInv, NEW f \in Files, NEW o \in {"read", "write"}, NEW r \in InOrder, NEW v,
         Transferred(f, o, r, v)
  PROVE  \E q \in InOrder : /\ file' = [file EXCEPT ![f] = q]
                            /\ q.head = r.head /\ q.buffer = r.buffer /\ q.size = r.size /\ q.flags = r.flags
<1> DEFINE q == [r EXCEPT !.error = 0]
<1>1. q \in InOrder /\ q.head = r.head /\ q.buffer = r.buffer /\ q.size = r.size /\ q.flags = r.flags
  BY DEF InOrder, FileRecord
<1>2. file' = [file EXCEPT ![f] = r] \/ file' = [file EXCEPT ![f] = q]
  BY DEF Transferred
<1> HIDE DEF q
<1> QED
  BY <1>1, <1>2

\* A write puts the bytes of some sequence where the position is.
LEMMA FwriteRefines ==
  ASSUME IInv, ~MayFail, NEW f \in Files, NEW size \in Nat, NEW count \in Nat,
         Fwrite(f, size, count)
  PROVE  Store!Write(f)
<1> DEFINE start == file[f].head
           end == start + size * count
<1>1. /\ file[f] \in InOrder /\ start \in Nat /\ size * count \in Nat
      /\ "opened" \in file[f].flags /\ "readonly" \notin file[f].flags
      /\ end <= MaxSize
  <2>1. file[f] \in InOrder /\ start \in Nat
    BY DEF IInv, InOrder, FileRecord
  <2>2. "opened" \in file[f].flags /\ "readonly" \notin file[f].flags
    BY DEF Fwrite, Is
  <2>3. end <= MaxSize
    BY DEF Fwrite
  <2>4. size * count \in Nat
    OBVIOUS
  <2> HIDE DEF end
  <2> QED
    BY <2>1, <2>2, <2>3, <2>4
<1>2. end \in 0 .. MaxSize /\ end \in Nat /\ start <= end
  <2>1. end \in Nat /\ start <= end
    BY <1>1
  <2> HIDE DEF end
  <2> QED
    BY <1>1, <2>1, BoundsAssumption
<1>3. PICK b \in Room(f, end) :
        IF end <= Len(b)
        THEN /\ \E s \in [start + 1 .. end -> Bytes] :
                  Transferred(f, "write", Written(file[f], b, s, end), count)
             /\ UNCHANGED <<dir, read, overrun>>
        ELSE overrun' = TRUE
  BY DEF Fwrite, Written
<1>4. /\ b \in Seq(Bytes \cup {Junk}) /\ Len(b) \in Nat /\ end <= Len(b)
      /\ Len(file[f].buffer) <= Len(b)
      /\ \A i \in 1 .. Len(file[f].buffer) : b[i] = file[f].buffer[i]
  BY <1>2, RoomFits
<1>5. PICK s \in [start + 1 .. end -> Bytes] :
        Transferred(f, "write", Written(file[f], b, s, end), count)
  BY <1>3, <1>4
<1>6. UNCHANGED <<dir, read>>
  BY <1>3, <1>4
<1> HIDE DEF end
<1> DEFINE r == Written(file[f], b, s, end)
<1>7. r \in InOrder
  BY <1>1, <1>2, <1>4, <1>5, WrittenInOrder
<1>8. r.head = end /\ r.flags = file[f].flags /\ end <= r.size
  BY <1>1, <1>2, ContentIs DEF Written, InOrder, FileRecord
<1>9. PICK t \in [1 .. end - start -> Bytes \cup {Junk}] :
        Content(r) = Store!First(Content(file[f]), start) \o t \o Store!From(Content(file[f]), end)
  BY <1>1, <1>2, <1>4, <1>5, WrittenContent
<1> HIDE DEF r
<1>10. PICK q \in InOrder : /\ file' = [file EXCEPT ![f] = q]
                            /\ q.head = r.head /\ q.buffer = r.buffer /\ q.size = r.size /\ q.flags = r.flags
  BY <1>5, <1>7, TransferredFile DEF r
<1>11. Content(q) = Content(r) /\ Len(Content(r)) = r.size
  BY <1>7, <1>10, SameContent, ContentIs
<1>12. /\ Contents' = [Contents EXCEPT ![f] = Content(r)] /\ Contents'[f] = Content(r)
       /\ Heads' = [Heads EXCEPT ![f] = end]
       /\ FlagsOf' = [FlagsOf EXCEPT ![f] = q.flags \cap Flag]
       /\ Contents[f] = Content(file[f]) /\ Heads[f] = start
       /\ FlagsOf[f] = file[f].flags \cap Flag
  <2>1. /\ Contents' = [Contents EXCEPT ![f] = Content(q)]
        /\ Heads' = [Heads EXCEPT ![f] = q.head]
        /\ FlagsOf' = [FlagsOf EXCEPT ![f] = q.flags \cap Flag]
        /\ Contents[f] = Content(file[f]) /\ Contents'[f] = Content(q)
        /\ Heads[f] = file[f].head /\ FlagsOf[f] = file[f].flags \cap Flag
    BY <1>10, OneFile, ZenonT(30)
  <2> HIDE DEF Content
  <2> QED
    BY <1>8, <1>10, <1>11, <2>1
<1>13. FlagsOf' = FlagsOf
  BY <1>8, <1>10, <1>12 DEF FlagsOf
<1>14. "opened" \in FlagsOf[f] /\ "readonly" \notin FlagsOf[f]
  BY <1>1, <1>12 DEF Flag
<1>15. /\ end - start \in 0 .. Len(Contents'[f])
       /\ Heads' = [Heads EXCEPT ![f] = Heads[f] + (end - start)]
       /\ Heads[f] + (end - start) = end
  <2>1. Heads[f] = start /\ Len(Contents'[f]) = r.size /\ r.size \in Nat
    BY <1>7, <1>11, <1>12, ContentIs
  <2> HIDE DEF start
  <2>2. end - start \in 0 .. r.size /\ start + (end - start) = end
    BY <1>1, <1>2, <1>8, <2>1
  <2> QED
    BY <1>12, <2>1, <2>2
<1>16. \E k \in 0 .. Len(Contents'[f]) :
         /\ Heads' = [Heads EXCEPT ![f] = Heads[f] + k]
         /\ \E u \in [1 .. k -> Bytes \cup {Junk}] :
              Contents' = [Contents EXCEPT ![f] =
                Store!First(Contents[f], Heads[f]) \o u \o Store!From(Contents[f], Heads[f] + k)]
  BY <1>9, <1>12, <1>15
<1> QED
  BY <1>6, <1>13, <1>14, <1>16 DEF Store!Write, Contents, Content, Heads, FlagsOf

\* A call that refuses or answers, and a callback's return, are no step of the store.
LEMMA SilentSteps ==
  ASSUME IInv, NEW f \in Files, NEW e \in {-1, -2, -3, 0},
         file' = [file EXCEPT ![f].error = e], UNCHANGED <<dir, read>>
  PROVE  UNCHANGED Store!vars
<1> DEFINE r == [file[f] EXCEPT !.error = e]
<1>1. file[f] \in InOrder
  BY DEF IInv
<1>2. /\ r \in InOrder /\ r.buffer = file[f].buffer /\ r.size = file[f].size
      /\ r.head = file[f].head /\ r.flags = file[f].flags
  BY <1>1 DEF InOrder, FileRecord
<1>3. file' = [file EXCEPT ![f] = r]
  BY DEF IInv
<1> HIDE DEF r
<1> QED
  BY <1>2, <1>3, SameFile

\* A change of flags and callbacks changes nothing else.
LEMMA FlagsRefine ==
  ASSUME IInv, NEW f \in Files, NEW s \in SUBSET (Flag \cup Defined),
         file' = [file EXCEPT ![f] = [file[f] EXCEPT !.flags = s]], UNCHANGED <<dir, read>>
  PROVE  Store!SetFlags(f)
<1> DEFINE q == [file[f] EXCEPT !.flags = s]
<1>1. file[f] \in InOrder
  BY DEF IInv
<1>2. /\ q \in InOrder /\ q.buffer = file[f].buffer /\ q.size = file[f].size
      /\ q.head = file[f].head /\ file' = [file EXCEPT ![f] = q]
  BY <1>1 DEF InOrder, FileRecord
<1> HIDE DEF q
<1>3. Content(q) = Content(file[f])
  BY <1>2, SameContent
<1>4. /\ Contents' = [Contents EXCEPT ![f] = Content(q)]
      /\ Heads' = [Heads EXCEPT ![f] = q.head]
      /\ FlagsOf' = [FlagsOf EXCEPT ![f] = q.flags \cap Flag]
      /\ Contents[f] = Content(file[f]) /\ Heads[f] = file[f].head
  BY <1>2, OneFile
<1>5. Contents' = Contents /\ Heads' = Heads /\ q.flags \cap Flag \in SUBSET Flag
  BY <1>2, <1>3, <1>4 DEF Contents, Heads
<1> QED
  BY <1>4, <1>5 DEF Store!SetFlags, Store!Flag, Flag, Contents, Content, Heads, FlagsOf

\* A seek moves the position into the file.
LEMMA MoveRefines ==
  ASSUME IInv, NEW f \in Files, NEW p \in 0 .. file[f].size,
         file' = [file EXCEPT ![f].head = p, ![f].error = 0], UNCHANGED <<dir, read>>
  PROVE  Store!Move(f)
<1>1. /\ file[f] \in InOrder /\ file[f].size \in Nat
      /\ Len(Content(file[f])) = file[f].size
      /\ p \in Nat /\ p <= file[f].size
  <2>1. /\ file[f] \in InOrder /\ file[f].size \in Nat
        /\ Len(Content(file[f])) = file[f].size
    BY ContentIs DEF IInv
  <2> QED
    BY <2>1
<1> DEFINE r == [file[f] EXCEPT !.head = p, !.error = 0]
<1>2. /\ r \in InOrder /\ r.buffer = file[f].buffer /\ r.size = file[f].size
      /\ r.head = p /\ r.flags = file[f].flags
  BY <1>1 DEF InOrder, FileRecord
<1>3. file' = [file EXCEPT ![f] = r]
  BY DEF IInv
<1> HIDE DEF r
<1>4. Content(r) = Content(file[f])
  BY <1>2, SameContent
<1>5. /\ Contents' = [Contents EXCEPT ![f] = Content(r)]
      /\ Heads' = [Heads EXCEPT ![f] = r.head]
      /\ FlagsOf' = [FlagsOf EXCEPT ![f] = r.flags \cap Flag]
      /\ Contents[f] = Content(file[f]) /\ FlagsOf[f] = file[f].flags \cap Flag
  BY <1>2, <1>3, OneFile
<1>6. Contents' = Contents /\ FlagsOf' = FlagsOf
  BY <1>2, <1>4, <1>5 DEF Contents, FlagsOf
<1>7. p \in 0 .. Len(Contents[f]) /\ Heads' = [Heads EXCEPT ![f] = p]
  BY <1>1, <1>2, <1>5
<1> QED
  BY <1>6, <1>7 DEF Store!Move, Contents, Content, Heads, FlagsOf

\* Sequences that agree up to k have the same first k elements.
LEMMA SameFirst ==
  ASSUME NEW S, NEW c \in Seq(S), NEW d \in Seq(S), NEW k \in Nat, k <= Len(c), k <= Len(d),
         \A i \in 1 .. k : c[i] = d[i]
  PROVE  SubSeq(c, 1, k) = SubSeq(d, 1, k)
<1> DEFINE x == SubSeq(c, 1, k)
           y == SubSeq(d, 1, k)
           m == IF 1 <= k THEN k - 1 + 1 ELSE 0
<1>1. \A i \in 1 .. k : i \in 1 .. Len(c) /\ i \in 1 .. Len(d)
  BY LenProperties
<1>2. \A i \in 1 .. k : c[i] \in S /\ d[i] \in S
  BY <1>1, ElementOfSeq
<1>3. x \in Seq(S) /\ Len(x) = m /\ \A i \in 1 .. k - 1 + 1 : x[i] = c[1 + i - 1]
  BY <1>2, SubSeqProperties
<1>4. y \in Seq(S) /\ Len(y) = m /\ \A i \in 1 .. k - 1 + 1 : y[i] = d[1 + i - 1]
  BY <1>2, SubSeqProperties
<1> HIDE DEF x, y
<1>5. m = k
  OBVIOUS
<1> HIDE DEF m
<1>6. \A i \in 1 .. k : x[i] = y[i]
  BY <1>3, <1>4
<1>7. x = y
  BY <1>3, <1>4, <1>5, <1>6, SeqEqual
<1> QED
  BY <1>7 DEF x, y

\* A new size keeps the bytes below it, and the position stays or moves to the end.
LEMMA ResizedRefines ==
  ASSUME IInv, NEW f \in Files, NEW q \in InOrder, file' = [file EXCEPT ![f] = q],
         q.flags = file[f].flags,
         \A i \in 1 .. Len(file[f].buffer) : q.buffer[i] = file[f].buffer[i],
         q.head = IF file[f].head > q.size THEN q.size ELSE file[f].head,
         UNCHANGED <<dir, read>>
  PROVE  Store!Resize(f)
<1> DEFINE c == Content(file[f])
           d == Content(q)
           k == IF Len(d) < Len(c) THEN Len(d) ELSE Len(c)
<1>1. /\ file[f] \in InOrder
      /\ c \in Seq(Bytes \cup {Junk}) /\ Len(c) = file[f].size
      /\ \A i \in 1 .. file[f].size : c[i] = file[f].buffer[i]
      /\ file[f].size \in Nat /\ Len(file[f].buffer) \in Nat
      /\ file[f].size <= Len(file[f].buffer) /\ file[f].head \in Nat
  BY ContentIs DEF IInv
<1>2. /\ d \in Seq(Bytes \cup {Junk}) /\ Len(d) = q.size /\ q.size \in Nat
      /\ \A i \in 1 .. q.size : d[i] = q.buffer[i]
  BY ContentIs
<1> HIDE DEF c, d
<1>3. k \in Nat /\ k <= Len(c) /\ k <= Len(d)
  BY <1>1, <1>2
<1>4. \A i \in 1 .. k : c[i] = d[i]
  <2> HIDE DEF k
  <2> TAKE i \in 1 .. k
  <2>1. i \in 1 .. file[f].size /\ i \in 1 .. q.size /\ i \in 1 .. Len(file[f].buffer)
    BY <1>1, <1>2, <1>3
  <2> QED
    BY <1>1, <1>2, <2>1
<1>5. SubSeq(d, 1, k) = SubSeq(c, 1, k)
  <2> HIDE DEF k
  <2> QED
    BY <1>1, <1>2, <1>3, <1>4, SameFirst
<1>6. /\ Contents[f] = c /\ Contents'[f] = d
      /\ \A g \in Files \ {f} : Contents'[g] = Contents[g]
      /\ Heads' = [Heads EXCEPT ![f] = q.head] /\ Heads[f] = file[f].head
      /\ FlagsOf' = [FlagsOf EXCEPT ![f] = q.flags \cap Flag]
      /\ FlagsOf[f] = file[f].flags \cap Flag
  BY OneFile, ZenonT(30) DEF c, d
<1>7. FlagsOf' = FlagsOf
  BY <1>6 DEF FlagsOf
<1>8. \/ Heads' = Heads
      \/ Heads[f] > Len(Contents'[f]) /\ Heads' = [Heads EXCEPT ![f] = Len(Contents'[f])]
  <2>1. CASE file[f].head > q.size
    BY <1>2, <1>6, <2>1
  <2>2. CASE ~(file[f].head > q.size)
    <3>1. q.head = Heads[f]
      BY <1>6, <2>2
    <3> QED
      BY <1>6, <3>1 DEF Heads
  <2> QED
    BY <2>1, <2>2
<1>9. LET kept == IF Len(Contents'[f]) < Len(Contents[f]) THEN Len(Contents'[f]) ELSE Len(Contents[f])
      IN  /\ Store!First(Contents'[f], kept) = Store!First(Contents[f], kept)
          /\ \A g \in Files \ {f} : Contents'[g] = Contents[g]
          /\ \/ Heads' = Heads
             \/ Heads[f] > Len(Contents'[f]) /\ Heads' = [Heads EXCEPT ![f] = Len(Contents'[f])]
          /\ UNCHANGED <<dir, FlagsOf, read>>
  BY <1>5, <1>6, <1>7, <1>8 DEF Store!First
<1> QED
  BY <1>9 DEF Store!Resize, Contents, Content, Heads, FlagsOf

LEMMA FileCallRefines ==
  ASSUME IInv, ~MayFail, NEW f \in Live, FileCall(f)
  PROVE  Store!Next \/ UNCHANGED Store!vars
<1>1. /\ f \in Files /\ file[f] \in InOrder
      /\ file[f].flags \in SUBSET (Flag \cup Defined)
      /\ file[f].size \in Nat /\ file[f].head \in Nat /\ file[f].head <= file[f].size
  BY LiveAreFiles, ContentIs DEF IInv, InOrder, FileRecord
<1>2. Store!Live = Live
  BY DEF Store!Live, Live
<1>3. /\ Store!Read(f) => Store!Next
      /\ Store!Write(f) => Store!Next
      /\ Store!Move(f) => Store!Next
      /\ Store!Resize(f) => Store!Next
      /\ Store!SetFlags(f) => Store!Next
  BY <1>2 DEF Store!Next
<1>4. ASSUME NEW t \in Transfers, Fread(f, t[1], t[2]) \/ Fwrite(f, t[1], t[2])
      PROVE  Store!Read(f) \/ Store!Write(f)
  <2>1. t[1] \in Nat /\ t[2] \in Nat
    BY TransfersAssumption
  <2> QED
    BY <1>1, <1>4, <2>1, FreadRefines, FwriteRefines
<1>5. ASSUME NEW o, NEW e \in {-1, -2, -3}, Refuses(f, o, e)
      PROVE  UNCHANGED Store!vars
  BY <1>1, <1>5, SilentSteps DEF Refuses
<1>6. CASE RefuseClosed(f) \/ RefuseMode(f)
  BY <1>5, <1>6 DEF RefuseClosed, RefuseMode
<1>7. ASSUME NEW d \in Offsets, NEW o \in Origins, Fseek(f, d, o)
      PROVE  Store!Move(f) \/ UNCHANGED Store!vars
  <2> DEFINE to == (CASE o = "SEEK_SET" -> 0
                      [] o = "SEEK_END" -> file[f].size
                      [] OTHER -> file[f].head) + d
  <2>1. \/ \E e \in {-1, -2, -3} : Refuses(f, "seek", e)
        \/ /\ InFile(f, to)
           /\ file' = [file EXCEPT ![f].head = to, ![f].error = 0]
           /\ UNCHANGED <<dir, read>>
    BY <1>7 DEF Fseek
  <2> HIDE DEF to
  <2> QED
    BY <1>1, <1>5, <2>1, MoveRefines DEF InFile
<1>8. CASE Rewind(f)
  <2>1. 0 \in 0 .. file[f].size
    BY <1>1
  <2>2. file' = [file EXCEPT ![f].head = 0, ![f].error = 0] /\ UNCHANGED <<dir, read>>
    BY <1>8 DEF Rewind
  <2>3. Store!Move(f)
    BY <1>1, <2>1, <2>2, MoveRefines
  <2> QED
    BY <1>3, <2>3
<1>9. CASE Answer(f)
  <2>1. file' = [file EXCEPT ![f].error = 0] /\ UNCHANGED <<dir, read>>
    BY <1>9 DEF Answer
  <2> QED
    BY <1>1, <2>1, SilentSteps
<1>10. ASSUME NEW n \in 0 .. MaxSize, Resize(f, n)
       PROVE  Store!Resize(f)
  <2> DEFINE After(b) == Clamped([file[f] EXCEPT !.size = n, !.buffer = b])
  <2>1. PICK b \in Seq(Bytes \cup {Junk}) :
          /\ n <= Len(b) /\ Len(file[f].buffer) <= Len(b)
          /\ \A i \in 1 .. Len(file[f].buffer) : b[i] = file[f].buffer[i]
          /\ After(b) \in InOrder
          /\ file' = [file EXCEPT ![f] = After(b)]
          /\ Returns("resize", 0)
    BY <1>1, <1>10, ResizeSteps
  <2> DEFINE q == After(b)
  <2>2. /\ q.buffer = b /\ q.size = n /\ q.flags = file[f].flags
        /\ q.head = IF file[f].head > n THEN n ELSE file[f].head
    <3> DEFINE h == IF file[f].head > n THEN n ELSE file[f].head
    <3>1. q = [file[f] EXCEPT !.size = n, !.buffer = b, !.head = h, !.error = 0]
      BY <1>1 DEF Clamped, InOrder, FileRecord
    <3> HIDE DEF h, q
    <3> QED
      BY <1>1, <3>1 DEF h, InOrder, FileRecord
  <2>3. q \in InOrder /\ file' = [file EXCEPT ![f] = q] /\ UNCHANGED <<dir, read>>
    BY <1>10, <2>1 DEF Resize
  <2> HIDE DEF q
  <2> QED
    BY <1>1, <2>1, <2>2, <2>3, ResizedRefines
<1>11. ASSUME NEW n \in 0 .. MaxSize, SetSize(f, n)
       PROVE  Store!Resize(f)
  <2> DEFINE q == [file[f] EXCEPT !.size = n]
  <2>1. n \in file[f].head .. Len(file[f].buffer) /\ n \in Nat /\ file[f].head <= n
    BY <1>1, <1>11, BoundsAssumption DEF SetSize
  <2>2. q \in InOrder
    BY <1>1, <2>1 DEF InOrder, FileRecord
  <2>3. /\ q.buffer = file[f].buffer /\ q.size = n /\ q.flags = file[f].flags
        /\ q.head = file[f].head
    BY <1>1 DEF InOrder, FileRecord
  <2>4. file' = [file EXCEPT ![f] = q] /\ UNCHANGED <<dir, read>>
    BY <1>11 DEF SetSize, IInv
  <2> HIDE DEF q
  <2>5. q.head = IF file[f].head > q.size THEN q.size ELSE file[f].head
    BY <1>1, <2>1, <2>3
  <2> QED
    BY <1>1, <2>2, <2>3, <2>4, <2>5, ResizedRefines
<1>12. ASSUME NEW flag \in Flag \cup Defined, NEW on \in BOOLEAN, SetFlag(f, flag, on)
       PROVE  Store!SetFlags(f)
  <2> DEFINE s == IF on THEN file[f].flags \cup {flag} ELSE file[f].flags \ {flag}
  <2>1. file' = [file EXCEPT ![f] = [file[f] EXCEPT !.flags = s]]
    BY <1>12 DEF SetFlag, IInv
  <2>2. s \in SUBSET (Flag \cup Defined) /\ UNCHANGED <<dir, read>>
    BY <1>1, <1>12 DEF SetFlag
  <2> HIDE DEF s
  <2> QED
    BY <1>1, <2>1, <2>2, FlagsRefine
<1>13. CASE Fclose(f)
  <2> DEFINE s == file[f].flags \ {"opened"}
  <2>1. file' = [file EXCEPT ![f] = [file[f] EXCEPT !.flags = s]]
    BY <1>13 DEF Fclose, IInv
  <2>2. s \in SUBSET (Flag \cup Defined) /\ UNCHANGED <<dir, read>>
    BY <1>1, <1>13 DEF Fclose
  <2> HIDE DEF s
  <2>3. Store!SetFlags(f)
    BY <1>1, <2>1, <2>2, FlagsRefine
  <2> QED
    BY <1>3, <2>3
<1> QED
  BY <1>3, <1>4, <1>6, <1>7, <1>8, <1>9, <1>10, <1>11, <1>12, <1>13 DEF FileCall

LEMMA CallbackReturnsRefines ==
  ASSUME IInv, CallbackReturns
  PROVE  UNCHANGED Store!vars
<1>1. Head(calls) \in Call
  BY HeadTailProperties DEF CallbackReturns, IInv
<1> DEFINE f == Head(calls).file
<1>2. f \in Files /\ file[f].flags \in SUBSET (Flag \cup Defined)
  BY <1>1 DEF Call, IInv, InOrder, FileRecord
<1>3. file' = [file EXCEPT ![f].error = 0] /\ UNCHANGED <<dir, read>>
  BY DEF CallbackReturns
<1> HIDE DEF f
<1> QED
  BY <1>2, <1>3, SilentSteps

LEMMA DirectoryCallRefines ==
  ASSUME IInv, NEW n \in Names, DirectoryCall(n)
  PROVE  Store!Next
<1>1. Store!Live = Live /\ Store!Flag = Flag
  BY DEF Store!Live, Live, Store!Flag, Flag
<1>2. SubSeq(<<>>, 1, 0) = <<>> /\ NewFile \in InOrder
  BY SubSeqEmpty, NewFileInOrder
<1>3. ASSUME NEW plus \in BOOLEAN, FopenRead(n, plus) PROVE Store!Next
  <2>0. PICK f \in Live : f = dir[n]
    BY <1>3 DEF FopenRead, Live
  <2>1. f \in Files /\ file[f] \in InOrder /\ "opened" \notin file[f].flags
    BY <1>3, <2>0 DEF FopenRead, IInv, Is, Live
  <2> DEFINE s == OpenFlags(file[f].flags, "r", plus)
             r == [file[f] EXCEPT !.flags = s, !.head = 0, !.error = 0]
  <2>2. file' = [file EXCEPT ![f] = r] /\ UNCHANGED <<dir, read>>
    BY <1>3, <2>0 DEF FopenRead, Opened, IInv
  <2>3. r \in InOrder
    BY <2>1, OpenedInOrder DEF Opened
  <2>4. /\ r.buffer = file[f].buffer /\ r.size = file[f].size /\ r.head = 0
        /\ r.flags = s
    BY <2>1 DEF InOrder, FileRecord
  <2>5. "opened" \in s \cap Flag
    BY DEF OpenFlags, Flag
  <2> HIDE DEF r, s
  <2>6. Content(r) = Content(file[f])
    BY <2>4, SameContent
  <2>7. /\ Contents' = [Contents EXCEPT ![f] = Contents[f]]
        /\ Heads' = [Heads EXCEPT ![f] = 0]
        /\ FlagsOf' = [FlagsOf EXCEPT ![f] = s \cap Flag]
        /\ "opened" \notin FlagsOf[f]
    <3>1. /\ Contents' = [Contents EXCEPT ![f] = Content(r)]
          /\ Heads' = [Heads EXCEPT ![f] = r.head]
          /\ FlagsOf' = [FlagsOf EXCEPT ![f] = r.flags \cap Flag]
          /\ Contents[f] = Content(file[f]) /\ FlagsOf[f] = file[f].flags \cap Flag
      BY <2>1, <2>2, <2>3, OneFile
    <3> HIDE DEF Content
    <3> QED
      BY <2>1, <2>4, <2>6, <3>1
  <2>8. Contents' = Contents /\ s \cap Flag \in SUBSET Flag
    BY <2>7 DEF Contents
  <2>9. Store!Open(f)
    BY <1>1, <2>2, <2>5, <2>7, <2>8 DEF Store!Open, Contents, Content, Heads, FlagsOf
  <2> QED
    BY <1>1, <2>1, <2>9 DEF Store!Next
<1>4. ASSUME NEW plus \in BOOLEAN, NEW x \in BOOLEAN, FopenWrite(n, plus, x) PROVE Store!Next
  <2> DEFINE s == OpenFlags({}, "w", plus)
             q == Opened(NewFile, "w", plus)
  <2>1. PICK f \in Files \ Live :
          /\ dir' = [dir EXCEPT ![n] = f]
          /\ file' = [g \in Files |-> IF g = f THEN q ELSE IF g = dir[n] THEN NewFile ELSE file[g]]
    BY <1>4 DEF FopenWrite
  <2>2. dir[n] # None => dir[n] \in Files /\ "opened" \notin FlagsOf[dir[n]]
    BY <1>4 DEF FopenWrite, Replaceable, Is, FlagsOf, IInv
  <2>3. /\ q.buffer = <<>> /\ q.size = 0 /\ q.head = 0 /\ q.flags = s
        /\ NewFile.buffer = <<>> /\ NewFile.size = 0 /\ NewFile.head = 0 /\ NewFile.flags = {}
    BY DEF Opened, NewFile
  <2>4. s \cap Flag \in SUBSET Flag /\ "opened" \in s \cap Flag
    BY DEF OpenFlags, Flag
  <2>5. read' = read
    BY <1>4 DEF FopenWrite
  <2> HIDE DEF q, s, NewFile
  <2>6. /\ Content(q) = <<>> /\ Content(NewFile) = <<>>
    BY <1>2, <2>3 DEF Content
  <2>7. \A g \in Files : file'[g] = IF g = f THEN q ELSE IF g = dir[n] THEN NewFile ELSE file[g]
    BY <2>1
  <2>8. /\ Contents' = [g \in Files |-> IF g \in {f, dir[n]} THEN <<>> ELSE Contents[g]]
        /\ Heads' = [g \in Files |-> IF g \in {f, dir[n]} THEN 0 ELSE Heads[g]]
        /\ FlagsOf' = [g \in Files |-> IF g = f THEN s \cap Flag
                                       ELSE IF g = dir[n] THEN {} ELSE FlagsOf[g]]
    <3>1. \A g \in Files :
            /\ Content(file'[g]) = IF g \in {f, dir[n]} THEN <<>> ELSE Content(file[g])
            /\ file'[g].head = IF g \in {f, dir[n]} THEN 0 ELSE file[g].head
            /\ file'[g].flags \cap Flag = IF g = f THEN s \cap Flag
                                          ELSE IF g = dir[n] THEN {} ELSE file[g].flags \cap Flag
      <4> TAKE g \in Files
      <4> HIDE DEF Content
      <4>1. CASE g = f
        BY <2>3, <2>6, <2>7, <4>1
      <4>2. CASE g # f /\ g = dir[n]
        BY <2>3, <2>6, <2>7, <4>2
      <4>3. CASE g # f /\ g # dir[n]
        BY <2>7, <4>3
      <4> QED
        BY <4>1, <4>2, <4>3
    <3>2. Contents' = [g \in Files |-> Content(file'[g])] /\ Contents = [g \in Files |-> Content(file[g])]
      BY DEF Contents, Content
    <3>3. Contents' = [g \in Files |-> IF g \in {f, dir[n]} THEN <<>> ELSE Contents[g]]
      BY <3>1, <3>2
    <3>4. Heads' = [g \in Files |-> IF g \in {f, dir[n]} THEN 0 ELSE Heads[g]]
      BY <3>1 DEF Heads
    <3>5. FlagsOf' = [g \in Files |-> IF g = f THEN s \cap Flag
                                      ELSE IF g = dir[n] THEN {} ELSE FlagsOf[g]]
      BY <3>1 DEF FlagsOf
    <3> QED
      BY <3>3, <3>4, <3>5
  <2>9. \E g \in Files \ Live, u \in SUBSET Flag :
          /\ "opened" \in u
          /\ dir' = [dir EXCEPT ![n] = g]
          /\ Contents' = [h \in Files |-> IF h \in {g, dir[n]} THEN <<>> ELSE Contents[h]]
          /\ Heads' = [h \in Files |-> IF h \in {g, dir[n]} THEN 0 ELSE Heads[h]]
          /\ FlagsOf' = [h \in Files |-> IF h = g THEN u ELSE IF h = dir[n] THEN {} ELSE FlagsOf[h]]
    BY <2>1, <2>4, <2>8
  <2>10. Store!Create(n)
    BY <1>1, <2>2, <2>5, <2>9, ZenonT(30) DEF Store!Create, Contents, Content, Heads, FlagsOf
  <2> QED
    BY <2>10 DEF Store!Next
<1>5. CASE Fdestroy(n)
  <2> DEFINE f == dir[n]
  <2>1. /\ f # None /\ f \in Files /\ dir' = [dir EXCEPT ![n] = None]
        /\ file' = [file EXCEPT ![f] = NewFile] /\ read' = read
        /\ "opened" \notin file[f].flags
    BY <1>5 DEF Fdestroy, Replaceable, Is, IInv
  <2>2. NewFile.buffer = <<>> /\ NewFile.size = 0 /\ NewFile.head = 0 /\ NewFile.flags = {}
    BY DEF NewFile
  <2> HIDE DEF NewFile, f
  <2>3. Content(NewFile) = <<>>
    BY <1>2, <2>2 DEF Content
  <2>4. /\ Contents' = [Contents EXCEPT ![f] = <<>>]
        /\ Heads' = [Heads EXCEPT ![f] = 0]
        /\ FlagsOf' = [FlagsOf EXCEPT ![f] = {}]
        /\ "opened" \notin FlagsOf[f]
    <3>1. /\ Contents' = [Contents EXCEPT ![f] = Content(NewFile)]
          /\ Heads' = [Heads EXCEPT ![f] = NewFile.head]
          /\ FlagsOf' = [FlagsOf EXCEPT ![f] = NewFile.flags \cap Flag]
          /\ FlagsOf[f] = file[f].flags \cap Flag
      BY <1>2, <2>1, OneFile
    <3> HIDE DEF Content
    <3>2. NewFile.flags \cap Flag = {}
      BY <2>2
    <3> QED
      BY <2>1, <2>2, <2>3, <3>1, <3>2
  <2>5. Store!Destroy(n)
    BY <2>1, <2>4 DEF Store!Destroy, Contents, Content, Heads, FlagsOf, f
  <2> QED
    BY <2>5 DEF Store!Next
<1> QED
  BY <1>3, <1>4, <1>5 DEF DirectoryCall

LEMMA NextRefines == ~MayFail /\ IInv /\ [Next]_vars => [Store!Next]_(Store!vars)
<1> SUFFICES ASSUME ~MayFail, IInv, [Next]_vars PROVE Store!Next \/ UNCHANGED Store!vars
  OBVIOUS
<1>1. ASSUME NEW f \in Live, FileCall(f) PROVE Store!Next \/ UNCHANGED Store!vars
  BY <1>1, FileCallRefines
<1>2. CASE UNCHANGED vars
  BY <1>2, StoreVars DEF vars, Contents, Content, Heads, FlagsOf
<1> QED
  BY <1>1, <1>2, DirectoryCallRefines, CallbackReturnsRefines DEF Next

\* As long as realloc finds memory the files behave as FileStore says: what was
\* written is what is read, and no call disturbs the bytes of another file.
THEOREM Refinement == ~MayFail => (Spec => ImplementsFileStore)
<1> SUFFICES ASSUME ~MayFail PROVE Spec => ImplementsFileStore
  OBVIOUS
<1>1. IInv /\ [Next]_vars => [Store!Next]_(Store!vars)
  BY NextRefines
<1> QED
  BY <1>1, Inductive, InitRefines, PTL DEF Spec, ImplementsFileStore, Store!Spec
=============================================================================
