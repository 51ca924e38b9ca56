------------------------------ MODULE BitCopy -------------------------------
(***************************************************************************)
(* include/jaffarCommon/bitwise.hpp: elements of any number of bits,       *)
(* packed without gaps into bytes.                                         *)
(*                                                                         *)
(* A byte is the set of its bits that are one.  bitcopy and the loop of    *)
(* getEncodingBitsForElementCount take one step per iteration.  Source and *)
(* destination are windows of the same memory, apart, overlapping or equal:*)
(* nothing in the code tells them apart.  Numbers are size_t, of Word      *)
(* values; callers pass arguments whose numbers of bits fit into it.       *)
(***************************************************************************)
EXTENDS Integers, FiniteSets

CONSTANTS ByteBits,  \* the bits of a byte: 8
          Word,      \* the values of a size_t
          MemSize,   \* bytes of memory
          Windows,   \* the buffers: records of base and size, in bytes
          Widths,    \* element sizes, in bits
          None

ASSUME BitCopyAssumption ==
  /\ {ByteBits, Word, MemSize} \subseteq Nat \ {0}
  /\ Windows \subseteq [base : 0 .. MemSize, size : 0 .. MemSize]
  /\ \A w \in Windows : w.base + w.size <= MemSize
  /\ Widths \subseteq Nat
  /\ MemSize * ByteBits < Word

VARIABLES mem,     \* mem[a]: the byte at address a
          pc,      \* "idle", or the call under way: "copy" or "encode"
          call,    \* the arguments of bitcopy
          i,       \* the loop counter of bitcopy
          dstPos,  \* <<dstPosByte, dstPosBit>>
          srcPos,  \* <<srcPosByte, srcPosBit>>
          before,  \* the memory when bitcopy began
          count,   \* elementCount of getEncodingBitsForElementCount
          code,    \* <<encodingCapacity, bitEncodingSize>>, or <<0, the value returned>>
          answer   \* what the last getBit... returned, until the next call

copying  == <<call, i, dstPos, srcPos, before>>
encoding == <<count, code>>
vars     == <<mem, pc, copying, encoding, answer>>

Bit     == 0 .. ByteBits - 1
Address == 0 .. MemSize - 1

Times(x, y) == (x * y) % Word
Plus(x, y)  == (x + y) % Word
Place(n)    == <<n \div ByteBits, n % ByteBits>>

Init ==
  /\ mem \in [Address -> SUBSET Bit]
  /\ pc = "idle"
  /\ call = None /\ i = 0 /\ dstPos = <<0, 0>> /\ srcPos = <<0, 0>> /\ before = None
  /\ count = 0 /\ code = <<0, 0>>
  /\ answer = None

\* A new call: nothing is left of the last one.
NewCall == pc = "idle" /\ answer' = None

-----------------------------------------------------------------------------
(* bitcopy                                                                  *)

\* A window w holds n elements of the given width from the offset on.
FaultyHolds(w, offset, n, width) == Plus(offset, n) <= Times(w.size, ByteBits)
Holds(w, offset, n, width) ==
  Plus(Times(offset, width), Times(n, width)) <= Times(w.size, ByteBits)

\* The calls whose numbers of bits fit into a size_t.
FitsWord(offset, n, width) == (offset + n) * width < Word

\* A call that does not fit throws and is no step.
BeginCopy(dst, dstOffset, src, srcOffset, n, width) ==
  /\ NewCall
  /\ width # 0
  /\ FitsWord(dstOffset, n, width) /\ FitsWord(srcOffset, n, width)
  /\ Holds(dst, dstOffset, n, width)
  /\ Holds(src, srcOffset, n, width)
  /\ pc' = "copy"
  /\ call' = [dst |-> dst.base, src |-> src.base, dstLimit |-> dst.base + dst.size,
              srcLimit |-> src.base + src.size, dstBit |-> Times(dstOffset, width),
              srcBit |-> Times(srcOffset, width), total |-> Times(n, width)]
  /\ i' = 0
  /\ dstPos' = Place(Times(dstOffset, width))
  /\ srcPos' = Place(Times(srcOffset, width))
  /\ before' = mem
  /\ UNCHANGED mem
  /\ count' = 0 /\ code' = <<0, 0>>

\* The next position: over a byte's last bit to the next byte.
FaultyAdvance(pos) == IF pos[2] = ByteBits THEN <<pos[1] + 1, 0>> ELSE <<pos[1], pos[2] + 1>>
Advance(pos) == IF pos[2] + 1 = ByteBits THEN <<pos[1] + 1, 0>> ELSE <<pos[1], pos[2] + 1>>

\* The destination bit is cleared, and set again if the source bit then is one.
FaultyMoveBit(m, d, db, s, sb) ==
  IF sb \in m[s] THEN [m EXCEPT ![d] = @ \cup {db}] ELSE m
MoveBit(m, d, db, s, sb) ==
  LET cleared == [m EXCEPT ![d] = @ \ {db}]
  IN  IF sb \in cleared[s] THEN [cleared EXCEPT ![d] = @ \cup {db}] ELSE cleared

CopyBit ==
  /\ pc = "copy"
  /\ i < call.total
  /\ mem' = MoveBit(mem, call.dst + dstPos[1], dstPos[2], call.src + srcPos[1], srcPos[2])
  /\ dstPos' = Advance(dstPos)
  /\ srcPos' = Advance(srcPos)
  /\ i' = i + 1
  /\ UNCHANGED <<pc, call, before, encoding, answer>>

CopyReturns ==
  /\ pc = "copy"
  /\ i >= call.total
  /\ pc' = "idle"
  /\ call' = None /\ i' = 0 /\ dstPos' = <<0, 0>> /\ srcPos' = <<0, 0>> /\ before' = None
  /\ UNCHANGED <<mem, encoding, answer>>

-----------------------------------------------------------------------------
(* Single bits                                                              *)

SetBitValue(w, idx, value) ==
  LET p == Place(idx)
      a == w.base + p[1]
  IN  /\ NewCall
      /\ mem' = [mem EXCEPT ![a] = IF value THEN @ \cup {p[2]} ELSE @ \ {p[2]}]
      /\ count' = 0 /\ code' = <<0, 0>>
      /\ UNCHANGED <<pc, copying>>

GetBitValue(w, idx) ==
  /\ pc = "idle"
  /\ answer' = (Place(idx)[2] \in mem[w.base + Place(idx)[1]])
  /\ count' = 0 /\ code' = <<0, 0>>
  /\ UNCHANGED <<mem, pc, copying>>

\* The flag of a byte; an index beyond it throws.
GetBitFlag(a, idx) ==
  /\ pc = "idle"
  /\ idx \in Bit
  /\ answer' = (idx \in mem[a])
  /\ count' = 0 /\ code' = <<0, 0>>
  /\ UNCHANGED <<mem, pc, copying>>

-----------------------------------------------------------------------------
(* Sizes                                                                    *)

\* Above half of the size_t's values the capacity never gets there.
BeginEncode(n) ==
  /\ NewCall
  /\ n <= Word \div 2
  /\ count' = n
  /\ IF n <= 1
     THEN code' = <<0, n>> /\ UNCHANGED pc
     ELSE code' = <<1, 0>> /\ pc' = "encode"
  /\ UNCHANGED <<mem, copying>>

FaultyCapacityDoubles == pc = "encode" /\ code[1] <= count
CapacityDoubles == pc = "encode" /\ code[1] < count

Encode ==
  /\ CapacityDoubles
  /\ code' = <<Times(code[1], 2), Plus(code[2], 1)>>
  /\ UNCHANGED <<mem, pc, copying, count, answer>>

EncodeReturns ==
  /\ pc = "encode"
  /\ ~CapacityDoubles
  /\ code' = <<0, code[2]>>
  /\ pc' = "idle"
  /\ UNCHANGED <<mem, copying, count, answer>>

FaultyByteStorage(n) == n \div ByteBits
ByteStorage(n) == (n \div ByteBits) + (IF n % ByteBits > 0 THEN 1 ELSE 0)

-----------------------------------------------------------------------------
MemBits == MemSize * ByteBits

Call ==
  \/ \E dst, src \in Windows, width \in Widths :
       \E dstOffset, srcOffset, n \in 0 .. MemBits :
         BeginCopy(dst, dstOffset, src, srcOffset, n, width)
  \/ \E w \in Windows : \E idx \in 0 .. w.size * ByteBits - 1 :
       \/ \E value \in BOOLEAN : SetBitValue(w, idx, value)
       \/ GetBitValue(w, idx)
  \/ \E a \in Address, idx \in Bit : GetBitFlag(a, idx)
  \/ \E n \in 0 .. Word : BeginEncode(n)

Loop == CopyBit \/ CopyReturns \/ Encode \/ EncodeReturns

Next == Call \/ Loop

Spec == Init /\ [][Next]_vars

-----------------------------------------------------------------------------
TypeOK ==
  /\ mem \in [Address -> SUBSET Bit]
  /\ pc \in {"idle", "copy", "encode"}
  /\ i \in 0 .. Word - 1
  /\ dstPos \in Nat \X Bit
  /\ srcPos \in Nat \X Bit
  /\ before \in [Address -> SUBSET Bit] \cup {None}
  /\ count \in 0 .. Word - 1
  /\ code \in (0 .. Word - 1) \X Nat
  /\ answer \in BOOLEAN \cup {None}

\* The bit that bitcopy is about to write lies in the destination, and the one it
\* is about to read in the source, although only the ends were compared with the
\* buffers and the two positions are counted on separately from them.
StaysInBuffers ==
  pc = "copy" /\ i < call.total =>
    /\ call.dst + dstPos[1] < call.dstLimit
    /\ call.src + srcPos[1] < call.srcLimit

\* The b bits computed for a number of elements are the least in which all of them
\* get a code of their own, and at least one if there are any.
EncodingIsLeast(b) ==
  /\ count <= 2 ^ b
  /\ (count = 0) <=> (b = 0)
  /\ count > 1 => count > 2 ^ (b - 1)

\* The bytes computed for n elements of b bits are the least that bitcopy accepts.
StorageIsLeast(b, n) ==
  LET size == ByteStorage(n * b)
      window(s) == [base |-> 0, size |-> s]
  IN  FitsWord(0, n, b) /\ size * ByteBits < Word =>
        Holds(window(size), 0, n, b) /\ ~Holds(window(size - 1), 0, n, b)

\* A caller that computes the bits for its elements, and the bytes for as many as
\* it stores, gets exactly the room that bitcopy will ask for
\* (bitwise.hpp:97, "downstream storage").
SizesAreLeast ==
  pc = "idle" =>
    /\ EncodingIsLeast(code[2])
    /\ code[2] > 0 => \A n \in 1 .. MemBits : StorageIsLeast(code[2], n)

\* Packed into bytes or not, memory is an array of bits, and bitcopy one step.
A == INSTANCE BitArray WITH
       Size <- MemBits,
       bits <- LET m == IF pc = "copy" THEN before ELSE mem
               IN  [j \in 0 .. MemBits - 1 |-> j % ByteBits \in m[j \div ByteBits]]
ImplementsBitArray == A!Spec
=============================================================================
