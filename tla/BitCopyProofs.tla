--------------------------- MODULE BitCopyProofs ----------------------------
(***************************************************************************)
(* The safety of BitCopy for any bytes, windows and widths; and that       *)
(* BitCopy implements BitArray, whatever the two windows share.            *)
(***************************************************************************)
EXTENDS BitCopy, CountingLemmas

\* The bit j of a memory m.
BitAt(m, j) == j % ByteBits \in m[j \div ByteBits]

\* A copy of k bits from s to d, and what it makes of the bit j of memory m.
Moved(m, d, s, k, j) ==
  IF j \notin d .. d + k - 1 THEN BitAt(m, j)
  ELSE IF d = s THEN FALSE
  ELSE IF s < d THEN BitAt(m, s + ((j - d) % (d - s)))
  ELSE BitAt(m, s + (j - d))

CallRecord == [dst : Nat, src : Nat, dstLimit : Nat, srcLimit : Nat,
               dstBit : Nat, srcBit : Nat, total : Nat]

\* The first bits of a call's target and source, counted from the start of memory.
Target == ByteBits * call.dst + call.dstBit
Source == ByteBits * call.src + call.srcBit

Copying ==
  pc = "copy" =>
    /\ call \in CallRecord
    /\ before \in [Address -> SUBSET Bit]
    /\ i \in Nat /\ i <= call.total
    /\ dstPos = Place(call.dstBit + i) /\ srcPos = Place(call.srcBit + i)
    /\ Target + call.total <= ByteBits * call.dstLimit /\ call.dstLimit <= MemSize
    /\ Source + call.total <= ByteBits * call.srcLimit /\ call.srcLimit <= MemSize
    /\ answer = None /\ count = 0 /\ code = <<0, 0>>

\* The bits moved so far are those the copy promises, the others are as they were.
HalfCopied ==
  pc = "copy" =>
    \A j \in 0 .. MemBits - 1 : BitAt(mem, j) <=> Moved(before, Target, Source, i, j)

\* A loop under way has found that one bit less is not enough.
Encoding ==
  pc = "encode" =>
    /\ count > 1 /\ count <= Word \div 2
    /\ code[1] = 2 ^ code[2]
    /\ code[2] > 0 => count > 2 ^ (code[2] - 1)

Encoded == pc # "encode" => EncodingIsLeast(code[2])

\* The invariant that every step keeps.
IInv == TypeOK /\ Copying /\ HalfCopied /\ Encoding /\ Encoded

-----------------------------------------------------------------------------
(* Division, powers of two, and numbers that fit into a size_t.            *)

\* A number is its quotient's multiple of the divisor and a remainder less than it.
LEMMA DivisionIs ==
  ASSUME NEW n \in Nat, NEW b \in Nat \ {0}
  PROVE  n \div b \in Nat /\ n % b \in 0 .. b - 1 /\ n = b * (n \div b) + (n % b)
<1>1. n \div b \in Nat
  OBVIOUS
<1>2. n % b \in 0 .. b - 1
  OBVIOUS
<1>3. n = b * (n \div b) + (n % b)
  OBVIOUS
<1> QED
  BY <1>1, <1>2, <1>3

\* Nothing else is.
LEMMA DivisionIsUnique ==
  ASSUME NEW n \in Nat, NEW b \in Nat \ {0}, NEW q \in Nat, NEW r \in 0 .. b - 1,
         n = b * q + r
  PROVE  n \div b = q /\ n % b = r
  OBVIOUS

\* Multiples of a number are that number apart.
LEMMA MultiplesApart ==
  ASSUME NEW b \in Nat \ {0}, NEW p \in Int, NEW q \in Int, p < q
  PROVE  b * p + b <= b * q
  OBVIOUS

\* One bit more doubles the codes: with the bit at one, and with it at zero.
LEMMA PowerDoubles ==
  ASSUME NEW n \in Nat
  PROVE  2 ^ (n + 1) = 2 * 2 ^ n /\ 2 ^ n \in Nat
<1> DEFINE low  == SUBSET (1 .. n)
           all  == SUBSET (1 .. n + 1)
           with == [s \in low |-> s \cup {n + 1}]
           high == {s \in all : n + 1 \in s}
<1>1. IsFiniteSet(1 .. n) /\ Cardinality(1 .. n) = n
  BY FS_Interval
<1>2. IsFiniteSet(1 .. n + 1) /\ Cardinality(1 .. n + 1) = n + 1
  BY FS_Interval
<1>3. IsFiniteSet(low) /\ Cardinality(low) = 2 ^ n
  BY <1>1, FS_SUBSET
<1>4. IsFiniteSet(all) /\ Cardinality(all) = 2 ^ (n + 1)
  BY <1>2, FS_SUBSET
<1>5. with \in Bijection(low, high)
  <2>1. with \in [low -> high]
    <3> SUFFICES ASSUME NEW s \in low PROVE s \cup {n + 1} \in high
      OBVIOUS
    <3> QED
      OBVIOUS
  <2>2. ASSUME NEW s \in low, NEW t \in low, with[s] = with[t] PROVE s = t
    <3>1. n + 1 \notin s /\ n + 1 \notin t
      OBVIOUS
    <3> QED
      BY <2>2, <3>1
  <2>3. ASSUME NEW t \in high PROVE \E s \in low : with[s] = t
    <3>1. t \ {n + 1} \in low /\ (t \ {n + 1}) \cup {n + 1} = t
      OBVIOUS
    <3> QED
      BY <3>1
  <2> QED
    BY <2>1, <2>2, <2>3 DEF Bijection, Injection, Surjection, IsInjective
<1>6. IsFiniteSet(high) /\ Cardinality(high) = 2 ^ n
  <2> HIDE DEF low, high, with
  <2> QED
    BY <1>3, <1>5, FS_Bijection DEF ExistsBijection
<1>7. all = low \cup high /\ low \cap high = {}
  <2>1. \A s \in all : n + 1 \notin s => s \in low
    OBVIOUS
  <2>2. low \subseteq all /\ \A s \in low : n + 1 \notin s
    OBVIOUS
  <2> QED
    BY <2>1, <2>2
<1>8. Cardinality(low \cap high) = 0
  BY <1>7, FS_EmptySet
<1>9. 2 ^ n \in Nat
  BY PowerOfTwo
<1> HIDE DEF low, high, all
<1>10. Cardinality(all) = Cardinality(low) + Cardinality(high) - Cardinality(low \cap high)
  BY <1>3, <1>6, <1>7, FS_Union
<1> DEFINE p == 2 ^ n
           q == 2 ^ (n + 1)
<1>11. q = p + p - 0 /\ p \in Nat
  BY <1>3, <1>4, <1>6, <1>8, <1>9, <1>10
<1> HIDE DEF p, q
<1>12. q = 2 * p
  BY <1>11
<1> QED
  BY <1>9, <1>12 DEF p, q

\* What fits into a size_t is what it is.
LEMMA FitsExactly ==
  ASSUME NEW x \in Nat, NEW w \in Nat, x < w
  PROVE  x % w = x
  OBVIOUS

\* The remainder is the same a divisor further on.
LEMMA RemainderRepeats ==
  ASSUME NEW n \in Nat, NEW b \in Nat \ {0}
  PROVE  (n + b) % b = n % b
<1> DEFINE q == n \div b
           r == n % b
<1>1. q \in Nat /\ r \in 0 .. b - 1 /\ n = b * q + r
  BY DivisionIs
<1> HIDE DEF q, r
<1>2. n + b = b * (q + 1) + r /\ q + 1 \in Nat /\ n + b \in Nat
  BY <1>1
<1>3. (n + b) % b = r
  BY <1>1, <1>2, DivisionIsUnique
<1> QED
  BY <1>3 DEF r

-----------------------------------------------------------------------------
(* Bits and where they are.                                                *)

\* All the bits of memory can be counted.
LEMMA Sizes ==
  /\ ByteBits \in Nat \ {0} /\ Word \in Nat \ {0} /\ MemSize \in Nat \ {0}
  /\ MemBits = ByteBits * MemSize /\ MemBits \in Nat /\ MemBits < Word
<1>1. ByteBits \in Nat \ {0} /\ Word \in Nat \ {0} /\ MemSize \in Nat \ {0}
  BY BitCopyAssumption
<1>2. MemSize * ByteBits = ByteBits * MemSize /\ MemSize * ByteBits \in Nat
  BY <1>1
<1>3. MemSize * ByteBits < Word
  BY BitCopyAssumption
<1> QED
  BY <1>1, <1>2, <1>3 DEF MemBits

\* The position after that of a bit is that of the next bit.
LEMMA AdvanceIsNext ==
  ASSUME NEW n \in Nat
  PROVE  Place(n) \in Nat \X Bit /\ Advance(Place(n)) = Place(n + 1)
<1> DEFINE b == ByteBits
           q == n \div b
           r == n % b
<1>1. b \in Nat \ {0} /\ q \in Nat /\ r \in 0 .. b - 1 /\ n = b * q + r
  BY DivisionIs, Sizes
<1>2. Place(n) = <<q, r>>
  BY DEF Place
<1> HIDE DEF q, r
<1>3. CASE r + 1 = b
  <2>1. n + 1 = b * (q + 1) + 0 /\ q + 1 \in Nat /\ n + 1 \in Nat /\ 0 \in 0 .. b - 1
    BY <1>1, <1>3
  <2>2. (n + 1) \div b = q + 1 /\ (n + 1) % b = 0
    BY <1>1, <2>1, DivisionIsUnique
  <2> QED
    BY <1>1, <1>2, <1>3, <2>2 DEF Advance, Place, Bit
<1>4. CASE r + 1 # b
  <2>1. n + 1 = b * q + (r + 1) /\ n + 1 \in Nat /\ r + 1 \in 0 .. b - 1
    BY <1>1, <1>4
  <2>2. (n + 1) \div b = q /\ (n + 1) % b = r + 1
    BY <1>1, <2>1, DivisionIsUnique
  <2> QED
    BY <1>1, <1>2, <1>4, <2>2 DEF Advance, Place, Bit
<1> QED
  BY <1>3, <1>4

\* The bit n after the address a is in the byte that its position counts from a.
LEMMA PlaceAfter ==
  ASSUME NEW a \in Nat, NEW n \in Nat, NEW k, k = ByteBits * a + n
  PROVE  k \div ByteBits = a + Place(n)[1] /\ k % ByteBits = Place(n)[2]
<1> DEFINE b == ByteBits
           q == n \div b
           r == n % b
<1>1. b \in Nat \ {0} /\ q \in Nat /\ r \in 0 .. b - 1 /\ n = b * q + r
  BY DivisionIs, Sizes
<1>2. Place(n)[1] = q /\ Place(n)[2] = r
  BY DEF Place
<1> HIDE DEF q, r
<1>3. b * a + n = b * (a + q) + r /\ a + q \in Nat /\ b * a + n \in Nat
  BY <1>1
<1>4. (b * a + n) \div b = a + q /\ (b * a + n) % b = r
  BY <1>1, <1>3, DivisionIsUnique
<1> QED
  BY <1>2, <1>3, <1>4

\* A bit before the end of a range of bytes is in one of them.
LEMMA ByteWithin ==
  ASSUME NEW n \in Nat, NEW limit \in Nat, n < ByteBits * limit
  PROVE  n \div ByteBits \in 0 .. limit - 1 /\ n % ByteBits \in Bit
<1> DEFINE b == ByteBits
           q == n \div b
           r == n % b
<1>1. b \in Nat \ {0} /\ q \in Nat /\ r \in 0 .. b - 1 /\ n = b * q + r
  BY DivisionIs, Sizes
<1> HIDE DEF q, r
<1>2. q < limit
  <2> SUFFICES ASSUME limit <= q PROVE FALSE
    BY <1>1
  <2>1. b * limit <= b * q
    <3>1. CASE limit = q
      BY <1>1, <3>1
    <3>2. CASE limit < q
      <4>1. b * limit + b <= b * q
        BY <1>1, <3>2, MultiplesApart
      <4>2. b * limit \in Nat /\ b * q \in Nat
        BY <1>1
      <4> QED
        BY <1>1, <4>1, <4>2
    <3> QED
      BY <1>1, <3>1, <3>2
  <2>2. b * limit \in Nat /\ b * q \in Nat
    BY <1>1
  <2> QED
    BY <1>1, <2>1, <2>2
<1> QED
  BY <1>1, <1>2 DEF q, r, Bit

\* Every bit of memory has an address.
LEMMA BitInMemory ==
  ASSUME NEW n \in 0 .. MemBits - 1
  PROVE  n \in Nat /\ n \div ByteBits \in Address /\ n % ByteBits \in Bit
<1>1. n \in Nat /\ n < ByteBits * MemSize /\ MemSize \in Nat
  BY Sizes
<1> QED
  BY <1>1, ByteWithin DEF Address

\* Two bits at the same place are the same bit.
LEMMA SamePlace ==
  ASSUME NEW j \in 0 .. MemBits - 1, NEW n \in 0 .. MemBits - 1,
         j \div ByteBits = n \div ByteBits, j % ByteBits = n % ByteBits
  PROVE  j = n
<1>1. j \in Nat /\ n \in Nat /\ ByteBits \in Nat \ {0}
  BY Sizes
<1>2. j = ByteBits * (j \div ByteBits) + (j % ByteBits)
  BY <1>1, DivisionIs
<1>3. n = ByteBits * (n \div ByteBits) + (n % ByteBits)
  BY <1>1, DivisionIs
<1> QED
  BY <1>2, <1>3

\* Moving a bit changes that bit and no other; the source bit is read after the
\* target bit is cleared.
LEMMA MoveBitIs ==
  ASSUME NEW m \in [Address -> SUBSET Bit],
         NEW d \in 0 .. MemBits - 1, NEW s \in 0 .. MemBits - 1,
         NEW moved, moved = MoveBit(m, d \div ByteBits, d % ByteBits, s \div ByteBits, s % ByteBits)
  PROVE  /\ moved \in [Address -> SUBSET Bit]
         /\ \A j \in 0 .. MemBits - 1 :
              BitAt(moved, j) <=> IF j = d THEN d # s /\ BitAt(m, s) ELSE BitAt(m, j)
<1> DEFINE da == d \div ByteBits
           db == d % ByteBits
           sa == s \div ByteBits
           sb == s % ByteBits
           c  == [m EXCEPT ![da] = @ \ {db}]
<1>1. da \in Address /\ db \in Bit /\ sa \in Address /\ sb \in Bit
  BY BitInMemory
<1>2. da = sa /\ db = sb => d = s
  BY SamePlace
<1>3. moved = IF sb \in c[sa] THEN [c EXCEPT ![da] = @ \cup {db}] ELSE c
  BY DEF MoveBit
<1>4. c \in [Address -> SUBSET Bit] /\ moved \in [Address -> SUBSET Bit]
  BY <1>1, <1>3
<1>5. sb \in c[sa] <=> d # s /\ BitAt(m, s)
  BY <1>1, <1>2 DEF BitAt
<1>6. ASSUME NEW j \in 0 .. MemBits - 1
      PROVE  BitAt(moved, j) <=> IF j = d THEN d # s /\ BitAt(m, s) ELSE BitAt(m, j)
  <2> DEFINE ja == j \div ByteBits
             jb == j % ByteBits
  <2>1. ja \in Address /\ jb \in Bit
    BY BitInMemory
  <2>2. ja = da /\ jb = db => j = d
    BY SamePlace
  <2>3. jb \in moved[ja] <=> IF ja = da /\ jb = db THEN sb \in c[sa] ELSE jb \in m[ja]
    <3> HIDE DEF ja, jb, da, db, sa, sb
    <3> QED
      BY <1>1, <1>3, <2>1
  <2> QED
    BY <1>5, <2>2, <2>3 DEF BitAt
<1> QED
  BY <1>4, <1>6

\* One bit more of a copy takes the bit that the bits so far have left at its source.
LEMMA MovedNext ==
  ASSUME NEW m, NEW d \in Nat, NEW s \in Nat, NEW k \in Nat, NEW j \in Nat
  PROVE  Moved(m, d, s, k + 1, j) <=>
           IF j = d + k THEN d # s /\ Moved(m, d, s, k, s + k) ELSE Moved(m, d, s, k, j)
<1>1. CASE j # d + k
  <2>1. j \in d .. d + (k + 1) - 1 <=> j \in d .. d + k - 1
    BY <1>1
  <2> QED
    BY <1>1, <2>1 DEF Moved
<1>2. CASE j = d + k
  <2>1. j \in d .. d + (k + 1) - 1 /\ j - d = k
    BY <1>2
  <2>2. CASE d = s
    BY <1>2, <2>1, <2>2 DEF Moved
  <2>3. CASE d < s
    <3>1. s + k \notin d .. d + k - 1 /\ d # s /\ ~(s < d)
      BY <2>3
    <3> QED
      BY <1>2, <2>1, <3>1 DEF Moved
  <2>4. CASE s < d /\ s + k < d
    <3>1. k % (d - s) = k
      BY <2>4, FitsExactly
    <3>2. s + k \notin d .. d + k - 1 /\ d # s
      BY <2>4
    <3> QED
      BY <1>2, <2>1, <2>4, <3>1, <3>2 DEF Moved
  <2>5. CASE s < d /\ s + k >= d
    <3>1. s + k - d \in Nat /\ d - s \in Nat \ {0} /\ (s + k - d) + (d - s) = k
      BY <2>5
    <3>2. k % (d - s) = (s + k - d) % (d - s)
      BY <3>1, RemainderRepeats
    <3>3. s + k \in d .. d + k - 1 /\ d # s
      BY <2>5
    <3> QED
      BY <1>2, <2>1, <2>5, <3>2, <3>3 DEF Moved
  <2> QED
    BY <2>2, <2>3, <2>4, <2>5
<1> QED
  BY <1>1, <1>2

\* The products and sums of numbers whose bits fit into a size_t are exact.
LEMMA ProductsFit ==
  ASSUME NEW offset \in Nat, NEW n \in Nat, NEW width \in Nat, FitsWord(offset, n, width)
  PROVE  /\ Times(offset, width) = offset * width /\ Times(n, width) = n * width
         /\ offset * width \in Nat /\ n * width \in Nat
         /\ Plus(offset * width, n * width) = offset * width + n * width
<1> DEFINE x == offset * width
           y == n * width
           z == (offset + n) * width
<1>1. x \in Nat /\ y \in Nat /\ z = x + y
  BY SMT
<1>2. z < Word /\ Word \in Nat
  BY Sizes DEF FitsWord
<1> HIDE DEF x, y, z
<1>3. x % Word = x /\ y % Word = y /\ (x + y) % Word = x + y
  BY <1>1, <1>2, FitsExactly
<1> QED
  BY <1>1, <1>3 DEF x, y, Times, Plus

\* A range of bytes that lies in memory has no more bits than memory.
LEMMA SizeFits ==
  ASSUME NEW size \in Nat, ByteBits * size < Word
  PROVE  Times(size, ByteBits) = ByteBits * size /\ ByteBits * size \in Nat
<1>1. size * ByteBits = ByteBits * size /\ ByteBits * size \in Nat
  BY Sizes
<1>2. Word \in Nat
  BY Sizes
<1> DEFINE x == ByteBits * size
<1> HIDE DEF x
<1>3. x % Word = x
  BY <1>1, <1>2, FitsExactly DEF x
<1> QED
  BY <1>1, <1>3 DEF Times, x

\* A window lies in memory, and its bits are numbers that a size_t holds.
LEMMA WindowFits ==
  ASSUME NEW w \in Windows
  PROVE  /\ w.base \in Nat /\ w.size \in Nat /\ w.base + w.size \in Nat
         /\ w.base + w.size <= MemSize
         /\ ByteBits * w.size < Word
         /\ ByteBits * w.base \in Nat /\ ByteBits * w.size \in Nat
         /\ ByteBits * (w.base + w.size) = ByteBits * w.base + ByteBits * w.size
         /\ ByteBits * (w.base + w.size) <= MemBits
<1>1. w.base \in Nat /\ w.size \in Nat /\ w.base + w.size <= MemSize
  BY BitCopyAssumption
<1> DEFINE b == w.base
           z == w.size
           e == w.base + w.size
<1>2. ByteBits * b \in Nat /\ ByteBits * z \in Nat /\ ByteBits * e = ByteBits * b + ByteBits * z
  <2> HIDE DEF b, z
  <2> QED
    BY <1>1, Sizes DEF b, z, e
<1>3. e \in Nat /\ e <= MemSize /\ ByteBits * e <= ByteBits * MemSize
  <2>1. e \in Nat /\ e <= MemSize
    BY <1>1
  <2>2. CASE e = MemSize
    BY <2>2, Sizes
  <2>3. CASE e < MemSize
    <3> HIDE DEF e
    <3>1. ByteBits * e + ByteBits <= ByteBits * MemSize
      BY <2>1, <2>3, Sizes, MultiplesApart
    <3>2. ByteBits * e \in Nat
      BY <2>1, Sizes
    <3> QED
      BY <2>1, <3>1, <3>2, Sizes
  <2> HIDE DEF e
  <2> QED
    BY <2>1, <2>2, <2>3, Sizes
<1> DEFINE p == ByteBits * b
           q == ByteBits * z
           t == ByteBits * e
<1>4. p \in Nat /\ q \in Nat /\ t = p + q /\ t <= MemBits /\ MemBits < Word /\ MemBits \in Nat /\ Word \in Nat
  BY <1>2, <1>3, Sizes
<1>5. q < Word
  <2> HIDE DEF p, q, t
  <2> QED
    BY <1>4
<1> QED
  BY <1>1, <1>3, <1>4, <1>5

\* Elements that a window holds end with the window.
LEMMA HoldsIs ==
  ASSUME NEW w \in Windows, NEW offset \in Nat, NEW n \in Nat, NEW width \in Nat,
         FitsWord(offset, n, width), Holds(w, offset, n, width)
  PROVE  /\ Times(offset, width) \in Nat /\ Times(n, width) \in Nat
         /\ ByteBits * w.base + Times(offset, width) + Times(n, width)
              <= ByteBits * (w.base + w.size)
<1> DEFINE x == Times(offset, width)
           y == Times(n, width)
           p == ByteBits * w.base
           q == ByteBits * w.size
           t == ByteBits * (w.base + w.size)
<1>1. x \in Nat /\ y \in Nat /\ Plus(x, y) = x + y
  BY ProductsFit
<1>2. Plus(x, y) <= q
  <2>1. Times(w.size, ByteBits) = q
    BY WindowFits, SizeFits
  <2> QED
    BY <2>1 DEF Holds
<1>3. p \in Nat /\ q \in Nat /\ t = p + q
  BY WindowFits
<1> HIDE DEF x, y, p, q, t
<1>4. p + x + y <= t
  BY <1>1, <1>2, <1>3
<1> QED
  BY <1>1, <1>4 DEF x, y, p, q, t

\* So do the bits of any part of memory.
LEMMA BytesFit ==
  ASSUME NEW n \in Nat, n <= MemSize
  PROVE  ByteBits * n \in Nat /\ ByteBits * n <= MemBits
<1>1. ByteBits * n \in Nat
  BY Sizes
<1>2. CASE n = MemSize
  BY <1>2, Sizes
<1>3. CASE n < MemSize
  <2>1. ByteBits * n + ByteBits <= ByteBits * MemSize
    BY <1>3, Sizes, MultiplesApart
  <2> DEFINE p == ByteBits * n
  <2>2. p + ByteBits <= MemBits /\ p \in Nat
    BY <1>1, <2>1, Sizes
  <2> HIDE DEF p
  <2>3. p <= MemBits
    BY <2>2, Sizes
  <2> QED
    BY <1>1, <2>3 DEF p
<1> QED
  BY <1>1, <1>2, <1>3, Sizes

-----------------------------------------------------------------------------
(* The invariant.                                                          *)

\* The bits that a call is about to move are bits of memory, and the two positions
\* are where they are.
LEMMA PositionsAreRight ==
  ASSUME IInv, pc = "copy"
  PROVE  /\ Target \in Nat /\ Source \in Nat /\ i \in Nat /\ call.total \in Nat
         /\ i <= call.total
         /\ Target + call.total <= MemBits /\ Source + call.total <= MemBits
         /\ (Target + i) \div ByteBits = call.dst + dstPos[1]
         /\ (Target + i) % ByteBits = dstPos[2]
         /\ (Source + i) \div ByteBits = call.src + srcPos[1]
         /\ (Source + i) % ByteBits = srcPos[2]
<1>1. /\ call \in CallRecord /\ i \in Nat /\ i <= call.total
      /\ dstPos = Place(call.dstBit + i) /\ srcPos = Place(call.srcBit + i)
      /\ Target + call.total <= ByteBits * call.dstLimit /\ call.dstLimit <= MemSize
      /\ Source + call.total <= ByteBits * call.srcLimit /\ call.srcLimit <= MemSize
  BY DEF IInv, Copying
<1>2. /\ call.dst \in Nat /\ call.src \in Nat /\ call.dstLimit \in Nat /\ call.srcLimit \in Nat
      /\ call.dstBit \in Nat /\ call.srcBit \in Nat /\ call.total \in Nat
  BY <1>1 DEF CallRecord
<1>3. ByteBits * call.dst \in Nat /\ ByteBits * call.src \in Nat
  BY <1>2, Sizes
<1>4. ByteBits * call.dstLimit \in Nat /\ ByteBits * call.dstLimit <= MemBits
  BY <1>1, <1>2, BytesFit
<1>5. ByteBits * call.srcLimit \in Nat /\ ByteBits * call.srcLimit <= MemBits
  BY <1>1, <1>2, BytesFit
<1>6. Target + i = ByteBits * call.dst + (call.dstBit + i) /\ call.dstBit + i \in Nat
  BY <1>1, <1>2, <1>3 DEF Target
<1>7. Source + i = ByteBits * call.src + (call.srcBit + i) /\ call.srcBit + i \in Nat
  BY <1>1, <1>2, <1>3 DEF Source
<1>8. /\ (Target + i) \div ByteBits = call.dst + dstPos[1]
      /\ (Target + i) % ByteBits = dstPos[2]
  BY <1>2, <1>6, <1>1, PlaceAfter
<1>9. /\ (Source + i) \div ByteBits = call.src + srcPos[1]
      /\ (Source + i) % ByteBits = srcPos[2]
  BY <1>1, <1>2, <1>7, PlaceAfter
<1>10. Target \in Nat /\ Source \in Nat
  BY <1>2, <1>3 DEF Target, Source
<1>11. Target + call.total <= MemBits /\ Source + call.total <= MemBits
  <2> DEFINE p == ByteBits * call.dstLimit
             q == ByteBits * call.srcLimit
  <2>1. /\ p \in Nat /\ p <= MemBits /\ Target + call.total <= p
        /\ q \in Nat /\ q <= MemBits /\ Source + call.total <= q
    BY <1>1, <1>4, <1>5
  <2> HIDE DEF p, q
  <2> QED
    BY <1>2, <1>10, <2>1, Sizes
<1> QED
  BY <1>1, <1>2, <1>8, <1>9, <1>10, <1>11

\* The invariant holds at the start, and every step keeps it.
LEMMA InitIInv == Init => IInv
<1> SUFFICES ASSUME Init PROVE IInv
  OBVIOUS
<1>1. 0 \in 0 .. Word - 1 /\ 0 \in Bit
  BY Sizes DEF Bit
<1>2. TypeOK
  BY <1>1 DEF Init, TypeOK
<1>3. Encoded
  <2>1. 0 <= 2 ^ 0
    BY PowerDoubles
  <2> QED
    BY <2>1 DEF Init, Encoded, EncodingIsLeast
<1> QED
  BY <1>2, <1>3 DEF Init, IInv, Copying, HalfCopied, Encoding

LEMMA BeginCopyStep ==
  ASSUME IInv, NEW dst \in Windows, NEW src \in Windows, NEW width \in Widths,
         NEW dstOffset \in Nat, NEW srcOffset \in Nat, NEW n \in Nat,
         BeginCopy(dst, dstOffset, src, srcOffset, n, width)
  PROVE  IInv'
<1> DEFINE db == Times(dstOffset, width)
           sb == Times(srcOffset, width)
           t  == Times(n, width)
<1>1. width \in Nat
  BY BitCopyAssumption
<1>2. /\ db \in Nat /\ t \in Nat
      /\ ByteBits * dst.base + db + t <= ByteBits * (dst.base + dst.size)
  BY <1>1, HoldsIs DEF BeginCopy
<1>3. /\ sb \in Nat
      /\ ByteBits * src.base + sb + t <= ByteBits * (src.base + src.size)
  BY <1>1, HoldsIs DEF BeginCopy
<1>4. /\ dst.base \in Nat /\ dst.base + dst.size \in Nat /\ dst.base + dst.size <= MemSize
      /\ src.base \in Nat /\ src.base + src.size \in Nat /\ src.base + src.size <= MemSize
  BY WindowFits
<1>5. /\ pc' = "copy"
      /\ call' = [dst |-> dst.base, src |-> src.base, dstLimit |-> dst.base + dst.size,
                  srcLimit |-> src.base + src.size, dstBit |-> db, srcBit |-> sb, total |-> t]
      /\ i' = 0 /\ dstPos' = Place(db) /\ srcPos' = Place(sb)
      /\ before' = mem /\ mem' = mem /\ answer' = None /\ count' = 0 /\ code' = <<0, 0>>
  BY DEF BeginCopy, NewCall
<1>6. mem \in [Address -> SUBSET Bit]
  BY DEF IInv, TypeOK
<1> HIDE DEF db, sb, t
<1>7. Place(db) \in Nat \X Bit /\ Place(sb) \in Nat \X Bit
  BY <1>2, <1>3, AdvanceIsNext
<1>8. TypeOK'
  <2>1. 0 \in 0 .. Word - 1
    BY Sizes
  <2> QED
    BY <1>5, <1>6, <1>7, <2>1 DEF TypeOK
<1>9. Copying'
  <2>1. call' \in CallRecord
    BY <1>2, <1>3, <1>4, <1>5 DEF CallRecord
  <2>2. /\ call'.dst = dst.base /\ call'.src = src.base /\ call'.dstBit = db /\ call'.srcBit = sb
        /\ call'.dstLimit = dst.base + dst.size /\ call'.srcLimit = src.base + src.size
        /\ call'.total = t
    BY <1>5
  <2>3. Target' = ByteBits * dst.base + db /\ Source' = ByteBits * src.base + sb
    BY <2>2 DEF Target, Source
  <2>4. i' \in Nat /\ i' <= t /\ db + i' = db /\ sb + i' = sb
    BY <1>2, <1>3, <1>5
  <2>5. dstPos' = Place(call'.dstBit + i') /\ srcPos' = Place(call'.srcBit + i')
    BY <1>5, <2>2, <2>4
  <2> QED
    BY <1>2, <1>3, <1>4, <1>5, <1>6, <2>1, <2>2, <2>3, <2>4, <2>5 DEF Copying, Place
<1>10. HalfCopied'
  <2>1. Target' \in Nat
    <3>1. ByteBits * dst.base \in Nat
      BY <1>4, Sizes
    <3> QED
      BY <1>2, <1>5, <3>1 DEF Target
  <2>2. ASSUME NEW j \in 0 .. MemBits - 1
        PROVE  BitAt(mem, j)' <=> Moved(before, Target, Source, i, j)'
    <3>1. PICK d \in Nat : d = Target'
      BY <2>1
    <3>2. d .. d + i' - 1 = {}
      BY <1>5
    <3> QED
      BY <1>5, <3>1, <3>2 DEF Moved, BitAt
  <2> QED
    BY <2>2 DEF HalfCopied, MemBits
<1>11. Encoding' /\ Encoded'
  <2>1. 0 <= 2 ^ 0
    BY PowerDoubles
  <2> QED
    BY <1>5, <2>1 DEF Encoding, Encoded, EncodingIsLeast
<1> QED
  BY <1>8, <1>9, <1>10, <1>11 DEF IInv

\* What moving a bit does to memory, bit by bit.
LEMMA CopyBitMoves ==
  ASSUME IInv, CopyBit
  PROVE  /\ Target + i \in 0 .. MemBits - 1 /\ Source + i \in 0 .. MemBits - 1
         /\ mem' \in [Address -> SUBSET Bit]
         /\ \A j \in 0 .. MemBits - 1 :
              BitAt(mem', j) <=> IF j = Target + i THEN Target + i # Source + i /\ BitAt(mem, Source + i)
                                 ELSE BitAt(mem, j)
<1>1. pc = "copy" /\ i < call.total
  BY DEF CopyBit
<1>2. /\ Target \in Nat /\ Source \in Nat /\ i \in Nat /\ call.total \in Nat
      /\ Target + call.total <= MemBits /\ Source + call.total <= MemBits
  BY <1>1, PositionsAreRight
<1>3. PICK d \in Nat, s \in Nat : d = Target + i /\ s = Source + i
  BY <1>2
<1>4. d \in 0 .. MemBits - 1 /\ s \in 0 .. MemBits - 1
  BY <1>1, <1>2, <1>3, Sizes
<1>5. /\ d \div ByteBits = call.dst + dstPos[1] /\ d % ByteBits = dstPos[2]
      /\ s \div ByteBits = call.src + srcPos[1] /\ s % ByteBits = srcPos[2]
  BY <1>1, <1>3, PositionsAreRight
<1>6. mem' = MoveBit(mem, d \div ByteBits, d % ByteBits, s \div ByteBits, s % ByteBits)
  BY <1>5 DEF CopyBit
<1>7. mem \in [Address -> SUBSET Bit]
  BY DEF IInv, TypeOK
<1>8. /\ mem' \in [Address -> SUBSET Bit]
      /\ \A j \in 0 .. MemBits - 1 :
           BitAt(mem', j) <=> IF j = d THEN d # s /\ BitAt(mem, s) ELSE BitAt(mem, j)
  BY <1>4, <1>6, <1>7, MoveBitIs
<1> QED
  BY <1>3, <1>4, <1>8

\* An iteration of the loop of bitcopy moves the next bit.
LEMMA CopyBitStep ==
  ASSUME IInv, CopyBit
  PROVE  IInv'
<1>1. /\ pc = "copy" /\ i < call.total
      /\ dstPos' = Advance(dstPos) /\ srcPos' = Advance(srcPos) /\ i' = i + 1
      /\ UNCHANGED <<pc, call, before, count, code, answer>>
  BY DEF CopyBit, encoding
<1>2. /\ call \in CallRecord /\ i \in Nat /\ i <= call.total
      /\ dstPos = Place(call.dstBit + i) /\ srcPos = Place(call.srcBit + i)
      /\ before \in [Address -> SUBSET Bit]
      /\ answer = None /\ count = 0 /\ code = <<0, 0>>
  BY <1>1 DEF IInv, Copying
<1>3. /\ Target \in Nat /\ Source \in Nat /\ call.total \in Nat
      /\ Target + call.total <= MemBits /\ Source + call.total <= MemBits
  BY <1>1, PositionsAreRight
<1>4. call.dstBit \in Nat /\ call.srcBit \in Nat
  BY <1>2 DEF CallRecord
<1>5. Target' = Target /\ Source' = Source
  BY <1>1 DEF Target, Source
<1>6. dstPos' = Place(call.dstBit + (i + 1)) /\ dstPos' \in Nat \X Bit
  <2>1. PICK n \in Nat : n = call.dstBit + i
    BY <1>2, <1>4
  <2>2. n + 1 = call.dstBit + (i + 1) /\ n + 1 \in Nat
    BY <1>2, <1>4, <2>1
  <2>3. Advance(Place(n)) = Place(n + 1) /\ Place(n + 1) \in Nat \X Bit
    BY <2>2, AdvanceIsNext
  <2>4. dstPos' = Place(n + 1)
    BY <1>1, <1>2, <2>1, <2>3
  <2> QED
    BY <2>2, <2>3, <2>4
<1>7. srcPos' = Place(call.srcBit + (i + 1)) /\ srcPos' \in Nat \X Bit
  <2>1. PICK n \in Nat : n = call.srcBit + i
    BY <1>2, <1>4
  <2>2. n + 1 = call.srcBit + (i + 1) /\ n + 1 \in Nat
    BY <1>2, <1>4, <2>1
  <2>3. Advance(Place(n)) = Place(n + 1) /\ Place(n + 1) \in Nat \X Bit
    BY <2>2, AdvanceIsNext
  <2>4. srcPos' = Place(n + 1)
    BY <1>1, <1>2, <2>1, <2>3
  <2> QED
    BY <2>2, <2>3, <2>4
<1>8. i' \in Nat /\ i' <= call.total /\ i' \in 0 .. Word - 1
  BY <1>1, <1>2, <1>3, Sizes
<1>9. mem' \in [Address -> SUBSET Bit]
  BY CopyBitMoves
<1>10. TypeOK'
  BY <1>1, <1>6, <1>7, <1>8, <1>9 DEF IInv, TypeOK
<1>11. Copying'
  <2>1. call' = call /\ i' = i + 1
    BY <1>1
  <2> QED
    BY <1>1, <1>2, <1>5, <1>6, <1>7, <1>8, <2>1 DEF IInv, Copying
<1>12. HalfCopied'
  <2>1. PICK d \in Nat, s \in Nat, k \in Nat : d = Target /\ s = Source /\ k = i
    BY <1>2, <1>3
  <2>2. \A j \in 0 .. MemBits - 1 : BitAt(mem, j) <=> Moved(before, d, s, k, j)
    BY <1>1, <2>1 DEF IInv, HalfCopied
  <2>3. /\ d + k \in 0 .. MemBits - 1 /\ s + k \in 0 .. MemBits - 1
        /\ \A j \in 0 .. MemBits - 1 :
             BitAt(mem', j) <=> IF j = d + k THEN d + k # s + k /\ BitAt(mem, s + k) ELSE BitAt(mem, j)
    BY <2>1, CopyBitMoves
  <2>4. ASSUME NEW j \in 0 .. MemBits - 1
        PROVE  BitAt(mem', j) <=> Moved(before, d, s, k + 1, j)
    <3>1. j \in Nat
      BY Sizes
    <3>2. Moved(before, d, s, k + 1, j) <=>
            IF j = d + k THEN d # s /\ Moved(before, d, s, k, s + k) ELSE Moved(before, d, s, k, j)
      BY <3>1, MovedNext
    <3>3. BitAt(mem, s + k) <=> Moved(before, d, s, k, s + k)
      BY <2>2, <2>3
    <3>4. d + k # s + k <=> d # s
      OBVIOUS
    <3> QED
      BY <2>2, <2>3, <3>2, <3>3, <3>4
  <2>5. ASSUME NEW j \in 0 .. MemBits - 1
        PROVE  BitAt(mem, j)' <=> Moved(before, Target, Source, i, j)'
    <3>1. BitAt(mem, j)' <=> BitAt(mem', j)
      BY DEF BitAt
    <3>2. Moved(before, Target, Source, i, j)' <=> Moved(before, d, s, k + 1, j)
      BY <1>1, <1>5, <2>1 DEF Moved, BitAt
    <3> QED
      BY <2>4, <3>1, <3>2
  <2> QED
    BY <2>5 DEF HalfCopied, MemBits
<1>13. Encoding' /\ Encoded'
  BY <1>1 DEF IInv, Encoding, Encoded, EncodingIsLeast
<1> QED
  BY <1>10, <1>11, <1>12, <1>13 DEF IInv

\* A step that ends a call, and leaves nothing for a number of elements encoded.
LEMMA IdleStep ==
  ASSUME pc' = "idle", TypeOK', count' = 0, code' = <<0, 0>>
  PROVE  IInv'
<1>1. 0 <= 2 ^ 0
  BY PowerDoubles
<1> QED
  BY <1>1 DEF IInv, Copying, HalfCopied, Encoding, Encoded, EncodingIsLeast

LEMMA CopyReturnsStep ==
  ASSUME IInv, CopyReturns
  PROVE  IInv'
<1>1. count = 0 /\ code = <<0, 0>>
  BY DEF CopyReturns, IInv, Copying
<1>2. TypeOK'
  <2>1. 0 \in 0 .. Word - 1 /\ 0 \in Bit
    BY Sizes DEF Bit
  <2> QED
    BY <2>1 DEF CopyReturns, IInv, TypeOK, encoding
<1> QED
  BY <1>1, <1>2, IdleStep DEF CopyReturns, encoding

LEMMA SetBitValueStep ==
  ASSUME IInv, NEW w \in Windows, NEW idx \in 0 .. w.size * ByteBits - 1,
         NEW value \in BOOLEAN, SetBitValue(w, idx, value)
  PROVE  IInv'
<1>1. Place(idx)[2] \in Bit
  <2>1. idx \in Nat
    BY WindowFits, Sizes
  <2>2. Place(idx) \in Nat \X Bit
    BY <2>1, AdvanceIsNext
  <2> QED
    BY <2>2
<1>2. PICK a : \E b \in Bit :
        /\ mem' = [mem EXCEPT ![a] = IF value THEN @ \cup {b} ELSE @ \ {b}]
        /\ NewCall /\ count' = 0 /\ code' = <<0, 0>> /\ UNCHANGED <<pc, copying>>
  BY <1>1 DEF SetBitValue
<1>3. mem' \in [Address -> SUBSET Bit]
  <2>1. PICK b \in Bit : mem' = [mem EXCEPT ![a] = IF value THEN @ \cup {b} ELSE @ \ {b}]
    BY <1>2
  <2>2. mem \in [Address -> SUBSET Bit]
    BY DEF IInv, TypeOK
  <2>3. CASE value
    <3>1. mem' = [mem EXCEPT ![a] = @ \cup {b}]
      BY <2>1, <2>3
    <3> QED
      BY <2>2, <3>1
  <2>4. CASE ~value
    <3>1. mem' = [mem EXCEPT ![a] = @ \ {b}]
      BY <2>1, <2>4
    <3> QED
      BY <2>2, <3>1
  <2> QED
    BY <2>3, <2>4
<1>4. TypeOK'
  <2>1. 0 \in 0 .. Word - 1
    BY Sizes
  <2> QED
    BY <1>2, <1>3, <2>1 DEF NewCall, IInv, TypeOK, copying
<1> QED
  BY <1>2, <1>4, IdleStep DEF NewCall

LEMMA GetBitStep ==
  ASSUME IInv, pc = "idle", answer' \in BOOLEAN, count' = 0, code' = <<0, 0>>,
         UNCHANGED <<mem, pc, copying>>
  PROVE  IInv'
<1>1. TypeOK'
  <2>1. 0 \in 0 .. Word - 1
    BY Sizes
  <2> QED
    BY <2>1 DEF IInv, TypeOK, copying
<1> QED
  BY <1>1, IdleStep

\* Half of the numbers of a size_t are not more than it, and twice that many fit.
LEMMA HalfOfWord ==
  Word \div 2 \in Nat /\ 2 * (Word \div 2) <= Word /\ Word \in Nat
<1>1. Word \in Nat
  BY Sizes
<1>2. Word \div 2 \in Nat /\ Word = 2 * (Word \div 2) + (Word % 2) /\ Word % 2 \in 0 .. 1
  BY <1>1, DivisionIs
<1> QED
  BY <1>1, <1>2

LEMMA BeginEncodeStep ==
  ASSUME IInv, NEW n \in 0 .. Word, BeginEncode(n)
  PROVE  IInv'
<1>1. /\ n <= Word \div 2 /\ count' = n /\ pc = "idle" /\ answer' = None
      /\ IF n <= 1 THEN code' = <<0, n>> /\ pc' = pc ELSE code' = <<1, 0>> /\ pc' = "encode"
      /\ UNCHANGED <<mem, copying>>
  BY DEF BeginEncode, NewCall
<1>2. n \in Nat /\ n \in 0 .. Word - 1 /\ 0 \in 0 .. Word - 1 /\ (n > 1 => 1 \in 0 .. Word - 1)
  BY <1>1, HalfOfWord, Sizes
<1>3. 2 ^ 0 \in Nat /\ 2 ^ 1 \in Nat /\ 2 ^ 0 = 1 /\ 1 <= 2 ^ 1
  <2>1. 2 ^ 0 = 1
    OBVIOUS
  <2>2. 2 ^ 1 \in Nat /\ 1 <= 2 ^ 1
    BY PowerOfTwo
  <2> QED
    BY <2>1, <2>2
<1>4. CASE n <= 1
  <2>1. code' = <<0, n>> /\ pc' = "idle" /\ (n = 0 \/ n = 1)
    BY <1>1, <1>2, <1>4
  <2>2. TypeOK'
    BY <1>1, <1>2, <2>1 DEF IInv, TypeOK, copying
  <2>3. Encoded'
    <3>1. count' = n /\ code'[2] = n
      BY <1>1, <2>1
    <3>2. EncodingIsLeast(code[2])' <=> n <= 2 ^ n /\ (n > 1 => n > 2 ^ (n - 1))
      BY <3>1 DEF EncodingIsLeast
    <3>3. n <= 2 ^ n
      BY <1>2, PowerOfTwo
    <3> QED
      BY <1>2, <1>4, <3>2, <3>3 DEF Encoded
  <2> QED
    BY <2>1, <2>2, <2>3 DEF IInv, Copying, HalfCopied, Encoding
<1>5. CASE n > 1
  <2>1. code' = <<1, 0>> /\ pc' = "encode"
    BY <1>1, <1>2, <1>5
  <2>2. TypeOK'
    BY <1>1, <1>2, <1>5, <2>1 DEF IInv, TypeOK, copying
  <2>3. Encoding'
    BY <1>1, <1>2, <1>3, <1>5, <2>1 DEF Encoding
  <2> QED
    BY <2>1, <2>2, <2>3 DEF IInv, Copying, HalfCopied, Encoded
<1> QED
  BY <1>2, <1>4, <1>5

\* The capacity is a power of two that has not passed the count: doubled, it still
\* fits into a size_t, and so does the number of its bits.
LEMMA EncodeStep ==
  ASSUME IInv, Encode
  PROVE  IInv'
<1>1. /\ pc = "encode" /\ code[1] < count
      /\ code' = <<Times(code[1], 2), Plus(code[2], 1)>>
      /\ UNCHANGED <<mem, pc, copying, count, answer>>
  BY DEF Encode, CapacityDoubles
<1>2. PICK c \in Nat : c = code[2]
  BY DEF IInv, TypeOK
<1>3. PICK p \in Nat : p = 2 ^ c /\ c <= p
  BY PowerOfTwo
<1>4. /\ count > 1 /\ count <= Word \div 2 /\ count \in Nat /\ code[1] = p
      /\ code[1] \in 0 .. Word - 1
  BY <1>1, <1>2, <1>3, Sizes DEF IInv, TypeOK, Encoding
<1>5. p * 2 \in Nat /\ p * 2 < Word /\ c + 1 \in Nat /\ c + 1 < Word
  BY <1>1, <1>3, <1>4, HalfOfWord
<1>6. code' = <<p * 2, c + 1>>
  BY <1>1, <1>2, <1>4, <1>5, HalfOfWord, FitsExactly DEF Times, Plus
<1>7. 2 ^ (c + 1) = p * 2
  <2>1. 2 ^ (c + 1) = 2 * p
    BY <1>3, PowerDoubles
  <2> QED
    BY <2>1
<1>8. TypeOK'
  BY <1>1, <1>5, <1>6, Sizes DEF IInv, TypeOK, copying
<1>9. Encoding'
  <2>1. (c + 1) - 1 = c
    OBVIOUS
  <2> QED
    BY <1>1, <1>3, <1>4, <1>6, <1>7, <2>1 DEF Encoding
<1> QED
  BY <1>1, <1>8, <1>9 DEF IInv, Copying, HalfCopied, Encoded

LEMMA EncodeReturnsStep ==
  ASSUME IInv, EncodeReturns
  PROVE  IInv'
<1>1. /\ pc = "encode" /\ ~(code[1] < count)
      /\ code' = <<0, code[2]>> /\ pc' = "idle"
      /\ UNCHANGED <<mem, copying, count, answer>>
  BY DEF EncodeReturns, CapacityDoubles
<1>2. PICK c \in Nat : c = code[2]
  BY DEF IInv, TypeOK
<1>3. PICK p \in Nat : p = 2 ^ c
  BY PowerOfTwo
<1>4. count > 1 /\ count \in Nat /\ code[1] = p /\ (c > 0 => count > 2 ^ (c - 1))
  BY <1>1, <1>2, <1>3, Sizes DEF IInv, TypeOK, Encoding
<1>5. c > 0 /\ count <= p
  <2>1. count <= p
    BY <1>1, <1>4
  <2>2. ASSUME c = 0 PROVE FALSE
    <3>1. 2 ^ 0 = 1
      OBVIOUS
    <3>2. p = 1
      BY <1>3, <2>2, <3>1
    <3> QED
      BY <1>4, <2>1, <3>2
  <2> QED
    BY <2>1, <2>2
<1>6. TypeOK'
  <2>1. 0 \in 0 .. Word - 1
    BY Sizes
  <2> QED
    BY <1>1, <1>2, <2>1 DEF IInv, TypeOK, copying
<1>7. Encoded'
  <2>1. count' = count /\ code'[2] = c
    BY <1>1, <1>2
  <2> QED
    BY <1>3, <1>4, <1>5, <2>1 DEF Encoded, EncodingIsLeast
<1> QED
  BY <1>1, <1>6, <1>7 DEF IInv, Copying, HalfCopied, Encoding

LEMMA IInvInductive == IInv /\ [Next]_vars => IInv'
<1> SUFFICES ASSUME IInv, [Next]_vars PROVE IInv'
  OBVIOUS
<1>1. ASSUME NEW dst \in Windows, NEW src \in Windows, NEW width \in Widths,
             NEW dstOffset \in 0 .. MemBits, NEW srcOffset \in 0 .. MemBits, NEW n \in 0 .. MemBits,
             BeginCopy(dst, dstOffset, src, srcOffset, n, width)
      PROVE  IInv'
  <2>1. dstOffset \in Nat /\ srcOffset \in Nat /\ n \in Nat
    BY Sizes
  <2> QED
    BY <1>1, <2>1, BeginCopyStep
<1>2. ASSUME NEW w \in Windows, NEW idx \in 0 .. w.size * ByteBits - 1, NEW value \in BOOLEAN,
             SetBitValue(w, idx, value)
      PROVE  IInv'
  BY <1>2, SetBitValueStep
<1>3. ASSUME NEW w \in Windows, NEW idx \in 0 .. w.size * ByteBits - 1, GetBitValue(w, idx)
      PROVE  IInv'
  BY <1>3, GetBitStep DEF GetBitValue
<1>4. ASSUME NEW a \in Address, NEW idx \in Bit, GetBitFlag(a, idx)
      PROVE  IInv'
  BY <1>4, GetBitStep DEF GetBitFlag
<1>5. ASSUME NEW n \in 0 .. Word, BeginEncode(n)
      PROVE  IInv'
  BY <1>5, BeginEncodeStep
<1>6. CASE Loop
  BY <1>6, CopyBitStep, CopyReturnsStep, EncodeStep, EncodeReturnsStep DEF Loop
<1>7. CASE UNCHANGED vars
  BY <1>7 DEF vars, copying, encoding, IInv, TypeOK, Copying, HalfCopied, Encoding, Encoded,
              EncodingIsLeast, Target, Source, Moved, BitAt
<1> QED
  BY <1>1, <1>2, <1>3, <1>4, <1>5, <1>6, <1>7 DEF Next, Call

LEMMA Invariance == Spec => []IInv
BY InitIInv, IInvInductive, PTL DEF Spec

-----------------------------------------------------------------------------
(* The theorems.                                                           *)

\* Memory keeps its bytes, and every loop counter, position and size computed stays
\* a number that a size_t holds.
THEOREM TypeCorrect == Spec => []TypeOK
<1>1. IInv => TypeOK
  BY DEF IInv
<1> QED
  BY <1>1, Invariance, PTL

\* No bit is read outside the source or written outside the destination: the ends
\* that bitcopy compares with the buffers bound the positions that it counts.
THEOREM Bounded == Spec => []StaysInBuffers
<1>1. IInv => StaysInBuffers
  <2> SUFFICES ASSUME IInv, pc = "copy", i < call.total
               PROVE  /\ call.dst + dstPos[1] < call.dstLimit
                      /\ call.src + srcPos[1] < call.srcLimit
    BY DEF StaysInBuffers
  <2>1. /\ Target \in Nat /\ Source \in Nat /\ i \in Nat /\ call.total \in Nat
        /\ (Target + i) \div ByteBits = call.dst + dstPos[1]
        /\ (Source + i) \div ByteBits = call.src + srcPos[1]
    BY PositionsAreRight
  <2>2. /\ call.dstLimit \in Nat /\ Target + call.total <= ByteBits * call.dstLimit
        /\ call.srcLimit \in Nat /\ Source + call.total <= ByteBits * call.srcLimit
    BY DEF IInv, Copying, CallRecord
  <2>3. PICK d \in Nat, s \in Nat : d = Target + i /\ s = Source + i
    BY <2>1
  <2>4. d < ByteBits * call.dstLimit
    <3> DEFINE e == ByteBits * call.dstLimit
    <3>1. e \in Nat
      BY <2>2, Sizes
    <3>2. Target + call.total <= e
      BY <2>2
    <3> HIDE DEF e
    <3>3. d < e
      BY <2>1, <2>3, <3>1, <3>2
    <3> QED
      BY <3>3 DEF e
  <2>5. s < ByteBits * call.srcLimit
    <3> DEFINE e == ByteBits * call.srcLimit
    <3>1. e \in Nat
      BY <2>2, Sizes
    <3>2. Source + call.total <= e
      BY <2>2
    <3> HIDE DEF e
    <3>3. s < e
      BY <2>1, <2>3, <3>1, <3>2
    <3> QED
      BY <3>3 DEF e
  <2>6. d \div ByteBits \in 0 .. call.dstLimit - 1 /\ s \div ByteBits \in 0 .. call.srcLimit - 1
    BY <2>2, <2>4, <2>5, ByteWithin
  <2>7. d \div ByteBits < call.dstLimit /\ s \div ByteBits < call.srcLimit
    BY <2>2, <2>6
  <2> QED
    BY <2>1, <2>3, <2>7
<1> QED
  BY <1>1, Invariance, PTL

\* The bytes for n elements of b bits hold them, and one byte less does not.
LEMMA StorageFits ==
  ASSUME NEW b \in Nat \ {0}, NEW n \in Nat \ {0}
  PROVE  StorageIsLeast(b, n)
<1> DEFINE k == n * b
           q == k \div ByteBits
           r == k % ByteBits
           size == ByteStorage(k)
           window(s) == [base |-> 0, size |-> s]
<1> SUFFICES ASSUME FitsWord(0, n, b), size * ByteBits < Word
             PROVE  Holds(window(size), 0, n, b) /\ ~Holds(window(size - 1), 0, n, b)
  BY DEF StorageIsLeast
<1>1. k \in Nat \ {0}
  BY SMT
<1>2. q \in Nat /\ r \in 0 .. ByteBits - 1 /\ k = ByteBits * q + r
  BY <1>1, Sizes, DivisionIs
<1>3. size = q + (IF r > 0 THEN 1 ELSE 0)
  BY DEF ByteStorage
<1>4. Plus(Times(0, b), Times(n, b)) = k
  <2>1. 0 * b = 0 /\ b \in Nat /\ n \in Nat
    OBVIOUS
  <2>2. Times(0, b) = 0 * b /\ Times(n, b) = k /\ Plus(0 * b, k) = 0 * b + k
    BY <2>1, ProductsFit
  <2> HIDE DEF k
  <2> QED
    BY <1>1, <2>1, <2>2
<1> HIDE DEF k, q, r, size
<1>5. size \in Nat \ {0}
  <2>1. CASE r > 0
    BY <1>2, <1>3, <2>1
  <2>2. CASE r = 0
    <3>1. k = ByteBits * q
      BY <1>2, <2>2, Sizes
    <3>2. q # 0
      BY <1>1, <3>1, Sizes
    <3> QED
      BY <1>2, <1>3, <2>2, <3>2
  <2> QED
    BY <1>2, <2>1, <2>2
<1>6. k <= ByteBits * size /\ k > ByteBits * (size - 1)
  <2> DEFINE p == ByteBits * q
  <2>1. p \in Nat /\ k = p + r /\ ByteBits * (q + 1) = p + ByteBits /\ ByteBits * (q - 1) = p - ByteBits
    BY <1>2, Sizes
  <2>2. CASE r > 0
    <3>1. size = q + 1 /\ size - 1 = q
      BY <1>2, <1>3, <2>2
    <3>2. k <= p + ByteBits /\ k > p
      BY <1>2, <2>1, <2>2, Sizes
    <3> QED
      BY <2>1, <3>1, <3>2
  <2>3. CASE r = 0
    <3>1. size = q /\ size - 1 = q - 1
      BY <1>2, <1>3, <2>3
    <3>2. k <= p /\ k > p - ByteBits
      BY <1>2, <2>1, <2>3, Sizes
    <3> QED
      BY <2>1, <3>1, <3>2
  <2> QED
    BY <1>2, <2>2, <2>3
<1>7. /\ Times(size, ByteBits) = ByteBits * size
      /\ Times(size - 1, ByteBits) = ByteBits * (size - 1)
  <2> DEFINE p == ByteBits * size
             o == ByteBits * (size - 1)
  <2>1. p \in Nat /\ o \in Nat /\ o = p - ByteBits /\ size * ByteBits = p /\ size - 1 \in Nat
    BY <1>5, Sizes
  <2>2. p < Word
    BY <2>1
  <2>3. o < Word
    <3> HIDE DEF p, o
    <3> QED
      BY <2>1, <2>2, Sizes
  <2> QED
    BY <1>5, <2>1, <2>2, <2>3, SizeFits
<1>8. window(size).size = size /\ window(size - 1).size = size - 1
  OBVIOUS
<1>9. Holds(window(size), 0, n, b) <=> k <= ByteBits * size
  BY <1>4, <1>7, <1>8 DEF Holds
<1>10. Holds(window(size - 1), 0, n, b) <=> k <= ByteBits * (size - 1)
  BY <1>4, <1>7, <1>8 DEF Holds
<1>11. ~(k <= ByteBits * (size - 1))
  <2> DEFINE o == ByteBits * (size - 1)
  <2>1. o \in Int /\ k > o
    BY <1>5, <1>6, Sizes
  <2> HIDE DEF o
  <2> QED
    BY <1>1, <2>1 DEF o
<1> QED
  BY <1>6, <1>9, <1>10, <1>11

\* The sizes computed are the least: no fewer bits give every element a code, and
\* no fewer bytes are accepted by bitcopy for any number of elements of those bits.
THEOREM LeastSizes == Spec => []SizesAreLeast
<1>1. IInv => SizesAreLeast
  <2> SUFFICES ASSUME IInv, pc = "idle" PROVE SizesAreLeast
    BY DEF SizesAreLeast
  <2>1. EncodingIsLeast(code[2]) /\ code[2] \in Nat
    BY DEF IInv, TypeOK, Encoded
  <2>2. PICK b \in Nat : b = code[2]
    BY <2>1
  <2>3. ASSUME b > 0, NEW n \in 1 .. MemBits PROVE StorageIsLeast(b, n)
    <3>1. b \in Nat \ {0} /\ n \in Nat \ {0}
      BY <2>3, Sizes
    <3> QED
      BY <3>1, StorageFits
  <2> QED
    BY <2>1, <2>2, <2>3 DEF SizesAreLeast
<1> QED
  BY <1>1, Invariance, PTL

-----------------------------------------------------------------------------
(* BitCopy implements BitArray.                                            *)

\* Memory as the array of bits that BitArray speaks of.
Flat ==
  LET m == IF pc = "copy" THEN before ELSE mem
  IN  [j \in 0 .. MemBits - 1 |-> j % ByteBits \in m[j \div ByteBits]]

\* What BitArray says, of that array.
LEMMA AbstractInit == A!Init <=> Flat \in [0 .. MemBits - 1 -> BOOLEAN] /\ answer = None
BY DEF A!Init, A!Indices, Flat

\* The steps of BitArray, in terms of Flat.
LEMMA AbstractForget == A!Forget <=> answer' = None /\ Flat' = Flat
BY DEF A!Forget, Flat

LEMMA AbstractRead ==
  ASSUME NEW j
  PROVE  A!Read(j) <=> answer' = Flat[j] /\ Flat' = Flat
BY DEF A!Read, Flat

LEMMA AbstractSet ==
  ASSUME NEW j, NEW v
  PROVE  A!Set(j, v) <=> Flat' = [Flat EXCEPT ![j] = v] /\ answer' = None
BY DEF A!Set, Flat

LEMMA AbstractStutter == A!vars' = A!vars <=> Flat' = Flat /\ answer' = answer
BY DEF A!vars, Flat

LEMMA AbstractCopy ==
  ASSUME NEW d, NEW s, NEW n
  PROVE  A!Copy(d, s, n) <=>
           /\ answer' = None
           /\ Flat' = [j \in 0 .. MemBits - 1 |->
                         IF j \notin d .. d + n - 1 THEN Flat[j]
                         ELSE IF d = s THEN FALSE
                         ELSE IF s < d THEN Flat[s + ((j - d) % (d - s))]
                         ELSE Flat[s + (j - d)]]
BY DEF A!Copy, A!Copied, A!Indices, Flat

LEMMA AbstractNext ==
  A!Next <=>
    \/ A!Forget
    \/ \E j \in 0 .. MemBits - 1 : A!Read(j) \/ \E v \in BOOLEAN : A!Set(j, v)
    \/ \E d, s \in 0 .. MemBits - 1 :
         \E n \in 0 .. MemBits - (IF d > s THEN d ELSE s) : A!Copy(d, s, n)
BY DEF A!Next, A!Indices

\* The abstract memory is that of before the copy until the copy returns.
LEMMA FlatIs ==
  /\ pc = "copy" => Flat = [j \in 0 .. MemBits - 1 |-> BitAt(before, j)]
  /\ pc # "copy" => Flat = [j \in 0 .. MemBits - 1 |-> BitAt(mem, j)]
BY DEF Flat, BitAt

\* Bytes that stay as they are, with no copy begun or ended, are bits that do.
LEMMA SameBits ==
  ASSUME \/ pc # "copy" /\ pc' # "copy" /\ mem' = mem
         \/ pc = "copy" /\ pc' = "copy" /\ before' = before
         \/ pc # "copy" /\ pc' = "copy" /\ before' = mem
  PROVE  Flat' = Flat
BY DEF Flat, MemBits

\* The first bit of a window's byte and those after it are bits of memory.
LEMMA BitOfWindow ==
  ASSUME NEW a \in Nat, NEW size \in Nat, a + size <= MemSize,
         NEW idx \in 0 .. size * ByteBits - 1
  PROVE  /\ ByteBits * a + idx \in 0 .. MemBits - 1
         /\ (ByteBits * a + idx) \div ByteBits = a + Place(idx)[1]
         /\ (ByteBits * a + idx) % ByteBits = Place(idx)[2]
<1>1. size * ByteBits = ByteBits * size /\ size * ByteBits \in Nat /\ ByteBits * a \in Nat
  BY Sizes
<1>2. idx \in Nat /\ idx < ByteBits * size
  BY <1>1
<1>3. ByteBits * (a + size) = ByteBits * a + ByteBits * size /\ ByteBits * (a + size) <= MemBits
  BY BytesFit, Sizes
<1>4. PICK k \in Nat : k = ByteBits * a + idx
  BY <1>1, <1>2
<1>5. k < MemBits
  <2> DEFINE p == ByteBits * a
             q == ByteBits * size
             t == ByteBits * (a + size)
  <2>1. p \in Nat /\ q \in Nat /\ t = p + q /\ t <= MemBits /\ idx < q /\ k = p + idx
    BY <1>1, <1>2, <1>3, <1>4
  <2> HIDE DEF p, q, t
  <2> QED
    BY <1>2, <2>1, Sizes
<1>6. k \div ByteBits = a + Place(idx)[1] /\ k % ByteBits = Place(idx)[2]
  BY <1>2, <1>4, PlaceAfter
<1> QED
  BY <1>4, <1>5, <1>6, Sizes

\* The return of bitcopy is the copy of BitArray: HalfCopied is then about all bits.
LEMMA CopyReturnsRefines ==
  ASSUME IInv, CopyReturns
  PROVE  [A!Next]_A!vars
<1>1. /\ pc = "copy" /\ i >= call.total /\ pc' = "idle" /\ mem' = mem /\ answer' = answer
  BY DEF CopyReturns
<1>2. PICK d \in Nat, s \in Nat, t \in Nat : d = Target /\ s = Source /\ t = call.total
  BY <1>1, PositionsAreRight
<1>3. i = t /\ d + t <= MemBits /\ s + t <= MemBits
  BY <1>1, <1>2, PositionsAreRight
<1>4. answer' = None
  BY <1>1 DEF IInv, Copying
<1>5. \A j \in 0 .. MemBits - 1 : BitAt(mem, j) = Moved(before, d, s, t, j)
  <2>1. \A j \in 0 .. MemBits - 1 : BitAt(mem, j) <=> Moved(before, d, s, t, j)
    BY <1>1, <1>2, <1>3 DEF IInv, HalfCopied
  <2>2. ASSUME NEW j PROVE BitAt(mem, j) \in BOOLEAN /\ Moved(before, d, s, t, j) \in BOOLEAN
    <3>1. \A m, x : BitAt(m, x) \in BOOLEAN
      BY DEF BitAt
    <3>2. CASE j \notin d .. d + t - 1
      BY <3>1, <3>2 DEF Moved
    <3>3. CASE j \in d .. d + t - 1 /\ d = s
      BY <3>1, <3>3 DEF Moved
    <3>4. CASE j \in d .. d + t - 1 /\ d # s /\ s < d
      BY <3>1, <3>4 DEF Moved
    <3>5. CASE j \in d .. d + t - 1 /\ d # s /\ ~(s < d)
      BY <3>1, <3>5 DEF Moved
    <3> QED
      BY <3>1, <3>2, <3>3, <3>4, <3>5
  <2> QED
    BY <2>1, <2>2
<1>6. Flat = [j \in 0 .. MemBits - 1 |-> BitAt(before, j)]
  BY <1>1, FlatIs
<1>7. Flat' = [j \in 0 .. MemBits - 1 |-> BitAt(mem, j)]
  BY <1>1 DEF Flat, BitAt, MemBits
<1>8. CASE t = 0
  <2>1. ASSUME NEW j \in 0 .. MemBits - 1 PROVE BitAt(mem, j) = BitAt(before, j)
    <3>1. j \notin d .. d + t - 1
      BY <1>8
    <3> QED
      BY <1>5, <3>1 DEF Moved
  <2>2. Flat' = Flat
    BY <1>6, <1>7, <2>1
  <2> QED
    BY <1>1, <2>2, AbstractStutter
<1>9. CASE t > 0
  <2>1. d \in 0 .. MemBits - 1 /\ s \in 0 .. MemBits - 1 /\ t \in 0 .. MemBits - (IF d > s THEN d ELSE s)
    BY <1>3, <1>9, Sizes
  <2>2. ASSUME NEW j \in 0 .. MemBits - 1
        PROVE  BitAt(mem, j) =
                 IF j \notin d .. d + t - 1 THEN Flat[j]
                 ELSE IF d = s THEN FALSE
                 ELSE IF s < d THEN Flat[s + ((j - d) % (d - s))]
                 ELSE Flat[s + (j - d)]
    <3>1. j \in Nat
      BY Sizes
    <3>2. Flat[j] = BitAt(before, j)
      BY <1>6
    <3>3. CASE j \notin d .. d + t - 1
      BY <1>5, <3>2, <3>3 DEF Moved
    <3>4. CASE j \in d .. d + t - 1 /\ d = s
      BY <1>5, <3>4 DEF Moved
    <3>5. CASE j \in d .. d + t - 1 /\ s < d
      <4>1. j - d \in Nat /\ d - s \in Nat \ {0}
        BY <3>1, <3>5
      <4>2. (j - d) % (d - s) \in 0 .. (d - s) - 1
        BY <4>1, DivisionIs
      <4>3. s + ((j - d) % (d - s)) \in 0 .. MemBits - 1
        BY <2>1, <4>1, <4>2, Sizes
      <4>4. Flat[s + ((j - d) % (d - s))] = BitAt(before, s + ((j - d) % (d - s)))
        BY <1>6, <4>3
      <4> QED
        BY <1>5, <3>5, <4>4 DEF Moved
    <3>6. CASE j \in d .. d + t - 1 /\ d < s
      <4>1. s + (j - d) \in 0 .. MemBits - 1
        BY <1>3, <3>1, <3>6, Sizes
      <4>2. Flat[s + (j - d)] = BitAt(before, s + (j - d))
        BY <1>6, <4>1
      <4>3. d # s /\ ~(s < d)
        BY <3>6
      <4> QED
        BY <1>5, <3>6, <4>2, <4>3 DEF Moved
    <3>7. d = s \/ s < d \/ d < s
      OBVIOUS
    <3> DEFINE in == j \in d .. d + t - 1
    <3> HIDE DEF in
    <3> QED
      BY <3>3, <3>4, <3>5, <3>6, <3>7 DEF in
  <2>3. A!Copy(d, s, t)
    BY <1>4, <1>7, <2>2, AbstractCopy
  <2> QED
    BY <2>1, <2>3, AbstractNext
<1> QED
  BY <1>8, <1>9

\* A bit changed in its byte is one bit changed in the array.
LEMMA SetBitValueRefines ==
  ASSUME IInv, NEW w \in Windows, NEW idx \in 0 .. w.size * ByteBits - 1,
         NEW value \in BOOLEAN, SetBitValue(w, idx, value)
  PROVE  A!Next
<1>1. PICK k \in 0 .. MemBits - 1 :
        k \div ByteBits = w.base + Place(idx)[1] /\ k % ByteBits = Place(idx)[2]
  BY WindowFits, BitOfWindow
<1>2. PICK a \in Address, b \in Bit : a = k \div ByteBits /\ b = k % ByteBits
  BY BitInMemory
<1>3. /\ mem' = [mem EXCEPT ![a] = IF value THEN @ \cup {b} ELSE @ \ {b}]
      /\ pc = "idle" /\ pc' = "idle" /\ answer' = None
  BY <1>1, <1>2 DEF SetBitValue, NewCall
<1>4. mem \in [Address -> SUBSET Bit]
  BY DEF IInv, TypeOK
<1>5. Flat = [j \in 0 .. MemBits - 1 |-> BitAt(mem, j)]
  BY <1>3, FlatIs
<1>6. Flat' = [j \in 0 .. MemBits - 1 |-> BitAt(mem', j)]
  BY <1>3 DEF Flat, BitAt, MemBits
<1>7. ASSUME NEW j \in 0 .. MemBits - 1
      PROVE  BitAt(mem', j) = IF j = k THEN value ELSE BitAt(mem, j)
  <2>1. PICK x \in Address, y \in Bit : x = j \div ByteBits /\ y = j % ByteBits
    BY BitInMemory
  <2>2. j = k <=> x = a /\ y = b
    BY <1>2, <2>1, SamePlace
  <2>3. y \in mem'[x] <=> IF x = a /\ y = b THEN value ELSE y \in mem[x]
    <3>1. CASE value
      <4>1. mem' = [mem EXCEPT ![a] = @ \cup {b}]
        BY <1>3, <3>1
      <4> QED
        BY <1>4, <3>1, <4>1
    <3>2. CASE ~value
      <4>1. mem' = [mem EXCEPT ![a] = @ \ {b}]
        BY <1>3, <3>2
      <4> QED
        BY <1>4, <3>2, <4>1
    <3> QED
      BY <3>1, <3>2
  <2>4. (BitAt(mem', j) <=> y \in mem'[x]) /\ (BitAt(mem, j) <=> y \in mem[x])
    BY <2>1 DEF BitAt
  <2>5. BitAt(mem', j) \in BOOLEAN /\ BitAt(mem, j) \in BOOLEAN
    BY DEF BitAt
  <2> QED
    BY <2>2, <2>3, <2>4, <2>5
<1>8. Flat' = [Flat EXCEPT ![k] = value]
  BY <1>5, <1>6, <1>7
<1>9. A!Set(k, value)
  BY <1>3, <1>8, AbstractSet
<1> QED
  BY <1>9, AbstractNext

\* A byte's bit, read at its address, is the bit of memory with that number.
LEMMA ReadRefines ==
  ASSUME IInv, pc = "idle", UNCHANGED <<mem, pc, copying>>,
         NEW k \in 0 .. MemBits - 1,
         answer' = (k % ByteBits \in mem[k \div ByteBits])
  PROVE  A!Next
<1>1. Flat = [j \in 0 .. MemBits - 1 |-> BitAt(mem, j)]
  BY FlatIs
<1>2. Flat' = Flat
  BY SameBits
<1>3. answer' = Flat[k]
  BY <1>1 DEF BitAt
<1>4. A!Read(k)
  BY <1>2, <1>3, AbstractRead
<1> QED
  BY <1>4, AbstractNext

LEMMA StepRefines == IInv /\ [Next]_vars => [A!Next]_A!vars
<1> SUFFICES ASSUME IInv, [Next]_vars PROVE [A!Next]_A!vars
  OBVIOUS
<1>1. ASSUME NEW dst \in Windows, NEW src \in Windows, NEW width \in Widths,
             NEW dstOffset \in 0 .. MemBits, NEW srcOffset \in 0 .. MemBits, NEW n \in 0 .. MemBits,
             BeginCopy(dst, dstOffset, src, srcOffset, n, width)
      PROVE  A!Next
  <2>1. Flat' = Flat /\ answer' = None
    BY <1>1, SameBits DEF BeginCopy, NewCall
  <2> QED
    BY <2>1, AbstractForget, AbstractNext
<1>2. ASSUME NEW w \in Windows, NEW idx \in 0 .. w.size * ByteBits - 1, NEW value \in BOOLEAN,
             SetBitValue(w, idx, value)
      PROVE  A!Next
  BY <1>2, SetBitValueRefines
<1>3. ASSUME NEW w \in Windows, NEW idx \in 0 .. w.size * ByteBits - 1, GetBitValue(w, idx)
      PROVE  A!Next
  <2>1. PICK k \in 0 .. MemBits - 1 :
          k \div ByteBits = w.base + Place(idx)[1] /\ k % ByteBits = Place(idx)[2]
    BY WindowFits, BitOfWindow
  <2> QED
    BY <1>3, <2>1, ReadRefines DEF GetBitValue
<1>4. ASSUME NEW a \in Address, NEW idx \in Bit, GetBitFlag(a, idx)
      PROVE  A!Next
  <2>1. a \in Nat /\ a + 1 <= MemSize /\ idx \in 0 .. 1 * ByteBits - 1 /\ idx \in Nat /\ idx < ByteBits
    BY Sizes DEF Address, Bit
  <2>2. PICK k \in 0 .. MemBits - 1 :
          k \div ByteBits = a + Place(idx)[1] /\ k % ByteBits = Place(idx)[2]
    BY <2>1, BitOfWindow
  <2>3. idx \div ByteBits = 0 /\ idx % ByteBits = idx
    <3>1. idx = ByteBits * 0 + idx /\ idx \in 0 .. ByteBits - 1
      BY <2>1, Sizes
    <3> QED
      BY <2>1, <3>1, Sizes, DivisionIsUnique
  <2>4. k \div ByteBits = a /\ k % ByteBits = idx
    BY <2>1, <2>2, <2>3 DEF Place
  <2> QED
    BY <1>4, <2>4, ReadRefines DEF GetBitFlag
<1>5. ASSUME NEW n \in 0 .. Word, BeginEncode(n)
      PROVE  A!Next
  <2>1. Flat' = Flat /\ answer' = None
    BY <1>5, SameBits DEF BeginEncode, NewCall
  <2> QED
    BY <2>1, AbstractForget, AbstractNext
<1>6. CASE CopyBit
  <2>1. Flat' = Flat /\ answer' = answer
    BY <1>6, SameBits DEF CopyBit
  <2> QED
    BY <2>1, AbstractStutter
<1>7. CASE CopyReturns
  BY <1>7, CopyReturnsRefines
<1>8. CASE Encode \/ EncodeReturns
  <2>1. Flat' = Flat /\ answer' = answer
    BY <1>8, SameBits DEF Encode, EncodeReturns, CapacityDoubles
  <2> QED
    BY <2>1, AbstractStutter
<1>9. CASE UNCHANGED vars
  <2>1. Flat' = Flat /\ answer' = answer
    BY <1>9, SameBits DEF vars, copying
  <2> QED
    BY <2>1, AbstractStutter
<1> QED
  BY <1>1, <1>2, <1>3, <1>4, <1>5, <1>6, <1>7, <1>8, <1>9 DEF Next, Call, Loop

\* Packed into bytes or not, memory is an array of bits that each call changes or
\* reads at once; a copy, made bit by bit even onto its own source, is one step of
\* that array whose result is given in advance.
THEOREM Refinement == Spec => ImplementsBitArray
<1>1. Init => A!Init
  <2> SUFFICES ASSUME Init PROVE A!Init
    OBVIOUS
  <2>1. Flat = [j \in 0 .. MemBits - 1 |-> BitAt(mem, j)] /\ answer = None
    BY FlatIs DEF Init
  <2>2. Flat \in [0 .. MemBits - 1 -> BOOLEAN]
    BY <2>1 DEF BitAt
  <2> QED
    BY <2>1, <2>2, AbstractInit
<1>2. IInv /\ [Next]_vars => [A!Next]_A!vars
  BY StepRefines
<1> QED
  BY <1>1, <1>2, Invariance, PTL DEF Spec, ImplementsBitArray, A!Spec
=============================================================================
