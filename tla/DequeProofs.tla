----------------------------- MODULE DequeProofs -----------------------------
(***************************************************************************)
(* The safety of Deque for any number of threads, any stock of items and   *)
(* any width of the count above it, and that Deque implements WorkPool.    *)
(***************************************************************************)
EXTENDS Deque, SequenceTheorems, CountingLemmas

Inside == {"body", "remove", "count", "unlock"}

\* Exactly the thread between Lock and Unlock holds the mutex.
MutexHeld == \A t \in Threads : mutex = t <=> pc[t] \in Inside

\* What a thread's fields hold at each place of its call.
CallShape ==
  \A t \in Threads :
    /\ pc[t] = "idle" <=> op[t] = "none"
    /\ arg[t] # None <=> op[t] \in Pushes /\ pc[t] \in {"lock", "body"}
    /\ op[t] \in Pops => /\ max[t] \in BatchSizes \cup {1}
                         /\ op[t] # "pop_front_get_batch" => max[t] = 1
    /\ op[t] \notin Pops \/ pc[t] \in {"lock", "body"} => got[t] = <<>>
    /\ pc[t] = "remove" => op[t] \in Pops /\ ~TakesNothing(t) /\ got[t] = Taken(t)
    /\ pc[t] = "count" /\ op[t] \in Pops => got[t] # <<>>
    /\ pc[t] = "unlock" /\ op[t] \in Pops /\ got[t] = <<>> => TakesNothing(t)

\* While a pop without a check is under way nobody else pops, and there is an
\* element until it takes it.
SoleConsumer ==
  \A t \in Threads :
    op[t] \in BarePops => /\ \A u \in Threads \ {t} : op[u] \notin Pops
                          /\ pc[t] \in {"lock", "body"} => deque # <<>>

Distinct(s) == \A i, j \in 1 .. Len(s) : s[i] = s[j] => i = j

\* The items that t's pop has removed from the deque and not yet given to t.
Taking(t) == IF pc[t] = "remove" THEN {} ELSE Elems(got[t])

\* Every item is somewhere, and nowhere else: the places one by one.
ApartFromDeque(t) ==
  /\ Distinct(got[t])
  /\ Elems(deque) \cap own[t] = {}
  /\ arg[t] \notin Elems(deque)
  /\ Elems(deque) \cap Taking(t) = {}

ApartFrom(t, u) ==
  /\ arg[t] \notin own[u]
  /\ own[u] \cap Taking(t) = {}
  /\ arg[u] \notin Taking(t)
  /\ t # u => own[t] \cap own[u] = {} /\ (arg[t] = arg[u] => arg[t] = None)

Apart ==
  /\ Distinct(deque)
  /\ \A t \in Threads : ApartFromDeque(t)
  /\ \A t, u \in Threads : ApartFrom(t, u)

PlacedWith(e, t) == e \in own[t] \/ arg[t] = e \/ e \in Taking(t)

Covered == \A e \in Items : e \in Elems(deque) \/ \E t \in Threads : PlacedWith(e, t)

\* SizeIsCount, by cases.
SizeCounted ==
  /\ (\A t \in Threads : pc[t] # "count") => size = Len(deque)
  /\ \A t \in Threads :
       pc[t] = "count" =>
         size = IF op[t] \in Pushes THEN Len(deque) - 1 ELSE Len(deque) + Len(got[t])

\* The invariant that every step keeps.
IInv ==
  /\ TypeOK
  /\ MutexHeld
  /\ CallShape
  /\ SizeCounted
  /\ SoleConsumer
  /\ Apart
  /\ Covered

-----------------------------------------------------------------------------
(* Sequences as the sets of their elements.                                 *)

LEMMA ElemsEmpty == Elems(<<>>) = {} /\ Distinct(<<>>)
  BY DEF Elems, Distinct

LEMMA ElemsSingle == ASSUME NEW e PROVE Elems(<<e>>) = {e} /\ Distinct(<<e>>)
  BY DEF Elems, Distinct

\* A push at either end adds one element.
LEMMA ElemsAppend ==
  ASSUME NEW s \in Seq(Items), NEW e \in Items
  PROVE  /\ Append(s, e) \in Seq(Items)
         /\ Len(Append(s, e)) = Len(s) + 1
         /\ Elems(Append(s, e)) = Elems(s) \cup {e}
         /\ Distinct(s) /\ e \notin Elems(s) => Distinct(Append(s, e))
<1>1. /\ Append(s, e) \in Seq(Items)
      /\ Len(Append(s, e)) = Len(s) + 1
      /\ \A i \in 1 .. Len(s) : Append(s, e)[i] = s[i]
      /\ Append(s, e)[Len(s) + 1] = e
      /\ Len(s) \in Nat
  BY AppendProperties, LenProperties
<1>2. \A i \in 1 .. Len(s) + 1 : i \in 1 .. Len(s) \/ i = Len(s) + 1
  BY <1>1
<1> QED
  BY <1>1, <1>2 DEF Elems, Distinct

\* The elements of a deque after a push at its front.
LEMMA ElemsPrepend ==
  ASSUME NEW s \in Seq(Items), NEW e \in Items
  PROVE  /\ <<e>> \o s \in Seq(Items)
         /\ Len(<<e>> \o s) = Len(s) + 1
         /\ Elems(<<e>> \o s) = Elems(s) \cup {e}
         /\ Distinct(s) /\ e \notin Elems(s) => Distinct(<<e>> \o s)
<1> DEFINE c == <<e>> \o s
<1>1. /\ c \in Seq(Items)
      /\ Len(c) = Len(s) + 1
      /\ Len(s) \in Nat
      /\ \A i \in 1 .. Len(s) + 1 : c[i] = IF i = 1 THEN e ELSE s[i - 1]
  <2>1. <<e>> \in Seq(Items) /\ Len(<<e>>) = 1 /\ <<e>>[1] = e /\ Len(s) \in Nat
    BY LenProperties
  <2> QED
    BY <2>1, ConcatProperties
<1> HIDE DEF c
<1>2. \A i \in 1 .. Len(s) : i + 1 \in 1 .. Len(c) /\ c[i + 1] = s[i]
  BY <1>1
<1>3. Elems(c) = Elems(s) \cup {e}
  <2>1. ASSUME NEW i \in 1 .. Len(c) PROVE c[i] \in Elems(s) \cup {e}
    BY <1>1 DEF Elems
  <2>2. c[1] = e /\ 1 \in 1 .. Len(c)
    BY <1>1
  <2>3. e \in Elems(c)
    BY <2>2 DEF Elems
  <2>4. ASSUME NEW i \in 1 .. Len(s) PROVE s[i] \in Elems(c)
    BY <1>2 DEF Elems
  <2> QED
    BY <2>1, <2>3, <2>4 DEF Elems
<1>4. ASSUME Distinct(s), e \notin Elems(s) PROVE Distinct(c)
  <2> SUFFICES ASSUME NEW i \in 1 .. Len(c), NEW j \in 1 .. Len(c), c[i] = c[j]
               PROVE  i = j
    BY DEF Distinct
  <2>1. \A n \in 1 .. Len(s) : s[n] # e
    BY <1>4 DEF Elems
  <2>2. CASE i = 1 \/ j = 1
    <3>1. \A m \in 1 .. Len(c) : m # 1 => m - 1 \in 1 .. Len(s) /\ c[m] = s[m - 1]
      BY <1>1
    <3> QED
      BY <1>1, <2>1, <2>2, <3>1
  <2>3. CASE i # 1 /\ j # 1
    <3>1. i - 1 \in 1 .. Len(s) /\ j - 1 \in 1 .. Len(s) /\ s[i - 1] = s[j - 1]
      BY <1>1, <2>3
    <3>2. i - 1 = j - 1
      BY <1>4, <3>1 DEF Distinct
    <3> QED
      BY <1>1, <3>2
  <2> QED
    BY <2>2, <2>3
<1> QED
  BY <1>1, <1>3, <1>4 DEF c

\* The two sequences a and b share out s between them.
Parts(s, a, b) ==
  /\ a \in Seq(Items) /\ b \in Seq(Items)
  /\ Len(a) + Len(b) = Len(s)
  /\ Distinct(a) /\ Distinct(b)
  /\ Elems(a) \cap Elems(b) = {}
  /\ Elems(a) \cup Elems(b) = Elems(s)

\* A sequence of different elements is cut in two parts that have none in common.
LEMMA ElemsCut ==
  ASSUME NEW s \in Seq(Items), NEW k \in 0 .. Len(s), Distinct(s)
  PROVE  Parts(s, SubSeq(s, 1, k), SubSeq(s, k + 1, Len(s))) /\ Len(SubSeq(s, 1, k)) = k
<1> DEFINE a == SubSeq(s, 1, k)
           b == SubSeq(s, k + 1, Len(s))
<1>1. Len(s) \in Nat /\ \A i \in 1 .. Len(s) : s[i] \in Items
  BY LenProperties
<1>2. /\ a \in Seq(Items) /\ Len(a) = k
      /\ \A i \in 1 .. k : a[i] = s[i]
  BY <1>1, SubSeqProperties
<1>3. /\ b \in Seq(Items) /\ Len(b) = Len(s) - k
      /\ \A i \in 1 .. Len(s) - k : b[i] = s[k + i]
  BY <1>1, SubSeqProperties
<1> HIDE DEF a, b
<1>4. Distinct(a) /\ Distinct(b)
  <2>1. Distinct(a)
    BY <1>1, <1>2 DEF Distinct
  <2>2. ASSUME NEW i \in 1 .. Len(b), NEW j \in 1 .. Len(b), b[i] = b[j] PROVE i = j
    <3>1. k + i \in 1 .. Len(s) /\ k + j \in 1 .. Len(s) /\ s[k + i] = s[k + j]
      BY <1>1, <1>3, <2>2
    <3>2. k + i = k + j
      BY <3>1 DEF Distinct
    <3> QED
      BY <1>1, <3>2
  <2> QED
    BY <2>1, <2>2 DEF Distinct
<1>5. Elems(a) \cap Elems(b) = {}
  BY <1>1, <1>2, <1>3 DEF Elems, Distinct
<1>6. Elems(a) \cup Elems(b) = Elems(s)
  <2>1. Elems(a) \subseteq Elems(s) /\ Elems(b) \subseteq Elems(s)
    BY <1>1, <1>2, <1>3 DEF Elems
  <2>2. ASSUME NEW i \in 1 .. Len(s) PROVE s[i] \in Elems(a) \cup Elems(b)
    <3>1. CASE i <= k
      BY <1>1, <1>2, <3>1 DEF Elems
    <3>2. CASE i > k
      <4>1. i - k \in 1 .. Len(b) /\ b[i - k] = s[i]
        BY <1>1, <1>3, <3>2
      <4> QED
        BY <4>1 DEF Elems
    <3> QED
      BY <1>1, <3>1, <3>2
  <2> QED
    BY <2>1, <2>2 DEF Elems
<1>7. Parts(s, a, b) /\ Len(a) = k
  BY <1>1, <1>2, <1>3, <1>4, <1>5, <1>6 DEF Parts
<1> QED
  BY <1>7 DEF a, b

\* The last element alone.
LEMMA LastIsCut ==
  ASSUME NEW s \in Seq(Items), s # <<>>
  PROVE  /\ SubSeq(s, Len(s), Len(s)) = <<s[Len(s)]>>
         /\ Len(s) - 1 \in 0 .. Len(s)
         /\ s[Len(s)] \in Items
<1>1. Len(s) \in Nat \ {0} /\ \A i \in 1 .. Len(s) : s[i] \in Items
  BY EmptySeq, LenProperties
<1>2. /\ SubSeq(s, Len(s), Len(s)) \in Seq(Items)
      /\ Len(SubSeq(s, Len(s), Len(s))) = 1
      /\ SubSeq(s, Len(s), Len(s))[1] = s[Len(s)]
  BY <1>1, SubSeqProperties
<1>3. /\ <<s[Len(s)]>> \in Seq(Items)
      /\ Len(<<s[Len(s)]>>) = 1
      /\ <<s[Len(s)]>>[1] = s[Len(s)]
  BY <1>1
<1>4. SubSeq(s, Len(s), Len(s)) = <<s[Len(s)]>>
  <2>1. \A i \in 1 .. 1 : SubSeq(s, Len(s), Len(s))[i] = <<s[Len(s)]>>[i]
    BY <1>2, <1>3
  <2> QED
    BY <1>2, <1>3, <2>1, SeqEqual, ZenonT(30)
<1> QED
  BY <1>1, <1>4

\* There are no more different elements than the stock has.
LEMMA DistinctIsShort ==
  ASSUME NEW s \in Seq(Items), Distinct(s)
  PROVE  Len(s) <= Cardinality(Items)
<1>1. Len(s) \in Nat /\ s \in [1 .. Len(s) -> Items]
  BY LenProperties
<1>2. s \in Injection(1 .. Len(s), Items)
  BY <1>1, Fun_IsInj DEF Distinct
<1>3. Cardinality(1 .. Len(s)) = Len(s)
  BY <1>1, FS_Interval
<1> QED
  BY <1>2, <1>3, FS_Injection, SizeAssumption

\* What a pop takes is one end of the deque, and what it leaves is the rest.
LEMMA TakenIsAnEnd ==
  ASSUME TypeOK, Distinct(deque), NEW t \in Threads, ~TakesNothing(t)
  PROVE  /\ Taken(t) \in Seq(Items) /\ Taken(t) # <<>>
         /\ Distinct(Taken(t))
         /\ Elems(Taken(t)) \subseteq Elems(deque)
         /\ got[t] = Taken(t) => Parts(deque, got[t], Left(t))
<1>1. /\ deque \in Seq(Items) /\ deque # <<>> /\ Len(deque) \in Nat \ {0}
      /\ max[t] \in Nat \ {0}
  BY EmptySeq DEF TypeOK, TakesNothing
<1>2. CASE op[t] \in BackPops
  <2> DEFINE k == Len(deque) - 1
  <2>1. k \in 0 .. Len(deque) /\ k + 1 = Len(deque)
    BY <1>1
  <2>2. Taken(t) = SubSeq(deque, k + 1, Len(deque))
    BY <1>1, <1>2, <2>1, LastIsCut DEF Taken
  <2>3. Left(t) = SubSeq(deque, 1, k)
    BY <1>2 DEF Left
  <2> HIDE DEF k
  <2>4. Parts(deque, Left(t), Taken(t)) /\ Len(Left(t)) = k
    BY <1>1, <2>1, <2>2, <2>3, ElemsCut
  <2>5. Taken(t) # <<>>
    BY <1>1, <1>2 DEF Taken
  <2>6. Parts(deque, Taken(t), Left(t))
    BY <2>4 DEF Parts
  <2> QED
    BY <2>5, <2>6 DEF Parts
<1>3. CASE op[t] \notin BackPops
  <2> DEFINE k == TakeCount(t)
             rest == SubSeq(deque, k + 1, Len(deque))
  <2>1. k \in 1 .. Len(deque) /\ k \in 0 .. Len(deque)
    BY <1>1 DEF TakeCount
  <2>2. Taken(t) = SubSeq(deque, 1, k)
    BY <1>3 DEF Taken
  <2> HIDE DEF k
  <2>3. Parts(deque, Taken(t), rest) /\ Len(Taken(t)) = k
    BY <1>1, <2>1, <2>2, ElemsCut
  <2>4. got[t] = Taken(t) => Left(t) = rest
    BY <1>3, <2>3 DEF Left
  <2>5. Taken(t) # <<>>
    BY <1>1, <2>1, <2>3
  <2> QED
    BY <2>3, <2>4, <2>5 DEF Parts
<1> QED
  BY <1>2, <1>3

\* A push adds its item.
LEMMA WithAdds ==
  ASSUME TypeOK, NEW o, NEW e \in Items
  PROVE  /\ With(o, e) \in Seq(Items)
         /\ Len(With(o, e)) = Len(deque) + 1
         /\ With(o, e) # <<>>
         /\ Elems(With(o, e)) = Elems(deque) \cup {e}
         /\ Distinct(deque) /\ e \notin Elems(deque) => Distinct(With(o, e))
<1>1. deque \in Seq(Items) /\ Len(deque) \in Nat
  BY DEF TypeOK
<1>2. With(o, e) = Append(deque, e) \/ With(o, e) = <<e>> \o deque
  BY DEF With
<1>3. /\ With(o, e) \in Seq(Items)
      /\ Len(With(o, e)) = Len(deque) + 1
      /\ Elems(With(o, e)) = Elems(deque) \cup {e}
      /\ Distinct(deque) /\ e \notin Elems(deque) => Distinct(With(o, e))
  <2>1. CASE With(o, e) = Append(deque, e)
    BY <1>1, <2>1, ElemsAppend
  <2>2. CASE With(o, e) = <<e>> \o deque
    BY <1>1, <2>2, ElemsPrepend
  <2> QED
    BY <1>2, <2>1, <2>2
<1>4. With(o, e) # <<>>
  BY <1>1, <1>3
<1> QED
  BY <1>3, <1>4

-----------------------------------------------------------------------------
(* The invariant is kept: one lemma per action.                             *)

\* The invariant holds at the start, and every step keeps it.
LEMMA InitIInv == Init => IInv
<1> SUFFICES ASSUME Init PROVE IInv
  OBVIOUS
<1> USE NoneAssumption, SizeAssumption
<1>1. TypeOK
  <2>1. \A u \in Threads : [t \in Threads |-> IF t = u THEN Items ELSE {}] \in [Threads -> SUBSET Items]
    OBVIOUS
  <2>2. /\ deque \in Seq(Items) /\ size \in 0 .. SizeWords - 1 /\ mutex \in Threads \cup {None}
        /\ pc \in [Threads -> {"idle", "lock", "body", "remove", "count", "unlock"}]
        /\ op \in [Threads -> Pushes \cup Pops \cup {"none"}]
        /\ arg \in [Threads -> Items \cup {None}]
        /\ max \in [Threads -> Nat]
    <3>1. 0 \in 0 .. SizeWords - 1
      BY FS_CardinalityType
    <3> QED
      BY <3>1 DEF Init
  <2>3. got \in [Threads -> Seq(Items)] /\ result \in [Threads -> Seq(Items)]
    BY DEF Init
  <2>4. own \in [Threads -> SUBSET Items]
    BY <2>1 DEF Init
  <2> QED
    BY <2>2, <2>3, <2>4 DEF TypeOK
<1>2. MutexHeld /\ CallShape
  BY DEF Init, MutexHeld, CallShape, Inside, Pushes, Pops, BarePops
<1>3. SizeCounted /\ SoleConsumer
  BY DEF Init, SizeCounted, SoleConsumer, BarePops, Pops
<1>4. Apart
  BY ElemsEmpty DEF Init, Apart, ApartFromDeque, ApartFrom, Taking
<1>5. Covered
  BY DEF Init, Covered, PlacedWith
<1> QED
  BY <1>1, <1>2, <1>3, <1>4, <1>5 DEF IInv

\* Only the thread that holds the mutex has anything in hand.
LEMMA OthersOutside ==
  ASSUME IInv, NEW t \in Threads, pc[t] \in Inside
  PROVE  /\ mutex = t
         /\ \A u \in Threads \ {t} : /\ pc[u] \notin Inside
                                    /\ pc[u] \in {"idle", "lock"}
                                    /\ got[u] = <<>>
                                    /\ Taking(u) = {}
<1>1. mutex = t
  BY DEF IInv, MutexHeld
<1> SUFFICES ASSUME NEW u \in Threads \ {t}
             PROVE  /\ pc[u] \notin Inside
                    /\ pc[u] \in {"idle", "lock"}
                    /\ got[u] = <<>>
                    /\ Taking(u) = {}
  BY <1>1
<1>2. pc[u] \notin Inside /\ pc[u] \in {"idle", "lock"}
  BY <1>1 DEF IInv, MutexHeld, TypeOK, Inside
<1>3. got[u] = <<>>
  BY <1>2 DEF IInv, CallShape, Pops, BarePops
<1> QED
  BY <1>2, <1>3, ElemsEmpty DEF Taking

LEMMA BeginPushKeeps ==
  ASSUME IInv, NEW t \in Threads, NEW o \in Pushes, NEW e \in Items, BeginPush(t, o, e)
  PROVE  IInv'
<1> USE NoneAssumption
<1>1. TypeOK /\ TypeOK'
  BY DEF IInv, TypeOK, BeginPush, Pushes
<1>2. /\ UNCHANGED <<deque, size, mutex, max, got, result>>
      /\ pc[t] = "idle" /\ pc'[t] = "lock" /\ op'[t] = o /\ arg'[t] = e
      /\ e \in own[t] /\ own'[t] = own[t] \ {e}
      /\ \A u \in Threads \ {t} :
           pc'[u] = pc[u] /\ op'[u] = op[u] /\ arg'[u] = arg[u] /\ own'[u] = own[u]
  BY <1>1 DEF TypeOK, BeginPush
<1>3. MutexHeld'
  BY <1>2 DEF IInv, MutexHeld, Inside
<1>4. CallShape'
  BY <1>2 DEF IInv, CallShape, Pushes, Pops, BarePops, TakesNothing, Taken, TakeCount
<1>5. SizeCounted' /\ SoleConsumer'
  BY <1>2 DEF IInv, SizeCounted, SoleConsumer, Pushes, Pops, BarePops
<1>6. \A u \in Threads : Taking(u)' = Taking(u)
  BY <1>2 DEF Taking
<1>7. Apart'
  <2>1. Apart
    BY DEF IInv
  <2>2. ASSUME NEW u \in Threads PROVE ApartFromDeque(u)'
    BY <1>2, <1>6, <2>1 DEF Apart, ApartFromDeque
  <2>3. ASSUME NEW u \in Threads, NEW v \in Threads PROVE ApartFrom(u, v)'
    BY <1>2, <1>6, <2>1 DEF Apart, ApartFrom
  <2> QED
    BY <1>2, <2>1, <2>2, <2>3 DEF Apart
<1>8. Covered'
  <2> SUFFICES ASSUME NEW x \in Items, x \notin Elems(deque)
               PROVE  \E u \in Threads : PlacedWith(x, u)'
    BY <1>2 DEF Covered
  <2>1. PICK u \in Threads : PlacedWith(x, u)
    BY DEF IInv, Covered
  <2>2. arg[t] = None
    BY <1>2 DEF IInv, CallShape
  <2> QED
    BY <1>2, <1>6, <2>1, <2>2 DEF PlacedWith
<1> QED
  BY <1>1, <1>3, <1>4, <1>5, <1>7, <1>8 DEF IInv

\* A call that changes no item's place keeps the items apart and covered.
LEMMA PlacesKept ==
  ASSUME IInv, UNCHANGED <<deque, arg, own>>,
         \A u \in Threads : Taking(u)' = Taking(u) /\ Distinct(got'[u])
  PROVE  Apart' /\ Covered'
<1>1. Apart /\ Covered
  BY DEF IInv
<1>2. Apart'
  BY <1>1 DEF Apart, ApartFromDeque, ApartFrom
<1>3. Covered'
  BY <1>1 DEF Covered, PlacedWith
<1> QED
  BY <1>2, <1>3

LEMMA BeginPopKeeps ==
  ASSUME IInv, NEW t \in Threads, NEW o \in Pops, NEW n \in BatchSizes \cup {1},
         BeginPop(t, o, n)
  PROVE  IInv'
<1> USE NoneAssumption, BatchAssumption
<1>1. TypeOK /\ TypeOK'
  BY DEF IInv, TypeOK, BeginPop, Pops
<1>2. /\ UNCHANGED <<deque, size, mutex, arg, got, own, result>>
      /\ pc[t] = "idle" /\ pc'[t] = "lock" /\ op'[t] = o /\ max'[t] = n
      /\ o # "pop_front_get_batch" => n = 1
      /\ MayPop(o)
      /\ \A u \in Threads \ {t} :
           pc'[u] = pc[u] /\ op'[u] = op[u] /\ max'[u] = max[u]
  BY <1>1 DEF TypeOK, BeginPop
<1>3. MutexHeld'
  BY <1>2 DEF IInv, MutexHeld, Inside
<1>4. CallShape'
  BY <1>2 DEF IInv, CallShape, Pushes, Pops, BarePops, TakesNothing, Taken, TakeCount
<1>5. SizeCounted'
  BY <1>2 DEF IInv, SizeCounted
<1>6. SoleConsumer'
  <2>1. ASSUME o \in BarePops PROVE deque # <<>>
    <3>1. size > 0 /\ \A u \in Threads : op[u] \notin Pops
      BY <1>2, <2>1 DEF MayPop
    <3>2. \A u \in Threads : pc[u] = "count" => op[u] \in Pushes
      BY <3>1 DEF IInv, TypeOK, CallShape
    <3>3. Len(deque) > 0
      BY <1>1, <3>1, <3>2, SizeAssumption, SMTT(30) DEF IInv, SizeCounted, TypeOK
    <3> QED
      BY <3>3
  <2> QED
    BY <1>2, <2>1 DEF IInv, SoleConsumer, MayPop, BarePops, Pops
<1>7. \A u \in Threads : Taking(u)' = Taking(u) /\ Distinct(got'[u])
  BY <1>2 DEF Taking, IInv, Apart, ApartFromDeque
<1> QED
  BY <1>1, <1>2, <1>3, <1>4, <1>5, <1>6, <1>7, PlacesKept DEF IInv

LEMMA LockKeeps ==
  ASSUME IInv, NEW t \in Threads, Lock(t)
  PROVE  IInv'
<1> USE NoneAssumption
<1>1. TypeOK /\ TypeOK'
  BY DEF IInv, TypeOK, Lock
<1>2. /\ UNCHANGED <<deque, size, op, arg, max, got, own, result>>
      /\ pc[t] = "lock" /\ pc'[t] = "body" /\ mutex = None /\ mutex' = t
      /\ \A u \in Threads \ {t} : pc'[u] = pc[u]
  BY <1>1 DEF TypeOK, Lock, Free
<1>3. MutexHeld'
  BY <1>2 DEF IInv, MutexHeld, Inside
<1>4. CallShape'
  BY <1>2 DEF IInv, CallShape, TakesNothing, Taken, TakeCount
<1>5. SizeCounted' /\ SoleConsumer'
  BY <1>2 DEF IInv, SizeCounted, SoleConsumer
<1>6. \A u \in Threads : Taking(u)' = Taking(u) /\ Distinct(got'[u])
  BY <1>2 DEF Taking, IInv, Apart, ApartFromDeque
<1> QED
  BY <1>1, <1>2, <1>3, <1>4, <1>5, <1>6, PlacesKept DEF IInv

LEMMA PushKeeps ==
  ASSUME IInv, NEW t \in Threads, Push(t)
  PROVE  IInv'
<1> USE NoneAssumption
<1> DEFINE e == arg[t]
<1>1. /\ TypeOK /\ pc[t] = "body" /\ op[t] \in Pushes /\ deque' = With(op[t], e)
      /\ UNCHANGED <<size, mutex, op, max, got, own, result>>
      /\ pc' = [pc EXCEPT ![t] = "count"] /\ arg' = [arg EXCEPT ![t] = None]
  BY DEF IInv, Push
<1>2. e \in Items /\ e \notin Elems(deque) /\ Distinct(deque)
  <2>1. e # None
    BY <1>1 DEF IInv, CallShape
  <2> QED
    BY <1>1, <2>1 DEF IInv, TypeOK, Apart, ApartFromDeque
<1>3. /\ deque' \in Seq(Items) /\ deque' # <<>> /\ Len(deque') = Len(deque) + 1
      /\ Elems(deque') = Elems(deque) \cup {e} /\ Distinct(deque')
  BY <1>1, <1>2, WithAdds
<1>4. TypeOK'
  BY <1>1, <1>3 DEF TypeOK
<1>5. /\ pc'[t] = "count" /\ arg'[t] = None
      /\ \A u \in Threads \ {t} : pc'[u] = pc[u] /\ arg'[u] = arg[u]
  BY <1>1 DEF TypeOK
<1>6. /\ mutex = t
      /\ \A u \in Threads \ {t} :
           pc[u] \in {"idle", "lock"} /\ got[u] = <<>> /\ Taking(u) = {}
  BY <1>1, OthersOutside DEF Inside
<1>7. MutexHeld'
  BY <1>1, <1>5 DEF IInv, MutexHeld, Inside
<1>8. CallShape'
  BY <1>1, <1>5, <1>6 DEF IInv, CallShape, Pushes, Pops, BarePops
<1>9. SizeCounted'
  <2>1. \A u \in Threads : pc[u] # "count"
    BY <1>1, <1>6
  <2>2. size = Len(deque) /\ Len(deque) \in Nat
    BY <1>1, <2>1 DEF IInv, SizeCounted, TypeOK
  <2> QED
    <3>1. size' = Len(deque') - 1 /\ op'[t] \in Pushes
      BY <1>1, <1>3, <2>2
    <3>2. \A u \in Threads : pc'[u] = "count" => u = t
      BY <1>5, <2>1
    <3> QED
      BY <1>5, <3>1, <3>2 DEF SizeCounted
<1>10. SoleConsumer'
  BY <1>1, <1>3, <1>5 DEF IInv, SoleConsumer
<1>11. \A u \in Threads : Taking(u)' = {} /\ Taking(u) = {}
  <2>1. got[t] = <<>>
    BY <1>1 DEF IInv, CallShape
  <2> QED
    BY <1>1, <1>5, <1>6, <2>1, ElemsEmpty DEF Taking
<1>12. Apart'
  <2>1. Apart
    BY DEF IInv
  <2>2. ASSUME NEW u \in Threads PROVE ApartFromDeque(u)'
    <3>1. ApartFromDeque(u) /\ ApartFrom(t, u)
      BY <2>1 DEF Apart
    <3>2. None \notin Elems(deque')
      BY <1>3 DEF Elems
    <3>3. Distinct(got'[u]) /\ Elems(deque') \cap own'[u] = {}
      BY <1>1, <1>3, <3>1 DEF ApartFromDeque, ApartFrom
    <3>4. arg'[u] \notin Elems(deque')
      BY <1>1, <1>2, <1>3, <1>5, <3>1, <3>2 DEF ApartFromDeque, ApartFrom
    <3> QED
      BY <1>11, <3>3, <3>4 DEF ApartFromDeque
  <2>3. ASSUME NEW u \in Threads, NEW v \in Threads PROVE ApartFrom(u, v)'
    BY <1>1, <1>4, <1>5, <1>11, <2>1 DEF Apart, ApartFrom, TypeOK
  <2> QED
    BY <1>3, <2>2, <2>3 DEF Apart
<1>13. Covered'
  <2> SUFFICES ASSUME NEW x \in Items, x \notin Elems(deque) \cup {e}
               PROVE  \E u \in Threads : PlacedWith(x, u)'
    BY <1>3 DEF Covered
  <2>1. PICK u \in Threads : PlacedWith(x, u)
    BY DEF IInv, Covered
  <2> QED
    BY <1>1, <1>5, <1>11, <2>1 DEF PlacedWith
<1> QED
  BY <1>4, <1>7, <1>8, <1>9, <1>10, <1>12, <1>13 DEF IInv

LEMMA PopKeeps ==
  ASSUME IInv, NEW t \in Threads, Pop(t)
  PROVE  IInv'
<1> USE NoneAssumption
<1>1. /\ TypeOK /\ pc[t] = "body" /\ op[t] \in Pops /\ ~TakesNothing(t)
      /\ UNCHANGED <<deque, size, mutex, op, arg, max, own, result>>
      /\ got' = [got EXCEPT ![t] = Taken(t)] /\ pc' = [pc EXCEPT ![t] = "remove"]
  BY DEF IInv, Pop
<1>2. Taken(t) \in Seq(Items) /\ Distinct(Taken(t))
  BY <1>1, TakenIsAnEnd DEF IInv, Apart
<1>3. /\ pc'[t] = "remove" /\ got'[t] = Taken(t)
      /\ \A u \in Threads \ {t} : pc'[u] = pc[u] /\ got'[u] = got[u]
  BY <1>1 DEF TypeOK
<1>4. TypeOK'
  BY <1>1, <1>2 DEF TypeOK
<1>5. MutexHeld'
  BY <1>1, <1>3 DEF IInv, MutexHeld, Inside
<1>6. CallShape'
  <2>1. \A u \in Threads : TakesNothing(u)' = TakesNothing(u) /\ Taken(u)' = Taken(u)
    BY <1>1 DEF TakesNothing, Taken, TakeCount
  <2> QED
    BY <1>1, <1>3, <2>1 DEF IInv, CallShape, Pops, BarePops, Pushes
<1>7. SizeCounted'
  <2>1. \A u \in Threads : pc[u] # "count" /\ pc'[u] # "count"
    BY <1>1, <1>3, OthersOutside DEF Inside
  <2> QED
    BY <1>1, <2>1 DEF IInv, SizeCounted
<1>8. SoleConsumer'
  BY <1>1, <1>3 DEF IInv, SoleConsumer
<1>9. \A u \in Threads : Taking(u)' = Taking(u) /\ Distinct(got'[u])
  <2>1. got[t] = <<>>
    BY <1>1 DEF IInv, CallShape
  <2>2. Taking(t) = {} /\ Taking(t)' = {}
    BY <1>1, <1>3, <2>1, ElemsEmpty DEF Taking
  <2>3. \A u \in Threads \ {t} : Taking(u)' = Taking(u)
    BY <1>3 DEF Taking
  <2>4. \A u \in Threads : Distinct(got'[u])
    BY <1>2, <1>3 DEF IInv, Apart, ApartFromDeque
  <2> QED
    BY <2>2, <2>3, <2>4
<1> QED
  BY <1>1, <1>4, <1>5, <1>6, <1>7, <1>8, <1>9, PlacesKept DEF IInv

LEMMA RemoveKeeps ==
  ASSUME IInv, NEW t \in Threads, Remove(t)
  PROVE  IInv'
<1> USE NoneAssumption
<1>1. /\ TypeOK /\ pc[t] = "remove" /\ deque' = Left(t)
      /\ UNCHANGED <<size, mutex, op, arg, max, got, own, result>>
      /\ pc' = [pc EXCEPT ![t] = "count"]
  BY DEF IInv, Remove
<1>2. op[t] \in Pops /\ op[t] \notin Pushes /\ ~TakesNothing(t) /\ got[t] = Taken(t)
  BY <1>1 DEF IInv, CallShape, Pops, BarePops, Pushes
<1>3. Parts(deque, got[t], deque') /\ got[t] # <<>>
  BY <1>1, <1>2, TakenIsAnEnd DEF IInv, Apart
<1>4. TypeOK'
  BY <1>1, <1>3 DEF TypeOK, Parts
<1>5. pc'[t] = "count" /\ \A u \in Threads \ {t} : pc'[u] = pc[u]
  BY <1>1 DEF TypeOK
<1>6. /\ mutex = t
      /\ \A u \in Threads \ {t} :
           pc[u] \in {"idle", "lock"} /\ got[u] = <<>> /\ Taking(u) = {}
  BY <1>1, OthersOutside DEF Inside
<1>7. MutexHeld'
  BY <1>1, <1>5 DEF IInv, MutexHeld, Inside
<1>8. CallShape'
  BY <1>1, <1>2, <1>3, <1>5, <1>6 DEF IInv, CallShape
<1>9. SizeCounted'
  <2>1. \A u \in Threads : pc[u] # "count"
    BY <1>1, <1>6
  <2>2. size = Len(deque)
    BY <2>1 DEF IInv, SizeCounted
  <2>3. size' = Len(deque') + Len(got'[t])
    BY <1>1, <1>3, <1>4, <2>2 DEF Parts, TypeOK
  <2>4. \A u \in Threads : pc'[u] = "count" => u = t
    BY <1>5, <2>1
  <2> QED
    BY <1>1, <1>2, <1>5, <2>3, <2>4 DEF SizeCounted
<1>10. SoleConsumer'
  BY <1>1, <1>2, <1>5 DEF IInv, SoleConsumer, Pops
<1>11. Taking(t) = {} /\ Taking(t)' = Elems(got[t]) /\ \A u \in Threads \ {t} : Taking(u)' = {}
  BY <1>1, <1>5, <1>6, ElemsEmpty DEF Taking
<1>12. Apart'
  <2>1. Apart
    BY DEF IInv
  <2>2. ASSUME NEW u \in Threads PROVE ApartFromDeque(u)'
    <3>1. ApartFromDeque(u)
      BY <2>1 DEF Apart
    <3>2. Distinct(got'[u]) /\ Elems(deque') \cap own'[u] = {} /\ arg'[u] \notin Elems(deque')
      BY <1>1, <1>3, <3>1 DEF ApartFromDeque, Parts
    <3>3. Elems(deque') \cap Taking(u)' = {}
      BY <1>3, <1>11 DEF Parts
    <3> QED
      BY <3>2, <3>3 DEF ApartFromDeque
  <2>3. ASSUME NEW u \in Threads, NEW v \in Threads PROVE ApartFrom(u, v)'
    <3>1. ApartFrom(u, v) /\ ApartFromDeque(v)
      BY <2>1 DEF Apart
    <3>2. Taking(u)' \subseteq Elems(deque)
      BY <1>3, <1>11 DEF Parts
    <3> QED
      BY <1>1, <3>1, <3>2 DEF ApartFrom, ApartFromDeque
  <2> QED
    BY <1>3, <2>2, <2>3 DEF Apart, Parts
<1>13. Covered'
  <2> SUFFICES ASSUME NEW x \in Items, x \notin Elems(deque')
               PROVE  \E u \in Threads : PlacedWith(x, u)'
    BY DEF Covered
  <2>1. CASE x \in Elems(deque)
    BY <1>3, <1>11, <2>1 DEF PlacedWith, Parts
  <2>2. CASE x \notin Elems(deque)
    <3>1. PICK u \in Threads : PlacedWith(x, u)
      BY <2>2 DEF IInv, Covered
    <3> QED
      BY <1>1, <1>6, <1>11, <3>1 DEF PlacedWith
  <2> QED
    BY <2>1, <2>2
<1> QED
  BY <1>4, <1>7, <1>8, <1>9, <1>10, <1>12, <1>13 DEF IInv

LEMMA FindEmptyKeeps ==
  ASSUME IInv, NEW t \in Threads, FindEmpty(t)
  PROVE  IInv'
<1>1. /\ TypeOK /\ pc[t] = "body" /\ op[t] \in Pops /\ TakesNothing(t)
      /\ UNCHANGED <<deque, size, mutex, op, arg, max, got, own, result>>
      /\ pc' = [pc EXCEPT ![t] = "unlock"]
  BY DEF IInv, FindEmpty
<1>2. pc'[t] = "unlock" /\ \A u \in Threads \ {t} : pc'[u] = pc[u]
  BY <1>1 DEF TypeOK
<1>3. TypeOK'
  BY <1>1 DEF TypeOK
<1>4. MutexHeld'
  BY <1>1, <1>2 DEF IInv, MutexHeld, Inside
<1>5. CallShape'
  <2>1. \A u \in Threads : TakesNothing(u)' = TakesNothing(u) /\ Taken(u)' = Taken(u)
    BY <1>1 DEF TakesNothing, Taken, TakeCount
  <2> QED
    BY <1>1, <1>2, <2>1 DEF IInv, CallShape, Pops, BarePops, Pushes
<1>6. SizeCounted'
  <2>1. \A u \in Threads : pc[u] # "count" /\ pc'[u] # "count"
    BY <1>1, <1>2, OthersOutside DEF Inside
  <2> QED
    BY <1>1, <2>1 DEF IInv, SizeCounted
<1>7. SoleConsumer'
  BY <1>1, <1>2 DEF IInv, SoleConsumer
<1>8. \A u \in Threads : Taking(u)' = Taking(u) /\ Distinct(got'[u])
  BY <1>1, <1>2 DEF Taking, IInv, Apart, ApartFromDeque
<1> QED
  BY <1>1, <1>3, <1>4, <1>5, <1>6, <1>7, <1>8, PlacesKept DEF IInv

\* The count does not wrap: it stays between none and the whole stock.
LEMMA CountedIsLength ==
  ASSUME IInv, NEW t \in Threads, pc[t] = "count"
  PROVE  Counted(t) % SizeWords = Len(deque)
<1>1. /\ Len(deque) \in Nat /\ Len(got[t]) \in Nat
      /\ size = IF op[t] \in Pushes THEN Len(deque) - 1 ELSE Len(deque) + Len(got[t])
  BY DEF IInv, TypeOK, SizeCounted
<1>2. Counted(t) = Len(deque)
  BY <1>1 DEF Counted
<1>3. Len(deque) < SizeWords
  BY <1>1, DistinctIsShort, SizeAssumption, FS_CardinalityType DEF IInv, TypeOK, Apart
<1> QED
  BY <1>1, <1>2, <1>3, SizeAssumption

LEMMA CountKeeps ==
  ASSUME IInv, NEW t \in Threads, Count(t)
  PROVE  IInv'
<1>1. /\ TypeOK /\ pc[t] = "count" /\ size' = Len(deque)
      /\ UNCHANGED <<deque, mutex, op, arg, max, got, own, result>>
      /\ pc' = [pc EXCEPT ![t] = "unlock"]
  BY CountedIsLength DEF IInv, Count
<1>2. pc'[t] = "unlock" /\ \A u \in Threads \ {t} : pc'[u] = pc[u]
  BY <1>1 DEF TypeOK
<1>3. TypeOK'
  <2>1. Len(deque) \in Nat /\ Len(deque) < SizeWords
    BY DistinctIsShort, SizeAssumption, FS_CardinalityType DEF IInv, TypeOK, Apart
  <2>2. size' \in 0 .. SizeWords - 1
    BY <1>1, <2>1, SizeAssumption
  <2> QED
    BY <1>1, <2>2 DEF TypeOK
<1>4. MutexHeld'
  BY <1>1, <1>2 DEF IInv, MutexHeld, Inside
<1>5. CallShape'
  <2>1. \A u \in Threads : TakesNothing(u)' = TakesNothing(u) /\ Taken(u)' = Taken(u)
    BY <1>1 DEF TakesNothing, Taken, TakeCount
  <2> QED
    BY <1>1, <1>2, <2>1 DEF IInv, CallShape
<1>6. SizeCounted'
  <2>1. \A u \in Threads : pc'[u] # "count"
    BY <1>1, <1>2, OthersOutside DEF Inside
  <2> QED
    BY <1>1, <2>1 DEF SizeCounted
<1>7. SoleConsumer'
  BY <1>1, <1>2 DEF IInv, SoleConsumer
<1>8. \A u \in Threads : Taking(u)' = Taking(u) /\ Distinct(got'[u])
  BY <1>1, <1>2 DEF Taking, IInv, Apart, ApartFromDeque
<1> QED
  BY <1>1, <1>3, <1>4, <1>5, <1>6, <1>7, <1>8, PlacesKept DEF IInv

LEMMA UnlockKeeps ==
  ASSUME IInv, NEW t \in Threads, Unlock(t)
  PROVE  IInv'
<1> USE NoneAssumption
<1>1. /\ TypeOK /\ pc[t] = "unlock" /\ mutex' = None
      /\ UNCHANGED <<deque, size, arg>>
      /\ pc' = [pc EXCEPT ![t] = "idle"]
      /\ op' = [op EXCEPT ![t] = "none"]
      /\ max' = [max EXCEPT ![t] = 0]
      /\ got' = [got EXCEPT ![t] = <<>>]
      /\ own' = [own EXCEPT ![t] = @ \cup Elems(got[t])]
      /\ result' = IF op[t] \in Pops THEN [result EXCEPT ![t] = got[t]] ELSE result
  BY DEF IInv, Unlock
<1>2. Elems(got[t]) \subseteq Items /\ got[t] \in Seq(Items)
  BY <1>1 DEF TypeOK, Elems
<1>3. /\ pc'[t] = "idle" /\ op'[t] = "none" /\ max'[t] = 0 /\ got'[t] = <<>>
      /\ own'[t] = own[t] \cup Elems(got[t])
      /\ \A u \in Threads \ {t} :
           /\ pc'[u] = pc[u] /\ op'[u] = op[u] /\ max'[u] = max[u]
           /\ got'[u] = got[u] /\ own'[u] = own[u]
  BY <1>1 DEF TypeOK
<1>4. TypeOK'
  <2>1. result' \in [Threads -> Seq(Items)] /\ got' \in [Threads -> Seq(Items)]
    BY <1>1, <1>2 DEF TypeOK
  <2>2. own' \in [Threads -> SUBSET Items]
    BY <1>1, <1>2 DEF TypeOK
  <2> QED
    BY <1>1, <2>1, <2>2 DEF TypeOK
<1>5. /\ mutex = t
      /\ \A u \in Threads \ {t} :
           /\ pc[u] \notin Inside /\ pc[u] \in {"idle", "lock"}
           /\ got[u] = <<>> /\ Taking(u) = {}
  BY <1>1, OthersOutside DEF Inside
<1>6. MutexHeld'
  BY <1>1, <1>3, <1>5 DEF MutexHeld, Inside
<1>7. CallShape'
  BY <1>1, <1>3, <1>5 DEF IInv, CallShape, Pushes, Pops, BarePops
<1>8. SizeCounted'
  <2>1. \A u \in Threads : pc[u] # "count" /\ pc'[u] # "count"
    BY <1>1, <1>3, <1>5
  <2> QED
    BY <1>1, <2>1 DEF IInv, SizeCounted
<1>9. SoleConsumer'
  BY <1>1, <1>3 DEF IInv, SoleConsumer, Pops, BarePops
<1>10. Taking(t) = Elems(got[t]) /\ \A u \in Threads : Taking(u)' = {}
  BY <1>1, <1>3, <1>5, ElemsEmpty DEF Taking
<1>11. Apart'
  <2>1. Apart
    BY DEF IInv
  <2>2. ASSUME NEW u \in Threads PROVE ApartFromDeque(u)'
    <3>1. ApartFromDeque(u) /\ ApartFromDeque(t)
      BY <2>1 DEF Apart
    <3> QED
      BY <1>1, <1>3, <1>10, <3>1, ElemsEmpty DEF ApartFromDeque
  <2>3. ASSUME NEW u \in Threads, NEW v \in Threads PROVE ApartFrom(u, v)'
    <3>1. ApartFrom(u, v) /\ ApartFrom(v, u) /\ ApartFrom(t, u) /\ ApartFrom(t, v)
      BY <2>1 DEF Apart
    <3> QED
      BY <1>1, <1>3, <1>10, <3>1 DEF ApartFrom
  <2> QED
    BY <1>1, <2>1, <2>2, <2>3 DEF Apart
<1>12. Covered'
  <2> SUFFICES ASSUME NEW x \in Items, x \notin Elems(deque)
               PROVE  \E u \in Threads : PlacedWith(x, u)'
    BY <1>1 DEF Covered
  <2>1. PICK u \in Threads : PlacedWith(x, u)
    BY DEF IInv, Covered
  <2> QED
    BY <1>1, <1>3, <1>5, <1>10, <2>1 DEF PlacedWith
<1> QED
  BY <1>4, <1>6, <1>7, <1>8, <1>9, <1>11, <1>12 DEF IInv

LEMMA PushNoLockKeeps ==
  ASSUME IInv, NEW t \in Threads, NEW o, NEW e \in Items, PushNoLock(t, o, e)
  PROVE  IInv'
<1> USE NoneAssumption
<1>1. /\ TypeOK /\ Quiescent /\ e \in own[t] /\ deque' = With(o, e)
      /\ size' = (size + 1) % SizeWords
      /\ UNCHANGED <<mutex, pc, op, arg, max, got, result>>
      /\ own' = [own EXCEPT ![t] = @ \ {e}]
  BY DEF IInv, PushNoLock
<1>2. \A u \in Threads : /\ pc[u] = "idle" /\ op[u] = "none" /\ arg[u] = None
                         /\ got[u] = <<>> /\ Taking(u) = {} /\ Taking(u)' = {}
  BY <1>1, ElemsEmpty DEF Quiescent, IInv, CallShape, Pops, BarePops, Taking
<1>3. e \notin Elems(deque) /\ Distinct(deque)
  BY <1>1 DEF IInv, Apart, ApartFromDeque
<1>4. /\ deque' \in Seq(Items) /\ deque' # <<>> /\ Len(deque') = Len(deque) + 1
      /\ Elems(deque') = Elems(deque) \cup {e} /\ Distinct(deque')
  BY <1>1, <1>3, WithAdds
<1>5. size' = Len(deque') /\ size' \in 0 .. SizeWords - 1
  <2>1. size = Len(deque) /\ Len(deque) \in Nat
    BY <1>1, <1>2 DEF IInv, SizeCounted, TypeOK
  <2>2. Len(deque') < SizeWords
    BY <1>4, <2>1, DistinctIsShort, SizeAssumption, FS_CardinalityType
  <2> QED
    BY <1>1, <1>4, <2>1, <2>2, SizeAssumption, SMTT(30)
<1>6. own'[t] = own[t] \ {e} /\ \A u \in Threads \ {t} : own'[u] = own[u]
  BY <1>1 DEF TypeOK
<1>7. TypeOK'
  BY <1>1, <1>4, <1>5 DEF TypeOK
<1>8. MutexHeld' /\ CallShape' /\ SizeCounted' /\ SoleConsumer'
  BY <1>1, <1>2, <1>5 DEF IInv, MutexHeld, CallShape, SizeCounted, SoleConsumer, Inside,
                          Pushes, Pops, BarePops
<1>9. Apart'
  <2>1. Apart
    BY DEF IInv
  <2>2. ASSUME NEW u \in Threads PROVE ApartFromDeque(u)'
    <3>1. ApartFromDeque(u) /\ ApartFrom(t, u)
      BY <2>1 DEF Apart
    <3>2. None \notin Elems(deque')
      BY <1>4 DEF Elems
    <3>3. Elems(deque') \cap own'[u] = {}
      <4>1. u # t => e \notin own[u]
        BY <1>1, <3>1 DEF ApartFrom
      <4> QED
        BY <1>4, <1>6, <3>1, <4>1 DEF ApartFromDeque
    <3> QED
      BY <1>1, <1>2, <3>1, <3>2, <3>3, ElemsEmpty DEF ApartFromDeque
  <2>3. ASSUME NEW u \in Threads, NEW v \in Threads PROVE ApartFrom(u, v)'
    BY <1>1, <1>2, <1>6, <2>1 DEF Apart, ApartFrom
  <2> QED
    BY <1>4, <2>2, <2>3 DEF Apart
<1>10. Covered'
  <2> SUFFICES ASSUME NEW x \in Items, x \notin Elems(deque) \cup {e}
               PROVE  \E u \in Threads : PlacedWith(x, u)'
    BY <1>4 DEF Covered
  <2>1. PICK u \in Threads : PlacedWith(x, u)
    BY DEF IInv, Covered
  <2> QED
    BY <1>1, <1>2, <1>6, <2>1 DEF PlacedWith
<1> QED
  BY <1>7, <1>8, <1>9, <1>10 DEF IInv

LEMMA NextKeepsIInv == IInv /\ [Next]_vars => IInv'
<1> SUFFICES ASSUME IInv, [Next]_vars PROVE IInv'
  OBVIOUS
<1>1. CASE UNCHANGED vars
  BY <1>1, SMTT(30) DEF vars, IInv, TypeOK, MutexHeld, CallShape, SizeCounted, SoleConsumer, Apart, Covered,
              ApartFromDeque, ApartFrom, PlacedWith, Taking, TakesNothing, Taken, TakeCount
<1>2. ASSUME NEW t \in Threads, Begin(t) PROVE IInv'
  BY <1>2, BeginPushKeeps, BeginPopKeeps, PushNoLockKeeps DEF Begin
<1>3. ASSUME NEW t \in Threads, Work(t) PROVE IInv'
  BY <1>3, PushKeeps, PopKeeps, RemoveKeeps, FindEmptyKeeps, CountKeeps, UnlockKeeps DEF Work
<1> QED
  BY <1>1, <1>2, <1>3, LockKeeps DEF Next

LEMMA Inductive == Spec => []IInv
  BY InitIInv, NextKeepsIInv, PTL DEF Spec

-----------------------------------------------------------------------------
(* The invariants of the runs.                                              *)

\* Apart and Covered say that the places of an item count up to one.
LEMMA PlacesAreOne ==
  ASSUME IInv, NEW e \in Items
  PROVE  Places(e) = 1
<1> USE NoneAssumption
<1> DEFINE D == {i \in 1 .. Len(deque) : deque[i] = e}
           O == {t \in Threads : e \in own[t]}
           A == {t \in Threads : arg[t] = e}
           G == {p \in Threads \X (1 .. Cardinality(Items)) :
                   /\ pc[p[1]] # "remove"
                   /\ p[2] <= Len(got[p[1]])
                   /\ got[p[1]][p[2]] = e}
<1>1. TypeOK /\ Apart /\ Covered
  BY DEF IInv
<1>2. /\ \A i, j \in D : i = j
      /\ D # {} <=> e \in Elems(deque)
  BY <1>1 DEF Apart, Distinct, Elems
<1>3. /\ \A t, u \in O : t = u
      /\ \A t, u \in A : t = u
  BY <1>1 DEF Apart, ApartFrom
<1>4. \A t, u \in Threads : got[t] # <<>> /\ got[u] # <<>> => t = u
  <2>1. \A t \in Threads : got[t] # <<>> => pc[t] \in Inside
    BY DEF IInv, TypeOK, CallShape, Inside, Pops, BarePops
  <2> QED
    BY <2>1, OthersOutside
<1>5. \A t \in Threads : Len(got[t]) \in Nat /\ Len(got[t]) <= Cardinality(Items)
  BY <1>1, DistinctIsShort DEF TypeOK, Apart, ApartFromDeque
<1>6. Cardinality(Items) \in Nat
  BY SizeAssumption, FS_CardinalityType
<1>7. \A p, q \in G : p = q
  <2> SUFFICES ASSUME NEW p \in G, NEW q \in G PROVE p = q
    OBVIOUS
  <2>1. /\ p[1] \in Threads /\ q[1] \in Threads
        /\ p[2] \in 1 .. Len(got[p[1]]) /\ q[2] \in 1 .. Len(got[q[1]])
        /\ got[p[1]][p[2]] = e /\ got[q[1]][q[2]] = e
        /\ p = <<p[1], p[2]>> /\ q = <<q[1], q[2]>>
    BY <1>5, <1>6
  <2>2. got[p[1]] # <<>> /\ got[q[1]] # <<>>
    BY <1>5, <2>1
  <2>3. p[1] = q[1]
    BY <1>4, <2>1, <2>2
  <2>4. Distinct(got[p[1]])
    BY <1>1, <2>1 DEF Apart, ApartFromDeque
  <2>5. p[2] = q[2]
    BY <2>1, <2>3, <2>4 DEF Distinct
  <2> QED
    BY <2>1, <2>3, <2>5
<1>8. G # {} <=> \E t \in Threads : e \in Taking(t)
  <2>1. ASSUME NEW p \in G PROVE \E t \in Threads : e \in Taking(t)
    <3>1. p[1] \in Threads /\ pc[p[1]] # "remove" /\ p[2] \in 1 .. Len(got[p[1]])
      BY <1>5, <1>6
    <3> QED
      BY <3>1 DEF Taking, Elems
  <2>2. ASSUME NEW t \in Threads, e \in Taking(t) PROVE G # {}
    <3>1. PICK i \in 1 .. Len(got[t]) : got[t][i] = e
      BY <2>2 DEF Taking, Elems
    <3>2. pc[t] # "remove"
      BY <2>2 DEF Taking
    <3>3. i \in 1 .. Cardinality(Items)
      BY <1>5, <1>6, <3>1
    <3>4. <<t, i>> \in G
      BY <1>5, <3>1, <3>2, <3>3
    <3> QED
      BY <3>4
  <2> QED
    BY <2>1, <2>2
<1>9. /\ D # {} \/ O # {} \/ A # {} \/ G # {}
      /\ D # {} => O = {} /\ A = {} /\ G = {}
      /\ O # {} => A = {} /\ G = {}
      /\ A # {} => G = {}
  <2>1. O # {} <=> \E t \in Threads : e \in own[t]
    OBVIOUS
  <2>2. A # {} <=> \E t \in Threads : arg[t] = e
    OBVIOUS
  <2> HIDE DEF D, O, A, G
  <2> QED
    BY <1>1, <1>2, <1>8, <2>1, <2>2 DEF Apart, ApartFromDeque, ApartFrom, Covered, PlacedWith
<1>10. Places(e) = Cardinality(D) + Cardinality(O) + Cardinality(A) + Cardinality(G)
  BY DEF Places
<1> HIDE DEF D, O, A, G
<1>11. /\ Cardinality(D) = (IF D = {} THEN 0 ELSE 1)
       /\ Cardinality(O) = (IF O = {} THEN 0 ELSE 1)
       /\ Cardinality(A) = (IF A = {} THEN 0 ELSE 1)
       /\ Cardinality(G) = (IF G = {} THEN 0 ELSE 1)
  BY <1>2, <1>3, <1>7, CardinalityAtMostOne
<1> QED
  BY <1>9, <1>10, <1>11

\* Types: the count stays in its width, and only items of the stock are anywhere.
THEOREM TypeCorrect == Spec => []TypeOK
<1>1. IInv => TypeOK
  BY DEF IInv
<1> QED
  BY <1>1, Inductive, PTL

\* No interleaving loses an item or delivers one twice.
THEOREM Conserved == Spec => []ItemsAreConserved
<1>1. IInv => ItemsAreConserved
  BY PlacesAreOne DEF ItemsAreConserved
<1> QED
  BY <1>1, Inductive, PTL

\* wasSize() is the length, but for the call between its two changes.
THEOREM SizeExact == Spec => []SizeIsCount
<1>1. IInv => SizeIsCount
  BY DEF IInv, SizeCounted, SizeIsCount
<1> QED
  BY <1>1, Inductive, PTL

\* A sole consumer that wasSize() told of an element finds one.
THEOREM SoleConsumerServed == Spec => []BarePopsFindAnItem
<1>1. IInv => BarePopsFindAnItem
  BY DEF IInv, SoleConsumer, BarePopsFindAnItem
<1> QED
  BY <1>1, Inductive, PTL

-----------------------------------------------------------------------------
(* The refinement of WorkPool.  A pop takes effect when it removes what it  *)
(* has read, or finds nothing; a push when it changes the deque.            *)

\* t's pop has taken effect, and delivers what it took.
Holding(t) ==
  /\ op[t] \in Pops
  /\ pc[t] \in {"count", "unlock"}
  /\ got[t] # <<>> \/ (max[t] = 0 /\ deque # <<>>)

\* What the abstract pool has handed out, now and after the step.
LEMMA HandIs ==
  /\ Hand = [t \in Threads |-> IF Holding(t) THEN got[t] ELSE None]
  /\ Hand' = [t \in Threads |-> IF Holding(t)' THEN got'[t] ELSE None]
  BY DEF Hand, Holding

\* While nobody is at the end of a pop, no hand holds anything.
LEMMA NobodyHolding ==
  ASSUME NEW t \in Threads, pc[t] \notin {"count", "unlock"}
  PROVE  ~Holding(t)
  BY DEF Holding

\* A step that changes neither the pool nor what any pop holds.
LEMMA Stutters ==
  ASSUME UNCHANGED <<deque, result>>,
         \A u \in Threads : /\ Holding(u)' <=> Holding(u)
                            /\ Holding(u) => got'[u] = got[u]
  PROVE  UNCHANGED W!vars
<1>1. Hand' = Hand
  BY HandIs
<1> QED
  BY <1>1 DEF W!vars

LEMMA InitRefines == Init => W!Init
<1> SUFFICES ASSUME Init PROVE W!Init
  OBVIOUS
<1>1. Hand = [t \in Threads |-> None]
  BY HandIs DEF Init, Holding
<1> QED
  BY <1>1 DEF Init, W!Init

\* The change of the std::deque is the moment at which a push happens.
LEMMA PushRefines ==
  ASSUME IInv, NEW e \in Items, NEW o, deque' = With(o, e), UNCHANGED result,
         \A u \in Threads : ~Holding(u) /\ ~Holding(u)'
  PROVE  W!Next
<1>1. Hand' = Hand
  BY HandIs
<1>2. W!PutBack(e) \/ W!PutFront(e)
  BY <1>1 DEF With, W!PutBack, W!PutFront
<1> QED
  BY <1>2 DEF W!Next

\* The thread that removes what its pop has read takes it from the pool.
LEMMA RemoveRefines ==
  ASSUME IInv, NEW t \in Threads, Remove(t)
  PROVE  W!Next
<1>1. /\ TypeOK /\ pc[t] = "remove" /\ deque' = Left(t)
      /\ UNCHANGED <<size, mutex, op, arg, max, got, own, result>>
      /\ pc' = [pc EXCEPT ![t] = "count"]
  BY DEF IInv, Remove
<1>2. /\ op[t] \in Pops /\ ~TakesNothing(t) /\ got[t] = Taken(t)
      /\ max[t] \in BatchSizes \cup {1}
  BY <1>1 DEF IInv, CallShape
<1>3. got[t] # <<>>
  BY <1>1, <1>2, TakenIsAnEnd DEF IInv, Apart
<1>4. pc'[t] = "count" /\ \A u \in Threads \ {t} : pc[u] \in {"idle", "lock"} /\ pc'[u] = pc[u]
  BY <1>1, OthersOutside DEF Inside, TypeOK
<1>5. \A u \in Threads : ~Holding(u) /\ (Holding(u)' <=> u = t)
  BY <1>1, <1>2, <1>3, <1>4 DEF Holding
<1>6. Hand = [u \in Threads |-> None] /\ Hand' = [u \in Threads |-> IF u = t THEN got[t] ELSE None]
  BY <1>1, <1>5, HandIs
<1>7. Hand[t] = None /\ Hand' = [Hand EXCEPT ![t] = got[t]]
  BY <1>6
<1>8. deque # <<>>
  BY <1>2 DEF TakesNothing
<1>9. CASE op[t] \in BackPops
  <2>1. got[t] = <<deque[Len(deque)]>> /\ deque' = SubSeq(deque, 1, Len(deque) - 1)
    BY <1>1, <1>2, <1>9 DEF Taken, Left
  <2>2. W!TakeBack(t)
    BY <1>1, <1>7, <1>8, <2>1 DEF W!TakeBack
  <2> QED
    BY <2>2 DEF W!Next
<1>10. CASE op[t] \notin BackPops
  <2> DEFINE k == TakeCount(t)
  <2>1. got[t] = SubSeq(deque, 1, k) /\ deque' = SubSeq(deque, Len(got[t]) + 1, Len(deque))
    BY <1>1, <1>2, <1>10 DEF Taken, Left
  <2>2. Len(got[t]) = k
    <3>1. deque \in Seq(Items) /\ Len(deque) \in Nat /\ max[t] \in Nat
      BY <1>1 DEF TypeOK
    <3>2. k \in 0 .. Len(deque)
      BY <3>1 DEF TakeCount
    <3> QED
      BY <2>1, <3>1, <3>2, ElemsCut DEF IInv, Apart
  <2>3. W!TakeFront(t, max[t])
    BY <1>1, <1>7, <1>8, <2>1, <2>2 DEF W!TakeFront, TakeCount
  <2> QED
    BY <1>2, <2>3 DEF W!Next
<1> QED
  BY <1>9, <1>10

\* A pop that was asked for nothing takes nothing, and an empty pool shows nothing.
LEMMA FindEmptyRefines ==
  ASSUME IInv, NEW t \in Threads, FindEmpty(t)
  PROVE  W!Next \/ UNCHANGED W!vars
<1>1. /\ TypeOK /\ pc[t] = "body" /\ op[t] \in Pops /\ TakesNothing(t)
      /\ UNCHANGED <<deque, size, mutex, op, arg, max, got, own, result>>
      /\ pc' = [pc EXCEPT ![t] = "unlock"]
  BY DEF IInv, FindEmpty
<1>2. got[t] = <<>> /\ max[t] \in BatchSizes \cup {1}
  BY <1>1 DEF IInv, CallShape
<1>3. pc'[t] = "unlock" /\ \A u \in Threads \ {t} : pc[u] \in {"idle", "lock"} /\ pc'[u] = pc[u]
  BY <1>1, OthersOutside DEF Inside, TypeOK
<1>4. CASE deque = <<>>
  <2>1. \A u \in Threads : ~Holding(u) /\ ~Holding(u)'
    BY <1>1, <1>2, <1>3, <1>4 DEF Holding
  <2> QED
    BY <1>1, <2>1, Stutters
<1>5. CASE deque # <<>>
  <2>1. max[t] = 0
    BY <1>1, <1>5 DEF TakesNothing
  <2>2. \A u \in Threads : ~Holding(u) /\ (Holding(u)' <=> u = t)
    BY <1>1, <1>2, <1>3, <1>5, <2>1 DEF Holding
  <2>3. Hand = [u \in Threads |-> None] /\ Hand' = [u \in Threads |-> IF u = t THEN <<>> ELSE None]
    BY <1>1, <1>2, <2>2, HandIs
  <2>4. Hand[t] = None /\ Hand' = [Hand EXCEPT ![t] = <<>>]
    BY <2>3
  <2>5. SubSeq(deque, 1, 0) = <<>> /\ SubSeq(deque, 1, Len(deque)) = deque
    BY <1>1, SubSeqEmpty, SubSeqFull DEF TypeOK
  <2>6. Len(deque) \in Nat
    BY <1>1 DEF TypeOK
  <2>7. (IF 0 < Len(deque) THEN 0 ELSE Len(deque)) = 0 /\ 0 + 1 = 1
    BY <2>6
  <2>8. /\ SubSeq(deque, 1, IF 0 < Len(deque) THEN 0 ELSE Len(deque)) = <<>>
        /\ SubSeq(deque, (IF 0 < Len(deque) THEN 0 ELSE Len(deque)) + 1, Len(deque)) = deque
    BY <2>5, <2>7
  <2>9. W!TakeFront(t, 0)
    BY <1>1, <1>5, <2>4, <2>8, Zenon DEF W!TakeFront
  <2> QED
    BY <1>2, <2>1, <2>9 DEF W!Next
<1> QED
  BY <1>4, <1>5

\* The return of a pop delivers what it holds, or reports that nothing was there;
\* that of a push does neither.
LEMMA UnlockRefines ==
  ASSUME IInv, NEW t \in Threads, Unlock(t)
  PROVE  W!Next \/ UNCHANGED W!vars
<1>1. /\ TypeOK /\ pc[t] = "unlock"
      /\ UNCHANGED <<deque, size, arg>>
      /\ pc' = [pc EXCEPT ![t] = "idle"]
      /\ op' = [op EXCEPT ![t] = "none"]
      /\ max' = [max EXCEPT ![t] = 0]
      /\ got' = [got EXCEPT ![t] = <<>>]
      /\ result' = IF op[t] \in Pops THEN [result EXCEPT ![t] = got[t]] ELSE result
  BY DEF IInv, Unlock
<1>2. pc'[t] = "idle" /\ \A u \in Threads \ {t} : pc[u] \in {"idle", "lock"} /\ pc'[u] = pc[u]
  BY <1>1, OthersOutside DEF Inside, TypeOK
<1>3. \A u \in Threads : ~Holding(u)' /\ (u # t => ~Holding(u))
  BY <1>2 DEF Holding
<1>4. Hand' = [u \in Threads |-> None] /\ Hand[t] = IF Holding(t) THEN got[t] ELSE None
  BY <1>3, HandIs
<1>5. CASE op[t] \notin Pops
  <2>1. ~Holding(t)
    BY <1>5 DEF Holding
  <2> QED
    BY <1>1, <1>3, <1>5, <2>1, Stutters
<1>6. CASE op[t] \in Pops /\ Holding(t)
  <2>1. Hand[t] # None
    BY <1>1, <1>4, <1>6, NoneAssumption DEF TypeOK
  <2>2. Hand' = [Hand EXCEPT ![t] = None]
    BY <1>3, <1>4, HandIs
  <2>3. W!Deliver(t)
    BY <1>1, <1>4, <1>6, <2>1, <2>2 DEF W!Deliver
  <2> QED
    BY <2>3 DEF W!Next
<1>7. CASE op[t] \in Pops /\ ~Holding(t)
  <2>1. got[t] = <<>> /\ deque = <<>>
    BY <1>1, <1>7 DEF IInv, CallShape, TakesNothing, Holding
  <2>2. Hand[t] = None /\ Hand' = Hand
    BY <1>3, <1>4, <1>7, HandIs
  <2>3. W!ReportEmpty(t)
    BY <1>1, <1>7, <2>1, <2>2 DEF W!ReportEmpty
  <2> QED
    BY <2>3 DEF W!Next
<1> QED
  BY <1>5, <1>6, <1>7

LEMMA NextRefines == IInv /\ [Next]_vars => [W!Next]_(W!vars)
<1> SUFFICES ASSUME IInv, [Next]_vars PROVE W!Next \/ UNCHANGED W!vars
  OBVIOUS
<1>1. CASE UNCHANGED vars
  BY <1>1, Stutters DEF vars, Holding
<1>2. ASSUME NEW t \in Threads, NEW o, NEW e \in Items, PushNoLock(t, o, e)
      PROVE  W!Next
  <2>1. \A u \in Threads : ~Holding(u) /\ ~Holding(u)'
    BY <1>2 DEF PushNoLock, Quiescent, Holding
  <2> QED
    BY <1>2, <2>1, PushRefines DEF PushNoLock
<1>3. ASSUME NEW t \in Threads, Push(t) PROVE W!Next
  <2>1. arg[t] \in Items
    BY <1>3 DEF Push, IInv, TypeOK, CallShape
  <2>2. \A u \in Threads : ~Holding(u) /\ ~Holding(u)'
    <3>1. op[t] \notin Pops /\ pc'[t] = "count" /\ op' = op
      BY <1>3 DEF Push, IInv, TypeOK, Pushes, Pops, BarePops
    <3>2. \A u \in Threads \ {t} : pc[u] \in {"idle", "lock"} /\ pc'[u] = pc[u]
      BY <1>3, OthersOutside DEF Push, Inside, IInv, TypeOK
    <3> QED
      BY <3>1, <3>2 DEF Holding
  <2> QED
    BY <1>3, <2>1, <2>2, PushRefines DEF Push
<1>4. ASSUME NEW t \in Threads,
             \/ \E o \in Pushes, e \in Items : BeginPush(t, o, e)
             \/ \E o \in Pops, n \in BatchSizes \cup {1} : BeginPop(t, o, n)
             \/ Lock(t) \/ Pop(t)
      PROVE  UNCHANGED W!vars
  <2>1. /\ UNCHANGED <<deque, result>>
        /\ pc[t] \notin {"count", "unlock"} /\ pc'[t] \notin {"count", "unlock"}
        /\ \A u \in Threads \ {t} :
             pc'[u] = pc[u] /\ op'[u] = op[u] /\ max'[u] = max[u] /\ got'[u] = got[u]
    BY <1>4 DEF BeginPush, BeginPop, Lock, Pop, IInv, TypeOK
  <2> QED
    BY <2>1, Stutters DEF Holding
<1>5. ASSUME NEW t \in Threads, Count(t) PROVE UNCHANGED W!vars
  <2>1. /\ UNCHANGED <<deque, result, op, max, got>>
        /\ pc[t] = "count" /\ pc'[t] = "unlock"
        /\ \A u \in Threads \ {t} : pc'[u] = pc[u]
    BY <1>5 DEF Count, IInv, TypeOK
  <2> QED
    BY <2>1, Stutters DEF Holding
<1>6. ASSUME NEW t \in Threads, Begin(t) PROVE W!Next \/ UNCHANGED W!vars
  BY <1>2, <1>4, <1>6 DEF Begin
<1>7. ASSUME NEW t \in Threads, Work(t) PROVE W!Next \/ UNCHANGED W!vars
  BY <1>3, <1>4, <1>5, <1>7, RemoveRefines, FindEmptyRefines, UnlockRefines DEF Work
<1> QED
  BY <1>1, <1>4, <1>6, <1>7 DEF Next

\* Every operation of Deque is one indivisible operation of a WorkPool.
THEOREM Refinement == Spec => ImplementsWorkPool
<1>1. Spec => W!Init /\ [][W!Next]_(W!vars)
  BY InitRefines, NextRefines, Inductive, PTL DEF Spec
<1> QED
  BY <1>1 DEF ImplementsWorkPool, W!Spec
=============================================================================
