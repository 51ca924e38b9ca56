------------------------------- MODULE Deque -------------------------------
(***************************************************************************)
(* Deque<T> of include/jaffarCommon/concurrent.hpp: a std::deque under one *)
(* mutex, with an element count beside it that wasSize() reads without the *)
(* mutex.                                                                  *)
(*                                                                         *)
(* A locked call takes the mutex, reads from the deque, changes it,        *)
(* changes the count, releases the mutex and returns, a step each.  Before *)
(* the count is changed, wasSize() of another thread sees one that is not  *)
(* the length.  wasSize() itself, front() and back() change nothing.       *)
(*                                                                         *)
(* The callers pass a fixed stock of items around: a thread pushes only    *)
(* items it has, and has what it popped.  The operations the code declares *)
(* not thread safe are used while no other call is under way.  pop_front() *)
(* and pop_back(), which do not check for an empty deque, are used by a    *)
(* thread that wasSize() has told of an element, while nobody else pops;   *)
(* other threads may push.                                                 *)
(***************************************************************************)
EXTENDS Integers, Sequences, FiniteSets

CONSTANTS Threads, Items,
          BatchSizes,  \* the maxCount arguments
          SizeWords,   \* the number of values of _size
          None         \* no thread; no item; see WorkPool

ASSUME SizeAssumption == IsFiniteSet(Items) /\ SizeWords \in Nat /\ Cardinality(Items) < SizeWords
ASSUME BatchAssumption == BatchSizes \subseteq Nat
ASSUME NoneAssumption == None \notin Threads \cup Items \cup Seq(Items)

VARIABLES deque,   \* _internalDeque
          size,    \* _size
          mutex,   \* the thread that holds _mutex, or None
          pc,      \* pc[t]: where t is in its call
          op,      \* op[t]: the operation t calls
          arg,     \* arg[t]: the item t pushes
          max,     \* max[t]: the most elements t's pop may take
          got,     \* got[t]: what t's pop has taken from the deque
          own,     \* own[t]: the items t has
          result   \* result[t]: what t's last pop returned

vars == <<deque, size, mutex, pc, op, arg, max, got, own, result>>

Pushes   == {"push_back", "push_front"}
BackPops == {"pop_back", "pop_back_get"}
BarePops == {"pop_front", "pop_back"}   \* without a check for an empty deque
Pops     == BarePops \cup {"pop_front_get", "pop_back_get", "pop_front_get_batch"}

Elems(s) == {s[i] : i \in 1 .. Len(s)}

Init ==
  /\ deque = <<>>
  /\ size = 0
  /\ mutex = None
  /\ pc = [t \in Threads |-> "idle"]
  /\ op = [t \in Threads |-> "none"]
  /\ arg = [t \in Threads |-> None]
  /\ max = [t \in Threads |-> 0]
  /\ got = [t \in Threads |-> <<>>]
  /\ own \in {[t \in Threads |-> IF t = u THEN Items ELSE {}] : u \in Threads}
  /\ result = [t \in Threads |-> <<>>]

\* No call is under way.
Quiescent == \A u \in Threads : pc[u] = "idle"

\* When a caller may begin the pop o.
MayPop(o) ==
  IF o \in BarePops
  THEN size > 0 /\ \A u \in Threads : op[u] \notin Pops
  ELSE \A u \in Threads : op[u] \notin BarePops

-----------------------------------------------------------------------------
BeginPush(t, o, e) ==
  /\ pc[t] = "idle"
  /\ e \in own[t]
  /\ pc' = [pc EXCEPT ![t] = "lock"]
  /\ op' = [op EXCEPT ![t] = o]
  /\ arg' = [arg EXCEPT ![t] = e]
  /\ own' = [own EXCEPT ![t] = @ \ {e}]
  /\ UNCHANGED <<deque, size, mutex, max, got, result>>

BeginPop(t, o, n) ==
  /\ pc[t] = "idle"
  /\ MayPop(o)
  /\ o # "pop_front_get_batch" => n = 1
  /\ pc' = [pc EXCEPT ![t] = "lock"]
  /\ op' = [op EXCEPT ![t] = o]
  /\ max' = [max EXCEPT ![t] = n]
  /\ UNCHANGED <<deque, size, mutex, arg, got, own, result>>

FaultyFree == TRUE
Free == mutex = None

Lock(t) ==
  /\ pc[t] = "lock"
  /\ Free
  /\ mutex' = t
  /\ pc' = [pc EXCEPT ![t] = "body"]
  /\ UNCHANGED <<deque, size, op, arg, max, got, own, result>>

\* The deque with e pushed at the end o names.
With(o, e) == IF o \in {"push_back", "push_back_no_lock"} THEN Append(deque, e) ELSE <<e>> \o deque

Push(t) ==
  /\ pc[t] = "body"
  /\ op[t] \in Pushes
  /\ deque' = With(op[t], arg[t])
  /\ arg' = [arg EXCEPT ![t] = None]
  /\ pc' = [pc EXCEPT ![t] = "count"]
  /\ UNCHANGED <<size, mutex, op, max, got, own, result>>

TakeCount(t) == IF max[t] < Len(deque) THEN max[t] ELSE Len(deque)

\* What t's pop takes and what it leaves.
FaultyTaken(t) ==
  IF op[t] \in BackPops THEN <<deque[Len(deque)]>>
  ELSE [i \in 1 .. TakeCount(t) |-> deque[TakeCount(t) + 1 - i]]
Taken(t) ==
  IF op[t] \in BackPops THEN <<deque[Len(deque)]>> ELSE SubSeq(deque, 1, TakeCount(t))
Left(t) ==
  IF op[t] \in BackPops
  THEN SubSeq(deque, 1, Len(deque) - 1)
  ELSE SubSeq(deque, Len(got[t]) + 1, Len(deque))

TakesNothing(t) == deque = <<>> \/ max[t] = 0

\* A pop reads what it takes, and then removes it.
Pop(t) ==
  /\ pc[t] = "body"
  /\ op[t] \in Pops
  /\ ~TakesNothing(t)
  /\ got' = [got EXCEPT ![t] = Taken(t)]
  /\ pc' = [pc EXCEPT ![t] = "remove"]
  /\ UNCHANGED <<deque, size, mutex, op, arg, max, own, result>>

Remove(t) ==
  /\ pc[t] = "remove"
  /\ deque' = Left(t)
  /\ pc' = [pc EXCEPT ![t] = "count"]
  /\ UNCHANGED <<size, mutex, op, arg, max, got, own, result>>

FaultyFindEmpty(t) ==
  /\ pc[t] = "body"
  /\ op[t] \in Pops
  /\ TakesNothing(t)
  /\ mutex' = None
  /\ pc' = [pc EXCEPT ![t] = "lock"]
  /\ UNCHANGED <<deque, size, op, arg, max, got, own, result>>

FaultyFindEmptyUnchecked(t) ==
  /\ pc[t] = "body"
  /\ op[t] \in Pops
  /\ TakesNothing(t)
  /\ got' = [got EXCEPT ![t] = <<None>>]
  /\ pc' = [pc EXCEPT ![t] = "count"]
  /\ UNCHANGED <<deque, size, mutex, op, arg, max, own, result>>

FindEmpty(t) ==
  /\ pc[t] = "body"
  /\ op[t] \in Pops
  /\ TakesNothing(t)
  /\ pc' = [pc EXCEPT ![t] = "unlock"]
  /\ UNCHANGED <<deque, size, mutex, op, arg, max, got, own, result>>

\* fetch_add(1), fetch_sub(1) or fetch_sub(count), in the width of size_t.
FaultyCounted(t) == IF op[t] \in Pushes THEN size + 1 ELSE size - 1
Counted(t) == IF op[t] \in Pushes THEN size + 1 ELSE size - Len(got[t])

Count(t) ==
  /\ pc[t] = "count"
  /\ size' = Counted(t) % SizeWords
  /\ pc' = [pc EXCEPT ![t] = "unlock"]
  /\ UNCHANGED <<deque, mutex, op, arg, max, got, own, result>>

\* Release the mutex and return.
Unlock(t) ==
  /\ pc[t] = "unlock"
  /\ mutex' = None
  /\ pc' = [pc EXCEPT ![t] = "idle"]
  /\ op' = [op EXCEPT ![t] = "none"]
  /\ max' = [max EXCEPT ![t] = 0]
  /\ got' = [got EXCEPT ![t] = <<>>]
  /\ own' = [own EXCEPT ![t] = @ \cup Elems(got[t])]
  /\ result' = IF op[t] \in Pops THEN [result EXCEPT ![t] = got[t]] ELSE result
  /\ UNCHANGED <<deque, size, arg>>

\* push_back_no_lock, push_front_no_lock.
PushNoLock(t, o, e) ==
  /\ Quiescent
  /\ e \in own[t]
  /\ deque' = With(o, e)
  /\ size' = (size + 1) % SizeWords
  /\ own' = [own EXCEPT ![t] = @ \ {e}]
  /\ UNCHANGED <<mutex, pc, op, arg, max, got, result>>

Begin(t) ==
  \/ \E e \in Items : \/ \E o \in Pushes : BeginPush(t, o, e)
                      \/ \E o \in {"push_back_no_lock", "push_front_no_lock"} : PushNoLock(t, o, e)
  \/ \E o \in Pops, n \in BatchSizes \cup {1} : BeginPop(t, o, n)

Work(t) == Push(t) \/ Pop(t) \/ Remove(t) \/ FindEmpty(t) \/ Count(t) \/ Unlock(t)

Next == \E t \in Threads : Begin(t) \/ Lock(t) \/ Work(t)

Spec == Init /\ [][Next]_vars

-----------------------------------------------------------------------------
TypeOK ==
  /\ deque \in Seq(Items)
  /\ size \in 0 .. SizeWords - 1
  /\ mutex \in Threads \cup {None}
  /\ pc \in [Threads -> {"idle", "lock", "body", "remove", "count", "unlock"}]
  /\ op \in [Threads -> Pushes \cup Pops \cup {"none"}]
  /\ arg \in [Threads -> Items \cup {None}]
  /\ max \in [Threads -> Nat]
  /\ got \in [Threads -> Seq(Items)]
  /\ own \in [Threads -> SUBSET Items]
  /\ result \in [Threads -> Seq(Items)]

\* Every item is in exactly one place: one position of the deque, with one thread,
\* in one push that has not reached the deque or in one pop that has left it.
Places(e) ==
  Cardinality({i \in 1 .. Len(deque) : deque[i] = e})
  + Cardinality({t \in Threads : e \in own[t]})
  + Cardinality({t \in Threads : arg[t] = e})
  + Cardinality({p \in Threads \X (1 .. Cardinality(Items)) :
                   /\ pc[p[1]] # "remove"
                   /\ p[2] <= Len(got[p[1]])
                   /\ got[p[1]][p[2]] = e})

\* No interleaving of the operations loses an item or delivers one twice.
ItemsAreConserved == \A e \in Items : Places(e) = 1

\* What wasSize() returns in any state: the length of the deque, but for the call
\* that holds the mutex between its change of the deque and its change of the
\* count.  So the count never goes below zero and is exact whenever nobody holds
\* the mutex (concurrent.hpp:405-406, "the size may be momentarily stale").
SizeIsCount ==
  LET counting == {t \in Threads : pc[t] = "count"}
  IN  IF counting = {} THEN size = Len(deque)
      ELSE \A t \in counting :
             size = IF op[t] \in Pushes THEN Len(deque) - 1 ELSE Len(deque) + Len(got[t])

\* A pop without a check finds an element: the size a sole consumer was told is not
\* more than what is there when it has the mutex, whoever pushes in the meantime
\* (concurrent.hpp:297, "does not check for an empty container").
BarePopsFindAnItem ==
  \A t \in Threads : pc[t] = "body" /\ op[t] \in BarePops => deque # <<>>

-----------------------------------------------------------------------------
(* Every operation takes effect in the one step that changes the deque.     *)

\* A pop that found nothing has nothing in hand; one that was asked for nothing has
\* the empty sequence.
Hand == [t \in Threads |->
          IF op[t] \in Pops /\ pc[t] \in {"count", "unlock"}
               /\ (got[t] # <<>> \/ (max[t] = 0 /\ deque # <<>>))
          THEN got[t] ELSE None]

W == INSTANCE WorkPool WITH pool <- deque, hand <- Hand, BatchSizes <- BatchSizes \cup {1}
ImplementsWorkPool == W!Spec

-----------------------------------------------------------------------------
(* Progress of the threads in Live, which keep running; any other may stop  *)
(* for good at any step.  A mutex that keeps becoming free is eventually    *)
(* given to a thread that keeps asking: strong fairness of Lock.            *)

Fairness(Live) == \A t \in Live : WF_vars(Work(t)) /\ SF_vars(Lock(t))
=============================================================================
