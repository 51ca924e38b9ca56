------------------------------ MODULE WorkPool ------------------------------
(***************************************************************************)
(* What the concurrent double-ended containers of jaffarCommon promise to  *)
(* the threads that share one: a sequence of items from which every pop    *)
(* removes, in one indivisible step, a run of items at one end.  The       *)
(* removed run is in the thread's hand until its call returns, and then is *)
(* the result of the call.  A call may answer "nothing there" only in a    *)
(* step in which nothing is there.                                         *)
(*                                                                         *)
(* DrainBuffer and Deque are shown to implement this specification.        *)
(***************************************************************************)
EXTENDS Integers, Sequences

CONSTANTS Threads,     \* the calling threads
          Items,       \* the values stored
          BatchSizes,  \* the maxCount arguments of the batched pop
          None         \* "no pop of this thread is under way"

VARIABLES pool,    \* the items nobody has taken, front first
          hand,    \* hand[t]: what the pop of t has removed and not yet returned
          result   \* result[t]: what the last pop of t returned; <<>> for nothing

vars == <<pool, hand, result>>

Init ==
  /\ pool = <<>>
  /\ hand = [t \in Threads |-> None]
  /\ result = [t \in Threads |-> <<>>]

PutBack(e) == pool' = Append(pool, e) /\ UNCHANGED <<hand, result>>

PutFront(e) == pool' = <<e>> \o pool /\ UNCHANGED <<hand, result>>

TakeFront(t, n) ==
  LET k == IF n < Len(pool) THEN n ELSE Len(pool)
  IN  /\ hand[t] = None
      /\ pool # <<>>
      /\ hand' = [hand EXCEPT ![t] = SubSeq(pool, 1, k)]
      /\ pool' = SubSeq(pool, k + 1, Len(pool))
      /\ UNCHANGED result

TakeBack(t) ==
  /\ hand[t] = None
  /\ pool # <<>>
  /\ hand' = [hand EXCEPT ![t] = <<pool[Len(pool)]>>]
  /\ pool' = SubSeq(pool, 1, Len(pool) - 1)
  /\ UNCHANGED result

Deliver(t) ==
  /\ hand[t] # None
  /\ result' = [result EXCEPT ![t] = hand[t]]
  /\ hand' = [hand EXCEPT ![t] = None]
  /\ UNCHANGED pool

ReportEmpty(t) ==
  /\ hand[t] = None
  /\ pool = <<>>
  /\ result' = [result EXCEPT ![t] = <<>>]
  /\ UNCHANGED <<pool, hand>>

\* A new use of the container, between two uses by the threads.
Renew ==
  /\ \A t \in Threads : hand[t] = None
  /\ pool' = <<>>
  /\ result' = [t \in Threads |-> <<>>]
  /\ UNCHANGED hand

Next ==
  \/ \E e \in Items : PutBack(e) \/ PutFront(e)
  \/ \E t \in Threads :
       \/ \E n \in BatchSizes : TakeFront(t, n)
       \/ TakeBack(t)
       \/ Deliver(t)
       \/ ReportEmpty(t)
  \/ Renew

Spec == Init /\ [][Next]_vars
=============================================================================
