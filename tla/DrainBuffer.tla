---------------------------- MODULE DrainBuffer ----------------------------
(***************************************************************************)
(* DrainBuffer<T> of include/jaffarCommon/concurrent.hpp: a buffer filled  *)
(* by one thread and then drained from both ends by many, without a lock.  *)
(*                                                                         *)
(* The two claim counters are the halves of one atomic word; here they are *)
(* the fields of one record, each kept modulo Half (2^32 in the code).  A  *)
(* pop is three steps, as in the code: load the word, exchange it, copy    *)
(* the claimed slots.  The exchange is compare_exchange_weak: it may fail  *)
(* although the word is the one observed.                                  *)
(*                                                                         *)
(* The fill, the barrier after it and the return to the next fill are the  *)
(* protocol of the caller: clear() and push_back_no_lock() while no thread *)
(* is inside a pop, and never more pushes than the reserved capacity.      *)
(***************************************************************************)
EXTENDS Integers, Sequences

CONSTANTS Threads,     \* the draining threads
          Items,       \* the element values
          BatchSizes,  \* the maxCount arguments
          Capacity,    \* the argument of reserve()
          Half,        \* the number of values of a claim counter
          Junk,        \* the content of a slot that was never written
          None         \* see WorkPool

ASSUME CapacityAssumption ==
  /\ Capacity \in Nat \ {0}
  /\ Half \in Nat
  /\ Capacity < Half
ASSUME BatchAssumption == BatchSizes \subseteq Nat
ASSUME NoneAssumption == None \notin Seq(Items \cup {Junk})

VARIABLES phase,     \* "fill" or "drain"
          buffer,    \* _buffer
          count,     \* _count
          claim,     \* _claim
          pc,        \* pc[t]: where t is in its pop
          observed,  \* observed[t]: the word t last read
          want,      \* want[t]: the maxCount of t's call
          result,    \* result[t]: what t's last pop returned
          bound,     \* bound[t]: the least size t was told of in this phase
          copies     \* copies[i]: how often slot i was handed out in this phase

vars == <<phase, buffer, count, claim, pc, observed, want, result, bound, copies>>

Slots == 0 .. Capacity - 1
Word  == [front : 0 .. Half - 1, back : 0 .. Half - 1]
Zero  == [front |-> 0, back |-> 0]

-----------------------------------------------------------------------------
(* The arithmetic of the claim word.  A definition named Faulty... is the  *)
(* one after it with a plausible mistake: with it in place of the original *)
(* a property of the runs must fail, which shows that the property bites.  *)

FaultyIsEmptyLate(w) == w.front + w.back > count
FaultyIsEmptyEarly(w) == w.front + w.back + 1 >= count
IsEmpty(w) == w.front + w.back >= count

Unclaimed(w) == count - w.front - w.back

FaultyTake(w, n) == IF n < count - w.front THEN n ELSE count - w.front
Take(w, n) == IF n < Unclaimed(w) THEN n ELSE Unclaimed(w)

\* The slots a pop that exchanged the word w may copy.
FrontSlots(w, n) == w.front .. (w.front + Take(w, n) - 1)
BackSlot(w) == count - 1 - w.back

FaultyClaimFront(w, n) == [w EXCEPT !.front = @ + n]
ClaimFront(w, n) == [w EXCEPT !.front = (@ + Take(w, n)) % Half]
ClaimBack(w)     == [w EXCEPT !.back = (@ + 1) % Half]

SizeOf(w) == IF w.front + w.back >= count THEN 0 ELSE count - (w.front + w.back)

-----------------------------------------------------------------------------
Init ==
  /\ phase = "fill"
  /\ buffer = [i \in Slots |-> Junk]
  /\ count = 0
  /\ claim = Zero
  /\ pc = [t \in Threads |-> "idle"]
  /\ observed = [t \in Threads |-> Zero]
  /\ want = [t \in Threads |-> 0]
  /\ result = [t \in Threads |-> <<>>]
  /\ bound = [t \in Threads |-> Capacity]
  /\ copies = [i \in Slots |-> 0]

PushBack(e) ==
  /\ phase = "fill"
  /\ count < Capacity
  /\ buffer' = [buffer EXCEPT ![count] = e]
  /\ count' = count + 1
  /\ UNCHANGED <<phase, claim, pc, observed, want, result, bound, copies>>

\* The barrier after the fill.
StartDrain ==
  /\ phase = "fill"
  /\ phase' = "drain"
  /\ UNCHANGED <<buffer, count, claim, pc, observed, want, result, bound, copies>>

\* Read the word and go on to the exchange, or find the buffer empty and return.
ObserveOrLeave(t, end, n) ==
  \/ /\ ~IsEmpty(claim)
     /\ pc' = [pc EXCEPT ![t] = end]
     /\ observed' = [observed EXCEPT ![t] = claim]
     /\ want' = [want EXCEPT ![t] = n]
     /\ UNCHANGED <<result, bound>>
  \/ /\ IsEmpty(claim)
     /\ pc' = [pc EXCEPT ![t] = "idle"]
     /\ observed' = [observed EXCEPT ![t] = Zero]
     /\ want' = [want EXCEPT ![t] = 0]
     /\ result' = [result EXCEPT ![t] = <<>>]
     /\ bound' = [bound EXCEPT ![t] = 0]

BeginPopFront(t, n) ==
  /\ phase = "drain"
  /\ pc[t] = "idle"
  /\ ObserveOrLeave(t, "front", n)
  /\ UNCHANGED <<phase, buffer, count, claim, copies>>

BeginPopBack(t) ==
  /\ phase = "drain"
  /\ pc[t] = "idle"
  /\ ObserveOrLeave(t, "back", 1)
  /\ UNCHANGED <<phase, buffer, count, claim, copies>>

FaultyExchangeFails(t) ==
  /\ pc[t] \in {"front", "back"}
  /\ claim # observed[t]
  /\ IsEmpty(claim)
  /\ ObserveOrLeave(t, pc[t], want[t])
  /\ UNCHANGED <<phase, buffer, count, claim, copies>>

\* A failed exchange reloads the word; the loop then looks at it again.
ExchangeFails(t) ==
  /\ pc[t] \in {"front", "back"}
  /\ ObserveOrLeave(t, pc[t], want[t])
  /\ UNCHANGED <<phase, buffer, count, claim, copies>>

FaultyMatches(t) == TRUE
Matches(t) == claim = observed[t]

ExchangeFront(t) ==
  /\ pc[t] = "front"
  /\ Matches(t)
  /\ claim' = ClaimFront(observed[t], want[t])
  /\ pc' = [pc EXCEPT ![t] = "copyFront"]
  /\ UNCHANGED <<phase, buffer, count, observed, want, result, bound, copies>>

ExchangeBack(t) ==
  /\ pc[t] = "back"
  /\ Matches(t)
  /\ claim' = ClaimBack(observed[t])
  /\ pc' = [pc EXCEPT ![t] = "copyBack"]
  /\ UNCHANGED <<phase, buffer, count, observed, want, result, bound, copies>>

\* The slots t has claimed and not yet copied.
Claimed(t) ==
  CASE pc[t] = "copyFront" -> FrontSlots(observed[t], want[t])
    [] pc[t] = "copyBack"  -> {BackSlot(observed[t])}
    [] OTHER -> {}

FaultyContents(t) ==
  IF pc[t] = "copyFront"
  THEN LET k == Take(observed[t], want[t])
       IN  [i \in 1 .. k |-> buffer[observed[t].front + k - i]]
  ELSE <<buffer[BackSlot(observed[t])]>>

\* The elements in those slots, in the order in which they are handed out.
Contents(t) ==
  IF pc[t] = "copyFront"
  THEN [i \in 1 .. Take(observed[t], want[t]) |-> buffer[observed[t].front + i - 1]]
  ELSE <<buffer[BackSlot(observed[t])]>>

Copy(t) ==
  /\ pc[t] \in {"copyFront", "copyBack"}
  /\ result' = [result EXCEPT ![t] = Contents(t)]
  /\ copies' = [i \in Slots |-> IF i \in Claimed(t) THEN copies[i] + 1 ELSE copies[i]]
  /\ pc' = [pc EXCEPT ![t] = "idle"]
  /\ observed' = [observed EXCEPT ![t] = Zero]
  /\ want' = [want EXCEPT ![t] = 0]
  /\ UNCHANGED <<phase, buffer, count, claim, bound>>

WasSize(t) ==
  /\ phase = "drain"
  /\ pc[t] = "idle"
  /\ bound' = [bound EXCEPT ![t] = SizeOf(claim)]
  /\ UNCHANGED <<phase, buffer, count, claim, pc, observed, want, result, copies>>

Quiescent == \A t \in Threads : pc[t] = "idle"

FaultyClear ==
  /\ phase = "drain"
  /\ phase' = "fill"
  /\ count' = 0
  /\ claim' = Zero
  /\ result' = [t \in Threads |-> <<>>]
  /\ bound' = [t \in Threads |-> Capacity]
  /\ copies' = [i \in Slots |-> 0]
  /\ UNCHANGED <<buffer, pc, observed, want>>

\* clear() after the barrier that ends a drain; unclaimed elements are dropped.
Clear ==
  /\ phase = "drain"
  /\ Quiescent
  /\ phase' = "fill"
  /\ count' = 0
  /\ claim' = Zero
  /\ result' = [t \in Threads |-> <<>>]
  /\ bound' = [t \in Threads |-> Capacity]
  /\ copies' = [i \in Slots |-> 0]
  /\ UNCHANGED <<buffer, pc, observed, want>>

Pop(t) ==
  \/ \E n \in BatchSizes : BeginPopFront(t, n)
  \/ BeginPopBack(t)
  \/ ExchangeFails(t)
  \/ ExchangeFront(t)
  \/ ExchangeBack(t)
  \/ Copy(t)
  \/ WasSize(t)

Next ==
  \/ \E e \in Items : PushBack(e)
  \/ StartDrain
  \/ \E t \in Threads : Pop(t)
  \/ Clear

Spec == Init /\ [][Next]_vars

-----------------------------------------------------------------------------
TypeOK ==
  /\ phase \in {"fill", "drain"}
  /\ buffer \in [Slots -> Items \cup {Junk}]
  /\ count \in 0 .. Capacity
  /\ claim \in Word
  /\ pc \in [Threads -> {"idle", "front", "back", "copyFront", "copyBack"}]
  /\ observed \in [Threads -> Word]
  /\ want \in [Threads -> Nat]
  /\ result \in [Threads -> Seq(Items \cup {Junk})]
  /\ bound \in [Threads -> 0 .. Capacity]
  /\ copies \in [Slots -> Nat]

\* No slot is claimed by two pops at once, whichever ends they work on
\* (concurrent.hpp:38-39).
ClaimsDisjoint ==
  \A t, u \in Threads : t # u => Claimed(t) \cap Claimed(u) = {}

\* Slot i lies in the part of the buffer that the word says is claimed.
InClaimedPart(i) == i < claim.front \/ (count - claim.back <= i /\ i < count)

\* Every slot the counters say is claimed was handed out exactly once, or is in
\* the hands of exactly the pop that is about to hand it out; no other slot ever
\* was.  In particular no element is delivered twice, none is lost, and a
\* buffer found empty by quiescent threads has been delivered whole.
DeliveredOnce ==
  \A i \in Slots :
    copies[i] = IF InClaimedPart(i) /\ \A t \in Threads : i \notin Claimed(t) THEN 1 ELSE 0

\* The counters never pass each other, so the 32-bit halves never carry and
\* the subtraction that gives the available elements never goes below zero.
CountersMeet == claim.front + claim.back <= count

\* Whatever size a thread was told (wasSize, or 0 by a pop that found nothing)
\* bounds what is left for the rest of the phase: a worker told "empty" may stop.
SizeIsUpperBound ==
  phase = "drain" => \A t \in Threads : Unclaimed(claim) <= bound[t]

\* "Indices only grow within a step and are reset only while quiescent"
\* (concurrent.hpp:39-40): what the absence of an ABA hazard rests on.
CountersGrow ==
  [][\/ claim'.front >= claim.front /\ claim'.back >= claim.back
     \/ Quiescent /\ phase' = "fill"]_vars

-----------------------------------------------------------------------------
(* Every pop takes effect atomically at its successful exchange: the buffer *)
(* implements WorkPool, the pool being the slots between the two counters.  *)

Pool == [i \in 1 .. Unclaimed(claim) |-> buffer[claim.front + i - 1]]
Hand == [t \in Threads |-> IF pc[t] \in {"copyFront", "copyBack"} THEN Contents(t) ELSE None]

W == INSTANCE WorkPool WITH pool <- Pool, hand <- Hand
ImplementsWorkPool == W!Spec

-----------------------------------------------------------------------------
(* Progress.  Only the threads of Live are known to keep running; any other *)
(* may stop for good at any step, inside a pop too.  A weak exchange may    *)
(* fail for no reason, but not for ever: strong fairness.                   *)

Fairness(Live) ==
  \A t \in Live :
    /\ WF_vars(Copy(t))
    /\ SF_vars(ExchangeFront(t) \/ ExchangeBack(t))
    /\ WF_vars(ExchangeFails(t) /\ claim # observed[t])
=============================================================================
