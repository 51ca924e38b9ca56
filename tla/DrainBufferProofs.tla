------------------------- MODULE DrainBufferProofs -------------------------
(***************************************************************************)
(* The safety of DrainBuffer for any number of threads, any capacity and   *)
(* any counter width above it, and that DrainBuffer implements WorkPool.   *)
(***************************************************************************)
EXTENDS DrainBuffer, SequenceTheorems, TLAPS

(* What DeliveredOnce rests on.  A pop that has claimed slots and not yet  *)
(* copied them has them inside the claimed part, its own and no other's;   *)
(* and the word it works from still had something to claim.                *)

\* Nothing is claimed, and nobody was told a size, while the buffer is filled.
FillStartsClean ==
  phase = "fill" => claim = Zero /\ \A t \in Threads : bound[t] = Capacity

\* A pop goes on only from a word that had something to claim.
ObservedNotEmpty ==
  \A t \in Threads : pc[t] # "idle" => phase = "drain" /\ ~IsEmpty(observed[t])

\* What a pop has claimed and not yet copied is behind the counters.
ClaimsCounted ==
  \A t \in Threads :
    /\ pc[t] = "copyFront" => observed[t].front + Take(observed[t], want[t]) <= claim.front
    /\ pc[t] = "copyBack" => observed[t].back + 1 <= claim.back

\* The inductive invariant.
IInv ==
  /\ TypeOK
  /\ CountersMeet
  /\ FillStartsClean
  /\ ObservedNotEmpty
  /\ ClaimsCounted
  /\ ClaimsDisjoint
  /\ DeliveredOnce
  /\ SizeIsUpperBound

-----------------------------------------------------------------------------
(* Arithmetic.                                                             *)

\* A counter below its width is not changed by wrapping.
LEMMA NoWrap ==
  ASSUME NEW n \in Nat, NEW h \in Nat, n < h
  PROVE  n % h = n
  OBVIOUS

\* A word that is not empty lets a pop take what is left and no more.
LEMMA TakeBounds ==
  ASSUME TypeOK, NEW w \in Word, NEW n \in Nat, ~IsEmpty(w)
  PROVE  /\ Take(w, n) \in Nat
         /\ w.front + Take(w, n) + w.back <= count
         /\ w.front + Take(w, n) < Half
         /\ w.back + 1 < Half
<1>1. /\ w.front \in Nat
      /\ w.back \in Nat
      /\ count \in Nat
      /\ count <= Capacity
      /\ Capacity \in Nat
      /\ Half \in Nat
      /\ Capacity < Half
  BY CapacityAssumption DEF TypeOK, Word
<1>2. w.front + w.back < count
  BY <1>1 DEF IsEmpty
<1>3. /\ Take(w, n) \in Nat
      /\ w.front + Take(w, n) + w.back <= count
  BY <1>1, <1>2 DEF Take, Unclaimed
<1>4. QED
  BY <1>1, <1>2, <1>3

\* The word after a claim at the front: the front counter moves by what is taken.
LEMMA ClaimFrontWord ==
  ASSUME TypeOK, NEW w \in Word, NEW n \in Nat, ~IsEmpty(w)
  PROVE  ClaimFront(w, n) = [front |-> w.front + Take(w, n), back |-> w.back]
<1>1. /\ w.front + Take(w, n) \in Nat
      /\ w.front + Take(w, n) < Half
  BY TakeBounds, CapacityAssumption DEF Word
<1>2. (w.front + Take(w, n)) % Half = w.front + Take(w, n)
  BY <1>1, NoWrap, CapacityAssumption
<1>3. QED
  BY <1>2 DEF ClaimFront, Word

\* The word after a claim at the back: the back counter moves by one, no carry.
LEMMA ClaimBackWord ==
  ASSUME TypeOK, NEW w \in Word, ~IsEmpty(w)
  PROVE  ClaimBack(w) = [front |-> w.front, back |-> w.back + 1]
<1>1. /\ w.back + 1 \in Nat
      /\ w.back + 1 < Half
  BY TakeBounds, CapacityAssumption DEF Word
<1>2. (w.back + 1) % Half = w.back + 1
  BY <1>1, NoWrap, CapacityAssumption
<1>3. QED
  BY <1>2 DEF ClaimBack, Word

-----------------------------------------------------------------------------
(* The initial state, then one lemma per action.                           *)

\* The invariant holds of the newly constructed buffer.
LEMMA InitIInv == Init => IInv
<1> SUFFICES ASSUME Init PROVE IInv
  OBVIOUS
<1> USE CapacityAssumption DEF Init
<1>1. TypeOK
  BY DEF TypeOK, Word, Zero, Slots
<1>2. CountersMeet /\ FillStartsClean
  BY DEF CountersMeet, FillStartsClean, Zero
<1>3. ObservedNotEmpty /\ ClaimsCounted
  BY DEF ObservedNotEmpty, ClaimsCounted
<1>4. ClaimsDisjoint
  BY DEF ClaimsDisjoint, Claimed
<1>5. DeliveredOnce
  BY DEF DeliveredOnce, InClaimedPart, Zero, Slots
<1>6. SizeIsUpperBound
  BY DEF SizeIsUpperBound
<1>7. QED
  BY <1>1, <1>2, <1>3, <1>4, <1>5, <1>6 DEF IInv

\* A push fills a slot that no claim can reach before the drain starts.
LEMMA PushBackKeeps == ASSUME IInv, NEW e \in Items, PushBack(e) PROVE IInv'
<1> USE CapacityAssumption DEF PushBack
<1>1. claim = Zero /\ claim' = Zero /\ phase' = "fill"
  BY DEF IInv, FillStartsClean
<1>2. \A t \in Threads : pc[t] = "idle"
  BY DEF IInv, ObservedNotEmpty
<1>3. TypeOK'
  <2>1. count \in Slots /\ count' \in 0 .. Capacity
    BY DEF IInv, TypeOK, Slots
  <2>2. buffer' \in [Slots -> Items \cup {Junk}]
    BY <2>1 DEF IInv, TypeOK
  <2>3. QED
    BY <2>1, <2>2 DEF IInv, TypeOK, Word
<1>4. (CountersMeet /\ FillStartsClean)'
  BY <1>1, <1>3 DEF CountersMeet, FillStartsClean, Zero, TypeOK, IInv
<1>5. (ObservedNotEmpty /\ ClaimsCounted)'
  BY <1>2 DEF ObservedNotEmpty, ClaimsCounted
<1>6. \A t \in Threads : Claimed(t) = {} /\ Claimed(t)' = {}
  BY <1>2 DEF Claimed
<1>7. ClaimsDisjoint'
  BY <1>6 DEF ClaimsDisjoint
<1>8. DeliveredOnce'
  <2>1. \A i \in Slots : ~InClaimedPart(i) /\ ~InClaimedPart(i)'
    BY <1>1 DEF InClaimedPart, Zero, Slots, IInv, TypeOK
  <2>2. QED
    BY <1>6, <2>1 DEF IInv, DeliveredOnce
<1>9. SizeIsUpperBound'
  BY <1>1 DEF SizeIsUpperBound
<1>10. QED
  BY <1>3, <1>4, <1>5, <1>7, <1>8, <1>9 DEF IInv

\* The barrier after the fill: every bound told so far is the capacity.
LEMMA StartDrainKeeps == ASSUME IInv, StartDrain PROVE IInv'
<1> USE DEF StartDrain
<1>1. \A t \in Threads : pc[t] = "idle" /\ bound[t] \in 0 .. Capacity
  BY DEF IInv, ObservedNotEmpty, TypeOK
<1>2. TypeOK'
  BY DEF IInv, TypeOK
<1>3. (CountersMeet /\ FillStartsClean /\ ObservedNotEmpty /\ ClaimsCounted)'
  BY <1>1 DEF IInv, CountersMeet, FillStartsClean, ObservedNotEmpty, ClaimsCounted
<1>4. (ClaimsDisjoint /\ DeliveredOnce)'
  BY DEF IInv, ClaimsDisjoint, DeliveredOnce, Claimed, FrontSlots, BackSlot, Take,
         Unclaimed, InClaimedPart
<1>5. SizeIsUpperBound'
  BY DEF IInv, TypeOK, SizeIsUpperBound, FillStartsClean, Unclaimed, Zero
<1>6. QED
  BY <1>2, <1>3, <1>4, <1>5 DEF IInv

\* A pop that has not exchanged yet holds no slot, so looking at the word again
\* (or for the first time), or finding it empty, disturbs no claim.
LEMMA ObserveOrLeaveKeeps ==
  ASSUME IInv, NEW t \in Threads, NEW end \in {"front", "back"}, NEW n \in Nat,
         phase = "drain", pc[t] \in {"idle", "front", "back"},
         ObserveOrLeave(t, end, n), UNCHANGED <<phase, buffer, count, claim, copies>>
  PROVE  IInv'
<1> USE CapacityAssumption
<1>1. TypeOK'
  <2>1. <<>> \in Seq(Items \cup {Junk}) /\ 0 \in 0 .. Capacity /\ Zero \in Word
    BY DEF Zero, Word
  <2>2. CASE ~IsEmpty(claim)
    <3>1. /\ pc' = [pc EXCEPT ![t] = end]
          /\ observed' = [observed EXCEPT ![t] = claim]
          /\ want' = [want EXCEPT ![t] = n]
          /\ UNCHANGED <<phase, buffer, count, claim, copies, result, bound>>
      BY <2>2 DEF ObserveOrLeave
    <3>2. QED
      BY <3>1 DEF IInv, TypeOK
  <2>3. CASE IsEmpty(claim)
    <3>1. /\ pc' = [pc EXCEPT ![t] = "idle"]
          /\ observed' = [observed EXCEPT ![t] = Zero]
          /\ want' = [want EXCEPT ![t] = 0]
          /\ result' = [result EXCEPT ![t] = <<>>]
          /\ bound' = [bound EXCEPT ![t] = 0]
      BY <2>3 DEF ObserveOrLeave
    <3>2. QED
      BY <2>1, <3>1 DEF IInv, TypeOK
  <2>4. QED
    BY <2>2, <2>3
<1>2. (CountersMeet /\ FillStartsClean)'
  BY DEF IInv, CountersMeet, FillStartsClean
<1>3. \A u \in Threads \ {t} :
        pc'[u] = pc[u] /\ observed'[u] = observed[u] /\ want'[u] = want[u]
  BY DEF IInv, TypeOK, ObserveOrLeave
<1>4. \/ pc'[t] = "idle"
      \/ pc'[t] \in {"front", "back"} /\ observed'[t] = claim /\ ~IsEmpty(claim)
  BY DEF IInv, TypeOK, ObserveOrLeave
<1>5. ObservedNotEmpty'
  BY <1>3, <1>4 DEF IInv, ObservedNotEmpty, IsEmpty
<1>6. ClaimsCounted'
  BY <1>3, <1>4 DEF IInv, ClaimsCounted, Take, Unclaimed
<1>7. \A u \in Threads : Claimed(u)' = Claimed(u)
  <2>1. Claimed(t) = {} /\ Claimed(t)' = {}
    BY <1>4 DEF Claimed
  <2>2. ASSUME NEW u \in Threads \ {t}
        PROVE  Claimed(u)' = Claimed(u)
    BY <1>3 DEF Claimed, FrontSlots, BackSlot, Take, Unclaimed
  <2>3. QED
    BY <2>1, <2>2
<1>8. ClaimsDisjoint'
  BY <1>7 DEF IInv, ClaimsDisjoint
<1>9. DeliveredOnce'
  BY <1>7 DEF IInv, DeliveredOnce, InClaimedPart
<1>10. SizeIsUpperBound'
  <2>1. IsEmpty(claim) => Unclaimed(claim) <= 0
    BY DEF IsEmpty, Unclaimed, IInv, TypeOK, Word
  <2>2. CASE ~IsEmpty(claim)
    BY <2>2 DEF IInv, SizeIsUpperBound, ObserveOrLeave, Unclaimed
  <2>3. CASE IsEmpty(claim)
    <3>1. \A u \in Threads : bound'[u] = IF u = t THEN 0 ELSE bound[u]
      BY <2>3 DEF ObserveOrLeave, IInv, TypeOK
    <3>2. Unclaimed(claim)' = Unclaimed(claim)
      BY DEF Unclaimed
    <3>3. QED
      BY <2>1, <2>3, <3>1, <3>2 DEF IInv, SizeIsUpperBound
  <2>4. QED
    BY <2>2, <2>3
<1>11. QED
  BY <1>1, <1>2, <1>5, <1>6, <1>8, <1>9, <1>10 DEF IInv

\* What a pop holds lies in the claimed part of the buffer.
LEMMA ClaimedInPart ==
  ASSUME IInv, NEW t \in Threads, NEW i \in Claimed(t)
  PROVE  i \in Slots /\ InClaimedPart(i)
<1>1. /\ observed[t] \in Word /\ want[t] \in Nat /\ claim \in Word
      /\ count \in Nat /\ count <= Capacity /\ Capacity \in Nat
      /\ claim.front + claim.back <= count
  BY CapacityAssumption DEF IInv, TypeOK, CountersMeet
<1>2. pc[t] # "idle" /\ ~IsEmpty(observed[t])
  BY DEF Claimed, IInv, ObservedNotEmpty
<1>3. CASE pc[t] = "copyFront"
  <2>1. i \in FrontSlots(observed[t], want[t])
    BY <1>3 DEF Claimed
  <2>2. observed[t].front + Take(observed[t], want[t]) <= claim.front
    BY <1>3 DEF IInv, ClaimsCounted
  <2>3. Take(observed[t], want[t]) \in Nat
    BY <1>1, <1>2, TakeBounds DEF IInv
  <2>4. QED
    BY <1>1, <2>1, <2>2, <2>3 DEF FrontSlots, Slots, InClaimedPart, Word
<1>4. CASE pc[t] = "copyBack"
  <2>1. i = BackSlot(observed[t])
    BY <1>4 DEF Claimed
  <2>2. observed[t].back + 1 <= claim.back
    BY <1>4 DEF IInv, ClaimsCounted
  <2>3. observed[t].front + observed[t].back < count
    BY <1>1, <1>2 DEF IsEmpty, Word
  <2>4. QED
    BY <1>1, <2>1, <2>2, <2>3 DEF BackSlot, Slots, InClaimedPart, Word
<1>5. QED
  BY <1>3, <1>4 DEF Claimed

\* An exchange at t turns a run New of unclaimed slots into t's, and moves the
\* counters over exactly that run.
LEMMA ExchangeKeeps ==
  ASSUME IInv, NEW t \in Threads, NEW New \in SUBSET Slots,
         phase' = phase, buffer' = buffer, count' = count, copies' = copies,
         bound' = bound,
         \A u \in Threads \ {t} : Claimed(u)' = Claimed(u),
         Claimed(t) = {}, Claimed(t)' = New,
         \A i \in New : ~InClaimedPart(i),
         \A i \in Slots : InClaimedPart(i)' <=> InClaimedPart(i) \/ i \in New
  PROVE  (ClaimsDisjoint /\ DeliveredOnce)'
<1>1. \A u \in Threads : \A i \in Claimed(u) : InClaimedPart(i)
  BY ClaimedInPart
<1>2. ClaimsDisjoint'
  BY <1>1 DEF IInv, ClaimsDisjoint
<1>3. DeliveredOnce'
  <2> SUFFICES ASSUME NEW i \in Slots
               PROVE  copies[i] = IF InClaimedPart(i)' /\ \A u \in Threads : i \notin Claimed(u)'
                                  THEN 1 ELSE 0
    BY DEF DeliveredOnce
  <2>1. CASE i \in New
    BY <2>1 DEF IInv, DeliveredOnce
  <2>2. CASE i \notin New
    BY <2>2 DEF IInv, DeliveredOnce
  <2>3. QED
    BY <2>1, <2>2
<1>4. QED
  BY <1>2, <1>3

\* A front claim takes the run of slots right after the front counter.
LEMMA ExchangeFrontKeeps ==
  ASSUME IInv, NEW t \in Threads, ExchangeFront(t)
  PROVE  IInv'
<1> USE CapacityAssumption
<1> DEFINE k == Take(claim, want[t])
<1>1. /\ phase = "drain" /\ ~IsEmpty(claim) /\ observed[t] = claim
      /\ claim \in Word /\ want[t] \in Nat /\ pc[t] = "front"
      /\ count \in Nat /\ count <= Capacity /\ Half \in Nat
  BY DEF IInv, TypeOK, ObservedNotEmpty, ExchangeFront, Matches
<1>2. /\ k \in Nat /\ claim.front + k + claim.back <= count
      /\ claim.front + k < Half
  BY <1>1, TakeBounds DEF IInv
<1>3. claim' = [front |-> claim.front + k, back |-> claim.back]
  BY <1>1, ClaimFrontWord DEF IInv, ExchangeFront
<1>4. pc' = [pc EXCEPT ![t] = "copyFront"] /\ pc'[t] = "copyFront"
  BY DEF ExchangeFront, IInv, TypeOK
<1>5. TypeOK'
  <2>1. claim' \in Word
    BY <1>1, <1>2, <1>3 DEF Word
  <2>2. QED
    BY <1>4, <2>1 DEF IInv, TypeOK, ExchangeFront
<1>6. (CountersMeet /\ FillStartsClean)'
  BY <1>1, <1>2, <1>3 DEF CountersMeet, FillStartsClean, ExchangeFront, Word
<1>7. ObservedNotEmpty'
  BY <1>1, <1>4 DEF IInv, ObservedNotEmpty, IsEmpty, ExchangeFront
<1>8. ClaimsCounted'
  <2>1. claim.front <= claim'.front /\ claim'.back = claim.back
    BY <1>1, <1>2, <1>3 DEF Word
  <2>2. ASSUME NEW u \in Threads, u # t
        PROVE  /\ pc'[u] = "copyFront" => observed'[u].front + Take(observed[u], want[u])' <= claim'.front
               /\ pc'[u] = "copyBack" => observed'[u].back + 1 <= claim'.back
    <3>1. pc'[u] = pc[u] /\ observed' = observed /\ want' = want /\ count' = count
      BY <1>4, <2>2 DEF ExchangeFront
    <3>2. observed[u] \in Word /\ want[u] \in Nat
      BY DEF IInv, TypeOK
    <3>3. pc[u] = "copyFront" => Take(observed[u], want[u]) \in Nat
      BY <3>2, TakeBounds DEF IInv, ObservedNotEmpty
    <3>4. Take(observed[u], want[u])' = Take(observed[u], want[u])
      BY <3>1 DEF Take, Unclaimed
    <3>5. QED
      BY <1>1, <1>2, <1>3, <2>1, <3>1, <3>2, <3>3, <3>4 DEF IInv, ClaimsCounted, Word
  <2>3. Take(observed[t], want[t])' = k
    BY <1>1 DEF ExchangeFront, Take, Unclaimed
  <2>4. observed'[t].front = claim.front
    BY <1>1 DEF ExchangeFront
  <2>5. (observed[t].front + Take(observed[t], want[t]))' <= claim'.front
    BY <1>1, <1>2, <1>3, <2>3, <2>4 DEF Word
  <2>6. QED
    BY <1>4, <2>2, <2>5 DEF ClaimsCounted
<1>9. (ClaimsDisjoint /\ DeliveredOnce)'
  <2> DEFINE New == FrontSlots(claim, want[t])
  <2>1. \A u \in Threads \ {t} : Claimed(u)' = Claimed(u)
    BY <1>4 DEF ExchangeFront, Claimed, FrontSlots, BackSlot, Take, Unclaimed
  <2>2. Claimed(t) = {} /\ Claimed(t)' = New
    BY <1>1, <1>4 DEF ExchangeFront, Claimed, FrontSlots, Take, Unclaimed
  <2>3. New = claim.front .. (claim.front + k - 1)
    BY DEF FrontSlots
  <2>4. New \subseteq Slots /\ \A i \in New : ~InClaimedPart(i)
    <3>1. claim.front \in Nat /\ claim.back \in Nat
      BY <1>1 DEF Word
    <3>2. ASSUME NEW i \in New
          PROVE  i \in Slots /\ ~InClaimedPart(i)
      <4>1. i \in Int /\ claim.front <= i /\ i < claim.front + k
        BY <1>2, <2>3, <3>1
      <4>2. i < count - claim.back
        BY <1>1, <1>2, <3>1, <4>1
      <4>3. QED
        BY <1>1, <3>1, <4>1, <4>2 DEF Slots, InClaimedPart
    <3>3. QED
      BY <3>2
  <2>5. \A i \in Slots : InClaimedPart(i)' <=> InClaimedPart(i) \/ i \in New
    <3>1. count' = count
      BY DEF ExchangeFront
    <3>2. claim.front \in Nat /\ claim.back \in Nat
      BY <1>1 DEF Word
    <3>3. claim'.front = claim.front + k /\ claim'.back = claim.back
      BY <1>3
    <3>4. ASSUME NEW i \in Slots
          PROVE  /\ InClaimedPart(i)' <=> i < claim.front + k \/ (count - claim.back <= i /\ i < count)
                 /\ i \in New <=> claim.front <= i /\ i < claim.front + k
                 /\ i \in Int
      BY <1>2, <2>3, <3>1, <3>2, <3>3 DEF Slots, InClaimedPart
    <3>5. QED
      BY <1>2, <3>2, <3>4 DEF InClaimedPart
  <2>6. /\ phase' = phase /\ buffer' = buffer /\ count' = count
        /\ copies' = copies /\ bound' = bound
    BY DEF ExchangeFront
  <2> HIDE DEF New
  <2>7. QED
    BY <2>1, <2>2, <2>4, <2>5, <2>6, ExchangeKeeps
<1>10. SizeIsUpperBound'
  <2>1. Unclaimed(claim)' <= Unclaimed(claim)
    BY <1>1, <1>2, <1>3 DEF Unclaimed, ExchangeFront, Word
  <2>2. Unclaimed(claim)' \in Int /\ Unclaimed(claim) \in Int
    BY <1>1, <1>2, <1>3 DEF Unclaimed, ExchangeFront, Word
  <2>3. bound' = bound /\ \A u \in Threads : bound[u] \in Int
    BY DEF ExchangeFront, IInv, TypeOK
  <2>4. QED
    BY <1>1, <2>1, <2>2, <2>3 DEF IInv, SizeIsUpperBound
<1>11. QED
  BY <1>5, <1>6, <1>7, <1>8, <1>9, <1>10 DEF IInv

\* A back claim takes the one slot right before the back counter.
LEMMA ExchangeBackKeeps ==
  ASSUME IInv, NEW t \in Threads, ExchangeBack(t)
  PROVE  IInv'
<1> USE CapacityAssumption
<1>1. /\ phase = "drain" /\ ~IsEmpty(claim) /\ observed[t] = claim
      /\ claim \in Word /\ pc[t] = "back"
      /\ count \in Nat /\ count <= Capacity /\ Half \in Nat
  BY DEF IInv, TypeOK, ObservedNotEmpty, ExchangeBack, Matches
<1>2. claim.front + claim.back < count
  BY <1>1 DEF IsEmpty, Word
<1>3. claim' = [front |-> claim.front, back |-> claim.back + 1]
  BY <1>1, ClaimBackWord DEF IInv, ExchangeBack
<1>4. pc' = [pc EXCEPT ![t] = "copyBack"] /\ pc'[t] = "copyBack"
  BY DEF ExchangeBack, IInv, TypeOK
<1>5. TypeOK'
  <2>1. claim' \in Word
    BY <1>1, <1>2, <1>3 DEF Word
  <2>2. QED
    BY <1>4, <2>1 DEF IInv, TypeOK, ExchangeBack
<1>6. (CountersMeet /\ FillStartsClean)'
  BY <1>1, <1>2, <1>3 DEF CountersMeet, FillStartsClean, ExchangeBack, Word
<1>7. ObservedNotEmpty'
  BY <1>1, <1>4 DEF IInv, ObservedNotEmpty, IsEmpty, ExchangeBack
<1>8. ClaimsCounted'
  <2>1. claim.back <= claim'.back /\ claim'.front = claim.front /\ claim'.back = claim.back + 1
    BY <1>1, <1>3 DEF Word
  <2>2. ASSUME NEW u \in Threads, u # t
        PROVE  /\ pc'[u] = "copyFront" => (observed[u].front + Take(observed[u], want[u]))' <= claim'.front
               /\ pc'[u] = "copyBack" => observed'[u].back + 1 <= claim'.back
    <3>1. pc'[u] = pc[u] /\ observed' = observed /\ want' = want /\ count' = count
      BY <1>4, <2>2 DEF ExchangeBack
    <3>2. observed[u] \in Word
      BY DEF IInv, TypeOK
    <3>3. Take(observed[u], want[u])' = Take(observed[u], want[u])
      BY <3>1 DEF Take, Unclaimed
    <3>4. QED
      BY <1>1, <2>1, <3>1, <3>2, <3>3 DEF IInv, ClaimsCounted, Word
  <2>3. observed'[t].back + 1 <= claim'.back
    BY <1>1, <2>1 DEF ExchangeBack, Word
  <2>4. QED
    BY <1>4, <2>2, <2>3 DEF ClaimsCounted
<1>9. (ClaimsDisjoint /\ DeliveredOnce)'
  <2> DEFINE New == {BackSlot(claim)}
  <2>1. \A u \in Threads \ {t} : Claimed(u)' = Claimed(u)
    BY <1>4 DEF ExchangeBack, Claimed, FrontSlots, BackSlot, Take, Unclaimed
  <2>2. Claimed(t) = {} /\ Claimed(t)' = New
    BY <1>1, <1>4 DEF ExchangeBack, Claimed, BackSlot
  <2>3. BackSlot(claim) = count - 1 - claim.back
    BY DEF BackSlot
  <2>4. BackSlot(claim) \in Slots /\ ~InClaimedPart(BackSlot(claim))
    BY <1>1, <1>2, <2>3 DEF Slots, InClaimedPart, Word
  <2>5. ASSUME NEW i \in Slots
        PROVE  InClaimedPart(i)' <=> InClaimedPart(i) \/ i = BackSlot(claim)
    <3>1. count' = count
      BY DEF ExchangeBack
    <3>2. QED
      BY <1>1, <1>2, <1>3, <2>3, <3>1 DEF Slots, InClaimedPart, Word
  <2>6. /\ phase' = phase /\ buffer' = buffer /\ count' = count
        /\ copies' = copies /\ bound' = bound
    BY DEF ExchangeBack
  <2>7. /\ New \in SUBSET Slots
        /\ \A i \in New : ~InClaimedPart(i)
        /\ \A i \in Slots : InClaimedPart(i)' <=> InClaimedPart(i) \/ i \in New
    BY <2>4, <2>5
  <2> HIDE DEF New
  <2>8. QED
    BY <2>1, <2>2, <2>6, <2>7, ExchangeKeeps
<1>10. SizeIsUpperBound'
  <2>1. Unclaimed(claim)' = Unclaimed(claim) - 1 /\ Unclaimed(claim) \in Int
    BY <1>1, <1>3 DEF Unclaimed, ExchangeBack, Word
  <2>2. bound' = bound /\ \A u \in Threads : bound[u] \in Int
    BY DEF ExchangeBack, IInv, TypeOK
  <2>3. QED
    BY <1>1, <2>1, <2>2 DEF IInv, SizeIsUpperBound
<1>11. QED
  BY <1>5, <1>6, <1>7, <1>8, <1>9, <1>10 DEF IInv

\* What a pop hands out is a sequence of what the buffer holds.
LEMMA ContentsAreASeq ==
  ASSUME IInv, NEW t \in Threads, pc[t] \in {"copyFront", "copyBack"}
  PROVE  Contents(t) \in Seq(Items \cup {Junk})
<1> USE CapacityAssumption
<1>1. \A i \in Slots : buffer[i] \in Items \cup {Junk}
  BY DEF IInv, TypeOK
<1>2. CASE pc[t] = "copyFront"
  <2> DEFINE k == Take(observed[t], want[t])
             f == observed[t].front
  <2>1. f \in Nat /\ k \in Nat
    <3>1. TypeOK /\ observed[t] \in Word /\ want[t] \in Nat
      BY DEF IInv, TypeOK
    <3>2. ~IsEmpty(observed[t])
      BY <1>2 DEF IInv, ObservedNotEmpty
    <3>3. Take(observed[t], want[t]) \in Nat
      BY <3>1, <3>2, TakeBounds
    <3>4. observed[t].front \in Nat
      BY <3>1 DEF Word
    <3>5. QED
      BY <3>3, <3>4
  <2>2. Claimed(t) = f .. (f + k - 1)
    BY <1>2 DEF Claimed, FrontSlots
  <2>3. \A i \in 1 .. k : f + i - 1 \in Claimed(t)
    BY <2>1, <2>2
  <2>4. \A i \in 1 .. k : buffer[f + i - 1] \in Items \cup {Junk}
    BY <1>1, <2>3, ClaimedInPart
  <2>5. Contents(t) = [i \in 1 .. k |-> buffer[f + i - 1]]
    BY <1>2 DEF Contents
  <2> HIDE DEF k, f
  <2>6. QED
    BY <2>1, <2>4, <2>5
<1>3. CASE pc[t] = "copyBack"
  <2>1. Contents(t) = <<buffer[BackSlot(observed[t])]>>
    BY <1>3 DEF Contents
  <2>2. BackSlot(observed[t]) \in Slots
    BY <1>3, ClaimedInPart DEF Claimed
  <2>3. QED
    BY <1>1, <2>1, <2>2
<1>4. QED
  BY <1>2, <1>3

\* The copy hands out exactly the slots its pop holds, and lets go of them.
LEMMA CopyKeeps ==
  ASSUME IInv, NEW t \in Threads, Copy(t)
  PROVE  IInv'
<1> USE CapacityAssumption
<1>1. /\ pc' = [pc EXCEPT ![t] = "idle"] /\ pc'[t] = "idle"
      /\ UNCHANGED <<phase, buffer, count, claim, bound>>
      /\ \A u \in Threads \ {t} :
           pc'[u] = pc[u] /\ observed'[u] = observed[u] /\ want'[u] = want[u]
  BY DEF Copy, IInv, TypeOK
<1>2. \A u \in Threads \ {t} : Claimed(u)' = Claimed(u)
  BY <1>1 DEF Claimed, FrontSlots, BackSlot, Take, Unclaimed
<1>3. Claimed(t)' = {}
  BY <1>1 DEF Claimed
<1>4. Contents(t) \in Seq(Items \cup {Junk})
  BY ContentsAreASeq DEF Copy
<1>5. TypeOK'
  <2>1. Zero \in Word /\ 0 \in Nat
    BY DEF Zero, Word
  <2>2. copies' \in [Slots -> Nat]
    BY DEF Copy, IInv, TypeOK
  <2>3. result' \in [Threads -> Seq(Items \cup {Junk})]
    BY <1>4 DEF Copy, IInv, TypeOK
  <2>4. observed' \in [Threads -> Word] /\ want' \in [Threads -> Nat]
    BY <2>1 DEF Copy, IInv, TypeOK
  <2>5. QED
    BY <1>1, <2>2, <2>3, <2>4 DEF IInv, TypeOK
<1>6. (CountersMeet /\ FillStartsClean)'
  BY <1>1 DEF IInv, CountersMeet, FillStartsClean
<1>7. (ObservedNotEmpty /\ ClaimsCounted)'
  BY <1>1 DEF IInv, ObservedNotEmpty, ClaimsCounted, IsEmpty, Take, Unclaimed
<1>8. ClaimsDisjoint'
  BY <1>2, <1>3 DEF IInv, ClaimsDisjoint
<1>9. DeliveredOnce'
  <2> SUFFICES ASSUME NEW i \in Slots
               PROVE  copies'[i] = IF InClaimedPart(i) /\ \A u \in Threads : i \notin Claimed(u)'
                                   THEN 1 ELSE 0
    BY <1>1 DEF DeliveredOnce, InClaimedPart
  <2>1. copies'[i] = IF i \in Claimed(t) THEN copies[i] + 1 ELSE copies[i]
    BY DEF Copy
  <2>2. CASE i \in Claimed(t)
    <3>1. InClaimedPart(i) /\ copies[i] = 0
      BY <2>2, ClaimedInPart DEF IInv, DeliveredOnce
    <3>2. \A u \in Threads : i \notin Claimed(u)'
      BY <1>2, <1>3, <2>2 DEF IInv, ClaimsDisjoint
    <3>3. QED
      BY <2>1, <2>2, <3>1, <3>2
  <2>3. CASE i \notin Claimed(t)
    BY <1>2, <1>3, <2>1, <2>3 DEF IInv, DeliveredOnce
  <2>4. QED
    BY <2>2, <2>3
<1>10. SizeIsUpperBound'
  BY <1>1 DEF IInv, SizeIsUpperBound, Unclaimed
<1>11. QED
  BY <1>5, <1>6, <1>7, <1>8, <1>9, <1>10 DEF IInv

\* wasSize() tells the unclaimed elements of the word it loads.
LEMMA WasSizeKeeps ==
  ASSUME IInv, NEW t \in Threads, WasSize(t)
  PROVE  IInv'
<1> USE CapacityAssumption
<1>1. /\ UNCHANGED <<phase, buffer, count, claim, pc, observed, want, result, copies>>
      /\ phase = "drain"
      /\ \A u \in Threads : bound'[u] = IF u = t THEN SizeOf(claim) ELSE bound[u]
  BY DEF WasSize, IInv, TypeOK
<1>2. /\ claim \in Word /\ count \in Nat /\ count <= Capacity
      /\ claim.front + claim.back <= count
  BY DEF IInv, TypeOK, CountersMeet
<1>3. SizeOf(claim) \in 0 .. Capacity /\ Unclaimed(claim) <= SizeOf(claim)
  BY <1>2 DEF SizeOf, Unclaimed, Word
<1>4. TypeOK'
  BY <1>1, <1>3 DEF WasSize, IInv, TypeOK
<1>5. (CountersMeet /\ FillStartsClean /\ ObservedNotEmpty /\ ClaimsCounted)'
  BY <1>1 DEF IInv, CountersMeet, FillStartsClean, ObservedNotEmpty, ClaimsCounted,
              IsEmpty, Take, Unclaimed
<1>6. \A u \in Threads : Claimed(u)' = Claimed(u)
  BY <1>1 DEF Claimed, FrontSlots, BackSlot, Take, Unclaimed
<1>7. (ClaimsDisjoint /\ DeliveredOnce)'
  BY <1>1, <1>6 DEF IInv, ClaimsDisjoint, DeliveredOnce, InClaimedPart
<1>8. SizeIsUpperBound'
  <2>1. Unclaimed(claim)' = Unclaimed(claim)
    BY <1>1 DEF Unclaimed
  <2>2. QED
    BY <1>1, <1>3, <2>1 DEF IInv, SizeIsUpperBound
<1>9. QED
  BY <1>4, <1>5, <1>7, <1>8 DEF IInv

\* clear() resets counters and counts while nobody holds a slot.
LEMMA ClearKeeps == ASSUME IInv, Clear PROVE IInv'
<1> USE CapacityAssumption DEF Clear
<1>1. \A t \in Threads : pc'[t] = "idle"
  BY DEF Quiescent
<1>2. TypeOK'
  <2>1. Zero \in Word
    BY DEF Zero, Word
  <2>2. QED
    BY <2>1 DEF IInv, TypeOK
<1>3. (CountersMeet /\ FillStartsClean)'
  BY DEF CountersMeet, FillStartsClean, Zero
<1>4. (ObservedNotEmpty /\ ClaimsCounted)'
  BY <1>1 DEF ObservedNotEmpty, ClaimsCounted
<1>5. \A t \in Threads : Claimed(t)' = {}
  BY <1>1 DEF Claimed
<1>6. ClaimsDisjoint'
  BY <1>5 DEF ClaimsDisjoint
<1>7. DeliveredOnce'
  <2>1. \A i \in Slots : ~InClaimedPart(i)'
    BY DEF InClaimedPart, Zero, Slots
  <2>2. QED
    BY <2>1 DEF DeliveredOnce
<1>8. SizeIsUpperBound'
  BY DEF SizeIsUpperBound
<1>9. QED
  BY <1>2, <1>3, <1>4, <1>6, <1>7, <1>8 DEF IInv

\* A step that changes nothing.
LEMMA StutterKeeps == ASSUME IInv, UNCHANGED vars PROVE IInv'
<1>1. \A t \in Threads : Claimed(t)' = Claimed(t)
  BY DEF vars, Claimed, FrontSlots, BackSlot, Take, Unclaimed
<1>2. (TypeOK /\ CountersMeet /\ FillStartsClean)'
  BY DEF vars, IInv, TypeOK, CountersMeet, FillStartsClean
<1>3. (ObservedNotEmpty /\ ClaimsCounted /\ SizeIsUpperBound)'
  BY DEF vars, IInv, ObservedNotEmpty, ClaimsCounted, SizeIsUpperBound, IsEmpty, Take,
         Unclaimed
<1>4. (ClaimsDisjoint /\ DeliveredOnce)'
  BY <1>1 DEF vars, IInv, ClaimsDisjoint, DeliveredOnce, InClaimedPart
<1>5. QED
  BY <1>2, <1>3, <1>4 DEF IInv

\* Every step of the specification keeps the invariant: one case per action.
LEMMA NextKeepsIInv == IInv /\ [Next]_vars => IInv'
<1> SUFFICES ASSUME IInv, [Next]_vars PROVE IInv'
  OBVIOUS
<1>1. ASSUME NEW e \in Items, PushBack(e) PROVE IInv'
  BY <1>1, PushBackKeeps
<1>2. CASE StartDrain
  BY <1>2, StartDrainKeeps
<1>3. ASSUME NEW t \in Threads, Pop(t) PROVE IInv'
  <2>1. ASSUME NEW n \in BatchSizes, BeginPopFront(t, n) PROVE IInv'
    BY <2>1, ObserveOrLeaveKeeps, BatchAssumption DEF BeginPopFront
  <2>2. CASE BeginPopBack(t)
    BY <2>2, ObserveOrLeaveKeeps DEF BeginPopBack
  <2>3. CASE ExchangeFails(t)
    <3>1. phase = "drain" /\ want[t] \in Nat
      BY <2>3 DEF ExchangeFails, IInv, ObservedNotEmpty, TypeOK
    <3>2. QED
      BY <2>3, <3>1, ObserveOrLeaveKeeps DEF ExchangeFails
  <2>4. CASE ExchangeFront(t)
    BY <2>4, ExchangeFrontKeeps
  <2>5. CASE ExchangeBack(t)
    BY <2>5, ExchangeBackKeeps
  <2>6. CASE Copy(t)
    BY <2>6, CopyKeeps
  <2>7. CASE WasSize(t)
    BY <2>7, WasSizeKeeps
  <2>8. QED
    BY <1>3, <2>1, <2>2, <2>3, <2>4, <2>5, <2>6, <2>7 DEF Pop
<1>4. CASE Clear
  BY <1>4, ClearKeeps
<1>5. CASE UNCHANGED vars
  BY <1>5, StutterKeeps
<1>6. QED
  BY <1>1, <1>2, <1>3, <1>4, <1>5 DEF Next

-----------------------------------------------------------------------------
\* The strengthened invariant holds in every reachable state.
LEMMA Inductive == Spec => []IInv
  BY InitIInv, NextKeepsIInv, PTL DEF Spec

\* Types: the counters stay in their width, every index stays in the buffer.
THEOREM TypeCorrect == Spec => []TypeOK
<1>1. IInv => TypeOK
  BY DEF IInv
<1>2. QED
  BY <1>1, Inductive, PTL

\* No two pops hold the same slot, for any number of threads.
THEOREM NoSharedClaim == Spec => []ClaimsDisjoint
<1>1. IInv => ClaimsDisjoint
  BY DEF IInv
<1>2. QED
  BY <1>1, Inductive, PTL

\* Every claimed slot is handed out exactly once and no other ever is.
THEOREM ExactlyOnce == Spec => []DeliveredOnce
<1>1. IInv => DeliveredOnce
  BY DEF IInv
<1>2. QED
  BY <1>1, Inductive, PTL

\* The counters never pass each other, as long as the capacity is below 2^32.
THEOREM CountersNeverPass == Spec => []CountersMeet
<1>1. IInv => CountersMeet
  BY DEF IInv
<1>2. QED
  BY <1>1, Inductive, PTL

\* What a thread was told of the size stays an upper bound for the phase.
THEOREM SizeToldIsBound == Spec => []SizeIsUpperBound
<1>1. IInv => SizeIsUpperBound
  BY DEF IInv
<1>2. QED
  BY <1>1, Inductive, PTL

\* The counters only grow, but for the reset between two phases.
THEOREM CountersOnlyGrow == Spec => CountersGrow
<1> DEFINE Grow == claim'.front >= claim.front /\ claim'.back >= claim.back
           Restart == Quiescent /\ phase' = "fill"
<1>1. ASSUME IInv, Next PROVE Grow \/ Restart
  <2>1. claim \in Word /\ claim.front \in Nat /\ claim.back \in Nat
    BY <1>1, CapacityAssumption DEF IInv, TypeOK, Word
  <2>2. ASSUME claim' = claim PROVE Grow
    BY <2>1, <2>2
  <2>3. ASSUME NEW t \in Threads, ExchangeFront(t) PROVE Grow
    <3>1. ~IsEmpty(claim) /\ observed[t] = claim /\ want[t] \in Nat
      BY <1>1, <2>3 DEF ExchangeFront, Matches, IInv, ObservedNotEmpty, TypeOK
    <3>2. claim' = [front |-> claim.front + Take(claim, want[t]), back |-> claim.back]
      BY <1>1, <2>1, <2>3, <3>1, ClaimFrontWord DEF ExchangeFront, IInv
    <3>3. Take(claim, want[t]) \in Nat
      BY <1>1, <2>1, <3>1, TakeBounds DEF IInv
    <3>4. QED
      BY <2>1, <3>2, <3>3
  <2>4. ASSUME NEW t \in Threads, ExchangeBack(t) PROVE Grow
    <3>1. ~IsEmpty(claim) /\ observed[t] = claim
      BY <1>1, <2>4 DEF ExchangeBack, Matches, IInv, ObservedNotEmpty
    <3>2. claim' = [front |-> claim.front, back |-> claim.back + 1]
      BY <1>1, <2>1, <2>4, <3>1, ClaimBackWord DEF ExchangeBack, IInv
    <3>3. QED
      BY <2>1, <3>2
  <2>5. ASSUME Clear PROVE Restart
    BY <2>5 DEF Clear
  <2>6. CASE \E e \in Items : PushBack(e)
    BY <2>2, <2>6 DEF PushBack
  <2>7. CASE StartDrain
    BY <2>2, <2>7 DEF StartDrain
  <2>8. ASSUME NEW t \in Threads, Pop(t) PROVE Grow
    <3>1. \/ claim' = claim
          \/ ExchangeFront(t)
          \/ ExchangeBack(t)
      BY <2>8 DEF Pop, BeginPopFront, BeginPopBack, ExchangeFails, Copy, WasSize
    <3> HIDE DEF Grow
    <3>2. QED
      BY <2>2, <2>3, <2>4, <3>1
  <2> HIDE DEF Grow, Restart
  <2>9. QED
    BY <1>1, <2>5, <2>6, <2>7, <2>8 DEF Next
<1>2. IInv /\ [Next]_vars => [Grow \/ Restart]_vars
  BY <1>1
<1>3. QED
  BY <1>2, Inductive, PTL DEF Spec, CountersGrow

-----------------------------------------------------------------------------
(* The refinement of WorkPool.  A pop takes effect at its exchange; what it *)
(* takes is a run of the buffer, which nobody changes until it is copied.   *)

\* The run of k slots from slot f on.
Slice(f, k) == [i \in 1 .. k |-> buffer[f + i - 1]]

\* A front pop goes on with the maxCount of its call.
WantIsABatch == \A t \in Threads : pc[t] = "front" => want[t] \in BatchSizes

Copying(t) == pc[t] \in {"copyFront", "copyBack"}

\* A run of the buffer is a sequence, and cut at j it is two runs.
LEMMA SliceProperties ==
  ASSUME TypeOK, NEW f \in Nat, NEW k \in Nat, f + k <= Capacity
  PROVE  /\ Slice(f, k) \in Seq(Items \cup {Junk})
         /\ Len(Slice(f, k)) = k
         /\ \A i \in 1 .. k : Slice(f, k)[i] = buffer[f + i - 1]
<1>1. \A i \in 1 .. k : f + i - 1 \in Slots
  BY CapacityAssumption DEF Slots
<1>2. \A i \in 1 .. k : buffer[f + i - 1] \in Items \cup {Junk}
  BY <1>1 DEF TypeOK
<1> QED
  BY <1>2 DEF Slice

\* A slice cut in two is two slices: what a claim takes and what it leaves.
LEMMA SliceCut ==
  ASSUME TypeOK, NEW f \in Nat, NEW k \in Nat, f + k <= Capacity, NEW j \in 0 .. k
  PROVE  /\ SubSeq(Slice(f, k), 1, j) = Slice(f, j)
         /\ SubSeq(Slice(f, k), j + 1, k) = Slice(f + j, k - j)
<1> DEFINE S == Items \cup {Junk}
           s == Slice(f, k)
<1>1. /\ s \in Seq(S) /\ Len(s) = k
      /\ \A i \in 1 .. k : s[i] = buffer[f + i - 1]
      /\ \A i \in 1 .. k : s[i] \in S
  BY SliceProperties, ElementOfSeq
<1>2. /\ Slice(f, j) \in Seq(S) /\ Len(Slice(f, j)) = j
      /\ \A i \in 1 .. j : Slice(f, j)[i] = buffer[f + i - 1]
  BY CapacityAssumption, SliceProperties
<1>3. /\ f + j \in Nat /\ k - j \in Nat
      /\ Slice(f + j, k - j) \in Seq(S) /\ Len(Slice(f + j, k - j)) = k - j
      /\ \A i \in 1 .. k - j : Slice(f + j, k - j)[i] = buffer[(f + j) + i - 1]
  <2>1. f + j \in Nat /\ k - j \in Nat /\ (f + j) + (k - j) <= Capacity
    BY CapacityAssumption
  <2> QED
    BY <2>1, SliceProperties
<1> HIDE DEF S, s
<1>4. /\ SubSeq(s, 1, j) \in Seq(S)
      /\ Len(SubSeq(s, 1, j)) = j
      /\ \A i \in 1 .. j : SubSeq(s, 1, j)[i] = s[i]
  <2>1. \A i \in 1 .. j : s[i] \in S
    BY <1>1
  <2>2. /\ SubSeq(s, 1, j) \in Seq(S)
        /\ Len(SubSeq(s, 1, j)) = IF 1 <= j THEN j - 1 + 1 ELSE 0
        /\ \A i \in 1 .. j - 1 + 1 : SubSeq(s, 1, j)[i] = s[1 + i - 1]
    BY <2>1, SubSeqProperties
  <2> QED
    BY <2>2
<1>5. /\ SubSeq(s, j + 1, k) \in Seq(S)
      /\ Len(SubSeq(s, j + 1, k)) = k - j
      /\ \A i \in 1 .. k - j : SubSeq(s, j + 1, k)[i] = s[j + i]
  <2>1. \A i \in j + 1 .. k : s[i] \in S
    BY <1>1
  <2>2. /\ SubSeq(s, j + 1, k) \in Seq(S)
        /\ Len(SubSeq(s, j + 1, k)) = IF j + 1 <= k THEN k - (j + 1) + 1 ELSE 0
        /\ \A i \in 1 .. k - (j + 1) + 1 : SubSeq(s, j + 1, k)[i] = s[(j + 1) + i - 1]
    BY <2>1, SubSeqProperties
  <2>3. /\ k - (j + 1) + 1 = k - j
        /\ (IF j + 1 <= k THEN k - (j + 1) + 1 ELSE 0) = k - j
        /\ \A i \in 1 .. k - j : (j + 1) + i - 1 = j + i
    OBVIOUS
  <2> QED
    BY <2>2, <2>3
<1>6. SubSeq(s, 1, j) = Slice(f, j)
  <2>1. \A i \in 1 .. j : SubSeq(s, 1, j)[i] = Slice(f, j)[i]
    BY <1>1, <1>2, <1>4
  <2> QED
    BY <1>2, <1>4, <2>1, SeqEqual
<1>7. SubSeq(s, j + 1, k) = Slice(f + j, k - j)
  <2>1. \A i \in 1 .. k - j : SubSeq(s, j + 1, k)[i] = Slice(f + j, k - j)[i]
    <3> TAKE i \in 1 .. k - j
    <3>1. j + i \in 1 .. k /\ f + (j + i) - 1 = (f + j) + i - 1
      OBVIOUS
    <3> QED
      BY <1>1, <1>3, <1>5, <3>1, ZenonT(30)
  <2> QED
    BY <1>3, <1>5, <2>1, SeqEqual
<1> QED
  BY <1>6, <1>7 DEF s

\* The pool is the run between the counters, what a hand holds the run claimed.
LEMMA PoolIs ==
  ASSUME TypeOK, CountersMeet
  PROVE  /\ claim.front \in Nat /\ claim.back \in Nat /\ count \in Nat /\ Unclaimed(claim) \in Nat
         /\ claim.front + Unclaimed(claim) = count - claim.back /\ count <= Capacity
         /\ Pool = Slice(claim.front, Unclaimed(claim))
         /\ Pool \in Seq(Items \cup {Junk})
         /\ Len(Pool) = Unclaimed(claim)
         /\ Pool = <<>> <=> IsEmpty(claim)
<1>1. /\ claim.front \in Nat /\ claim.back \in Nat /\ count \in Nat /\ count <= Capacity
      /\ claim.front + claim.back <= count /\ Capacity \in Nat
  BY CapacityAssumption DEF TypeOK, CountersMeet, Word
<1>2. /\ Unclaimed(claim) \in Nat /\ claim.front + Unclaimed(claim) = count - claim.back
      /\ IsEmpty(claim) <=> Unclaimed(claim) = 0
      /\ claim.front + Unclaimed(claim) <= Capacity
  BY <1>1 DEF Unclaimed, IsEmpty
<1>3. Pool = Slice(claim.front, Unclaimed(claim))
  BY DEF Pool, Slice
<1>4. Pool \in Seq(Items \cup {Junk}) /\ Len(Pool) = Unclaimed(claim)
  BY <1>1, <1>2, <1>3, SliceProperties
<1> QED
  BY <1>1, <1>2, <1>3, <1>4, EmptySeq

\* What the abstract pool has handed out, now and after the step.
LEMMA HandIs ==
  /\ Hand = [t \in Threads |-> IF Copying(t) THEN Contents(t) ELSE None]
  /\ Hand' = [t \in Threads |-> IF Copying(t)' THEN Contents(t)' ELSE None]
  BY DEF Hand, Copying

\* What t holds stays the same as long as t does not move and the buffer is not filled.
LEMMA ContentsKept ==
  ASSUME NEW t, pc'[t] = pc[t], observed'[t] = observed[t], want'[t] = want[t],
         UNCHANGED <<buffer, count>>
  PROVE  Contents(t)' = Contents(t) /\ (Copying(t)' <=> Copying(t))
  BY DEF Contents, Copying, Take, Unclaimed, BackSlot

-----------------------------------------------------------------------------
(* One lemma per action.                                                    *)

LEMMA InitRefines == Init => W!Init
<1> SUFFICES ASSUME Init PROVE W!Init
  OBVIOUS
<1>1. TypeOK /\ CountersMeet /\ IsEmpty(claim)
  BY InitIInv DEF IInv, Init, IsEmpty, Zero
<1>2. Pool = <<>>
  BY <1>1, PoolIs
<1>3. Hand = [t \in Threads |-> None]
  BY HandIs DEF Init, Copying
<1> QED
  BY <1>2, <1>3 DEF Init, W!Init

\* A push writes the slot that the pool grows by.
LEMMA PushBackRefines ==
  ASSUME IInv, IInv', NEW e \in Items, PushBack(e)
  PROVE  W!PutBack(e)
<1>1. /\ claim = Zero /\ claim' = Zero
      /\ \A t \in Threads : pc[t] = "idle"
      /\ count \in Nat /\ count < Capacity /\ count' = count + 1
      /\ buffer' = [buffer EXCEPT ![count] = e]
      /\ UNCHANGED <<pc, result>>
  BY CapacityAssumption DEF PushBack, IInv, FillStartsClean, ObservedNotEmpty, TypeOK
<1>2. Hand' = Hand
  BY <1>1, HandIs DEF Copying
<1>3. Pool = [i \in 1 .. count |-> buffer[i - 1]] /\ Pool' = [i \in 1 .. count + 1 |-> buffer'[i - 1]]
  BY <1>1 DEF Pool, Unclaimed, Zero
<1>4. /\ Pool \in Seq(Items \cup {Junk}) /\ Len(Pool) = count
      /\ Pool' \in Seq(Items \cup {Junk}) /\ Len(Pool') = count + 1
  <2>1. Pool \in Seq(Items \cup {Junk}) /\ Len(Pool) = Unclaimed(claim)
    BY PoolIs DEF IInv
  <2>2. (Pool \in Seq(Items \cup {Junk}) /\ Len(Pool) = Unclaimed(claim))'
    BY PoolIs, PTL DEF IInv
  <2> QED
    BY <1>1, <2>1, <2>2 DEF Unclaimed, Zero
<1>5. /\ Append(Pool, e) \in Seq(Items \cup {Junk}) /\ Len(Append(Pool, e)) = count + 1
      /\ \A i \in 1 .. count : Append(Pool, e)[i] = Pool[i]
      /\ Append(Pool, e)[count + 1] = e
  BY <1>4, AppendProperties
<1>6. \A i \in 1 .. count + 1 : Pool'[i] = Append(Pool, e)[i]
  <2>1. count \in Slots /\ buffer'[count] = e /\ \A i \in Slots \ {count} : buffer'[i] = buffer[i]
    BY <1>1 DEF IInv, TypeOK, Slots
  <2>2. ASSUME NEW i \in 1 .. count PROVE Pool'[i] = Pool[i]
    <3>1. i - 1 \in Slots \ {count} /\ i \in 1 .. count + 1
      BY <1>1, CapacityAssumption DEF Slots
    <3> QED
      BY <1>3, <2>1, <3>1
  <2>3. Pool'[count + 1] = e
    BY <1>1, <1>3, <2>1
  <2>4. \A i \in 1 .. count + 1 : i \in 1 .. count \/ i = count + 1
    BY <1>1
  <2> QED
    BY <1>5, <2>2, <2>3, <2>4
<1>7. Pool' = Append(Pool, e)
  BY <1>4, <1>5, <1>6, SeqEqual
<1> QED
  BY <1>1, <1>2, <1>7 DEF W!PutBack

\* A pop that looks at the word again, and finds it empty or not.
LEMMA ObserveOrLeaveRefines ==
  ASSUME IInv, NEW t \in Threads, NEW end \in {"front", "back"}, NEW n,
         pc[t] \in {"idle", "front", "back"},
         ObserveOrLeave(t, end, n), UNCHANGED <<phase, buffer, count, claim, copies>>
  PROVE  W!ReportEmpty(t) \/ UNCHANGED W!vars
<1>1. Pool' = Pool
  BY DEF Pool, Unclaimed
<1>2. /\ \A u \in Threads \ {t} :
           pc'[u] = pc[u] /\ observed'[u] = observed[u] /\ want'[u] = want[u]
      /\ pc'[t] \in {"idle", "front", "back"}
  BY DEF IInv, TypeOK, ObserveOrLeave
<1>3. Hand' = Hand /\ Hand[t] = None
  <2>1. \A u \in Threads \ {t} : Contents(u)' = Contents(u) /\ (Copying(u)' <=> Copying(u))
    BY <1>2, ContentsKept
  <2>2. ~Copying(t) /\ ~Copying(t)'
    BY <1>2 DEF Copying
  <2> QED
    BY <2>1, <2>2, HandIs
<1>4. CASE ~IsEmpty(claim)
  BY <1>1, <1>3, <1>4 DEF ObserveOrLeave, W!vars
<1>5. CASE IsEmpty(claim)
  <2>1. Pool = <<>>
    BY <1>5, PoolIs DEF IInv
  <2> QED
    BY <1>1, <1>3, <1>5, <2>1 DEF ObserveOrLeave, W!ReportEmpty
<1> QED
  BY <1>4, <1>5

\* What an exchange leaves of the others' hands, and puts into t's.
LEMMA ExchangeHand ==
  ASSUME IInv, NEW t \in Threads, pc[t] \in {"front", "back"},
         NEW end \in {"copyFront", "copyBack"}, pc' = [pc EXCEPT ![t] = end],
         UNCHANGED <<buffer, count, observed, want>>
  PROVE  Hand[t] = None /\ Hand' = [Hand EXCEPT ![t] = Contents(t)']
<1>1. pc'[t] = end /\ \A u \in Threads \ {t} : pc'[u] = pc[u]
  BY DEF IInv, TypeOK
<1>2. \A u \in Threads \ {t} : Contents(u)' = Contents(u) /\ (Copying(u)' <=> Copying(u))
  BY <1>1, ContentsKept
<1>3. ~Copying(t) /\ Copying(t)'
  BY <1>1 DEF Copying
<1> QED
  BY <1>2, <1>3, HandIs

\* The exchange of a front pop takes the front of the pool.
LEMMA ExchangeFrontRefines ==
  ASSUME IInv, NEW t \in Threads, ExchangeFront(t)
  PROVE  W!TakeFront(t, want[t])
<1> DEFINE k == Take(claim, want[t])
           u == Unclaimed(claim)
<1>1. /\ ~IsEmpty(claim) /\ observed[t] = claim
      /\ claim \in Word /\ want[t] \in Nat /\ pc[t] = "front"
      /\ pc' = [pc EXCEPT ![t] = "copyFront"] /\ pc'[t] = "copyFront"
      /\ UNCHANGED <<buffer, count, observed, want, result>>
  BY DEF IInv, TypeOK, ObservedNotEmpty, ExchangeFront, Matches
<1>2. claim' = [front |-> claim.front + k, back |-> claim.back]
  BY <1>1, ClaimFrontWord DEF IInv, ExchangeFront
<1>3. /\ claim.front \in Nat /\ claim.back \in Nat /\ count \in Nat /\ u \in Nat
      /\ claim.front + u <= Capacity
      /\ Pool = Slice(claim.front, u) /\ Pool # <<>> /\ Len(Pool) = u
  BY <1>1, PoolIs, CapacityAssumption DEF IInv
<1>4. k = (IF want[t] < Len(Pool) THEN want[t] ELSE Len(Pool)) /\ k \in 0 .. u
  BY <1>1, <1>3 DEF Take
<1>5. SubSeq(Pool, 1, k) = Slice(claim.front, k) /\ SubSeq(Pool, k + 1, u) = Slice(claim.front + k, u - k)
  BY <1>3, <1>4, SliceCut DEF IInv
<1>6. Pool' = Slice(claim.front + k, u - k)
  <2>1. k \in Nat /\ claim'.front = claim.front + k /\ claim'.back = claim.back /\ count' = count
    BY <1>1, <1>2, <1>3, <1>4
  <2>2. Unclaimed(claim)' = count - (claim.front + k) - claim.back /\ u = count - claim.front - claim.back
    BY <2>1 DEF Unclaimed
  <2> HIDE DEF k, u
  <2>3. Unclaimed(claim)' = u - k
    BY <1>3, <2>1, <2>2
  <2> QED
    BY <1>1, <2>1, <2>3 DEF Pool, Slice
<1>7. Contents(t)' = Slice(claim.front, k)
  BY <1>1 DEF Contents, Slice, Take, Unclaimed
<1>8. Hand[t] = None /\ Hand' = [Hand EXCEPT ![t] = Contents(t)']
  BY <1>1, ExchangeHand
<1> HIDE DEF k, u
<1> QED
  BY <1>1, <1>3, <1>4, <1>5, <1>6, <1>7, <1>8 DEF W!TakeFront

\* The exchange of a back pop takes the back of the pool.
LEMMA ExchangeBackRefines ==
  ASSUME IInv, NEW t \in Threads, ExchangeBack(t)
  PROVE  W!TakeBack(t)
<1> DEFINE u == Unclaimed(claim)
<1>1. /\ ~IsEmpty(claim) /\ observed[t] = claim
      /\ claim \in Word /\ pc[t] = "back"
      /\ pc' = [pc EXCEPT ![t] = "copyBack"] /\ pc'[t] = "copyBack"
      /\ UNCHANGED <<buffer, count, observed, want, result>>
  BY DEF IInv, TypeOK, ObservedNotEmpty, ExchangeBack, Matches
<1>2. claim' = [front |-> claim.front, back |-> claim.back + 1]
  BY <1>1, ClaimBackWord DEF IInv, ExchangeBack
<1>3. /\ claim.front \in Nat /\ claim.back \in Nat /\ count \in Nat /\ u \in Nat
      /\ claim.front + u = count - claim.back /\ claim.front + u <= Capacity
      /\ Pool = Slice(claim.front, u) /\ Pool # <<>> /\ Len(Pool) = u
  BY <1>1, PoolIs, CapacityAssumption DEF IInv
<1>4. u - 1 \in 0 .. u /\ u \in 1 .. u
  BY <1>1, <1>3 DEF IsEmpty, Unclaimed
<1>5. SubSeq(Pool, 1, u - 1) = Slice(claim.front, u - 1)
  <2> HIDE DEF u
  <2> QED
    BY <1>3, <1>4, SliceCut DEF IInv
<1>6. Pool' = Slice(claim.front, u - 1)
  <2>1. Unclaimed(claim)' = u - 1
    BY <1>1, <1>2, <1>3 DEF Unclaimed
  <2> QED
    BY <1>1, <1>2, <2>1 DEF Pool, Slice
<1>7. Contents(t)' = <<Pool[u]>>
  <2>1. Pool[u] = buffer[claim.front + u - 1]
    <3> HIDE DEF u
    <3> QED
      BY <1>3, <1>4, SliceProperties DEF IInv
  <2>2. claim.front + u - 1 = BackSlot(claim)
    BY <1>3 DEF BackSlot
  <2>3. Contents(t)' = <<buffer[BackSlot(claim)]>>
    BY <1>1 DEF Contents, BackSlot
  <2> QED
    BY <2>1, <2>2, <2>3
<1>8. Hand[t] = None /\ Hand' = [Hand EXCEPT ![t] = Contents(t)']
  BY <1>1, ExchangeHand
<1> HIDE DEF u
<1> QED
  BY <1>1, <1>3, <1>5, <1>6, <1>7, <1>8 DEF W!TakeBack

\* The copy delivers what the pop holds.
LEMMA CopyRefines ==
  ASSUME IInv, NEW t \in Threads, Copy(t)
  PROVE  W!Deliver(t)
<1>1. /\ pc[t] \in {"copyFront", "copyBack"} /\ pc'[t] = "idle"
      /\ \A u \in Threads \ {t} :
           pc'[u] = pc[u] /\ observed'[u] = observed[u] /\ want'[u] = want[u]
      /\ UNCHANGED <<buffer, count, claim>>
      /\ result' = [result EXCEPT ![t] = Contents(t)]
  BY DEF Copy, IInv, TypeOK
<1>2. \A u \in Threads \ {t} : Contents(u)' = Contents(u) /\ (Copying(u)' <=> Copying(u))
  BY <1>1, ContentsKept
<1>3. Copying(t) /\ ~Copying(t)'
  BY <1>1 DEF Copying
<1>4. Hand[t] = Contents(t) /\ Hand' = [Hand EXCEPT ![t] = None]
  BY <1>2, <1>3, HandIs
<1>5. Hand[t] # None
  BY <1>1, <1>4, ContentsAreASeq, NoneAssumption
<1>6. Pool' = Pool
  BY <1>1 DEF Pool, Unclaimed
<1> QED
  BY <1>1, <1>4, <1>5, <1>6 DEF W!Deliver

\* clear() is the renewal of the pool.
LEMMA ClearRefines == ASSUME IInv, Clear PROVE W!Renew
<1>1. /\ \A t \in Threads : pc[t] = "idle" /\ ~Copying(t) /\ ~Copying(t)'
      /\ claim' = Zero /\ count' = 0 /\ result' = [t \in Threads |-> <<>>]
  BY DEF Clear, Quiescent, Copying
<1>2. Hand' = Hand /\ \A t \in Threads : Hand[t] = None
  BY <1>1, HandIs
<1>3. Pool' = <<>>
  BY <1>1 DEF Pool, Unclaimed, Zero
<1> QED
  BY <1>1, <1>2, <1>3 DEF W!Renew

\* A step that moves no pop and neither counter.
LEMMA StutterRefines ==
  ASSUME UNCHANGED <<buffer, count, claim, pc, observed, want, result>>
  PROVE  UNCHANGED W!vars
<1>1. \A u \in Threads : Contents(u)' = Contents(u) /\ (Copying(u)' <=> Copying(u))
  BY ContentsKept
<1> QED
  BY <1>1, HandIs DEF W!vars, Pool, Unclaimed

\* A front pop keeps the batch size it was called with.
LEMMA WantInductive == TypeOK /\ WantIsABatch /\ [Next]_vars => WantIsABatch'
<1> SUFFICES ASSUME TypeOK, WantIsABatch, [Next]_vars PROVE WantIsABatch'
  OBVIOUS
<1>1. ASSUME NEW t \in Threads, NEW end, NEW n, ObserveOrLeave(t, end, n),
             end = "front" => n \in BatchSizes
      PROVE  WantIsABatch'
  BY <1>1 DEF ObserveOrLeave, WantIsABatch, TypeOK
<1>2. ASSUME NEW t \in Threads, Pop(t) PROVE WantIsABatch'
  <2>1. CASE \E n \in BatchSizes : BeginPopFront(t, n)
    BY <1>1, <2>1 DEF BeginPopFront
  <2>2. CASE BeginPopBack(t)
    BY <1>1, <2>2 DEF BeginPopBack
  <2>3. CASE ExchangeFails(t)
    BY <1>1, <2>3 DEF ExchangeFails, WantIsABatch
  <2>4. CASE ExchangeFront(t) \/ ExchangeBack(t) \/ Copy(t)
    BY <2>4 DEF ExchangeFront, ExchangeBack, Copy, WantIsABatch, TypeOK
  <2>5. CASE WasSize(t)
    BY <2>5 DEF WasSize, WantIsABatch
  <2> QED
    BY <1>2, <2>1, <2>2, <2>3, <2>4, <2>5 DEF Pop
<1>3. CASE ~\E t \in Threads : Pop(t)
  BY <1>3 DEF Next, PushBack, StartDrain, Clear, vars, WantIsABatch
<1> QED
  BY <1>2, <1>3

LEMMA NextRefines ==
  IInv /\ IInv' /\ WantIsABatch /\ [Next]_vars => [W!Next]_(W!vars)
<1> SUFFICES ASSUME IInv, IInv', WantIsABatch, [Next]_vars
             PROVE  W!Next \/ UNCHANGED W!vars
  OBVIOUS
<1>1. CASE UNCHANGED vars \/ StartDrain
  BY <1>1, StutterRefines DEF vars, StartDrain
<1>2. CASE \E e \in Items : PushBack(e)
  BY <1>2, PushBackRefines DEF W!Next
<1>3. CASE Clear
  BY <1>3, ClearRefines DEF W!Next
<1>4. ASSUME NEW t \in Threads, Pop(t) PROVE W!Next \/ UNCHANGED W!vars
  <2>1. CASE \/ \E n \in BatchSizes : BeginPopFront(t, n)
             \/ BeginPopBack(t)
             \/ ExchangeFails(t)
    <3>1. W!ReportEmpty(t) \/ UNCHANGED W!vars
      BY <2>1, ObserveOrLeaveRefines DEF BeginPopFront, BeginPopBack, ExchangeFails
    <3> QED
      BY <3>1 DEF W!Next
  <2>2. CASE ExchangeFront(t)
    <3>1. want[t] \in BatchSizes /\ W!TakeFront(t, want[t])
      BY <2>2, ExchangeFrontRefines DEF ExchangeFront, WantIsABatch
    <3> QED
      BY <3>1 DEF W!Next
  <2>3. CASE ExchangeBack(t)
    BY <2>3, ExchangeBackRefines DEF W!Next
  <2>4. CASE Copy(t)
    BY <2>4, CopyRefines DEF W!Next
  <2>5. CASE WasSize(t)
    BY <2>5, StutterRefines DEF WasSize
  <2> QED
    BY <1>4, <2>1, <2>2, <2>3, <2>4, <2>5 DEF Pop
<1> QED
  BY <1>1, <1>2, <1>3, <1>4 DEF Next

\* Every pop is one indivisible operation of a WorkPool, although it is three
\* steps and takes no lock: the claim is the moment at which it happens.
THEOREM Refinement == Spec => ImplementsWorkPool
<1>1. Init => WantIsABatch
  BY DEF Init, WantIsABatch
<1>2. IInv => TypeOK
  BY DEF IInv
<1>3. Spec => [](IInv /\ WantIsABatch)
  BY <1>1, <1>2, InitIInv, NextKeepsIInv, WantInductive, PTL DEF Spec
<1>4. Spec => W!Init /\ [][W!Next]_(W!vars)
  BY <1>3, InitRefines, NextRefines, PTL DEF Spec
<1> QED
  BY <1>4 DEF ImplementsWorkPool, W!Spec
=============================================================================
