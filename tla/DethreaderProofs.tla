-------------------------- MODULE DethreaderProofs --------------------------
(***************************************************************************)
(* The safety of the runtime of the coroutines for any number of threads,  *)
(* of turns and of durations: where a thread is, what it has waited for,   *)
(* and who may overtake it.                                                *)
(***************************************************************************)
EXTENDS Dethreader, SequenceTheorems, CountingLemmas

Distinct(s) == \A i, j \in 1 .. Len(s) : s[i] = s[j] => i = j
Queued(t) == \E i \in 1 .. Len(queue) : queue[i] = t

\* ThreadsHaveOnePlace, without counting: no place is shared, none is missing.
NobodyTwice ==
  /\ Distinct(queue)
  /\ \A t \in Ids : Queued(t) => current # t /\ t \notin finished
  /\ current \notin finished

NobodyLost ==
  \A t \in Ids : t < created <=> Queued(t) \/ current = t \/ t \in finished

\* The clock never tells a sleeper that more time has passed than really has.
NeverTooOld == \A t \in Ids : age[t] <= slept[t]

\* The invariant that every step keeps.
IInv ==
  /\ TypeOK
  /\ NobodyTwice
  /\ NobodyLost
  /\ JoinedAreFinished
  /\ NeverTooOld

-----------------------------------------------------------------------------
(* Sequences of threads.                                                    *)

LEMMA NoneIsNoId == None \notin Ids /\ \A t \in Ids : t \in Nat
  BY BoundsAssumption DEF None, Ids

\* A thread put at the back is behind all the others.
LEMMA AtTheBack ==
  ASSUME NEW s \in Seq(Ids), NEW t \in Ids
  PROVE  /\ Append(s, t) \in Seq(Ids)
         /\ Len(s) \in Nat /\ Len(Append(s, t)) = Len(s) + 1
         /\ \A i \in 1 .. Len(s) : Append(s, t)[i] = s[i]
         /\ Append(s, t)[Len(s) + 1] = t
         /\ \A i \in 1 .. Len(s) + 1 : i \in 1 .. Len(s) \/ i = Len(s) + 1
<1>1. Len(s) \in Nat
  BY LenProperties
<1>2. \A i \in 1 .. Len(s) + 1 : i \in 1 .. Len(s) \/ i = Len(s) + 1
  BY <1>1
<1> QED
  BY <1>1, <1>2, AppendProperties

\* Taking the first thread off moves all the others up by one.
LEMMA OffTheFront ==
  ASSUME NEW s \in Seq(Ids), s # <<>>
  PROVE  /\ Head(s) = s[1] /\ Head(s) \in Ids
         /\ Tail(s) \in Seq(Ids)
         /\ Len(s) \in Nat \ {0} /\ Len(Tail(s)) = Len(s) - 1
         /\ \A i \in 1 .. Len(s) - 1 : Tail(s)[i] = s[i + 1]
         /\ \A i \in 1 .. Len(s) : i = 1 \/ (i - 1 \in 1 .. Len(s) - 1 /\ Tail(s)[i - 1] = s[i])
<1>1. /\ Head(s) \in Ids /\ Tail(s) \in Seq(Ids)
      /\ Len(Tail(s)) = Len(s) - 1
      /\ \A i \in 1 .. Len(Tail(s)) : Tail(s)[i] = s[i + 1]
      /\ Len(s) \in Nat \ {0}
  BY HeadTailProperties, EmptySeq
<1>2. Head(s) = s[1]
  OBVIOUS
<1>3. \A i \in 1 .. Len(s) : i = 1 \/ (i - 1 \in 1 .. Len(s) - 1 /\ Tail(s)[i - 1] = s[i])
  BY <1>1
<1> QED
  BY <1>1, <1>2, <1>3

-----------------------------------------------------------------------------
(* The invariant, conjunct by conjunct.                                     *)

\* The invariant holds at the start, and every step keeps it.
LEMMA InitIInv == Init => IInv
<1> SUFFICES ASSUME Init PROVE IInv
  OBVIOUS
<1> USE DEF Init
<1>1. TypeOK
  <2>1. /\ 0 \in 0 .. MaxThreads /\ 0 \in 0 .. MaxAge /\ 0 \in -1 .. MaxAge
        /\ 0 \in 0 .. MaxTurns
    BY BoundsAssumption
  <2>2. <<>> \in Seq(Ids)
    BY EmptySeq
  <2> QED
    BY <2>1, <2>2, Zenon DEF TypeOK
<1>2. NobodyTwice /\ NobodyLost
  BY NoneIsNoId DEF NobodyTwice, NobodyLost, Distinct, Queued
<1>3. JoinedAreFinished /\ NeverTooOld
  BY DEF JoinedAreFinished, NeverTooOld
<1> QED
  BY <1>1, <1>2, <1>3 DEF IInv

LEMMA TypeKept == TypeOK /\ [Next]_vars => TypeOK'
<1> SUFFICES ASSUME TypeOK, [Next]_vars PROVE TypeOK'
  OBVIOUS
<1> USE DEF TypeOK, thread
<1>1. CASE Outside
  BY <1>1 DEF Outside, Initialize, Finalize, StartRun
<1>2. CASE CreateThread
  <2>1. created \in Ids /\ created' \in 0 .. MaxThreads
    BY <1>2, BoundsAssumption DEF CreateThread, Ids
  <2> QED
    BY <1>2, <2>1, AtTheBack DEF CreateThread
<1>3. CASE Resume
  BY <1>3, OffTheFront DEF Resume
<1>4. CASE Skip
  BY <1>4, OffTheFront, AtTheBack DEF Skip
<1>5. CASE ReturnFromRun
  BY <1>5 DEF ReturnFromRun
<1>6. ASSUME NEW t \in Ids, NEW r \in {"none", "sleeping", "waiting"},
             NEW u \in Ids \cup {None}, NEW d \in 0 .. MaxAge, GiveUp(t, r, u, d)
      PROVE  TypeOK'
  <2>1. queue' \in Seq(Ids)
    BY <1>6, AtTheBack DEF GiveUp, Requeue
  <2>2. turns' \in [Ids -> 0 .. MaxTurns]
    BY <1>6, BoundsAssumption, SMTT(30) DEF GiveUp
  <2>3. age' \in [Ids -> -1 .. MaxAge] /\ slept' \in [Ids -> 0 .. MaxAge]
    BY <1>6, BoundsAssumption DEF GiveUp
  <2> QED
    BY <1>6, <2>1, <2>2, <2>3 DEF GiveUp
<1>7. ASSUME NEW t \in Ids, Body(t) PROVE TypeOK'
  <2>1. CASE Finish(t)
    BY <2>1 DEF Finish
  <2> HIDE DEF TypeOK, thread
  <2>2. 0 \in 0 .. MaxAge /\ Durations \subseteq 0 .. MaxAge
    BY BoundsAssumption
  <2>3. CASE Yield(t)
    BY <1>6, <2>2, <2>3 DEF Yield
  <2>4. ASSUME NEW d \in Durations, Sleep(t, d) PROVE TypeOK'
    BY <1>6, <2>2, <2>4 DEF Sleep
  <2>5. ASSUME NEW u \in Ids, Join(t, u) PROVE TypeOK'
    BY <1>6, <2>2, <2>5 DEF Join
  <2> QED
    BY <1>7, <2>1, <2>3, <2>4, <2>5 DEF Body
<1>8. CASE Tick
  <2>1. \A t \in Ids : Older(age[t]) \in -1 .. MaxAge /\ Older(slept[t]) \in 0 .. MaxAge
    BY BoundsAssumption, SMTT(30) DEF Older
  <2> QED
    BY <1>8, <2>1 DEF Tick
<1>9. CASE SetClockBack
  <2>1. \A t \in Ids : age[t] >= 0 => age[t] - 1 \in -1 .. MaxAge
    BY BoundsAssumption
  <2> QED
    BY <1>9, <2>1 DEF SetClockBack
<1>10. CASE UNCHANGED vars
  BY <1>10 DEF vars
<1> QED
  BY <1>1, <1>2, <1>3, <1>4, <1>5, <1>7, <1>8, <1>9, <1>10 DEF Next, Loop

\* A step that moves nobody.
LEMMA PlacesKept ==
  ASSUME NobodyTwice, NobodyLost, UNCHANGED <<created, queue, current, finished>>
  PROVE  NobodyTwice' /\ NobodyLost'
  BY DEF NobodyTwice, NobodyLost, Queued, Distinct

\* The new thread is nowhere yet, and is put at the back of the queue.
LEMMA CreateKeepsPlaces ==
  ASSUME IInv, CreateThread
  PROVE  NobodyTwice' /\ NobodyLost'
<1>1. /\ created \in Ids /\ created' = created + 1 /\ created \in Nat
      /\ queue \in Seq(Ids) /\ queue' = Append(queue, created)
      /\ UNCHANGED <<current, finished>>
  BY BoundsAssumption DEF CreateThread, IInv, TypeOK, Ids
<1>2. ~Queued(created) /\ current # created /\ created \notin finished
  BY <1>1 DEF IInv, NobodyLost
<1>3. /\ Len(queue) \in Nat /\ Len(queue') = Len(queue) + 1
      /\ \A i \in 1 .. Len(queue) : queue'[i] = queue[i]
      /\ queue'[Len(queue) + 1] = created
      /\ \A i \in 1 .. Len(queue) + 1 : i \in 1 .. Len(queue) \/ i = Len(queue) + 1
  BY <1>1, AtTheBack
<1>4. \A t \in Ids : Queued(t)' <=> Queued(t) \/ t = created
  BY <1>3 DEF Queued
<1>5. Distinct(queue')
  BY <1>2, <1>3 DEF IInv, NobodyTwice, Distinct, Queued
<1>6. NobodyTwice'
  BY <1>1, <1>2, <1>4, <1>5 DEF IInv, NobodyTwice
<1>7. \A t \in Ids : t < created + 1 <=> t < created \/ t = created
  BY <1>1, NoneIsNoId
<1>8. NobodyLost'
  BY <1>1, <1>4, <1>7 DEF IInv, NobodyLost
<1> QED
  BY <1>6, <1>8

\* The loop takes the first thread, and gives it control or puts it at the back.
LEMMA LoopKeepsPlaces ==
  ASSUME IInv, Resume \/ Skip
  PROVE  NobodyTwice' /\ NobodyLost'
<1> DEFINE h == Head(queue)
           s == Tail(queue)
<1>1. /\ queue \in Seq(Ids) /\ queue # <<>> /\ current = None
      /\ UNCHANGED <<created, finished>>
      /\ \/ current' = h /\ queue' = s
         \/ current' = current /\ queue' = Append(s, h)
  BY DEF Resume, Skip, AtLoop, IInv, TypeOK
<1>2. /\ h = queue[1] /\ h \in Ids /\ s \in Seq(Ids)
      /\ Len(queue) \in Nat \ {0} /\ Len(s) = Len(queue) - 1
      /\ \A i \in 1 .. Len(queue) - 1 : s[i] = queue[i + 1]
      /\ \A i \in 1 .. Len(queue) : i = 1 \/ (i - 1 \in 1 .. Len(queue) - 1 /\ s[i - 1] = queue[i])
  BY <1>1, OffTheFront
<1> HIDE DEF h, s
<1>3. /\ Distinct(s)
      /\ \A i \in 1 .. Len(s) : s[i] # h
      /\ \A t \in Ids : Queued(t) <=> t = h \/ \E i \in 1 .. Len(s) : s[i] = t
  <2>1. \A i \in 1 .. Len(s) : i + 1 \in 1 .. Len(queue) /\ i + 1 # 1 /\ s[i] = queue[i + 1]
    BY <1>2
  <2>2. 1 \in 1 .. Len(queue)
    BY <1>2
  <2>3. \A i \in 1 .. Len(s) : s[i] # h
    BY <1>2, <2>1, <2>2 DEF IInv, NobodyTwice, Distinct
  <2>4. Distinct(s)
    <3> SUFFICES ASSUME NEW i \in 1 .. Len(s), NEW j \in 1 .. Len(s), s[i] = s[j] PROVE i = j
      BY DEF Distinct
    <3>1. i + 1 = j + 1
      BY <2>1 DEF IInv, NobodyTwice, Distinct
    <3> QED
      BY <1>2, <3>1
  <2>5. \A t \in Ids : Queued(t) <=> t = h \/ \E i \in 1 .. Len(s) : s[i] = t
    BY <1>2, <2>1, <2>2 DEF Queued
  <2> QED
    BY <2>3, <2>4, <2>5
<1>4. CASE current' = h /\ queue' = s
  BY <1>1, <1>2, <1>3, <1>4, NoneIsNoId, ZenonT(30) DEF IInv, NobodyTwice, NobodyLost, Queued, Distinct
<1>5. CASE current' = current /\ queue' = Append(s, h)
  <2>1. /\ Len(s) \in Nat /\ Len(queue') = Len(s) + 1
        /\ \A i \in 1 .. Len(s) : queue'[i] = s[i]
        /\ queue'[Len(s) + 1] = h
        /\ \A i \in 1 .. Len(s) + 1 : i \in 1 .. Len(s) \/ i = Len(s) + 1
    BY <1>2, <1>5, AtTheBack
  <2>2. Distinct(queue')
    BY <1>3, <2>1 DEF Distinct
  <2>3. \A t \in Ids : Queued(t)' <=> Queued(t)
    BY <1>3, <2>1 DEF Queued
  <2> QED
    BY <1>1, <1>5, <2>2, <2>3 DEF IInv, NobodyTwice, NobodyLost
<1> QED
  BY <1>1, <1>4, <1>5

\* The thread that gives up control goes to the back, or has finished.
LEMMA BodyKeepsPlaces ==
  ASSUME IInv, NEW t \in Ids, current = t, current' = None, UNCHANGED created,
         \/ queue' = Append(queue, t) /\ UNCHANGED finished
         \/ finished' = finished \cup {t} /\ UNCHANGED queue
  PROVE  NobodyTwice' /\ NobodyLost'
<1>1. queue \in Seq(Ids) /\ ~Queued(t) /\ t \notin finished /\ finished \subseteq Ids
  BY DEF IInv, TypeOK, NobodyTwice
<1>2. CASE queue' = Append(queue, t) /\ UNCHANGED finished
  <2>1. /\ Len(queue) \in Nat /\ Len(queue') = Len(queue) + 1
        /\ \A i \in 1 .. Len(queue) : queue'[i] = queue[i]
        /\ queue'[Len(queue) + 1] = t
        /\ \A i \in 1 .. Len(queue) + 1 : i \in 1 .. Len(queue) \/ i = Len(queue) + 1
    BY <1>1, <1>2, AtTheBack
  <2>2. Distinct(queue')
    BY <1>1, <2>1 DEF IInv, NobodyTwice, Distinct, Queued
  <2>3. \A u \in Ids : Queued(u)' <=> Queued(u) \/ u = t
    BY <2>1 DEF Queued
  <2> QED
    BY <1>1, <1>2, <2>2, <2>3, NoneIsNoId DEF IInv, NobodyTwice, NobodyLost
<1>3. CASE finished' = finished \cup {t} /\ UNCHANGED queue
  BY <1>1, <1>3, NoneIsNoId DEF IInv, NobodyTwice, NobodyLost, Queued, Distinct
<1> QED
  BY <1>2, <1>3

\* Each step takes a thread from one place and puts it at one.
LEMMA PlacesInductive == IInv /\ [Next]_vars => NobodyTwice' /\ NobodyLost'
<1> SUFFICES ASSUME IInv, [Next]_vars PROVE NobodyTwice' /\ NobodyLost'
  OBVIOUS
<1>1. CASE Outside \/ ReturnFromRun \/ Tick \/ SetClockBack \/ UNCHANGED vars
  BY <1>1, PlacesKept
     DEF IInv, Outside, Initialize, Finalize, StartRun, ReturnFromRun, Tick, SetClockBack, vars
<1>2. CASE CreateThread
  BY <1>2, CreateKeepsPlaces
<1>3. CASE Resume \/ Skip
  BY <1>3, LoopKeepsPlaces
<1>4. ASSUME NEW t \in Ids, Body(t) PROVE NobodyTwice' /\ NobodyLost'
  <2>1. /\ current = t /\ current' = None /\ UNCHANGED created
        /\ \/ queue' = Append(queue, t) /\ UNCHANGED finished
           \/ finished' = finished \cup {t} /\ UNCHANGED queue
    BY <1>4 DEF Body, Yield, Sleep, Join, GiveUp, Requeue, Finish
  <2> QED
    BY <2>1, BodyKeepsPlaces
<1> QED
  BY <1>1, <1>2, <1>3, <1>4 DEF Next, Loop

\* A thread gets control only when it is due, and what has finished stays so.
LEMMA JoinInductive == IInv /\ [Next]_vars => JoinedAreFinished'
<1> SUFFICES ASSUME IInv, [Next]_vars PROVE JoinedAreFinished'
  OBVIOUS
<1>1. CASE Resume
  BY <1>1 DEF Resume, Due, JoinedAreFinished, thread
<1>2. ASSUME NEW t \in Ids, Body(t) PROVE JoinedAreFinished'
  <2>1. current' = None
    BY <1>2 DEF Body, Yield, Sleep, Join, GiveUp, Finish
  <2> QED
    BY <2>1, NoneIsNoId DEF JoinedAreFinished
<1>3. CASE ~Resume /\ ~\E t \in Ids : Body(t)
  <2>1. UNCHANGED <<current, reason, target, finished>>
    BY <1>3 DEF Next, Outside, Initialize, Finalize, StartRun, CreateThread, Loop, Skip,
                ReturnFromRun, Tick, SetClockBack, thread, vars
  <2> QED
    BY <2>1 DEF IInv, JoinedAreFinished
<1> QED
  BY <1>1, <1>2, <1>3

\* Time passes for the clock and in reality alike, or the clock alone is set back.
LEMMA AgeInductive == IInv /\ [Next]_vars => NeverTooOld'
<1> SUFFICES ASSUME IInv, [Next]_vars PROVE NeverTooOld'
  OBVIOUS
<1>1. \A t \in Ids : age[t] \in -1 .. MaxAge /\ slept[t] \in 0 .. MaxAge /\ age[t] <= slept[t]
  BY DEF IInv, TypeOK, NeverTooOld
<1>2. CASE Tick
  <2>1. \A t \in Ids : Older(age[t]) <= Older(slept[t])
    BY <1>1, BoundsAssumption DEF Older
  <2> QED
    BY <1>1, <1>2, <2>1 DEF Tick, NeverTooOld
<1>3. CASE SetClockBack
  <2>1. \A t \in Ids : age[t] - 1 <= slept[t]
    BY <1>1, BoundsAssumption
  <2> QED
    BY <1>1, <1>3, <2>1 DEF SetClockBack, NeverTooOld
<1>4. ASSUME NEW t \in Ids, Body(t) PROVE NeverTooOld'
  <2>1. \/ UNCHANGED <<age, slept>>
        \/ age' = [age EXCEPT ![t] = 0] /\ slept' = [slept EXCEPT ![t] = 0]
    BY <1>4 DEF Body, Yield, Sleep, Join, GiveUp, Finish
  <2>2. CASE UNCHANGED <<age, slept>>
    BY <1>1, <2>2 DEF NeverTooOld
  <2>3. CASE age' = [age EXCEPT ![t] = 0] /\ slept' = [slept EXCEPT ![t] = 0]
    <3>1. \A u \in Ids : age'[u] = (IF u = t THEN 0 ELSE age[u]) /\ slept'[u] = (IF u = t THEN 0 ELSE slept[u])
      BY <2>3 DEF IInv, TypeOK
    <3> QED
      BY <1>1, <3>1 DEF NeverTooOld
  <2> QED
    BY <2>1, <2>2, <2>3
<1>5. CASE ~Tick /\ ~SetClockBack /\ ~\E t \in Ids : Body(t)
  <2>1. UNCHANGED <<age, slept>>
    BY <1>5 DEF Next, Outside, Initialize, Finalize, StartRun, CreateThread, Loop, Resume, Skip,
                ReturnFromRun, thread, vars
  <2> QED
    BY <2>1 DEF IInv, NeverTooOld
<1> QED
  BY <1>2, <1>3, <1>4, <1>5

\* The strengthened invariant holds in every reachable state.
LEMMA Inductive == Spec => []IInv
<1>1. IInv /\ [Next]_vars => IInv'
  BY TypeKept, PlacesInductive, JoinInductive, AgeInductive DEF IInv
<1> QED
  BY <1>1, InitIInv, PTL DEF Spec

-----------------------------------------------------------------------------
\* Types: ids and positions stay in range.
THEOREM TypeCorrect == Spec => []TypeOK
<1>1. IInv => TypeOK
  BY DEF IInv
<1> QED
  BY <1>1, Inductive, PTL

\* A created thread is in the queue once, or in control, or finished, and nothing else.
THEOREM OnePlace == Spec => []ThreadsHaveOnePlace
<1>1. ASSUME IInv PROVE ThreadsHaveOnePlace
  <2> SUFFICES ASSUME NEW t \in Ids
               PROVE  Cardinality({i \in 1 .. Len(queue) : queue[i] = t})
                      + (IF current = t THEN 1 ELSE 0)
                      + (IF t \in finished THEN 1 ELSE 0)
                      = (IF t < created THEN 1 ELSE 0)
    BY DEF ThreadsHaveOnePlace
  <2> DEFINE Q == {i \in 1 .. Len(queue) : queue[i] = t}
  <2>1. Q # {} <=> Queued(t)
    BY DEF Queued
  <2>2. Cardinality(Q) = IF Queued(t) THEN 1 ELSE 0
    <3>1. \A i, j \in Q : i = j
      BY <1>1 DEF IInv, NobodyTwice, Distinct
    <3> HIDE DEF Q
    <3> QED
      BY <2>1, <3>1, CardinalityAtMostOne
  <2> HIDE DEF Q
  <2>3. /\ Queued(t) => current # t /\ t \notin finished
        /\ current = t => t \notin finished
        /\ t < created <=> Queued(t) \/ current = t \/ t \in finished
    BY <1>1 DEF IInv, NobodyTwice, NobodyLost
  <2>4. Cardinality(Q) + (IF current = t THEN 1 ELSE 0) + (IF t \in finished THEN 1 ELSE 0)
        = (IF t < created THEN 1 ELSE 0)
    BY <2>2, <2>3
  <2> QED
    BY <2>4 DEF Q
<1> QED
  BY <1>1, Inductive, PTL

\* Nobody comes back from join before the thread it joined has finished.
THEOREM JoinWaits == Spec => []JoinedAreFinished
<1>1. IInv => JoinedAreFinished
  BY DEF IInv
<1> QED
  BY <1>1, Inductive, PTL

\* Nobody comes back from sleep too early, unless the clock is set back.
THEOREM SleepWaits == Spec => SleepsUnlessSetBack
<1> DEFINE Wakes == \A t \in Ids : Asleep(t) /\ current' = t => SleepsLongEnough(t) \/ ClockWasSetBack(t)
<1>1. ASSUME IInv, [Next]_vars PROVE [Wakes]_vars
  <2> SUFFICES ASSUME NEW t \in Ids, Asleep(t), current' = t
               PROVE  SleepsLongEnough(t) \/ ClockWasSetBack(t)
    OBVIOUS
  <2>1. t # current /\ t # None /\ reason[t] = "sleeping"
    BY NoneIsNoId DEF Asleep
  <2>2. Resume
    BY <1>1, <2>1 DEF Next, Outside, Initialize, Finalize, StartRun, CreateThread, Loop, Skip,
                      ReturnFromRun, Body, Yield, Sleep, Join, GiveUp, Finish, Tick, SetClockBack, vars
  <2>3. SleepOver(t)
    BY <2>1, <2>2 DEF Resume, Due
  <2>4. age[t] \in Int /\ slept[t] \in Nat /\ duration[t] \in Nat
    BY <1>1, BoundsAssumption DEF IInv, TypeOK
  <2>5. age[t] <= slept[t]
    BY <1>1 DEF IInv, NeverTooOld
  <2> QED
    BY <2>3, <2>4, <2>5 DEF SleepOver, SleepsLongEnough, ClockWasSetBack
<1>2. IInv /\ [Next]_vars => [Wakes]_vars
  BY <1>1
<1> QED
  BY <1>2, Inductive, PTL DEF Spec, SleepsUnlessSetBack

-----------------------------------------------------------------------------
(* Round robin.  The line of those that wait for a turn keeps its order in  *)
(* every step but that of the loop, which moves the first of it to the end. *)

\* Who is ahead of whom, by positions.
LEMMA BeforeIs ==
  ASSUME NEW s, NEW t, NEW u, NEW i \in 1 .. Len(s), NEW j \in 1 .. Len(s),
         i < j, s[i] = t, s[j] = u
  PROVE  Before(s, t, u)
  BY DEF Before

\* Where nobody stands twice, nobody is both ahead of another and behind it.
LEMMA NotBoth ==
  ASSUME NEW s \in Seq(Ids), Distinct(s), NEW t, NEW u, Before(s, t, u), Before(s, u, t)
  PROVE  FALSE
<1>1. Len(s) \in Nat
  BY LenProperties
<1>2. PICK i, j \in 1 .. Len(s) : i < j /\ s[i] = t /\ s[j] = u
  BY DEF Before
<1>3. PICK k, l \in 1 .. Len(s) : k < l /\ s[k] = u /\ s[l] = t
  BY DEF Before
<1>4. i = l /\ j = k
  BY <1>2, <1>3 DEF Distinct
<1> QED
  BY <1>1, <1>2, <1>3, <1>4

\* The line is the queue and, at its end, the thread in control.
LEMMA LineIsDistinct ==
  ASSUME IInv
  PROVE  /\ Line \in Seq(Ids) /\ Distinct(Line)
         /\ queue \in Seq(Ids)
         /\ current # None => current \in Ids
<1>1. queue \in Seq(Ids) /\ current \in Ids \cup {None}
  BY DEF IInv, TypeOK
<1>2. CASE current = None
  BY <1>1, <1>2 DEF Line, IInv, NobodyTwice
<1>3. CASE current # None
  <2>1. /\ current \in Ids /\ ~Queued(current) /\ Distinct(queue) /\ Line = Append(queue, current)
    BY <1>1, <1>3 DEF IInv, NobodyTwice, Line
  <2>2. Distinct(Line)
    BY <1>1, <2>1, AtTheBack DEF Distinct, Queued
  <2> QED
    BY <1>1, <2>1, <2>2, AtTheBack
<1> QED
  BY <1>2, <1>3

\* A thread put at the end of a line changes nobody else's place.
LEMMA OrderInAppend ==
  ASSUME NEW s \in Seq(Ids), NEW c \in Ids, NEW t, NEW u
  PROVE  Before(s, t, u) => Before(Append(s, c), t, u)
<1> SUFFICES ASSUME Before(s, t, u) PROVE Before(Append(s, c), t, u)
  OBVIOUS
<1>1. PICK i, j \in 1 .. Len(s) : i < j /\ s[i] = t /\ s[j] = u
  BY DEF Before
<1>2. /\ Len(s) \in Nat /\ Len(Append(s, c)) = Len(s) + 1
      /\ \A k \in 1 .. Len(s) : Append(s, c)[k] = s[k]
  BY AtTheBack
<1>3. /\ i \in 1 .. Len(Append(s, c)) /\ j \in 1 .. Len(Append(s, c))
      /\ Append(s, c)[i] = t /\ Append(s, c)[j] = u
  BY <1>1, <1>2
<1> QED
  BY <1>1, <1>3, BeforeIs

\* Of two that are ahead of it, in the one or the other line, neither has overtaken.
LEMMA CreateOvertakesNobody ==
  ASSUME IInv, IInv', CreateThread, NEW t \in Ids, NEW u \in Ids, Before(Line, t, u)
  PROVE  Before(Line', t, u)
<1>1. /\ queue \in Seq(Ids) /\ created \in Ids /\ queue' = Append(queue, created)
      /\ current' = current
  BY BoundsAssumption DEF CreateThread, IInv, TypeOK, Ids
<1>2. CASE current = None
  BY <1>1, <1>2, OrderInAppend DEF Line
<1>3. CASE current # None
  <2>1. current \in Ids /\ Line = Append(queue, current) /\ Line' = Append(queue', current)
    BY <1>1, <1>3 DEF Line, IInv, TypeOK
  <2>2. /\ Len(queue) \in Nat /\ Len(Line) = Len(queue) + 1
        /\ \A i \in 1 .. Len(queue) : Line[i] = queue[i]
        /\ Line[Len(queue) + 1] = current
        /\ \A i \in 1 .. Len(queue) + 1 : i \in 1 .. Len(queue) \/ i = Len(queue) + 1
    BY <1>1, <2>1, AtTheBack
  <2>3. queue' \in Seq(Ids) /\ Len(queue') = Len(queue) + 1 /\ \A i \in 1 .. Len(queue) : queue'[i] = queue[i]
    BY <1>1, AtTheBack
  <2>4. /\ Len(Line') = Len(queue) + 2
        /\ \A i \in 1 .. Len(queue) + 1 : Line'[i] = queue'[i]
        /\ Line'[Len(queue) + 2] = current
    <3>1. /\ Len(Line') = Len(queue') + 1
          /\ \A i \in 1 .. Len(queue') : Line'[i] = queue'[i]
          /\ Line'[Len(queue') + 1] = current
      BY <2>1, <2>3, AtTheBack
    <3> QED
      BY <2>2, <2>3, <3>1
  <2>5. PICK i, j \in 1 .. Len(Line) : i < j /\ Line[i] = t /\ Line[j] = u
    BY DEF Before
  <2>6. i \in 1 .. Len(queue) /\ Line'[i] = t
    BY <2>2, <2>3, <2>4, <2>5
  <2>7. CASE j \in 1 .. Len(queue)
    BY <2>2, <2>3, <2>4, <2>5, <2>6, <2>7, BeforeIs
  <2>8. CASE j = Len(queue) + 1
    <3>1. Line'[Len(queue) + 2] = u
      BY <2>2, <2>4, <2>5, <2>8
    <3>2. i < Len(queue) + 2 /\ i \in 1 .. Len(Line') /\ Len(queue) + 2 \in 1 .. Len(Line')
      BY <2>2, <2>4, <2>6
    <3> QED
      BY <2>6, <3>1, <3>2, BeforeIs
  <2> QED
    BY <2>2, <2>5, <2>7, <2>8
<1> QED
  BY <1>2, <1>3

\* The loop lets the others pass the first thread, and nobody else.
LEMMA LoopOvertakesOnlyHead ==
  ASSUME IInv, Resume \/ Skip, NEW t \in Ids, NEW u \in Ids, Before(Line, t, u),
         t # Head(queue)
  PROVE  Before(Line', t, u)
<1> DEFINE h == Head(queue)
           s == Tail(queue)
<1>1. /\ queue \in Seq(Ids) /\ queue # <<>> /\ Line = queue
  BY DEF Resume, Skip, AtLoop, IInv, TypeOK, Line
<1>2. /\ h = queue[1] /\ h \in Ids /\ s \in Seq(Ids)
      /\ Len(queue) \in Nat \ {0} /\ Len(s) = Len(queue) - 1
      /\ \A i \in 1 .. Len(queue) : i = 1 \/ (i - 1 \in 1 .. Len(queue) - 1 /\ s[i - 1] = queue[i])
  BY <1>1, OffTheFront
<1>3. Line' = Append(s, h)
  BY <1>1, <1>2, NoneIsNoId DEF Resume, Skip, AtLoop, Line
<1> HIDE DEF s
<1>4. PICK i, j \in 1 .. Len(queue) : i < j /\ queue[i] = t /\ queue[j] = u
  BY <1>1 DEF Before
<1>5. i # 1 /\ j # 1
  BY <1>2, <1>4
<1>6. /\ i - 1 \in 1 .. Len(s) /\ s[i - 1] = t
      /\ j - 1 \in 1 .. Len(s) /\ s[j - 1] = u
      /\ i - 1 < j - 1
  BY <1>2, <1>4, <1>5
<1>7. Before(s, t, u)
  BY <1>6, BeforeIs
<1> HIDE DEF h
<1> QED
  BY <1>2, <1>3, <1>7, OrderInAppend

\* Nobody overtakes anybody that waits for its turn, for any number of threads.
THEOREM RoundRobin == Spec => NobodyOvertakes
<1> DEFINE Fair == \A t, u \in Ids : Before(Line, t, u) /\ Before(Line', u, t) => AtLoop /\ t = Head(queue)
<1>1. ASSUME IInv, IInv', [Next]_vars PROVE [Fair]_vars
  <2> SUFFICES ASSUME NEW t \in Ids, NEW u \in Ids, Before(Line, t, u), Before(Line', u, t),
                      ~(AtLoop /\ t = Head(queue))
               PROVE  FALSE
    OBVIOUS
  <2>1. Line \in Seq(Ids) /\ Distinct(Line) /\ Line' \in Seq(Ids) /\ Distinct(Line')
    <3>1. (Line \in Seq(Ids) /\ Distinct(Line))'
      BY <1>1, LineIsDistinct, PTL
    <3> QED
      BY <1>1, <3>1, LineIsDistinct DEF Distinct
  <2>2. ~Before(Line', t, u)
    BY <2>1, NotBoth
  <2>3. ~Before(Line, u, t)
    BY <2>1, NotBoth
  <2>4. ~CreateThread
    BY <1>1, <2>2, CreateOvertakesNobody
  <2>5. ~Resume /\ ~Skip
    BY <1>1, <2>2, LoopOvertakesOnlyHead DEF Resume, Skip
  <2>6. ASSUME NEW c \in Ids, Body(c) PROVE FALSE
    <3>1. queue \in Seq(Ids) /\ c # None /\ Line = Append(queue, c)
      BY <1>1, <2>6, NoneIsNoId
         DEF IInv, TypeOK, Line, Body, Yield, Sleep, Join, GiveUp, Finish
    <3>2. CASE Finish(c)
      <4>1. Line' = queue
        BY <3>2 DEF Finish, Line
      <4> QED
        BY <2>3, <3>1, <4>1, OrderInAppend
    <3>3. CASE ~Finish(c)
      <4>1. Line' = Line
        BY <2>6, <3>1, <3>3 DEF Body, Yield, Sleep, Join, GiveUp, Requeue, Line
      <4> QED
        BY <2>3, <4>1
    <3> QED
      BY <3>2, <3>3
  <2>7. UNCHANGED <<queue, current>>
    BY <1>1, <2>4, <2>5, <2>6 DEF Next, Outside, Initialize, Finalize, StartRun, Loop,
       ReturnFromRun, Tick, SetClockBack, vars
  <2>8. Line' = Line
    BY <2>7 DEF Line
  <2> QED
    BY <2>3, <2>8
<1>2. IInv /\ IInv' /\ [Next]_vars => [Fair]_vars
  BY <1>1
<1> QED
  BY <1>2, Inductive, PTL DEF Spec, NobodyOvertakes
=============================================================================
