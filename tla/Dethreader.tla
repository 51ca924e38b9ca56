----------------------------- MODULE Dethreader -----------------------------
(***************************************************************************)
(* The Runtime of include/jaffarCommon/dethreader.hpp: coroutines          *)
(* scheduled round robin, which give up control only by yield, sleep, join *)
(* or the end of their function.                                           *)
(*                                                                         *)
(* The functions the threads execute are the caller's: whenever a thread   *)
(* has control it may create a thread or give up control in any of the     *)
(* four ways, and time may pass at any moment.  A thread gives up control  *)
(* without finishing at most MaxTurns times.                               *)
(*                                                                         *)
(* sleep compares two readings of std::chrono::high_resolution_clock.  age *)
(* is their difference as an integer, slept the time that really passed:   *)
(* they differ only if the clock is not steady, that is, may be set back.  *)
(***************************************************************************)
EXTENDS Integers, Sequences, FiniteSets

CONSTANTS MaxThreads,   \* bound: threads created
          MaxTurns,     \* bound: times a thread gives up control and comes back
          Durations,    \* the arguments of sleep
          MaxAge        \* bound: sleep time that is told apart

ASSUME BoundsAssumption ==
  /\ MaxThreads \in Nat /\ MaxTurns \in Nat /\ MaxAge \in Nat
  /\ Durations \subseteq 0 .. MaxAge

VARIABLES installed,  \* whether __runtime points to this runtime
          created,    \* _uniqueThreadIdCounter
          queue,      \* _threadQueue
          current,    \* the thread that has control, or None
          finished,   \* _finishedThreads
          running,    \* whether run() is under way
          reason,     \* reason[t]: _returnReason
          target,     \* target[t]: _threadWaitedFor
          duration,   \* duration[t]: _sleepDuration
          age,        \* age[t]: now() minus _sleepStartTime, as the clock tells it
          slept,      \* slept[t]: the time since t called sleep
          turns       \* turns[t]: how often t has given up control

thread == <<reason, target, duration, age, slept, turns>>
vars == <<installed, created, queue, current, finished, running, thread>>

Ids  == 0 .. MaxThreads - 1
None == -1

Init ==
  /\ installed = FALSE
  /\ created = 0
  /\ queue = <<>>
  /\ current = None
  /\ finished = {}
  /\ running = FALSE
  /\ reason = [t \in Ids |-> "none"]
  /\ target = [t \in Ids |-> None]
  /\ duration = [t \in Ids |-> 0]
  /\ age = [t \in Ids |-> 0]
  /\ slept = [t \in Ids |-> 0]
  /\ turns = [t \in Ids |-> 0]

-----------------------------------------------------------------------------
(* The caller of the runtime, and createThread, which is also the threads'. *)

Initialize ==
  /\ ~running
  /\ installed' = TRUE
  /\ UNCHANGED <<created, queue, current, finished, running, thread>>

Finalize ==
  /\ ~running
  /\ installed' = FALSE
  /\ UNCHANGED <<created, queue, current, finished, running, thread>>

FaultyCreateThread ==
  /\ installed
  /\ running => current # None
  /\ created < MaxThreads
  /\ queue' = Append(queue, created + 1)
  /\ created' = created + 1
  /\ UNCHANGED <<installed, current, finished, running, thread>>

\* From outside, or by the thread that has control.
CreateThread ==
  /\ installed
  /\ running => current # None
  /\ created < MaxThreads
  /\ queue' = Append(queue, created)
  /\ created' = created + 1
  /\ UNCHANGED <<installed, current, finished, running, thread>>

StartRun ==
  /\ installed
  /\ ~running
  /\ running' = TRUE
  /\ UNCHANGED <<installed, created, queue, current, finished, thread>>

-----------------------------------------------------------------------------
(* The loop of run().                                                       *)

\* The difference of the readings is converted to size_t: a negative one is huge.
FaultySleepOver(t) == age[t] < 0 \/ age[t] + 1 >= duration[t]
SleepOver(t) == age[t] < 0 \/ age[t] >= duration[t]

FaultyDue(t) == reason[t] = "sleeping" => SleepOver(t)
Due(t) ==
  /\ reason[t] = "sleeping" => SleepOver(t)
  /\ reason[t] = "waiting" => target[t] \in finished

AtLoop == running /\ current = None

\* The thread at the front is due: it gets control.
Resume ==
  /\ AtLoop
  /\ queue # <<>>
  /\ Due(Head(queue))
  /\ current' = Head(queue)
  /\ queue' = Tail(queue)
  /\ UNCHANGED <<installed, created, finished, running, thread>>

FaultySkip ==
  /\ AtLoop
  /\ queue # <<>>
  /\ ~Due(Head(queue))
  /\ queue' = Tail(queue)
  /\ UNCHANGED <<installed, created, current, finished, running, thread>>

\* It is not: it goes to the back without having run.
Skip ==
  /\ AtLoop
  /\ queue # <<>>
  /\ ~Due(Head(queue))
  /\ queue' = Append(Tail(queue), Head(queue))
  /\ UNCHANGED <<installed, created, current, finished, running, thread>>

ReturnFromRun ==
  /\ AtLoop
  /\ queue = <<>>
  /\ running' = FALSE
  /\ UNCHANGED <<installed, created, queue, current, finished, thread>>

-----------------------------------------------------------------------------
(* The thread t that has control gives it up, and the loop puts it back.    *)

FaultyRequeue(t) == <<t>> \o queue
Requeue(t) == Append(queue, t)

\* What an earlier sleep or join left in t's fields is not read again: it goes.
GiveUp(t, r, u, d) ==
  /\ current = t
  /\ turns[t] < MaxTurns
  /\ reason' = [reason EXCEPT ![t] = r]
  /\ target' = [target EXCEPT ![t] = u]
  /\ duration' = [duration EXCEPT ![t] = d]
  /\ age' = [age EXCEPT ![t] = 0]
  /\ slept' = [slept EXCEPT ![t] = 0]
  /\ turns' = [turns EXCEPT ![t] = @ + 1]
  /\ queue' = Requeue(t)
  /\ current' = None
  /\ UNCHANGED <<installed, created, finished, running>>

Yield(t)    == GiveUp(t, "none", None, 0)
Sleep(t, d) == GiveUp(t, "sleeping", None, d)

\* join looks neither whether u exists nor whether it waits for t.
Join(t, u)  == GiveUp(t, "waiting", u, 0)

FaultyFinish(t) ==
  /\ current = t
  /\ reason' = [reason EXCEPT ![t] = "finished"]
  /\ current' = None
  /\ UNCHANGED <<installed, created, queue, finished, running, target, duration, age, slept, turns>>

\* The function returns: coroutineWrapper, and the loop records and destroys t.
Finish(t) ==
  /\ current = t
  /\ reason' = [reason EXCEPT ![t] = "finished"]
  /\ finished' = finished \cup {t}
  /\ current' = None
  /\ UNCHANGED <<installed, created, queue, running, target, duration, age, slept, turns>>

-----------------------------------------------------------------------------
(* The clock, for the threads that sleep.                                   *)

Asleep(t) == reason[t] = "sleeping" /\ t # current /\ t \notin finished
Older(a) == IF a < MaxAge THEN a + 1 ELSE a

Tick ==
  /\ age' = [t \in Ids |-> IF Asleep(t) THEN Older(age[t]) ELSE age[t]]
  /\ slept' = [t \in Ids |-> IF Asleep(t) THEN Older(slept[t]) ELSE slept[t]]
  /\ UNCHANGED <<installed, created, queue, current, finished, running, reason, target, duration, turns>>

SetClockBack ==
  /\ age' = [t \in Ids |-> IF Asleep(t) /\ age[t] >= 0 THEN age[t] - 1 ELSE age[t]]
  /\ UNCHANGED <<installed, created, queue, current, finished, running, reason, target, duration,
                 slept, turns>>

-----------------------------------------------------------------------------
Outside == Initialize \/ Finalize \/ StartRun
Loop == Resume \/ Skip \/ ReturnFromRun
Body(t) ==
  \/ Yield(t)
  \/ \E d \in Durations : Sleep(t, d)
  \/ \E u \in Ids : Join(t, u)
  \/ Finish(t)

Next ==
  \/ Outside
  \/ CreateThread
  \/ Loop
  \/ \E t \in Ids : Body(t)
  \/ Tick
  \/ SetClockBack

Spec == Init /\ [][Next]_vars

\* The loop runs, a thread with control gives it up, and time passes.
FairSpec ==
  /\ Spec
  /\ WF_vars(Loop)
  /\ \A t \in Ids : WF_vars(Body(t))
  /\ WF_vars(Tick)

-----------------------------------------------------------------------------
TypeOK ==
  /\ installed \in BOOLEAN
  /\ created \in 0 .. MaxThreads
  /\ queue \in Seq(Ids)
  /\ current \in Ids \cup {None}
  /\ finished \subseteq Ids
  /\ running \in BOOLEAN
  /\ reason \in [Ids -> {"none", "finished", "sleeping", "waiting"}]
  /\ target \in [Ids -> Ids \cup {None}]
  /\ duration \in [Ids -> 0 .. MaxAge]
  /\ age \in [Ids -> -1 .. MaxAge]
  /\ slept \in [Ids -> 0 .. MaxAge]
  /\ turns \in [Ids -> 0 .. MaxTurns]

\* A created thread is in exactly one place: once in the queue, in control, or
\* finished; and no other id is anywhere.
ThreadsHaveOnePlace ==
  \A t \in Ids :
    Cardinality({i \in 1 .. Len(queue) : queue[i] = t})
    + (IF current = t THEN 1 ELSE 0)
    + (IF t \in finished THEN 1 ELSE 0)
    = (IF t < created THEN 1 ELSE 0)

\* A thread that returned from join, and the rest of its function, runs after the
\* thread it joined has finished, although the order in the queue may be any.
JoinedAreFinished ==
  \A t \in Ids : current = t /\ reason[t] = "waiting" => target[t] \in finished

\* A thread that returned from sleep has slept for the time it asked for
\* (dethreader.hpp:164-166), unless the clock was set back while it slept, however
\* often the loop went round and whatever was slept for before.
SleepsLongEnough(t) == slept[t] >= duration[t]
ClockWasSetBack(t)  == age[t] < slept[t]
SleepsUnlessSetBack ==
  [][\A t \in Ids : Asleep(t) /\ current' = t => SleepsLongEnough(t) \/ ClockWasSetBack(t)]_vars

\* "A Round Robin scheduling strategy to fairly distribute the CPU"
\* (dethreader.hpp:57).  The thread in control has its next turn after all that
\* are queued now.  A thread falls behind another only by its own turn.
Line == IF current = None THEN queue ELSE Append(queue, current)
Before(line, t, u) == \E i, j \in 1 .. Len(line) : i < j /\ line[i] = t /\ line[j] = u
NobodyOvertakes ==
  [][\A t, u \in Ids :
       Before(Line, t, u) /\ Before(Line', u, t) => AtLoop /\ t = Head(queue)]_vars

\* The threads that t waits for, directly or over others, and whether one of them
\* is t itself or nobody.
WaitsFor(t) ==
  LET next(u) == IF u # None /\ reason[u] = "waiting" /\ u \notin finished THEN target[u] ELSE None
      chain[k \in 0 .. MaxThreads] == IF k = 0 THEN t ELSE next(chain[k - 1])
  IN  {chain[k] : k \in 1 .. MaxThreads} \ {None}
WaitsInVain(t) == \E u \in WaitsFor(t) : u = t \/ u >= created

\* run() returns, and has not done so "until all previously created threads have
\* fully finished executing" (dethreader.hpp:288-290), those created by threads
\* included: none sleeps or waits for ever or is kept from running, unless joins have closed a circle or name a thread nobody has
\* created, or the clock is set back again and again.
RunReturns ==
  <>[][~SetClockBack]_vars => (running ~> \/ ~running /\ finished = 0 .. created - 1
                                        \/ \E t \in Ids : WaitsInVain(t))

-----------------------------------------------------------------------------
(* What the documentation says of sleep and the code does not do.           *)

\* dethreader.hpp:164, "The number of microseconds to sleep for": whatever the clock
\* is set to.
SleepsForItsDuration == [][\A t \in Ids : Asleep(t) /\ current' = t => SleepsLongEnough(t)]_vars
=============================================================================
