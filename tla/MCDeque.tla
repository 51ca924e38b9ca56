------------------------------ MODULE MCDeque ------------------------------
(***************************************************************************)
(* The fair specification for the Deque run.                               *)
(***************************************************************************)
EXTENDS Deque

CONSTANT Live  \* the threads that keep running

FairSpec == Spec /\ Fairness(Live)

\* Every call of a running thread returns: no path of a call leaves the mutex taken,
\* and no thread is kept from it for ever.
RunningCallsReturn == \A t \in Live : pc[t] # "idle" ~> pc[t] = "idle"
=============================================================================
