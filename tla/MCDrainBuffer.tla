--------------------------- MODULE MCDrainBuffer ---------------------------
(***************************************************************************)
(* Model values, symmetry and the fair specification for the DrainBuffer   *)
(* runs.                                                                   *)
(***************************************************************************)
EXTENDS DrainBuffer, FiniteSets, TLC

CONSTANT Live  \* the threads that keep running; the others may stop anywhere

ThreadSymmetry == Permutations(Threads)

FairSpec == Spec /\ Fairness(Live)

\* A pop of a running thread returns, whatever the others do or fail to do, as
\* long as they do not abandon the phase: nobody can be blocked by a thread that
\* stopped between its exchange and its copy (concurrent.hpp:36-37, "lock-free").
RunningPopsReturn == \A t \in Live : pc[t] # "idle" ~> pc[t] = "idle"
=============================================================================
