---------------------------- MODULE RecordStream ----------------------------
(***************************************************************************)
(* What a serializer and its deserializer promise together: the records    *)
(* come back complete, unchanged and in the order they were pushed.  A     *)
(* reader may pass over a record, and then does not see it.                *)
(***************************************************************************)
EXTENDS Integers, Sequences

CONSTANTS Records,
          Skipped

VARIABLES written,  \* the records pushed
          got       \* what the pops delivered, Skipped where the reader passed over

vars == <<written, got>>

Init == written = <<>> /\ got = <<>>

Push(r) ==
  /\ written' = Append(written, r)
  /\ UNCHANGED got

\* A pop takes the next record, or passes over it.
Pop ==
  /\ Len(got) < Len(written)
  /\ \E r \in {written[Len(got) + 1], Skipped} : got' = Append(got, r)
  /\ UNCHANGED written

Next == Pop \/ \E r \in Records : Push(r)

Spec == Init /\ [][Next]_vars
=============================================================================
