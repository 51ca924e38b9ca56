--------------------------- MODULE MCSequenceTrie ---------------------------
(***************************************************************************)
(* Constants for the SequenceTrie runs.                                    *)
(***************************************************************************)
EXTENDS SequenceTrie, TLC

CONSTANTS t1, t2

OwnShards   == (t1 :> 0) @@ (t2 :> 1)
SharedShard == (t1 :> 0) @@ (t2 :> 0)

\* Nothing is claimed after an overflow, so that only the throw is explored there.
OnlyThrowsAfterOverflow == Overflown => thrown'
=============================================================================
