----------------------------- MODULE MCBitCopy ------------------------------
(***************************************************************************)
(* Constants for the BitCopy run.                                          *)
(***************************************************************************)
EXTENDS BitCopy

\* The whole memory, and all of it but its first byte: overlapping by a byte.
TwoWindows == {[base |-> 0, size |-> MemSize], [base |-> 1, size |-> MemSize - 1]}
=============================================================================
