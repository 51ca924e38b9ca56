---------------------------- MODULE MCMemoryFile ----------------------------
(***************************************************************************)
(* The transfers of the MemoryFile runs: single bytes, elements of two     *)
(* bytes, elements of no bytes.  State is what tells two states apart:     *)
(* last and read are answers that no step looks at.                        *)
(***************************************************************************)
EXTENDS MemoryFile

AllTransfers == {<<1, 1>>, <<2, 1>>, <<0, 1>>}
State        == <<dir, file, calls, overrun>>
=============================================================================
