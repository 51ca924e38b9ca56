----------------------------- MODULE PathStore -----------------------------
(***************************************************************************)
(* What SequenceTrie promises to its callers: a handle that somebody holds *)
(* denotes the sequence it was created for, from the extend that returned  *)
(* it to the release of its last reference, whatever happens to any other  *)
(* handle in the meantime.                                                 *)
(***************************************************************************)
EXTENDS Integers, Sequences

CONSTANTS Handles, Root, Elements

VARIABLES refs,  \* refs[h]: the references to h that callers hold
          word   \* word[h]: the sequence of a held h; <<>> for Root and the others

vars == <<refs, word>>

Held(h) == h = Root \/ refs[h] > 0

Init ==
  /\ refs = [h \in Handles |-> 0]
  /\ word = [h \in Handles |-> <<>>]

\* A new handle is one that nobody holds.
Extend(p, e, h) ==
  /\ Held(p)
  /\ ~Held(h)
  /\ refs' = [refs EXCEPT ![h] = 1]
  /\ word' = [word EXCEPT ![h] = Append(word[p], e)]

Acquire(h) ==
  /\ Held(h)
  /\ refs' = [refs EXCEPT ![h] = @ + 1]
  /\ UNCHANGED word

Release(h) ==
  /\ refs[h] > 0
  /\ refs' = [refs EXCEPT ![h] = @ - 1]
  /\ word' = IF refs[h] = 1 THEN [word EXCEPT ![h] = <<>>] ELSE word

Next ==
  \/ \E p, h \in Handles, e \in Elements : Extend(p, e, h)
  \/ \E h \in Handles : Acquire(h) \/ Release(h)

Spec == Init /\ [][Next]_vars
=============================================================================
