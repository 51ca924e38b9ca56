------------------------------ MODULE BitArray ------------------------------
(***************************************************************************)
(* What bitwise.hpp promises: memory is an array of single bits, and each  *)
(* call changes or reads exactly the bits it names, all at once.           *)
(***************************************************************************)
EXTENDS Integers

CONSTANTS Size,  \* the number of bits
          None

VARIABLES bits,   \* bits[i], a Boolean
          answer  \* what the last call answered, None if nothing

vars == <<bits, answer>>
Indices == 0 .. Size - 1

Init == bits \in [Indices -> BOOLEAN] /\ answer = None

\* n bits from s on, copied in ascending order to d: where the target runs into
\* the source from above, the first d - s bits repeat.
Copied(d, s, n) ==
  LET old == bits
  IN  [j \in Indices |->
         IF j \notin d .. d + n - 1 THEN old[j]
         ELSE IF d = s THEN FALSE  \* a copy onto itself clears the bits
         ELSE IF s < d THEN old[s + ((j - d) % (d - s))]
         ELSE old[s + (j - d)]]

Copy(d, s, n) == bits' = Copied(d, s, n) /\ answer' = None

Set(i, v) == bits' = [bits EXCEPT ![i] = v] /\ answer' = None

Read(i) == answer' = bits[i] /\ UNCHANGED bits

\* An answer is there until the next call.
Forget == answer' = None /\ UNCHANGED bits

Next ==
  \/ Forget
  \/ \E i \in Indices : Read(i) \/ \E v \in BOOLEAN : Set(i, v)
  \/ \E d, s \in Indices : \E n \in 0 .. Size - (IF d > s THEN d ELSE s) : Copy(d, s, n)

Spec == Init /\ [][Next]_vars
=============================================================================
