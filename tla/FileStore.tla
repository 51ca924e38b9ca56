----------------------------- MODULE FileStore -----------------------------
(***************************************************************************)
(* What a directory of in-memory files promises: a file is a sequence of   *)
(* bytes with a position.  What was written is what is read, wherever the  *)
(* position was in between, whatever happens to other files, after closing *)
(* and opening again, and however often the memory behind it was moved.    *)
(*                                                                         *)
(* MemoryFile is shown to implement this specification.                    *)
(***************************************************************************)
EXTENDS Integers, Sequences

CONSTANTS Names, Files, Bytes,
          None   \* no file

VARIABLES dir,      \* dir[n]: the file named n, or None
          content,  \* content[f]: the bytes of f
          head,     \* head[f]: the position in f
          flags,    \* flags[f]: the flags of f that are set
          read      \* what the last read returned

vars == <<dir, content, head, flags, read>>

Flag == {"opened", "readonly", "writeonly"}
Live == {dir[n] : n \in Names} \ {None}

Init ==
  /\ dir = [n \in Names |-> None]
  /\ content = [f \in Files |-> <<>>]
  /\ head = [f \in Files |-> 0]
  /\ flags = [f \in Files |-> {}]
  /\ read = <<>>

First(s, k) == SubSeq(s, 1, k)
From(s, k)  == SubSeq(s, k + 1, Len(s))

Read(f) ==
  /\ "opened" \in flags[f] /\ "writeonly" \notin flags[f]
  /\ \E k \in 0 .. Len(content[f]) - head[f] :
       /\ read' = SubSeq(content[f], head[f] + 1, head[f] + k)
       /\ head' = [head EXCEPT ![f] = @ + k]
  /\ UNCHANGED <<dir, content, flags>>

\* New bytes replace those at the position, and go on after the end.
Write(f) ==
  /\ "opened" \in flags[f] /\ "readonly" \notin flags[f]
  /\ \E k \in 0 .. Len(content'[f]) :
       /\ head' = [head EXCEPT ![f] = @ + k]
       /\ \E s \in [1 .. k -> Bytes] :
            content' = [content EXCEPT ![f] = First(@, head[f]) \o s \o From(@, head[f] + k)]
  /\ UNCHANGED <<dir, flags, read>>

Move(f) ==
  /\ \E p \in 0 .. Len(content[f]) : head' = [head EXCEPT ![f] = p]
  /\ UNCHANGED <<dir, content, flags, read>>

\* The bytes up to the smaller of the two sizes stay; nothing is said of new ones.
Resize(f) ==
  LET kept == IF Len(content'[f]) < Len(content[f]) THEN Len(content'[f]) ELSE Len(content[f])
  IN  /\ First(content'[f], kept) = First(content[f], kept)
      /\ \A g \in Files \ {f} : content'[g] = content[g]
      /\ \/ head' = head
         \/ head[f] > Len(content'[f]) /\ head' = [head EXCEPT ![f] = Len(content'[f])]
      /\ UNCHANGED <<dir, flags, read>>

SetFlags(f) ==
  /\ \E s \in SUBSET Flag : flags' = [flags EXCEPT ![f] = s]
  /\ UNCHANGED <<dir, content, head, read>>

Open(f) ==
  /\ "opened" \notin flags[f]
  /\ \E s \in SUBSET Flag : "opened" \in s /\ flags' = [flags EXCEPT ![f] = s]
  /\ head' = [head EXCEPT ![f] = 0]
  /\ UNCHANGED <<dir, content, read>>

\* A name gets a new, empty file; one it named before is gone.
Create(n) ==
  /\ dir[n] # None => "opened" \notin flags[dir[n]]
  /\ \E f \in Files \ Live, s \in SUBSET Flag :
       /\ "opened" \in s
       /\ dir' = [dir EXCEPT ![n] = f]
       /\ content' = [g \in Files |-> IF g \in {f, dir[n]} THEN <<>> ELSE content[g]]
       /\ head' = [g \in Files |-> IF g \in {f, dir[n]} THEN 0 ELSE head[g]]
       /\ flags' = [g \in Files |-> IF g = f THEN s ELSE IF g = dir[n] THEN {} ELSE flags[g]]
  /\ UNCHANGED read

Destroy(n) ==
  /\ dir[n] # None
  /\ "opened" \notin flags[dir[n]]
  /\ dir' = [dir EXCEPT ![n] = None]
  /\ content' = [content EXCEPT ![dir[n]] = <<>>]
  /\ head' = [head EXCEPT ![dir[n]] = 0]
  /\ flags' = [flags EXCEPT ![dir[n]] = {}]
  /\ UNCHANGED read

Next ==
  \/ \E f \in Live : Read(f) \/ Write(f) \/ Move(f) \/ Resize(f) \/ SetFlags(f) \/ Open(f)
  \/ \E n \in Names : Create(n) \/ Destroy(n)

Spec == Init /\ [][Next]_vars
=============================================================================
