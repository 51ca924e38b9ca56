------------------------- MODULE SequenceTrieProofs -------------------------
(***************************************************************************)
(* The safety of SequenceTrie, for any threads, elements, chunks and       *)
(* widths of the reference count; and that SequenceTrie implements         *)
(* PathStore if every thread has a shard of its own.                       *)
(***************************************************************************)
EXTENDS SequenceTrie, SequenceTheorems, CountingLemmas

\* What a link may lead to: the nodes that an extend has initialised, and ROOT.
Known == {n \in Nodes : n = ROOT \/ element[n] \in Elements}

Backed == \A n \in Known : ChunkOf(n) \in chunks

\* No link, free list or call leads to a node that was never initialised.
Closed ==
  /\ \A n \in Nodes : parent[n] \in Known \cup {NONE}
  /\ \A s \in Shards : head[s] \in Known \cup {NONE}
  /\ \A t \in Threads : base[t] \in Known \cup {NONE} /\ nxt[t] \in Known \cup {NONE}
  /\ \A n \in Nodes : refs[n] > 0 => n \in Known

\* The nodes of the calls under way.
InCalls ==
  \A t \in Threads :
    /\ pc[t] \in {"pop", "link", "drop", "free", "push"} => cur[t] \in Known
    /\ pc[t] = "walk" => cur[t] \in Known \cup {NONE}
    /\ pc[t] \in {"chunk", "grow", "init"} => cur[t] \in Nodes
    /\ pc[t] = "init" => ChunkOf(cur[t]) \in chunks
    /\ pc[t] \in {"pop", "bump", "chunk", "grow", "init", "link"} =>
         elem[t] \in Elements /\ base[t] \in Known

\* What every step keeps, an overflow or not.
Sound == TypeOK /\ Backed /\ Closed /\ InCalls

-----------------------------------------------------------------------------
(* Nodes and chunks.                                                       *)

\* The nodes are counted from ROOT, and they lie in the chunks.
LEMMA NodesAre ==
  /\ MaxNodes \in Nat \ {0} /\ Nodes \subseteq Nat /\ ROOT \in Nodes
  /\ NONE \notin Nodes /\ NONE # ROOT /\ NONE \notin Elements
  /\ \A n \in Nodes : n < MaxNodes
  /\ IsFiniteSet(Nodes) /\ Cardinality(Nodes) = MaxNodes
<1>1. ChunkSize \in Nat \ {0} /\ MaxChunks \in Nat \ {0}
  BY SizesAssumption
<1>2. MaxNodes \in Nat \ {0}
  BY <1>1 DEF MaxNodes
<1>3. Nodes \subseteq Nat /\ ROOT \in Nodes /\ NONE \notin Nodes /\ NONE # ROOT
  BY <1>2 DEF Nodes, ROOT, NONE
<1>4. IsFiniteSet(Nodes) /\ Cardinality(Nodes) = MaxNodes
  <2>1. 0 \in Int /\ MaxNodes - 1 \in Int
    BY <1>2
  <2>2. IsFiniteSet(0 .. MaxNodes - 1)
        /\ Cardinality(0 .. MaxNodes - 1) = IF 0 > MaxNodes - 1 THEN 0 ELSE (MaxNodes - 1) - 0 + 1
    BY <2>1, FS_Interval
  <2> QED
    BY <1>2, <2>2 DEF Nodes
<1>5. \A n \in Nodes : n < MaxNodes
  BY <1>2 DEF Nodes
<1> QED
  BY <1>2, <1>3, <1>4, <1>5, ElementsAssumption

\* A number is a node exactly if it lies in one of the chunks.
LEMMA ChunkOfNode ==
  ASSUME NEW n \in Nat
  PROVE  /\ ChunkOf(n) \in Nat
         /\ n \in Nodes <=> ChunkOf(n) < MaxChunks
<1> DEFINE q == n \div ChunkSize
           r == n % ChunkSize
<1>1. ChunkSize \in Nat \ {0} /\ MaxChunks \in Nat \ {0}
  BY SizesAssumption
<1>2. q \in Nat /\ r \in 0 .. ChunkSize - 1 /\ n = ChunkSize * q + r
  BY <1>1
<1>3. MaxNodes = ChunkSize * MaxChunks /\ MaxNodes \in Nat
  BY <1>1 DEF MaxNodes
<1>4. n \in Nodes <=> n < MaxNodes
  BY <1>3 DEF Nodes
<1>5. ChunkOf(n) = q
  BY DEF ChunkOf
<1> HIDE DEF q, r
<1>6. CASE q < MaxChunks
  <2>1. ChunkSize * q + ChunkSize <= ChunkSize * MaxChunks
    BY <1>1, <1>2, <1>6
  <2> DEFINE x == ChunkSize * q
  <2>2. x \in Nat /\ n = x + r /\ x + ChunkSize <= MaxNodes
    BY <1>1, <1>2, <1>3, <2>1
  <2> HIDE DEF x
  <2>3. n < MaxNodes
    BY <1>1, <1>2, <1>3, <2>2
  <2> QED
    BY <1>2, <1>4, <1>5, <1>6, <2>3
<1>7. CASE ~(q < MaxChunks)
  <2>1. ChunkSize * q >= ChunkSize * MaxChunks
    BY <1>1, <1>2, <1>7
  <2> DEFINE x == ChunkSize * q
  <2>2. x \in Nat /\ n = x + r /\ x >= MaxNodes
    BY <1>1, <1>2, <1>3, <2>1
  <2> HIDE DEF x
  <2>3. ~(n < MaxNodes)
    BY <1>1, <1>2, <1>3, <2>2
  <2> QED
    BY <1>2, <1>4, <1>5, <1>7, <2>3
<1> QED
  BY <1>6, <1>7

\* At the start only ROOT is known, and the first chunk exists.
LEMMA InitSound == Init => Sound
<1> SUFFICES ASSUME Init PROVE Sound
  OBVIOUS
<1>1. Known = {ROOT}
  BY NodesAre DEF Init, Known
<1>2. ChunkOf(ROOT) = 0
  BY SizesAssumption DEF ChunkOf, ROOT
<1>3. TypeOK
  <2>1. 0 \in 0 .. RefMax /\ 1 \in 0 .. RefMax /\ 0 \in 0 .. MaxChunks - 1
    BY SizesAssumption
  <2>2. 1 \in 1 .. MaxNodes + MaxOverrun
    BY SizesAssumption, NodesAre
  <2>3. << >> \in Seq(Elements)
    OBVIOUS
  <2>4. \A n \in Nodes : (IF n = ROOT THEN 1 ELSE 0) \in 0 .. RefMax
    BY <2>1
  <2> QED
    BY <2>1, <2>2, <2>3, <2>4, NodesAre DEF Init, TypeOK
<1>4. Backed
  BY <1>1, <1>2 DEF Init, Backed
<1>5. Closed
  BY <1>1 DEF Init, Closed
<1>6. InCalls
  BY DEF Init, InCalls
<1> QED
  BY <1>3, <1>4, <1>5, <1>6 DEF Sound

-----------------------------------------------------------------------------
(* What every step keeps.                                                  *)

\* A count that goes up or down by one wraps within its width.
LEMMA CountStays ==
  ASSUME NEW c \in [Nodes -> 0 .. RefMax], NEW n
  PROVE  /\ [c EXCEPT ![n] = (@ + 1) % (RefMax + 1)] \in [Nodes -> 0 .. RefMax]
         /\ [c EXCEPT ![n] = (@ - 1) % (RefMax + 1)] \in [Nodes -> 0 .. RefMax]
<1>1. \A x \in 0 .. RefMax : (x + 1) % (RefMax + 1) \in 0 .. RefMax
                             /\ (x - 1) % (RefMax + 1) \in 0 .. RefMax
  BY SizesAssumption
<1> QED
  BY <1>1

\* A call that returns leaves its thread's variables of their types.
LocalOK ==
  /\ pc \in [Threads -> {"idle", "pop", "bump", "chunk", "grow", "init", "link", "throw",
                         "drop", "free", "push", "walk"}]
  /\ base \in [Threads -> Nodes \cup {NONE}]
  /\ elem \in [Threads -> Elements \cup {NONE}]
  /\ cur \in [Threads -> Nodes \cup {NONE}]
  /\ nxt \in [Threads -> Nodes \cup {NONE}]
  /\ out \in [Threads -> Seq(Elements)]

LEMMA ReturnTypes ==
  ASSUME TypeOK, NEW t \in Threads, Return(t)
  PROVE  LocalOK'
<1>1. << >> \in Seq(Elements)
  OBVIOUS
<1> QED
  BY <1>1 DEF LocalOK, TypeOK, Return, Goto

\* The step of a call that changes neither the free lists nor the chunks.
LEMMA TypesFrom ==
  ASSUME TypeOK, refCount' \in [Nodes -> 0 .. RefMax], refs' \in [Nodes -> Nat],
         parent' \in [Nodes -> Nodes \cup {NONE}], LocalOK',
         UNCHANGED <<element, chunks, bump, head, exhausted, thrown>>
  PROVE  TypeOK'
BY DEF TypeOK, LocalOK

\* The steps, one by one, lead only to known nodes and keep their chunks.
LEMMA BeginExtendSound ==
  ASSUME Sound, NEW t \in Threads, NEW p \in Nodes, NEW e \in Elements, BeginExtend(t, p, e)
  PROVE  Sound'
<1>1. TypeOK'
  BY NodesAre, ZenonT(30) DEF Sound, TypeOK, Closed, InCalls, Known, Held, Shards, BeginExtend, Goto, Return, store, local
<1>2. Backed'
  BY NodesAre DEF Sound, TypeOK, Backed, Known, BeginExtend, Goto, Return, store, local
<1>3. Closed'
  <2>1. Known' = Known /\ UNCHANGED <<parent, head, refs>>
    BY DEF BeginExtend, store, Known
  <2>2. p \in Known
    BY DEF Sound, Closed, Held, Known, BeginExtend
  <2>3. head[ShardOf[t]] # NONE => parent[head[ShardOf[t]]] \in Known \cup {NONE}
    BY DEF Sound, Closed, Known, Shards
  <2>4. \A u \in Threads : base'[u] \in Known \cup {NONE}
    BY <2>2 DEF Sound, TypeOK, Closed, BeginExtend
  <2>5. \A u \in Threads : nxt'[u] \in Known \cup {NONE}
    BY <2>3 DEF Sound, TypeOK, Closed, BeginExtend
  <2> QED
    BY <2>1, <2>4, <2>5 DEF Sound, Closed
<1>4. InCalls'
  BY NodesAre DEF Sound, TypeOK, Closed, InCalls, Known, Held, Shards, BeginExtend, Goto, Return, store, local
<1> QED
  BY <1>1, <1>2, <1>3, <1>4 DEF Sound

LEMMA PopFreeSound ==
  ASSUME Sound, NEW t \in Threads, PopFree(t)
  PROVE  Sound'
<1>1. TypeOK'
  BY NodesAre DEF Sound, TypeOK, Closed, InCalls, Known, Held, Shards, PopFree, Goto, Return, store, local
<1>2. Backed'
  BY NodesAre DEF Sound, TypeOK, Backed, Known, PopFree, Goto, Return, store, local
<1>3. Closed'
  BY NodesAre DEF Sound, TypeOK, Closed, InCalls, Known, Held, Shards, PopFree, Goto, Return, store, local
<1>4. InCalls'
  <2>1. cur[t] \in Known /\ Known \subseteq Nodes /\ ChunkOf(cur[t]) \in chunks
    BY DEF Sound, InCalls, Backed, Known, PopFree
  <2>2. Known' = Known /\ chunks' = chunks
    BY DEF PopFree, Known
  <2> QED
    BY <2>1, <2>2 DEF Sound, TypeOK, InCalls, PopFree, Goto
<1> QED
  BY <1>1, <1>2, <1>3, <1>4 DEF Sound

LEMMA BumpFreshSound ==
  ASSUME Sound, NEW t \in Threads, BumpFresh(t)
  PROVE  Sound'
<1>0. bump \in Nodes /\ bump + 1 \in 1 .. MaxNodes + MaxOverrun
  <2>1. bump \in Nat /\ ~(ChunkOf(bump) >= MaxChunks)
    BY NodesAre, SizesAssumption DEF Sound, TypeOK, BumpFresh, AtCeiling
  <2>2. bump \in Nodes
    BY <2>1, ChunkOfNode, SizesAssumption
  <2> QED
    BY <2>1, <2>2, NodesAre, SizesAssumption
<1>1. TypeOK'
  BY <1>0, NodesAre DEF Sound, TypeOK, BumpFresh, Goto
<1>2. Backed'
  BY NodesAre DEF Sound, TypeOK, Backed, Known, BumpFresh, Goto, Return, store, local, AtCeiling
<1>3. Closed'
  BY NodesAre DEF Sound, TypeOK, Closed, InCalls, Known, Held, Shards, BumpFresh, Goto, Return, store, local, AtCeiling
<1>4. InCalls'
  BY <1>0, NodesAre DEF Sound, TypeOK, Closed, InCalls, Known, BumpFresh, Goto
<1> QED
  BY <1>1, <1>2, <1>3, <1>4 DEF Sound

LEMMA BumpExhaustedSound ==
  ASSUME Sound, NEW t \in Threads, BumpExhausted(t)
  PROVE  Sound'
<1>1. TypeOK'
  <2>1. LocalOK'
    BY ReturnTypes DEF Sound, BumpExhausted
  <2>2. bump' \in 1 .. MaxNodes + MaxOverrun
    BY NodesAre, SizesAssumption DEF Sound, TypeOK, BumpExhausted
  <2> QED
    BY <2>1, <2>2 DEF Sound, TypeOK, LocalOK, BumpExhausted
<1>2. Backed'
  BY NodesAre DEF Sound, TypeOK, Backed, Known, BumpExhausted, Goto, Return, store, local, AtCeiling
<1>3. Closed'
  BY NodesAre DEF Sound, TypeOK, Closed, InCalls, Known, Held, Shards, BumpExhausted, Goto, Return, store, local, AtCeiling
<1>4. InCalls'
  BY NodesAre DEF Sound, TypeOK, Closed, InCalls, Known, Held, Shards, BumpExhausted, Goto, Return, store, local, AtCeiling
<1> QED
  BY <1>1, <1>2, <1>3, <1>4 DEF Sound

LEMMA LookForChunkSound ==
  ASSUME Sound, NEW t \in Threads, LookForChunk(t)
  PROVE  Sound'
<1>1. TypeOK'
  BY NodesAre DEF Sound, TypeOK, Closed, InCalls, Known, Held, Shards, LookForChunk, Goto, Return, store, local, NeedsChunk
<1>2. Backed'
  BY NodesAre DEF Sound, TypeOK, Backed, Known, LookForChunk, Goto, Return, store, local, NeedsChunk
<1>3. Closed'
  BY NodesAre DEF Sound, TypeOK, Closed, InCalls, Known, Held, Shards, LookForChunk, Goto, Return, store, local, NeedsChunk
<1>4. InCalls'
  BY NodesAre DEF Sound, TypeOK, Closed, InCalls, Known, Held, Shards, LookForChunk, Goto, Return, store, local, NeedsChunk
<1> QED
  BY <1>1, <1>2, <1>3, <1>4 DEF Sound

LEMMA GrowSound ==
  ASSUME Sound, NEW t \in Threads, Grow(t)
  PROVE  Sound'
<1>1. TypeOK'
  <2>1. cur[t] \in Nodes
    BY DEF Sound, InCalls, Grow
  <2>2. ChunkOf(cur[t]) \in 0 .. MaxChunks - 1
    <3>1. PICK n \in Nodes : n = cur[t]
      BY <2>1
    <3>2. n \in Nat
      BY NodesAre
    <3>3. ChunkOf(n) \in Nat /\ ChunkOf(n) < MaxChunks
      BY <3>2, ChunkOfNode
    <3> QED
      BY <3>1, <3>3, SizesAssumption
  <2>3. chunks' \subseteq 0 .. MaxChunks - 1
    BY <2>2 DEF Sound, TypeOK, Grow
  <2>4. refCount' \in [Nodes -> 0 .. RefMax]
    BY SizesAssumption DEF Sound, TypeOK, Grow
  <2>5. parent' \in [Nodes -> Nodes \cup {NONE}]
    BY DEF Sound, TypeOK, Grow
  <2>6. LocalOK'
    BY DEF Sound, TypeOK, LocalOK, Grow, Goto
  <2> QED
    BY <2>3, <2>4, <2>5, <2>6 DEF Sound, TypeOK, LocalOK, Grow
<1>2. Backed'
  BY NodesAre DEF Sound, TypeOK, Backed, Known, Grow, Goto, Return, store, local, ChunkIsNew
<1>3. Closed'
  BY NodesAre DEF Sound, TypeOK, Closed, InCalls, Known, Held, Shards, Grow, Goto, Return, store, local, ChunkIsNew
<1>4. InCalls'
  BY NodesAre DEF Sound, TypeOK, Closed, InCalls, Known, Held, Shards, Grow, Goto, Return, store, local, ChunkIsNew
<1> QED
  BY <1>1, <1>2, <1>3, <1>4 DEF Sound

LEMMA InitNodeSound ==
  ASSUME Sound, NEW t \in Threads, InitNode(t)
  PROVE  Sound'
<1>1. TypeOK'
  <2>1. 1 \in 0 .. RefMax
    BY SizesAssumption
  <2> QED
    BY <2>1, NodesAre DEF Sound, TypeOK, Closed, InCalls, Known, InitNode, Goto
<1>2. Backed'
  <2>1. cur[t] \in Nodes /\ ChunkOf(cur[t]) \in chunks /\ chunks' = chunks
    BY DEF Sound, InCalls, InitNode
  <2>2. ASSUME NEW n \in Nodes, n # cur[t], n \in Known' PROVE n \in Known
    BY <2>2 DEF Sound, TypeOK, Known, InitNode
  <2>3. Known' \subseteq Nodes
    BY DEF Known
  <2> QED
    BY <2>1, <2>2, <2>3 DEF Sound, Backed
<1>3. Closed'
  BY NodesAre DEF Sound, TypeOK, Closed, InCalls, Known, Held, Shards, InitNode, Goto, Return, store, local
<1>4. InCalls'
  BY NodesAre DEF Sound, TypeOK, Closed, InCalls, Known, Held, Shards, InitNode, Goto, Return, store, local
<1> QED
  BY <1>1, <1>2, <1>3, <1>4 DEF Sound

LEMMA LinkSound ==
  ASSUME Sound, NEW t \in Threads, Link(t)
  PROVE  Sound'
<1>1. TypeOK'
  <2>1. refCount' \in [Nodes -> 0 .. RefMax]
    BY CountStays DEF Sound, TypeOK, Link, IncRef
  <2>2. LocalOK'
    BY ReturnTypes DEF Sound, Link
  <2>3. refs' \in [Nodes -> Nat]
    BY DEF Sound, TypeOK, InCalls, Known, Link
  <2> QED
    BY <2>1, <2>2, <2>3, TypesFrom DEF Sound, TypeOK, Link
<1>2. Backed'
  BY NodesAre DEF Sound, TypeOK, Backed, Known, Link, Goto, Return, store, local, IncRef, Overflows
<1>3. Closed'
  BY NodesAre DEF Sound, TypeOK, Closed, InCalls, Known, Held, Shards, Link, Goto, Return, store, local, IncRef, Overflows
<1>4. InCalls'
  BY NodesAre DEF Sound, TypeOK, Closed, InCalls, Known, Held, Shards, Link, Goto, Return, store, local, IncRef, Overflows
<1> QED
  BY <1>1, <1>2, <1>3, <1>4 DEF Sound

LEMMA LinkOverflowsSound ==
  ASSUME Sound, NEW t \in Threads, LinkOverflows(t)
  PROVE  Sound'
<1>1. TypeOK'
  <2>1. refCount' \in [Nodes -> 0 .. RefMax]
    BY CountStays DEF Sound, TypeOK, LinkOverflows, IncRef
  <2>2. LocalOK'
    BY DEF Sound, TypeOK, LocalOK, LinkOverflows, Goto
  <2> QED
    BY <2>1, <2>2, TypesFrom DEF Sound, TypeOK, LinkOverflows
<1>2. Backed'
  BY NodesAre DEF Sound, TypeOK, Backed, Known, LinkOverflows, Goto, Return, store, local, IncRef, Overflows
<1>3. Closed'
  BY NodesAre DEF Sound, TypeOK, Closed, InCalls, Known, Held, Shards, LinkOverflows, Goto, Return, store, local, IncRef, Overflows
<1>4. InCalls'
  BY NodesAre DEF Sound, TypeOK, Closed, InCalls, Known, Held, Shards, LinkOverflows, Goto, Return, store, local, IncRef, Overflows
<1> QED
  BY <1>1, <1>2, <1>3, <1>4 DEF Sound

LEMMA AcquireSound ==
  ASSUME Sound, NEW t \in Threads, NEW n \in Nodes, Acquire(t, n)
  PROVE  Sound'
<1>1. TypeOK'
  <2>1. refCount' \in [Nodes -> 0 .. RefMax]
    BY CountStays DEF Sound, TypeOK, Acquire, IncRef
  <2>2. LocalOK'
    BY DEF Sound, TypeOK, LocalOK, Acquire, local
  <2>3. refs' \in [Nodes -> Nat]
    BY DEF Sound, TypeOK, Acquire
  <2> QED
    BY <2>1, <2>2, <2>3, TypesFrom DEF Sound, TypeOK, Acquire
<1>2. Backed'
  BY NodesAre DEF Sound, TypeOK, Backed, Known, Acquire, Goto, Return, store, local, IncRef, Overflows
<1>3. Closed'
  BY NodesAre DEF Sound, TypeOK, Closed, InCalls, Known, Held, Shards, Acquire, Goto, Return, store, local, IncRef, Overflows
<1>4. InCalls'
  BY NodesAre DEF Sound, TypeOK, Closed, InCalls, Known, Held, Shards, Acquire, Goto, Return, store, local, IncRef, Overflows
<1> QED
  BY <1>1, <1>2, <1>3, <1>4 DEF Sound

LEMMA AcquireOverflowsSound ==
  ASSUME Sound, NEW t \in Threads, NEW n \in Nodes, AcquireOverflows(t, n)
  PROVE  Sound'
<1>1. TypeOK'
  BY NodesAre, SMTT(30) DEF Sound, TypeOK, Closed, InCalls, Known, Held, Shards, AcquireOverflows, Goto, Return, store, local, IncRef, Overflows
<1>2. Backed'
  BY NodesAre DEF Sound, TypeOK, Backed, Known, AcquireOverflows, Goto, Return, store, local, IncRef, Overflows
<1>3. Closed'
  BY NodesAre DEF Sound, TypeOK, Closed, InCalls, Known, Held, Shards, AcquireOverflows, Goto, Return, store, local, IncRef, Overflows
<1>4. InCalls'
  BY NodesAre DEF Sound, TypeOK, Closed, InCalls, Known, Held, Shards, AcquireOverflows, Goto, Return, store, local, IncRef, Overflows
<1> QED
  BY <1>1, <1>2, <1>3, <1>4 DEF Sound

LEMMA BeginReleaseSound ==
  ASSUME Sound, NEW t \in Threads, NEW n \in Nodes, BeginRelease(t, n)
  PROVE  Sound'
<1>0. /\ refCount' \in [Nodes -> 0 .. RefMax]
      /\ \/ Return(t)
         \/ Goto(t, "free", n) /\ UNCHANGED <<base, elem, nxt, out>>
  BY CountStays DEF Sound, TypeOK, BeginRelease, Decrement
<1>1. TypeOK'
  <2>1. LocalOK'
    <3>1. CASE Return(t)
      BY <3>1, ReturnTypes DEF Sound
    <3>2. CASE Goto(t, "free", n) /\ UNCHANGED <<base, elem, nxt, out>>
      BY <3>2 DEF Sound, TypeOK, LocalOK, Goto, InCalls, Known, BeginRelease
    <3> QED
      BY <1>0, <3>1, <3>2
  <2>2. refs' \in [Nodes -> Nat]
    BY DEF Sound, TypeOK, BeginRelease
  <2> QED
    BY <1>0, <2>1, <2>2, TypesFrom DEF Sound, TypeOK, BeginRelease
<1>2. Backed'
  BY NodesAre DEF Sound, TypeOK, Backed, Known, BeginRelease, Goto, Return, store, local, Decrement
<1>3. Closed'
  BY NodesAre DEF Sound, TypeOK, Closed, InCalls, Known, Held, Shards, BeginRelease, Goto, Return, store, local, Decrement
<1>4. InCalls'
  <2>1. UNCHANGED <<element, chunks>> /\ Known' = Known
    BY DEF BeginRelease, Known
  <2>2. n \in Known
    BY DEF Sound, Closed, InCalls, BeginRelease
  <2>3. CASE Return(t)
    BY <2>1, <2>3 DEF Sound, TypeOK, InCalls, Return, Goto
  <2>4. CASE Goto(t, "free", n) /\ UNCHANGED <<base, elem, nxt, out>>
    BY <2>1, <2>2, <2>4 DEF Sound, TypeOK, InCalls, Goto
  <2> QED
    BY <1>0, <2>3, <2>4
<1> QED
  BY <1>1, <1>2, <1>3, <1>4 DEF Sound

LEMMA DropParentSound ==
  ASSUME Sound, NEW t \in Threads, DropParent(t)
  PROVE  Sound'
<1>0. /\ refCount' \in [Nodes -> 0 .. RefMax]
      /\ \/ Return(t)
         \/ Goto(t, "free", cur[t]) /\ UNCHANGED <<base, elem, nxt, out>>
  BY CountStays DEF Sound, TypeOK, DropParent, Decrement
<1>1. TypeOK'
  <2>1. LocalOK'
    <3>1. CASE Return(t)
      BY <3>1, ReturnTypes DEF Sound
    <3>2. CASE Goto(t, "free", cur[t]) /\ UNCHANGED <<base, elem, nxt, out>>
      BY <3>2 DEF Sound, TypeOK, LocalOK, Goto, InCalls, Known, DropParent
    <3> QED
      BY <1>0, <3>1, <3>2
  <2>2. refs' \in [Nodes -> Nat]
    BY DEF Sound, TypeOK, DropParent
  <2> QED
    BY <1>0, <2>1, <2>2, TypesFrom DEF Sound, TypeOK, DropParent
<1>2. Backed'
  BY NodesAre DEF Sound, TypeOK, Backed, Known, DropParent, Goto, Return, store, local, Decrement
<1>3. Closed'
  BY NodesAre DEF Sound, TypeOK, Closed, InCalls, Known, Held, Shards, DropParent, Goto, Return, store, local, Decrement
<1>4. InCalls'
  <2>1. UNCHANGED <<element, chunks>> /\ Known' = Known
    BY DEF DropParent, Known
  <2>2. cur[t] \in Known
    BY DEF Sound, Closed, InCalls, DropParent
  <2>3. CASE Return(t)
    BY <2>1, <2>3 DEF Sound, TypeOK, InCalls, Return, Goto
  <2>4. CASE Goto(t, "free", cur[t]) /\ UNCHANGED <<base, elem, nxt, out>>
    BY <2>1, <2>2, <2>4 DEF Sound, TypeOK, InCalls, Goto
  <2> QED
    BY <1>0, <2>3, <2>4
<1> QED
  BY <1>1, <1>2, <1>3, <1>4 DEF Sound

LEMMA FreeLinkSound ==
  ASSUME Sound, NEW t \in Threads, FreeLink(t)
  PROVE  Sound'
<1>1. TypeOK'
  <2>1. cur[t] \in Nodes /\ head[ShardOf[t]] \in Nodes \cup {NONE}
    BY DEF Sound, TypeOK, InCalls, Known, Shards, FreeLink
  <2>2. parent' \in [Nodes -> Nodes \cup {NONE}]
    BY <2>1 DEF Sound, TypeOK, FreeLink
  <2>3. LocalOK'
    BY <2>1 DEF Sound, TypeOK, LocalOK, FreeLink, Goto, Cascade
  <2> QED
    BY <2>2, <2>3, TypesFrom DEF Sound, TypeOK, FreeLink
<1>2. Backed'
  BY NodesAre DEF Sound, TypeOK, Backed, Known, FreeLink, Goto, Return, store, local, Cascade
<1>3. Closed'
  <2>1. cur[t] \in Known /\ head[ShardOf[t]] \in Known \cup {NONE} /\ Known' = Known
    BY DEF Sound, TypeOK, InCalls, Closed, Known, Shards, FreeLink
  <2>2. \A n \in Nodes : parent'[n] \in Known \cup {NONE}
    BY <2>1 DEF Sound, TypeOK, Closed, FreeLink
  <2>3. \A u \in Threads : base'[u] \in Known \cup {NONE} /\ nxt'[u] \in Known \cup {NONE}
    BY <2>1 DEF Sound, TypeOK, Closed, FreeLink, Cascade, Known
  <2> QED
    BY <2>1, <2>2, <2>3 DEF Sound, Closed, FreeLink
<1>4. InCalls'
  BY NodesAre DEF Sound, TypeOK, Closed, InCalls, Known, Held, Shards, FreeLink, Goto, Return, store, local, Cascade
<1> QED
  BY <1>1, <1>2, <1>3, <1>4 DEF Sound

LEMMA FreePushSound ==
  ASSUME Sound, NEW t \in Threads, FreePush(t)
  PROVE  Sound'
<1>1. TypeOK'
  <2>1. head' \in [Shards -> Nodes \cup {NONE}]
    BY DEF Sound, TypeOK, InCalls, Known, FreePush
  <2>2. LocalOK'
    <3>1. CASE Return(t)
      BY <3>1, ReturnTypes DEF Sound
    <3>2. CASE ~Return(t)
      BY <3>2, NodesAre DEF Sound, TypeOK, LocalOK, FreePush, Goto
    <3> QED
      BY <3>1, <3>2
  <2> QED
    BY <2>1, <2>2 DEF Sound, TypeOK, LocalOK, FreePush
<1>2. Backed'
  BY NodesAre DEF Sound, TypeOK, Backed, Known, FreePush, Goto, Return, store, local
<1>3. Closed'
  BY NodesAre DEF Sound, TypeOK, Closed, InCalls, Known, Held, Shards, FreePush, Goto, Return, store, local
<1>4. InCalls'
  BY NodesAre DEF Sound, TypeOK, Closed, InCalls, Known, Held, Shards, FreePush, Goto, Return, store, local
<1> QED
  BY <1>1, <1>2, <1>3, <1>4 DEF Sound

LEMMA BeginWalkSound ==
  ASSUME Sound, NEW t \in Threads, NEW n \in Nodes, BeginWalk(t, n)
  PROVE  Sound'
<1>1. TypeOK'
  BY NodesAre DEF Sound, TypeOK, Closed, InCalls, Known, Held, Shards, BeginWalk, Goto, Return, store, local
<1>2. Backed'
  BY NodesAre DEF Sound, TypeOK, Backed, Known, BeginWalk, Goto, Return, store, local
<1>3. Closed'
  BY NodesAre DEF Sound, TypeOK, Closed, InCalls, Known, Held, Shards, BeginWalk, Goto, Return, store, local
<1>4. InCalls'
  BY NodesAre DEF Sound, TypeOK, Closed, InCalls, Known, Held, Shards, BeginWalk, Goto, Return, store, local
<1> QED
  BY <1>1, <1>2, <1>3, <1>4 DEF Sound

LEMMA WalkSound ==
  ASSUME Sound, NEW t \in Threads, Walk(t)
  PROVE  Sound'
<1>1. TypeOK'
  <2>1. cur[t] \in Nodes /\ element[cur[t]] \in Elements
    BY DEF Sound, InCalls, Known, Walk
  <2>2. Collect(t) \in Seq(Elements)
    <3>1. <<element[cur[t]]>> \in Seq(Elements) /\ out[t] \in Seq(Elements)
      BY <2>1 DEF Sound, TypeOK
    <3> QED
      BY <3>1 DEF Collect
  <2>3. out' \in [Threads -> Seq(Elements)]
    BY <2>2 DEF Sound, TypeOK, Walk
  <2>4. LocalOK'
    BY <2>1, <2>3 DEF Sound, TypeOK, LocalOK, Walk, Goto
  <2> QED
    BY <2>4 DEF Sound, TypeOK, LocalOK, Walk, store
<1>2. Backed'
  BY NodesAre DEF Sound, TypeOK, Backed, Known, Walk, Goto, Return, store, local, Collect
<1>3. Closed'
  BY NodesAre DEF Sound, TypeOK, Closed, InCalls, Known, Held, Shards, Walk, Goto, Return, store, local, Collect
<1>4. InCalls'
  BY NodesAre, ZenonT(30) DEF Sound, TypeOK, Closed, InCalls, Known, Held, Shards, Walk, Goto, Return, store, local, Collect
<1> QED
  BY <1>1, <1>2, <1>3, <1>4 DEF Sound

LEMMA WalkEndsSound ==
  ASSUME Sound, NEW t \in Threads, WalkEnds(t)
  PROVE  Sound'
<1>1. TypeOK'
  BY NodesAre DEF Sound, TypeOK, Closed, InCalls, Known, Held, Shards, WalkEnds, Goto, Return, store, local
<1>2. Backed'
  BY NodesAre DEF Sound, TypeOK, Backed, Known, WalkEnds, Goto, Return, store, local
<1>3. Closed'
  BY NodesAre DEF Sound, TypeOK, Closed, InCalls, Known, Held, Shards, WalkEnds, Goto, Return, store, local
<1>4. InCalls'
  BY NodesAre DEF Sound, TypeOK, Closed, InCalls, Known, Held, Shards, WalkEnds, Goto, Return, store, local
<1> QED
  BY <1>1, <1>2, <1>3, <1>4 DEF Sound


LEMMA SoundInductive == Sound /\ [Next]_vars => Sound'
<1> SUFFICES ASSUME Sound, [Next]_vars PROVE Sound'
  OBVIOUS
<1>1. ASSUME NEW t \in Threads, Begin(t) PROVE Sound'
  BY <1>1, BeginExtendSound, AcquireSound, AcquireOverflowsSound, BeginReleaseSound,
     BeginWalkSound DEF Begin
<1>2. ASSUME NEW t \in Threads, Throw(t) PROVE Sound'
  BY <1>2 DEF Throw, store, local, Sound, TypeOK, Backed, Closed, InCalls, Known
<1>3. ASSUME NEW t \in Threads, Continue(t) PROVE Sound'
  BY <1>2, <1>3, PopFreeSound, BumpFreshSound, BumpExhaustedSound, LookForChunkSound, GrowSound,
     InitNodeSound, LinkSound, LinkOverflowsSound, DropParentSound, FreeLinkSound, FreePushSound,
     WalkSound, WalkEndsSound DEF Continue
<1>4. CASE UNCHANGED vars
  BY <1>4 DEF vars, store, local, Sound, TypeOK, Backed, Closed, InCalls, Known
<1> QED
  BY <1>1, <1>3, <1>4 DEF Next

LEMMA Soundness == Spec => []Sound
BY InitSound, SoundInductive, PTL DEF Spec

-----------------------------------------------------------------------------
(* Chains of links.                                                        *)

ChainStep(c, links, first, last, m) ==
  [k \in 0 .. m |-> IF k = 0 THEN first
                    ELSE IF c[k - 1] \in last THEN NONE ELSE links[c[k - 1]]]

\* A chain of any length exists: one node more is one link more.
LEMMA ChainExists ==
  ASSUME NEW links, NEW first, NEW last, NEW m \in Nat
  PROVE  \E c : c = ChainStep(c, links, first, last, m)
<1> DEFINE S == {n \in Nat : \E c : c = ChainStep(c, links, first, last, n)}
<1>1. 0 \in S
  <2> DEFINE c == [k \in 0 .. 0 |-> first]
  <2>1. c = ChainStep(c, links, first, last, 0)
    BY DEF ChainStep
  <2> HIDE DEF c
  <2>2. \E x : x = ChainStep(x, links, first, last, 0)
    BY <2>1
  <2> QED
    BY <2>2
<1>2. ASSUME NEW n \in Nat, n \in S PROVE n + 1 \in S
  <2>1. PICK c : c = ChainStep(c, links, first, last, n)
    BY <1>2
  <2> DEFINE d == [k \in 0 .. n + 1 |->
                     IF k <= n THEN c[k] ELSE IF c[n] \in last THEN NONE ELSE links[c[n]]]
             e == ChainStep(d, links, first, last, n + 1)
  <2>2. ASSUME NEW k \in 0 .. n + 1 PROVE d[k] = e[k]
    <3>1. CASE k = 0
      <4>1. d[k] = c[0] /\ c[0] = first
        BY <2>1, <3>1 DEF ChainStep
      <4>2. e[k] = first
        BY <3>1 DEF ChainStep
      <4> QED
        BY <4>1, <4>2
    <3>2. CASE k \in 1 .. n
      <4>1. d[k] = c[k] /\ d[k - 1] = c[k - 1]
        BY <3>2
      <4>2. c[k] = IF c[k - 1] \in last THEN NONE ELSE links[c[k - 1]]
        BY <2>1, <3>2 DEF ChainStep
      <4>3. e[k] = IF d[k - 1] \in last THEN NONE ELSE links[d[k - 1]]
        BY <3>2 DEF ChainStep
      <4> QED
        BY <4>1, <4>2, <4>3
    <3>3. CASE k = n + 1
      <4>1. d[n] = c[n] /\ d[k] = IF c[n] \in last THEN NONE ELSE links[c[n]]
        BY <3>3
      <4>2. k - 1 = n /\ k # 0
        BY <3>3
      <4>3. e[k] = IF d[n] \in last THEN NONE ELSE links[d[n]]
        BY <4>2 DEF ChainStep
      <4> QED
        BY <4>1, <4>3
    <3> QED
      BY <3>1, <3>2, <3>3
  <2>3. d = [k \in 0 .. n + 1 |-> d[k]] /\ e = [k \in 0 .. n + 1 |-> e[k]]
    BY DEF ChainStep
  <2> HIDE DEF d
  <2>4. d = e
    <3> HIDE DEF e
    <3> QED
      BY <2>2, <2>3
  <2>5. \E x : x = ChainStep(x, links, first, last, n + 1)
    BY <2>4
  <2> QED
    BY <2>5
<1>3. m \in S
  BY <1>1, <1>2, SetInduction
<1> QED
  BY <1>3

\* What a chain passes, step by step.
LEMMA ChainIs ==
  ASSUME NEW links, NEW first, NEW last
  PROVE  /\ Chain(links, first, last)[0] = first
         /\ \A k \in 1 .. MaxNodes :
              Chain(links, first, last)[k] =
                IF Chain(links, first, last)[k - 1] \in last THEN NONE
                ELSE links[Chain(links, first, last)[k - 1]]
<1>1. \E c : c = ChainStep(c, links, first, last, MaxNodes)
  BY NodesAre, ChainExists
<1>2. Chain(links, first, last) = CHOOSE c : c = ChainStep(c, links, first, last, MaxNodes)
  BY DEF Chain, ChainStep
<1>3. PICK c : c = Chain(links, first, last) /\ c = ChainStep(c, links, first, last, MaxNodes)
  BY <1>1, <1>2
<1>4. c[0] = first
  BY <1>3, NodesAre DEF ChainStep
<1>5. \A k \in 1 .. MaxNodes : c[k] = IF c[k - 1] \in last THEN NONE ELSE links[c[k - 1]]
  <2> SUFFICES ASSUME NEW k \in 1 .. MaxNodes
               PROVE  c[k] = IF c[k - 1] \in last THEN NONE ELSE links[c[k - 1]]
    OBVIOUS
  <2>1. k \in 0 .. MaxNodes /\ k # 0
    BY NodesAre
  <2>2. ChainStep(c, links, first, last, MaxNodes)[k] =
          IF c[k - 1] \in last THEN NONE ELSE links[c[k - 1]]
    BY <2>1 DEF ChainStep
  <2> QED
    BY <1>3, <2>2
<1> QED
  BY <1>3, <1>4, <1>5

\* A chain does not leave a set that the links do not leave.
LEMMA ChainWithin ==
  ASSUME NEW links, NEW first, NEW last, NEW S, NONE \in S, first \in S,
         \A n \in S : n \notin last => links[n] \in S
  PROVE  \A k \in 0 .. MaxNodes : Chain(links, first, last)[k] \in S
<1>1. PICK c : c = Chain(links, first, last)
  OBVIOUS
<1>2. /\ c[0] = first
      /\ \A k \in 1 .. MaxNodes : c[k] = IF c[k - 1] \in last THEN NONE ELSE links[c[k - 1]]
  BY <1>1, ChainIs
<1> DEFINE K == {k \in Nat : k <= MaxNodes => c[k] \in S}
<1>3. 0 \in K
  BY <1>2
<1>4. ASSUME NEW k \in Nat, k \in K PROVE k + 1 \in K
  <2> SUFFICES ASSUME k + 1 <= MaxNodes PROVE c[k + 1] \in S
    OBVIOUS
  <2>1. k + 1 \in 1 .. MaxNodes /\ (k + 1) - 1 = k /\ k <= MaxNodes
    BY NodesAre
  <2>2. c[k + 1] = IF c[k] \in last THEN NONE ELSE links[c[k]]
    BY <1>2, <2>1
  <2>3. c[k] \in S
    BY <1>4, <2>1
  <2> QED
    BY <2>2, <2>3
<1>5. \A k \in Nat : k \in K
  BY <1>3, <1>4, SetInduction
<1> QED
  BY <1>1, <1>5, NodesAre

\* A free list holds only nodes that were initialised.
LEMMA FreeListKnown ==
  ASSUME Sound, NEW s \in Shards
  PROVE  \A k \in DOMAIN FreeList(s) : FreeList(s)[k] \in Known
<1>1. PICK c : c = Chain(parent, head[s], {NONE})
  OBVIOUS
<1> DEFINE S == Known \cup {NONE}
<1>2. head[s] \in S /\ \A n \in S : n \notin {NONE} => parent[n] \in S
  BY DEF Sound, Closed, Known
<1> HIDE DEF S
<1>3. \A k \in 0 .. MaxNodes : c[k] \in S
  <2>1. NONE \in S
    BY DEF S
  <2> QED
    BY <1>1, <1>2, <2>1, ChainWithin
<1>4. FreeList(s) = [k \in {j \in 0 .. MaxNodes : c[j] # NONE} |-> c[k]]
  BY <1>1 DEF FreeList
<1> QED
  BY <1>3, <1>4 DEF S

-----------------------------------------------------------------------------
(* The theorems that need nothing of the shards.                           *)

\* Every node, count, list and call stays of its type: an index taken from _bump or
\* from a free list is one of a node, whatever the threads do to each other.
THEOREM TypeCorrect == Spec => []TypeOK
<1>1. Sound => TypeOK
  BY DEF Sound
<1> QED
  BY <1>1, Soundness, PTL

\* No thread touches a node, and no free list holds one, whose chunk does not exist.
THEOREM AlwaysBacked == Spec => []NodesAreBacked
<1>1. Sound => NodesAreBacked
  <2> SUFFICES ASSUME Sound PROVE NodesAreBacked
    OBVIOUS
  <2>1. ASSUME NEW t \in At({"init", "link", "drop", "free", "push", "walk"}), cur[t] # NONE
        PROVE  ChunkOf(cur[t]) \in chunks
    BY <2>1 DEF At, Sound, InCalls, Backed
  <2>2. ASSUME NEW n \in OnFreeLists PROVE ChunkOf(n) \in chunks
    <3>1. PICK s \in Shards : \E k \in DOMAIN FreeList(s) : n = FreeList(s)[k]
      BY DEF OnFreeLists
    <3>2. n \in Known
      BY <3>1, FreeListKnown
    <3> QED
      BY <3>2 DEF Sound, Backed
  <2> QED
    BY <2>1, <2>2 DEF NodesAreBacked
<1> QED
  BY <1>1, Soundness, PTL

-----------------------------------------------------------------------------
(* Reference counts.                                                       *)

\* A node whose edge to its parent the parent's count includes.
Counted(m) == refCount[m] > 0 /\ \A t \in At({"link"}) : cur[t] # m

\* The references to n that nobody holds: those of its children, of a child being
\* freed, of a freed child before and after its slot is pushed, and of its creator.
Children(n) == {m \in Nodes : Counted(m) /\ parent[m] = n}
Freeing(n)  == {t \in At({"free"}) : parent[cur[t]] = n}
Pushing(n)  == {t \in At({"push"}) : nxt[t] = n}
Dropping(n) == {t \in At({"drop"}) : cur[t] = n}
Linking(n)  == {t \in At({"link"}) : cur[t] = n}
Permanent(n) == IF n = ROOT THEN 1 ELSE 0

Exact ==
  \A n \in Nodes :
    refCount[n] = refs[n] + Cardinality(Children(n)) + Cardinality(Freeing(n))
                  + Cardinality(Pushing(n)) + Cardinality(Dropping(n)) + Cardinality(Linking(n))
                  + Permanent(n)

\* All of these are finite, and their sizes are numbers.
LEMMA PartsAreFinite ==
  ASSUME NEW n
  PROVE  /\ IsFiniteSet(Children(n)) /\ IsFiniteSet(Freeing(n)) /\ IsFiniteSet(Pushing(n))
         /\ IsFiniteSet(Dropping(n)) /\ IsFiniteSet(Linking(n))
<1>1. IsFiniteSet(Nodes) /\ IsFiniteSet(Threads)
  BY NodesAre, ThreadsAssumption
<1>2. Children(n) \subseteq Nodes
  BY DEF Children
<1>3. /\ Freeing(n) \subseteq Threads /\ Pushing(n) \subseteq Threads
      /\ Dropping(n) \subseteq Threads /\ Linking(n) \subseteq Threads
  BY DEF Freeing, Pushing, Dropping, Linking, At
<1> QED
  BY <1>1, <1>2, <1>3, FS_Subset

\* And so after a step.
LEMMA PartsAreFiniteNext ==
  ASSUME NEW n
  PROVE  /\ IsFiniteSet(Children(n)') /\ IsFiniteSet(Freeing(n)') /\ IsFiniteSet(Pushing(n)')
         /\ IsFiniteSet(Dropping(n)') /\ IsFiniteSet(Linking(n)')
<1>1. IsFiniteSet(Nodes) /\ IsFiniteSet(Threads)
  BY NodesAre, ThreadsAssumption
<1>2. Children(n)' \subseteq Nodes
  BY DEF Children
<1>3. /\ Freeing(n)' \subseteq Threads /\ Pushing(n)' \subseteq Threads
      /\ Dropping(n)' \subseteq Threads /\ Linking(n)' \subseteq Threads
  BY DEF Freeing, Pushing, Dropping, Linking, At
<1> QED
  BY <1>1, <1>2, <1>3, FS_Subset

\* The size of a finite set, and what one element more or less makes of it.
LEMMA OneMoreOrLess ==
  ASSUME NEW S, IsFiniteSet(S)
  PROVE  /\ Cardinality(S) \in Nat /\ (Cardinality(S) = 0 <=> S = {})
         /\ \A x : x \notin S => Cardinality(S \cup {x}) = Cardinality(S) + 1
         /\ \A x : x \in S => Cardinality(S \ {x}) = Cardinality(S) - 1
BY FS_CardinalityType, FS_EmptySet, FS_AddElement, FS_RemoveElement

\* What a count is made of.
LEMMA CountIs ==
  ASSUME Exact, NEW n \in Nodes
  PROVE  \E a, b, c, d, e \in Nat :
           /\ refCount[n] = refs[n] + a + b + c + d + e + Permanent(n)
           /\ a = Cardinality(Children(n)) /\ b = Cardinality(Freeing(n))
           /\ c = Cardinality(Pushing(n)) /\ d = Cardinality(Dropping(n))
           /\ e = Cardinality(Linking(n))
           /\ (a = 0 <=> Children(n) = {}) /\ (b = 0 <=> Freeing(n) = {})
           /\ (c = 0 <=> Pushing(n) = {}) /\ (d = 0 <=> Dropping(n) = {})
           /\ (e = 0 <=> Linking(n) = {})
<1> DEFINE a == Cardinality(Children(n))
           b == Cardinality(Freeing(n))
           c == Cardinality(Pushing(n))
           d == Cardinality(Dropping(n))
           e == Cardinality(Linking(n))
<1>1. /\ a \in Nat /\ b \in Nat /\ c \in Nat /\ d \in Nat /\ e \in Nat
      /\ (a = 0 <=> Children(n) = {}) /\ (b = 0 <=> Freeing(n) = {})
      /\ (c = 0 <=> Pushing(n) = {}) /\ (d = 0 <=> Dropping(n) = {})
      /\ (e = 0 <=> Linking(n) = {})
  BY PartsAreFinite, OneMoreOrLess
<1>2. refCount[n] = refs[n] + a + b + c + d + e + Permanent(n)
  BY DEF Exact
<1> QED
  BY <1>1, <1>2

\* ROOT and what somebody holds, refers to or is a child of is in use.
LEMMA CountsMean ==
  ASSUME Sound, Exact, NEW n \in Nodes
  PROVE  /\ refCount[n] \in Nat /\ refs[n] \in Nat
         /\ Held(n) => refCount[n] > 0
         /\ n = ROOT /\ (refs[n] > 0 \/ Dropping(n) # {}) => refCount[n] > 1
         /\ Children(n) # {} \/ Dropping(n) # {} \/ Linking(n) # {} \/ Freeing(n) # {} => refCount[n] > 0
         /\ refCount[n] = 0 => refs[n] = 0 /\ n # ROOT
         /\ refCount[n] = 1 /\ (Linking(n) # {} \/ Dropping(n) # {}) => refs[n] = 0 /\ n # ROOT
         /\ refCount[n] = 1 /\ (Linking(n) # {} \/ Dropping(n) # {} \/ refs[n] > 0) => Children(n) = {}
         /\ refCount[n] = 1 /\ (refs[n] > 0 \/ Dropping(n) # {}) => Linking(n) = {}
<1>1. PICK a, b, c, d, e \in Nat :
           /\ refCount[n] = refs[n] + a + b + c + d + e + Permanent(n)
           /\ (a = 0 <=> Children(n) = {}) /\ (b = 0 <=> Freeing(n) = {})
           /\ (c = 0 <=> Pushing(n) = {}) /\ (d = 0 <=> Dropping(n) = {})
           /\ (e = 0 <=> Linking(n) = {})
  BY CountIs
<1>2. refCount[n] \in Nat /\ refs[n] \in Nat
  <2>1. refCount[n] \in 0 .. RefMax /\ RefMax \in Nat
    BY SizesAssumption DEF Sound, TypeOK
  <2> QED
    BY <2>1 DEF Sound, TypeOK
<1>3. Permanent(n) \in Nat /\ (n = ROOT => Permanent(n) = 1)
  BY DEF Permanent
<1>4. PICK x, y, p \in Nat : x = refCount[n] /\ y = refs[n] /\ p = Permanent(n)
  BY <1>2, <1>3
<1>5. x = y + a + b + c + d + e + p /\ (n = ROOT => p = 1) /\ (n # ROOT => p = 0)
  BY <1>1, <1>4, <1>3 DEF Permanent
<1>6. Held(n) => x > 0
  BY <1>4, <1>5 DEF Held
<1>7. n = ROOT /\ (y > 0 \/ d # 0) => x > 1
  BY <1>5
<1>8. a # 0 \/ d # 0 \/ e # 0 \/ b # 0 => x > 0
  BY <1>5
<1>9. x = 0 => y = 0 /\ n # ROOT
  BY <1>5
<1>10. x = 1 /\ (e # 0 \/ d # 0) => y = 0 /\ n # ROOT
  BY <1>5
<1>11. x = 1 /\ (e # 0 \/ d # 0 \/ y > 0) => a = 0
  BY <1>5
<1>12. x = 1 /\ (y > 0 \/ d # 0) => e = 0
  BY <1>5
<1> QED
  BY <1>1, <1>2, <1>4, <1>6, <1>7, <1>8, <1>9, <1>10, <1>11, <1>12

\* A step keeps the counts exact if it changes each of them by what it adds to and
\* takes from the references.
LEMMA Balanced ==
  ASSUME Sound, Exact, NEW n \in Nodes,
         NEW a \in Int, NEW b \in Int, NEW c \in Int, NEW d \in Int, NEW e \in Int, NEW r \in Int,
         Cardinality(Children(n)') = Cardinality(Children(n)) + a,
         Cardinality(Freeing(n)') = Cardinality(Freeing(n)) + b,
         Cardinality(Pushing(n)') = Cardinality(Pushing(n)) + c,
         Cardinality(Dropping(n)') = Cardinality(Dropping(n)) + d,
         Cardinality(Linking(n)') = Cardinality(Linking(n)) + e,
         refs'[n] = refs[n] + r,
         refCount'[n] = refCount[n] + a + b + c + d + e + r
  PROVE  refCount'[n] = refs'[n] + Cardinality(Children(n)') + Cardinality(Freeing(n)')
                  + Cardinality(Pushing(n)') + Cardinality(Dropping(n)') + Cardinality(Linking(n)')
                  + Permanent(n)
<1>1. PICK ka, kb, kc, kd, ke \in Nat :
        /\ refCount[n] = refs[n] + ka + kb + kc + kd + ke + Permanent(n)
        /\ ka = Cardinality(Children(n)) /\ kb = Cardinality(Freeing(n))
        /\ kc = Cardinality(Pushing(n)) /\ kd = Cardinality(Dropping(n))
        /\ ke = Cardinality(Linking(n))
  BY CountIs
<1>2. refCount[n] \in Int /\ refs[n] \in Int /\ Permanent(n) \in Int
  BY CountsMean DEF Permanent
<1> QED
  BY <1>1, <1>2

-----------------------------------------------------------------------------
(* What every step keeps until a count overflows.                          *)

\* A call that takes a node out of one place and has not yet put it into another.
Transit == {"chunk", "grow", "init", "link", "free", "push"}
InTransitTo(t, n) == pc[t] \in Transit /\ cur[t] = n

\* A call in transit has its node to itself: nothing counts a reference to it but the
\* call itself.  A call that relies on a node has somebody hold it.
CallOK(t) ==
  /\ pc[t] = "pop" => cur[t] = head[ShardOf[t]] /\ nxt[t] = parent[cur[t]]
  /\ pc[t] = "push" => parent[cur[t]] = head[ShardOf[t]]
  /\ pc[t] \in Transit => cur[t] # ROOT /\ cur[t] < bump
  /\ pc[t] \in Transit \ {"link"} => refCount[cur[t]] = 0
  /\ pc[t] = "link" => /\ refCount[cur[t]] = 1
                       /\ parent[cur[t]] = base[t] /\ element[cur[t]] = elem[t]
  /\ pc[t] \in {"pop", "bump", "chunk", "grow", "init", "link", "walk"} =>
       base[t] \in Known /\ Held(base[t])
  /\ pc[t] \in {"idle", "drop", "free", "push"} => base[t] = NONE

Calls == \A t \in Threads : CallOK(t)

\* No two calls have the same node in transit.
Alone ==
  \A t, u \in Threads :
    pc[t] \in Transit /\ pc[u] \in Transit /\ cur[t] = cur[u] => t = u

\* Only initialised nodes are in use, and _bump has passed all of them.
Fresh ==
  \A n \in Nodes :
    /\ n \notin Known => refCount[n] = 0
    /\ n \in Known => n < bump

Tidy == Exact /\ Calls /\ Alone /\ Fresh /\ parent[ROOT] = NONE

-----------------------------------------------------------------------------
(* Every step keeps the counts exact.                                      *)

\* A step that moves no reference.
LEMMA SameCounts ==
  ASSUME Sound, Tidy,
         \A n \in Nodes : refs'[n] = refs[n] /\ refCount'[n] = refCount[n],
         \A n \in Known : parent'[n] = parent[n],
         \A u \in Threads : \A l \in {"link", "free", "push", "drop"} :
           /\ pc'[u] = l <=> pc[u] = l
           /\ pc[u] = l => cur'[u] = cur[u] /\ nxt'[u] = nxt[u]
  PROVE  Exact'
<1> SUFFICES ASSUME NEW n \in Nodes
             PROVE  refCount'[n] = refs'[n] + Cardinality(Children(n)') + Cardinality(Freeing(n)')
                      + Cardinality(Pushing(n)') + Cardinality(Dropping(n)') + Cardinality(Linking(n)')
                      + Permanent(n)
  BY DEF Exact, Permanent
<1>1. \A u \in Threads : (pc'[u] = "link" <=> pc[u] = "link") /\ (pc[u] = "link" => cur'[u] = cur[u])
  OBVIOUS
<1>2. Linking(n)' = Linking(n)
  BY <1>1 DEF Linking, At
<1>3. Dropping(n)' = Dropping(n)
  BY DEF Dropping, At
<1>4. Pushing(n)' = Pushing(n)
  BY DEF Pushing, At
<1>5. Freeing(n)' = Freeing(n)
  <2>1. ASSUME NEW u \in Threads, pc[u] = "free"
        PROVE  pc'[u] = "free" /\ cur'[u] = cur[u] /\ parent'[cur[u]] = parent[cur[u]]
    <3>1. cur[u] \in Known
      BY <2>1 DEF Sound, InCalls
    <3> QED
      BY <2>1, <3>1
  <2>2. \A u \in Threads : pc'[u] = "free" => pc[u] = "free"
    OBVIOUS
  <2> QED
    BY <2>1, <2>2 DEF Freeing, At
<1>6. Children(n)' = Children(n)
  <2>1. ASSUME NEW m \in Nodes PROVE Counted(m)' <=> Counted(m)
    BY <1>1 DEF Counted, At
  <2>2. \A m \in Nodes : Counted(m) => parent'[m] = parent[m]
    <3>1. ASSUME NEW m \in Nodes, refCount[m] > 0 PROVE m \in Known
      BY <3>1 DEF Tidy, Fresh
    <3> QED
      BY <3>1 DEF Counted
  <2> QED
    BY <2>1, <2>2 DEF Children
<1>7. refCount[n] \in Nat /\ refs[n] \in Nat
  BY CountsMean DEF Tidy
<1>8. refCount[n] = refs[n] + Cardinality(Children(n)) + Cardinality(Freeing(n))
                  + Cardinality(Pushing(n)) + Cardinality(Dropping(n)) + Cardinality(Linking(n))
                  + Permanent(n)
  BY DEF Tidy, Exact
<1> QED
  BY <1>2, <1>3, <1>4, <1>5, <1>6, <1>8

\* A count that does not overflow goes up by one, and one that is not 0 goes down.
LEMMA IncExact ==
  ASSUME Sound, NEW n \in Nodes, ~Overflows(n), IncRef(n)
  PROVE  \A m \in Nodes : refCount'[m] = refCount[m] + (IF m = n THEN 1 ELSE 0)
<1>1. \A m \in Nodes : refCount[m] \in 0 .. RefMax
  BY DEF Sound, TypeOK
<1>2. refCount[n] # RefMax /\ RefMax \in Nat
  BY SizesAssumption DEF Overflows
<1>3. (refCount[n] + 1) % (RefMax + 1) = refCount[n] + 1
  <2>1. PICK x \in 0 .. RefMax : x = refCount[n]
    BY <1>1
  <2>2. x + 1 < RefMax + 1
    BY <1>2, <2>1
  <2>3. (x + 1) % (RefMax + 1) = x + 1
    BY <1>2, <2>2
  <2> QED
    BY <2>1, <2>3
<1>4. refCount' = [refCount EXCEPT ![n] = refCount[n] + 1]
  BY <1>3 DEF IncRef
<1> QED
  BY <1>1, <1>4 DEF Sound, TypeOK

\* A decrement that does not wrap.
LEMMA DecExact ==
  ASSUME Sound, NEW n \in Nodes, NEW t \in Threads, Decrement(t, n), refCount[n] > 0
  PROVE  \A m \in Nodes : refCount'[m] = refCount[m] - (IF m = n THEN 1 ELSE 0)
<1>1. \A m \in Nodes : refCount[m] \in 0 .. RefMax
  BY DEF Sound, TypeOK
<1>2. RefMax \in Nat
  BY SizesAssumption
<1>3. (refCount[n] - 1) % (RefMax + 1) = refCount[n] - 1
  <2>1. PICK x \in 0 .. RefMax : x = refCount[n] /\ x > 0
    BY <1>1
  <2>2. x - 1 \in Nat /\ x - 1 < RefMax + 1
    BY <1>2, <2>1
  <2>3. (x - 1) % (RefMax + 1) = x - 1
    BY <1>2, <2>2
  <2> QED
    BY <2>1, <2>3
<1>4. refCount' = [refCount EXCEPT ![n] = refCount[n] - 1]
  BY <1>3 DEF Decrement
<1> QED
  BY <1>1, <1>4 DEF Sound, TypeOK

\* Each step moves a reference from one kind to another, and no other.
LEMMA InitNodeExact ==
  ASSUME Sound, Tidy, NEW t \in Threads, InitNode(t)
  PROVE  Exact'
<1>1. PICK c \in Nodes : c = cur[t]
  BY DEF Sound, InCalls, InitNode
<1>2. /\ pc[t] = "init" /\ refs' = refs
      /\ \A u \in Threads : /\ pc'[u] = IF u = t THEN "link" ELSE pc[u]
                            /\ cur'[u] = cur[u] /\ nxt'[u] = nxt[u]
      /\ \A m \in Nodes : /\ refCount'[m] = IF m = c THEN 1 ELSE refCount[m]
                          /\ m # c => parent'[m] = parent[m]
  BY <1>1 DEF InitNode, Goto, Sound, TypeOK
<1>3. refCount[c] = 0
  BY <1>1, <1>2 DEF Tidy, Calls, CallOK, Transit
<1>4. \A u \in Threads : pc[u] \in Transit /\ cur[u] = c => u = t
  BY <1>1, <1>2 DEF Tidy, Alone, Transit
<1> SUFFICES ASSUME NEW n \in Nodes
             PROVE  refCount'[n] = refs'[n] + Cardinality(Children(n)') + Cardinality(Freeing(n)')
                      + Cardinality(Pushing(n)') + Cardinality(Dropping(n)') + Cardinality(Linking(n)')
                      + Permanent(n)
  BY DEF Exact, Permanent
<1>5. Linking(n)' = IF n = c THEN Linking(n) \cup {t} ELSE Linking(n)
  BY <1>1, <1>2 DEF Linking, At
<1>6. t \notin Linking(n)
  BY <1>2 DEF Linking, At
<1>7. Dropping(n)' = Dropping(n) /\ Pushing(n)' = Pushing(n)
  BY <1>2 DEF Dropping, Pushing, At
<1>8. Freeing(n)' = Freeing(n)
  <2>1. ASSUME NEW u \in Threads, pc[u] = "free" PROVE cur[u] \in Nodes /\ cur[u] # c
    BY <1>2, <1>4, <2>1 DEF Sound, InCalls, Known, Transit
  <2> QED
    BY <1>2, <2>1 DEF Freeing, At
<1>9. Children(n)' = Children(n)
  <2>1. \A m \in Nodes : Counted(m)' <=> Counted(m)
    BY <1>1, <1>2, <1>3 DEF Counted, At
  <2>2. ~Counted(c)
    BY <1>3 DEF Counted
  <2> QED
    BY <1>2, <2>1, <2>2 DEF Children
<1>10. Cardinality(Linking(n)') = Cardinality(Linking(n)) + (IF n = c THEN 1 ELSE 0)
  <2>1. Cardinality(Linking(n)) \in Nat /\ Cardinality(Linking(n) \cup {t}) = Cardinality(Linking(n)) + 1
    BY <1>6, PartsAreFinite, OneMoreOrLess
  <2> QED
    BY <1>5, <2>1
<1>11. /\ Cardinality(Children(n)) \in Nat /\ Cardinality(Freeing(n)) \in Nat
       /\ Cardinality(Pushing(n)) \in Nat /\ Cardinality(Dropping(n)) \in Nat
       /\ refCount[n] \in Nat /\ refs[n] \in Nat
  BY PartsAreFinite, OneMoreOrLess, CountsMean DEF Tidy
<1>12. PICK e \in Int : e = IF n = c THEN 1 ELSE 0
  OBVIOUS
<1>13. refCount'[n] = refCount[n] + 0 + 0 + 0 + 0 + e + 0
  BY <1>2, <1>3, <1>11, <1>12
<1>14. /\ Cardinality(Children(n)') = Cardinality(Children(n)) + 0
       /\ Cardinality(Freeing(n)') = Cardinality(Freeing(n)) + 0
       /\ Cardinality(Pushing(n)') = Cardinality(Pushing(n)) + 0
       /\ Cardinality(Dropping(n)') = Cardinality(Dropping(n)) + 0
       /\ refs'[n] = refs[n] + 0
  BY <1>2, <1>7, <1>8, <1>9, <1>11
<1> QED
  BY <1>10, <1>12, <1>13, <1>14, Balanced DEF Tidy

\* The sizes that a step leaves as they are.
LEMMA PartsAreNumbers ==
  ASSUME NEW n
  PROVE  /\ Cardinality(Children(n)) \in Nat /\ Cardinality(Freeing(n)) \in Nat
         /\ Cardinality(Pushing(n)) \in Nat /\ Cardinality(Dropping(n)) \in Nat
         /\ Cardinality(Linking(n)) \in Nat
BY PartsAreFinite, OneMoreOrLess

LEMMA LinkExact ==
  ASSUME Sound, Tidy, NEW t \in Threads, Link(t)
  PROVE  Exact'
<1>1. PICK c \in Nodes, b \in Nodes : c = cur[t] /\ b = base[t]
  BY DEF Sound, InCalls, Known, Link
<1>2. \A m \in Nodes : refCount'[m] = refCount[m] + (IF m = b THEN 1 ELSE 0)
  BY <1>1, IncExact DEF Link
<1>3. /\ pc[t] = "link" /\ parent' = parent
      /\ \A u \in Threads : pc'[u] = IF u = t THEN "idle" ELSE pc[u]
      /\ \A u \in Threads : u # t => cur'[u] = cur[u] /\ nxt'[u] = nxt[u]
      /\ \A m \in Nodes : refs'[m] = refs[m] + (IF m = c THEN 1 ELSE 0)
  BY <1>1 DEF Link, Return, Goto, Sound, TypeOK
<1>4. refCount[c] = 1 /\ parent[c] = b /\ Held(b)
  BY <1>1, <1>3 DEF Tidy, Calls, CallOK
<1>5. t \in Linking(c)
  BY <1>1, <1>3 DEF Linking, At
<1>6. refs[c] = 0 /\ c # ROOT /\ c # b /\ refCount[b] > 0
  BY <1>4, <1>5, CountsMean DEF Tidy, Held
<1>7. \A u \in Threads : pc[u] \in Transit /\ cur[u] = c => u = t
  BY <1>1, <1>3 DEF Tidy, Alone, Transit
<1>8. \A m \in Nodes : refCount[m] \in Nat /\ refs[m] \in Nat
  BY CountsMean DEF Tidy
<1> SUFFICES ASSUME NEW n \in Nodes
             PROVE  refCount'[n] = refs'[n] + Cardinality(Children(n)') + Cardinality(Freeing(n)')
                      + Cardinality(Pushing(n)') + Cardinality(Dropping(n)') + Cardinality(Linking(n)')
                      + Permanent(n)
  BY DEF Exact, Permanent
<1>9. Linking(n)' = (IF n = c THEN Linking(n) \ {t} ELSE Linking(n)) /\ (n = c <=> t \in Linking(n))
  BY <1>1, <1>3 DEF Linking, At
<1>10. Dropping(n)' = Dropping(n) /\ Pushing(n)' = Pushing(n) /\ Freeing(n)' = Freeing(n)
  BY <1>3 DEF Dropping, Pushing, Freeing, At
<1>11. Children(n)' = (IF n = b THEN Children(n) \cup {c} ELSE Children(n)) /\ c \notin Children(n)
  <2>1. Counted(c)'
    <3>1. \A u \in At({"link"})' : cur'[u] # c
      BY <1>3, <1>7 DEF At, Transit
    <3>2. refCount'[c] > 0
      BY <1>2, <1>4, <1>8
    <3> QED
      BY <3>1, <3>2 DEF Counted
  <2>2. ~Counted(c)
    BY <1>1, <1>3 DEF Counted, At
  <2>3. ASSUME NEW m \in Nodes, m # c PROVE Counted(m)' <=> Counted(m)
    <3>1. (\A u \in At({"link"})' : cur'[u] # m) <=> (\A u \in At({"link"}) : cur[u] # m)
      BY <1>1, <1>3, <2>3 DEF At
    <3>2. refCount'[m] > 0 <=> refCount[m] > 0
      BY <1>2, <1>6, <1>8
    <3> QED
      BY <3>1, <3>2 DEF Counted
  <2> QED
    BY <1>3, <1>4, <2>1, <2>2, <2>3 DEF Children
<1>12. PICK a \in Int, r \in Int : a = (IF n = b THEN 1 ELSE 0) /\ r = (IF n = c THEN 1 ELSE 0)
  OBVIOUS
<1>13. Cardinality(Linking(n)') = Cardinality(Linking(n)) + (-r)
  BY <1>9, <1>12, PartsAreFinite, PartsAreNumbers, OneMoreOrLess
<1>14. Cardinality(Children(n)') = Cardinality(Children(n)) + a
  BY <1>11, <1>12, PartsAreFinite, PartsAreNumbers, OneMoreOrLess
<1>15. /\ Cardinality(Freeing(n)') = Cardinality(Freeing(n)) + 0
       /\ Cardinality(Pushing(n)') = Cardinality(Pushing(n)) + 0
       /\ Cardinality(Dropping(n)') = Cardinality(Dropping(n)) + 0
  BY <1>10, PartsAreNumbers
<1>16. refs'[n] = refs[n] + r /\ refCount'[n] = refCount[n] + a + 0 + 0 + 0 + (-r) + r
  BY <1>2, <1>3, <1>8, <1>12
<1> QED
  BY <1>12, <1>13, <1>14, <1>15, <1>16, Balanced DEF Tidy

LEMMA AcquireExact ==
  ASSUME Sound, Tidy, NEW t \in Threads, NEW c \in Nodes, Acquire(t, c)
  PROVE  Exact'
<1>1. \A m \in Nodes : refCount'[m] = refCount[m] + (IF m = c THEN 1 ELSE 0)
  BY IncExact DEF Acquire
<1>2. /\ UNCHANGED <<parent, pc, cur, nxt>>
      /\ \A m \in Nodes : refs'[m] = refs[m] + (IF m = c THEN 1 ELSE 0)
  BY DEF Acquire, local, Sound, TypeOK
<1>3. refCount[c] > 0
  BY CountsMean DEF Tidy, Acquire
<1>4. \A m \in Nodes : refCount[m] \in Nat /\ refs[m] \in Nat
  BY CountsMean DEF Tidy
<1> SUFFICES ASSUME NEW n \in Nodes
             PROVE  refCount'[n] = refs'[n] + Cardinality(Children(n)') + Cardinality(Freeing(n)')
                      + Cardinality(Pushing(n)') + Cardinality(Dropping(n)') + Cardinality(Linking(n)')
                      + Permanent(n)
  BY DEF Exact, Permanent
<1>5. /\ Dropping(n)' = Dropping(n) /\ Pushing(n)' = Pushing(n) /\ Freeing(n)' = Freeing(n)
      /\ Linking(n)' = Linking(n)
  BY <1>2 DEF Dropping, Pushing, Freeing, Linking, At
<1>6. Children(n)' = Children(n)
  <2>1. \A m \in Nodes : refCount'[m] > 0 <=> refCount[m] > 0
    BY <1>1, <1>3, <1>4
  <2> QED
    BY <1>2, <2>1 DEF Children, Counted, At
<1>7. PICK r \in Int : r = (IF n = c THEN 1 ELSE 0)
  OBVIOUS
<1>8. /\ Cardinality(Children(n)') = Cardinality(Children(n)) + 0
      /\ Cardinality(Freeing(n)') = Cardinality(Freeing(n)) + 0
      /\ Cardinality(Pushing(n)') = Cardinality(Pushing(n)) + 0
      /\ Cardinality(Dropping(n)') = Cardinality(Dropping(n)) + 0
      /\ Cardinality(Linking(n)') = Cardinality(Linking(n)) + 0
  BY <1>5, <1>6, PartsAreNumbers
<1>9. refs'[n] = refs[n] + r /\ refCount'[n] = refCount[n] + 0 + 0 + 0 + 0 + 0 + r
  BY <1>1, <1>2, <1>4, <1>7
<1> QED
  BY <1>7, <1>8, <1>9, Balanced DEF Tidy

\* Who drops the last reference to a node moves the node's edge from the children
\* of its parent to the nodes being freed.
LEMMA DecrementParts ==
  ASSUME Sound, Tidy, NEW t \in Threads, NEW c \in Nodes, Decrement(t, c), parent' = parent,
         pc[t] \in {"idle", "drop"}, refs[c] > 0 \/ Dropping(c) # {}, NEW n \in Nodes
  PROVE  /\ Linking(n)' = Linking(n) /\ Pushing(n)' = Pushing(n)
         /\ Dropping(n)' = Dropping(n) \ {t}
         /\ \E x \in Int : /\ Cardinality(Freeing(n)') = Cardinality(Freeing(n)) + x
                           /\ Cardinality(Children(n)') = Cardinality(Children(n)) + (-x)
<1>1. refCount[c] \in Nat /\ refCount[c] > 0 /\ (refCount[c] = 1 => Linking(c) = {})
  BY CountsMean DEF Tidy, Held
<1>2. \A m \in Nodes : refCount'[m] = refCount[m] - (IF m = c THEN 1 ELSE 0)
  BY <1>1, DecExact
<1>3. \A m \in Nodes : refCount[m] \in Nat
  BY CountsMean DEF Tidy
<1>4. /\ \A u \in Threads : u # t => pc'[u] = pc[u] /\ cur'[u] = cur[u] /\ nxt'[u] = nxt[u]
      /\ \/ refCount[c] # 1 /\ pc'[t] = "idle"
         \/ refCount[c] = 1 /\ pc'[t] = "free" /\ cur'[t] = c
  BY DEF Decrement, LastReference, Return, Goto, Sound, TypeOK
<1>5. \A u \in Threads : (pc'[u] = "link" <=> pc[u] = "link") /\ (pc[u] = "link" => cur'[u] = cur[u])
  BY <1>4
<1>6. Linking(n)' = Linking(n)
  BY <1>5 DEF Linking, At
<1>7. Pushing(n)' = Pushing(n)
  BY <1>4 DEF Pushing, At
<1>8. Dropping(n)' = Dropping(n) \ {t}
  BY <1>4 DEF Dropping, At
<1>9. CASE refCount[c] # 1
  <2>1. \A m \in Nodes : Counted(m)' <=> Counted(m)
    <3>1. \A m \in Nodes : refCount'[m] > 0 <=> refCount[m] > 0
      BY <1>1, <1>2, <1>3, <1>9
    <3> QED
      BY <1>5, <3>1 DEF Counted, At
  <2>2. Children(n)' = Children(n)
    BY <2>1 DEF Children
  <2>3. Freeing(n)' = Freeing(n)
    BY <1>4, <1>9 DEF Freeing, At
  <2> QED
    BY <1>6, <1>7, <1>8, <2>2, <2>3, PartsAreNumbers
<1>10. CASE refCount[c] = 1
  <2>1. pc'[t] = "free" /\ cur'[t] = c
    BY <1>4, <1>10
  <2>2. /\ Freeing(n)' = (IF parent[c] = n THEN Freeing(n) \cup {t} ELSE Freeing(n))
        /\ t \notin Freeing(n)
    BY <1>4, <2>1 DEF Freeing, At
  <2>3. Counted(c) /\ ~Counted(c)'
    BY <1>1, <1>2, <1>10 DEF Counted, Linking, At
  <2>4. ASSUME NEW m \in Nodes, m # c PROVE Counted(m)' <=> Counted(m)
    <3>1. refCount'[m] > 0 <=> refCount[m] > 0
      BY <1>2, <1>3, <2>4
    <3> QED
      BY <1>5, <3>1 DEF Counted, At
  <2>5. /\ Children(n)' = (IF parent[c] = n THEN Children(n) \ {c} ELSE Children(n))
        /\ parent[c] = n => c \in Children(n)
    BY <2>3, <2>4 DEF Children
  <2>6. PICK x \in Int : x = IF parent[c] = n THEN 1 ELSE 0
    OBVIOUS
  <2>7. Cardinality(Freeing(n)') = Cardinality(Freeing(n)) + x
    BY <2>2, <2>6, PartsAreFinite, PartsAreNumbers, OneMoreOrLess
  <2>8. Cardinality(Children(n)') = Cardinality(Children(n)) + (-x)
    BY <2>5, <2>6, PartsAreFinite, PartsAreNumbers, OneMoreOrLess
  <2> QED
    BY <1>6, <1>7, <1>8, <2>7, <2>8
<1> QED
  BY <1>9, <1>10

LEMMA BeginReleaseExact ==
  ASSUME Sound, Tidy, NEW t \in Threads, NEW c \in Nodes, BeginRelease(t, c)
  PROVE  Exact'
<1>1. /\ pc[t] = "idle" /\ refs[c] > 0 /\ Decrement(t, c) /\ parent' = parent
      /\ refs' = [refs EXCEPT ![c] = @ - 1]
  BY DEF BeginRelease
<1>2. \A m \in Nodes : refCount[m] \in Nat /\ refs[m] \in Nat
  BY CountsMean DEF Tidy
<1>3. \A m \in Nodes : refs'[m] = refs[m] - (IF m = c THEN 1 ELSE 0)
  BY <1>1, <1>2 DEF Sound, TypeOK
<1>4. refCount[c] > 0
  BY <1>1, CountsMean DEF Tidy, Held
<1>5. \A m \in Nodes : refCount'[m] = refCount[m] - (IF m = c THEN 1 ELSE 0)
  BY <1>1, <1>4, DecExact
<1> SUFFICES ASSUME NEW n \in Nodes
             PROVE  refCount'[n] = refs'[n] + Cardinality(Children(n)') + Cardinality(Freeing(n)')
                      + Cardinality(Pushing(n)') + Cardinality(Dropping(n)') + Cardinality(Linking(n)')
                      + Permanent(n)
  BY DEF Exact, Permanent
<1>6. Linking(n)' = Linking(n) /\ Pushing(n)' = Pushing(n) /\ Dropping(n)' = Dropping(n) \ {t}
  BY <1>1, DecrementParts
<1>7. PICK x \in Int : /\ Cardinality(Freeing(n)') = Cardinality(Freeing(n)) + x
                       /\ Cardinality(Children(n)') = Cardinality(Children(n)) + (-x)
  BY <1>1, DecrementParts
<1>8. Dropping(n)' = Dropping(n)
  BY <1>1, <1>6 DEF Dropping, At
<1>9. PICK r \in Int : r = -(IF n = c THEN 1 ELSE 0)
  OBVIOUS
<1>10. /\ Cardinality(Pushing(n)') = Cardinality(Pushing(n)) + 0
       /\ Cardinality(Dropping(n)') = Cardinality(Dropping(n)) + 0
       /\ Cardinality(Linking(n)') = Cardinality(Linking(n)) + 0
  BY <1>6, <1>8, PartsAreNumbers
<1>11. refs'[n] = refs[n] + r /\ refCount'[n] = refCount[n] + (-x) + x + 0 + 0 + 0 + r
  BY <1>2, <1>3, <1>5, <1>9
<1> QED
  BY <1>7, <1>9, <1>10, <1>11, Balanced DEF Tidy

LEMMA DropParentExact ==
  ASSUME Sound, Tidy, NEW t \in Threads, DropParent(t)
  PROVE  Exact'
<1>1. PICK c \in Nodes : c = cur[t]
  BY DEF Sound, InCalls, Known, DropParent
<1>2. pc[t] = "drop" /\ Decrement(t, c) /\ parent' = parent /\ refs' = refs
  BY <1>1 DEF DropParent
<1>3. t \in Dropping(c)
  BY <1>1, <1>2 DEF Dropping, At
<1>4. \A m \in Nodes : refCount[m] \in Nat /\ refs[m] \in Nat
  BY CountsMean DEF Tidy
<1>5. refCount[c] > 0
  BY <1>3, CountsMean DEF Tidy
<1>6. \A m \in Nodes : refCount'[m] = refCount[m] - (IF m = c THEN 1 ELSE 0)
  BY <1>2, <1>5, DecExact
<1> SUFFICES ASSUME NEW n \in Nodes
             PROVE  refCount'[n] = refs'[n] + Cardinality(Children(n)') + Cardinality(Freeing(n)')
                      + Cardinality(Pushing(n)') + Cardinality(Dropping(n)') + Cardinality(Linking(n)')
                      + Permanent(n)
  BY DEF Exact, Permanent
<1>7. Linking(n)' = Linking(n) /\ Pushing(n)' = Pushing(n) /\ Dropping(n)' = Dropping(n) \ {t}
  BY <1>2, <1>3, DecrementParts
<1>8. PICK x \in Int : /\ Cardinality(Freeing(n)') = Cardinality(Freeing(n)) + x
                       /\ Cardinality(Children(n)') = Cardinality(Children(n)) + (-x)
  BY <1>2, <1>3, DecrementParts
<1>9. n = c <=> t \in Dropping(n)
  BY <1>1, <1>2 DEF Dropping, At
<1>10. PICK d \in Int : d = -(IF n = c THEN 1 ELSE 0)
  OBVIOUS
<1>11. Cardinality(Dropping(n)') = Cardinality(Dropping(n)) + d
  <2>1. CASE n = c
    <3>1. Cardinality(Dropping(n) \ {t}) = Cardinality(Dropping(n)) - 1
      BY <1>9, <2>1, PartsAreFinite, OneMoreOrLess
    <3> QED
      BY <1>7, <1>10, <2>1, <3>1, PartsAreNumbers
  <2>2. CASE n # c
    <3>1. Dropping(n)' = Dropping(n)
      BY <1>7, <1>9, <2>2
    <3> QED
      BY <1>10, <2>2, <3>1, PartsAreNumbers
  <2> QED
    BY <2>1, <2>2
<1>12. /\ Cardinality(Pushing(n)') = Cardinality(Pushing(n)) + 0
       /\ Cardinality(Linking(n)') = Cardinality(Linking(n)) + 0
  BY <1>7, PartsAreNumbers
<1>13. refs'[n] = refs[n] + 0 /\ refCount'[n] = refCount[n] + (-x) + x + 0 + d + 0 + 0
  BY <1>2, <1>4, <1>6, <1>10
<1> QED
  BY <1>8, <1>10, <1>11, <1>12, <1>13, Balanced DEF Tidy

LEMMA FreeLinkExact ==
  ASSUME Sound, Tidy, NEW t \in Threads, FreeLink(t)
  PROVE  Exact'
<1>1. PICK c \in Nodes, p \in Nodes \cup {NONE} : c = cur[t] /\ p = parent[c]
  BY DEF Sound, TypeOK, InCalls, Known, FreeLink
<1>2. /\ pc[t] = "free" /\ refs' = refs /\ refCount' = refCount
      /\ \A u \in Threads : /\ pc'[u] = IF u = t THEN "push" ELSE pc[u]
                            /\ cur'[u] = cur[u]
                            /\ nxt'[u] = IF u = t THEN p ELSE nxt[u]
      /\ \A m \in Nodes : m # c => parent'[m] = parent[m]
  BY <1>1 DEF FreeLink, Goto, Cascade, Sound, TypeOK
<1>3. refCount[c] = 0
  BY <1>1, <1>2 DEF Tidy, Calls, CallOK, Transit
<1>4. \A u \in Threads : pc[u] \in Transit /\ cur[u] = c => u = t
  BY <1>1, <1>2 DEF Tidy, Alone, Transit
<1>5. \A m \in Nodes : refCount[m] \in Nat /\ refs[m] \in Nat
  BY CountsMean DEF Tidy
<1> SUFFICES ASSUME NEW n \in Nodes
             PROVE  refCount'[n] = refs'[n] + Cardinality(Children(n)') + Cardinality(Freeing(n)')
                      + Cardinality(Pushing(n)') + Cardinality(Dropping(n)') + Cardinality(Linking(n)')
                      + Permanent(n)
  BY DEF Exact, Permanent
<1>6. Linking(n)' = Linking(n) /\ Dropping(n)' = Dropping(n)
  BY <1>2 DEF Linking, Dropping, At
<1>7. Freeing(n)' = Freeing(n) \ {t} /\ (n = p <=> t \in Freeing(n))
  <2>1. ASSUME NEW u \in Threads, u # t, pc[u] = "free" PROVE parent'[cur[u]] = parent[cur[u]]
    BY <1>2, <1>4, <2>1 DEF Sound, InCalls, Known, Transit
  <2> QED
    BY <1>1, <1>2, <2>1 DEF Freeing, At
<1>8. Pushing(n)' = (IF n = p THEN Pushing(n) \cup {t} ELSE Pushing(n)) /\ t \notin Pushing(n)
  BY <1>2 DEF Pushing, At
<1>9. Children(n)' = Children(n)
  <2>1. \A m \in Nodes : Counted(m)' <=> Counted(m)
    BY <1>2 DEF Counted, At
  <2>2. ~Counted(c)
    BY <1>3 DEF Counted
  <2> QED
    BY <1>2, <2>1, <2>2 DEF Children
<1>10. PICK x \in Int : x = IF n = p THEN 1 ELSE 0
  OBVIOUS
<1>11. Cardinality(Freeing(n)') = Cardinality(Freeing(n)) + (-x)
  <2>1. CASE n = p
    BY <1>7, <1>10, <2>1, PartsAreFinite, PartsAreNumbers, OneMoreOrLess
  <2>2. CASE n # p
    <3>1. Freeing(n)' = Freeing(n)
      BY <1>7, <2>2
    <3> QED
      BY <1>10, <2>2, <3>1, PartsAreNumbers
  <2> QED
    BY <2>1, <2>2
<1>12. Cardinality(Pushing(n)') = Cardinality(Pushing(n)) + x
  BY <1>8, <1>10, PartsAreFinite, PartsAreNumbers, OneMoreOrLess
<1>13. /\ Cardinality(Children(n)') = Cardinality(Children(n)) + 0
       /\ Cardinality(Dropping(n)') = Cardinality(Dropping(n)) + 0
       /\ Cardinality(Linking(n)') = Cardinality(Linking(n)) + 0
       /\ refs'[n] = refs[n] + 0 /\ refCount'[n] = refCount[n] + 0 + (-x) + x + 0 + 0 + 0
  BY <1>2, <1>5, <1>6, <1>9, <1>10, PartsAreNumbers
<1> QED
  BY <1>10, <1>11, <1>12, <1>13, Balanced DEF Tidy

LEMMA FreePushExact ==
  ASSUME Sound, Tidy, NEW t \in Threads, FreePush(t)
  PROVE  Exact'
<1>1. PICK q : q = nxt[t]
  OBVIOUS
<1>2. /\ pc[t] = "push" /\ refs' = refs /\ refCount' = refCount /\ parent' = parent
      /\ \A u \in Threads : u # t => pc'[u] = pc[u] /\ cur'[u] = cur[u] /\ nxt'[u] = nxt[u]
      /\ \/ q = NONE /\ pc'[t] = "idle"
         \/ q # NONE /\ pc'[t] = "drop" /\ cur'[t] = q
  BY <1>1 DEF FreePush, Return, Goto, Sound, TypeOK
<1>3. \A m \in Nodes : refCount[m] \in Nat /\ refs[m] \in Nat
  BY CountsMean DEF Tidy
<1> SUFFICES ASSUME NEW n \in Nodes
             PROVE  refCount'[n] = refs'[n] + Cardinality(Children(n)') + Cardinality(Freeing(n)')
                      + Cardinality(Pushing(n)') + Cardinality(Dropping(n)') + Cardinality(Linking(n)')
                      + Permanent(n)
  BY DEF Exact, Permanent
<1>4. n # NONE
  BY NodesAre
<1>5. Linking(n)' = Linking(n) /\ Freeing(n)' = Freeing(n)
  BY <1>2 DEF Linking, Freeing, At
<1>6. Pushing(n)' = Pushing(n) \ {t} /\ (n = q <=> t \in Pushing(n))
  BY <1>1, <1>2 DEF Pushing, At
<1>7. Dropping(n)' = (IF n = q THEN Dropping(n) \cup {t} ELSE Dropping(n)) /\ t \notin Dropping(n)
  BY <1>2, <1>4 DEF Dropping, At
<1>8. Children(n)' = Children(n)
  <2>1. \A u \in Threads : (pc'[u] = "link" <=> pc[u] = "link") /\ (pc[u] = "link" => cur'[u] = cur[u])
    BY <1>2
  <2>2. \A m \in Nodes : Counted(m)' <=> Counted(m)
    BY <1>2, <2>1 DEF Counted, At
  <2> QED
    BY <1>2, <2>2 DEF Children
<1>9. PICK x \in Int : x = IF n = q THEN 1 ELSE 0
  OBVIOUS
<1>10. Cardinality(Pushing(n)') = Cardinality(Pushing(n)) + (-x)
  <2>1. CASE n = q
    BY <1>6, <1>9, <2>1, PartsAreFinite, PartsAreNumbers, OneMoreOrLess
  <2>2. CASE n # q
    <3>1. Pushing(n)' = Pushing(n)
      BY <1>6, <2>2
    <3> QED
      BY <1>9, <2>2, <3>1, PartsAreNumbers
  <2> QED
    BY <2>1, <2>2
<1>11. Cardinality(Dropping(n)') = Cardinality(Dropping(n)) + x
  BY <1>7, <1>9, PartsAreFinite, PartsAreNumbers, OneMoreOrLess
<1>12. /\ Cardinality(Children(n)') = Cardinality(Children(n)) + 0
       /\ Cardinality(Freeing(n)') = Cardinality(Freeing(n)) + 0
       /\ Cardinality(Linking(n)') = Cardinality(Linking(n)) + 0
       /\ refs'[n] = refs[n] + 0 /\ refCount'[n] = refCount[n] + 0 + 0 + (-x) + x + 0 + 0
  BY <1>2, <1>3, <1>5, <1>8, <1>9, PartsAreNumbers
<1> QED
  BY <1>9, <1>10, <1>11, <1>12, Balanced DEF Tidy

\* A new chunk's nodes are not known yet: what it clears was never counted.
LEMMA GrowKeeps ==
  ASSUME Sound, Tidy, NEW t \in Threads, Grow(t)
  PROVE  /\ \A n \in Nodes : refCount'[n] = refCount[n]
         /\ \A n \in Known : parent'[n] = parent[n]
         /\ \A u \in Threads : /\ pc'[u] = IF u = t THEN "init" ELSE pc[u]
                               /\ cur'[u] = cur[u]
         /\ pc[t] = "grow" /\ ChunkOf(cur[t]) \in chunks'
         /\ UNCHANGED <<element, bump, head, refs, base, elem, nxt, out>>
<1>1. \A n \in Nodes : ChunkOf(n) \notin chunks => n \notin Known
  BY DEF Sound, Backed
<1>2. \A n \in Nodes : n \notin Known => refCount[n] = 0
  BY DEF Tidy, Fresh
<1>3. \A n \in Nodes : refCount'[n] = refCount[n]
  BY <1>1, <1>2 DEF Grow, ChunkIsNew
<1>4. \A n \in Known : parent'[n] = parent[n]
  BY <1>1 DEF Grow, ChunkIsNew, Known
<1> QED
  BY <1>3, <1>4 DEF Grow, Goto, Sound, TypeOK

\* The steps that are not about references.
LEMMA OtherStepsExact ==
  ASSUME Sound, Tidy, NEW t \in Threads,
         \/ \E p \in Nodes, e \in Elements : BeginExtend(t, p, e)
         \/ \E n \in Nodes : BeginWalk(t, n)
         \/ PopFree(t) \/ BumpFresh(t) \/ BumpExhausted(t) \/ LookForChunk(t) \/ Grow(t)
         \/ Walk(t) \/ WalkEnds(t)
  PROVE  Exact'
<1> DEFINE Same ==
      /\ \A n \in Nodes : refs'[n] = refs[n] /\ refCount'[n] = refCount[n]
      /\ \A n \in Known : parent'[n] = parent[n]
      /\ \A u \in Threads : \A l \in {"link", "free", "push", "drop"} :
           /\ pc'[u] = l <=> pc[u] = l
           /\ pc[u] = l => cur'[u] = cur[u] /\ nxt'[u] = nxt[u]
<1>1. ASSUME NEW p \in Nodes, NEW e \in Elements, BeginExtend(t, p, e) PROVE Same
  BY <1>1 DEF BeginExtend, Goto, store, Sound, TypeOK
<1>2. ASSUME NEW n \in Nodes, BeginWalk(t, n) PROVE Same
  BY <1>2 DEF BeginWalk, Goto, store, Sound, TypeOK
<1>3. CASE PopFree(t)
  BY <1>3, SameCounts DEF PopFree, Goto, Sound, TypeOK
<1>4. CASE BumpFresh(t)
  BY <1>4, SameCounts DEF BumpFresh, Goto, Sound, TypeOK
<1>5. CASE BumpExhausted(t)
  BY <1>5, SameCounts DEF BumpExhausted, Return, Goto, Sound, TypeOK
<1>6. CASE LookForChunk(t)
  <2>1. pc[t] = "chunk" /\ pc'[t] \in {"grow", "init"} /\ UNCHANGED <<store, refs, nxt>>
    BY <1>6 DEF LookForChunk, Goto, Sound, TypeOK
  <2>2. \A u \in Threads : cur'[u] = cur[u] /\ (u # t => pc'[u] = pc[u])
    BY <1>6 DEF LookForChunk, Goto, Sound, TypeOK
  <2>3. Same
    BY <2>1, <2>2 DEF store
  <2> QED
    BY <2>3, SameCounts
<1>7. CASE Grow(t)
  <2>1. Same
    BY <1>7, GrowKeeps
  <2> QED
    BY <2>1, SameCounts
<1>8. CASE Walk(t)
  BY <1>8, SameCounts DEF Walk, Goto, store, Sound, TypeOK
<1>9. CASE WalkEnds(t)
  BY <1>9, SameCounts DEF WalkEnds, Return, Goto, store, Sound, TypeOK
<1> QED
  BY <1>1, <1>2, <1>3, <1>4, <1>5, <1>6, <1>7, <1>8, <1>9, SameCounts

-----------------------------------------------------------------------------
(* The free lists as stacks.                                               *)

\* The nodes that the stacks hold: of stack s those at 1 .. size[s], the last on top.
Stacked(st, size) == {n \in Nodes : \E s \in Shards : \E k \in 1 .. size[s] : n = st[s][k]}

\* The free lists are stacks of different nodes that nothing else refers to.  What is
\* neither on a stack nor in transit, nor still to be taken from _bump, is in use.
IsStacks(st, size) ==
  /\ st \in [Shards -> [Nat -> Nodes]] /\ size \in [Shards -> Nat]
  /\ \A s \in Shards : head[s] = IF size[s] = 0 THEN NONE ELSE st[s][size[s]]
  /\ \A s \in Shards : \A k \in 1 .. size[s] :
       parent[st[s][k]] = IF k = 1 THEN NONE ELSE st[s][k - 1]
  /\ \A s, r \in Shards : \A j \in 1 .. size[s], k \in 1 .. size[r] :
       st[s][j] = st[r][k] => s = r /\ j = k
  /\ \A n \in Stacked(st, size) :
       n \in Known /\ n # ROOT /\ refCount[n] = 0 /\ \A t \in Threads : ~InTransitTo(t, n)
  /\ \A n \in Nodes \ {ROOT} :
       n < bump => \/ n \in Stacked(st, size) \/ refCount[n] > 0
                   \/ \E t \in Threads : InTransitTo(t, n)

Orderly(st, size) == Calls /\ Alone /\ Fresh /\ parent[ROOT] = NONE /\ IsStacks(st, size)

\* What a call finds is what it found, unless its own thread or a release changed it.
LEMMA OtherCall ==
  ASSUME NEW u \in Threads, CallOK(u),
         pc'[u] = pc[u], cur'[u] = cur[u], base'[u] = base[u], nxt'[u] = nxt[u], elem'[u] = elem[u],
         pc[u] \in {"pop", "push"} => head'[ShardOf[u]] = head[ShardOf[u]],
         pc[u] \in {"pop", "push", "link"} => parent'[cur[u]] = parent[cur[u]],
         pc[u] \in Transit => refCount'[cur[u]] = refCount[cur[u]] /\ cur[u] < bump',
         pc[u] = "link" => element'[cur[u]] = element[cur[u]],
         \A n \in Known : n \in Known',
         pc[u] # "idle" /\ Held(base[u]) => base[u] = ROOT \/ refs'[base[u]] > 0
  PROVE  CallOK(u)'
BY DEF CallOK, Transit, Held

\* A step may take a node into transit that no other call has there.
LEMMA AloneKeeps ==
  ASSUME Alone, NEW t \in Threads,
         \A u \in Threads : u # t => pc'[u] = pc[u] /\ cur'[u] = cur[u],
         pc'[t] \in Transit =>
           \/ pc[t] \in Transit /\ cur'[t] = cur[t]
           \/ \A u \in Threads : u # t /\ pc[u] \in Transit => cur[u] # cur'[t]
  PROVE  Alone'
BY DEF Alone

\* The free lists stay if the step changes no list and nothing of the nodes on one.
LEMMA StacksKeep ==
  ASSUME NEW st, NEW size, IsStacks(st, size), head' = head,
         \A n \in Stacked(st, size) :
           /\ parent'[n] = parent[n] /\ refCount'[n] = 0 /\ n \in Known'
           /\ \A t \in Threads : ~(pc'[t] \in Transit /\ cur'[t] = n),
         \A n \in Nodes \ {ROOT} :
           n < bump' => \/ n \in Stacked(st, size) \/ refCount'[n] > 0
                        \/ \E t \in Threads : pc'[t] \in Transit /\ cur'[t] = n
  PROVE  IsStacks(st, size)'
<1>1. Stacked(st, size)' = Stacked(st, size)
  BY DEF Stacked
<1>2. ASSUME NEW s \in Shards, NEW k \in 1 .. size[s]
      PROVE  parent'[st[s][k]] = IF k = 1 THEN NONE ELSE st[s][k - 1]
  <2>1. st[s][k] \in Stacked(st, size)
    BY DEF IsStacks, Stacked
  <2> QED
    BY <2>1 DEF IsStacks
<1> QED
  BY <1>1, <1>2 DEF IsStacks, InTransitTo

\* A step that moves no node: it changes only what its own call knows.
LEMMA QuietStep ==
  ASSUME NEW st, NEW size, Sound, Tidy, IsStacks(st, size), NEW t \in Threads, CallOK(t)',
         element' = element, head' = head, refs' = refs,
         \A n \in Nodes : refCount'[n] = refCount[n] /\ (n < bump' <=> n < bump),
         \A n \in Known : parent'[n] = parent[n],
         \A u \in Threads : u # t => /\ pc'[u] = pc[u] /\ cur'[u] = cur[u] /\ base'[u] = base[u]
                                     /\ nxt'[u] = nxt[u] /\ elem'[u] = elem[u],
         pc'[t] \in Transit <=> pc[t] \in Transit,
         pc[t] \in Transit => cur'[t] = cur[t]
  PROVE  Orderly(st, size)'
<1>1. Known' = Known
  BY DEF Known
<1>2. \A u \in Threads : pc[u] \in Transit => cur[u] \in Nodes
  BY DEF Sound, InCalls, Known, Transit
<1>3. \A u \in Threads : pc[u] \in {"pop", "push", "link"} => cur[u] \in Known
  BY DEF Sound, InCalls
<1>4. Calls'
  <2>1. ASSUME NEW u \in Threads, u # t PROVE CallOK(u)'
    <3>1. CallOK(u)
      BY DEF Tidy, Calls
    <3>2. pc[u] \in Transit => cur[u] < bump
      BY <3>1 DEF CallOK
    <3>3. pc[u] \in {"pop", "push", "link"} => parent'[cur[u]] = parent[cur[u]]
      BY <1>3
    <3>4. pc[u] \in Transit => refCount'[cur[u]] = refCount[cur[u]] /\ cur[u] < bump'
      BY <1>2, <3>2
    <3>5. Held(base[u]) => base[u] = ROOT \/ refs'[base[u]] > 0
      BY DEF Held
    <3> QED
      BY <1>1, <2>1, <3>1, <3>3, <3>4, <3>5, OtherCall
  <2> QED
    BY <2>1 DEF Calls
<1>5. Alone'
  BY AloneKeeps DEF Tidy
<1>6. Fresh'
  BY <1>1 DEF Tidy, Fresh
<1>7. parent'[ROOT] = NONE
  BY NodesAre DEF Tidy, Known
<1>8. IsStacks(st, size)'
  <2>1. ASSUME NEW n \in Stacked(st, size)
        PROVE  /\ parent'[n] = parent[n] /\ refCount'[n] = 0 /\ n \in Known'
               /\ \A u \in Threads : ~(pc'[u] \in Transit /\ cur'[u] = n)
    <3>1. n \in Known /\ refCount[n] = 0 /\ \A u \in Threads : ~InTransitTo(u, n)
      BY DEF IsStacks
    <3>2. n \in Nodes
      BY DEF Stacked
    <3> QED
      BY <1>1, <3>1, <3>2 DEF InTransitTo
  <2>2. ASSUME NEW n \in Nodes \ {ROOT}, n < bump'
        PROVE  \/ n \in Stacked(st, size) \/ refCount'[n] > 0
               \/ \E u \in Threads : pc'[u] \in Transit /\ cur'[u] = n
    <3>1. \/ n \in Stacked(st, size) \/ refCount[n] > 0
          \/ \E u \in Threads : InTransitTo(u, n)
      BY <2>2 DEF IsStacks
    <3> QED
      BY <3>1 DEF InTransitTo
  <2> QED
    BY <2>1, <2>2, StacksKeep
<1> QED
  BY <1>4, <1>5, <1>6, <1>7, <1>8 DEF Orderly

\* The steps keep Calls, Alone, Fresh and the free lists.
LEMMA BeginExtendOrderly ==
  ASSUME NEW st, NEW size, Sound, Tidy, IsStacks(st, size), NEW t \in Threads,
         NEW p \in Nodes, NEW e \in Elements, BeginExtend(t, p, e)
  PROVE  Orderly(st, size)'
<1>1. p \in Known /\ Held(p)
  BY DEF Sound, Closed, Held, Known, BeginExtend
<1>2. /\ UNCHANGED <<parent, element, refCount, bump, head, refs>>
      /\ base'[t] = p /\ elem'[t] = e /\ pc[t] = "idle"
      /\ \/ pc'[t] = "pop" /\ cur'[t] = head[ShardOf[t]] /\ nxt'[t] = parent[head[ShardOf[t]]]
         \/ pc'[t] = "bump"
      /\ \A u \in Threads : u # t => /\ pc'[u] = pc[u] /\ cur'[u] = cur[u] /\ base'[u] = base[u]
                                     /\ nxt'[u] = nxt[u] /\ elem'[u] = elem[u]
  BY DEF BeginExtend, Goto, store, Sound, TypeOK
<1>3. CallOK(t)'
  BY <1>1, <1>2 DEF CallOK, Transit, Held, Known
<1> QED
  BY <1>2, <1>3, QuietStep DEF Transit

LEMMA BeginWalkOrderly ==
  ASSUME NEW st, NEW size, Sound, Tidy, IsStacks(st, size), NEW t \in Threads,
         NEW n \in Nodes, BeginWalk(t, n)
  PROVE  Orderly(st, size)'
<1>1. n \in Known /\ Held(n)
  BY DEF Sound, Closed, Held, Known, BeginWalk
<1>2. /\ UNCHANGED <<parent, element, refCount, bump, head, refs>>
      /\ base'[t] = n /\ pc[t] = "idle" /\ pc'[t] = "walk"
      /\ \A u \in Threads : u # t => /\ pc'[u] = pc[u] /\ cur'[u] = cur[u] /\ base'[u] = base[u]
                                     /\ nxt'[u] = nxt[u] /\ elem'[u] = elem[u]
  BY DEF BeginWalk, Goto, store, Sound, TypeOK
<1>3. CallOK(t)'
  BY <1>1, <1>2 DEF CallOK, Transit, Held, Known
<1> QED
  BY <1>2, <1>3, QuietStep DEF Transit

LEMMA LookForChunkOrderly ==
  ASSUME NEW st, NEW size, Sound, Tidy, IsStacks(st, size), NEW t \in Threads, LookForChunk(t)
  PROVE  Orderly(st, size)'
<1>1. /\ UNCHANGED <<parent, element, refCount, bump, head, refs>>
      /\ pc[t] = "chunk" /\ pc'[t] \in {"grow", "init"} /\ cur'[t] = cur[t] /\ base'[t] = base[t]
      /\ \A u \in Threads : u # t => /\ pc'[u] = pc[u] /\ cur'[u] = cur[u] /\ base'[u] = base[u]
                                     /\ nxt'[u] = nxt[u] /\ elem'[u] = elem[u]
  BY DEF LookForChunk, Goto, store, Sound, TypeOK
<1>2. CallOK(t)
  BY DEF Tidy, Calls
<1>3. CallOK(t)'
  BY <1>1, <1>2 DEF CallOK, Transit, Held, Known
<1> QED
  BY <1>1, <1>3, QuietStep DEF Transit

LEMMA GrowOrderly ==
  ASSUME NEW st, NEW size, Sound, Tidy, IsStacks(st, size), NEW t \in Threads, Grow(t)
  PROVE  Orderly(st, size)'
<1>1. /\ UNCHANGED <<element, bump, head, refs>>
      /\ \A n \in Nodes : refCount'[n] = refCount[n]
      /\ \A n \in Known : parent'[n] = parent[n]
      /\ pc[t] = "grow" /\ pc'[t] = "init" /\ cur'[t] = cur[t] /\ base'[t] = base[t]
      /\ \A u \in Threads : u # t => /\ pc'[u] = pc[u] /\ cur'[u] = cur[u] /\ base'[u] = base[u]
                                     /\ nxt'[u] = nxt[u] /\ elem'[u] = elem[u]
  BY GrowKeeps
<1>2. CallOK(t) /\ cur[t] \in Nodes
  BY <1>1 DEF Tidy, Calls, Sound, InCalls
<1>3. CallOK(t)'
  BY <1>1, <1>2 DEF CallOK, Transit, Held, Known
<1> QED
  BY <1>1, <1>3, QuietStep DEF Transit

LEMMA WalkOrderly ==
  ASSUME NEW st, NEW size, Sound, Tidy, IsStacks(st, size), NEW t \in Threads,
         Walk(t) \/ WalkEnds(t)
  PROVE  Orderly(st, size)'
<1>1. /\ UNCHANGED <<parent, element, refCount, bump, head, refs>>
      /\ pc[t] = "walk"
      /\ \/ pc'[t] = "walk" /\ base'[t] = base[t]
         \/ pc'[t] = "idle" /\ base'[t] = NONE
      /\ \A u \in Threads : u # t => /\ pc'[u] = pc[u] /\ cur'[u] = cur[u] /\ base'[u] = base[u]
                                     /\ nxt'[u] = nxt[u] /\ elem'[u] = elem[u]
  BY DEF Walk, WalkEnds, Return, Goto, store, Sound, TypeOK
<1>2. CallOK(t)
  BY DEF Tidy, Calls
<1>3. CallOK(t)'
  BY <1>1, <1>2 DEF CallOK, Transit, Held, Known
<1> QED
  BY <1>1, <1>3, QuietStep DEF Transit

LEMMA BumpExhaustedOrderly ==
  ASSUME NEW st, NEW size, Sound, Tidy, IsStacks(st, size), NEW t \in Threads, BumpExhausted(t)
  PROVE  Orderly(st, size)'
<1>1. /\ UNCHANGED <<parent, element, refCount, head, refs>>
      /\ pc[t] = "bump" /\ pc'[t] = "idle" /\ base'[t] = NONE
      /\ \A u \in Threads : u # t => /\ pc'[u] = pc[u] /\ cur'[u] = cur[u] /\ base'[u] = base[u]
                                     /\ nxt'[u] = nxt[u] /\ elem'[u] = elem[u]
  BY DEF BumpExhausted, Return, Goto, Sound, TypeOK
<1>2. \A n \in Nodes : n < bump /\ n < bump'
  <2>1. bump \in Nat /\ ChunkOf(bump) >= MaxChunks
    BY SizesAssumption, NodesAre DEF Sound, TypeOK, BumpExhausted, AtCeiling
  <2>2. bump \notin Nodes
    BY <2>1, ChunkOfNode, SizesAssumption
  <2>3. bump >= MaxNodes /\ bump' \in Nat /\ bump' >= bump
    BY <2>1, <2>2, NodesAre DEF Nodes, BumpExhausted
  <2> QED
    BY <2>1, <2>3, NodesAre
<1>3. CallOK(t)'
  BY <1>1, NodesAre DEF CallOK, Transit, Held, Known
<1> QED
  BY <1>1, <1>2, <1>3, QuietStep DEF Transit

\* What a thread that is about to pop has looked at is on top of its shard's stack.
LEMMA PopSeesTop ==
  ASSUME NEW st, NEW size, Sound, Tidy, IsStacks(st, size), NEW u \in Threads, pc[u] = "pop"
  PROVE  /\ ShardOf[u] \in Shards /\ size[ShardOf[u]] \in Nat \ {0}
         /\ cur[u] = st[ShardOf[u]][size[ShardOf[u]]]
         /\ cur[u] \in Stacked(st, size)
<1>1. PICK s \in Shards : s = ShardOf[u]
  BY DEF Shards
<1>2. cur[u] = head[s] /\ cur[u] \in Known /\ cur[u] # NONE
  BY <1>1, NodesAre DEF Tidy, Calls, CallOK, Sound, InCalls, Known
<1>3. size[s] \in Nat /\ head[s] = IF size[s] = 0 THEN NONE ELSE st[s][size[s]]
  BY DEF IsStacks
<1>4. PICK m \in Nat : m = size[s] /\ m # 0
  BY <1>2, <1>3
<1>5. m \in 1 .. size[s]
  BY <1>4
<1> QED
  BY <1>1, <1>2, <1>3, <1>4, <1>5 DEF Stacked, Known

LEMMA BumpFreshOrderly ==
  ASSUME NEW st, NEW size, Sound, Tidy, IsStacks(st, size), NEW t \in Threads, BumpFresh(t)
  PROVE  Orderly(st, size)'
<1>1. PICK b \in Nat : b = bump
  BY NodesAre, SizesAssumption DEF Sound, TypeOK
<1>2. /\ UNCHANGED <<parent, element, refCount, head, refs, base, nxt, elem>>
      /\ bump' = b + 1 /\ pc[t] = "bump" /\ pc'[t] = "chunk" /\ cur'[t] = b
      /\ \A u \in Threads : u # t => pc'[u] = pc[u] /\ cur'[u] = cur[u]
  BY <1>1 DEF BumpFresh, Goto, Sound, TypeOK
<1>3. b \in Nodes /\ b # ROOT
  <2>1. ~(ChunkOf(b) >= MaxChunks) /\ b # 0
    BY <1>1, NodesAre DEF Sound, TypeOK, BumpFresh, AtCeiling
  <2> QED
    BY <2>1, ChunkOfNode, SizesAssumption DEF ROOT
<1>4. b \notin Known /\ refCount[b] = 0
  BY <1>1, <1>3 DEF Tidy, Fresh
<1>5. Known' = Known /\ b < b + 1
  BY <1>2 DEF Known
<1>6. \A u \in Threads : CallOK(u)
  BY DEF Tidy, Calls
<1>7. \A u \in Threads : pc[u] \in Transit => cur[u] \in Nodes /\ cur[u] < b
  <2>1. \A u \in Threads : pc[u] \in Transit => cur[u] \in Nodes
    BY DEF Sound, InCalls, Known, Transit
  <2> QED
    BY <1>1, <1>6, <2>1 DEF CallOK
<1>8. \A n \in Nodes : n < b => n < b + 1
  BY NodesAre
<1>9. Calls'
  <2>1. CallOK(t)'
    BY <1>2, <1>3, <1>4, <1>5, <1>6 DEF CallOK, Transit, Held
  <2>2. ASSUME NEW u \in Threads, u # t PROVE CallOK(u)'
    <3>1. pc[u] \in Transit => cur[u] < bump'
      BY <1>2, <1>7, <1>8
    <3>2. Held(base[u]) => base[u] = ROOT \/ refs'[base[u]] > 0
      BY <1>2 DEF Held
    <3> QED
      BY <1>2, <1>5, <1>6, <2>2, <3>1, <3>2, OtherCall
  <2> QED
    BY <2>1, <2>2 DEF Calls
<1>10. Alone'
  <2>1. \A u \in Threads : pc[u] \in Transit => cur[u] # b
    BY <1>7
  <2> QED
    BY <1>2, <2>1, AloneKeeps DEF Tidy
<1>11. Fresh'
  <2>1. \A n \in Known : n \in Nodes /\ n < b
    BY <1>1 DEF Tidy, Fresh, Known
  <2>2. \A n \in Known' : n < bump'
    BY <1>2, <1>5, <1>8, <2>1
  <2> QED
    BY <1>2, <1>5, <2>2 DEF Tidy, Fresh
<1>12. IsStacks(st, size)'
  <2>1. ASSUME NEW n \in Stacked(st, size)
        PROVE  /\ parent'[n] = parent[n] /\ refCount'[n] = 0 /\ n \in Known'
               /\ \A u \in Threads : ~(pc'[u] \in Transit /\ cur'[u] = n)
    <3>1. n \in Known /\ refCount[n] = 0 /\ \A u \in Threads : ~InTransitTo(u, n)
      BY DEF IsStacks
    <3> QED
      BY <1>2, <1>4, <1>5, <3>1 DEF InTransitTo
  <2>2. ASSUME NEW n \in Nodes \ {ROOT}, n < bump'
        PROVE  \/ n \in Stacked(st, size) \/ refCount'[n] > 0
               \/ \E u \in Threads : pc'[u] \in Transit /\ cur'[u] = n
    <3>1. CASE n = b
      BY <1>2, <3>1 DEF Transit
    <3>2. CASE n # b
      <4>1. n < bump
        BY <1>1, <1>2, <2>2, <3>2, NodesAre
      <4>2. \/ n \in Stacked(st, size) \/ refCount[n] > 0
            \/ \E u \in Threads : InTransitTo(u, n)
        BY <4>1 DEF IsStacks
      <4>3. pc[t] \notin Transit
        BY <1>2 DEF Transit
      <4> QED
        BY <1>2, <4>2, <4>3 DEF InTransitTo
    <3> QED
      BY <3>1, <3>2
  <2> QED
    BY <1>2, <2>1, <2>2, StacksKeep
<1> QED
  BY <1>2, <1>9, <1>10, <1>11, <1>12 DEF Orderly, Tidy

LEMMA InitNodeOrderly ==
  ASSUME NEW st, NEW size, Sound, Tidy, IsStacks(st, size), NEW t \in Threads, InitNode(t)
  PROVE  Orderly(st, size)'
<1>1. PICK c \in Nodes : c = cur[t]
  BY DEF Sound, InCalls, InitNode
<1>2. /\ UNCHANGED <<bump, head, refs, base, nxt, elem>> /\ pc[t] = "init"
      /\ \A u \in Threads : /\ pc'[u] = IF u = t THEN "link" ELSE pc[u]
                            /\ cur'[u] = cur[u]
      /\ \A m \in Nodes : /\ refCount'[m] = IF m = c THEN 1 ELSE refCount[m]
                          /\ parent'[m] = IF m = c THEN base[t] ELSE parent[m]
                          /\ element'[m] = IF m = c THEN elem[t] ELSE element[m]
  BY <1>1 DEF InitNode, Goto, Sound, TypeOK
<1>3. refCount[c] = 0 /\ c # ROOT /\ c < bump
  BY <1>1, <1>2 DEF Tidy, Calls, CallOK, Transit
<1>4. Known' = Known \cup {c}
  <2>1. elem[t] \in Elements
    BY <1>2 DEF Sound, InCalls
  <2> QED
    BY <1>2, <1>3, <2>1 DEF Known
<1>5. \A u \in Threads : CallOK(u)
  BY DEF Tidy, Calls
<1>6. c \notin Stacked(st, size)
  BY <1>1, <1>2 DEF IsStacks, InTransitTo, Transit
<1>7. \A u \in Threads : u # t /\ pc[u] \in Transit \cup {"pop"} => cur[u] \in Nodes /\ cur[u] # c
  <2>1. \A u \in Threads : u # t /\ pc[u] \in Transit => cur[u] \in Nodes /\ cur[u] # c
    BY <1>1, <1>2 DEF Tidy, Alone, Transit, Sound, InCalls, Known
  <2>2. \A u \in Threads : pc[u] = "pop" => cur[u] \in Nodes /\ cur[u] # c
    BY <1>6, PopSeesTop DEF Stacked
  <2> QED
    BY <2>1, <2>2
<1>8. Calls'
  <2>1. CallOK(t)'
    BY <1>1, <1>2, <1>3, <1>4, <1>5 DEF CallOK, Transit, Held
  <2>2. ASSUME NEW u \in Threads, u # t PROVE CallOK(u)'
    <3>1. Held(base[u]) => base[u] = ROOT \/ refs'[base[u]] > 0
      BY <1>2 DEF Held
    <3>2. pc[u] \in {"pop", "push", "link"} => parent'[cur[u]] = parent[cur[u]]
      BY <1>2, <1>7, <2>2 DEF Transit
    <3>3. pc[u] \in Transit => refCount'[cur[u]] = refCount[cur[u]] /\ cur[u] < bump'
      BY <1>2, <1>5, <1>7, <2>2 DEF CallOK
    <3>4. pc[u] = "link" => element'[cur[u]] = element[cur[u]]
      BY <1>2, <1>7, <2>2 DEF Transit
    <3> QED
      BY <1>2, <1>4, <1>5, <2>2, <3>1, <3>2, <3>3, <3>4, OtherCall
  <2> QED
    BY <2>1, <2>2 DEF Calls
<1>9. Alone'
  BY <1>2, AloneKeeps DEF Tidy, Transit
<1>10. Fresh'
  BY <1>2, <1>3, <1>4 DEF Tidy, Fresh
<1>11. parent'[ROOT] = NONE
  BY <1>2, <1>3, NodesAre DEF Tidy
<1>12. IsStacks(st, size)'
  <2>1. ASSUME NEW n \in Stacked(st, size)
        PROVE  /\ parent'[n] = parent[n] /\ refCount'[n] = 0 /\ n \in Known'
               /\ \A u \in Threads : ~(pc'[u] \in Transit /\ cur'[u] = n)
    <3>1. n \in Known /\ refCount[n] = 0 /\ \A u \in Threads : ~InTransitTo(u, n)
      BY DEF IsStacks
    <3>2. n \in Nodes /\ n # c
      BY <1>6 DEF Stacked
    <3> QED
      BY <1>1, <1>2, <1>4, <3>1, <3>2 DEF InTransitTo, Transit
  <2>2. ASSUME NEW n \in Nodes \ {ROOT}, n < bump'
        PROVE  \/ n \in Stacked(st, size) \/ refCount'[n] > 0
               \/ \E u \in Threads : pc'[u] \in Transit /\ cur'[u] = n
    <3>1. \/ n \in Stacked(st, size) \/ refCount[n] > 0
          \/ \E u \in Threads : InTransitTo(u, n)
      BY <1>2, <2>2 DEF IsStacks
    <3> QED
      BY <1>2, <3>1 DEF InTransitTo, Transit
  <2> QED
    BY <1>2, <2>1, <2>2, StacksKeep
<1> QED
  BY <1>8, <1>9, <1>10, <1>11, <1>12 DEF Orderly

\* A node that somebody holds, or that a cascade has reached, is in use.
LEMMA InUse ==
  ASSUME Sound, Tidy, NEW n \in Nodes, Held(n) \/ Dropping(n) # {}
  PROVE  /\ refCount[n] \in Nat \ {0} /\ n \in Known
         /\ \A u \in Threads : ~InTransitTo(u, n)
<1>1. refCount[n] \in Nat \ {0}
  BY CountsMean DEF Tidy
<1>2. n \in Known
  BY <1>1 DEF Tidy, Fresh
<1>3. ASSUME NEW u \in Threads, InTransitTo(u, n) PROVE FALSE
  <2>1. CallOK(u) /\ pc[u] \in Transit /\ cur[u] = n
    BY <1>3 DEF Tidy, Calls, InTransitTo
  <2>2. pc[u] = "link" /\ refCount[n] = 1 /\ n # ROOT
    BY <1>1, <2>1 DEF CallOK
  <2>3. u \in Linking(n)
    BY <2>1, <2>2 DEF Linking, At
  <2> QED
    BY <2>2, <2>3, CountsMean DEF Tidy, Held
<1> QED
  BY <1>1, <1>2, <1>3

LEMMA LinkOrderly ==
  ASSUME NEW st, NEW size, Sound, Tidy, IsStacks(st, size), NEW t \in Threads, Link(t)
  PROVE  Orderly(st, size)'
<1>1. PICK c \in Nodes, b \in Nodes : c = cur[t] /\ b = base[t]
  BY DEF Sound, InCalls, Known, Link
<1>2. \A m \in Nodes : refCount'[m] = refCount[m] + (IF m = b THEN 1 ELSE 0)
  BY <1>1, IncExact DEF Link
<1>3. /\ UNCHANGED <<parent, element, bump, head>>
      /\ pc[t] = "link" /\ pc'[t] = "idle" /\ base'[t] = NONE
      /\ \A u \in Threads : u # t => /\ pc'[u] = pc[u] /\ cur'[u] = cur[u] /\ base'[u] = base[u]
                                     /\ nxt'[u] = nxt[u] /\ elem'[u] = elem[u]
      /\ \A m \in Nodes : refs'[m] = refs[m] + (IF m = c THEN 1 ELSE 0)
  BY <1>1 DEF Link, Return, Goto, Sound, TypeOK
<1>4. \A u \in Threads : CallOK(u)
  BY DEF Tidy, Calls
<1>5. refCount[c] = 1 /\ Held(b)
  BY <1>1, <1>3, <1>4 DEF CallOK
<1>6. refCount[b] \in Nat \ {0} /\ \A u \in Threads : ~InTransitTo(u, b)
  BY <1>5, InUse
<1>7. c # b
  BY <1>1, <1>3, <1>6 DEF InTransitTo, Transit
<1>8. Known' = Known
  BY <1>3 DEF Known
<1>9. \A m \in Nodes : refCount[m] \in Nat /\ refs[m] \in Nat
  BY CountsMean DEF Tidy
<1>10. Calls'
  <2>1. CallOK(t)'
    BY <1>3 DEF CallOK, Transit
  <2>2. ASSUME NEW u \in Threads, u # t PROVE CallOK(u)'
    <3>1. Held(base[u]) /\ base[u] \in Nodes => base[u] = ROOT \/ refs'[base[u]] > 0
      BY <1>3, <1>9 DEF Held
    <3>2. pc[u] # "idle" /\ Held(base[u]) => base[u] = ROOT \/ refs'[base[u]] > 0
      <4>1. base[u] \in Nodes \/ base[u] = NONE
        BY DEF Sound, TypeOK
      <4>2. CASE base[u] = NONE
        <5>1. refs[NONE] = refs'[NONE]
          BY <1>1, <4>2, NodesAre DEF Link, Sound, TypeOK
        <5> QED
          BY <4>2, <5>1 DEF Held
      <4> QED
        BY <3>1, <4>1, <4>2
    <3>3. pc[u] \in Transit => refCount'[cur[u]] = refCount[cur[u]] /\ cur[u] < bump'
      <4>1. pc[u] \in Transit => cur[u] \in Nodes /\ cur[u] # b /\ cur[u] < bump
        BY <1>4, <1>6 DEF InTransitTo, Sound, InCalls, Known, Transit, CallOK
      <4> QED
        BY <1>2, <1>3, <1>9, <4>1
    <3> QED
      BY <1>3, <1>4, <1>8, <2>2, <3>2, <3>3, OtherCall
  <2> QED
    BY <2>1, <2>2 DEF Calls
<1>11. Alone'
  BY <1>3, AloneKeeps DEF Tidy, Transit
<1>12. Fresh'
  <2>1. b \in Known
    BY <1>6, <1>9 DEF Tidy, Fresh
  <2> QED
    BY <1>2, <1>3, <1>8, <1>9, <2>1 DEF Tidy, Fresh
<1>13. IsStacks(st, size)'
  <2>1. ASSUME NEW n \in Stacked(st, size)
        PROVE  /\ parent'[n] = parent[n] /\ refCount'[n] = 0 /\ n \in Known'
               /\ \A u \in Threads : ~(pc'[u] \in Transit /\ cur'[u] = n)
    <3>1. n \in Known /\ refCount[n] = 0 /\ \A u \in Threads : ~InTransitTo(u, n)
      BY DEF IsStacks
    <3>2. n \in Nodes /\ n # b
      BY <1>6, <3>1 DEF Stacked
    <3>3. refCount'[n] = 0
      BY <1>2, <3>1, <3>2
    <3> QED
      BY <1>3, <1>8, <3>1, <3>3 DEF InTransitTo, Transit
  <2>2. ASSUME NEW n \in Nodes \ {ROOT}, n < bump'
        PROVE  \/ n \in Stacked(st, size) \/ refCount'[n] > 0
               \/ \E u \in Threads : pc'[u] \in Transit /\ cur'[u] = n
    <3>1. \/ n \in Stacked(st, size) \/ refCount[n] > 0
          \/ \E u \in Threads : InTransitTo(u, n)
      BY <1>3, <2>2 DEF IsStacks
    <3>2. refCount[n] > 0 => refCount'[n] > 0
      BY <1>2, <1>9
    <3>3. n = c => refCount'[n] > 0
      BY <1>2, <1>5, <1>7
    <3> QED
      BY <1>1, <1>3, <3>1, <3>2, <3>3 DEF InTransitTo
  <2> QED
    BY <1>3, <2>1, <2>2, StacksKeep
<1> QED
  BY <1>3, <1>10, <1>11, <1>12, <1>13 DEF Orderly, Tidy

LEMMA AcquireOrderly ==
  ASSUME NEW st, NEW size, Sound, Tidy, IsStacks(st, size), NEW t \in Threads,
         NEW c \in Nodes, Acquire(t, c)
  PROVE  Orderly(st, size)'
<1>1. \A m \in Nodes : refCount'[m] = refCount[m] + (IF m = c THEN 1 ELSE 0)
  BY IncExact DEF Acquire
<1>2. /\ UNCHANGED <<parent, element, bump, head, pc, cur, nxt, base, elem>>
      /\ \A m \in Nodes : refs'[m] = refs[m] + (IF m = c THEN 1 ELSE 0)
      /\ refs'[NONE] = refs[NONE]
  BY NodesAre DEF Acquire, local, Sound, TypeOK
<1>3. refCount[c] \in Nat \ {0} /\ c \in Known /\ \A u \in Threads : ~InTransitTo(u, c)
  BY InUse DEF Acquire
<1>4. \A m \in Nodes : refCount[m] \in Nat /\ refs[m] \in Nat
  BY CountsMean DEF Tidy
<1>5. Known' = Known
  BY <1>2 DEF Known
<1>6. Calls'
  <2>1. ASSUME NEW u \in Threads PROVE CallOK(u)'
    <3>1. CallOK(u)
      BY DEF Tidy, Calls
    <3>2. Held(base[u]) => base[u] = ROOT \/ refs'[base[u]] > 0
      <4>1. base[u] \in Nodes \/ base[u] = NONE
        BY DEF Sound, TypeOK
      <4>2. CASE base[u] \in Nodes
        <5>1. PICK b \in Nodes : b = base[u]
          BY <4>2
        <5>2. refs[b] > 0 => refs'[b] > 0
          BY <1>2, <1>4
        <5> QED
          BY <5>1, <5>2 DEF Held
      <4>3. CASE base[u] = NONE
        BY <1>2, <4>3 DEF Held
      <4> QED
        BY <4>1, <4>2, <4>3
    <3>3. pc[u] \in Transit => refCount'[cur[u]] = refCount[cur[u]] /\ cur[u] < bump'
      <4>1. pc[u] \in Transit => cur[u] \in Nodes /\ cur[u] # c /\ cur[u] < bump
        BY <1>3, <3>1 DEF InTransitTo, Sound, InCalls, Known, Transit, CallOK
      <4> QED
        BY <1>1, <1>2, <1>4, <4>1
    <3> QED
      BY <1>2, <1>5, <3>1, <3>2, <3>3, OtherCall
  <2> QED
    BY <2>1 DEF Calls
<1>7. Alone'
  BY <1>2 DEF Tidy, Alone
<1>8. Fresh'
  BY <1>1, <1>2, <1>3, <1>4, <1>5 DEF Tidy, Fresh
<1>9. IsStacks(st, size)'
  <2>1. ASSUME NEW n \in Stacked(st, size)
        PROVE  /\ parent'[n] = parent[n] /\ refCount'[n] = 0 /\ n \in Known'
               /\ \A u \in Threads : ~(pc'[u] \in Transit /\ cur'[u] = n)
    <3>1. n \in Known /\ refCount[n] = 0 /\ \A u \in Threads : ~InTransitTo(u, n)
      BY DEF IsStacks
    <3>2. n \in Nodes /\ n # c
      BY <1>3, <3>1 DEF Stacked
    <3>3. refCount'[n] = 0
      BY <1>1, <3>1, <3>2
    <3> QED
      BY <1>2, <1>5, <3>1, <3>3 DEF InTransitTo
  <2>2. ASSUME NEW n \in Nodes \ {ROOT}, n < bump'
        PROVE  \/ n \in Stacked(st, size) \/ refCount'[n] > 0
               \/ \E u \in Threads : pc'[u] \in Transit /\ cur'[u] = n
    <3>1. \/ n \in Stacked(st, size) \/ refCount[n] > 0
          \/ \E u \in Threads : InTransitTo(u, n)
      BY <1>2, <2>2 DEF IsStacks
    <3>2. refCount[n] > 0 => refCount'[n] > 0
      BY <1>1, <1>4
    <3> QED
      BY <1>2, <3>1, <3>2 DEF InTransitTo
  <2> QED
    BY <1>2, <2>1, <2>2, StacksKeep
<1> QED
  BY <1>2, <1>6, <1>7, <1>8, <1>9 DEF Orderly, Tidy

\* Who drops the last reference to a node takes the node out of the trie.
LEMMA DecrementOrderly ==
  ASSUME NEW st, NEW size, Sound, Tidy, IsStacks(st, size), NEW t \in Threads,
         NEW c \in Nodes, Decrement(t, c), UNCHANGED <<parent, element, bump, head>>,
         pc[t] \in {"idle", "drop"}, refs[c] > 0 \/ Dropping(c) # {},
         \A u \in Threads : u # t /\ pc[u] # "idle" /\ Held(base[u])
                              => base[u] = ROOT \/ refs'[base[u]] > 0
  PROVE  Orderly(st, size)'
<1>1. refCount[c] \in Nat \ {0} /\ c \in Known /\ \A u \in Threads : ~InTransitTo(u, c)
  BY InUse DEF Held
<1>2. \A m \in Nodes : refCount'[m] = refCount[m] - (IF m = c THEN 1 ELSE 0)
  BY <1>1, DecExact
<1>3. \A m \in Nodes : refCount[m] \in Nat
  BY CountsMean DEF Tidy
<1>4. /\ \A u \in Threads : u # t => /\ pc'[u] = pc[u] /\ cur'[u] = cur[u] /\ base'[u] = base[u]
                                     /\ nxt'[u] = nxt[u] /\ elem'[u] = elem[u]
      /\ \/ refCount[c] # 1 /\ pc'[t] = "idle" /\ base'[t] = NONE
         \/ refCount[c] = 1 /\ pc'[t] = "free" /\ cur'[t] = c /\ base'[t] = base[t]
  BY DEF Decrement, LastReference, Return, Goto, Sound, TypeOK
<1>5. \A u \in Threads : CallOK(u)
  BY DEF Tidy, Calls
<1>6. base[t] = NONE /\ pc[t] \notin Transit
  BY <1>5 DEF CallOK, Transit
<1>7. Known' = Known
  BY DEF Known
<1>8. refCount[c] = 1 => c # ROOT
  BY CountsMean DEF Tidy
<1>9. c < bump
  BY <1>1 DEF Tidy, Fresh
<1>10. Calls'
  <2>1. CallOK(t)'
    <3>1. refCount[c] = 1 => refCount'[c] = 0
      BY <1>2
    <3> QED
      BY <1>4, <1>6, <1>8, <1>9, <3>1 DEF CallOK, Transit
  <2>2. ASSUME NEW u \in Threads, u # t PROVE CallOK(u)'
    <3>1. pc[u] \in Transit => refCount'[cur[u]] = refCount[cur[u]] /\ cur[u] < bump'
      <4>1. pc[u] \in Transit => cur[u] \in Nodes /\ cur[u] # c /\ cur[u] < bump
        BY <1>1, <1>5 DEF InTransitTo, Sound, InCalls, Known, Transit, CallOK
      <4> QED
        BY <1>2, <1>3, <4>1
    <3> QED
      BY <1>4, <1>5, <1>7, <2>2, <3>1, OtherCall
  <2> QED
    BY <2>1, <2>2 DEF Calls
<1>11. Alone'
  BY <1>1, <1>4, AloneKeeps DEF Tidy, InTransitTo, Transit
<1>12. Fresh'
  BY <1>1, <1>2, <1>3, <1>7 DEF Tidy, Fresh
<1>13. IsStacks(st, size)'
  <2>1. ASSUME NEW n \in Stacked(st, size)
        PROVE  /\ parent'[n] = parent[n] /\ refCount'[n] = 0 /\ n \in Known'
               /\ \A u \in Threads : ~(pc'[u] \in Transit /\ cur'[u] = n)
    <3>1. n \in Known /\ refCount[n] = 0 /\ \A u \in Threads : ~InTransitTo(u, n)
      BY DEF IsStacks
    <3>2. n \in Nodes /\ n # c
      BY <1>1, <3>1 DEF Stacked
    <3>3. refCount'[n] = 0
      BY <1>2, <3>1, <3>2
    <3> QED
      BY <1>4, <1>7, <3>1, <3>2, <3>3 DEF InTransitTo, Transit
  <2>2. ASSUME NEW n \in Nodes \ {ROOT}, n < bump'
        PROVE  \/ n \in Stacked(st, size) \/ refCount'[n] > 0
               \/ \E u \in Threads : pc'[u] \in Transit /\ cur'[u] = n
    <3>1. \/ n \in Stacked(st, size) \/ refCount[n] > 0
          \/ \E u \in Threads : InTransitTo(u, n)
      BY <2>2 DEF IsStacks
    <3>2. CASE n = c
      <4>1. refCount[c] # 1 => refCount'[c] > 0
        BY <1>1, <1>2
      <4> QED
        BY <1>4, <3>2, <4>1 DEF Transit
    <3>3. CASE n # c
      <4>1. refCount[n] > 0 => refCount'[n] > 0
        BY <1>2, <1>3, <3>3
      <4> QED
        BY <1>4, <1>6, <3>1, <4>1 DEF InTransitTo
    <3> QED
      BY <3>2, <3>3
  <2> QED
    BY <2>1, <2>2, StacksKeep
<1> QED
  BY <1>10, <1>11, <1>12, <1>13 DEF Orderly, Tidy

LEMMA BeginReleaseOrderly ==
  ASSUME NEW st, NEW size, Sound, Tidy, IsStacks(st, size), NEW t \in Threads,
         NEW c \in Nodes, BeginRelease(t, c)
  PROVE  Orderly(st, size)'
<1>1. /\ pc[t] = "idle" /\ refs[c] > 0 /\ Decrement(t, c)
      /\ UNCHANGED <<parent, element, bump, head>>
      /\ \A m \in Nodes \cup {NONE} : m # c => refs'[m] = refs[m]
      /\ refs'[c] = refs[c] - 1
  BY NodesAre DEF BeginRelease, Sound, TypeOK
<1>2. refs[c] \in Nat
  BY DEF Sound, TypeOK
<1>3. ASSUME NEW u \in Threads, pc[u] # "idle", Held(base[u])
      PROVE  base[u] = ROOT \/ refs'[base[u]] > 0
  <2>1. base[u] \in Nodes \cup {NONE}
    BY DEF Sound, TypeOK
  <2>2. CASE base[u] = c
    <3>1. u \in Relying(c)
      BY <1>3, <2>2 DEF Relying
    <3>2. refs[c] > 1 \/ c = ROOT
      BY <3>1 DEF BeginRelease
    <3> QED
      BY <1>1, <1>2, <2>2, <3>2
  <2>3. CASE base[u] # c
    BY <1>1, <1>3, <2>1, <2>3 DEF Held
  <2> QED
    BY <2>2, <2>3
<1> QED
  BY <1>1, <1>3, DecrementOrderly

LEMMA DropParentOrderly ==
  ASSUME NEW st, NEW size, Sound, Tidy, IsStacks(st, size), NEW t \in Threads, DropParent(t)
  PROVE  Orderly(st, size)'
<1>1. PICK c \in Nodes : c = cur[t]
  BY DEF Sound, InCalls, Known, DropParent
<1>2. /\ pc[t] = "drop" /\ Decrement(t, c) /\ refs' = refs
      /\ UNCHANGED <<parent, element, bump, head>>
  BY <1>1 DEF DropParent
<1>3. Dropping(c) # {}
  BY <1>1, <1>2 DEF Dropping, At
<1>4. \A u \in Threads : Held(base[u]) => base[u] = ROOT \/ refs'[base[u]] > 0
  BY <1>2 DEF Held
<1> QED
  BY <1>2, <1>3, <1>4, DecrementOrderly

LEMMA FreeLinkOrderly ==
  ASSUME NEW st, NEW size, Sound, Tidy, IsStacks(st, size), NEW t \in Threads, FreeLink(t)
  PROVE  Orderly(st, size)'
<1>1. PICK c \in Nodes : c = cur[t]
  BY DEF Sound, InCalls, Known, FreeLink
<1>2. /\ UNCHANGED <<element, refCount, bump, head, refs, base, elem>> /\ pc[t] = "free"
      /\ \A u \in Threads : /\ pc'[u] = IF u = t THEN "push" ELSE pc[u]
                            /\ cur'[u] = cur[u] /\ (u # t => nxt'[u] = nxt[u])
      /\ parent'[c] = head[ShardOf[t]]
      /\ \A m \in Nodes : m # c => parent'[m] = parent[m]
  BY <1>1 DEF FreeLink, Goto, Sound, TypeOK
<1>3. \A u \in Threads : CallOK(u)
  BY DEF Tidy, Calls
<1>4. refCount[c] = 0 /\ c # ROOT /\ c < bump
  BY <1>1, <1>2, <1>3 DEF CallOK, Transit
<1>5. Known' = Known
  BY <1>2 DEF Known
<1>6. c \notin Stacked(st, size)
  BY <1>1, <1>2 DEF IsStacks, InTransitTo, Transit
<1>7. \A u \in Threads : u # t /\ pc[u] \in Transit \cup {"pop"} => cur[u] \in Nodes /\ cur[u] # c
  <2>1. \A u \in Threads : u # t /\ pc[u] \in Transit => cur[u] \in Nodes /\ cur[u] # c
    BY <1>1, <1>2 DEF Tidy, Alone, Transit, Sound, InCalls, Known
  <2>2. \A u \in Threads : pc[u] = "pop" => cur[u] \in Nodes /\ cur[u] # c
    BY <1>6, PopSeesTop DEF Stacked
  <2> QED
    BY <2>1, <2>2
<1>8. Calls'
  <2>1. CallOK(t)'
    BY <1>1, <1>2, <1>3, <1>4 DEF CallOK, Transit
  <2>2. ASSUME NEW u \in Threads, u # t PROVE CallOK(u)'
    <3>1. Held(base[u]) => base[u] = ROOT \/ refs'[base[u]] > 0
      BY <1>2 DEF Held
    <3>2. pc[u] \in {"pop", "push", "link"} => parent'[cur[u]] = parent[cur[u]]
      BY <1>2, <1>7, <2>2 DEF Transit
    <3>3. pc[u] \in Transit => refCount'[cur[u]] = refCount[cur[u]] /\ cur[u] < bump'
      BY <1>2, <1>3 DEF CallOK
    <3> QED
      BY <1>2, <1>3, <1>5, <2>2, <3>1, <3>2, <3>3, OtherCall
  <2> QED
    BY <2>1, <2>2 DEF Calls
<1>9. Alone'
  BY <1>2, AloneKeeps DEF Tidy, Transit
<1>10. Fresh'
  BY <1>2, <1>5 DEF Tidy, Fresh
<1>11. parent'[ROOT] = NONE
  BY <1>2, <1>4, NodesAre DEF Tidy
<1>12. IsStacks(st, size)'
  <2>1. ASSUME NEW n \in Stacked(st, size)
        PROVE  /\ parent'[n] = parent[n] /\ refCount'[n] = 0 /\ n \in Known'
               /\ \A u \in Threads : ~(pc'[u] \in Transit /\ cur'[u] = n)
    <3>1. n \in Known /\ refCount[n] = 0 /\ \A u \in Threads : ~InTransitTo(u, n)
      BY DEF IsStacks
    <3>2. n \in Nodes /\ n # c
      BY <1>6 DEF Stacked
    <3> QED
      BY <1>1, <1>2, <1>5, <3>1, <3>2 DEF InTransitTo
  <2>2. ASSUME NEW n \in Nodes \ {ROOT}, n < bump'
        PROVE  \/ n \in Stacked(st, size) \/ refCount'[n] > 0
               \/ \E u \in Threads : pc'[u] \in Transit /\ cur'[u] = n
    <3>1. \/ n \in Stacked(st, size) \/ refCount[n] > 0
          \/ \E u \in Threads : InTransitTo(u, n)
      BY <1>2, <2>2 DEF IsStacks
    <3> QED
      BY <1>2, <3>1 DEF InTransitTo, Transit
  <2> QED
    BY <1>2, <2>1, <2>2, StacksKeep
<1> QED
  BY <1>8, <1>9, <1>10, <1>11, <1>12 DEF Orderly

-----------------------------------------------------------------------------
(* A shard of one's own.                                                   *)

\* Calls on one shard come from one thread: what sequenceTrie.hpp asks of its callers.
ShardEach == \A t, u \in Threads : ShardOf[t] = ShardOf[u] => t = u

\* The two steps that change a list: its shard is the own one, so that what the call has
\* read of it is still so.
LEMMA PopFreeOrderly ==
  ASSUME ShardEach, NEW st, NEW size, Sound, Tidy, IsStacks(st, size), NEW t \in Threads, PopFree(t)
  PROVE  \E size2 : Orderly(st, size2)'
<1>1. PICK s \in Shards : s = ShardOf[t]
  BY DEF Shards
<1>2. PICK c \in Nodes, m \in Nat \ {0} :
        c = cur[t] /\ m = size[s] /\ c = st[s][m] /\ c \in Stacked(st, size)
  BY <1>1, PopSeesTop DEF PopFree, Stacked
<1>3. /\ UNCHANGED <<parent, element, refCount, bump, refs, base, elem>> /\ pc[t] = "pop"
      /\ \A u \in Threads : /\ pc'[u] = IF u = t THEN "init" ELSE pc[u]
                            /\ cur'[u] = cur[u] /\ (u # t => nxt'[u] = nxt[u])
      /\ \A r \in Shards : head'[r] = IF r = s THEN nxt[t] ELSE head[r]
  BY <1>1 DEF PopFree, Goto, Sound, TypeOK
<1>4. \A u \in Threads : CallOK(u)
  BY DEF Tidy, Calls
<1>5. nxt[t] = parent[c]
  BY <1>2, <1>3, <1>4 DEF CallOK
<1>6. c \in Known /\ c # ROOT /\ refCount[c] = 0 /\ \A u \in Threads : ~InTransitTo(u, c)
  BY <1>2 DEF IsStacks
<1>7. c < bump
  BY <1>6 DEF Tidy, Fresh
<1>8. Known' = Known
  BY <1>3 DEF Known
<1>9. Calls'
  <2>1. CallOK(t)'
    <3>1. pc'[t] = "init" /\ cur'[t] = c /\ base'[t] = base[t] /\ refCount'[c] = 0 /\ c < bump'
      BY <1>2, <1>3, <1>6, <1>7
    <3>2. base[t] \in Known /\ Held(base[t])
      BY <1>3, <1>4 DEF CallOK
    <3>3. base'[t] \in Known' /\ Held(base[t])'
      BY <1>3, <1>8, <3>1, <3>2 DEF Held
    <3> QED
      BY <1>6, <3>1, <3>3 DEF CallOK, Transit
  <2>2. ASSUME NEW u \in Threads, u # t PROVE CallOK(u)'
    <3>1. Held(base[u]) => base[u] = ROOT \/ refs'[base[u]] > 0
      BY <1>3 DEF Held
    <3>2. head'[ShardOf[u]] = head[ShardOf[u]]
      BY <1>1, <1>3, <2>2 DEF ShardEach, Shards
    <3>3. pc[u] \in Transit => refCount'[cur[u]] = refCount[cur[u]] /\ cur[u] < bump'
      BY <1>3, <1>4 DEF CallOK
    <3> QED
      BY <1>3, <1>4, <1>8, <2>2, <3>1, <3>2, <3>3, OtherCall
  <2> QED
    BY <2>1, <2>2 DEF Calls
<1>10. Alone'
  <2>1. \A u \in Threads : pc[u] \in Transit => cur[u] # cur'[t]
    BY <1>2, <1>3, <1>6 DEF InTransitTo
  <2> QED
    BY <1>3, <2>1, AloneKeeps DEF Tidy
<1>11. Fresh'
  BY <1>3, <1>8 DEF Tidy, Fresh
<1>12. PICK size2 : size2 = [size EXCEPT ![s] = m - 1]
  OBVIOUS
<1>13. size2 \in [Shards -> Nat] /\ size2[s] = m - 1
       /\ \A r \in Shards : r # s => size2[r] = size[r]
  BY <1>12 DEF IsStacks
<1>14. \A r \in Shards : \A k \in 1 .. size2[r] : k \in 1 .. size[r] /\ ~(r = s /\ k = m)
  BY <1>2, <1>13 DEF IsStacks
<1>15. /\ \A n \in Stacked(st, size2) : n \in Stacked(st, size) /\ n # c
       /\ \A n \in Stacked(st, size) : n \in Stacked(st, size2) \/ n = c
  <2>1. m \in 1 .. size[s]
    BY <1>2
  <2>2. ASSUME NEW n \in Stacked(st, size2) PROVE n \in Stacked(st, size) /\ n # c
    <3>1. PICK r \in Shards, k \in Nat : k \in 1 .. size2[r] /\ n = st[r][k] /\ n \in Nodes
      BY DEF Stacked
    <3>2. k \in 1 .. size[r] /\ ~(r = s /\ k = m)
      BY <1>14, <3>1
    <3>3. n # c
      BY <1>2, <2>1, <3>1, <3>2 DEF IsStacks
    <3> QED
      BY <3>1, <3>2, <3>3 DEF Stacked
  <2>3. ASSUME NEW n \in Stacked(st, size), n # c PROVE n \in Stacked(st, size2)
    <3>1. PICK r \in Shards, k \in Nat : k \in 1 .. size[r] /\ n = st[r][k] /\ n \in Nodes
      BY DEF Stacked
    <3>2. ~(r = s /\ k = m)
      BY <1>2, <2>3, <3>1
    <3>3. k \in 1 .. size2[r]
      BY <1>2, <1>13, <3>1, <3>2 DEF IsStacks
    <3> QED
      BY <3>1, <3>3 DEF Stacked
  <2> QED
    BY <2>2, <2>3
<1>16. IsStacks(st, size2)'
  <2>1. \A r \in Shards : head'[r] = IF size2[r] = 0 THEN NONE ELSE st[r][size2[r]]
    <3>1. m \in 1 .. size[s]
      BY <1>2
    <3>2. nxt[t] = IF m = 1 THEN NONE ELSE st[s][m - 1]
      BY <1>2, <1>5, <3>1 DEF IsStacks
    <3>3. size2[s] = 0 <=> m = 1
      BY <1>13
    <3> QED
      BY <1>3, <1>13, <3>2, <3>3 DEF IsStacks
  <2>2. \A r \in Shards : \A k \in 1 .. size2[r] :
          parent'[st[r][k]] = IF k = 1 THEN NONE ELSE st[r][k - 1]
    BY <1>3, <1>14 DEF IsStacks
  <2>3. \A q, r \in Shards : \A j \in 1 .. size2[q], k \in 1 .. size2[r] :
          st[q][j] = st[r][k] => q = r /\ j = k
    BY <1>14 DEF IsStacks
  <2>4. ASSUME NEW n \in Stacked(st, size2)
        PROVE  /\ n \in Known' /\ n # ROOT /\ refCount'[n] = 0
               /\ \A u \in Threads : ~(pc'[u] \in Transit /\ cur'[u] = n)
    <3>1. n \in Known /\ n # ROOT /\ refCount[n] = 0 /\ (\A u \in Threads : ~InTransitTo(u, n)) /\ n # c
      BY <1>15 DEF IsStacks
    <3> QED
      BY <1>2, <1>3, <1>8, <3>1 DEF InTransitTo
  <2>5. ASSUME NEW n \in Nodes \ {ROOT}, n < bump'
        PROVE  \/ n \in Stacked(st, size2) \/ refCount'[n] > 0
               \/ \E u \in Threads : pc'[u] \in Transit /\ cur'[u] = n
    <3>1. \/ n \in Stacked(st, size) \/ refCount[n] > 0
          \/ \E u \in Threads : InTransitTo(u, n)
      BY <1>3, <2>5 DEF IsStacks
    <3> QED
      BY <1>2, <1>3, <1>15, <3>1 DEF InTransitTo, Transit
  <2>6. Stacked(st, size2)' = Stacked(st, size2)
    BY DEF Stacked
  <2> QED
    BY <1>13, <2>1, <2>2, <2>3, <2>4, <2>5, <2>6 DEF IsStacks, InTransitTo
<1> QED
  BY <1>3, <1>9, <1>10, <1>11, <1>16 DEF Orderly, Tidy

LEMMA FreePushOrderly ==
  ASSUME ShardEach, NEW st, NEW size, Sound, Tidy, IsStacks(st, size), NEW t \in Threads, FreePush(t)
  PROVE  \E st2, size2 : Orderly(st2, size2)'
<1>1. PICK s \in Shards : s = ShardOf[t]
  BY DEF Shards
<1>2. PICK c \in Nodes, m \in Nat \ {0} : c = cur[t] /\ m = size[s] + 1
  BY DEF IsStacks, Sound, InCalls, Known, FreePush
<1>3. /\ UNCHANGED <<parent, element, refCount, bump, refs>> /\ pc[t] = "push"
      /\ pc'[t] \in {"idle", "drop"}
      /\ base'[t] = NONE \/ base'[t] = base[t]
      /\ \A u \in Threads : u # t => /\ pc'[u] = pc[u] /\ cur'[u] = cur[u] /\ base'[u] = base[u]
                                     /\ nxt'[u] = nxt[u] /\ elem'[u] = elem[u]
      /\ \A r \in Shards : head'[r] = IF r = s THEN c ELSE head[r]
  BY <1>1, <1>2 DEF FreePush, Return, Goto, Sound, TypeOK
<1>4. \A u \in Threads : CallOK(u)
  BY DEF Tidy, Calls
<1>5. parent[c] = head[s] /\ c # ROOT /\ refCount[c] = 0 /\ base[t] = NONE
  BY <1>1, <1>2, <1>3, <1>4 DEF CallOK, Transit
<1>6. \A u \in Threads : InTransitTo(u, c) => u = t
  BY <1>2, <1>3 DEF Tidy, Alone, InTransitTo, Transit
<1>7. c \in Known /\ c \notin Stacked(st, size)
  BY <1>2, <1>3 DEF IsStacks, InTransitTo, Transit, Sound, InCalls
<1>8. Known' = Known
  BY <1>3 DEF Known
<1>9. Calls'
  <2>1. CallOK(t)'
    BY <1>3, <1>5 DEF CallOK, Transit
  <2>2. ASSUME NEW u \in Threads, u # t PROVE CallOK(u)'
    <3>1. Held(base[u]) => base[u] = ROOT \/ refs'[base[u]] > 0
      BY <1>3 DEF Held
    <3>2. head'[ShardOf[u]] = head[ShardOf[u]]
      BY <1>1, <1>3, <2>2 DEF ShardEach, Shards
    <3>3. pc[u] \in Transit => refCount'[cur[u]] = refCount[cur[u]] /\ cur[u] < bump'
      BY <1>3, <1>4 DEF CallOK
    <3> QED
      BY <1>3, <1>4, <1>8, <2>2, <3>1, <3>2, <3>3, OtherCall
  <2> QED
    BY <2>1, <2>2 DEF Calls
<1>10. Alone'
  BY <1>3, AloneKeeps DEF Tidy, Transit
<1>11. Fresh'
  BY <1>3, <1>8 DEF Tidy, Fresh
<1>12. PICK st2, size2 : /\ st2 = [st EXCEPT ![s] = [st[s] EXCEPT ![m] = c]]
                         /\ size2 = [size EXCEPT ![s] = m]
  OBVIOUS
<1>13. /\ size2 \in [Shards -> Nat] /\ size2[s] = m /\ st2 \in [Shards -> [Nat -> Nodes]]
       /\ \A r \in Shards : r # s => size2[r] = size[r]
       /\ \A r \in Shards, k \in Nat : st2[r][k] = IF r = s /\ k = m THEN c ELSE st[r][k]
  BY <1>12 DEF IsStacks
<1>14. \A r \in Shards : \A k \in 1 .. size2[r] : k \in Nat /\ (k \in 1 .. size[r] \/ (r = s /\ k = m))
  BY <1>2, <1>13 DEF IsStacks
<1>15. \A r \in Shards : \A k \in 1 .. size[r] : k \in 1 .. size2[r] /\ k \in Nat /\ ~(r = s /\ k = m)
  BY <1>2, <1>13 DEF IsStacks
<1>16. \A r \in Shards : \A k \in 1 .. size[r] : st2[r][k] = st[r][k] /\ st[r][k] \in Stacked(st, size)
  BY <1>13, <1>15 DEF IsStacks, Stacked
<1>17. st2[s][m] = c /\ m \in 1 .. size2[s]
  BY <1>13
<1>18. /\ \A n \in Stacked(st2, size2) : n \in Stacked(st, size) \/ n = c
       /\ \A n \in Stacked(st, size) : n \in Stacked(st2, size2)
       /\ c \in Stacked(st2, size2)
  <2>1. ASSUME NEW n \in Stacked(st2, size2) PROVE n \in Stacked(st, size) \/ n = c
    <3>1. PICK r \in Shards, k \in Nat : k \in 1 .. size2[r] /\ n = st2[r][k]
      BY DEF Stacked
    <3> QED
      BY <1>14, <1>16, <1>17, <3>1
  <2>2. ASSUME NEW n \in Stacked(st, size) PROVE n \in Stacked(st2, size2)
    <3>1. PICK r \in Shards, k \in Nat : k \in 1 .. size[r] /\ n = st[r][k] /\ n \in Nodes
      BY DEF Stacked
    <3> QED
      BY <1>15, <1>16, <3>1 DEF Stacked
  <2>3. c \in Stacked(st2, size2)
    BY <1>17 DEF Stacked
  <2> QED
    BY <2>1, <2>2, <2>3
<1>19. IsStacks(st2, size2)'
  <2>1. \A r \in Shards : head'[r] = IF size2[r] = 0 THEN NONE ELSE st2[r][size2[r]]
    <3>1. ASSUME NEW r \in Shards, r # s
          PROVE  head'[r] = IF size2[r] = 0 THEN NONE ELSE st2[r][size2[r]]
      BY <1>3, <1>13, <3>1 DEF IsStacks
    <3>2. head'[s] = IF size2[s] = 0 THEN NONE ELSE st2[s][size2[s]]
      BY <1>3, <1>13, <1>17
    <3> QED
      BY <3>1, <3>2
  <2>2. ASSUME NEW r \in Shards, NEW k \in 1 .. size2[r]
        PROVE  parent'[st2[r][k]] = IF k = 1 THEN NONE ELSE st2[r][k - 1]
    <3>1. CASE k \in 1 .. size[r]
      <4>1. parent[st[r][k]] = IF k = 1 THEN NONE ELSE st[r][k - 1]
        BY <3>1 DEF IsStacks
      <4>2. k # 1 => k - 1 \in 1 .. size[r]
        BY <3>1 DEF IsStacks
      <4> QED
        BY <1>3, <1>16, <3>1, <4>1, <4>2
    <3>2. CASE r = s /\ k = m
      <4>1. head[s] = IF size[s] = 0 THEN NONE ELSE st[s][size[s]]
        BY DEF IsStacks
      <4>2. size[s] \in Nat /\ m - 1 = size[s] /\ (size[s] = 0 <=> m = 1)
        BY <1>2 DEF IsStacks
      <4>3. m # 1 => size[s] \in 1 .. size[s]
        BY <4>2
      <4>4. m # 1 => st2[s][m - 1] = st[s][size[s]]
        BY <1>16, <4>2, <4>3
      <4> QED
        BY <1>3, <1>5, <1>17, <3>2, <4>1, <4>2, <4>4
    <3> QED
      BY <1>14, <3>1, <3>2
  <2>3. ASSUME NEW q \in Shards, NEW r \in Shards, NEW j \in 1 .. size2[q], NEW k \in 1 .. size2[r],
               st2[q][j] = st2[r][k]
        PROVE  q = r /\ j = k
    <3>1. CASE j \in 1 .. size[q] /\ k \in 1 .. size[r]
      BY <1>16, <2>3, <3>1 DEF IsStacks
    <3>2. CASE j \in 1 .. size[q] /\ r = s /\ k = m
      BY <1>7, <1>16, <1>17, <2>3, <3>2
    <3>3. CASE k \in 1 .. size[r] /\ q = s /\ j = m
      BY <1>7, <1>16, <1>17, <2>3, <3>3
    <3>4. CASE q = s /\ j = m /\ r = s /\ k = m
      BY <3>4
    <3> QED
      BY <1>14, <3>1, <3>2, <3>3, <3>4
  <2>4. ASSUME NEW n \in Stacked(st2, size2)
        PROVE  /\ n \in Known' /\ n # ROOT /\ refCount'[n] = 0
               /\ \A u \in Threads : ~(pc'[u] \in Transit /\ cur'[u] = n)
    <3>1. \/ n = c
          \/ n \in Known /\ n # ROOT /\ refCount[n] = 0 /\ \A u \in Threads : ~InTransitTo(u, n)
      BY <1>18 DEF IsStacks
    <3>2. pc'[t] \notin Transit
      BY <1>3 DEF Transit
    <3> QED
      BY <1>3, <1>5, <1>6, <1>7, <1>8, <3>1, <3>2 DEF InTransitTo
  <2>5. ASSUME NEW n \in Nodes \ {ROOT}, n < bump'
        PROVE  \/ n \in Stacked(st2, size2) \/ refCount'[n] > 0
               \/ \E u \in Threads : pc'[u] \in Transit /\ cur'[u] = n
    <3>1. \/ n \in Stacked(st, size) \/ refCount[n] > 0
          \/ \E u \in Threads : InTransitTo(u, n)
      BY <1>3, <2>5 DEF IsStacks
    <3> QED
      BY <1>2, <1>3, <1>18, <3>1 DEF InTransitTo
  <2>6. Stacked(st2, size2)' = Stacked(st2, size2)
    BY DEF Stacked
  <2> QED
    BY <1>13, <2>1, <2>2, <2>3, <2>4, <2>5, <2>6 DEF IsStacks, InTransitTo
<1> QED
  BY <1>3, <1>9, <1>10, <1>11, <1>19 DEF Orderly, Tidy

\* A thread that has seen a count wrap goes nowhere but to the exception.
LEMMA OverflowStays == Sound /\ Overflown /\ [Next]_vars => Overflown'
<1> SUFFICES ASSUME Sound, Overflown, [Next]_vars PROVE Overflown'
  OBVIOUS
<1>1. PICK u \in Threads : pc[u] = "throw"
  BY DEF Overflown, At
<1>2. pc'[u] = "throw"
  <2>1. CASE UNCHANGED vars
    BY <1>1, <2>1 DEF vars, local
  <2>2. ASSUME NEW t \in Threads, Begin(t) \/ Continue(t) PROVE pc'[u] = "throw"
    <3>1. CASE Begin(t)
      BY <1>1, <3>1 DEF Begin, BeginExtend, Acquire, AcquireOverflows, BeginRelease, BeginWalk,
         Decrement, Return, Goto, local, Sound, TypeOK
    <3>2. CASE Throw(t)
      BY <1>1, <3>2 DEF Throw, local
    <3>3. CASE Continue(t) /\ ~Throw(t)
      <4>1. pc[t] # "throw" /\ \E l, n : Goto(t, l, n)
        BY <3>3 DEF Continue, PopFree, BumpFresh, BumpExhausted, LookForChunk, Grow, InitNode, Link,
           LinkOverflows, DropParent, FreeLink, FreePush, Walk, WalkEnds, Decrement, Return
      <4>2. u # t
        BY <1>1, <4>1
      <4> QED
        BY <1>1, <4>1, <4>2 DEF Goto, Sound, TypeOK
    <3> QED
      BY <2>2, <3>1, <3>2, <3>3
  <2> QED
    BY <2>1, <2>2 DEF Next
<1> QED
  BY <1>2 DEF Overflown, At

\* Every step keeps the counts exact and the free lists stacks, unless a count wraps.
LEMMA StepKeepsOrder ==
  ASSUME ShardEach, NEW st, NEW size, Sound, Tidy, IsStacks(st, size), ~Overflown, ~Overflown', Next
  PROVE  Tidy' /\ \E st2, size2 : IsStacks(st2, size2)'
<1> DEFINE Goal == Exact' /\ \E st2, size2 : Orderly(st2, size2)'
<1> SUFFICES Goal
  BY DEF Tidy, Orderly
<1>1. PICK t \in Threads : Begin(t) \/ Continue(t)
  BY DEF Next
<1>2. ASSUME NEW n \in Nodes, NEW e \in Elements, BeginExtend(t, n, e) PROVE Goal
  BY <1>2, OtherStepsExact, BeginExtendOrderly
<1>3. ASSUME NEW n \in Nodes, Acquire(t, n) PROVE Goal
  BY <1>3, AcquireExact, AcquireOrderly
<1>4. ASSUME NEW n \in Nodes, AcquireOverflows(t, n) PROVE Goal
  <2>1. pc'[t] = "throw"
    BY <1>4 DEF AcquireOverflows, Goto, Sound, TypeOK
  <2> QED
    BY <2>1 DEF Overflown, At
<1>5. ASSUME NEW n \in Nodes, BeginRelease(t, n) PROVE Goal
  BY <1>5, BeginReleaseExact, BeginReleaseOrderly
<1>6. ASSUME NEW n \in Nodes, BeginWalk(t, n) PROVE Goal
  BY <1>6, OtherStepsExact, BeginWalkOrderly
<1>7. CASE PopFree(t)
  BY <1>7, OtherStepsExact, PopFreeOrderly
<1>8. CASE BumpFresh(t)
  BY <1>8, OtherStepsExact, BumpFreshOrderly
<1>9. CASE BumpExhausted(t)
  BY <1>9, OtherStepsExact, BumpExhaustedOrderly
<1>10. CASE LookForChunk(t)
  BY <1>10, OtherStepsExact, LookForChunkOrderly
<1>11. CASE Grow(t)
  BY <1>11, OtherStepsExact, GrowOrderly
<1>12. CASE InitNode(t)
  BY <1>12, InitNodeExact, InitNodeOrderly
<1>13. CASE Link(t)
  BY <1>13, LinkExact, LinkOrderly
<1>14. CASE LinkOverflows(t)
  <2>1. pc'[t] = "throw"
    BY <1>14 DEF LinkOverflows, Goto, Sound, TypeOK
  <2> QED
    BY <2>1 DEF Overflown, At
<1>15. CASE Throw(t)
  BY <1>15 DEF Throw, Overflown, At
<1>16. CASE DropParent(t)
  BY <1>16, DropParentExact, DropParentOrderly
<1>17. CASE FreeLink(t)
  BY <1>17, FreeLinkExact, FreeLinkOrderly
<1>18. CASE FreePush(t)
  BY <1>18, FreePushExact, FreePushOrderly
<1>19. CASE Walk(t) \/ WalkEnds(t)
  BY <1>19, OtherStepsExact, WalkOrderly
<1> HIDE DEF Goal
<1>20. CASE Begin(t)
  BY <1>2, <1>3, <1>4, <1>5, <1>6, <1>20 DEF Begin
<1> QED
  BY <1>1, <1>7, <1>8, <1>9, <1>10, <1>11, <1>12, <1>13, <1>14, <1>15, <1>16, <1>17, <1>18, <1>19,
     <1>20 DEF Continue

\* At the start the lists are empty.
LEMMA InitOrderly == Init => Tidy /\ \E st, size : IsStacks(st, size)
<1> SUFFICES ASSUME Init PROVE Tidy /\ \E st, size : IsStacks(st, size)
  OBVIOUS
<1>1. Known = {ROOT}
  BY NodesAre DEF Init, Known
<1>2. Exact
  <2> SUFFICES ASSUME NEW n \in Nodes
               PROVE  refCount[n] = refs[n] + Cardinality(Children(n)) + Cardinality(Freeing(n))
                        + Cardinality(Pushing(n)) + Cardinality(Dropping(n)) + Cardinality(Linking(n))
                        + Permanent(n)
    BY DEF Exact, Permanent
  <2>1. Children(n) = {}
    BY NodesAre DEF Children, Init
  <2>2. Freeing(n) = {} /\ Pushing(n) = {} /\ Dropping(n) = {} /\ Linking(n) = {}
    BY DEF Freeing, Pushing, Dropping, Linking, At, Init
  <2>3. Cardinality({}) = 0
    BY FS_EmptySet
  <2>4. refs[n] = 0 /\ refCount[n] = Permanent(n)
    BY DEF Init, Permanent
  <2>5. Permanent(n) \in Nat
    BY DEF Permanent
  <2> QED
    BY <2>1, <2>2, <2>3, <2>4, <2>5
<1>3. Calls /\ Alone
  BY DEF Init, Calls, CallOK, Alone, Transit
<1>4. Fresh /\ parent[ROOT] = NONE
  BY <1>1, NodesAre DEF Init, Fresh, ROOT
<1>5. PICK st, size : st = [s \in Shards |-> [k \in Nat |-> ROOT]] /\ size = [s \in Shards |-> 0]
  OBVIOUS
<1>6. \A s \in Shards : size[s] = 0 /\ 1 .. size[s] = {}
  BY <1>5
<1>7. Stacked(st, size) = {}
  BY <1>6 DEF Stacked
<1>8. \A n \in Nodes \ {ROOT} : ~(n < bump)
  BY NodesAre DEF Init, ROOT
<1>9. IsStacks(st, size)
  BY <1>5, <1>6, <1>7, <1>8, NodesAre DEF IsStacks, Init
<1> QED
  BY <1>2, <1>3, <1>4, <1>9 DEF Tidy

-----------------------------------------------------------------------------
(* The sequences that the trie spells.                                     *)

\* A walk is somewhere on the way from its node to ROOT, and has read the rest.
Reading(W, anc, t) ==
  IF pc[t] = "walk"
  THEN Counted(base[t]) /\ cur[t] \in anc[base[t]] /\ W[base[t]] = W[cur[t]] \o out[t]
  ELSE out[t] = << >>

\* W[n] is the sequence of a node n of the trie, and anc[n] the nodes on its way to
\* ROOT, each of them in the trie because of the one before it.
Spelled(W, anc) ==
  /\ W \in [Nodes -> Seq(Elements)] /\ anc \in [Nodes -> SUBSET Nodes]
  /\ W[ROOT] = << >> /\ anc[ROOT] = {ROOT}
  /\ \A n \in Nodes : Counted(n) =>
       /\ n \in anc[n] /\ Cardinality(anc[n]) = Len(W[n]) + 1
       /\ \A m \in anc[n] :
            /\ Counted(m)
            /\ m # ROOT => parent[m] \in anc[n]
            /\ m # n => \E k \in anc[n] : parent[k] = m
       /\ n # ROOT => element[n] \in Elements /\ W[n] = Append(W[parent[n]], element[n])
  /\ \A t \in Threads : Reading(W, anc, t)

\* The sequences stay, with the nodes of the trie that leave it only without children.
LEMMA SpelledKeeps ==
  ASSUME NEW W, NEW anc, Spelled(W, anc),
         \A n \in Nodes : Counted(n)' => Counted(n),
         \A n \in Nodes : Counted(n) /\ ~Counted(n)' => Children(n) = {},
         \A n \in Nodes : Counted(n) => parent'[n] = parent[n] /\ element'[n] = element[n],
         \A t \in Threads : Reading(W, anc, t)'
  PROVE  Spelled(W, anc)'
<1>1. \A n \in Nodes : anc[n] \subseteq Nodes
  BY DEF Spelled
<1>2. ASSUME NEW n \in Nodes, Counted(n)', NEW m \in anc[n] PROVE Counted(m)'
  <2>1. m \in Nodes /\ Counted(n) /\ Counted(m)
    BY <1>1, <1>2 DEF Spelled
  <2>2. CASE m = n
    BY <1>2, <2>2
  <2>3. CASE m # n
    <3>1. PICK k \in anc[n] : parent[k] = m
      BY <2>1, <2>3 DEF Spelled
    <3>2. k \in Nodes /\ Counted(k)
      BY <1>1, <2>1, <3>1 DEF Spelled
    <3>3. k \in Children(m)
      BY <3>1, <3>2 DEF Children
    <3> QED
      BY <2>1, <3>3
  <2> QED
    BY <2>2, <2>3
<1>3. ASSUME NEW n \in Nodes, Counted(n)'
      PROVE  /\ n \in anc[n] /\ Cardinality(anc[n]) = Len(W[n]) + 1
             /\ \A m \in anc[n] :
                  /\ Counted(m)'
                  /\ m # ROOT => parent'[m] \in anc[n]
                  /\ m # n => \E k \in anc[n] : parent'[k] = m
             /\ n # ROOT => element'[n] \in Elements /\ W[n] = Append(W[parent'[n]], element'[n])
  <2>1. Counted(n)
    BY <1>3
  <2>2. \A m \in anc[n] : parent'[m] = parent[m]
    BY <1>1, <2>1 DEF Spelled
  <2>3. parent'[n] = parent[n] /\ element'[n] = element[n]
    BY <2>1
  <2>4. /\ n \in anc[n] /\ Cardinality(anc[n]) = Len(W[n]) + 1
        /\ \A m \in anc[n] :
             /\ m # ROOT => parent[m] \in anc[n]
             /\ m # n => \E k \in anc[n] : parent[k] = m
        /\ n # ROOT => element[n] \in Elements /\ W[n] = Append(W[parent[n]], element[n])
    BY <2>1 DEF Spelled
  <2>5. \A m \in anc[n] : Counted(m)'
    BY <1>2, <1>3
  <2> QED
    BY <2>2, <2>3, <2>4, <2>5
<1> QED
  BY <1>3 DEF Spelled

\* What somebody holds is in the trie, and a walk's node is held.
HeldAreCounted ==
  /\ \A n \in Nodes : Held(n) => Counted(n)
  /\ \A t \in Threads : pc[t] = "walk" => base[t] \in Nodes /\ Counted(base[t])

\* What somebody holds is in the trie.
LEMMA HoldersCount == Sound /\ Tidy => HeldAreCounted
<1> SUFFICES ASSUME Sound, Tidy PROVE HeldAreCounted
  OBVIOUS
<1>1. ASSUME NEW n \in Nodes, Held(n) PROVE Counted(n)
  BY <1>1, InUse DEF Counted, At, InTransitTo, Transit
<1>2. ASSUME NEW t \in Threads, pc[t] = "walk" PROVE base[t] \in Nodes /\ Held(base[t])
  BY <1>2 DEF Tidy, Calls, CallOK, Known
<1>3. ASSUME NEW t \in Threads, pc[t] = "walk" PROVE base[t] \in Nodes /\ Counted(base[t])
  <2>1. PICK n \in Nodes : n = base[t] /\ Held(n)
    BY <1>2, <1>3
  <2> QED
    BY <1>1, <2>1
<1> QED
  BY <1>1, <1>3 DEF HeldAreCounted

LEMMA HoldersCountNext == Sound' /\ Tidy' => HeldAreCounted'
BY HoldersCount, PTL

\* The sequences stay if the step's own walk goes on as it should.
LEMMA SpelledStep ==
  ASSUME NEW W, NEW anc, Spelled(W, anc), HeldAreCounted', NEW t \in Threads,
         \A n \in Nodes : Counted(n)' => Counted(n),
         \A n \in Nodes : Counted(n) /\ ~Counted(n)' => Children(n) = {},
         \A n \in Nodes : Counted(n) => parent'[n] = parent[n] /\ element'[n] = element[n],
         \A u \in Threads : u # t => /\ pc'[u] = pc[u] /\ cur'[u] = cur[u] /\ base'[u] = base[u]
                                     /\ out'[u] = out[u],
         Reading(W, anc, t)'
  PROVE  Spelled(W, anc)'
<1>1. ASSUME NEW u \in Threads, u # t PROVE Reading(W, anc, u)'
  <2>1. Reading(W, anc, u)
    BY DEF Spelled
  <2>2. pc'[u] = "walk" => Counted(base[u])'
    BY DEF HeldAreCounted
  <2> QED
    BY <1>1, <2>1, <2>2 DEF Reading
<1>2. \A u \in Threads : Reading(W, anc, u)'
  BY <1>1
<1> QED
  BY <1>2, SpelledKeeps

\* The nodes of the trie are known, and ROOT is one of them.
LEMMA CountedAre ==
  ASSUME Sound, Tidy
  PROVE  /\ \A n \in Nodes : Counted(n) => n \in Known /\ refCount[n] \in Nat \ {0}
         /\ Counted(ROOT)
<1>1. \A n \in Nodes : refCount[n] \in Nat
  BY CountsMean DEF Tidy
<1>2. Held(ROOT)
  BY DEF Held
<1> QED
  BY <1>1, <1>2, HoldersCount, NodesAre DEF Tidy, Fresh, Counted, HeldAreCounted

\* The trie is what it was if the counts and the links of its nodes are, and no
\* creator counts its edge.
LEMMA SameTrie ==
  ASSUME Sound, Tidy,
         \A n \in Nodes : Counted(n) => refCount'[n] > 0,
         \A n \in Nodes : refCount'[n] > 0 =>
           refCount[n] > 0 \/ \E u \in Threads : pc'[u] = "link" /\ cur'[u] = n,
         \A u \in Threads : pc[u] = "link" => pc'[u] = "link" /\ cur'[u] = cur[u],
         \A u \in Threads : pc'[u] = "link" /\ pc[u] # "link" => refCount[cur'[u]] = 0
  PROVE  \A n \in Nodes : Counted(n)' <=> Counted(n)
BY CountedAre DEF Counted, At

\* The steps that change no link of a counted node, and no walk.
LEMMA QuietSpelled ==
  ASSUME NEW W, NEW anc, Spelled(W, anc), Sound, Tidy, HeldAreCounted', NEW t \in Threads,
         \/ \E p \in Nodes, e \in Elements : BeginExtend(t, p, e)
         \/ PopFree(t) \/ BumpFresh(t) \/ BumpExhausted(t) \/ LookForChunk(t) \/ Grow(t)
         \/ InitNode(t) \/ FreeLink(t) \/ FreePush(t) \/ \E n \in Nodes : Acquire(t, n)
  PROVE  Spelled(W, anc)'
<1> DEFINE Others == \A u \in Threads : u # t => /\ pc'[u] = pc[u] /\ cur'[u] = cur[u]
                                                 /\ base'[u] = base[u] /\ out'[u] = out[u]
           Same == \A n \in Nodes : Counted(n)' <=> Counted(n)
           Links == \A n \in Nodes : Counted(n) => parent'[n] = parent[n] /\ element'[n] = element[n]
           Quiet == pc[t] \notin {"walk", "link"} /\ pc'[t] # "walk" /\ out'[t] = << >>
<1>1. \A n \in Nodes : Counted(n) => n \in Known /\ refCount[n] \in Nat \ {0}
  BY CountedAre
<1>2. out[t] = << >> \/ pc[t] = "walk"
  BY DEF Spelled, Reading
<1>3. \A u \in Threads : pc[u] \in {"init", "free"} => cur[u] \in Nodes /\ refCount[cur[u]] = 0
  BY DEF Tidy, Calls, CallOK, Transit, Sound, InCalls, Known
<1>4. CASE \/ \E p \in Nodes, e \in Elements : BeginExtend(t, p, e)
           \/ PopFree(t) \/ BumpFresh(t) \/ BumpExhausted(t) \/ LookForChunk(t) \/ FreePush(t)
  <2>1. Others /\ UNCHANGED <<parent, element, refCount>> /\ Quiet /\ pc'[t] # "link"
    BY <1>2, <1>4 DEF BeginExtend, PopFree, BumpFresh, BumpExhausted, LookForChunk, FreePush,
       Goto, Return, store, Sound, TypeOK
  <2>2. Same
    BY <2>1, SameTrie DEF Counted
  <2>3. Links
    BY <2>1
  <2> QED
    BY <2>1, <2>2, <2>3, SpelledStep DEF Reading
<1>5. CASE Grow(t)
  <2>1. Others /\ Quiet /\ pc'[t] # "link"
    BY <1>2, <1>5 DEF Grow, Goto, Sound, TypeOK
  <2>2. /\ \A n \in Nodes : refCount'[n] = refCount[n]
        /\ \A n \in Known : parent'[n] = parent[n]
        /\ element' = element
    BY <1>5, GrowKeeps
  <2>3. Same
    BY <2>1, <2>2, SameTrie DEF Counted
  <2>4. Links
    BY <1>1, <2>2
  <2> QED
    BY <2>1, <2>3, <2>4, SpelledStep DEF Reading
<1>6. CASE InitNode(t)
  <2>1. PICK c \in Nodes : c = cur[t] /\ refCount[c] = 0 /\ pc[t] = "init"
    BY <1>3, <1>6 DEF InitNode
  <2>2. /\ Others /\ Quiet /\ pc'[t] = "link" /\ cur'[t] = c
        /\ \A n \in Nodes : n # c => /\ refCount'[n] = refCount[n]
                                     /\ parent'[n] = parent[n] /\ element'[n] = element[n]
    BY <1>2, <1>6, <2>1 DEF InitNode, Goto, Sound, TypeOK
  <2>3. ~Counted(c)
    BY <2>1 DEF Counted
  <2>4. Same
    BY <2>1, <2>2, <2>3, SameTrie DEF Counted
  <2>5. Links
    BY <2>2, <2>3
  <2> QED
    BY <2>2, <2>4, <2>5, SpelledStep DEF Reading
<1>7. CASE FreeLink(t)
  <2>1. PICK c \in Nodes : c = cur[t] /\ refCount[c] = 0 /\ pc[t] = "free"
    BY <1>3, <1>7 DEF FreeLink
  <2>2. /\ Others /\ Quiet /\ pc'[t] = "push" /\ refCount' = refCount /\ element' = element
        /\ \A n \in Nodes : n # c => parent'[n] = parent[n]
    BY <1>2, <1>7, <2>1 DEF FreeLink, Goto, Sound, TypeOK
  <2>3. ~Counted(c)
    BY <2>1 DEF Counted
  <2>4. Same
    BY <2>2, SameTrie DEF Counted
  <2>5. Links
    BY <2>2, <2>3
  <2> QED
    BY <2>2, <2>4, <2>5, SpelledStep DEF Reading
<1>8. CASE \E n \in Nodes : Acquire(t, n)
  <2>1. PICK c \in Nodes : Acquire(t, c)
    BY <1>8
  <2>2. \A m \in Nodes : refCount'[m] = refCount[m] + (IF m = c THEN 1 ELSE 0)
    BY <2>1, IncExact DEF Acquire
  <2>3. refCount[c] \in Nat \ {0}
    BY <2>1, InUse DEF Acquire
  <2>4. \A m \in Nodes : refCount[m] \in Nat
    BY CountsMean DEF Tidy
  <2>5. \A m \in Nodes : refCount'[m] > 0 <=> refCount[m] > 0
    BY <2>2, <2>3, <2>4
  <2>6. Others /\ Links /\ Quiet /\ UNCHANGED <<pc, cur>>
    BY <1>2, <2>1 DEF Acquire, local
  <2>7. Same
    BY <2>5, <2>6 DEF Counted, At
  <2> QED
    BY <2>6, <2>7, SpelledStep DEF Reading
<1> QED
  BY <1>4, <1>5, <1>6, <1>7, <1>8

LEMMA DecrementSpelled ==
  ASSUME NEW W, NEW anc, Spelled(W, anc), Sound, Tidy, HeldAreCounted', NEW t \in Threads,
         DropParent(t) \/ \E n \in Nodes : BeginRelease(t, n)
  PROVE  Spelled(W, anc)'
<1>1. PICK c \in Nodes : /\ Decrement(t, c) /\ pc[t] \in {"idle", "drop"}
                         /\ refs[c] > 0 \/ Dropping(c) # {}
                         /\ UNCHANGED <<parent, element>>
  BY DEF DropParent, BeginRelease, Dropping, At, Sound, InCalls, Known
<1>2. refCount[c] \in Nat \ {0}
  BY <1>1, InUse DEF Held
<1>3. \A m \in Nodes : refCount'[m] = refCount[m] - (IF m = c THEN 1 ELSE 0)
  BY <1>1, <1>2, DecExact
<1>4. \A m \in Nodes : refCount[m] \in Nat
  BY CountsMean DEF Tidy
<1>5. /\ \A u \in Threads : u # t => /\ pc'[u] = pc[u] /\ cur'[u] = cur[u] /\ base'[u] = base[u]
                                     /\ out'[u] = out[u]
      /\ pc'[t] \in {"idle", "free"} /\ (out'[t] = out[t] \/ out'[t] = << >>)
  BY <1>1 DEF Decrement, Return, Goto, Sound, TypeOK
<1>6. \A u \in Threads : (pc'[u] = "link" <=> pc[u] = "link") /\ (pc[u] = "link" => cur'[u] = cur[u])
  BY <1>1, <1>5
<1>7. \A n \in Nodes : Counted(n)' => Counted(n)
  <2>1. \A n \in Nodes : refCount'[n] > 0 => refCount[n] > 0
    BY <1>3, <1>4
  <2> QED
    BY <1>6, <2>1 DEF Counted, At
<1>8. ASSUME NEW n \in Nodes, Counted(n), ~Counted(n)' PROVE Children(n) = {}
  <2>1. ~(refCount'[n] > 0) /\ refCount[n] > 0
    BY <1>6, <1>8 DEF Counted, At
  <2>2. n = c /\ refCount[c] = 1
    BY <1>3, <1>4, <2>1
  <2> QED
    BY <1>1, <2>2, CountsMean DEF Tidy
<1>9. Reading(W, anc, t)'
  <2>1. Reading(W, anc, t)
    BY DEF Spelled
  <2> QED
    BY <1>1, <1>5, <2>1 DEF Reading
<1> QED
  BY <1>1, <1>5, <1>7, <1>8, <1>9, SpelledStep

\* What a walk reads next goes before what it has read.
LEMMA ReadOneMore ==
  ASSUME NEW w \in Seq(Elements), NEW e \in Elements, NEW o \in Seq(Elements)
  PROVE  Append(w, e) \o o = w \o (<<e>> \o o) /\ <<e>> \o o \in Seq(Elements)
OBVIOUS

LEMMA WalkSpelled ==
  ASSUME NEW W, NEW anc, Spelled(W, anc), Sound, Tidy, HeldAreCounted', NEW t \in Threads,
         \/ \E n \in Nodes : BeginWalk(t, n)
         \/ Walk(t) \/ WalkEnds(t)
  PROVE  Spelled(W, anc)'
<1>1. /\ UNCHANGED <<parent, element, refCount>>
      /\ \A u \in Threads : u # t => /\ pc'[u] = pc[u] /\ cur'[u] = cur[u] /\ base'[u] = base[u]
                                     /\ out'[u] = out[u]
      /\ pc[t] \in {"idle", "walk"} /\ pc'[t] \in {"walk", "idle"}
  BY DEF BeginWalk, Walk, WalkEnds, Return, Goto, store, Sound, TypeOK
<1>2. \A n \in Nodes : Counted(n)' <=> Counted(n)
  BY <1>1, SameTrie DEF Counted
<1>3. Reading(W, anc, t)
  BY DEF Spelled
<1>4. Reading(W, anc, t)'
  <2>1. ASSUME NEW n \in Nodes, BeginWalk(t, n) PROVE Reading(W, anc, t)'
    <3>1. Counted(n) /\ n \in anc[n] /\ W[n] \in Seq(Elements)
      BY <2>1, HoldersCount DEF HeldAreCounted, Spelled, BeginWalk
    <3>2. pc'[t] = "walk" /\ base'[t] = n /\ cur'[t] = n /\ out'[t] = << >>
      BY <1>3, <2>1 DEF BeginWalk, Goto, Sound, TypeOK, Reading
    <3>3. W[n] = W[n] \o << >>
      BY <3>1
    <3>4. Counted(base[t])'
      BY <3>2 DEF HeldAreCounted
    <3> QED
      BY <3>1, <3>2, <3>3, <3>4 DEF Reading
  <2>2. CASE Walk(t)
    <3>1. PICK b \in Nodes, c \in Nodes :
            b = base[t] /\ c = cur[t] /\ c \in anc[b] /\ Counted(b) /\ W[b] = W[c] \o out[t]
      BY <1>3, <2>2, HoldersCount DEF HeldAreCounted, Walk, Reading, Sound, TypeOK
    <3>2. pc'[t] = "walk" /\ base'[t] = b /\ cur'[t] = parent[c] /\ out'[t] = <<element[c]>> \o out[t]
      BY <2>2, <3>1 DEF Walk, Goto, Collect, Sound, TypeOK
    <3>3. Counted(c) /\ c # ROOT
      BY <2>2, <3>1 DEF Spelled, Walk
    <3>4. element[c] \in Elements /\ W[c] = Append(W[parent[c]], element[c])
      BY <3>3 DEF Spelled
    <3>5. parent[c] \in anc[b] /\ anc[b] \subseteq Nodes
      BY <3>1, <3>3 DEF Spelled
    <3>6. W[parent[c]] \in Seq(Elements) /\ out[t] \in Seq(Elements)
      BY <3>5 DEF Spelled, Sound, TypeOK
    <3>7. W[b] = W[parent[c]] \o (<<element[c]>> \o out[t])
      <4>1. PICK w \in Seq(Elements), e \in Elements, o \in Seq(Elements) :
              w = W[parent[c]] /\ e = element[c] /\ o = out[t]
        BY <3>4, <3>6
      <4>2. W[b] = Append(w, e) \o o
        BY <3>1, <3>4, <4>1
      <4> QED
        BY <4>1, <4>2, ReadOneMore
    <3>8. Counted(base[t])'
      BY <3>2 DEF HeldAreCounted
    <3> QED
      BY <3>2, <3>5, <3>7, <3>8 DEF Reading
  <2>3. CASE WalkEnds(t)
    BY <2>3 DEF WalkEnds, Return, Goto, Sound, TypeOK, Reading
  <2> QED
    BY <2>1, <2>2, <2>3
<1> QED
  BY <1>1, <1>2, <1>4, SpelledStep

\* The edge of a new node makes its sequence that of its parent and one element more.
LEMMA LinkSpelled ==
  ASSUME NEW W, NEW anc, Spelled(W, anc), Sound, Tidy, HeldAreCounted', NEW t \in Threads, Link(t)
  PROVE  \E W2, anc2 :
           /\ Spelled(W2, anc2)'
           /\ W2 = [W EXCEPT ![cur[t]] = Append(W[base[t]], elem[t])]
<1>1. PICK c \in Nodes, b \in Nodes, e \in Elements : c = cur[t] /\ b = base[t] /\ e = elem[t]
  BY DEF Sound, InCalls, Known, Link
<1>2. \A m \in Nodes : refCount'[m] = refCount[m] + (IF m = b THEN 1 ELSE 0)
  BY <1>1, IncExact DEF Link
<1>3. /\ UNCHANGED <<parent, element>> /\ pc[t] = "link" /\ pc'[t] = "idle" /\ out'[t] = << >>
      /\ \A u \in Threads : u # t => /\ pc'[u] = pc[u] /\ cur'[u] = cur[u] /\ base'[u] = base[u]
                                     /\ out'[u] = out[u]
  BY DEF Link, Return, Goto, Sound, TypeOK
<1>4. refCount[c] = 1 /\ parent[c] = b /\ element[c] = e /\ c # ROOT /\ Held(b)
  BY <1>1, <1>3 DEF Tidy, Calls, CallOK, Transit
<1>5. Counted(b)
  BY <1>4, HoldersCount DEF HeldAreCounted
<1>6. ~Counted(c)
  BY <1>1, <1>3 DEF Counted, At
<1>7. \A n \in Nodes : Counted(n)' <=> Counted(n) \/ n = c
  <2>1. \A u \in Threads : pc[u] = "link" /\ cur[u] = c => u = t
    BY <1>1, <1>3 DEF Tidy, Alone, Transit
  <2>2. \A n \in Nodes : refCount[n] \in Nat
    BY CountsMean DEF Tidy
  <2>3. refCount[b] > 0
    BY <1>5 DEF Counted
  <2>4. \A n \in Nodes : refCount'[n] > 0 <=> refCount[n] > 0
    BY <1>2, <2>2, <2>3
  <2>5. \A n \in Nodes : n # c =>
          ((\E u \in At({"link"})' : cur'[u] = n) <=> (\E u \in At({"link"}) : cur[u] = n))
    BY <1>1, <1>3 DEF At
  <2>6. ~ \E u \in At({"link"})' : cur'[u] = c
    BY <1>3, <2>1 DEF At
  <2>7. refCount[c] > 0
    BY <1>4
  <2> QED
    BY <2>4, <2>5, <2>6, <2>7 DEF Counted
<1>8. PICK W2, anc2 : W2 = [W EXCEPT ![c] = Append(W[b], e)] /\ anc2 = [anc EXCEPT ![c] = anc[b] \cup {c}]
  OBVIOUS
<1>9. /\ W[b] \in Seq(Elements) /\ anc[b] \subseteq Nodes /\ \A n \in Nodes : anc[n] \subseteq Nodes
      /\ \A n \in Nodes : Counted(n) => \A m \in anc[n] : Counted(m) /\ m # c
  BY <1>6 DEF Spelled
<1>10. /\ W2 \in [Nodes -> Seq(Elements)] /\ anc2 \in [Nodes -> SUBSET Nodes]
       /\ W2[c] = Append(W[b], e) /\ anc2[c] = anc[b] \cup {c}
       /\ \A n \in Nodes : n # c => W2[n] = W[n] /\ anc2[n] = anc[n]
  <2>1. Append(W[b], e) \in Seq(Elements)
    BY <1>9
  <2> QED
    BY <1>8, <1>9, <2>1 DEF Spelled
<1>11. ASSUME NEW n \in Nodes, Counted(n)'
       PROVE  /\ n \in anc2[n] /\ Cardinality(anc2[n]) = Len(W2[n]) + 1
              /\ \A m \in anc2[n] :
                   /\ Counted(m)'
                   /\ m # ROOT => parent'[m] \in anc2[n]
                   /\ m # n => \E k \in anc2[n] : parent'[k] = m
              /\ n # ROOT => element'[n] \in Elements /\ W2[n] = Append(W2[parent'[n]], element'[n])
  <2>1. CASE n # c
    <3>1. Counted(n)
      BY <1>7, <1>11, <2>1
    <3>2. /\ n \in anc[n] /\ Cardinality(anc[n]) = Len(W[n]) + 1
          /\ \A m \in anc[n] :
               /\ Counted(m)
               /\ m # ROOT => parent[m] \in anc[n]
               /\ m # n => \E k \in anc[n] : parent[k] = m
          /\ n # ROOT => element[n] \in Elements /\ W[n] = Append(W[parent[n]], element[n])
      BY <3>1 DEF Spelled
    <3>3. n # ROOT => parent[n] \in Nodes /\ parent[n] # c
      BY <1>9, <3>1, <3>2
    <3>4. \A m \in anc[n] : Counted(m)'
      BY <1>7, <1>9, <3>2
    <3> QED
      BY <1>3, <1>10, <2>1, <3>2, <3>3, <3>4
  <2>2. CASE n = c
    <3>1. /\ b \in anc[b] /\ Cardinality(anc[b]) = Len(W[b]) + 1
          /\ \A m \in anc[b] :
               /\ Counted(m)
               /\ m # ROOT => parent[m] \in anc[b]
               /\ m # b => \E k \in anc[b] : parent[k] = m
      BY <1>5 DEF Spelled
    <3>2. Cardinality(anc[b] \cup {c}) = Len(Append(W[b], e)) + 1
      <4>1. IsFiniteSet(anc[b]) /\ c \notin anc[b]
        BY <1>5, <1>9, NodesAre, FS_Subset
      <4>2. Cardinality(anc[b] \cup {c}) = Cardinality(anc[b]) + 1
        BY <4>1, OneMoreOrLess
      <4>3. Len(Append(W[b], e)) = Len(W[b]) + 1 /\ Len(W[b]) \in Nat
        BY <1>9
      <4> QED
        BY <3>1, <4>2, <4>3
    <3>3. \A m \in anc[b] \cup {c} : Counted(m)'
      BY <1>7, <1>9, <3>1
    <3>4. \A m \in anc[b] \cup {c} : m # ROOT => parent[m] \in anc[b] \cup {c}
      BY <1>4, <3>1
    <3>5. \A m \in anc[b] \cup {c} : m # c => \E k \in anc[b] \cup {c} : parent[k] = m
      BY <1>4, <3>1
    <3>6. W2[b] = W[b]
      BY <1>5, <1>6, <1>10
    <3> QED
      BY <1>3, <1>4, <1>10, <2>2, <3>2, <3>3, <3>4, <3>5, <3>6
  <2> QED
    BY <2>1, <2>2
<1>12. ASSUME NEW u \in Threads PROVE Reading(W2, anc2, u)'
  <2>1. CASE u = t
    BY <1>3, <2>1 DEF Reading
  <2>2. CASE u # t /\ pc[u] = "walk"
    <3>1. base[u] \in Nodes /\ Counted(base[u]) /\ Reading(W, anc, u)
      BY <2>2, HoldersCount DEF HeldAreCounted, Spelled
    <3>2. base[u] # c
      BY <1>6, <3>1
    <3>3. cur[u] \in anc[base[u]] /\ W[base[u]] = W[cur[u]] \o out[u]
      BY <2>2, <3>1 DEF Reading
    <3>4. cur[u] \in Nodes /\ cur[u] # c
      BY <1>9, <3>1, <3>3
    <3>5. Counted(base[u])'
      BY <1>3, <2>2 DEF HeldAreCounted
    <3> QED
      BY <1>3, <1>10, <2>2, <3>1, <3>2, <3>3, <3>4, <3>5, ZenonT(30) DEF Reading
  <2>3. CASE u # t /\ pc[u] # "walk"
    <3>1. out[u] = << >>
      BY <2>3 DEF Spelled, Reading
    <3> QED
      BY <1>3, <2>3, <3>1 DEF Reading
  <2> QED
    BY <2>1, <2>2, <2>3
<1>13. Spelled(W2, anc2)'
  BY <1>4, <1>10, <1>11, <1>12, NodesAre DEF Spelled
<1> QED
  BY <1>1, <1>8, <1>13

\* At the start there is the empty sequence of ROOT.
LEMMA InitSpelled == Init => \E W, anc : Spelled(W, anc)
<1> SUFFICES ASSUME Init PROVE \E W, anc : Spelled(W, anc)
  OBVIOUS
<1>1. PICK W, anc : W = [n \in Nodes |-> << >>] /\ anc = [n \in Nodes |-> {ROOT}]
  OBVIOUS
<1>2. \A n \in Nodes : Counted(n) => n = ROOT
  BY DEF Init, Counted
<1>3. Counted(ROOT)
  BY NodesAre DEF Init, Counted, At
<1>4. << >> \in Seq(Elements) /\ Len(<< >>) = 0
  OBVIOUS
<1>5. Cardinality({ROOT}) = 1
  <2>1. {} \cup {ROOT} = {ROOT} /\ ROOT \notin {}
    OBVIOUS
  <2> QED
    BY <2>1, FS_EmptySet, FS_AddElement
<1>6. \A t \in Threads : Reading(W, anc, t)
  BY DEF Init, Reading
<1>7. W[ROOT] = << >> /\ anc[ROOT] = {ROOT}
  BY <1>1, NodesAre
<1>8. W \in [Nodes -> Seq(Elements)] /\ anc \in [Nodes -> SUBSET Nodes]
  BY <1>1, <1>4, NodesAre
<1>9. ASSUME NEW n \in Nodes, Counted(n)
      PROVE  /\ n \in anc[n] /\ Cardinality(anc[n]) = Len(W[n]) + 1
             /\ \A m \in anc[n] :
                  /\ Counted(m)
                  /\ m # ROOT => parent[m] \in anc[n]
                  /\ m # n => \E k \in anc[n] : parent[k] = m
             /\ n # ROOT => element[n] \in Elements /\ W[n] = Append(W[parent[n]], element[n])
  <2>1. n = ROOT
    BY <1>2, <1>9
  <2>2. anc[n] = {n} /\ Cardinality(anc[n]) = 1 /\ Len(W[n]) = 0
    BY <1>4, <1>5, <1>7, <2>1
  <2>3. Cardinality(anc[n]) = Len(W[n]) + 1
    BY <2>2
  <2>4. \A m \in anc[n] : Counted(m) /\ m = n /\ m = ROOT
    BY <1>3, <2>1, <2>2
  <2> QED
    BY <2>1, <2>2, <2>3, <2>4
<1>10. Spelled(W, anc)
  BY <1>6, <1>7, <1>8, <1>9 DEF Spelled
<1> QED
  BY <1>10

\* Each step keeps the sequences of the nodes that stay in the trie.
LEMMA StepKeepsSpelled ==
  ASSUME NEW W, NEW anc, Spelled(W, anc), Sound, Tidy, Sound', Tidy', ~Overflown, ~Overflown', Next
  PROVE  \E W2, anc2 : Spelled(W2, anc2)'
<1> DEFINE Goal == \E W2, anc2 : Spelled(W2, anc2)'
<1>1. HeldAreCounted'
  BY HoldersCountNext
<1>2. PICK t \in Threads : Begin(t) \/ Continue(t)
  BY DEF Next
<1>3. pc'[t] # "throw" /\ pc[t] # "throw"
  BY DEF Overflown, At
<1>4. CASE \/ \E p \in Nodes, e \in Elements : BeginExtend(t, p, e)
           \/ PopFree(t) \/ BumpFresh(t) \/ BumpExhausted(t) \/ LookForChunk(t) \/ Grow(t)
           \/ InitNode(t) \/ FreeLink(t) \/ FreePush(t) \/ \E n \in Nodes : Acquire(t, n)
  <2>1. Spelled(W, anc)'
    BY <1>1, <1>4, QuietSpelled
  <2> QED
    BY <2>1
<1>5. CASE DropParent(t) \/ \E n \in Nodes : BeginRelease(t, n)
  <2>1. Spelled(W, anc)'
    BY <1>1, <1>5, DecrementSpelled
  <2> QED
    BY <2>1
<1>6. CASE (\E n \in Nodes : BeginWalk(t, n)) \/ Walk(t) \/ WalkEnds(t)
  <2>1. Spelled(W, anc)'
    BY <1>1, <1>6, WalkSpelled
  <2> QED
    BY <2>1
<1>7. CASE Link(t)
  BY <1>1, <1>7, LinkSpelled
<1>8. ~Throw(t) /\ ~LinkOverflows(t) /\ \A n \in Nodes : ~AcquireOverflows(t, n)
  BY <1>3 DEF Throw, LinkOverflows, AcquireOverflows, Goto, Sound, TypeOK
<1> HIDE DEF Goal
<1>9. CASE Begin(t)
  BY <1>4, <1>5, <1>6, <1>8, <1>9 DEF Begin, Goal
<1>10. CASE Continue(t)
  BY <1>4, <1>5, <1>6, <1>7, <1>8, <1>10 DEF Continue
<1> QED
  BY <1>2, <1>9, <1>10 DEF Goal

-----------------------------------------------------------------------------
(* The inductive invariant.                                                *)

\* Until a count wraps: the counts are exact, the free lists are stacks, the nodes of
\* the trie spell sequences.
IInv ==
  /\ Sound
  /\ ~Overflown => /\ Tidy
                   /\ \E st, size : IsStacks(st, size)
                   /\ \E W, anc : Spelled(W, anc)

\* The invariant holds at the start, and every step keeps it.
LEMMA InitIInv == Init => IInv
BY InitSound, InitOrderly, InitSpelled DEF IInv

LEMMA NextIInv == ShardEach => (IInv /\ [Next]_vars => IInv')
<1> SUFFICES ASSUME ShardEach, IInv, [Next]_vars PROVE IInv'
  OBVIOUS
<1>1. Sound /\ Sound'
  BY SoundInductive DEF IInv
<1>2. ASSUME ~Overflown'
      PROVE  /\ Tidy' /\ (\E st, size : IsStacks(st, size)')
             /\ (\E W, anc : Spelled(W, anc)')
  <2>1. ~Overflown
    BY <1>1, <1>2, OverflowStays
  <2>2. PICK st, size : IsStacks(st, size)
    BY <2>1 DEF IInv
  <2>3. PICK W, anc : Spelled(W, anc)
    BY <2>1 DEF IInv
  <2>4. Tidy
    BY <2>1 DEF IInv
  <2>5. CASE Next
    <3>1. Tidy' /\ \E st2, size2 : IsStacks(st2, size2)'
      BY <1>1, <1>2, <2>1, <2>2, <2>4, <2>5, StepKeepsOrder
    <3>2. \E W2, anc2 : Spelled(W2, anc2)'
      BY <1>1, <1>2, <2>1, <2>3, <2>4, <2>5, <3>1, StepKeepsSpelled
    <3> QED
      BY <3>1, <3>2
  <2>6. CASE UNCHANGED vars
    <3>1. UNCHANGED <<parent, element, refCount, chunks, bump, head, refs, pc, base, elem, cur, nxt, out>>
      BY <2>6 DEF vars, store, local
    <3>2. Known' = Known /\ Stacked(st, size)' = Stacked(st, size)
      BY <3>1 DEF Known, Stacked
    <3>3. \A n : /\ Counted(n)' <=> Counted(n)
                 /\ Children(n)' = Children(n) /\ Freeing(n)' = Freeing(n)
                 /\ Pushing(n)' = Pushing(n) /\ Dropping(n)' = Dropping(n) /\ Linking(n)' = Linking(n)
      BY <3>1 DEF Counted, Children, Freeing, Pushing, Dropping, Linking, At
    <3>4. Exact'
      BY <2>4, <3>1, <3>3 DEF Tidy, Exact, Permanent
    <3>5. Calls' /\ Alone' /\ Fresh' /\ parent'[ROOT] = NONE
      BY <2>4, <3>1, <3>2 DEF Tidy, Calls, CallOK, Held, Alone, Fresh
    <3>6. IsStacks(st, size)'
      BY <2>2, <3>1, <3>2 DEF IsStacks, InTransitTo
    <3>7. Spelled(W, anc)'
      <4>1. \A t \in Threads : Reading(W, anc, t)'
        BY <2>3, <3>1, <3>3 DEF Spelled, Reading
      <4> QED
        BY <2>3, <3>1, <3>3, <4>1, SpelledKeeps
    <3> QED
      BY <3>4, <3>5, <3>6, <3>7 DEF Tidy
  <2> QED
    BY <2>5, <2>6
<1> QED
  BY <1>1, <1>2 DEF IInv

LEMMA Invariance == ShardEach => (Spec => []IInv)
<1> SUFFICES ASSUME ShardEach PROVE Spec => []IInv
  OBVIOUS
<1>1. IInv /\ [Next]_vars => IInv'
  BY NextIInv
<1> QED
  BY <1>1, InitIInv, PTL DEF Spec

-----------------------------------------------------------------------------
(* What the invariant says of the free lists.                              *)

\* A stack of different nodes is no larger than there are nodes.
LEMMA StacksFit ==
  ASSUME NEW st, NEW size, IsStacks(st, size), NEW s \in Shards
  PROVE  size[s] \in Nat /\ size[s] <= MaxNodes /\ \A k \in 1 .. size[s] : st[s][k] \in Nodes
<1>1. PICK m \in Nat : m = size[s]
  BY DEF IsStacks
<1>2. \A k \in 1 .. m : st[s][k] \in Nodes
  BY DEF IsStacks
<1>3. PICK f : f = [k \in 1 .. m |-> st[s][k]]
  OBVIOUS
<1>4. f \in [1 .. m -> Nodes] /\ \A j, k \in 1 .. m : j # k => f[j] # f[k]
  BY <1>1, <1>2, <1>3 DEF IsStacks
<1>5. IsFiniteSet(1 .. m) /\ Cardinality(1 .. m) = m
  BY FS_Interval
<1>6. IsFiniteSet(Nodes) /\ Cardinality(Nodes) = MaxNodes /\ MaxNodes \in Nat
  BY NodesAre
<1>7. ~(Cardinality(Nodes) < Cardinality(1 .. m))
  BY <1>4, <1>5, <1>6, FS_PigeonHole
<1> QED
  BY <1>1, <1>2, <1>5, <1>6, <1>7

\* Following the links from the head passes the stack from its top to its bottom.
LEMMA FreeListIs ==
  ASSUME NEW st, NEW size, IsStacks(st, size), NEW s \in Shards
  PROVE  /\ DOMAIN FreeList(s) = {k \in Nat : k < size[s]}
         /\ \A k \in Nat : k < size[s] => /\ FreeList(s)[k] = st[s][size[s] - k]
                                          /\ size[s] - k \in 1 .. size[s]
<1>1. PICK m \in Nat : m = size[s] /\ m <= MaxNodes /\ \A k \in 1 .. m : st[s][k] \in Nodes
  BY StacksFit
<1>2. PICK c : c = Chain(parent, head[s], {NONE})
  OBVIOUS
<1>3. /\ c[0] = head[s]
      /\ \A k \in 1 .. MaxNodes : c[k] = IF c[k - 1] \in {NONE} THEN NONE ELSE parent[c[k - 1]]
  BY <1>2, ChainIs
<1>4. /\ head[s] = IF m = 0 THEN NONE ELSE st[s][m]
      /\ \A k \in 1 .. m : parent[st[s][k]] = IF k = 1 THEN NONE ELSE st[s][k - 1]
  BY <1>1 DEF IsStacks
<1> DEFINE K == {k \in Nat : k <= MaxNodes => c[k] = IF k < m THEN st[s][m - k] ELSE NONE}
<1>5. 0 \in K
  <2>1. m - 0 = m /\ (0 < m <=> m # 0)
    BY <1>1
  <2> QED
    BY <1>3, <1>4, <2>1
<1>6. ASSUME NEW k \in Nat, k \in K PROVE k + 1 \in K
  <2> SUFFICES ASSUME k + 1 <= MaxNodes
               PROVE  c[k + 1] = IF k + 1 < m THEN st[s][m - (k + 1)] ELSE NONE
    OBVIOUS
  <2>1. k + 1 \in 1 .. MaxNodes /\ (k + 1) - 1 = k /\ k <= MaxNodes
    BY NodesAre
  <2>2. c[k + 1] = IF c[k] \in {NONE} THEN NONE ELSE parent[c[k]]
    BY <1>3, <2>1
  <2>3. c[k] = IF k < m THEN st[s][m - k] ELSE NONE
    BY <1>6, <2>1
  <2>4. CASE k < m
    <3>1. m - k \in 1 .. m /\ (m - k) - 1 = m - (k + 1) /\ (m - k = 1 <=> ~(k + 1 < m))
      BY <2>4
    <3>2. c[k] \in Nodes /\ c[k] # NONE
      BY <1>1, <2>3, <2>4, <3>1, NodesAre
    <3>3. parent[c[k]] = IF m - k = 1 THEN NONE ELSE st[s][(m - k) - 1]
      BY <1>4, <2>3, <2>4, <3>1
    <3> QED
      BY <2>2, <3>1, <3>2, <3>3
  <2>5. CASE ~(k < m)
    BY <2>2, <2>3, <2>5
  <2> QED
    BY <2>4, <2>5
<1>7. \A k \in Nat : k \in K
  <2> HIDE DEF K
  <2> QED
    BY <1>5, <1>6, SetInduction
<1>8. \A k \in 0 .. MaxNodes : c[k] # NONE <=> k < m
  <2>1. \A k \in 0 .. MaxNodes : k < m => m - k \in 1 .. m
    BY <1>1, NodesAre
  <2> QED
    BY <1>1, <1>7, <2>1, NodesAre
<1>9. {j \in 0 .. MaxNodes : c[j] # NONE} = {k \in Nat : k < m}
  BY <1>1, <1>8, NodesAre
<1>10. FreeList(s) = [k \in {k \in Nat : k < m} |-> c[k]]
  BY <1>2, <1>9 DEF FreeList
<1>11. \A k \in Nat : k < m => c[k] = st[s][m - k] /\ m - k \in 1 .. m
  BY <1>1, <1>7, NodesAre
<1> QED
  BY <1>1, <1>10, <1>11

\* The nodes on the free lists are those on the stacks.
LEMMA OnFreeListsIs ==
  ASSUME NEW st, NEW size, IsStacks(st, size)
  PROVE  OnFreeLists = Stacked(st, size)
<1>1. ASSUME NEW n \in OnFreeLists PROVE n \in Stacked(st, size)
  <2>1. PICK s \in Shards : \E k \in DOMAIN FreeList(s) : n = FreeList(s)[k]
    BY DEF OnFreeLists
  <2>2. /\ DOMAIN FreeList(s) = {k \in Nat : k < size[s]}
        /\ \A k \in Nat : k < size[s] => /\ FreeList(s)[k] = st[s][size[s] - k]
                                         /\ size[s] - k \in 1 .. size[s]
    BY FreeListIs
  <2>3. PICK k \in 1 .. size[s] : n = st[s][k]
    BY <2>1, <2>2
  <2>4. n \in Nodes
    BY <2>3, StacksFit
  <2> QED
    BY <2>3, <2>4 DEF Stacked
<1>2. ASSUME NEW n \in Stacked(st, size) PROVE n \in OnFreeLists
  <2>1. PICK s \in Shards, k \in Nat : k \in 1 .. size[s] /\ n = st[s][k]
    BY DEF Stacked
  <2>2. PICK m \in Nat : m = size[s]
    BY DEF IsStacks
  <2>3. m - k \in Nat /\ m - k < m /\ m - (m - k) = k
    BY <2>1, <2>2
  <2>4. m - k \in DOMAIN FreeList(s) /\ FreeList(s)[m - k] = n
    <3>1. /\ DOMAIN FreeList(s) = {i \in Nat : i < size[s]}
          /\ \A i \in Nat : i < size[s] => /\ FreeList(s)[i] = st[s][size[s] - i]
                                           /\ size[s] - i \in 1 .. size[s]
      BY FreeListIs
    <3>2. FreeList(s)[m - k] = st[s][m - (m - k)]
      BY <2>2, <2>3, <3>1
    <3> QED
      BY <2>1, <2>2, <2>3, <3>1, <3>2
  <2> QED
    BY <2>4 DEF OnFreeLists
<1> QED
  BY <1>1, <1>2

-----------------------------------------------------------------------------
(* The theorems about shards of one's own.                                 *)

\* A node is at one position of one free list, or with one call that creates or
\* recycles it, or in the trie: no node is handed out twice, recycled twice or
\* recycled while somebody holds it or relies on it.
THEOREM OnePlace == ShardEach => (Spec => []NodesHaveOnePlace)
<1> SUFFICES ASSUME ShardEach PROVE Spec => []NodesHaveOnePlace
  OBVIOUS
<1>1. IInv => NodesHaveOnePlace
  <2> SUFFICES ASSUME IInv, ~Overflown
               PROVE  /\ \A s, r \in Shards : \A j \in DOMAIN FreeList(s), k \in DOMAIN FreeList(r) :
                           FreeList(s)[j] = FreeList(r)[k] => s = r /\ j = k
                      /\ \A t, u \in Threads : t # u => InTransit(t) \cap InTransit(u) = {}
                      /\ OnFreeLists \cap Transiting = {}
                      /\ \A n \in OnFreeLists \cup Transiting : ~Held(n) /\ Relying(n) = {}
    BY DEF NodesHaveOnePlace
  <2>1. Sound /\ Tidy
    BY DEF IInv
  <2>2. PICK st, size : IsStacks(st, size)
    BY DEF IInv
  <2>3. OnFreeLists = Stacked(st, size)
    BY <2>2, OnFreeListsIs
  <2>4. ASSUME NEW s \in Shards, NEW r \in Shards,
               NEW j \in DOMAIN FreeList(s), NEW k \in DOMAIN FreeList(r),
               FreeList(s)[j] = FreeList(r)[k]
        PROVE  s = r /\ j = k
    <3>1. /\ j \in Nat /\ j < size[s] /\ size[s] - j \in 1 .. size[s]
          /\ k \in Nat /\ k < size[r] /\ size[r] - k \in 1 .. size[r]
          /\ st[s][size[s] - j] = st[r][size[r] - k]
      <4>1. \A q \in Shards :
              /\ DOMAIN FreeList(q) = {i \in Nat : i < size[q]}
              /\ \A i \in Nat : i < size[q] => /\ FreeList(q)[i] = st[q][size[q] - i]
                                               /\ size[q] - i \in 1 .. size[q]
        BY <2>2, FreeListIs
      <4>2. j \in Nat /\ j < size[s] /\ FreeList(s)[j] = st[s][size[s] - j] /\ size[s] - j \in 1 .. size[s]
        BY <4>1
      <4>3. k \in Nat /\ k < size[r] /\ FreeList(r)[k] = st[r][size[r] - k] /\ size[r] - k \in 1 .. size[r]
        BY <4>1
      <4> QED
        BY <2>4, <4>2, <4>3
    <3>2. s = r /\ size[s] - j = size[r] - k
      BY <2>2, <3>1 DEF IsStacks
    <3>3. size[s] \in Nat
      BY <2>2 DEF IsStacks
    <3> QED
      BY <3>1, <3>2, <3>3
  <2>5. \A t \in Threads : \A n : n \in InTransit(t) <=> InTransitTo(t, n)
    BY DEF InTransit, InTransitTo, Transit
  <2>6. \A t, u \in Threads : t # u => InTransit(t) \cap InTransit(u) = {}
    BY <2>1, <2>5 DEF Tidy, Alone, InTransitTo
  <2>7. \A n : n \in Transiting => \E t \in Threads : InTransitTo(t, n)
    BY <2>5 DEF Transiting
  <2>8. OnFreeLists \cap Transiting = {}
    BY <2>2, <2>3, <2>7 DEF IsStacks
  <2>9. ASSUME NEW n \in OnFreeLists \cup Transiting PROVE ~Held(n) /\ Relying(n) = {}
    <3>1. n \in Nodes
      BY <2>1, <2>3, <2>7 DEF Stacked, InTransitTo, Sound, InCalls, Known, Transit
    <3>2. ~Held(n)
      BY <2>1, <2>2, <2>3, <2>7, <3>1, InUse DEF IsStacks
    <3>3. ASSUME NEW t \in Relying(n) PROVE FALSE
      <4>1. t \in Threads /\ pc[t] # "idle" /\ base[t] = n /\ CallOK(t)
        BY <2>1 DEF Relying, Tidy, Calls
      <4>2. pc[t] \notin {"drop", "free", "push"}
        BY <3>1, <4>1, NodesAre DEF CallOK
      <4>3. pc[t] # "throw"
        BY <4>1 DEF Overflown, At
      <4>4. Held(n)
        BY <2>1, <4>1, <4>2, <4>3 DEF CallOK, Sound, TypeOK
      <4> QED
        BY <3>2, <4>4
    <3> QED
      BY <3>2, <3>3
  <2> QED
    BY <2>4, <2>6, <2>8, <2>9
<1> QED
  BY <1>1, Invariance, PTL

\* A reference count is exactly the references that callers hold, the edges of the
\* children and of those being freed, and ROOT's permanent one: what a release
\* decides on, however the calls interleave.
THEOREM CountsExact == ShardEach => (Spec => []RefCountIsExact)
<1> SUFFICES ASSUME ShardEach PROVE Spec => []RefCountIsExact
  OBVIOUS
<1>1. IInv => RefCountIsExact
  <2> SUFFICES ASSUME IInv, ~Overflown, NEW n \in Nodes
               PROVE  refCount[n] = refs[n] + CountedEdges(n)
                                    + Cardinality({t \in At({"link"}) : cur[t] = n})
                                    + (IF n = ROOT THEN 1 ELSE 0)
    BY DEF RefCountIsExact
  <2>1. Sound /\ Exact
    BY DEF IInv, Tidy
  <2>2. PICK a, b, c, d, e \in Nat :
           /\ refCount[n] = refs[n] + a + b + c + d + e + Permanent(n)
           /\ a = Cardinality(Children(n)) /\ b = Cardinality(Freeing(n))
           /\ c = Cardinality(Pushing(n)) /\ d = Cardinality(Dropping(n))
           /\ e = Cardinality(Linking(n))
    BY <2>1, CountIs
  <2>3. Children(n) = {m \in Nodes : refCount[m] > 0 /\ parent[m] = n
                                     /\ \A t \in At({"link"}) : cur[t] # m}
    BY DEF Children, Counted
  <2>4. CountedEdges(n) = a + b + c + d
    BY <2>2, <2>3 DEF CountedEdges, Freeing, Pushing, Dropping
  <2>5. refs[n] \in Nat
    BY <2>1 DEF Sound, TypeOK
  <2> QED
    BY <2>2, <2>4, <2>5 DEF Linking, Permanent
<1> QED
  BY <1>1, Invariance, PTL

-----------------------------------------------------------------------------
(* What the invariant says of the sequences.                               *)

\* A node of the trie but ROOT has a parent in the trie, with one element less, and
\* no sequence is as long as there are nodes.
LEMMA OneLess ==
  ASSUME NEW W, NEW anc, Spelled(W, anc), NEW n \in Nodes, Counted(n)
  PROVE  /\ W[n] \in Seq(Elements) /\ Len(W[n]) \in Nat /\ Len(W[n]) < MaxNodes
         /\ n = ROOT => Len(W[n]) = 0
         /\ n # ROOT => /\ parent[n] \in Nodes /\ Counted(parent[n])
                        /\ W[parent[n]] \in Seq(Elements)
                        /\ Len(W[n]) = Len(W[parent[n]]) + 1
                        /\ W[n][Len(W[n])] = element[n]
                        /\ \A i \in 1 .. Len(W[parent[n]]) : W[n][i] = W[parent[n]][i]
<1>1. W[n] \in Seq(Elements) /\ Len(W[n]) \in Nat
  BY DEF Spelled
<1>2. Len(W[n]) < MaxNodes
  <2>1. anc[n] \in SUBSET Nodes /\ Cardinality(anc[n]) = Len(W[n]) + 1
    BY DEF Spelled
  <2>2. Cardinality(anc[n]) <= MaxNodes /\ MaxNodes \in Nat
    BY <2>1, NodesAre, FS_Subset
  <2> QED
    BY <1>1, <2>1, <2>2
<1>3. n = ROOT => Len(W[n]) = 0
  BY DEF Spelled
<1>4. ASSUME n # ROOT
      PROVE  /\ parent[n] \in Nodes /\ Counted(parent[n])
             /\ W[parent[n]] \in Seq(Elements)
             /\ Len(W[n]) = Len(W[parent[n]]) + 1
             /\ W[n][Len(W[n])] = element[n]
             /\ \A i \in 1 .. Len(W[parent[n]]) : W[n][i] = W[parent[n]][i]
  <2>1. /\ n \in anc[n] /\ anc[n] \subseteq Nodes
        /\ \A m \in anc[n] : Counted(m) /\ (m # ROOT => parent[m] \in anc[n])
        /\ element[n] \in Elements /\ W[n] = Append(W[parent[n]], element[n])
    BY <1>4 DEF Spelled
  <2>2. PICK p \in Nodes : p = parent[n] /\ Counted(p)
    BY <1>4, <2>1
  <2>3. PICK w \in Seq(Elements), e \in Elements : w = W[p] /\ e = element[n] /\ W[n] = Append(w, e)
    BY <2>1, <2>2 DEF Spelled
  <2>4. Len(Append(w, e)) = Len(w) + 1 /\ Append(w, e)[Len(w) + 1] = e
        /\ \A i \in 1 .. Len(w) : Append(w, e)[i] = w[i]
    OBVIOUS
  <2> QED
    BY <2>2, <2>3, <2>4
<1> QED
  BY <1>1, <1>2, <1>3, <1>4

\* Following the parents from a node of the trie spells its sequence backwards.
LEMMA PathIs ==
  ASSUME NEW W, NEW anc, Spelled(W, anc), NEW n \in Nodes, Counted(n)
  PROVE  Path(n) = W[n]
<1>1. PICK w \in Seq(Elements), d \in Nat : w = W[n] /\ d = Len(w) /\ d < MaxNodes
  BY OneLess
<1>2. PICK up : up = Chain(parent, n, {ROOT, NONE})
  OBVIOUS
<1>3. /\ up[0] = n
      /\ \A k \in 1 .. MaxNodes : up[k] = IF up[k - 1] \in {ROOT, NONE} THEN NONE ELSE parent[up[k - 1]]
  BY <1>2, ChainIs
<1> DEFINE Near(k) == /\ up[k] \in Nodes /\ Counted(up[k]) /\ Len(W[up[k]]) = d - k
                      /\ \A i \in 1 .. d - k : W[up[k]][i] = w[i]
           K == {k \in Nat : k <= MaxNodes => IF k <= d THEN Near(k) ELSE up[k] = NONE}
<1>4. 0 \in K
  BY <1>1, <1>3
<1>5. ASSUME NEW k \in Nat, k \in K PROVE k + 1 \in K
  <2> SUFFICES ASSUME k + 1 <= MaxNodes
               PROVE  IF k + 1 <= d THEN Near(k + 1) ELSE up[k + 1] = NONE
    OBVIOUS
  <2>1. k + 1 \in 1 .. MaxNodes /\ (k + 1) - 1 = k /\ k <= MaxNodes
    BY NodesAre
  <2>2. up[k + 1] = IF up[k] \in {ROOT, NONE} THEN NONE ELSE parent[up[k]]
    BY <1>3, <2>1
  <2>3. IF k <= d THEN Near(k) ELSE up[k] = NONE
    BY <1>5, <2>1
  <2>4. CASE k + 1 <= d
    <3>1. PICK m \in Nodes : m = up[k] /\ Counted(m) /\ Len(W[m]) = d - k
                             /\ \A i \in 1 .. d - k : W[m][i] = w[i]
      BY <2>3, <2>4
    <3>2. m # ROOT /\ m # NONE
      <4>1. d - k # 0
        BY <2>4
      <4> QED
        BY <3>1, <4>1, NodesAre, SMTT(30) DEF Spelled
    <3>3. /\ parent[m] \in Nodes /\ Counted(parent[m]) /\ W[parent[m]] \in Seq(Elements)
          /\ Len(W[m]) = Len(W[parent[m]]) + 1
          /\ \A i \in 1 .. Len(W[parent[m]]) : W[m][i] = W[parent[m]][i]
      <4>1. m # ROOT => /\ parent[m] \in Nodes /\ Counted(parent[m])
                        /\ W[parent[m]] \in Seq(Elements)
                        /\ Len(W[m]) = Len(W[parent[m]]) + 1
                        /\ W[m][Len(W[m])] = element[m]
                        /\ \A i \in 1 .. Len(W[parent[m]]) : W[m][i] = W[parent[m]][i]
        <5>1. Counted(m)
          BY <3>1
        <5> HIDE DEF K
        <5> QED
          BY <5>1, OneLess
      <4> QED
        BY <3>2, <4>1
    <3>4. up[k + 1] = parent[m]
      BY <2>2, <3>1, <3>2
    <3>5. PICK l \in Nat : l = Len(W[parent[m]])
      BY <3>3
    <3>6. l = d - (k + 1) /\ \A i \in 1 .. l : i \in 1 .. d - k
      <4>1. d - k = l + 1
        BY <3>1, <3>3, <3>5
      <4> QED
        BY <4>1
    <3> QED
      BY <2>4, <3>1, <3>3, <3>4, <3>5, <3>6
  <2>5. CASE k = d
    <3>1. PICK m \in Nodes : m = up[k] /\ Counted(m) /\ Len(W[m]) = 0
      BY <2>3, <2>5
    <3>2. m = ROOT
      <4>1. ASSUME m # ROOT PROVE FALSE
        <5>1. PICK l \in Nat : l = Len(W[parent[m]]) /\ 0 = l + 1
          BY <3>1, <4>1, OneLess
        <5> QED
          BY <5>1
      <4> QED
        BY <4>1
    <3> QED
      BY <2>2, <2>5, <3>1, <3>2
  <2>6. CASE k > d
    BY <2>2, <2>3, <2>6
  <2> QED
    BY <2>4, <2>5, <2>6
<1>6. \A k \in Nat : k <= MaxNodes => IF k <= d THEN Near(k) ELSE up[k] = NONE
  <2>1. \A k \in Nat : k \in K
    <3> HIDE DEF K
    <3> QED
      BY <1>4, <1>5, SetInduction
  <2> QED
    BY <2>1
<1>7. ASSUME NEW k \in Nat, k < d
      PROVE  up[k] \notin {ROOT, NONE} /\ element[up[k]] = w[d - k]
  <2>1. k <= MaxNodes /\ k <= d /\ d - k \in Nat \ {0}
    BY <1>1, <1>7, NodesAre
  <2>2. Near(k)
    BY <1>6, <2>1
  <2>3. PICK m \in Nodes : m = up[k] /\ Counted(m) /\ Len(W[m]) = d - k
                           /\ \A i \in 1 .. d - k : W[m][i] = w[i]
    BY <2>2
  <2>4. m # ROOT /\ m # NONE
    BY <2>1, <2>3, NodesAre DEF Spelled
  <2>5. W[m][d - k] = element[m]
    BY <2>3, <2>4, OneLess
  <2>6. d - k \in 1 .. d - k
    BY <2>1
  <2> QED
    BY <2>3, <2>4, <2>5, <2>6
<1>8. up[d] \in {ROOT, NONE}
  <2>1. d <= MaxNodes /\ d + 1 <= MaxNodes /\ d + 1 \in 1 .. MaxNodes /\ (d + 1) - 1 = d /\ ~(d + 1 <= d)
    BY <1>1, NodesAre
  <2>2. up[d + 1] = NONE /\ Near(d)
    BY <1>6, <2>1
  <2>3. ASSUME up[d] \notin {ROOT, NONE} PROVE FALSE
    <3>1. up[d + 1] = parent[up[d]]
      BY <1>3, <2>1, <2>3
    <3>2. parent[up[d]] \in Nodes
      BY <2>2, <2>3, OneLess
    <3> QED
      BY <2>2, <3>1, <3>2, NodesAre
  <2> QED
    BY <2>3
<1>9. \A k \in 0 .. MaxNodes : up[k] \notin {ROOT, NONE} <=> k < d
  <2>1. ASSUME NEW k \in 0 .. MaxNodes, ~(k < d), k # d PROVE up[k] = NONE
    <3>1. k \in Nat /\ k <= MaxNodes /\ ~(k <= d)
      BY <1>1, <2>1, NodesAre
    <3> QED
      BY <1>6, <3>1
  <2> QED
    BY <1>7, <1>8, <2>1, NodesAre
<1>10. {k \in 0 .. MaxNodes : up[k] \notin {ROOT, NONE}} = 0 .. d - 1
  BY <1>1, <1>9, NodesAre
<1>11. Cardinality(0 .. d - 1) = d
  <2>1. 0 \in Int /\ d - 1 \in Int
    OBVIOUS
  <2>2. Cardinality(0 .. d - 1) = IF 0 > d - 1 THEN 0 ELSE (d - 1) - 0 + 1
    BY <2>1, FS_Interval
  <2> QED
    BY <2>2
<1>12. Path(n) = [i \in 1 .. d |-> element[up[d - i]]]
  BY <1>2, <1>10, <1>11 DEF Path
<1>13. \A i \in 1 .. d : element[up[d - i]] = w[i]
  <2> SUFFICES ASSUME NEW i \in 1 .. d PROVE element[up[d - i]] = w[i]
    OBVIOUS
  <2>1. d - i \in Nat /\ d - i < d /\ d - (d - i) = i
    OBVIOUS
  <2> QED
    BY <1>7, <2>1
<1>14. w = [i \in 1 .. d |-> w[i]]
  BY <1>1
<1> QED
  BY <1>1, <1>12, <1>13, <1>14

\* A walk that got to ROOT has read the path of its node, although nodes came and
\* went under it.
THEOREM WalksRead == ShardEach => (Spec => []WalkReadsPath)
<1> SUFFICES ASSUME ShardEach PROVE Spec => []WalkReadsPath
  OBVIOUS
<1>1. IInv => WalkReadsPath
  <2> SUFFICES ASSUME IInv, ~Overflown, NEW t \in At({"walk"}), cur[t] \in {ROOT, NONE}
               PROVE  out[t] = Path(base[t])
    BY DEF WalkReadsPath
  <2>1. PICK W, anc : Spelled(W, anc)
    BY DEF IInv
  <2>2. t \in Threads /\ pc[t] = "walk" /\ Sound /\ Tidy
    BY DEF At, IInv
  <2>3. Reading(W, anc, t)
    BY <2>1, <2>2 DEF Spelled
  <2>4. PICK b \in Nodes : b = base[t] /\ Counted(b)
    BY <2>2, HoldersCount DEF HeldAreCounted
  <2>5. cur[t] \in anc[b] /\ W[b] = W[cur[t]] \o out[t]
    BY <2>2, <2>3, <2>4 DEF Reading
  <2>6. cur[t] = ROOT
    BY <2>1, <2>5, NodesAre DEF Spelled
  <2>7. W[b] = << >> \o out[t] /\ out[t] \in Seq(Elements)
    BY <2>1, <2>2, <2>5, <2>6 DEF Spelled, Sound, TypeOK
  <2>8. W[b] = out[t]
    BY <2>7
  <2> QED
    BY <2>1, <2>4, <2>8, PathIs
<1> QED
  BY <1>1, Invariance, PTL

\* A node that nobody holds is in use between the calls only if it has children.
LEMMA ChildrenAreLeft ==
  ASSUME Sound, Exact, NEW n \in Nodes, n # ROOT, refs[n] = 0, refCount[n] # 0,
         \A t \in Threads : pc[t] = "idle"
  PROVE  Children(n) # {}
<1>1. PICK a, b, c, d, e \in Nat :
         /\ refCount[n] = refs[n] + a + b + c + d + e + Permanent(n)
         /\ a = Cardinality(Children(n)) /\ b = Cardinality(Freeing(n))
         /\ c = Cardinality(Pushing(n)) /\ d = Cardinality(Dropping(n))
         /\ e = Cardinality(Linking(n))
         /\ (a = 0 <=> Children(n) = {}) /\ (b = 0 <=> Freeing(n) = {})
         /\ (c = 0 <=> Pushing(n) = {}) /\ (d = 0 <=> Dropping(n) = {})
         /\ (e = 0 <=> Linking(n) = {})
  BY CountIs
<1>2. Freeing(n) = {} /\ Pushing(n) = {} /\ Dropping(n) = {} /\ Linking(n) = {}
  BY DEF Freeing, Pushing, Dropping, Linking, At
<1>3. Permanent(n) = 0
  BY DEF Permanent
<1>4. b = 0 /\ c = 0 /\ d = 0 /\ e = 0
  BY <1>1, <1>2
<1>5. refCount[n] = a
  BY <1>1, <1>3, <1>4
<1> QED
  BY <1>1, <1>5

\* When nobody holds anything and no call is under way, only ROOT is in use: another
\* node that is would have a child, and a farthest one has none.
LEMMA NothingInUse ==
  ASSUME NEW W, NEW anc, Spelled(W, anc), Sound, Tidy, \A n \in Nodes : refs[n] = 0,
         \A t \in Threads : pc[t] = "idle"
  PROVE  \A n \in Nodes \ {ROOT} : refCount[n] = 0
<1> DEFINE D == {k \in Nat : \E n \in Nodes \ {ROOT} : Counted(n) /\ k = MaxNodes - Len(W[n])}
<1>1. \A n \in Nodes : refCount[n] \in Nat /\ (Counted(n) <=> refCount[n] # 0)
  <2>1. At({"link"}) = {}
    BY DEF At
  <2>2. \A n \in Nodes : refCount[n] \in Nat
    BY CountsMean DEF Tidy
  <2> QED
    BY <2>1, <2>2 DEF Counted
<1> SUFFICES ASSUME NEW n0 \in Nodes \ {ROOT}, Counted(n0) PROVE FALSE
  BY <1>1
<1>2. D # {}
  <2>1. PICK l \in Nat : l = Len(W[n0]) /\ l < MaxNodes
    BY OneLess
  <2>2. MaxNodes - l \in Nat
    BY <2>1, NodesAre
  <2> QED
    BY <2>1, <2>2
<1>3. PICK k \in D : \A j \in D : k <= j
  <2> HIDE DEF D
  <2>1. D \in SUBSET Nat
    BY DEF D
  <2> QED
    BY <1>2, <2>1, LeastElement
<1>4. PICK n \in Nodes \ {ROOT} : Counted(n) /\ k = MaxNodes - Len(W[n])
  BY <1>3
<1>5. Children(n) # {}
  <2>1. refCount[n] # 0 /\ refs[n] = 0
    BY <1>1, <1>4
  <2> QED
    BY <1>4, <2>1, ChildrenAreLeft DEF Tidy
<1>6. PICK m \in Nodes : Counted(m) /\ parent[m] = n
  BY <1>5 DEF Children
<1>7. m # ROOT
  BY <1>4, <1>6, NodesAre DEF Tidy
<1>8. PICK x \in Nat, y \in Nat : x = Len(W[m]) /\ y = Len(W[n]) /\ x < MaxNodes /\ x = y + 1
  <2>1. Len(W[m]) \in Nat /\ Len(W[m]) < MaxNodes /\ Len(W[m]) = Len(W[parent[m]]) + 1
    BY <1>6, <1>7, OneLess
  <2>2. Len(W[n]) \in Nat
    BY <1>4, OneLess
  <2> QED
    BY <1>6, <2>1, <2>2
<1>9. MaxNodes - x \in D
  <2>1. MaxNodes - x \in Nat
    BY <1>8, NodesAre
  <2> QED
    BY <1>6, <1>7, <1>8, <2>1
<1>10. k <= MaxNodes - x /\ k = MaxNodes - y
  BY <1>3, <1>4, <1>8, <1>9
<1> QED
  BY <1>8, <1>10, NodesAre

\* When nobody holds anything and no call is under way, every node ever taken but
\* ROOT is on a free list: nothing leaks, however the releases interleaved.
THEOREM AllRecycled == ShardEach => (Spec => []AllReleasedAllRecycled)
<1> SUFFICES ASSUME ShardEach PROVE Spec => []AllReleasedAllRecycled
  OBVIOUS
<1>1. IInv => AllReleasedAllRecycled
  <2> SUFFICES ASSUME IInv, \A n \in Nodes : refs[n] = 0, At({"idle"}) = Threads
               PROVE  OnFreeLists = {n \in Nodes \ {ROOT} : n < bump}
    BY DEF AllReleasedAllRecycled
  <2>1. \A t \in Threads : pc[t] = "idle"
    BY DEF At
  <2>2. ~Overflown
    BY <2>1 DEF Overflown, At
  <2>3. Sound /\ Tidy
    BY <2>2 DEF IInv
  <2>4. PICK W, anc : Spelled(W, anc)
    BY <2>2 DEF IInv
  <2>5. PICK st, size : IsStacks(st, size)
    BY <2>2 DEF IInv
  <2>6. OnFreeLists = Stacked(st, size)
    BY <2>5, OnFreeListsIs
  <2>7. ASSUME NEW n \in Stacked(st, size) PROVE n \in Nodes \ {ROOT} /\ n < bump
    BY <2>3, <2>5 DEF IsStacks, Stacked, Tidy, Fresh
  <2>8. ASSUME NEW n \in Nodes \ {ROOT}, n < bump PROVE n \in Stacked(st, size)
    <3>1. refCount[n] = 0
      BY <2>1, <2>3, <2>4, NothingInUse
    <3>2. \A t \in Threads : ~InTransitTo(t, n)
      BY <2>1 DEF InTransitTo, Transit
    <3>3. ~(refCount[n] > 0)
      BY <3>1
    <3> QED
      BY <2>5, <2>8, <3>2, <3>3 DEF IsStacks
  <2> QED
    BY <2>6, <2>7, <2>8
<1> QED
  BY <1>1, Invariance, PTL

-----------------------------------------------------------------------------
(* The implementation of PathStore.                                        *)

\* The word that the refinement gives a handle.
Word == [n \in Nodes |-> IF refs[n] > 0 THEN Path(n) ELSE << >>]

WordsAreSpelled ==
  \A W, anc : Spelled(W, anc) =>
    \A n \in Nodes : Word[n] = IF refs[n] > 0 THEN W[n] ELSE << >>

\* The word of a node that is held is its sequence.
LEMMA WordsAre == HeldAreCounted => WordsAreSpelled
<1> SUFFICES ASSUME HeldAreCounted, NEW W, NEW anc, Spelled(W, anc), NEW n \in Nodes
             PROVE  Word[n] = IF refs[n] > 0 THEN W[n] ELSE << >>
  BY DEF WordsAreSpelled
<1>1. refs[n] > 0 => Path(n) = W[n]
  BY PathIs DEF HeldAreCounted, Held
<1> QED
  BY <1>1 DEF Word

LEMMA WordsAreNext == HeldAreCounted' => WordsAreSpelled'
BY WordsAre, PTL

\* The steps of PathStore, of the references and words alone.
LEMMA ExtendIs ==
  ASSUME NEW p, NEW e, NEW h
  PROVE  P!Extend(p, e, h) <=> /\ Held(p) /\ ~Held(h)
                               /\ refs' = [refs EXCEPT ![h] = 1]
                               /\ Word' = [Word EXCEPT ![h] = Append(Word[p], e)]
BY DEF P!Extend, P!Held, Held, Word

LEMMA AcquireIs ==
  ASSUME NEW h
  PROVE  P!Acquire(h) <=> Held(h) /\ refs' = [refs EXCEPT ![h] = @ + 1] /\ Word' = Word
BY DEF P!Acquire, P!Held, Held, Word

LEMMA ReleaseIs ==
  ASSUME NEW h
  PROVE  P!Release(h) <=> /\ refs[h] > 0 /\ refs' = [refs EXCEPT ![h] = @ - 1]
                          /\ Word' = IF refs[h] = 1 THEN [Word EXCEPT ![h] = << >>] ELSE Word
BY DEF P!Release, Word

LEMMA VarsAre == P!vars' = P!vars <=> refs' = refs /\ Word' = Word
BY DEF P!vars, Word

\* All words at once, before the step and after it.
LEMMA WordsNow ==
  ASSUME NEW W, NEW anc, Spelled(W, anc), HeldAreCounted
  PROVE  Word = [n \in Nodes |-> IF refs[n] > 0 THEN W[n] ELSE << >>]
<1>1. \A n \in Nodes : Word[n] = IF refs[n] > 0 THEN W[n] ELSE << >>
  BY WordsAre DEF WordsAreSpelled
<1>2. Word = [n \in Nodes |-> Word[n]]
  BY DEF Word
<1> QED
  BY <1>1, <1>2

LEMMA WordsThen ==
  ASSUME NEW W, NEW anc, Spelled(W, anc)', HeldAreCounted'
  PROVE  Word' = [n \in Nodes |-> IF refs'[n] > 0 THEN W[n] ELSE << >>]
<1>1. \A n \in Nodes : Word'[n] = IF refs'[n] > 0 THEN W[n] ELSE << >>
  BY WordsAreNext DEF WordsAreSpelled
<1>2. Word' = [n \in Nodes |-> Word'[n]]
  BY DEF Word
<1> QED
  BY <1>1, <1>2

\* A call that returns a new node makes PathStore's extend.
LEMMA LinkRefines ==
  ASSUME Sound, Tidy, HeldAreCounted', NEW W, NEW anc, Spelled(W, anc), NEW t \in Threads, Link(t)
  PROVE  P!Next
<1>1. PICK c \in Nodes, b \in Nodes, e \in Elements : c = cur[t] /\ b = base[t] /\ e = elem[t]
  BY DEF Sound, InCalls, Known, Link
<1>2. pc[t] = "link" /\ refs' = [refs EXCEPT ![c] = @ + 1]
  BY <1>1 DEF Link
<1>3. Held(b)
  BY <1>1, <1>2 DEF Tidy, Calls, CallOK
<1>4. ~Held(c)
  BY <1>1, <1>2, InUse DEF InTransitTo, Transit
<1>5. refs[c] = 0
  BY <1>4 DEF Held, Sound, TypeOK
<1>6. PICK W2, anc2 : Spelled(W2, anc2)' /\ W2 = [W EXCEPT ![c] = Append(W[b], e)]
  BY <1>1, LinkSpelled
<1>7. HeldAreCounted
  BY HoldersCount
<1>8. Word = [n \in Nodes |-> IF refs[n] > 0 THEN W[n] ELSE << >>]
  BY <1>7, WordsNow
<1>9. Word' = [n \in Nodes |-> IF refs'[n] > 0 THEN W2[n] ELSE << >>]
  BY <1>6, WordsThen
<1>10. refs' = [refs EXCEPT ![c] = 1]
  BY <1>2, <1>5
<1>11. Word[b] = W[b]
  BY <1>3, <1>8 DEF Held, Spelled
<1>12. Word' = [Word EXCEPT ![c] = Append(Word[b], e)]
  <2>1. \A n \in Nodes : refs'[n] = IF n = c THEN 1 ELSE refs[n]
    BY <1>10 DEF Sound, TypeOK
  <2>2. \A n \in Nodes : W2[n] = IF n = c THEN Append(W[b], e) ELSE W[n]
    BY <1>6 DEF Spelled
  <2>3. PICK word : word = Append(W[b], e)
    OBVIOUS
  <2>4. \A n \in Nodes : (IF refs'[n] > 0 THEN W2[n] ELSE << >>)
                        = IF n = c THEN word ELSE IF refs[n] > 0 THEN W[n] ELSE << >>
    BY <2>1, <2>2, <2>3
  <2>5. Word' = [n \in Nodes |-> IF n = c THEN word ELSE IF refs[n] > 0 THEN W[n] ELSE << >>]
    BY <1>9, <2>4
  <2>6. [Word EXCEPT ![c] = word]
          = [n \in Nodes |-> IF n = c THEN word ELSE IF refs[n] > 0 THEN W[n] ELSE << >>]
    BY <1>8
  <2>7. Append(Word[b], e) = word
    BY <1>11, <2>3
  <2> QED
    BY <2>5, <2>6, <2>7
<1>13. P!Extend(b, e, c)
  BY <1>3, <1>4, <1>10, <1>12, ExtendIs
<1> QED
  BY <1>13 DEF P!Next

\* An acquire and a release change the references, and the words of no other node.
LEMMA AcquireRefines ==
  ASSUME Sound, Tidy, HeldAreCounted', NEW W, NEW anc, Spelled(W, anc), NEW t \in Threads,
         NEW c \in Nodes, Acquire(t, c)
  PROVE  P!Next
<1>1. Held(c) /\ refs' = [refs EXCEPT ![c] = @ + 1]
  BY DEF Acquire
<1>2. Spelled(W, anc)'
  BY QuietSpelled
<1>3. HeldAreCounted
  BY HoldersCount
<1>4. Word = [n \in Nodes |-> IF refs[n] > 0 THEN W[n] ELSE << >>]
  BY <1>3, WordsNow
<1>5. Word' = [n \in Nodes |-> IF refs'[n] > 0 THEN W[n] ELSE << >>]
  BY <1>2, WordsThen
<1>6. \A n \in Nodes : n # c => refs'[n] = refs[n]
  BY <1>1 DEF Sound, TypeOK
<1>7. c = ROOT => W[c] = << >>
  BY DEF Spelled
<1>8. refs'[c] > 0
  BY <1>1 DEF Sound, TypeOK
<1>9. Word' = Word
  BY <1>1, <1>4, <1>5, <1>6, <1>7, <1>8 DEF Held
<1>10. P!Acquire(c)
  BY <1>1, <1>9, AcquireIs
<1> QED
  BY <1>10 DEF P!Next

LEMMA ReleaseRefines ==
  ASSUME Sound, Tidy, HeldAreCounted', NEW W, NEW anc, Spelled(W, anc), NEW t \in Threads,
         NEW c \in Nodes, BeginRelease(t, c)
  PROVE  P!Next
<1>1. refs[c] > 0 /\ refs' = [refs EXCEPT ![c] = @ - 1]
  BY DEF BeginRelease
<1>2. Spelled(W, anc)'
  BY DecrementSpelled
<1>3. HeldAreCounted
  BY HoldersCount
<1>4. Word = [n \in Nodes |-> IF refs[n] > 0 THEN W[n] ELSE << >>]
  BY <1>3, WordsNow
<1>5. Word' = [n \in Nodes |-> IF refs'[n] > 0 THEN W[n] ELSE << >>]
  BY <1>2, WordsThen
<1>6. \A n \in Nodes : n # c => refs'[n] = refs[n]
  BY <1>1 DEF Sound, TypeOK
<1>7. refs'[c] > 0 <=> refs[c] # 1
  BY <1>1 DEF Sound, TypeOK
<1>8. Word' = IF refs[c] = 1 THEN [Word EXCEPT ![c] = << >>] ELSE Word
  BY <1>1, <1>4, <1>5, <1>6, <1>7
<1>9. P!Release(c)
  BY <1>1, <1>8, ReleaseIs
<1> QED
  BY <1>9 DEF P!Next

\* Every step is one of PathStore or stutters.
LEMMA StepRefines ==
  ASSUME IInv, IInv', [Next]_vars
  PROVE  [~Overflown => P!Next]_P!vars
<1>1. CASE Overflown
  BY <1>1
<1>2. CASE refs' = refs /\ parent' = parent /\ element' = element
  <2>1. \A n \in Nodes : Path(n)' = Path(n)
    BY <1>2 DEF Path
  <2>2. Word' = Word
    BY <1>2, <2>1 DEF Word
  <2>3. P!vars' = P!vars
    BY <1>2, <2>2, VarsAre
  <2> QED
    BY <2>3
<1>3. CASE ~Overflown /\ Overflown' /\ Next
  <2>1. PICK t \in Threads : Begin(t) \/ Continue(t)
    BY <1>3 DEF Next
  <2>2. ASSUME pc'[t] # "throw" PROVE FALSE
    <3>1. PICK u \in Threads : pc'[u] = "throw"
      BY <1>3 DEF Overflown, At
    <3>2. pc[u] # "throw" /\ u # t
      BY <1>3, <2>2, <3>1 DEF Overflown, At
    <3>3. pc' = pc \/ \E l, n : Goto(t, l, n)
      BY <2>1 DEF Begin, Continue, BeginExtend, Acquire, AcquireOverflows, BeginRelease, BeginWalk,
         PopFree, BumpFresh, BumpExhausted, LookForChunk, Grow, InitNode, Link, LinkOverflows, Throw,
         DropParent, FreeLink, FreePush, Walk, WalkEnds, Decrement, Return, local
    <3> QED
      BY <3>1, <3>2, <3>3 DEF Goto, IInv, Sound, TypeOK
  <2>3. Throw(t) \/ LinkOverflows(t) \/ \E n \in Nodes : AcquireOverflows(t, n)
    BY <1>3, <2>1, <2>2, SMTT(30) DEF Begin, Continue, BeginExtend, Acquire, BeginRelease, BeginWalk,
       PopFree, BumpFresh, BumpExhausted, LookForChunk, Grow, InitNode, Link,
       DropParent, FreeLink, FreePush, Walk, WalkEnds, Decrement, Return, Goto, local,
       IInv, Sound, TypeOK, Overflown, At
  <2>4. refs' = refs /\ parent' = parent /\ element' = element
    BY <2>3 DEF Throw, LinkOverflows, AcquireOverflows, store
  <2> QED
    BY <1>2, <2>4
<1>4. CASE ~Overflown /\ ~Overflown' /\ Next
  <2>1. Sound /\ Tidy /\ Sound' /\ Tidy'
    BY <1>4 DEF IInv
  <2>2. HeldAreCounted /\ HeldAreCounted'
    BY <2>1, HoldersCount, HoldersCountNext
  <2>3. PICK W, anc : Spelled(W, anc)
    BY <1>4 DEF IInv
  <2>4. ASSUME Spelled(W, anc)', refs' = refs PROVE P!vars' = P!vars
    <3>1. Word = [n \in Nodes |-> IF refs[n] > 0 THEN W[n] ELSE << >>]
      BY <2>2, <2>3, WordsNow
    <3>2. Word' = [n \in Nodes |-> IF refs'[n] > 0 THEN W[n] ELSE << >>]
      BY <2>2, <2>4, WordsThen
    <3> QED
      BY <2>4, <3>1, <3>2, VarsAre
  <2>5. PICK t \in Threads : Begin(t) \/ Continue(t)
    BY <1>4 DEF Next
  <2>6. CASE \/ \E p \in Nodes, e \in Elements : BeginExtend(t, p, e)
             \/ PopFree(t) \/ BumpFresh(t) \/ BumpExhausted(t) \/ LookForChunk(t) \/ Grow(t)
             \/ InitNode(t) \/ FreeLink(t) \/ FreePush(t)
    <3>1. refs' = refs
      BY <2>6 DEF BeginExtend, PopFree, BumpFresh, BumpExhausted, LookForChunk, Grow, InitNode,
         FreeLink, FreePush
    <3> QED
      BY <2>1, <2>2, <2>3, <2>4, <2>6, <3>1, QuietSpelled
  <2>7. CASE DropParent(t)
    <3>1. refs' = refs
      BY <2>7 DEF DropParent
    <3> QED
      BY <2>1, <2>2, <2>3, <2>4, <2>7, <3>1, DecrementSpelled
  <2>8. CASE (\E n \in Nodes : BeginWalk(t, n)) \/ Walk(t) \/ WalkEnds(t)
    <3>1. refs' = refs
      BY <2>8 DEF BeginWalk, Walk, WalkEnds
    <3> QED
      BY <2>1, <2>2, <2>3, <2>4, <2>8, <3>1, WalkSpelled
  <2>9. ASSUME \/ Link(t) \/ \E n \in Nodes : Acquire(t, n) \/ BeginRelease(t, n)
        PROVE  P!Next
    BY <2>1, <2>2, <2>3, <2>9, LinkRefines, AcquireRefines, ReleaseRefines
  <2>10. ~Throw(t) /\ ~LinkOverflows(t) /\ \A n \in Nodes : ~AcquireOverflows(t, n)
    <3>1. pc[t] # "throw" /\ pc'[t] # "throw"
      BY <1>4 DEF Overflown, At
    <3> QED
      BY <2>1, <3>1 DEF Throw, LinkOverflows, AcquireOverflows, Goto, Sound, TypeOK
  <2>11. CASE Begin(t)
    BY <2>6, <2>8, <2>9, <2>10, <2>11 DEF Begin
  <2>12. CASE Continue(t)
    BY <2>6, <2>7, <2>8, <2>9, <2>10, <2>12 DEF Continue
  <2> QED
    BY <2>5, <2>11, <2>12
<1>5. CASE UNCHANGED vars
  BY <1>2, <1>5 DEF vars, store
<1> QED
  BY <1>1, <1>3, <1>4, <1>5

\* The trie implements PathStore up to an overflow: a handle that somebody holds
\* denotes the sequence it was created for, whatever the other threads create,
\* release and recycle in the meantime.
THEOREM Refinement == ShardEach => (Spec => ImplementsPathStore)
<1> SUFFICES ASSUME ShardEach PROVE Spec => ImplementsPathStore
  OBVIOUS
<1>1. Init => P!Init
  BY DEF Init, P!Init
<1>2. IInv /\ IInv' /\ [Next]_vars => [~Overflown => P!Next]_P!vars
  BY StepRefines
<1>3. Spec => []IInv
  BY Invariance
<1> QED
  BY <1>1, <1>2, <1>3, PTL DEF Spec, ImplementsPathStore
=============================================================================
