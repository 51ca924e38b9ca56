---------------------------- MODULE SequenceTrie ----------------------------
(***************************************************************************)
(* SequenceTrie<Element> of include/jaffarCommon/sequenceTrie.hpp: a trie  *)
(* of reference-counted nodes shared by several threads, recycled through  *)
(* one free list per shard.                                                *)
(*                                                                         *)
(* An action is one access to shared memory that other threads can come    *)
(* between: a look at the head of a free list, its update, the fetch_add   *)
(* of _bump, the look for a chunk, its creation under the mutex, the       *)
(* initialisation of a node, each change of a reference count, each step   *)
(* of a walk to the root.                                                  *)
(*                                                                         *)
(* The callers are modelled by the references they hold.  They extend,     *)
(* acquire and reconstruct only nodes that somebody holds for the duration *)
(* of the call (or ROOT), and release only what they hold; a reference     *)
(* taken by one thread may be released by another.  An exception ends the  *)
(* program, as it does in the parallel region this class is written for.   *)
(***************************************************************************)
EXTENDS Integers, Sequences, FiniteSets

CONSTANTS Threads,
          ShardOf,     \* ShardOf[t]: the shard argument of t's calls
          Elements,
          ChunkSize,   \* _chunkSize
          MaxChunks,   \* MAX_CHUNKS
          RefMax,      \* UINT16_MAX, the largest reference count
          MaxHolders,  \* bound: references held to one node
          MaxOverrun   \* bound: failed extends that _bump counts

ASSUME SizesAssumption ==
  /\ ChunkSize \in Nat \ {0}
  /\ MaxChunks \in Nat \ {0}
  /\ RefMax \in Nat \ {0}
  /\ MaxHolders \in Nat
  /\ MaxOverrun \in Nat

VARIABLES parent,     \* Node::parent: the parent, or the next free node
          element,    \* Node::element
          refCount,   \* Node::refCount
          chunks,     \* the chunks that exist
          bump,       \* _bump
          head,       \* head[s]: FreeShard::head
          exhausted,  \* _exhausted
          thrown,     \* an exception has ended the program
          refs,       \* refs[n]: the references to n that callers hold
          pc,         \* pc[t]: where t is in its call
          base,       \* base[t]: the node t extends or reconstructs
          elem,       \* elem[t]: the element t appends
          cur,        \* cur[t]: the node t allocates, drops, frees or visits
          nxt,        \* nxt[t]: the node t will go to after cur[t]
          out         \* out[t]: the sequence t has read, root first

store == <<parent, element, refCount, chunks, bump, head, exhausted>>
local == <<pc, base, elem, cur, nxt, out>>
vars  == <<store, thrown, refs, local>>

MaxNodes == MaxChunks * ChunkSize
Nodes    == 0 .. MaxNodes - 1
ROOT     == 0
NONE     == -1
Shards   == {ShardOf[t] : t \in Threads}

ASSUME ThreadsAssumption  == IsFiniteSet(Threads)
ASSUME ElementsAssumption == NONE \notin Elements

ChunkOf(n) == n \div ChunkSize

-----------------------------------------------------------------------------
\* The constructor: ROOT is node 0 and keeps a reference to itself.
Init ==
  /\ parent = [n \in Nodes |-> NONE]
  /\ element = [n \in Nodes |-> NONE]
  /\ refCount = [n \in Nodes |-> IF n = ROOT THEN 1 ELSE 0]
  /\ chunks = {0}
  /\ bump = 1
  /\ head = [s \in Shards |-> NONE]
  /\ exhausted = FALSE
  /\ thrown = FALSE
  /\ refs = [n \in Nodes |-> 0]
  /\ pc = [t \in Threads |-> "idle"]
  /\ base = [t \in Threads |-> NONE]
  /\ elem = [t \in Threads |-> NONE]
  /\ cur = [t \in Threads |-> NONE]
  /\ nxt = [t \in Threads |-> NONE]
  /\ out = [t \in Threads |-> <<>>]

Held(n) == n = ROOT \/ refs[n] > 0

\* Calls under way that rely on somebody holding n.
Relying(n) == {t \in Threads : pc[t] # "idle" /\ base[t] = n}

\* t's call goes on at label l with node n.
Goto(t, l, n) == pc' = [pc EXCEPT ![t] = l] /\ cur' = [cur EXCEPT ![t] = n]

Return(t) ==
  /\ Goto(t, "idle", NONE)
  /\ base' = [base EXCEPT ![t] = NONE]
  /\ nxt' = [nxt EXCEPT ![t] = NONE]
  /\ elem' = [elem EXCEPT ![t] = NONE]
  /\ out' = [out EXCEPT ![t] = <<>>]

-----------------------------------------------------------------------------
(* extend                                                                   *)

BeginExtend(t, p, e) ==
  LET top == head[ShardOf[t]]
  IN  /\ pc[t] = "idle"
      /\ Held(p)
      /\ base' = [base EXCEPT ![t] = p]
      /\ elem' = [elem EXCEPT ![t] = e]
      /\ \/ /\ top # NONE
            /\ Goto(t, "pop", top)
            /\ nxt' = [nxt EXCEPT ![t] = parent[top]]
         \/ /\ top = NONE
            /\ Goto(t, "bump", NONE)
            /\ UNCHANGED nxt
      /\ UNCHANGED <<store, thrown, refs, out>>

PopFree(t) ==
  /\ pc[t] = "pop"
  /\ head' = [head EXCEPT ![ShardOf[t]] = nxt[t]]
  /\ Goto(t, "init", cur[t])
  /\ nxt' = [nxt EXCEPT ![t] = NONE]
  /\ UNCHANGED <<parent, element, refCount, chunks, bump, exhausted, thrown, refs, base, elem, out>>

FaultyAtCeiling == ChunkOf(bump) > MaxChunks
AtCeiling == ChunkOf(bump) >= MaxChunks

BumpFresh(t) ==
  /\ pc[t] = "bump"
  /\ ~AtCeiling
  /\ bump' = bump + 1
  /\ Goto(t, "chunk", bump)
  /\ UNCHANGED <<parent, element, refCount, chunks, head, exhausted, thrown, refs, base, elem, nxt, out>>

\* At the ceiling extend returns NONE; _bump has moved all the same (beyond the
\* bound its value is not distinguished).
BumpExhausted(t) ==
  /\ pc[t] = "bump"
  /\ AtCeiling
  /\ bump' = IF bump < MaxNodes + MaxOverrun THEN bump + 1 ELSE bump
  /\ exhausted' = TRUE
  /\ Return(t)
  /\ UNCHANGED <<parent, element, refCount, chunks, head, thrown, refs>>

FaultyNeedsChunk(n) == n % ChunkSize = 0 /\ ChunkOf(n) \notin chunks
NeedsChunk(n) == ChunkOf(n) \notin chunks

LookForChunk(t) ==
  /\ pc[t] = "chunk"
  /\ Goto(t, IF NeedsChunk(cur[t]) THEN "grow" ELSE "init", cur[t])
  /\ UNCHANGED <<store, thrown, refs, base, elem, nxt, out>>

\* Creating a chunk, or a second one in its place, makes fresh nodes.
FaultyChunkIsNew(c) == TRUE
ChunkIsNew(c) == c \notin chunks

FaultyGrow(t) ==
  /\ pc[t] = "grow"
  /\ ChunkOf(cur[t]) \notin chunks
  /\ chunks' = chunks \cup {ChunkOf(cur[t])}
  /\ Goto(t, "init", cur[t])
  /\ UNCHANGED <<parent, element, refCount, bump, head, exhausted, thrown, refs, base, elem, nxt, out>>

\* ensureChunk: the look, the allocation and the store are under _growMutex.
Grow(t) ==
  LET c == ChunkOf(cur[t])
      fresh == {n \in Nodes : ChunkOf(n) = c /\ ChunkIsNew(c)}
  IN  /\ pc[t] = "grow"
      /\ chunks' = chunks \cup {c}
      /\ parent' = [n \in Nodes |-> IF n \in fresh THEN NONE ELSE parent[n]]
      /\ refCount' = [n \in Nodes |-> IF n \in fresh THEN 0 ELSE refCount[n]]
      /\ Goto(t, "init", cur[t])
      /\ UNCHANGED <<element, bump, head, exhausted, thrown, refs, base, elem, nxt, out>>

InitNode(t) ==
  /\ pc[t] = "init"
  /\ parent' = [parent EXCEPT ![cur[t]] = base[t]]
  /\ element' = [element EXCEPT ![cur[t]] = elem[t]]
  /\ refCount' = [refCount EXCEPT ![cur[t]] = 1]
  /\ Goto(t, "link", cur[t])
  /\ UNCHANGED <<chunks, bump, head, exhausted, thrown, refs, base, elem, nxt, out>>

\* incRef: a 16-bit fetch_add, and an exception when the count was at its limit.
IncRef(n) == refCount' = [refCount EXCEPT ![n] = (@ + 1) % (RefMax + 1)]
Overflows(n) == refCount[n] = RefMax

FaultyLink(t) ==
  /\ pc[t] = "link"
  /\ UNCHANGED refCount
  /\ refs' = [refs EXCEPT ![cur[t]] = @ + 1]
  /\ Return(t)
  /\ UNCHANGED <<parent, element, chunks, bump, head, exhausted, thrown>>

\* The new child edge is counted, and extend returns the new node.
Link(t) ==
  /\ pc[t] = "link"
  /\ ~Overflows(base[t])
  /\ IncRef(base[t])
  /\ refs' = [refs EXCEPT ![cur[t]] = @ + 1]
  /\ Return(t)
  /\ UNCHANGED <<parent, element, chunks, bump, head, exhausted, thrown>>

LinkOverflows(t) ==
  /\ pc[t] = "link"
  /\ Overflows(base[t])
  /\ IncRef(base[t])
  /\ Goto(t, "throw", cur[t])
  /\ UNCHANGED <<parent, element, chunks, bump, head, exhausted, thrown, refs, base, elem, nxt, out>>

Throw(t) ==
  /\ pc[t] = "throw"
  /\ thrown' = TRUE
  /\ UNCHANGED <<store, refs, local>>

-----------------------------------------------------------------------------
(* acquire and release                                                      *)

Acquire(t, n) ==
  /\ pc[t] = "idle"
  /\ Held(n)
  /\ refs[n] < MaxHolders
  /\ ~Overflows(n)
  /\ IncRef(n)
  /\ refs' = [refs EXCEPT ![n] = @ + 1]
  /\ UNCHANGED <<parent, element, chunks, bump, head, exhausted, thrown, local>>

AcquireOverflows(t, n) ==
  /\ pc[t] = "idle"
  /\ Held(n)
  /\ refs[n] < MaxHolders
  /\ Overflows(n)
  /\ IncRef(n)
  /\ Goto(t, "throw", n)
  /\ UNCHANGED <<parent, element, chunks, bump, head, exhausted, thrown, refs, base, elem, nxt, out>>

\* The count that fetch_sub finds in a node it drops the last reference to.
FaultyLastReference(n) == refCount[n] = 2
LastReference(n) == refCount[n] = 1

\* fetch_sub on n, and the decision whether its slot is to be freed.
Decrement(t, n) ==
  /\ refCount' = [refCount EXCEPT ![n] = (@ - 1) % (RefMax + 1)]
  /\ \/ ~LastReference(n) /\ Return(t)
     \/ LastReference(n) /\ Goto(t, "free", n) /\ UNCHANGED <<base, elem, nxt, out>>

BeginRelease(t, n) ==
  /\ pc[t] = "idle"
  /\ refs[n] > 0
  /\ Relying(n) # {} => refs[n] > 1 \/ n = ROOT
  /\ refs' = [refs EXCEPT ![n] = @ - 1]
  /\ Decrement(t, n)
  /\ UNCHANGED <<parent, element, chunks, bump, head, exhausted, thrown>>

\* The cascade: the freed child's edge to its parent goes.
DropParent(t) ==
  /\ pc[t] = "drop"
  /\ Decrement(t, cur[t])
  /\ UNCHANGED <<parent, element, chunks, bump, head, exhausted, thrown, refs>>

\* Where the cascade goes on after freeing n.
FaultyCascade(n) == NONE
Cascade(n) == parent[n]

FreeLink(t) ==
  /\ pc[t] = "free"
  /\ nxt' = [nxt EXCEPT ![t] = Cascade(cur[t])]
  /\ parent' = [parent EXCEPT ![cur[t]] = head[ShardOf[t]]]
  /\ Goto(t, "push", cur[t])
  /\ UNCHANGED <<element, refCount, chunks, bump, head, exhausted, thrown, refs, base, elem, out>>

FreePush(t) ==
  /\ pc[t] = "push"
  /\ head' = [head EXCEPT ![ShardOf[t]] = cur[t]]
  /\ \/ nxt[t] = NONE /\ Return(t)
     \/ /\ nxt[t] # NONE
        /\ Goto(t, "drop", nxt[t])
        /\ nxt' = [nxt EXCEPT ![t] = NONE]
        /\ UNCHANGED <<base, elem, out>>
  /\ UNCHANGED <<parent, element, refCount, chunks, bump, exhausted, thrown, refs>>

-----------------------------------------------------------------------------
(* reconstruct; getDepth is the same walk without the elements              *)

BeginWalk(t, n) ==
  /\ pc[t] = "idle"
  /\ Held(n)
  /\ base' = [base EXCEPT ![t] = n]
  /\ Goto(t, "walk", n)
  /\ UNCHANGED <<store, thrown, refs, elem, nxt, out>>

\* The elements are collected leaf first and reversed at the end.
FaultyCollect(t) == Append(out[t], element[cur[t]])
Collect(t) == <<element[cur[t]]>> \o out[t]

Walk(t) ==
  /\ pc[t] = "walk"
  /\ cur[t] \notin {ROOT, NONE}
  /\ out' = [out EXCEPT ![t] = Collect(t)]
  /\ Goto(t, "walk", parent[cur[t]])
  /\ UNCHANGED <<store, thrown, refs, base, elem, nxt>>

WalkEnds(t) ==
  /\ pc[t] = "walk"
  /\ cur[t] \in {ROOT, NONE}
  /\ Return(t)
  /\ UNCHANGED <<store, thrown, refs>>

-----------------------------------------------------------------------------
Begin(t) ==
  \E n \in Nodes :
    \/ \E e \in Elements : BeginExtend(t, n, e)
    \/ Acquire(t, n)
    \/ AcquireOverflows(t, n)
    \/ BeginRelease(t, n)
    \/ BeginWalk(t, n)

Continue(t) ==
  \/ PopFree(t)
  \/ BumpFresh(t)
  \/ BumpExhausted(t)
  \/ LookForChunk(t)
  \/ Grow(t)
  \/ InitNode(t)
  \/ Link(t)
  \/ LinkOverflows(t)
  \/ Throw(t)
  \/ DropParent(t)
  \/ FreeLink(t)
  \/ FreePush(t)
  \/ Walk(t)
  \/ WalkEnds(t)

Next == ~thrown /\ \E t \in Threads : Begin(t) \/ Continue(t)

Spec == Init /\ [][Next]_vars
FairSpec == Spec /\ \A t \in Threads : WF_vars(~thrown /\ Continue(t))

-----------------------------------------------------------------------------
TypeOK ==
  /\ parent \in [Nodes -> Nodes \cup {NONE}]
  /\ element \in [Nodes -> Elements \cup {NONE}]
  /\ refCount \in [Nodes -> 0 .. RefMax]
  /\ chunks \subseteq 0 .. MaxChunks - 1
  /\ bump \in 1 .. MaxNodes + MaxOverrun
  /\ head \in [Shards -> Nodes \cup {NONE}]
  /\ exhausted \in BOOLEAN
  /\ thrown \in BOOLEAN
  /\ refs \in [Nodes -> Nat]
  /\ pc \in [Threads -> {"idle", "pop", "bump", "chunk", "grow", "init", "link", "throw",
                         "drop", "free", "push", "walk"}]
  /\ base \in [Threads -> Nodes \cup {NONE}]
  /\ elem \in [Threads -> Elements \cup {NONE}]
  /\ cur \in [Threads -> Nodes \cup {NONE}]
  /\ nxt \in [Threads -> Nodes \cup {NONE}]
  /\ out \in [Threads -> Seq(Elements)]

At(l) == {t \in Threads : pc[t] \in l}

\* What following the links passes, in at most MaxNodes steps from a node on, until
\* one of the last; NONE from there.
Chain(links, first, last) ==
  LET chain[k \in 0 .. MaxNodes] ==
        IF k = 0 THEN first
        ELSE IF chain[k - 1] \in last THEN NONE ELSE links[chain[k - 1]]
  IN  chain

\* The nodes of shard s's free list, from the head.
FreeList(s) ==
  LET chain == Chain(parent, head[s], {NONE})
  IN  [k \in {j \in 0 .. MaxNodes : chain[j] # NONE} |-> chain[k]]

\* A reference count has wrapped, and the thread that noticed is about to throw:
\* until it does, the others run on with the wrong count.
Overflown == At({"throw"}) # {}

\* A node that t took from the free list or from _bump, or is putting back; the
\* node at the head of the list that t has only looked at is still the list's.
InTransit(t) == IF pc[t] \in {"chunk", "grow", "init", "link", "free", "push"} THEN {cur[t]} ELSE {}

OnFreeLists == UNION {{FreeList(s)[k] : k \in DOMAIN FreeList(s)} : s \in Shards}
Transiting  == UNION {InTransit(t) : t \in Threads}

\* A node belongs to one place: one position of one free list, one call that is
\* creating or recycling it, or the trie (somebody holds it or it has a child).
\* No node is handed out twice, recycled twice or recycled while it is in use,
\* as long as every count that would wrap is noticed.
NodesHaveOnePlace ==
  ~Overflown =>
    /\ \A s, r \in Shards : \A j \in DOMAIN FreeList(s), k \in DOMAIN FreeList(r) :
         FreeList(s)[j] = FreeList(r)[k] => s = r /\ j = k
    /\ \A t, u \in Threads : t # u => InTransit(t) \cap InTransit(u) = {}
    /\ OnFreeLists \cap Transiting = {}
    /\ \A n \in OnFreeLists \cup Transiting : ~Held(n) /\ Relying(n) = {}

\* The edges to n that its reference count includes: those of its children, but
\* for a child whose creator has not counted it yet, and those of the children
\* that are being freed, until the cascade reaches n.
CountedEdges(n) ==
  Cardinality({m \in Nodes : refCount[m] > 0 /\ parent[m] = n
                               /\ \A t \in At({"link"}) : cur[t] # m})
  + Cardinality({t \in At({"free"}) : parent[cur[t]] = n})
  + Cardinality({t \in At({"push"}) : nxt[t] = n})
  + Cardinality({t \in At({"drop"}) : cur[t] = n})

\* A reference count is the references callers hold, and the edges, and ROOT's
\* permanent one: what a release decides on.  A node being created has the
\* reference its creator is about to get.
RefCountIsExact ==
  ~Overflown =>
    \A n \in Nodes :
      refCount[n] = refs[n] + CountedEdges(n)
                    + Cardinality({t \in At({"link"}) : cur[t] = n})
                    + (IF n = ROOT THEN 1 ELSE 0)

\* A thread touches only nodes of chunks that exist, although another thread may
\* still be allocating the chunk its fresh node is in.
NodesAreBacked ==
  /\ \A t \in At({"init", "link", "drop", "free", "push", "walk"}) :
       cur[t] # NONE => ChunkOf(cur[t]) \in chunks
  /\ \A n \in OnFreeLists : ChunkOf(n) \in chunks

\* The sequence that leads from ROOT to n.
Path(n) ==
  LET up == Chain(parent, n, {ROOT, NONE})
      depth == Cardinality({k \in 0 .. MaxNodes : up[k] \notin {ROOT, NONE}})
  IN  [i \in 1 .. depth |-> element[up[depth - i]]]

\* A walk that got to the root has read the path of its node, although nodes
\* came and went under it.
WalkReadsPath ==
  ~Overflown => \A t \in At({"walk"}) : cur[t] \in {ROOT, NONE} => out[t] = Path(base[t])

\* When nobody holds anything and no call is under way, every node ever taken
\* but ROOT is on a free list: nothing leaks, however the releases interleaved.
AllReleasedAllRecycled ==
  (\A n \in Nodes : refs[n] = 0) /\ At({"idle"}) = Threads
    => OnFreeLists = {n \in Nodes \ {ROOT} : n < bump}

\* Every call returns: the cascade ends, and nobody waits for another thread.
CallsReturn == \A t \in Threads : pc[t] # "idle" ~> pc[t] = "idle" \/ thrown

\* The implementation of PathStore, up to an overflow: a held handle denotes the
\* path its links spell.
P == INSTANCE PathStore WITH
       Handles <- Nodes, Root <- ROOT, refs <- refs,
       word <- [n \in Nodes |-> IF refs[n] > 0 THEN Path(n) ELSE <<>>]
ImplementsPathStore == P!Init /\ [][~Overflown => P!Next]_P!vars
=============================================================================
