# A verification project for jaffarCommon

jaffarCommon is a header-only C++ library used by search and emulation programs:
concurrent containers, a reference-counted trie, a coroutine runtime, files in
memory, serializers and small helpers. This directory holds TLA+ models of the
parts that carry state and can go wrong in ways a unit test hardly reaches, TLC
configurations that check them on small instances, and TLAPS proofs that the safety
properties and the refinements of all of them hold on instances of any size.

Paths below are relative to `include/jaffarCommon/`.

## 1. Inventory

| Component | State | Operations | Hard behaviour | What makes it correct |
|---|---|---|---|---|
| `DrainBuffer` (concurrent.hpp:26-173) | a plain array, its length, one 64-bit atomic word with a claim counter for each end | `reserve`, `push_back_no_lock`, `clear`; `pop_front_get_batch`, `pop_front_get`, `pop_back_get`, `wasSize` | lock-free pops of many threads at both ends; weak compare-exchange; two 32-bit counters that must not carry | each element delivered exactly once; a pop that finds nothing is right; progress without locks |
| `Deque` (concurrent.hpp:199-428) | a `std::deque`, a mutex, an atomic count beside it | push and pop at both ends, single and batched, with and without the lock | count and deque change in separate steps, the count is read without the mutex, early returns while the mutex is held | no item lost or doubled; the count is off only while someone holds the mutex; every call returns |
| `SequenceTrie` (sequenceTrie.hpp) | nodes in lazily created chunks, a reference count each, a bump counter, a free list per shard | `extend`, `acquire`, `release`, `reconstruct` | cascades of releases in several threads; racing chunk creation; a link field with two meanings; a 16-bit count | a held handle denotes its sequence; nothing used twice, freed early or leaked |
| dethreader `Runtime`, `Thread` (dethreader.hpp) | a queue of coroutines, the finished set, the reason each gave up control | `createThread`, `run`, `yield`, `sleep`, `join`, `initialize`, `finalize` | threads that wait for each other, sleep, create others; a wall clock that may be set back | nobody lost, run twice or overtaken; `join`, `sleep` and `run` return when they should |
| `MemoryFile`, `MemoryFileDirectory` (file.hpp) | a growing buffer, size, position, flags; a map of names | the C file interface, `resize`, `setSize`, flags, callbacks; `fopen`, `fclose`, `fdestroy` | callbacks in the middle of a transfer; size, position and buffer that must stay in order; failing `realloc` | files are sequences of bytes with a position; no transfer leaves its buffer |
| serializers, deserializers (serializers/, deserializers/) | a position in an output or input buffer, one in a reference buffer, a count of differential bytes | `push`, `pop`, `pushContiguous`, `popContiguous` | two sides that must keep in step without exchanging a position; lengths read from the input; positions that move before a call fails | a deserializer reads back what a serializer wrote |
| bitwise (bitwise.hpp) | none but the caller's memory | `bitcopy`, `setBitValue`, `getBitValue`, `getBitFlag`, `getEncodingBitsForElementCount`, `getByteStorageForBitCount` | copies that start and end inside a byte and may overlap; guards in other units than the arguments | memory is an array of bits, and a copy changes exactly those it names |
| timing | none | `now`, differences | a signed difference read as unsigned | see dethreader |
| json, hash, string, exceptions, parallel, string file I/O | none of their own | checks, formatting, calls into other libraries | none | - |
| logger | a flag, whether ncurses is used | output, key presses | the flag is one per translation unit (section 4) | - |
| third-party code | - | - | - | not this library's logic |

Components interact little. `sleep` of a dethreader thread reads `timing::now()`;
the deserializers read what the serializers wrote; the concurrent containers
and the trie are shared by the worker threads of the caller. Everything else meets
only in the caller, so each component has a module of its own, and what is
composed is a component with its callers (threads, coroutine functions,
callbacks) and with the specification of what it promises.

`PROJECT.json` lists the components with what is modelled of each, and the hazards
found in the code, at their lines, with the properties that cover them.

## 2. Modules

| Module | Models | Theorems |
|---|---|---|
| `WorkPool` | what `DrainBuffer` and `Deque` promise: a sequence with atomic pops | |
| `DrainBuffer` | `DrainBuffer<T>` | `DrainBufferProofs` |
| `Deque` | `Deque<T>` | `DequeProofs` |
| `PathStore` | what `SequenceTrie` promises: handles that denote sequences | |
| `SequenceTrie` | `SequenceTrie<Element>` | `SequenceTrieProofs` |
| `Dethreader` | `Runtime` and `Thread`, with the clock of timing.hpp | `DethreaderProofs` |
| `FileStore` | what `MemoryFile` promises: byte sequences with a position | |
| `MemoryFile` | `MemoryFile` and `MemoryFileDirectory` | `MemoryFileProofs` |
| `RecordStream` | what a serializer and a deserializer promise together: records in order | |
| `Serializer` | `Contiguous` and `Differential`, both sides | `SerializerProofs` |
| `BitArray` | what bitwise.hpp promises: memory as an array of bits | |
| `BitCopy` | the functions of bitwise.hpp | `BitCopyProofs` |
| `CountingLemmas` | nothing: facts of sets, numbers and powers of two that the proofs share | itself |
| `MC...` | constants, symmetry, fair specifications for the runs | |

Variables keep the names of the members they stand for; the comment at each
VARIABLES list gives the member. Definitions named `Faulty...` are the definition
that follows with a plausible mistake in it. Nothing uses them; put in place of the
original, each makes a property fail, which shows that the property depends on the
code it is about. `PROJECT.json` pairs them with the properties ("mutants") and
maps every definition to the lines it stands for ("map").

### DrainBuffer

A pop is three steps, as in the code: load `_claim` (or find the buffer empty and
return), exchange it, copy the claimed slots. The exchange is weak: `ExchangeFails`
may happen although the word is the one observed, and it looks at the new word
again, the test for an empty buffer included. The two counters are a record whose
fields are kept modulo `Half` (2^32 in the code). `ObserveOrLeave` is shared by the
first load and by the reload after a failure; `Take` is the cut of a batch to what
is there. `bound` and `copies` are history variables: what a thread was told of the
size, and how often a slot was handed out.

The phases are those of concurrent.hpp:29-33: a fill by one thread, a barrier, a
drain by many, a barrier. `clear()` belongs to the second barrier (line 40, "reset
(clear()) only while the buffer is quiescent"); the model's `Clear` has that guard,
and without it (`FaultyClear`) a stale word of an earlier phase is exchanged.
`pop_front_get` is a batch of one.

### Deque

A locked call takes the mutex, reads, changes the deque, changes the count and
releases the mutex, a step each, so that `wasSize()` of another thread sees what it
sees in the code. Threads pass a fixed stock of items around, each in one place;
`Places` counts where an item is. Operations the code declares not thread safe are
called by a thread that is alone. `pop_front()` and `pop_back()`, which do not look
whether the deque is empty, are called by a sole consumer that `wasSize()` has told
of an element (`MayPop`), while others may push: `BarePopsFindAnItem` says that this
is enough, although `wasSize()` reads the count without the mutex. (It is not if
another thread pops as well, batched or not.) `getInternalStorage` hands the
container out and is left out.

### SequenceTrie

An action is one access to shared memory that others can come between. `extend` is
a look at the free list, its update or `fetch_add` on `_bump`, the look for the
chunk, its creation under the mutex (`Grow` looks again, as ensureChunk does),
the initialisation, the count of the new edge. `release` is `Decrement`, the read
of the parent with the overwrite of the link, the push on the free list, and again
with the parent. `reconstruct` and `getDepth` are a walk, one link a step.
`parent` has the two meanings it has in the code. Counts are kept modulo
`RefMax + 1`.

Callers are modelled by the references they hold (`refs`). They extend, acquire
and reconstruct what somebody holds for the duration of the call, and release only
what they hold (sequenceTrie.hpp:19-20); a reference taken by one thread may be
released by another, as happens when states are handed between workers.
`SequenceTrie_shared_shard` is the run in which two threads use one shard. An
exception ends the program, as it does inside a parallel region. The count wraps
before the exception is thrown, and other threads run on in between: `Overflown` is
that interval, and the properties speak of the time before it.

Memory is sequentially consistent in the models of `DrainBuffer` and
`SequenceTrie`. The code's orders (acq_rel on claims and on the decrement, release
on the chunk pointer) are what makes the data written before visible after; this
argument is not part of the models.

### Dethreader

`run()` takes the front of the queue: `Resume` if the thread is due, `Skip` if it
sleeps or waits. A thread with control gives it up by `Yield`, `Sleep`, `Join` or
`Finish`, and the loop queues it again or records it as finished in the same step
(nothing else can run in between). What the functions do is the caller's, so any
choice is possible at any turn, creating threads included. `age` is the difference
of two clock readings, `slept` the time that passed; `SetClockBack` makes them
differ.

`WaitsInVain` names the threads that wait, directly or over others, for themselves
or for nobody. The code puts them back for ever; `RunReturns` says that nothing else
keeps `run()` from returning.

### MemoryFile

A call is one step, but a transfer of a file with a callback is two: the copy with
its changes of position and size, and the return, which clears the error. In
between any call can be made, to the same file too, and start another callback.
`BufferSizeFor` is the doubling of resizeToFit, `Grown` realloc, which leaves new
bytes as they are (`Junk`). A modelled transfer outside its buffer sets `overrun`
and the model stops. Callers reach files through the directory, do not remove a
file, or exchange a callback, while the callback runs, and give `setSize`, which is
documented "use at your own risk", a size between the position and the buffer's.

### Serializer

One serializer, one deserializer that is opened on the same buffer at any moment
with any size, and a second serializer
without a buffer that is given the same pushes, which is how base.hpp:41 says to
measure. `kind` is the class of all three. The reader makes the pops that belong to
the pushes; with no place to put a record it passes over a contiguous one, and a
differential pop does nothing at all. What the reader gets is what it finds in the
bytes: a byte is a byte of a record, a byte of a length, or a byte of a code, and a
code means something only whole and together with its place in the reference.
xdelta3, which makes and reads the codes, is external: any length from one up that
fits, a failure at any time, and nothing for other bytes or another place.

Calls that throw before they have changed anything are no steps. Two throw later:
`PushFails` (the encoder) and `PopFails` (the reference is too short, or the decoder
fails) have moved the position past the length. The caller then gives the object
up; what was pushed before stays readable, and what was popped stays right.
`written`, with the positions after each push, and `got` are history variables.

The size given to the reader may end the input between two records, inside a record, or
inside its length; one larger than the buffer passes the same checks as the buffer's own.
A contiguous pop is refused unless its record is inside. A differential pop asks only for
the length and one byte behind it, and hands the decoder as many bytes as the length says
(deserializers/differential.hpp:75 and 92). The model does the same: the decoder reads the
buffer, which goes on behind the input, so that such a pop succeeds and the position is
then beyond the input's size. Where the memory ends with the input there is nothing to be
said about the bytes; that the reader goes there is what matters, and `inPos` shows it.
That the reader stays in its input does therefore not hold (section 4). `InputBoundsPops`
is what remains and holds: only the last record that the reader pops can lead it out, only
if the input ends inside that record's code, never out of the reference, and no record that
is whole in both is refused.

### BitCopy

A byte is the set of its bits that are one, so that the tables of masks are union
and difference. `bitcopy` takes one step per bit: clear the destination bit, read
the source bit, set it if it was one, move both positions. Source and destination
are windows of one memory that may be apart, overlap or be equal, since nothing in
the code tells them apart. `BitArray` copies at once; it spells out what an ascending
copy does to windows that overlap, where the first `d - s` bits repeat, and that a
copy onto itself clears the bits. Sums and products are modulo `Word`; callers pass
arguments whose numbers of bits are below it (`FitsWord`).

## 3. Runs

| Run | Question | Result |
|---|---|---|
| `DrainBuffer_safety` | can a slot be claimed twice or lost, a counter carry, a thread be told too small a size; is every pop atomic | holds |
| `DrainBuffer_live` | do two running threads finish their pops while a third may have stopped inside one | holds |
| `Deque` | is an item lost or doubled, how wrong can the count be, may a sole consumer rely on it, is every operation atomic, does every call return | holds |
| `SequenceTrie_safety` | can a node be used twice, freed early, leaked, or touched before its chunk exists; does every call return | holds |
| `SequenceTrie_refines` | does a held handle denote its sequence, and a walk read it, while other nodes come and go, up to the overflow of a count | holds |
| `SequenceTrie_shared_shard` | can a node be used twice, with the default shard for both threads | violated |
| `Dethreader` | can a thread be lost, run twice, be overtaken; does `run` return, but for joins in vain, and can it, `join` or `sleep` return early, but for a clock set back | holds |
| `Dethreader_clock` | does a sleep last as long as asked under any clock | violated |
| `MemoryFile` | can a transfer leave its buffer; are the files sequences of bytes | holds |
| `MemoryFile_nomemory` | does `resize` report that it got no memory | violated |
| `Serializer` | does the reader follow the writer, read all it was given, how far beyond, and get what was pushed; what does a measuring serializer measure | holds |
| `BitCopy` | does a copy stay in its buffers and change exactly the bits it names; are the computed sizes the least that will do | holds |

The properties, in words, stand above their definitions. The five abstract
specifications are checked as refinements: `ImplementsWorkPool`,
`ImplementsPathStore`, `ImplementsFileStore`, `ImplementsRecordStream` and
`ImplementsBitArray`. In `WorkPool` what a pop removed is
in the thread's hand until the call returns, so a delivery that is late is allowed
and one that is wrong, or from the wrong end, is not. An empty answer is allowed
only in a step in which the pool is empty.

### Bounds, and why they are enough

Everything these runs check but liveness is also proved for all values of the
constants (section 5), so that the bounds below matter for what the proofs do not
cover, liveness and the violations, and for finding out quickly that a formula is
false.

- `DrainBuffer_safety`: three threads, so that a front claim, a back claim and a
  third at either end race; capacity 3 with `Half` 4, so that the largest counter
  is the last value below a carry; batches of 0 and 2, so that one is empty, one
  fits and one is cut; phases repeat without limit. Thread symmetry is sound: the
  properties do not tell threads apart and none of them is about liveness.
- `DrainBuffer_live`: two live threads, which can make each other's exchange fail,
  and one that may stop. No symmetry.
- `Deque`: two threads are all a mutex tells apart (the one inside and one
  outside); two items give deques shorter than, equal to and longer than a batch (of 0, 1 and
  2) and bring the count to the last value of its width.
- `SequenceTrie_safety`: ROOT and three nodes in two chunks. Two threads can find
  the second chunk missing together; cascades of length three; `MaxHolders` 2 lets
  a handle be shared; `MaxOverrun` 1 lets extends fail at the ceiling.
  `RefMax` is 15, out of reach. `SequenceTrie_refines` has two elements, to tell a
  wrong path from the right one, one chunk, and `RefMax` 3: ROOT, with its own
  reference, two holders and children, and any node with a child and two holders
  reach the limit and pass it. After an overflow only the throw is explored
  (`OnlyThrowsAfterOverflow`), because nothing is claimed there.
- `Dethreader`: three threads make every order of two around a third and circles of
  joins of length one to three; two turns each let a thread sleep and then join.
  Durations 0 and 1 tell "at once" and "too early" from "long enough". Older ages
  are not told apart, which is sound because sleep only compares.
- `MemoryFile`: one name and two objects, so that a closed file is replaced while
  its old object still exists; sizes up to 2 cross the doublings 1 -> 2 -> 4
  (a write grows to one byte more than it needs); elements of 0, 1 and 2 bytes,
  so that a read is cut to no element with a byte left; callbacks two deep.
  `VIEW State` leaves out `last` and `read`, which record what calls answered: no
  guard and no other variable depends on them, so states that differ only in them
  have the same future, and the refinement looks at `read` only in the step that
  assigns it.
- `Serializer`: three records of up to two bytes (two kinds of byte) with codes of
  one or two, lengths of two bytes; the output buffer of nine is too small for three
  long differential records and exactly filled by others; the reference of four is
  too small for three long records, and the reader's of three for what the writer's
  still held; the input ends at any byte. The operations only add the record's size to positions, so that longer
  records add no case.
- `BitCopy`: three bytes of two bits, all contents, windows that overlap by all but a
  byte, elements of one, two and three bits (a width of zero is refused). Copies cross
  one and two byte borders, at different bits on both sides. Bits are copied
  independently of each other and of the number of bits in a byte. `Word` is 32, so
  that code widths of up to four bits, and the top of the width, are computed.

Deadlock is checked in all runs but `SequenceTrie_refines`, where the exception
ends the program, `MemoryFile_nomemory`, where the model stops at a transfer
outside the buffer, and `Serializer`, where the caller stops after its records.

### Fairness, and why the code justifies it

- `DrainBuffer`: weak fairness for the steps of the threads in `Live` only, and no
  assumption at all about the others. Strong fairness of the exchange: a weak
  compare-exchange may fail for no reason, but not always. This asks for no help
  from others: a thread's exchange is enabled again whenever it has reloaded.
  Because the claims of a phase are finitely many, and each failure for a reason is
  a success of another thread, pops return. The phases are assumed not to end
  under a pop (that is the barrier).
- `SequenceTrie`: weak fairness of the steps of a call that has begun. Threads are
  scheduled; nothing says that a thread ever starts a call.
- `Deque`: weak fairness of the steps of a call, and strong fairness of taking the
  mutex (a mutex that keeps becoming free is eventually given to a thread that
  keeps asking; `std::mutex` does not promise it, implementations do in effect).
- `Dethreader`: the loop goes on, a thread with control gives it up, time passes.
  Nothing obliges the caller to start `run`. `RunReturns` is about behaviours in which
  the clock is set back finitely often.
- `MemoryFile`, `Serializer`, `BitCopy`: none; all their properties are about safety.

## 4. Where code and documentation disagree

Shown by runs (`PROJECT.json`, "findings"):

- `SequenceTrie_shared_shard`: the class comment (sequenceTrie.hpp:16-18) says that
  all four operations may be called concurrently and that the free list is
  lock-free and ABA-tagged. It is a plain list without any synchronisation, `shard`
  has the default 0 and a trie has one shard by default: two threads that use the
  defaults take the same node.
- `Dethreader_clock`: a sleep ends at once if the clock is set back, because the
  negative difference is read as unsigned (dethreader.hpp:131-134, timing.hpp:63-67)
  and `high_resolution_clock` need not be steady.
- `MemoryFile_nomemory`: `resize` looks for a null buffer to find out that it got
  no memory (file.hpp:467), but a file that had a buffer keeps it: the answer is 0
  and the size is larger than the buffer.

Seen while modelling, with no run of their own; the models behave as the code does:

- sequenceTrie.hpp:216-217 says that the overflow guard prevents that a wrapped
  count frees a node in use. `incRef` adds first and throws afterwards; with a
  second thread a release in between can still free it. (Without the condition
  `~Overflown` and the constraint, `SequenceTrie_refines` breaks `NodesHaveOnePlace`.)
- sequenceTrie.hpp:192-193 says that once exhausted, `extend` returns NONE. The free
  list is looked at first, so it succeeds again after a release.
- sequenceTrie.hpp:171-172 calls the allocated count the high-water mark of live
  nodes. Only the caller's shard is looked at before a fresh node is taken.
- sequenceTrie.hpp:184 calls getMaxMemoryBytes a hard upper bound. `_bump` goes on
  counting failed extends, so getApproxMemoryBytes passes it.
- concurrent.hpp:201 calls the operations of `Deque` lock-free, and line 202 says that they
  share a mutex. (`Deque` with `Live = {t1}` breaks `RunningCallsReturn`.)
- file.hpp:437 says that `resize` fills with zeroes; `realloc` does not.
- file.hpp:110 and 159 say that `fread` and `fwrite` return bytes; they return
  elements, as the C functions do.
- file.hpp:103 says that reading advances until the end of the file; a read that
  does not fit is cut to whole elements and may stop before it.
- tests/serialization.cpp:192-193 expects a differential pop from an input of five bytes,
  the length and one more, to throw, and the message at deserializers/differential.hpp:98
  explains a failed decode with an input that ended. The pop compares the length that it
  finds with nothing (differential.hpp:80 and 92): a record in whose code the input ends is
  let through and read beyond the input. The test passes because it asks for one byte of a
  record of six, which the decoder refuses. (In `Serializer` a push, an `Open` with a size
  inside the code, and a pop break `inSize # Null => inPos <= inSize`.)
- serializers/base.hpp:41 and 51 say that a serializer without a buffer "can be used to
  determine the required output buffer size". `Differential` counts nothing for a
  differential push without a buffer (serializers/differential.hpp:72-73), so what it
  measures is too small by the codes and their lengths (`SizeIsAccountedFor`); nor
  does its reference position move, as that of the real one does.
- serializers/differential.hpp:120-127 and deserializers/differential.hpp:118-125
  call the count "the number of differential bytes included in the serialized
  output"; the lengths in front of the codes, four bytes each, are not counted.
- A push whose encoder fails leaves the output position behind a length that was
  never completed (serializers/differential.hpp:92-101). Pushing on, for instance a
  shorter or a contiguous record, succeeds and gives an output no reader can follow.
- bitwise.hpp:29 says that `bitcopy` copies elements from a source to a destination. A
  copy of elements onto themselves clears them, because each bit is cleared before it
  is read (bitwise.hpp:68-72), and a copy to a higher place in the same buffer repeats
  its beginning.
- bitwise.hpp:32 says that the buffer's size is needed "to guard possible overflows
  before they happen". The guards compare products and sums in `size_t`, which wrap for
  arguments of 2^64 bits and more.
- bitwise.hpp:92-97: above 2^63 elements the loop never ends.
- loggers/ncurses.hpp:22-24 calls `_useNCurses` a global setting. It is static, one per
  translation unit, while the functions that use it are inline: a terminal that was
  initialised in one unit may not be the one another unit logs to.
- loggers/ncurses.hpp:96 says that `getKeyPress` returns ERR if no key was pressed;
  without ncurses it returns 0.
- file.hpp:576 says that files live as long as the directory unless destroyed;
  opening a closed file for writing replaces the object.

## 5. Proofs

For every component the proof module shows each invariant and each action property
that the component's passing runs check, and that the component implements its
abstract specification, for all values of the constants that satisfy the
assumptions below. `PROJECT.json` lists the theorems with the properties.

| Module | Invariants and action properties | Implements |
|---|---|---|
| `DrainBufferProofs` | `TypeOK`, `ClaimsDisjoint`, `DeliveredOnce`, `CountersMeet`, `SizeIsUpperBound`, `CountersGrow` | `WorkPool` |
| `DequeProofs` | `TypeOK`, `ItemsAreConserved`, `SizeIsCount`, `BarePopsFindAnItem` | `WorkPool` |
| `SequenceTrieProofs` | `TypeOK`, `NodesAreBacked`; with a shard for each thread `NodesHaveOnePlace`, `RefCountIsExact`, `WalkReadsPath`, `AllReleasedAllRecycled` | `PathStore`, with a shard for each thread |
| `DethreaderProofs` | `TypeOK`, `ThreadsHaveOnePlace`, `JoinedAreFinished`, `SleepsUnlessSetBack`, `NobodyOvertakes` | - |
| `MemoryFileProofs` | with memory that lasts `TypeOK`, `AccessesStayInBuffer` | `FileStore`, with memory that lasts |
| `SerializerProofs` | `TypeOK`, `StayInStep`, `InputBoundsPops`, `SizeIsAccountedFor` | `RecordStream` |
| `BitCopyProofs` | `TypeOK`, `StaysInBuffers`, `SizesAreLeast` | `BitArray` |

All proofs have the same outline. An inductive invariant `IInv` is the conjunction of
named parts; a lemma for each action (`...Keeps`, `...Step`, `...Sound`, `...Orderly`)
shows the parts that the action can disturb; one lemma puts them together; the
theorems follow from `IInv`, and the refinements from a lemma for each action
(`...Refines`) that uses it.

### Assumptions

Of the constants, each named in the module that declares them and evaluated by TLC in
each run:

- `CapacityAssumption` of `DrainBuffer`: the capacity is positive and below the number of
  values of a counter (concurrent.hpp:42-43 limits it to UINT32_MAX).
- `SizeAssumption` of `Deque`: the items are finitely many and fewer than the values of
  the count, a `size_t`.
- `SizesAssumption`, `ThreadsAssumption` and `ElementsAssumption` of `SequenceTrie`: chunks
  have nodes, there are chunks, a count has more than one value; the threads are finitely
  many, because what they do is counted; the mark for no node is not an element.
- `BoundsAssumption` of `Dethreader` and of `MemoryFile`, `BatchAssumption`,
  `TransfersAssumption`, `SerializerAssumption`: sizes, numbers and durations are natural
  numbers.
- `BitCopyAssumption`: windows lie in memory, and the number of bits of memory is below
  the values of a `size_t`; a buffer of 2^61 bytes or more does not exist.
- `NoneAssumption`, in several modules, and the last part of `SerializerAssumption`: a mark
  for "none", which the code does not have as a value, is not one of the values.

Two hypotheses of theorems are not assumptions of the modules, because a run sets the
constants otherwise:

- `~MayFail` in `MemoryFileProofs`: `realloc` finds memory. Without it `resize` leaves a size
  larger than the buffer (section 4), and the properties do not hold.
- `ShardEach` in `SequenceTrieProofs`: no two threads use one shard. The comments at the
  code ask for it (sequenceTrie.hpp:227, "a given shard is only ever touched by its
  owning thread", and lines 271-272, "thread-private"); without it
  `SequenceTrie_shared_shard` shows the same node taken twice. `TypeOK` and
  `NodesAreBacked` are proved without it, and after an overflow too.

What callers may do (the phases of a `DrainBuffer`, the sole consumer of a `Deque`, calls
only on held handles) are guards of the actions, as section 2 says.

### DrainBuffer

None of the invariants is inductive alone. `DeliveredOnce` says what has happened
to a slot in terms of who holds it, so a step needs to know that what a pop holds
lies behind the counters and is its own: `ClaimsCounted` and `ClaimsDisjoint`. A
successful exchange claims the slots next to the counters of the word it observed,
which is the word itself at that moment; that these are new needs
`CountersMeet`, and that a claim takes at least the one slot of a back pop needs
`ObservedNotEmpty`, which holds because every load is followed by the test for an
empty buffer. `FillStartsClean` says that the counters and the told sizes are reset
when a fill starts, so that pushes, which change the count, disturb nothing. The
arithmetic (`TakeBounds`, `ClaimFrontWord`, `ClaimBackWord`) shows once that no modulo
ever takes effect.

For the refinement the pool is the part of the array between the counters. A claim
cuts it (`SliceCut`), and what the thread is about to copy is what the pool has put in
its hand; the copy and the steps that change no counter are stutters, or the answer of
an empty pool. `WantIsABatch` says that a front pop's batch size is one it may have.

### Deque

`MutexHeld` is mutual exclusion: exactly the thread inside holds the mutex. `CallShape`
says what a call's variables hold at each of its places, for instance that what was read
is still the end of the deque when it is removed, which is true because nobody else is
inside. `SizeCounted` gives the count at each place of the one call inside.
`SoleConsumer` is why a pop without a check is safe: while it is under way nobody else
pops, and the deque, which was not empty, only grows. `Apart` and `Covered` are
`ItemsAreConserved` without numbers: any two places an item may be at have no item in
common, and each item is at one; `CardinalityAtMostOne` turns this into the count.

### Dethreader

`NobodyTwice` and `NobodyLost` are `ThreadsHaveOnePlace` without numbers: the queue has no
thread twice, none of its threads is in control or finished, and the ids below the
counter are those in the queue, in control or finished. `NeverTooOld` says that the clock
shows a sleeper no more time than has passed, so that the test at line 134 can err in
one direction only. `NobodyOvertakes` follows from what an append, a removal of the head,
and both, do to the order of two threads in the line (`OrderInAppend`).

### MemoryFile

`InOrder`, position <= size <= length of the buffer, in each file, is the
invariant; a callback that runs in the middle of a transfer finds it already restored.
`BufferSizeFor` is a doubling, and `PowerOfTwo` shows that it is large enough for any size.
In the refinement the bytes of a file are the buffer cut at the size. The lemmas say what
growing, cutting and a write do to that cut; from them every call is its counterpart of
`FileStore`, and the return of a callback too.

### Serializer

`StayInStep` compares two sides that exchange nothing but bytes; what connects them is
`LaidOut`: record i is in the buffer from where the record before it ends to where it
ends, a contiguous one as its bytes, a differential one as its length and its code, and
a differential record moves the reference by its own length and the count by its code's.
`EndsInside` and `Blank` say that this stays so: pushes write behind the last end, where
nothing was written. A reader at the i-th end then finds there exactly what `LaidOut` says.
`ReaderInside`, the inductive part of `InputBoundsPops`, says that the reader has not left its
reference, nor its input but by the last record popped, whatever the sizes are: a position
beyond the input fails every later check. `Standing` says what a broken serializer's positions still are. `SizeIsAccountedFor`
is inductive with `Standing`.

### BitCopy

The invariant of the loop of `bitcopy` is `Copying` with `HalfCopied`: positions are the
places of the first bits plus the loop's counter, and each bit of memory is what the
first `i` steps of an ascending copy make of it: `Moved`, which is BitArray's answer for a
copy of `i` bits. That one more step turns `Moved` for `i` into that for `i + 1` has four
cases: apart from the windows, and source below, at or above the target. When the source
is below, the bit read is one that was copied before, `d - s` bits earlier, and the
remainder in `Moved` goes round. `StaysInBuffers` follows because the guards' bits bound
each position (`PositionsAreRight`). `Encoding` says of the doubling that one bit fewer was not
enough, so that the last one is the least (`SizesAreLeast`).

### SequenceTrie

`Sound` needs nothing of the shards and holds after an overflow too: links, lists and calls
lead only to initialised nodes (`Closed`, `InCalls`), and the chunk of each of those
exists (`Backed`). `NodesAreBacked` is about exactly that.

The rest holds until a count overflows:

- `Exact`: a count is the sum of its references of each kind, `RefCountIsExact`. A step
  moves a reference from one kind to another, for instance from the child's edge to the
  call that frees the child.
- `Calls`: a call in transit, from taking a node to linking it, or from finding
  its count at 1 to pushing it, has a node that nothing else counts a reference to; a call
  that relies on a node has somebody hold it. With `Exact` a node of a call
  in transit can have no children and no holder.
- `Alone` and `Fresh`: no two calls have the same node in transit, and the nodes from
  `_bump` on were never used.
- `IsStacks`: each free list is a stack of nodes without a reference, no node is twice
  in any of them, and every node below `_bump` is in one, in use or in transit. What a call
  has read of its list when it comes to change it is still so, which is where
  `ShardEach` is needed. `NodesHaveOnePlace` follows from this
  with `Calls` and `Alone`, and `AllReleasedAllRecycled` from the last part: with nothing held and no
  call under way, a counted node with the longest sequence (`Spelled`) would have neither
  holder nor child, against `Exact`, unless it is ROOT.
- `Spelled`: there is a sequence for each counted node, that of its parent with its own
  element, and a set of its ancestors that has one member more than the sequence, is closed
  under parents up to ROOT and has each of its members but the node itself as the parent of
  another. A walk reads the end of its node's sequence (`Reading`), because its node is held,
  so that all its ancestors are counted and keep their links while others come and go.

In the refinement a node's word is its path if somebody holds it (`PathIs`), so that words
of nodes that nobody holds, which come and go in the steps of a cascade, are not seen. An
extend of the store is the step that counts the parent's edge, and an acquire and a release
are the step on the count.

`FreeList` and `Path` are written with `Chain`, a function defined by recursion on the number of links
followed. What it is for every argument is induction over data, which the
library's induction theorems cannot give, because they take an operator. `SetInduction` of
`CountingLemmas` states the induction of a set of numbers instead, and follows from the
well-foundedness of the strict subsets of a finite set; with it `ChainExists` and `ChainIs` show
that the function exists and satisfies its equations. The stacks and sequences are chosen
with quantifiers over functions, not computed, so that each step needs no induction at all.

### Only model-checked

- Liveness: `RunningPopsReturn`, `RunningCallsReturn`, `CallsReturn` and `RunReturns`. The prover does
  not do liveness under fairness, or ENABLED.
- The violations of section 4. They are single behaviours.
- `SequenceTrie` with two threads on one shard, and what happens after an overflow, but for types and
  chunks; `MemoryFile` when memory runs out.

## 6. Not modelled

Two threads that copy elements into the same byte race in `bitcopy`, as in any code
that writes bits; nothing suggests that the functions may be called so, and the
model has one caller. A caller that goes on using a serializer after its encoder has
failed, or gives a reader other calls than the writer's, is left out (section 4).

The logger is calls into ncurses or stdio around one flag: the state is the
terminal's. json, hash,
string, exceptions, parallel and the string file I/O have no state of
their own, or only put a call into another library: there is nothing for a model
checker to interleave. The aliases at concurrent.hpp:175-197 and everything below
`subprojects/` and `third_party/` are other people's code. libco, which switches
stacks under dethreader, is represented by the step from one coroutine to another.

## 7. Plan

Done, in this order: `DrainBuffer` with `WorkPool` (the heart of a search step),
its proof, `SequenceTrie` with `PathStore`, `Deque`, `Dethreader`, `MemoryFile` with
`FileStore`, `Serializer` with `RecordStream`, `BitCopy` with `BitArray`.

Then the proofs: `DrainBuffer`, `Deque`, `Dethreader`, `MemoryFile`, `Serializer`,
`BitCopy`, `SequenceTrie`; for each its types, its invariants and action properties, and
that it implements its abstract specification.

Next:

- `SequenceTrie` after an overflow: which nodes a wrapped count can reach, so that the claims
  before it can be carried further than to the first overflow;
- `MemoryFile` when memory runs out: which of its properties survive a failed
  `realloc` up to the first transfer outside the buffer;
- a caller that keeps a pointer to a file's object while the directory replaces it
  (file.hpp:653), which is listed as a hazard and has no property yet.

## 8. Running

    tlc -config DrainBuffer_safety.cfg MCDrainBuffer.tla
    tlapm DrainBufferProofs.tla

and so for the other modules that end in `Proofs`, and for `CountingLemmas`. `PROJECT.json`
names the module of each configuration. The longest runs are
`DrainBuffer_safety`, `SequenceTrie_safety`, `MemoryFile`, `BitCopy` and `Dethreader`, about
one to two minutes each on
two workers.
