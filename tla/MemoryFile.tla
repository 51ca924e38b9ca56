----------------------------- MODULE MemoryFile -----------------------------
(***************************************************************************)
(* MemoryFile and MemoryFileDirectory of include/jaffarCommon/file.hpp:    *)
(* named files that live in memory behind a C-like interface.              *)
(*                                                                         *)
(* Every call is one step, but for fread and fwrite of a file with a       *)
(* callback: after the transfer the callback runs, which may make any call *)
(* to any file, and only then the transfer clears the error and returns.   *)
(*                                                                         *)
(* The callers use pointers to files that are in the directory.  They do   *)
(* not remove a file, or exchange a callback, while that callback runs,    *)
(* and give setSize, which checks nothing, a size between the position and *)
(* the buffer's.  size * count and every position fit in size_t.           *)
(*                                                                         *)
(* A call that answers NULL or -1 before it touches a file (a conflicting  *)
(* mode, a name that does not exist, a null pointer) changes nothing.      *)
(***************************************************************************)
EXTENDS Integers, Sequences, FiniteSets

CONSTANTS Names,
          Files,      \* the addresses of MemoryFile objects
          Bytes, Junk,  \* Junk: what a byte that was never written holds
          Transfers,  \* the <<size, count>> arguments of fread and fwrite
          MaxSize,    \* bound: the size of a file
          MaxCalls,   \* bound: callbacks that run at once
          MayFail,    \* whether realloc may fail
          None

ASSUME TransfersAssumption == Transfers \subseteq Nat \X Nat
ASSUME BoundsAssumption == MaxSize \in Nat /\ MaxCalls \in Nat /\ MayFail \in BOOLEAN
ASSUME NoneAssumption == None \notin Files

VARIABLES dir,      \* dir[n]: _fileMap[n], or None
          file,     \* file[f]: the members of the object f
          calls,    \* the transfers whose callbacks run, the innermost first
          read,     \* the bytes the last fread copied
          last,     \* the last call that returned, and what it returned
          overrun   \* a transfer has gone beyond a buffer; what follows is undefined

vars == <<dir, file, calls, read, last, overrun>>

\* A default-constructed object: _bufferSize is the length of buffer, and _buffer
\* is nullptr exactly if that is 0.  flags are the Boolean members that are true.
NewFile == [size |-> 0, buffer |-> <<>>, head |-> 0, error |-> 0, flags |-> {}]

Flag    == {"opened", "readonly", "writeonly"}
CallbackOf == [read |-> "readCallback", write |-> "writeCallback"]
Defined == {"readCallback", "writeCallback"}

Live    == {dir[n] : n \in Names} \ {None}
Is(f, flag) == flag \in file[f].flags

Init ==
  /\ dir = [n \in Names |-> None]
  /\ file = [f \in Files |-> NewFile]
  /\ calls = <<>>
  /\ read = <<>>
  /\ last = [op |-> "none", value |-> 0]
  /\ overrun = FALSE

Returns(o, v) == last' = [op |-> o, value |-> v]

\* The call sets _errorCode to a negative value and returns it.
Refuses(f, o, e) ==
  /\ file' = [file EXCEPT ![f].error = e]
  /\ Returns(o, e)
  /\ UNCHANGED <<dir, calls, read, overrun>>

-----------------------------------------------------------------------------
(* The buffer.                                                              *)

\* The size doubles, from at least 1, until the target fits.
BufferSizeFor(b, target) ==
  LET start == IF Len(b) = 0 THEN 1 ELSE Len(b)
      sizes == {start * 2^k : k \in 0 .. target}
  IN  CHOOSE s \in sizes : s >= target /\ \A r \in sizes : r >= target => s <= r

\* realloc keeps the old bytes and does not set the new ones.
FaultyGrown(b, target) == [i \in 1 .. BufferSizeFor(b, target) |-> Junk]
Grown(b, target) ==
  [i \in 1 .. BufferSizeFor(b, target) |-> IF i <= Len(b) THEN b[i] ELSE Junk]

\* resizeToFit: the buffers it may leave.
ResizedToFit(b, target) == {Grown(b, target)} \cup (IF MayFail THEN {b} ELSE {})

-----------------------------------------------------------------------------
(* fread and fwrite                                                         *)

\* What is left to do after the transfer: the callback, or the return.
Transferred(f, o, r, v) ==
  IF CallbackOf[o] \in r.flags
  THEN /\ Len(calls) < MaxCalls
       /\ file' = [file EXCEPT ![f] = r]
       /\ calls' = <<[file |-> f, op |-> o, value |-> v]>> \o calls
       /\ UNCHANGED last
  ELSE /\ file' = [file EXCEPT ![f] = [r EXCEPT !.error = 0]]
       /\ Returns(o, v)
       /\ UNCHANGED calls

\* The elements a read is cut to.
ReadCount(f, size, count) ==
  IF size > 0 /\ file[f].head + size * count > file[f].size
  THEN (file[f].size - file[f].head) \div size
  ELSE count

Fread(f, size, count) ==
  LET n == ReadCount(f, size, count)
      end == file[f].head + size * n
  IN  /\ Is(f, "opened") /\ ~Is(f, "writeonly")
      /\ IF end <= Len(file[f].buffer)
         THEN /\ read' = SubSeq(file[f].buffer, file[f].head + 1, end)
              /\ Transferred(f, "read", [file[f] EXCEPT !.head = end], n)
              /\ UNCHANGED <<dir, overrun>>
         ELSE /\ overrun' = TRUE
              /\ UNCHANGED <<dir, file, calls, read, last>>

\* The buffers that a write ending at position end finds.
Room(f, end) ==
  IF end > Len(file[f].buffer) THEN ResizedToFit(file[f].buffer, end + 1) ELSE {file[f].buffer}

Fwrite(f, size, count) ==
  LET start == file[f].head
      end == start + size * count
  IN  /\ Is(f, "opened") /\ ~Is(f, "readonly")
      /\ end <= MaxSize
      /\ \E b \in Room(f, end) :
           IF end <= Len(b)
           THEN /\ \E s \in [start + 1 .. end -> Bytes] :
                     Transferred(f, "write",
                       [file[f] EXCEPT
                          !.buffer = [i \in DOMAIN b |-> IF i \in DOMAIN s THEN s[i] ELSE b[i]],
                          !.head = end,
                          !.size = IF end > @ THEN end ELSE @], count)
                /\ UNCHANGED <<dir, read, overrun>>
           ELSE /\ overrun' = TRUE
                /\ UNCHANGED <<dir, file, calls, read, last>>

\* The callback returns, and the transfer does.
CallbackReturns ==
  /\ calls # <<>>
  /\ file' = [file EXCEPT ![Head(calls).file].error = 0]
  /\ Returns(Head(calls).op, Head(calls).value)
  /\ calls' = Tail(calls)
  /\ UNCHANGED <<dir, read, overrun>>

\* The calls that find the file closed, or not open for what they do.
RefuseClosed(f) ==
  /\ ~Is(f, "opened")
  /\ \E o \in {"read", "write", "tell", "rewind", "flush", "seek", "eof", "resize"} : Refuses(f, o, -1)

RefuseMode(f) ==
  /\ Is(f, "opened")
  /\ \/ Is(f, "writeonly") /\ Refuses(f, "read", -2)
     \/ Is(f, "readonly") /\ \E o \in {"write", "resize"} : Refuses(f, o, -2)

-----------------------------------------------------------------------------
(* The position, and what only answers.                                     *)

FaultyInFile(f, p) == p <= file[f].size
InFile(f, p) == p \in 0 .. file[f].size

Fseek(f, offset, origin) ==
  LET from == CASE origin = "SEEK_SET" -> 0
                [] origin = "SEEK_END" -> file[f].size
                [] OTHER -> file[f].head
      to == from + offset
  IN  /\ Is(f, "opened")
      /\ \/ ~InFile(f, to) /\ Refuses(f, "seek", IF to < 0 THEN -2 ELSE -3)
         \/ /\ InFile(f, to)
            /\ file' = [file EXCEPT ![f].head = to, ![f].error = 0]
            /\ Returns("seek", 0)
            /\ UNCHANGED <<dir, calls, read, overrun>>

Rewind(f) ==
  /\ Is(f, "opened")
  /\ file' = [file EXCEPT ![f].head = 0, ![f].error = 0]
  /\ Returns("rewind", 0)
  /\ UNCHANGED <<dir, calls, read, overrun>>

\* ftell, fflush, feof, clearerr.
Answer(f) ==
  /\ Is(f, "opened")
  /\ file' = [file EXCEPT ![f].error = 0]
  /\ \/ Returns("tell", file[f].head)
     \/ \E o \in {"flush", "clearerr"} : Returns(o, 0)
     \/ Returns("eof", IF file[f].head = file[f].size THEN 1 ELSE 0)
  /\ UNCHANGED <<dir, calls, read, overrun>>

-----------------------------------------------------------------------------
(* The size and the flags.                                                  *)

FaultyClamped(r) == r
Clamped(r) == [r EXCEPT !.head = IF @ > r.size THEN r.size ELSE @, !.error = 0]

Resize(f, n) ==
  /\ Is(f, "opened") /\ ~Is(f, "readonly")
  /\ \E b \in IF Len(file[f].buffer) < n THEN ResizedToFit(file[f].buffer, n) ELSE {file[f].buffer} :
       LET r == [file[f] EXCEPT !.size = n, !.buffer = b]
       IN  IF Len(file[f].buffer) < n /\ b = <<>>
           THEN file' = [file EXCEPT ![f] = r] /\ Returns("resize", -1)
           ELSE file' = [file EXCEPT ![f] = Clamped(r)] /\ Returns("resize", 0)
  /\ UNCHANGED <<dir, calls, read, overrun>>

SetSize(f, n) ==
  /\ n \in file[f].head .. Len(file[f].buffer)
  /\ file' = [file EXCEPT ![f].size = n]
  /\ Returns("setSize", 0)
  /\ UNCHANGED <<dir, calls, read, overrun>>

Running(f) == \E i \in DOMAIN calls : calls[i].file = f

\* set... and unset... of the three flags and the two callbacks.
SetFlag(f, flag, on) ==
  /\ (flag \in Defined /\ on) => ~Running(f)
  /\ file' = [file EXCEPT ![f].flags = IF on THEN @ \cup {flag} ELSE @ \ {flag}]
  /\ Returns("set", 0)
  /\ UNCHANGED <<dir, calls, read, overrun>>

-----------------------------------------------------------------------------
(* The directory.                                                           *)

\* The flags of a file that fopen returns: mode is "r" or "w", plus a "+" in it.
OpenFlags(old, mode, plus) ==
  (old \ Flag) \cup {"opened"}
    \cup (IF plus THEN {} ELSE {IF mode = "r" THEN "readonly" ELSE "writeonly"})

Opened(r, mode, plus) == [r EXCEPT !.flags = OpenFlags(@, mode, plus), !.head = 0, !.error = 0]

FopenRead(n, plus) ==
  LET f == dir[n]
  IN  /\ f # None
      /\ ~Is(f, "opened")
      /\ file' = [file EXCEPT ![f] = Opened(@, "r", plus)]
      /\ Returns("open", 0)
      /\ UNCHANGED <<dir, calls, read, overrun>>

\* x: the "no-create" flag, which lets "w" overwrite only.
Replaceable(f) == ~Is(f, "opened") /\ ~Running(f)

FopenWrite(n, plus, x) ==
  /\ IF dir[n] = None THEN ~x ELSE Replaceable(dir[n])
  /\ \E f \in Files \ Live :
       /\ dir' = [dir EXCEPT ![n] = f]
       /\ file' = [g \in Files |-> IF g = f THEN Opened(NewFile, "w", plus)
                                   ELSE IF g = dir[n] THEN NewFile ELSE file[g]]
  /\ Returns("open", 0)
  /\ UNCHANGED <<calls, read, overrun>>

Fclose(f) ==
  /\ file' = [file EXCEPT ![f].flags = @ \ {"opened"}]
  /\ Returns("close", IF Is(f, "opened") THEN 0 ELSE -2)
  /\ UNCHANGED <<dir, calls, read, overrun>>

Fdestroy(n) ==
  /\ dir[n] # None
  /\ Replaceable(dir[n])
  /\ dir' = [dir EXCEPT ![n] = None]
  /\ file' = [file EXCEPT ![dir[n]] = NewFile]
  /\ Returns("destroy", 0)
  /\ UNCHANGED <<calls, read, overrun>>

-----------------------------------------------------------------------------
Offsets == -MaxSize .. MaxSize
Origins == {"SEEK_SET", "SEEK_CUR", "SEEK_END"}

FileCall(f) ==
  \/ \E t \in Transfers : Fread(f, t[1], t[2]) \/ Fwrite(f, t[1], t[2])
  \/ RefuseClosed(f)
  \/ RefuseMode(f)
  \/ \E d \in Offsets, o \in Origins : Fseek(f, d, o)
  \/ Rewind(f)
  \/ Answer(f)
  \/ \E n \in 0 .. MaxSize : Resize(f, n) \/ SetSize(f, n)
  \/ \E flag \in Flag \cup Defined, on \in BOOLEAN : SetFlag(f, flag, on)
  \/ Fclose(f)

DirectoryCall(n) ==
  \/ \E plus \in BOOLEAN : FopenRead(n, plus) \/ \E x \in BOOLEAN : FopenWrite(n, plus, x)
  \/ Fdestroy(n)

Next ==
  /\ ~overrun
  /\ \/ \E f \in Live : FileCall(f)
     \/ \E n \in Names : DirectoryCall(n)
     \/ CallbackReturns

Spec == Init /\ [][Next]_vars

-----------------------------------------------------------------------------
TypeOK ==
  /\ dir \in [Names -> Files \cup {None}]
  /\ \A f \in Files :
       /\ file[f].size \in 0 .. MaxSize
       /\ file[f].buffer \in Seq(Bytes \cup {Junk})
       /\ file[f].head \in Nat
       /\ file[f].error \in {0, -1, -2, -3}
       /\ file[f].flags \subseteq Flag \cup Defined
  /\ calls \in Seq([file : Files, op : {"read", "write"}, value : Nat])
  /\ read \in Seq(Bytes \cup {Junk})
  /\ last.value \in Int
  /\ overrun \in BOOLEAN

\* No transfer leaves its buffer: the position, the size and the buffer stay in
\* order through every mix of writes, seeks, resizes and reopenings, and through
\* what a callback does in the middle of a transfer.
AccessesStayInBuffer ==
  /\ ~overrun
  /\ \A f \in Files : file[f].head <= file[f].size /\ file[f].size <= Len(file[f].buffer)

-----------------------------------------------------------------------------
(* The files are those of FileStore: what a file contains is its buffer up  *)
(* to its size.                                                             *)

Store == INSTANCE FileStore WITH
           Bytes <- Bytes \cup {Junk},
           content <- [f \in Files |-> SubSeq(file[f].buffer, 1, file[f].size)],
           head <- [f \in Files |-> file[f].head],
           flags <- [f \in Files |-> file[f].flags \cap Flag]
ImplementsFileStore == Store!Spec

-----------------------------------------------------------------------------
(* What the documentation says of the files and the code does not do.       *)

\* file.hpp:441, "Zero, if successful. Non-zero if an error ocurred": a resize that
\* answers zero has memory for the size it sets.
ResizeReportsFailure ==
  [][\A f \in Live :
       last'.op = "resize" /\ last'.value = 0 => file'[f].size <= Len(file'[f].buffer)]_vars
=============================================================================
