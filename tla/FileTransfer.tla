---------------------------- MODULE FileTransfer ----------------------------
(***************************************************************************)
(* The chunk loops: ReadFile, ReadFileRange, WriteFile and WriteFileAt of  *)
(* internal/qconn/file.go, and ReadMemory and WriteMemory of the debug     *)
(* client, qnxdbg/commands.go.  ReadFileRange and WriteFileAt also carry   *)
(* the memory access through /proc/<pid>/as of qconn/proc.go.              *)
(* A loop asks for pieces no larger than its protocol allows; the target   *)
(* may deliver or accept less, refuse, and its file may grow or be cut     *)
(* short by another process between two pieces.                            *)
(*                                                                         *)
(* A file, the data of a write and the result of a read are functions from *)
(* 1..n to bytes.  `before', `bsize', `short' and `cut' are history.       *)
(***************************************************************************)
EXTENDS Integers

CONSTANTS Bytes,      \* byte values
          Zero,       \* what a hole in a file reads as
          ReadChunk,  \* maxReadChunk
          WriteChunk, \* maxWriteChunk
          MemChunk,   \* maxChunk of qnxdbg
          MaxSize     \* bound: length of a file, end of a request

ASSUME TransferAssumption ==
  /\ Zero \in Bytes
  /\ ReadChunk \in Nat \ {0} /\ WriteChunk \in Nat \ {0} /\ MemChunk \in Nat \ {0}
  /\ MaxSize \in Nat

VARIABLES
  status,   \* "idle", "run", "ok" or "err"
  method,   \* which loop
  start,    \* offset of the request
  want,     \* length of the request
  data,     \* what a write sends, 1..want
  reported, \* fileHandle.size, as the open answered
  off,      \* bytes moved so far: len(out), total
  asked,    \* pieces asked for so far (history)
  out,      \* what a read has collected, 1..off
  size,     \* length of the target's file
  file,     \* its content, 1..size
  before,   \* its content when the loop began
  bsize,    \* and its length
  short,    \* the target once delivered less than it could, or accepted nothing
  cut       \* another process truncated the file under the loop

request == <<method, start, want, data, reported, before, bsize>>
vars == <<status, request, off, asked, out, size, file, short, cut>>

Readers == {"ReadFile", "ReadFileRange", "ReadMemory"}
Writers == {"WriteFile", "WriteFileAt", "WriteMemory"}

Least(a, b) == IF a <= b THEN a ELSE b
Most(a, b)  == IF a >= b THEN a ELSE b

-----------------------------------------------------------------------------
(* The target *)

\* What the file holds from here on.
Left == Most(0, size - (start + off))

\* k bytes of the data land at the current offset; a gap reads as Zero.
Store(k) ==
  /\ size' = IF k = 0 THEN size ELSE Most(size, start + off + k)
  /\ file' = [i \in 1..size' |->
       IF start + off < i /\ i <= start + off + k THEN data[i - start]
       ELSE IF i <= size THEN file[i] ELSE Zero]

\* Another process appends to the file, or cuts it short, while a loop runs.
Changes ==
  /\ status = "run"
  /\ \/ /\ size < MaxSize
        /\ size' = size + 1
        /\ \E b \in Bytes : file' = [i \in 1..size' |-> IF i <= size THEN file[i] ELSE b]
        /\ method \in Readers
        /\ UNCHANGED cut
     \/ /\ size > 0
        /\ size' = size - 1
        /\ file' = [i \in 1..size' |-> file[i]]
        /\ cut' = TRUE
  /\ UNCHANGED <<status, request, off, asked, out, short>>

-----------------------------------------------------------------------------
(* The loops *)

\* A loop with nothing to do is over at once; ReadFile has no limit.
Over(m, n) == m # "ReadFile" /\ n = 0

\* WriteFile truncates; files of /proc report no size.
Begin(m, s, n) ==
  /\ status = "idle"
  /\ method' = m /\ start' = s /\ want' = n
  /\ m \in {"ReadFile", "WriteFile"} => s = 0
  /\ m = "ReadFile" => n = 0
  /\ reported' \in (IF m = "ReadFile" THEN {0, size} ELSE {0})
  /\ IF m \in Writers THEN data' \in [1..n -> Bytes] ELSE data' = [i \in 1..0 |-> Zero]
  /\ IF m = "WriteFile" THEN size' = 0 /\ file' = [i \in 1..0 |-> Zero]
                        ELSE UNCHANGED <<size, file>>
  /\ before' = file' /\ bsize' = size'
  /\ off' = 0 /\ asked' = 0 /\ out' = [i \in 1..0 |-> Zero]
  /\ short' = FALSE /\ cut' = FALSE
  /\ status' = IF Over(m, n) THEN "ok" ELSE "run"

\* How much the loop asks for next.
Ask == CASE method = "ReadFile"      -> ReadChunk
         [] method = "ReadFileRange" -> Least(want - off, ReadChunk)
         [] method \in {"WriteFile", "WriteFileAt"} -> Least(want - off, WriteChunk)
         [] OTHER                    -> Least(want - off, MemChunk)

\* Variant of ReadsOn: ReadFile believes the size it was told.
ReadsOnToSize(k) ==
  /\ k > 0
  /\ method = "ReadFile" => off + k < reported
  /\ method # "ReadFile" => off + k < want
  /\ method = "ReadMemory" => k = Ask

\* After a piece of k bytes: nothing ends every loop, the size ends ReadFile if
\* there was one, the limit the others, and a short piece ReadMemory.
ReadsOn(k) ==
  /\ k > 0
  /\ method = "ReadFile" => reported = 0 \/ off + k < reported
  /\ method # "ReadFile" => off + k < want
  /\ method = "ReadMemory" => k = Ask

\* Variant of Collect: the piece is read from where the piece before began.
CollectLast(k) == out' = [i \in 1..off + k |-> IF i <= off THEN out[i] ELSE file[Most(1, start + i - 1)]]

\* out = append(out, chunk...)
Collect(k) == out' = [i \in 1..off + k |-> IF i <= off THEN out[i] ELSE file[start + i]]

\* pdebug may send more than was asked for; ReadMemory drops the rest.
Clip(d) == IF method = "ReadMemory" THEN Least(d, Ask) ELSE d

\* One piece of a read: the target sends d bytes of what is there.  The file
\* service sends no more than asked, and nothing only at the end of the file.
Read(d) ==
  /\ status = "run" /\ method \in Readers
  /\ d <= Left
  /\ method # "ReadMemory" => d <= Ask /\ (d = 0 => Left = 0)
  /\ LET k == Clip(d) IN
       /\ Collect(k)
       /\ off' = off + k
       /\ status' = IF ReadsOn(k) THEN "run" ELSE "ok"
       /\ short' = (short \/ k < Least(Ask, Left))
  /\ asked' = asked + 1
  /\ UNCHANGED <<request, size, file, cut>>

\* Variant of WritesOn: a piece of which nothing was accepted is tried again.
WritesOnRegardless(k) == off + k < want

\* A piece of which nothing was accepted ends the loop, without an error.
WritesOn(k) == k > 0 /\ off + k < want

\* Variant of Counted: the file loops too count the piece they sent.
CountedAsSent(k) == Ask

\* total += nw; total = end for WriteMemory.
Counted(k) == IF method = "WriteMemory" THEN Ask ELSE k

\* One piece of a write; pdebug takes it all or refuses it.
Write(k) ==
  /\ status = "run" /\ method \in Writers
  /\ k <= Ask
  /\ method = "WriteMemory" => k = Ask
  /\ Store(k)
  /\ off' = off + Counted(k)
  /\ status' = IF WritesOn(k) THEN "run" ELSE "ok"
  /\ short' = (short \/ k = 0)
  /\ asked' = asked + 1
  /\ UNCHANGED <<request, out, cut>>

\* The target refuses a piece, or the exchange fails.  A piece of a write may
\* have landed although its answer never came; it is not counted.  A refusal
\* after the first piece ends ReadMemory with what it has.
Refuse ==
  /\ status = "run"
  /\ \/ /\ status' = "err"
        /\ IF method \in Writers THEN \E k \in 0..Ask : Store(k) ELSE UNCHANGED <<size, file>>
        /\ UNCHANGED short
     \/ /\ method = "ReadMemory" /\ off > 0
        /\ status' = "ok" /\ short' = TRUE
        /\ UNCHANGED <<size, file>>
  /\ asked' = asked + 1
  /\ UNCHANGED <<request, off, out, cut>>

\* The call returns, and its variables are gone.
Finish ==
  /\ status \in {"ok", "err"}
  /\ status' = "idle" /\ method' = "ReadFile"
  /\ start' = 0 /\ want' = 0 /\ reported' = 0 /\ off' = 0 /\ asked' = 0
  /\ data' = [i \in 1..0 |-> Zero] /\ out' = data'
  /\ before' = file /\ bsize' = size
  /\ short' = FALSE /\ cut' = FALSE
  /\ UNCHANGED <<size, file>>

-----------------------------------------------------------------------------
(* The specification *)

Init ==
  /\ status = "idle" /\ method = "ReadFile"
  /\ start = 0 /\ want = 0 /\ reported = 0 /\ off = 0 /\ asked = 0
  /\ size \in 0..MaxSize
  /\ file \in [1..size -> Bytes]
  /\ before = file /\ bsize = size
  /\ data = [i \in 1..0 |-> Zero] /\ out = data
  /\ short = FALSE /\ cut = FALSE

Step == (\E d \in 0..Left : Read(d)) \/ (\E k \in 0..Ask : Write(k)) \/ Refuse

Next ==
  \/ \E m \in Readers \cup Writers, s \in 0..MaxSize : \E n \in 0..(MaxSize - s) : Begin(m, s, n)
  \/ Step
  \/ Changes
  \/ Finish

Spec == Init /\ [][Next]_vars

-----------------------------------------------------------------------------
(* Properties *)

TypeOK ==
  /\ status \in {"idle", "run", "ok", "err"}
  /\ method \in Readers \cup Writers
  /\ start \in Nat /\ want \in Nat /\ reported \in Nat /\ off \in Nat /\ asked \in Nat
  /\ size \in Nat /\ file \in [1..size -> Bytes]
  /\ bsize \in Nat /\ before \in [1..bsize -> Bytes]
  /\ data \in [1..(IF method \in Writers THEN want ELSE 0) -> Bytes]
  /\ out \in [1..(IF method \in Readers THEN off ELSE 0) -> Bytes]
  /\ short \in BOOLEAN /\ cut \in BOOLEAN
  /\ method # "ReadFile" => off <= want

\* What a read has collected is the file from the offset on, without a gap, a
\* repetition or a byte of another place, at every moment and also after an
\* error (the offsets of the readAt and memrd calls).
ReadContiguous ==
  method \in Readers /\ ~cut =>
    /\ off > 0 => start + off <= size
    /\ \A i \in 1..off : out[i] = file[start + i]

\* A read that reports success is complete: ReadFile has at least the bytes the
\* file had when it was opened, all of them when no size was reported, and a
\* range is short only at the end of the file (file.go).
ReadComplete ==
  status = "ok" /\ ~cut =>
    /\ method = "ReadFile" => off >= reported /\ (reported = 0 => off = size)
    /\ method = "ReadFileRange" => off = want \/ start + off >= size
    /\ method = "ReadMemory" => off = want \/ short \/ start + off >= size

\* Byte i once a write of which n bytes have landed has done nothing else.
Written(i, n) == IF start < i /\ i <= start + n THEN data[i - start]
                 ELSE IF i <= bsize THEN before[i] ELSE Zero

\* A write has changed the bytes it counts and no others; after an error, at most
\* those of the one piece that was under way besides.  It stops short of the
\* request without an error only when the target accepted nothing (the offsets
\* and exits of the writeAt and memwr loops).
WriteExact ==
  method \in Writers =>
    /\ ~cut => \E n \in off..(IF status = "err" THEN off + Ask ELSE off) :
         /\ size = IF n = 0 THEN bsize ELSE Most(bsize, start + n)
         /\ \A i \in 1..size : file[i] = Written(i, n)
    /\ status = "ok" => off = want \/ short

\* Every piece a loop asks for moves it on by a byte or ends it: no loop can
\* turn for ever over a file that does not grow (the exits on an empty piece and
\* on a write of nothing).
EveryPieceMoves == asked <= off + (IF status \in {"ok", "err"} THEN 1 ELSE 0)
=============================================================================
