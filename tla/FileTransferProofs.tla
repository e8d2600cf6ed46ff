------------------------ MODULE FileTransferProofs -------------------------
(***************************************************************************)
(* Proofs about FileTransfer, for files and requests of every length, every*)
(* chunk size and every set of byte values: what a read returns is the     *)
(* file, what a write changes is what it counts, and every piece makes     *)
(* progress.                                                               *)
(***************************************************************************)
EXTENDS FileTransfer, TLAPS

\* What the loops' exits keep true besides: a running loop still has something
\* to ask for, and the size the open reported has not shrunk away.
LoopInv ==
  /\ method # "ReadFile" => off <= want /\ reported = 0
  /\ method # "ReadFile" /\ status = "run" => off < want
  /\ method = "ReadFile" => start = 0
  /\ method = "ReadFile" /\ ~cut => reported <= size

IInv == TypeOK /\ LoopInv /\ ReadContiguous /\ ReadComplete /\ WriteExact /\ EveryPieceMoves

\* A running loop asks for at least a byte, and for no more than it lacks.
LEMMA AskBounds ==
  ASSUME TypeOK, LoopInv
  PROVE  /\ Ask \in Int
         /\ status = "run" => Ask >= 1
         /\ method # "ReadFile" => Ask <= want - off
         /\ method # "ReadFile" => Ask >= 0
<1> DEFINE lack == want - off
<1>1. /\ want \in Nat /\ off \in Nat
      /\ method \in {"ReadFile", "ReadFileRange", "ReadMemory",
                     "WriteFile", "WriteFileAt", "WriteMemory"}
  BY DEF TypeOK, Readers, Writers
<1>2. /\ method # "ReadFile" => lack \in Nat
      /\ method # "ReadFile" /\ status = "run" => lack >= 1
  BY <1>1 DEF LoopInv
<1>3. /\ method = "ReadFile" => Ask = ReadChunk
      /\ method = "ReadFileRange" => Ask = Least(lack, ReadChunk)
      /\ method \in {"WriteFile", "WriteFileAt"} => Ask = Least(lack, WriteChunk)
      /\ method \in {"ReadMemory", "WriteMemory"} => Ask = Least(lack, MemChunk)
  BY DEF Ask
<1> HIDE DEF lack
<1>5. CASE method = "ReadFile"
  BY <1>3, <1>5, TransferAssumption
<1>6. CASE method # "ReadFile"
  <2>1. PICK c \in Nat \ {0} : Ask = Least(lack, c)
    BY <1>1, <1>3, <1>6, TransferAssumption
  <2>2. /\ Ask \in Nat /\ Ask <= lack
        /\ lack >= 1 => Ask >= 1
    BY <1>2, <1>6, <2>1 DEF Least
  <2>3. status = "run" => lack >= 1
    BY <1>2, <1>6
  <2> QED BY <1>6, <2>2, <2>3 DEF lack
<1> QED BY <1>5, <1>6

\* What is left of the file is a natural number.
LEMMA LeftNat == ASSUME TypeOK PROVE Left \in Nat
                 /\ (Left > 0 => Left = size - (start + off)) /\ (Left = 0 => start + off >= size)
  BY DEF TypeOK, Left, Most

\* Storing a piece leaves a file.
LEMMA StoreType ==
  ASSUME TypeOK, LoopInv, method \in Writers, NEW k \in Nat, k <= Ask, Store(k)
  PROVE  size' \in Nat /\ file' \in [1..size' -> Bytes]
<1>1. size' \in Nat
  BY DEF TypeOK, Store, Most
<1>2. \A i \in 1..size' : start + off < i /\ i <= start + off + k => data[i - start] \in Bytes
  BY <1>1, AskBounds DEF TypeOK, LoopInv, Readers, Writers
<1>3. \A i \in 1..size' : i <= size => file[i] \in Bytes
  BY <1>1 DEF TypeOK
<1> QED BY <1>1, <1>2, <1>3, TransferAssumption DEF Store

\* A stored piece extends what has landed, from n bytes to n + k.
LEMMA StoreWritten ==
  ASSUME TypeOK, LoopInv, method \in Writers, NEW k \in Nat, k <= Ask, Store(k),
         size = IF off = 0 THEN bsize ELSE Most(bsize, start + off),
         \A i \in 1..size : file[i] = Written(i, off)
  PROVE  /\ size' = IF off + k = 0 THEN bsize ELSE Most(bsize, start + off + k)
         /\ \A i \in 1..size' : file'[i] = Written(i, off + k)
<1>1. size' = IF off + k = 0 THEN bsize ELSE Most(bsize, start + off + k)
  BY DEF TypeOK, Store, Most
<1>2. size' \in Nat
  BY StoreType
<1>3. SUFFICES ASSUME NEW i \in 1..size' PROVE file'[i] = Written(i, off + k)
  BY <1>1
<1>4. CASE start + off < i /\ i <= start + off + k
  BY <1>2, <1>4 DEF TypeOK, Store, Written, request
<1>5. CASE ~(start + off < i /\ i <= start + off + k) /\ i <= size
  <2>1. file'[i] = file[i]
    BY <1>2, <1>5 DEF Store
  <2>2. file[i] = Written(i, off)
    BY <1>2, <1>5 DEF TypeOK
  <2> QED BY <1>2, <1>5, <2>1, <2>2 DEF TypeOK, Written, request
<1>6. CASE ~(start + off < i /\ i <= start + off + k) /\ ~(i <= size)
  BY <1>2, <1>6 DEF TypeOK, Store, Written, request, Most
<1> QED BY <1>4, <1>5, <1>6
-----------------------------------------------------------------------------
\* The first states satisfy the invariant.
LEMMA InitInv == Init => IInv
<1> SUFFICES ASSUME Init PROVE IInv
  OBVIOUS
<1>1. /\ method = "ReadFile" /\ method \in Readers /\ method \notin Writers
      /\ (IF method \in Readers THEN off ELSE 0) = 0
      /\ (IF method \in Writers THEN want ELSE 0) = 0
  BY DEF Init, Readers, Writers
<1>2. size \in Nat
  BY TransferAssumption DEF Init
<1>3. data \in [1..0 -> Bytes]
  BY TransferAssumption DEF Init
<1>4. TypeOK
  <2>1. status \in {"idle", "run", "ok", "err"} /\ short \in BOOLEAN /\ cut \in BOOLEAN
    BY Zenon DEF Init
  <2> QED BY <1>1, <1>2, <1>3, <2>1 DEF Init, TypeOK
<1>5. LoopInv /\ ReadContiguous /\ ReadComplete /\ WriteExact /\ EveryPieceMoves
  BY <1>1, <1>2 DEF Init, LoopInv, ReadContiguous, ReadComplete, WriteExact, EveryPieceMoves
<1> QED BY <1>4, <1>5 DEF IInv

\* So do those in which a loop begins: it has moved nothing.
LEMMA BeginStep ==
  ASSUME TypeOK, NEW m \in Readers \cup Writers, NEW s \in Nat, NEW n \in Nat, Begin(m, s, n)
  PROVE  IInv'
<1>1. /\ method' = m /\ start' = s /\ want' = n /\ off' = 0 /\ asked' = 0
      /\ short' = FALSE /\ cut' = FALSE
      /\ status' = IF m # "ReadFile" /\ n = 0 THEN "ok" ELSE "run"
  BY DEF Begin, Over
<1>2. /\ size' \in Nat /\ file' \in [1..size' -> Bytes] 
      /\ before' = file' /\ bsize' = size'
  BY TransferAssumption, Zenon DEF Begin, TypeOK
<1>3. /\ reported' \in Nat
      /\ m # "ReadFile" => reported' = 0
      /\ m = "ReadFile" => reported' <= size' /\ s = 0
  BY <1>1 DEF Begin, TypeOK
<1>4. /\ data' \in [1..(IF m \in Writers THEN n ELSE 0) -> Bytes]
      /\ out' \in [1..0 -> Bytes]
  BY TransferAssumption, Zenon DEF Begin
<1>5. TypeOK'
  <2>1. (IF m \in Readers THEN off' ELSE 0) = 0
    BY <1>1
  <2>2. status' \in {"idle", "run", "ok", "err"} /\ short' \in BOOLEAN /\ cut' \in BOOLEAN
    BY <1>1, Zenon
  <2>3. m # "ReadFile" => off' <= want'
    BY <1>1
  <2> QED BY <1>1, <1>2, <1>3, <1>4, <2>1, <2>2, <2>3, SMTT(30) DEF TypeOK
<1>6. LoopInv'
  BY <1>1, <1>2, <1>3 DEF LoopInv
<1>7. ReadContiguous' /\ EveryPieceMoves'
  BY <1>1 DEF ReadContiguous, EveryPieceMoves
<1>8. ReadComplete'
  BY <1>1, <1>2, <1>3 DEF ReadComplete
<1>9. WriteExact'
  <2>1. SUFFICES ASSUME m \in Writers PROVE WriteExact'
    BY <1>1 DEF WriteExact
  <2>2. \A i \in 1..size' : file'[i] = Written(i, 0)'
    BY <1>1, <1>2 DEF Written
  <2>3. status' # "err" /\ (status' = "ok" => off' = want')
    BY <1>1
  <2> QED BY <1>1, <1>2, <2>2, <2>3 DEF WriteExact
<1> QED BY <1>5, <1>6, <1>7, <1>8, <1>9 DEF IInv

\* A piece of a read carries the invariant on.
LEMMA ReadStep ==
  ASSUME IInv, NEW d \in Nat, Read(d)
  PROVE  IInv'
<1> DEFINE k == Clip(d)
<1>0. TypeOK /\ LoopInv /\ ReadContiguous /\ EveryPieceMoves
  BY DEF IInv
<1>1. /\ status = "run" /\ method \in Readers /\ method \notin Writers
      /\ d <= Left /\ (method # "ReadMemory" => d <= Ask /\ (d = 0 => Left = 0))
      /\ out' = [i \in 1..off + k |-> IF i <= off THEN out[i] ELSE file[start + i]]
      /\ off' = off + k /\ asked' = asked + 1
      /\ status' = IF ReadsOn(k) THEN "run" ELSE "ok"
      /\ short' = (short \/ k < Least(Ask, Left))
      /\ UNCHANGED <<method, start, want, data, reported, before, bsize, size, file, cut>>
  BY DEF Read, Collect, request, Readers, Writers
<1>2. /\ Ask \in Nat /\ Ask >= 1
      /\ method # "ReadFile" => Ask <= want - off
  BY <1>0, <1>1, AskBounds
<1>3. /\ Left \in Nat /\ (Left > 0 => Left = size - (start + off))
      /\ Left = 0 => start + off >= size
  BY <1>0, LeftNat
<1>4. /\ k \in Nat /\ k <= Ask /\ k <= Left
      /\ method # "ReadMemory" => (k = 0 => Left = 0)
  BY <1>1, <1>2, <1>3 DEF Clip, Least
<1> HIDE DEF k
<1>5. /\ start \in Nat /\ want \in Nat /\ reported \in Nat /\ off \in Nat /\ asked \in Nat
      /\ size \in Nat /\ file \in [1..size -> Bytes] /\ out \in [1..off -> Bytes]
  BY <1>0, <1>1 DEF TypeOK
<1>6. k > 0 => start + off + k <= size
  BY <1>3, <1>4, <1>5
<1>7. ReadsOn(k) =>
        /\ k > 0
        /\ method # "ReadFile" => off + k < want
  BY <1>1, <1>4, <1>5 DEF ReadsOn, Readers
<1>8. ~ReadsOn(k) /\ k > 0 =>
        /\ method = "ReadFile" => reported > 0 /\ off + k >= reported
        /\ method = "ReadFileRange" => off + k >= want
        /\ method = "ReadMemory" => off + k >= want \/ k # Ask
  BY <1>1, <1>4, <1>5 DEF ReadsOn, Readers
<1>9. TypeOK'
  <2>1. out' \in [1..off' -> Bytes]
    BY <1>1, <1>4, <1>5, <1>6
  <2>2. off' \in Nat /\ asked' \in Nat /\ (method # "ReadFile" => off' <= want)
    BY <1>1, <1>2, <1>4, <1>5
  <2>3. status' \in {"idle", "run", "ok", "err"}
    BY <1>1
  <2>4. short' \in BOOLEAN
    BY <1>1
  <2> QED BY <1>0, <1>1, <2>1, <2>2, <2>3, <2>4, SMTT(30) DEF TypeOK
<1>10. LoopInv'
  BY <1>0, <1>1, <1>2, <1>4, <1>5, <1>7 DEF LoopInv
<1>11. ReadContiguous'
  <2>1. SUFFICES ASSUME ~cut PROVE (off' > 0 => start + off' <= size)
                                   /\ \A i \in 1..off' : out'[i] = file[start + i]
    BY <1>1 DEF ReadContiguous
  <2>2. (off > 0 => start + off <= size) /\ \A i \in 1..off : out[i] = file[start + i]
    BY <1>0, <1>1, <2>1 DEF ReadContiguous
  <2> QED BY <1>1, <1>4, <1>5, <1>6, <2>2
<1>12. ReadComplete'
  <2>1. SUFFICES ASSUME status' = "ok", ~cut PROVE ReadComplete'
    BY <1>1 DEF ReadComplete
  <2>2. ~ReadsOn(k)
    BY <1>1, <2>1
  <2>3. off > 0 => start + off <= size
    BY <1>0, <1>1, <2>1 DEF ReadContiguous
  <2>4. CASE method = "ReadFile"
    <3>1. start = 0 /\ reported <= size
      BY <1>0, <2>1, <2>4 DEF LoopInv
    <3>2. off' >= reported /\ (reported = 0 => off' = size)
      BY <1>1, <1>3, <1>4, <1>5, <1>8, <2>2, <2>3, <2>4, <3>1
    <3> QED BY <1>1, <2>4, <3>2 DEF ReadComplete
  <2>5. CASE method = "ReadFileRange"
    <3>1. off' = want \/ start + off' >= size
      BY <1>1, <1>2, <1>3, <1>4, <1>5, <1>8, <2>2, <2>5
    <3> QED BY <1>1, <2>5, <3>1 DEF ReadComplete
  <2>6. CASE method = "ReadMemory"
    <3>1. off' = want \/ start + off' >= size \/ k < Least(Ask, Left)
      BY <1>1, <1>2, <1>3, <1>4, <1>5, <1>8, <2>2, <2>6 DEF Least
    <3>2. k < Least(Ask, Left) => short'
      BY <1>1, Zenon
    <3> QED BY <1>1, <2>6, <3>1, <3>2 DEF ReadComplete
  <2> QED BY <1>1, <2>4, <2>5, <2>6 DEF Readers
<1>13. WriteExact'
  BY <1>1 DEF WriteExact
<1>14. EveryPieceMoves'
  BY <1>0, <1>1, <1>4, <1>5, <1>7 DEF EveryPieceMoves
<1> QED BY <1>9, <1>10, <1>11, <1>12, <1>13, <1>14 DEF IInv

\* A piece of a write carries the invariant on.
LEMMA WriteStep ==
  ASSUME IInv, NEW k \in Nat, Write(k)
  PROVE  IInv'
<1>0. TypeOK /\ LoopInv /\ WriteExact /\ EveryPieceMoves
  BY DEF IInv
<1>1. /\ status = "run" /\ method \in Writers /\ method \notin Readers /\ method # "ReadFile"
      /\ k <= Ask /\ Store(k)
      /\ off' = off + k /\ asked' = asked + 1
      /\ status' = IF k > 0 /\ off + k < want THEN "run" ELSE "ok"
      /\ short' = (short \/ k = 0)
      /\ UNCHANGED <<method, start, want, data, reported, before, bsize, out, cut>>
  BY DEF Write, Counted, WritesOn, request, Readers, Writers
<1>2. Ask <= want - off /\ Ask \in Int
  BY <1>0, <1>1, AskBounds
<1>3. want \in Nat /\ off \in Nat /\ asked \in Nat /\ reported = 0 /\ off < want
  BY <1>0, <1>1 DEF TypeOK, LoopInv
<1>4. size' \in Nat /\ file' \in [1..size' -> Bytes]
  BY <1>0, <1>1, StoreType
<1>5. TypeOK'
  <2>1. off' \in Nat /\ asked' \in Nat /\ off' <= want
    BY <1>1, <1>2, <1>3
  <2>2. status' \in {"idle", "run", "ok", "err"}
    BY <1>1
  <2>3. short' \in BOOLEAN
    BY <1>1
  <2> QED BY <1>0, <1>1, <1>4, <2>1, <2>2, <2>3 DEF TypeOK
<1>6. LoopInv'
  BY <1>1, <1>2, <1>3 DEF LoopInv
<1>7. ReadContiguous' /\ ReadComplete'
  BY <1>1 DEF ReadContiguous, ReadComplete, Readers, Writers
<1>8. WriteExact'
  <2>1. status' = "ok" => off' = want \/ k = 0
    BY <1>1, <1>2, <1>3
  <2>2. k = 0 => short'
    BY <1>1, Zenon
  <2>3. ASSUME ~cut PROVE
          /\ size' = IF off' = 0 THEN bsize ELSE Most(bsize, start + off')
          /\ \A i \in 1..size' : file'[i] = Written(i, off)'
    <3>1. /\ size = IF off = 0 THEN bsize ELSE Most(bsize, start + off)
          /\ \A i \in 1..size : file[i] = Written(i, off)
      BY <1>0, <1>1, <1>3, <2>3 DEF WriteExact
    <3>2. /\ size' = IF off + k = 0 THEN bsize ELSE Most(bsize, start + off + k)
          /\ \A i \in 1..size' : file'[i] = Written(i, off + k)
      BY <1>0, <1>1, <3>1, StoreWritten
    <3>3. \A i \in 1..size' : Written(i, off)' = Written(i, off + k)
      BY <1>1 DEF Written
    <3>4. start + off' = start + off + k
      BY <1>0, <1>1 DEF TypeOK
    <3> QED BY <1>1, <3>2, <3>3, <3>4
  <2>4. status' # "err" /\ off' \in off'..off'
    BY <1>1, <1>3
  <2> QED BY <1>1, <2>1, <2>2, <2>3, <2>4 DEF WriteExact
<1>9. EveryPieceMoves'
  BY <1>0, <1>1, <1>3 DEF EveryPieceMoves
<1> QED BY <1>5, <1>6, <1>7, <1>8, <1>9 DEF IInv

\* So does a refused piece, even when it landed.
LEMMA RefuseStep ==
  ASSUME IInv, Refuse
  PROVE  IInv'
<1>0. TypeOK /\ LoopInv /\ ReadContiguous /\ WriteExact /\ EveryPieceMoves
  BY DEF IInv
<1>1. /\ status = "run" /\ asked' = asked + 1
      /\ UNCHANGED <<method, start, want, data, reported, before, bsize, off, out, cut>>
  BY DEF Refuse, request
<1>2. Ask \in Int /\ Ask >= 1 /\ Ask' = Ask
  BY <1>0, <1>1, AskBounds DEF Ask, Least
<1>3. want \in Nat /\ off \in Nat /\ asked \in Nat
  BY <1>0 DEF TypeOK
<1>4. CASE method \in Writers
  <2>1. PICK k \in 0..Ask : Store(k)
    BY <1>4 DEF Refuse, Writers
  <2>2. status' = "err" /\ short' = short /\ method # "ReadFile" /\ method \notin Readers
    BY <1>4 DEF Refuse, Writers, Readers
  <2>3. k \in Nat /\ k <= Ask
    BY <1>2, <2>1
  <2>4. size' \in Nat /\ file' \in [1..size' -> Bytes]
    BY <1>0, <1>4, <2>1, <2>3, StoreType
  <2>5. TypeOK'
    <3>1. asked' \in Nat /\ status' \in {"idle", "run", "ok", "err"}
      BY <1>1, <1>3, <2>2
    <3> QED BY <1>0, <1>1, <2>2, <2>4, <3>1 DEF TypeOK
  <2>6. LoopInv' /\ ReadContiguous' /\ ReadComplete'
    BY <1>0, <1>1, <2>2 DEF LoopInv, ReadContiguous, ReadComplete
  <2>7. WriteExact'
    <3>1. SUFFICES ASSUME ~cut PROVE WriteExact'
      BY <1>1, <2>2 DEF WriteExact
    <3>2. /\ size = IF off = 0 THEN bsize ELSE Most(bsize, start + off)
          /\ \A i \in 1..size : file[i] = Written(i, off)
      BY <1>0, <1>1, <1>3, <1>4, <3>1 DEF WriteExact
    <3>3. /\ size' = IF off + k = 0 THEN bsize ELSE Most(bsize, start + off + k)
          /\ \A i \in 1..size' : file'[i] = Written(i, off + k)
      BY <1>0, <1>4, <2>1, <2>3, <3>2, StoreWritten
    <3> DEFINE n == off + k
    <3>4. n \in off..off + Ask /\ start + off + k = start + n
      BY <1>0, <1>2, <1>3, <2>3 DEF TypeOK
    <3>5. /\ size' = IF n = 0 THEN bsize ELSE Most(bsize, start + n)
          /\ \A i \in 1..size' : file'[i] = Written(i, n)
      BY <3>3, <3>4
    <3> HIDE DEF n
    <3>6. \A i \in 1..size' :
            file'[i] = (IF start' < i /\ i <= start' + n THEN data'[i - start']
                        ELSE IF i <= bsize' THEN before'[i] ELSE Zero)
      BY <1>1, <3>5 DEF Written
    <3> QED BY <1>1, <1>2, <2>2, <3>4, <3>5, <3>6 DEF WriteExact, Written
  <2>8. EveryPieceMoves'
    BY <1>0, <1>1, <1>3, <2>2 DEF EveryPieceMoves
  <2> QED BY <2>5, <2>6, <2>7, <2>8 DEF IInv
<1>5. CASE method \notin Writers
  <2>1. /\ size' = size /\ file' = file
        /\ \/ status' = "err" /\ short' = short
           \/ status' = "ok" /\ short' = TRUE /\ method = "ReadMemory"
    BY <1>5 DEF Refuse
  <2>2. TypeOK'
    <3>1. asked' \in Nat /\ status' \in {"idle", "run", "ok", "err"}
      BY <1>1, <1>3, <2>1
    <3>2. short' \in BOOLEAN
      BY <1>0, <2>1, Zenon DEF TypeOK
    <3> QED BY <1>0, <1>1, <2>1, <3>1, <3>2 DEF TypeOK
  <2>3. LoopInv' /\ ReadContiguous'
    BY <1>0, <1>1, <2>1 DEF LoopInv, ReadContiguous
  <2>4. ReadComplete'
    BY <1>1, <2>1 DEF ReadComplete
  <2>5. WriteExact'
    BY <1>1, <1>5 DEF WriteExact
  <2>6. EveryPieceMoves'
    BY <1>0, <1>1, <1>3, <2>1 DEF EveryPieceMoves
  <2> QED BY <2>2, <2>3, <2>4, <2>5, <2>6 DEF IInv
<1> QED BY <1>4, <1>5

\* So does another process that appends to the file or cuts it short.
LEMMA ChangesStep ==
  ASSUME IInv, Changes
  PROVE  IInv'
<1>0. TypeOK /\ LoopInv /\ ReadContiguous /\ WriteExact /\ EveryPieceMoves
  BY DEF IInv
<1>1. /\ status = "run" /\ status' = "run"
      /\ UNCHANGED <<method, start, want, data, reported, before, bsize, off, asked, out, short>>
  BY DEF Changes, request
<1>2. LoopInv' => (ReadComplete' /\ EveryPieceMoves')
  BY <1>0, <1>1 DEF ReadComplete, EveryPieceMoves
<1>3. CASE /\ size' = size + 1 /\ method \in Readers /\ cut' = cut
           /\ \E b \in Bytes : file' = [i \in 1..size' |-> IF i <= size THEN file[i] ELSE b]
  <2>1. PICK b \in Bytes : file' = [i \in 1..size' |-> IF i <= size THEN file[i] ELSE b]
    BY <1>3
  <2>2. size' \in Nat /\ size \in Nat /\ start \in Nat /\ off \in Nat
    BY <1>0, <1>3 DEF TypeOK
  <2>3. file' \in [1..size' -> Bytes]
    BY <1>0, <1>3, <2>1, <2>2 DEF TypeOK
  <2>4. TypeOK'
    BY <1>0, <1>1, <1>3, <2>2, <2>3 DEF TypeOK
  <2>5. LoopInv'
    BY <1>0, <1>1, <1>3, <2>2 DEF LoopInv, TypeOK
  <2>6. ReadContiguous'
    BY <1>0, <1>1, <1>3, <2>1, <2>2 DEF ReadContiguous
  <2>7. WriteExact'
    BY <1>1, <1>3 DEF WriteExact, Readers, Writers
  <2> QED BY <1>2, <2>4, <2>5, <2>6, <2>7 DEF IInv
<1>4. CASE /\ size > 0 /\ size' = size - 1 /\ cut' = TRUE
           /\ file' = [i \in 1..size' |-> file[i]]
  <2>1. size' \in Nat
    BY <1>0, <1>4 DEF TypeOK
  <2>2. file' \in [1..size' -> Bytes]
    BY <1>0, <1>4, <2>1 DEF TypeOK
  <2>3. TypeOK'
    BY <1>0, <1>1, <1>4, <2>1, <2>2, SMTT(30) DEF TypeOK
  <2>4. LoopInv' /\ ReadContiguous' /\ WriteExact'
    BY <1>0, <1>1, <1>4 DEF LoopInv, ReadContiguous, WriteExact
  <2> QED BY <1>2, <2>3, <2>4 DEF IInv
<1> QED BY <1>3, <1>4, Zenon DEF Changes

\* So does the return of the call.
LEMMA FinishStep ==
  ASSUME IInv, Finish
  PROVE  IInv'
<1>1. /\ status' = "idle" /\ method' = "ReadFile" /\ method' \in Readers /\ method' \notin Writers
      /\ start' = 0 /\ want' = 0 /\ reported' = 0 /\ off' = 0 /\ asked' = 0
      /\ data' = [i \in 1..0 |-> Zero] /\ out' = data'
      /\ before' = file /\ bsize' = size /\ size' = size /\ file' = file
      /\ short' = FALSE /\ cut' = FALSE
      /\ (IF method' \in Readers THEN off' ELSE 0) = 0
      /\ (IF method' \in Writers THEN want' ELSE 0) = 0
  BY DEF Finish, Readers, Writers
<1>2. size \in Nat /\ file \in [1..size -> Bytes]
  BY DEF IInv, TypeOK
<1>3. data' \in [1..0 -> Bytes]
  BY <1>1, TransferAssumption
<1>4. TypeOK'
  BY <1>1, <1>2, <1>3, Zenon DEF TypeOK
<1>5. LoopInv' /\ ReadContiguous' /\ ReadComplete' /\ WriteExact' /\ EveryPieceMoves'
  BY <1>1, <1>2 DEF LoopInv, ReadContiguous, ReadComplete, WriteExact, EveryPieceMoves
<1> QED BY <1>4, <1>5 DEF IInv

\* Every step carries the invariant on.
LEMMA NextStep == IInv /\ [Next]_vars => IInv'
<1> SUFFICES ASSUME IInv, [Next]_vars PROVE IInv'
  OBVIOUS
<1>1. ASSUME NEW m \in Readers \cup Writers, NEW s \in 0..MaxSize, NEW n \in 0..(MaxSize - s),
             Begin(m, s, n)
      PROVE  IInv'
  BY <1>1, BeginStep, TransferAssumption DEF IInv
<1>2. CASE Step
  <2>1. Left \in Nat /\ Ask \in Int
    BY LeftNat, AskBounds DEF IInv
  <2> QED BY <1>2, <2>1, ReadStep, WriteStep, RefuseStep DEF Step
<1>3. CASE UNCHANGED vars
  BY <1>3 DEF vars, request, IInv, TypeOK, LoopInv, ReadContiguous, ReadComplete, WriteExact,
     EveryPieceMoves, Written, Ask
<1> QED BY <1>1, <1>2, <1>3, ChangesStep, FinishStep DEF Next

-----------------------------------------------------------------------------
\* The invariant holds in every reachable state, whatever the chunk sizes.
THEOREM Invariance == Spec => []IInv
  BY InitInv, NextStep, PTL DEF Spec

\* What a read has collected is the file from the offset on, at every moment
\* (the offsets of the readAt and memrd loops).
THEOREM ReadsAreContiguous == Spec => []ReadContiguous
<1>1. IInv => ReadContiguous
  BY DEF IInv
<1> QED BY <1>1, Invariance, PTL

\* A read that reports success is complete (the exits of the readAt loops).
THEOREM ReadsAreComplete == Spec => []ReadComplete
<1>1. IInv => ReadComplete
  BY DEF IInv
<1> QED BY <1>1, Invariance, PTL

\* Writes change the bytes they count, and no others (writeAt and memwr loops).
THEOREM WritesAreFaithful == Spec => []WriteExact
<1>1. IInv => WriteExact
  BY DEF IInv
<1> QED BY <1>1, Invariance, PTL

\* Every piece moves its loop on or ends it (the exits of the loops).
THEOREM LoopsAdvance == Spec => []EveryPieceMoves
<1>1. IInv => EveryPieceMoves
  BY DEF IInv
<1> QED BY <1>1, Invariance, PTL
=============================================================================
