------------------------------ MODULE RspCodec ------------------------------
(***************************************************************************)
(* The bytes of the GDB remote serial protocol: escaping, run lengths, the *)
(* checksum and the hexadecimal digits of internal/debug/rsp.go, and the   *)
(* stub's own reading of them in internal/mockqnx/rsp.go.  Bytes are the   *)
(* numbers 0..255.                                                         *)
(***************************************************************************)
EXTENDS Integers, SequencesExt

Dollar == 36
Hash   == 35
Brace  == 125
Star   == 42

\* b ^ 0x20
Flip(b) == IF (b \div 32) % 2 = 1 THEN b - 32 ELSE b + 32

checksum(p) == FoldLeft(LAMBDA s, b : (s + b) % 256, 0, p)

escape(p) ==
  FlattenSeq([i \in DOMAIN p |->
    IF p[i] \in {Dollar, Hash, Brace, Star} THEN <<Brace, Flip(p[i])>> ELSE <<p[i]>>])

\* Variant of repeats: the byte before the run is counted again.
repeatsAll(c) == c - 28

\* How often a run repeats the byte before it.
repeats(c) == c - 29

\* Escapes and run lengths are undone from left to right; an escape or a run
\* without its second byte, and a run of nothing, are dropped.
decode(p) ==
  LET d[i \in 0..Len(p)] ==
        IF i = 0 THEN [out |-> <<>>, mode |-> "byte"]
        ELSE LET q == d[i - 1] IN
             IF q.mode = "esc" THEN [out |-> Append(q.out, Flip(p[i])), mode |-> "byte"]
             ELSE IF q.mode = "run"
                  THEN [out |-> q.out \o [k \in 1..repeats(p[i]) |-> Last(q.out)], mode |-> "byte"]
             ELSE IF p[i] = Brace /\ i < Len(p) THEN [out |-> q.out, mode |-> "esc"]
             ELSE IF p[i] = Star /\ i < Len(p) /\ q.out # <<>>
                  THEN [out |-> q.out, mode |-> "run"]
             ELSE IF p[i] \in {Brace, Star} THEN q
             ELSE [out |-> Append(q.out, p[i]), mode |-> "byte"]
  IN d[Len(p)].out

\* The stub knows no run lengths and keeps a lone escape.
rspDecode(p) ==
  LET d[i \in 0..Len(p)] ==
        IF i = 0 THEN [out |-> <<>>, esc |-> FALSE]
        ELSE LET q == d[i - 1] IN
             IF q.esc THEN [out |-> Append(q.out, Flip(p[i])), esc |-> FALSE]
             ELSE IF p[i] = Brace /\ i < Len(p) THEN [out |-> q.out, esc |-> TRUE]
             ELSE [out |-> Append(q.out, p[i]), esc |-> FALSE]
  IN d[Len(p)].out

hexdigit(n) == IF n < 10 THEN 48 + n ELSE 87 + n
hexByte(b)  == <<hexdigit(b \div 16), hexdigit(b % 16)>>

fromHex(c) == CASE c \in 48..57  -> c - 48
                [] c \in 97..102 -> c - 87
                [] c \in 65..70  -> c - 55
                [] OTHER         -> 0

hexEncode(b) == FlattenSeq([i \in DOMAIN b |-> hexByte(b[i])])

\* An odd number of digits is an error.
hexDecode(s) ==
  [ok    |-> Len(s) % 2 = 0,
   bytes |-> IF Len(s) % 2 # 0 THEN <<>>
             ELSE [i \in 1..(Len(s) \div 2) |-> fromHex(s[2 * i - 1]) * 16 + fromHex(s[2 * i])]]

\* SendPacket's frame, and ReadPacket from the packet start: payload or error.
frame(p) == LET body == escape(p) IN
  <<Dollar>> \o body \o <<Hash>> \o hexByte(checksum(body))

ReadPacket(w) ==
  LET h   == SelectInSeq(w, LAMBDA b : b = Hash)
      raw == SubSeq(w, 2, h - 1)
      want == fromHex(w[h + 1]) * 16 + fromHex(w[h + 2])
  IN [ok |-> checksum(raw) = want, raw |-> raw, payload |-> decode(raw)]

-----------------------------------------------------------------------------
(* Bounded inputs *)

\* The special bytes, what they become when escaped, and others.
SomeBytes == {Dollar, Hash, Brace, Star, 4, 3, 93, 10, 43, 48, 97, 255}
Payloads  == BoundedSeq(SomeBytes, 3)
=============================================================================
