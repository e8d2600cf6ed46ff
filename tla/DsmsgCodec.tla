----------------------------- MODULE DsmsgCodec -----------------------------
(***************************************************************************)
(* The bytes of the pdebug protocol: internal/qnxdbg/protocol.go, the      *)
(* checked reading of one frame in Client.readFrame, and the FrameScanner  *)
(* of decode.go that the dsmsg-proxy feeds with whatever a read returned.  *)
(***************************************************************************)
EXTENDS Integers, Sequences

frameChar == 126
escChar   == 125

\* c ^ escXor
Xor(c) == IF (c \div 32) % 2 = 1 THEN c - 32 ELSE c + 32

checksum(b) ==
  LET sum[i \in 0..Len(b)] == IF i = 0 THEN 0 ELSE (sum[i - 1] + b[i]) % 256
  IN 255 - sum[Len(b)]

\* The sequences of ss one after the other, as a loop appends them.
Chain(ss) ==
  LET c[i \in 0..Len(ss)] == IF i = 0 THEN <<>> ELSE c[i - 1] \o ss[i]
  IN c[Len(ss)]

escape(b) ==
  Chain([i \in DOMAIN b |->
    IF b[i] \in {frameChar, escChar} THEN <<escChar, Xor(b[i])>> ELSE <<b[i]>>])

\* Variant of unescape: every escape byte is dropped.
unescapeDrops(b) == SelectSeq(b, LAMBDA c : c # escChar)

\* An escape byte at the very end stands for itself.
unescape(b) ==
  LET u[i \in 0..Len(b)] ==
        IF i = 0 THEN [out |-> <<>>, esc |-> FALSE]
        ELSE LET v == u[i - 1] IN
             IF v.esc THEN [out |-> Append(v.out, Xor(b[i])), esc |-> FALSE]
             ELSE IF b[i] = escChar /\ i < Len(b) THEN [out |-> v.out, esc |-> TRUE]
             ELSE [out |-> Append(v.out, b[i]), esc |-> FALSE]
  IN u[Len(b)].out

frame(p) ==
  <<frameChar>> \o escape(p) \o escape(<<checksum(p)>>) \o <<frameChar>>

\* The first index from i on at which w has (is = TRUE) or has not a delimiter.
Find(w, i, is) ==
  LET at == {j \in i..Len(w) : (w[j] = frameChar) = is} IN
  IF at = {} THEN Len(w) + 1 ELSE CHOOSE j \in at : \A k \in at : j <= k

\* An unescaped frame is a payload and the checksum byte behind it.
Body(dec) == SubSeq(dec, 1, Len(dec) - 1)
Check(dec) == dec[Len(dec)]

\* Client.readFrame on a stream that holds a whole frame: payload or error, and
\* what is left.
readFrame(w) ==
  LET i == Find(w, 1, FALSE)
      j == Find(w, i, TRUE)
      dec == unescape(SubSeq(w, i, j - 1))
  IN [ok |-> checksum(Body(dec)) = Check(dec), payload |-> Body(dec),
      rest |-> SubSeq(w, j + 1, Len(w))]

\* Variant of Feed: a frame that is not complete yet is dropped.
FeedDropsPartial(w) ==
  LET scan[i \in 1..Len(w) + 1] ==
        LET a == Find(w, i, FALSE)
            z == Find(w, a, TRUE)
        IN IF z > Len(w) THEN [buf |-> <<>>, raws |-> <<>>]
           ELSE [scan[z] EXCEPT !.raws = <<SubSeq(w, a, z - 1)>> \o @]
  IN scan[1]

\* FrameScanner.Feed, on what was kept and the new bytes: the contents of the
\* frames that are complete, and what is kept for the next call.
Feed(w) ==
  LET scan[i \in 1..Len(w) + 1] ==
        LET a == Find(w, i, FALSE)
            z == Find(w, a, TRUE)
        IN IF z > Len(w) THEN [buf |-> SubSeq(w, a, Len(w)), raws |-> <<>>]
           ELSE [scan[z] EXCEPT !.raws = <<SubSeq(w, a, z - 1)>> \o @]
  IN scan[1]

\* The payload Feed returns with a frame: the checksum is cut off, not compared.
payload(raw) == Body(unescape(raw))
=============================================================================
