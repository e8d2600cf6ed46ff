---------------------------- MODULE MCRspClient ----------------------------
(***************************************************************************)
(* RspClient for TLC, and the codec its packets rest on.  The property     *)
(* of the codec is about operators only, over bounded payloads; it is      *)
(* evaluated in the initial state.                                         *)
(***************************************************************************)
EXTENDS RspClient, RspCodec

\* What SendPacket frames, ReadPacket and the stub's rspRead read back, and the
\* memory contents of M and m packets survive their digits, of which none can be
\* missing.
RoundTrip ==
  \A p \in Payloads :
    /\ ReadPacket(frame(p)).ok
    /\ ReadPacket(frame(p)).payload = p
    /\ rspDecode(ReadPacket(frame(p)).raw) = p
    /\ hexDecode(hexEncode(p)) = [ok |-> TRUE, bytes |-> p]
    /\ p # <<>> => ~hexDecode(Tail(hexEncode(p))).ok

\* A run stands for its byte and the repeats, whatever precedes it, an escaped
\* byte included.
RunsExpand ==
  \A p \in BoundedSeq(SomeBytes, 2) \ {<<>>}, n \in 3..16 :
    n + 29 \notin {Hash, Dollar} =>
      decode(escape(p) \o <<Star, n + 29>>) = p \o [k \in 1..n |-> Last(p)]

\* One damaged byte of a body is noticed, and one of the checksum's digits is, or
\* is read as the same digit.  Where the damage makes a '#' the packet ends there,
\* and the digits read after it may agree, since fromHex takes any other character
\* for a zero: what is accepted then is the payload cut short.  Damage to the '#'
\* itself is left out: the packet then ends in one that follows.
DamageNoticed ==
  \A p \in BoundedSeq(SomeBytes, 2) :
    LET w == frame(p)
        h == Len(w) - 2 IN
    \A i \in 2..Len(w) \ {h} : \A b \in SomeBytes \ {w[i]} :
      LET got == ReadPacket([w EXCEPT ![i] = b])
      IN got.ok => \/ i > h /\ got.payload = p
                   \/ i < h /\ b = Hash /\ IsPrefix(got.payload, p)

\* Packets carry their payload: it comes back as it went in, runs are expanded
\* to what they stand for, and of a packet with a damaged byte, other than its '#',
\* nothing but a beginning of the payload is ever accepted (escape, decode, checksum
\* and ReadPacket, rsp.go).
PacketsFaithful == Init => RoundTrip /\ RunsExpand /\ DamageNoticed
=============================================================================
