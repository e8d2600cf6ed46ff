--------------------------- MODULE MCTracingProxy ---------------------------
(***************************************************************************)
(* TracingProxy for TLC.  The client's payload is a byte whose checksum is *)
(* the delimiter, the target's is empty.                                   *)
(***************************************************************************)
EXTENDS TracingProxy, SequencesExt

MCPayloads == [client |-> {<<129>>}, target |-> {<<>>}]
MCMaxFrames == [client |-> 2, target |-> 1]

\* The two special bytes, what they become, and bytes with such a checksum.
SomePayloads == BoundedSeq({126, 125, 94, 93, 129, 130, 0}, 2)

\* What writeFrame sends, readFrame reads back, its checksum intact, also when
\* frames follow each other without a gap (protocol.go, Client.readFrame).  It
\* is about operators only and is evaluated in the initial state.
FrameRoundTrip ==
  Init => \A p, q \in SomePayloads :
            LET one == readFrame(frame(p) \o frame(q))
                two == readFrame(one.rest)
            IN /\ one.ok /\ one.payload = p
               /\ two.ok /\ two.payload = q
=============================================================================
