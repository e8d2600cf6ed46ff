------------------------------ MODULE RspClient ------------------------------
(***************************************************************************)
(* A debug session over the GDB remote serial protocol: Session and RSP of *)
(* internal/debug, and the stub at the other end (internal/mockqnx/rsp.go, *)
(* plus the refusals, the pace and the damaged packets of a real one).     *)
(*                                                                         *)
(* The stream to the client is a sequence of marks: the bytes `+' and `-', *)
(* the `$' that opens a packet and the `#' and checksum that close it.     *)
(* Acknowledgements and the signs that happen to be in a payload (feature  *)
(* lists, run-length counts) are the same bytes; `in' tells them apart     *)
(* and the client cannot see it.  The `+' the client sends after a packet  *)
(* is left out, the stub passes over it.  `stray', `done', `twice' and     *)
(* `faults' are history.                                                   *)
(***************************************************************************)
EXTENDS Naturals, Sequences

CONSTANTS Plain,      \* commands of the one-command methods
          MaxTries,   \* transmissions of one packet (5 in the code)
          MaxSent,    \* bound: no method and no further question after this many
          MaxMishaps  \* bound: packets damaged, deadlines missed, connections lost

ASSUME RspAssumption ==
  /\ Plain \subseteq {"?", "c", "s", "g", "m", "M", "Z", "z"}
  /\ MaxTries \in Nat \ {0}
  /\ MaxSent \in Nat
  /\ MaxMishaps \in Nat

VARIABLES
  conn,     \* "up", or "down" after EOF, reset or Close
  stage,    \* what the client is blocked on
  op,       \* the running method
  cmd,      \* the command it waits for
  tries,    \* transmissions of that command
  sent,     \* commands sent; the last one has this number
  noAck,    \* RSP.noAck
  pid,      \* Session.pid is set
  toD,      \* frames and NAKs not read by the stub
  toC,      \* marks not read by the client
  pending,  \* the command the stub has acknowledged and not answered, or None
  last,     \* the answer that was damaged, for retransmission
  attached, \* the stub has a process
  mishaps,  \* how many so far
  done,     \* the last command the stub has carried out
  twice,    \* it has carried one out again
  stray,    \* a method has used an answer that was not its own
  faults    \* what made the client stop waiting, or wait wrongly

clientVars == <<stage, op, cmd, tries, sent, noAck, pid, stray>>
stubVars   == <<pending, last, attached, done, twice>>
vars == <<conn, clientVars, toD, toC, stubVars, mishaps, faults>>

-----------------------------------------------------------------------------
(* Vocabulary *)

\* The first command of each method; a one-command method is named after it.
First(o) == CASE o = "new"     -> "qSupported"
              [] o = "attach"  -> "vAttach"
              [] o = "threads" -> "qfThreadInfo"
              [] o = "noack"   -> "QStartNoAckMode"
              [] o \in {"detach", "close"} -> "D"
              [] o = "kill"    -> "k"
              [] OTHER         -> o

Ops == {"attach", "threads", "noack", "detach", "close", "kill"} \cup Plain
Minded == {"vAttach", "D", "QStartNoAckMode", "qfThreadInfo", "qsThreadInfo"}
Waiting == {"ack", "start", "body"}
None == [n |-> 0, cmd |-> "none"]
Nak  == [n |-> 0, cmd |-> "nak"]

Byte(b, in) == [b |-> b, in |-> in]
End(a, good) == [b |-> "#", in |-> TRUE, re |-> a.re, rc |-> a.rc, good |-> good]

\* Signs that may occur in the payload of an answer.
Signs == {<<>>, <<"+">>, <<"-">>}

Packet(a, good) ==
  <<Byte("$", TRUE)>>
    \o [i \in 1..Len(a.signs) |-> Byte(a.signs[i], TRUE)]
    \o <<End(a, good)>>

-----------------------------------------------------------------------------
(* The client *)

\* A write on a dead connection is reported by the read that follows.
Write(xs) == toD' = IF conn = "up" THEN toD \o xs ELSE toD

\* Variant of Issue: SendPacket does not wait for the acknowledgement.
IssueUnacknowledged(c, before) ==
  /\ sent' = sent + 1
  /\ cmd' = c
  /\ tries' = 1
  /\ stage' = IF c = "k" THEN "idle" ELSE "start"
  /\ Write(Append(before, [n |-> sent + 1, cmd |-> c]))
  /\ UNCHANGED conn

\* SendPacket: the frame is written, after a NAK if one is due; without
\* acknowledgements the answer is awaited at once, and KillInferior returns.
Issue(c, before) ==
  /\ sent' = sent + 1
  /\ cmd' = c
  /\ tries' = 1
  /\ stage' = IF ~noAck THEN "ack" ELSE IF c = "k" THEN "idle" ELSE "start"
  /\ Write(Append(before, [n |-> sent + 1, cmd |-> c]))
  /\ UNCHANGED conn

Return(before) ==
  /\ stage' = "idle"
  /\ Write(before)
  /\ cmd' = "none" /\ tries' = 0
  /\ UNCHANGED <<conn, sent>>

\* Session.Close closes the connection; the stub may still read what was sent.
Hangup ==
  /\ stage' = "closed"
  /\ conn' = "down"
  /\ cmd' = "none" /\ tries' = 0
  /\ UNCHANGED <<toD, sent>>

\* The client reads on from rest, unless it has closed the connection.
Reads(rest) == toC' = IF stage' = "closed" THEN <<>> ELSE rest

\* NewSession, once, then the methods in any order.  Close says D only when a
\* process is attached.
Begin(o) ==
  /\ stage = IF o = "new" THEN "fresh" ELSE "idle"
  /\ sent < MaxSent
  /\ op' = o
  /\ IF o = "close" /\ ~pid THEN Hangup ELSE Issue(First(o), <<>>)
  /\ Reads(toC)
  /\ UNCHANGED <<noAck, pid, stray, stubVars, mishaps, faults>>

\* A command ends in an error.  NewSession and Close do not mind, Attach goes
\* on after Hg, and Manager.Attach closes the session it could not attach.
Fail(before) ==
  CASE op = "close"                -> Hangup
    [] op = "attach" /\ cmd = "Hg" -> Issue("?", before)
    [] op = "attach" /\ cmd # "Hg" -> Hangup
    [] OTHER                       -> Return(before)

\* Variant of PidAfter: only the fallback of Attach records the process.
PidAfterFallback(rc) ==
  IF op = "attach" THEN pid \/ cmd = "?" ELSE pid /\ op # "detach"

\* Session.pid: set by Attach, in the fallback whatever the stub says, and
\* cleared by Detach even when the stub refuses.
PidAfter(rc) ==
  IF op = "attach" THEN pid \/ cmd = "?" \/ (cmd = "vAttach" /\ rc = "ok")
                   ELSE pid /\ op # "detach"

\* RSP.noAck: set by EnableNoAck once the stub agrees.
NoAckAfter(rc) == noAck \/ (op = "noack" /\ rc = "ok")

\* What the method does with the answer to its command.
Answered(rc) ==
  /\ CASE op = "close" -> Hangup
       [] op = "attach" /\ cmd = "vAttach" /\ rc = "err" -> Issue("Hg", <<>>)
       [] op = "attach" /\ cmd = "Hg" -> Issue("?", <<>>)
       [] op = "threads" /\ rc = "ok" -> Issue("qsThreadInfo", <<>>)
       [] OTHER -> Return(<<>>)
  /\ pid' = PidAfter(rc)
  /\ noAck' = NoAckAfter(rc)

\* Variant of MoreTries: the frame is sent once too often.
OneMoreTry == tries <= MaxTries

\* SendPacket's loop has transmissions left.
MoreTries == tries < MaxTries

\* Variant of PassedOver: readAck takes every byte for an answer.
PassedOverNone(b) == FALSE

\* The bytes readAck skips: all but the two signs.
PassedOver(b) == b \notin {"+", "-"}

\* readAck: `+' ends SendPacket, `-' sends the frame again, MaxTries times in
\* all.  A sign inside a late packet is taken for an acknowledgement.
ReadAck ==
  /\ stage = "ack"
  /\ toC # <<>>
  /\ LET m == Head(toC) IN
     /\ \/ /\ PassedOver(m.b)
           /\ UNCHANGED <<conn, toD, stage, cmd, tries, sent>>
        \/ /\ ~PassedOver(m.b) /\ m.b = "+" /\ cmd = "k"
           /\ Return(<<>>)
        \/ /\ ~PassedOver(m.b) /\ m.b = "+" /\ cmd # "k"
           /\ stage' = "start"
           /\ UNCHANGED <<conn, toD, cmd, tries, sent>>
        \/ /\ ~PassedOver(m.b) /\ m.b # "+" /\ MoreTries
           /\ tries' = tries + 1
           /\ Write(<<[n |-> sent, cmd |-> cmd]>>)
           /\ UNCHANGED <<conn, stage, cmd, sent>>
        \/ /\ ~PassedOver(m.b) /\ m.b # "+" /\ ~MoreTries
           /\ Fail(<<>>)
     /\ faults' = IF m.b \in {"+", "-"} /\ m.in THEN faults \cup {"sign"} ELSE faults
  /\ Reads(Tail(toC))
  /\ UNCHANGED <<op, noAck, pid, stray, stubVars, mishaps>>

\* ReadPacket: everything before a packet start is passed over.
ReadStart ==
  /\ stage = "start"
  /\ toC # <<>>
  /\ stage' = IF Head(toC).b = "$" THEN "body" ELSE "start"
  /\ Reads(Tail(toC))
  /\ UNCHANGED <<conn, op, cmd, tries, sent, noAck, pid, stray, toD, stubVars,
                 mishaps, faults>>

\* The payload up to `#'.  A bad checksum is an error, after a NAK; the packet
\* the stub sends again is left to whoever reads next.
ReadBody ==
  /\ stage = "body"
  /\ toC # <<>>
  /\ LET m == Head(toC) IN
     \/ /\ m.b # "#"
        /\ UNCHANGED <<conn, toD, clientVars>>
     \/ /\ m.b = "#" /\ m.good
        /\ stray' = (stray \/ m.re # sent)
        /\ Answered(m.rc)
        /\ UNCHANGED op
     \/ /\ m.b = "#" /\ ~m.good
        /\ Fail(IF noAck THEN <<>> ELSE <<Nak>>)
        /\ UNCHANGED <<op, noAck, pid, stray>>
  /\ Reads(Tail(toC))
  /\ UNCHANGED <<stubVars, mishaps, faults>>

\* A deadline passes; what was on its way arrives later.
Timeout ==
  /\ stage \in Waiting
  /\ mishaps < MaxMishaps
  /\ mishaps' = mishaps + 1
  /\ Fail(<<>>)
  /\ Reads(toC)
  /\ faults' = faults \cup {IF stage = "ack" THEN "ack"
                            ELSE IF noAck THEN "unacked" ELSE "reply"}
  /\ UNCHANGED <<op, noAck, pid, stray, stubVars>>

\* The connection is gone and what it had delivered is read.
ReadFails ==
  /\ stage \in Waiting
  /\ conn = "down"
  /\ toC = <<>>
  /\ Fail(<<>>)
  /\ UNCHANGED <<op, noAck, pid, stray, toC, stubVars, mishaps, faults>>

-----------------------------------------------------------------------------
(* The stub *)

Emit(marks) == toC' = IF conn = "up" THEN toC \o marks ELSE toC

\* A frame is acknowledged before it is carried out; a damaged one is refused.
StubReads ==
  /\ toD # <<>> /\ Head(toD) # Nak
  /\ pending = None
  /\ toD' = Tail(toD)
  /\ \/ /\ pending' = Head(toD)
        /\ Emit(<<Byte("+", FALSE)>>)
        /\ UNCHANGED mishaps
     \/ /\ mishaps < MaxMishaps
        /\ mishaps' = mishaps + 1
        /\ Emit(<<Byte("-", FALSE)>>)
        /\ UNCHANGED pending
  /\ UNCHANGED <<conn, clientVars, last, attached, done, twice, faults>>

\* A NAK makes a real stub send its last answer again; the mock ignores it.
StubNaked(again) ==
  /\ toD # <<>> /\ Head(toD) = Nak
  /\ pending = None
  /\ toD' = Tail(toD)
  /\ Emit(IF again THEN Packet(last, TRUE) ELSE <<>>)
  /\ UNCHANGED <<conn, clientVars, stubVars, mishaps, faults>>

CarryOut ==
  /\ pending' = None
  /\ done' = pending.n
  /\ twice' = (twice \/ pending.n <= done)

\* The command is carried out, or refused where the client minds, and answered;
\* "err" also ends a list of threads, as the stub does at the bound.
StubReplies(rc, signs, good) ==
  /\ pending # None /\ pending.cmd # "k"
  /\ rc = "err" => pending.cmd \in Minded
  /\ rc = "ok" => ~(pending.cmd \in {"qfThreadInfo", "qsThreadInfo"} /\ sent >= MaxSent)
  /\ good \/ mishaps < MaxMishaps
  /\ CarryOut
  /\ LET a == [re |-> pending.n, rc |-> rc, signs |-> signs] IN
     /\ Emit(Packet(a, good))
     /\ last' = IF good THEN last ELSE a
  /\ mishaps' = IF good THEN mishaps ELSE mishaps + 1
  /\ attached' = CASE pending.cmd = "vAttach" /\ rc = "ok" -> TRUE
                   [] pending.cmd = "D" /\ rc = "ok" -> FALSE
                   [] OTHER -> attached
  /\ faults' = IF pending.cmd = "D" /\ rc = "err" THEN faults \cup {"refused"}
               ELSE faults
  /\ UNCHANGED <<conn, clientVars, toD>>

\* `k' ends the process and the connection, without an answer.
StubKills ==
  /\ pending # None /\ pending.cmd = "k"
  /\ CarryOut
  /\ attached' = FALSE
  /\ conn' = "down"
  /\ toD' = <<>>
  /\ UNCHANGED <<clientVars, toC, last, mishaps, faults>>

\* The connection breaks: some of what was on its way still arrives.
Drop ==
  /\ conn = "up"
  /\ mishaps < MaxMishaps
  /\ mishaps' = mishaps + 1
  /\ conn' = "down"
  /\ \E k \in 0..Len(toC) : toC' = SubSeq(toC, 1, k)
  /\ toD' = <<>>
  /\ faults' = faults \cup {"drop"}
  /\ UNCHANGED <<clientVars, stubVars>>

-----------------------------------------------------------------------------
(* The specification *)

Init ==
  /\ conn = "up"
  /\ stage = "fresh"
  /\ op = "new" /\ cmd = "none" /\ tries = 0 /\ sent = 0
  /\ noAck = FALSE /\ pid = FALSE
  /\ toD = <<>> /\ toC = <<>>
  /\ pending = None
  /\ last = [re |-> 0, rc |-> "ok", signs |-> <<>>]
  /\ attached = FALSE
  /\ mishaps = 0
  /\ done = 0 /\ twice = FALSE
  /\ stray = FALSE
  /\ faults = {}

Call == \E o \in Ops \cup {"new"} : Begin(o)

Client == ReadAck \/ ReadStart \/ ReadBody \/ Timeout \/ ReadFails

Stub ==
  \/ StubReads
  \/ \E again \in BOOLEAN : StubNaked(again)
  \/ \E rc \in {"ok", "err"}, signs \in Signs, good \in BOOLEAN :
       StubReplies(rc, signs, good)
  \/ StubKills

Next == Call \/ Client \/ Stub \/ Drop

Spec == Init /\ [][Next]_vars

-----------------------------------------------------------------------------
(* Properties *)

\* Whatever is on its way belongs to a command that was sent, and no packet is
\* transmitted more often than SendPacket allows.
TypeOK ==
  /\ conn \in {"up", "down"}
  /\ stage \in {"fresh", "idle", "closed"} \cup Waiting
  /\ op \in Ops \cup {"new"}
  /\ tries \in 0..MaxTries
  /\ sent \in Nat
  /\ mishaps \in 0..MaxMishaps
  /\ done \in 0..sent
  /\ pending.n \in 0..sent
  /\ \A i \in 1..Len(toD) : toD[i].n \in 0..sent
  /\ \A i \in 1..Len(toC) : toC[i].b = "#" => toC[i].re \in 1..sent
  /\ faults \subseteq {"ack", "reply", "unacked", "sign", "refused", "drop"}

\* The stream can still be trusted: no wait was abandoned before the
\* acknowledgement or in no-acknowledgement mode, and no sign inside a packet
\* was taken for one.  Abandoned answers and damaged packets are allowed.
Trust == faults \cap {"ack", "unacked", "sign"} = {}

\* An answer a method uses is the answer to the command it sent: a late answer
\* and a retransmitted packet are passed over by the next readAck
\* (RSP.Command, rsp.go).
OwnReply == Trust => ~stray

\* No command is carried out twice, though SendPacket sends its frame again
\* after every NAK (rsp.go): a step, or a continue, is never doubled.
AtMostOnce == Trust => ~twice

\* A session in which no packet was damaged or late, no connection lost and no
\* detach refused leaves no process attached once it is closed: Close detaches
\* what Attach attached (Session.Close, Session.Attach, Session.Detach).
LeavesDetached ==
  stage = "closed" /\ mishaps = 0 /\ faults = {} => ~attached
=============================================================================
