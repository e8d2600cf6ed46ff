---------------------------- MODULE QconnFraming ----------------------------
(***************************************************************************)
(* internal/qconn/framing.go below the level of whole answers: how the     *)
(* bytes of a qconn connection, which TCP delivers in pieces of any size,  *)
(* become the answers of readUntilPrompt, readResponseLine, readN and      *)
(* readUntilIdle (launcher.go).  Telnet negotiation may stand before an    *)
(* answer, a prompt may be followed by a space, a noise line follows the   *)
(* first prompt, and a file's bytes may look like any of these.            *)
(*                                                                         *)
(* A byte is a token: "P" the prompt up to its `>', "sp", "nl", "noise" the*)
(* benign line, the telnet bytes, one token per answer, and for a run "OK" *)
(* and the digits of the pid.  Timeouts and lost connections are           *)
(* QconnClient's subject; here every byte arrives.  The daemon is external.*)
(***************************************************************************)
EXTENDS Integers, Sequences, SequencesExt

CONSTANTS Answers,      \* the status line of each command, in order
          Payloads,     \* what a file read may return
          Negotiations, \* telnet sequences the daemon may put before an answer
          Pid,          \* the digits of the pid a launcher "run" reports
          ChildOutput   \* what the child of the run writes

ASSUME FramingAssumption ==
  /\ IsInjective(Answers)
  /\ Pid # <<>>
  /\ <<>> \in Payloads /\ <<>> \in Negotiations

VARIABLES
  wire,     \* sent by the daemon, not yet in the reader's buffer
  buf,      \* bufio.Reader's buffer
  phase,    \* the client: "block", "line", "payload", "tail", "stream", "idle" or "done"
  cmd,      \* the number of commands sent; 0 is the greeting
  due,      \* what the daemon still owes: the kind of the command, or "none"
  acc,      \* what the current read has accumulated
  telnet,   \* where in a telnet sequence readByte is
  need,     \* bytes readN still wants
  answer,   \* what the last call returned: its line and its payload
  payload,  \* the payload the daemon sent last, or all that the run sends (history)
  child,    \* what the run has still to send
  offered,  \* options the daemon has offered or asked for (history)
  refused   \* refusals the client has sent

vars == <<wire, buf, phase, cmd, due, acc, telnet, need, answer, payload, child, offered, refused>>

-----------------------------------------------------------------------------
(* Telnet *)

Options == {"do", "dont", "will", "wont"}

\* Variant of Telnet: a subnegotiation ends at the first SE.
TelnetAnySE(st, b) ==
  CASE st = "data" -> IF b = "iac" THEN "iac" ELSE "data"
    [] st = "iac"  -> IF b \in Options \cup {"sb"} THEN b ELSE "data"
    [] st = "sb"   -> IF b = "se" THEN "data" ELSE "sb"
    [] OTHER       -> "data"

\* handleIAC, a byte at a time: what it waits for after byte b.
Telnet(st, b) ==
  CASE st = "data"  -> IF b = "iac" THEN "iac" ELSE "data"
    [] st = "iac"   -> IF b \in Options \cup {"sb"} THEN b ELSE "data"
    [] st = "sb"    -> IF b = "iac" THEN "sbiac" ELSE "sb"
    [] st = "sbiac" -> IF b = "se" THEN "data" ELSE "sb"
    [] OTHER        -> "data"

\* DO is refused with WONT and WILL with DONT; the others are not answered.
Refuses(st) == st \in {"do", "will"}

\* Is b data?
IsData(st, b) == st = "data" /\ b # "iac"

\* The bytes readByte delivers of s.
Delivered(s) ==
  LET st[i \in 0..Len(s)] == IF i = 0 THEN "data" ELSE Telnet(st[i - 1], s[i])
      out[i \in 0..Len(s)] == IF i = 0 THEN <<>>
                              ELSE IF IsData(st[i - 1], s[i]) THEN Append(out[i - 1], s[i])
                              ELSE out[i - 1]
  IN  out[Len(s)]

\* stripIAC: how many bytes after the IAC at i - 1 belong to the command at i.
CommandLength(s, i) ==
  CASE s[i] \in Options -> 2
    [] s[i] = "sb" -> LET ends == {j \in i + 1..Len(s) - 1 : s[j] = "iac" /\ s[j + 1] = "se"}
                      IN  IF ends = {} THEN Len(s) ELSE Min(ends) + 1 - (i - 1)
    [] OTHER -> 1

\* The data left of s by stripIAC.
stripIAC(s) ==
  LET out[i \in 1..2 * Len(s) + 3] ==
        IF i > Len(s) THEN <<>>
        ELSE IF s[i] # "iac" THEN <<s[i]>> \o out[i + 1]
        ELSE IF i + 1 > Len(s) THEN <<>>
        ELSE out[i + 1 + CommandLength(s, i + 1)]
  IN  out[1]

-----------------------------------------------------------------------------
(* The reader *)

Reading == {"block", "line", "tail"}

\* ReadByte and Read fill an empty buffer with some of what has arrived.
Fill(n) ==
  /\ phase \in Reading \cup {"payload", "stream"} /\ buf = <<>>
  /\ buf' = SubSeq(wire, 1, n) /\ wire' = SubSeq(wire, n + 1, Len(wire))
  /\ UNCHANGED <<phase, cmd, due, acc, telnet, need, answer, payload, child, offered, refused>>

\* Leading tokens of a set dropped: strings.TrimLeft.
TrimLeft(s, cut) ==
  LET kept == {i \in 1..Len(s) : s[i] \notin cut}
  IN  IF kept = {} THEN <<>> ELSE SubSeq(s, Min(kept), Len(s))

\* Where the lines of s start, and the line that starts at i, without its end.
LineStarts(s) == {1} \cup {i + 1 : i \in {j \in 1..Len(s) : s[j] = "nl"}}
LineFrom(s, i) == SubSeq(s, i, Min({j \in i..Len(s) : s[j] = "nl"} \cup {Len(s) + 1}) - 1)

isNoise(ln) == SelectSeq(ln, LAMBDA b : b # "sp") \in {<<>>, <<"noise">>}

\* Noise lines at the start go; one without an end stays.
stripLeadingNoise(s) ==
  LET last == Max(LineStarts(s))
  IN  SubSeq(s, Min({i \in LineStarts(s) : i = last \/ ~isNoise(LineFrom(s, i))}), Len(s))

\* The first meaningful line of a block.
firstLine(s) ==
  LET ln == LineFrom(stripLeadingNoise(s), 1) IN IF isNoise(ln) THEN <<>> ELSE ln

\* readByte inside a telnet sequence: the option is refused as soon as it is known.
Negotiate ==
  /\ phase \in Reading /\ buf # <<>>
  /\ ~IsData(telnet, Head(buf))
  /\ telnet' = Telnet(telnet, Head(buf))
  /\ refused' = refused + (IF Refuses(telnet) THEN 1 ELSE 0)
  /\ buf' = Tail(buf)
  /\ UNCHANGED <<wire, phase, cmd, due, acc, need, answer, payload, child, offered>>

\* Variant of AfterPrompt: the space is waited for.
AfterPromptSpace(b) == IF b # <<>> /\ Head(b) = "sp" THEN {Tail(b)} ELSE {}

\* The spaces after a prompt go, if they are in the buffer already.
AfterPrompt(b) == {TrimLeft(b, {"sp"})}

\* readUntilPrompt, one byte; the prompt ends it.
Block ==
  /\ phase \in {"block", "tail"} /\ buf # <<>>
  /\ IsData(telnet, Head(buf))
  /\ IF Head(buf) = "P"
     THEN /\ buf' \in AfterPrompt(Tail(buf))
          /\ acc' = <<>> /\ phase' = "idle"
          /\ IF phase = "block"
             THEN answer' = [line |-> firstLine(TrimLeft(acc, {"sp"})), data |-> <<>>]
             ELSE UNCHANGED answer
     ELSE /\ buf' = Tail(buf)
          /\ acc' = Append(acc, Head(buf))
          /\ UNCHANGED <<answer, phase>>
  /\ UNCHANGED <<wire, cmd, due, telnet, need, payload, child, offered, refused>>

\* Variant of LineOf: a space the last prompt left behind stays.
LineOfAll(s) == s

\* What readResponseLine returns.
LineOf(s) == TrimLeft(s, {"sp"})

\* readResponseLine, one byte; its line says how many bytes follow.
Line ==
  /\ phase = "line" /\ buf # <<>>
  /\ IsData(telnet, Head(buf))
  /\ buf' = Tail(buf)
  /\ IF Head(buf) = "nl"
     THEN /\ answer' = [line |-> LineOf(acc), data |-> <<>>]
          /\ acc' = <<>>
          /\ need' = Len(payload)
          /\ phase' = IF need' = 0 THEN "tail" ELSE "payload"
     ELSE /\ acc' = Append(acc, Head(buf))
          /\ UNCHANGED <<answer, need, phase>>
  /\ UNCHANGED <<wire, cmd, due, telnet, payload, child, offered, refused>>

\* Variant of Takes: all of the buffer.
TakesAll == Len(buf)

\* What readN takes of the buffer at once.
Takes == Min({need, Len(buf)})

\* Variant of AfterPayload: the prompt is left for the next command.
AfterPayloadIdle == "idle"

\* The prompt after the payload is consumed too.
AfterPayload == "tail"

\* readN: raw bytes, whatever they are.
Payload ==
  /\ phase = "payload" /\ buf # <<>>
  /\ answer' = [answer EXCEPT !.data = @ \o SubSeq(buf, 1, Takes)]
  /\ buf' = SubSeq(buf, Takes + 1, Len(buf))
  /\ need' = need - Takes
  /\ phase' = IF need' = 0 THEN AfterPayload ELSE "payload"
  /\ UNCHANGED <<wire, cmd, due, acc, telnet, payload, child, offered, refused>>

-----------------------------------------------------------------------------
(* Exec: readUntilIdle *)

Stream ==
  /\ phase = "stream" /\ buf # <<>>
  /\ acc' = acc \o buf /\ buf' = <<>>
  /\ UNCHANGED <<wire, phase, cmd, due, telnet, need, answer, payload, child, offered, refused>>

\* Variant of TrimStream: what the prompt before left behind stays.
TrimStreamNot(s) == s

\* Blanks may stand before the OK line.
TrimStream(s) == TrimLeft(s, {"sp", "nl"})

\* okPidRe: the digits after an OK at the start; none if it does not match.
OkPid(ln) ==
  IF ln = <<>> \/ Head(ln) # "OK" THEN <<>>
  ELSE SubSeq(ln, 2, Min({i \in 2..Len(ln) : ln[i] \notin ToSet(Pid)} \cup {Len(ln) + 1}) - 1)

\* What Exec makes of it: the pid of the OK line and the rest, or without an OK
\* line whatever came back.
ExecResult(out) ==
  LET head == LineFrom(out, 1)
      pid  == OkPid(IF head = out THEN TrimLeft(out, {"sp"}) ELSE head)
  IN  [line |-> pid, data |-> IF pid = <<>> THEN out ELSE SubSeq(out, Len(head) + 2, Len(out))]

\* Nothing came for the idle time, or the daemon closed the connection.
Idle ==
  /\ phase = "stream" /\ buf = <<>> /\ wire = <<>>
  /\ \E raw \in {stripIAC(acc)} : \E text \in {TrimStream(raw)} :
       \E out \in {stripLeadingNoise(text)} : answer' = ExecResult(out)
  /\ acc' = <<>> /\ phase' = "done"
  /\ UNCHANGED <<wire, buf, cmd, due, telnet, need, payload, child, offered, refused>>

-----------------------------------------------------------------------------
(* Commands, and the daemon *)

\* raw, readAt and writeAt, and the run of Exec; the first command of every
\* connection selects a service.
Issue(kind) ==
  /\ phase = "idle" /\ cmd < Len(Answers)
  /\ kind # "text" => cmd > 0
  /\ cmd' = cmd + 1 /\ due' = kind
  /\ phase' = CASE kind = "text" -> "block" [] kind = "file" -> "line" [] kind = "run" -> "stream"
  /\ UNCHANGED <<wire, buf, acc, telnet, need, answer, payload, child, offered, refused>>

\* How many options a telnet sequence offers or asks for.
Offers(s) == Len(SelectSeq(s, LAMBDA b : b \in {"do", "will"}))

\* The daemon answers: telnet, the status line, the bytes of a read, the prompt.
Reply(neg, data, space) ==
  /\ due \in {"text", "file"}
  /\ due = "text" => data = <<>>
  /\ wire' = wire \o neg \o <<Answers[cmd], "nl">> \o data \o <<"P">> \o space
  /\ payload' = data /\ due' = "none"
  /\ offered' = offered + Offers(neg)
  /\ UNCHANGED <<buf, phase, cmd, acc, telnet, need, answer, child, refused>>

OkLine  == <<"OK">> \o Pid \o <<"nl">>
Refusal == <<"error", "nl", "P">>

\* A run that starts has no prompt: the OK line, then whatever the child writes.
\* The launcher may also refuse it.  Telnet comes after the first k bytes.
Starts(text, neg, k) ==
  /\ due = "run"
  /\ due' = "none" /\ payload' = text
  /\ child' = SubSeq(text, 1, k) \o neg \o SubSeq(text, k + 1, Len(text))
  /\ offered' = offered + Offers(neg)
  /\ UNCHANGED <<wire, buf, phase, cmd, acc, telnet, need, answer, refused>>

\* It comes in pieces, and pauses anywhere.
Sends(n) ==
  /\ wire' = wire \o SubSeq(child, 1, n)
  /\ child' = SubSeq(child, n + 1, Len(child))
  /\ UNCHANGED <<buf, phase, cmd, due, acc, telnet, need, answer, payload, offered, refused>>

-----------------------------------------------------------------------------
(* The specification *)

\* The greeting: the banner, a prompt, and the noise line after it.
Init ==
  /\ \E neg \in Negotiations, space \in {<<>>, <<"sp">>} :
       /\ wire = neg \o <<"banner", "nl", "P">> \o space \o <<"noise", "nl">>
       /\ offered = Offers(neg)
  /\ buf = <<>> /\ acc = <<>> /\ payload = <<>> /\ child = <<>>
  /\ phase = "block" /\ cmd = 0 /\ due = "none" /\ telnet = "data"
  /\ need = 0 /\ refused = 0
  /\ answer = [line |-> <<>>, data |-> <<>>]

Reader == (\E n \in 1..Len(wire) : Fill(n)) \/ Negotiate \/ Block \/ Line \/ Payload \/ Stream

Daemon ==
  \/ \E neg \in Negotiations :
       \/ \E data \in Payloads, space \in {<<>>, <<"sp">>} : Reply(neg, data, space)
       \/ \E text \in {OkLine \o ChildOutput, Refusal} :
            \E k \in 0..Len(text) : Starts(text, neg, k)
  \/ \E n \in 1..Len(child) : Sends(n)

Next == Reader \/ Idle \/ Daemon \/ (\E kind \in {"text", "file", "run"} : Issue(kind))

\* The client's goroutine runs, the idle timer expires, the daemon answers.
Spec == Init /\ [][Next]_vars /\ WF_vars(Reader) /\ WF_vars(Idle) /\ WF_vars(Daemon)

-----------------------------------------------------------------------------
(* Properties *)

\* The reader is in one of its states, also inside a telnet command, and readN
\* never wants more than the payload (readN, handleIAC).
TypeOK ==
  /\ phase \in Reading \cup {"payload", "stream", "idle", "done"}
  /\ cmd \in 0..Len(Answers) /\ due \in {"text", "file", "run", "none"}
  /\ telnet \in {"data", "iac", "sb", "sbiac"} \cup Options
  /\ need \in 0..Len(payload)
  /\ offered \in Nat /\ refused \in Nat

\* A command returns its own status line and, for a file, exactly the bytes the
\* daemon sent, wherever the pieces were cut, whatever space, noise or negotiation
\* stood around them and whatever the bytes look like (the buffered-space loop of
\* readUntilPrompt, the TrimLefts, firstLine, readN).
RepliesExact ==
  phase = "idle" /\ cmd > 0 => answer = [line |-> <<Answers[cmd]>>, data |-> payload]

\* Between two commands the two ends are in step.  Nothing of an answer is left,
\* at most the spaces of the last prompt and, after the greeting, the noise line
\* (readAt consumes the prompt after a payload); and every option the daemon
\* offered has been refused once and nothing else answered, so that they cannot
\* negotiate for ever (handleIAC).
InStep ==
  phase = "idle" =>
    /\ telnet = "data" /\ acc = <<>>
    /\ ToSet(buf \o wire) \subseteq {"sp"} \cup (IF cmd = 0 THEN {"noise", "nl"} ELSE {})
    /\ refused = offered

\* However the output of a run pauses, Exec never mixes the daemon's words with
\* the child's.  If it reports a pid, the run was started, its output is what the
\* child wrote up to the pause, free of negotiation, and the pid is the child's if
\* there is any output; a pause inside the OK line may cut the pid short.  If it
\* reports none, the child's output is not in what it returns: that is the
\* launcher's refusal, or the start of its OK line.  And all of it is reported if
\* there was no pause before the end (readUntilIdle, stripIAC, the branches of Exec).
ExecPrefix ==
  phase = "done" =>
    /\ answer.line # <<>> => /\ IsPrefix(OkLine, payload) /\ IsPrefix(answer.line, Pid)
                             /\ IsPrefix(answer.data, ChildOutput)
                             /\ answer.data # <<>> => answer.line = Pid
    /\ answer.line = <<>> => \/ IsPrefix(answer.data, <<"OK">>)
                             \/ payload = Refusal /\ IsPrefix(answer.data, Refusal)
    /\ due = "none" /\ child = <<>> /\ wire = <<>> =>
         answer = IF payload = Refusal THEN [line |-> <<>>, data |-> Refusal]
                                       ELSE [line |-> Pid, data |-> ChildOutput]

\* Every call returns: no read waits for a byte that was consumed before, or that
\* the daemon does not send (readUntilPrompt, readN).
CallsReturn == phase \notin {"idle", "done"} ~> phase \in {"idle", "done"}
=============================================================================
