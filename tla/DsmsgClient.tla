----------------------------- MODULE DsmsgClient -----------------------------
(***************************************************************************)
(* One debug session: the DSMSG client of internal/qnxdbg as the debug     *)
(* tools of internal/mcpserver/tools_debug.go drive it under qnxSession.mu, *)
(* and the pdebug agent at the other end (internal/mockqnx/dsmsg.go, plus  *)
(* the refusals, the output and the pace of a real target).                *)
(*                                                                         *)
(* A tool is a script of commands.  The client writes one, then reads      *)
(* frames: control and text frames are skipped, the first other frame is   *)
(* the answer, whatever message id it carries; Continue and Step read one  *)
(* more, the stop notification.  The message id is therefore left out;     *)
(* command numbers, `taken' and `faults' are history.                      *)
(***************************************************************************)
EXTENDS Naturals, Sequences

CONSTANTS MaxSent,  \* bound: no tool or further chunk starts after this many
                    \* commands
          MaxQueue, \* bound: unread frames when the program may print
          Signals   \* the signals of the disposition table

ASSUME SessionAssumption == MaxSent \in Nat /\ MaxQueue \in Nat

VARIABLES
  conn,    \* "up", or "down" after EOF, reset or a Close by another goroutine
  stage,   \* what the client is blocked on; "idle" between tools
  tool,    \* the running tool
  todo,    \* the rest of its script, the command waited for included
  sent,    \* commands written; the last one has this number
  toD,     \* commands written and not read by pdebug
  toC,     \* frames written and not read by the client
  proc,    \* the debugged process: "none", "stopped" or "running"
  run,     \* number of the Run command the process runs under
  owned,   \* pdebug has loaded the program, its output comes over the session
  passed,  \* qnxSession.sigTable: the signals passed through, not stopped on
  settled, \* the last change of it was acknowledged, or there was none
  tpassed, \* the signals pdebug passes through
  taken,   \* the last answer: the command and the frame accepted for it
  faults   \* what made the client give up while waiting

sigVars == <<passed, settled>>
clientVars == <<stage, tool, todo, sent, taken, sigVars>>
targetVars == <<proc, run, owned, tpassed>>
vars == <<conn, clientVars, toD, toC, targetVars, faults>>

-----------------------------------------------------------------------------
(* Vocabulary *)

\* The commands of each tool handler, in order.
Script == [attach |-> <<"attach", "select">>,
           launch |-> <<"env", "load", "select">>,
           registers |-> <<"regrd">>, write_registers |-> <<"regwr">>,
           read_memory |-> <<"memrd">>, write_memory |-> <<"memwr">>,
           break |-> <<"brk">>, select |-> <<"select">>,
           signal |-> <<"handlesig">>, info |-> <<"cpuinfo">>,
           mapinfo |-> <<"procmap">>, threads |-> <<"pidlist", "tidnames">>,
           continue |-> <<"run">>, detach |-> <<"detach">>]

Openers == {"attach", "launch"}
Tools == DOMAIN Script
Commands == UNION {{Script[t][k] : k \in 1..Len(Script[t])} : t \in Tools}
Repeated == {"env", "memrd", "memwr"}  \* sent again for each string or chunk

Stages == {"reset", "connect", "protover", "ready", "idle", "reply", "stop",
           "closed"}

\* "bad" is the rest of a frame whose beginning a timed-out read has eaten.
Frame == [kind : {"control", "text", "reply", "notify", "bad"},
          re : Nat, code : {"ok", "err"}]
Control == [kind |-> "control", re |-> 0, code |-> "ok"]
Text    == [kind |-> "text", re |-> 0, code |-> "ok"]
Bad     == [kind |-> "bad", re |-> 0, code |-> "err"]
NoTaken == [n |-> 0, want |-> "reply", re |-> 0, kind |-> "reply"]

Waiting == {"connect", "protover", "reply", "stop"}

-----------------------------------------------------------------------------
(* The client *)

\* transact: the next command is written; on a dead connection it goes nowhere
\* and the read that follows reports the error.
Write(c, tbl) ==
  /\ sent' = sent + 1
  /\ toD' = IF conn = "up" THEN Append(toD, [n |-> sent + 1, cmd |-> c, tbl |-> tbl])
                           ELSE toD
Send(c) == Write(c, {})

\* The session goes on to the next command of the script, or the tool returns.
Proceed(rest) ==
  IF rest = <<>>
    THEN /\ stage' = IF tool = "detach" THEN "closed" ELSE "idle"
         /\ tool' = "none"
         /\ todo' = <<>>
         /\ UNCHANGED <<sent, toD>>
    ELSE /\ stage' = "reply"
         /\ todo' = rest
         /\ tool' = tool
         /\ Send(Head(rest))

\* The tool returns an error; a failed attach or launch closes its client.
GiveUp ==
  /\ stage' = IF tool \in Openers \/ stage \in {"reset", "connect", "protover"}
                THEN "closed" ELSE "idle"
  /\ tool' = "none"
  /\ todo' = <<>>
  /\ UNCHANGED <<sent, toD>>

\* Errors the handlers do not look at: Select after an attach or launch, both
\* questions of threads, Detach before the close.
Ignored == \/ tool \in Openers /\ Head(todo) = "select"
           \/ tool \in {"threads", "detach"}

Fail == IF Ignored /\ stage = "reply" THEN Proceed(Tail(todo)) ELSE GiveUp

\* handshake: the first frame, whatever it is, is echoed and Connect sent.
Reset ==
  /\ stage = "reset"
  /\ toC # <<>>
  /\ toC' = Tail(toC)
  /\ IF Head(toC).kind = "bad"
       THEN GiveUp
       ELSE Send("connect") /\ stage' = "connect" /\ UNCHANGED <<tool, todo>>
  /\ UNCHANGED <<conn, taken, sigVars, targetVars, faults>>

\* readResponse passes over control frames and keeps the text of text frames.
Skip ==
  /\ stage \in Waiting
  /\ toC # <<>>
  /\ Head(toC).kind \in {"control", "text"}
  /\ toC' = Tail(toC)
  /\ UNCHANGED <<conn, clientVars, toD, targetVars, faults>>

\* A frame with a bad checksum is an error for whoever reads it.
BadFrame ==
  /\ stage \in Waiting
  /\ toC # <<>>
  /\ Head(toC).kind = "bad"
  /\ toC' = Tail(toC)
  /\ Fail
  /\ UNCHANGED <<conn, taken, sigVars, targetVars, faults>>

\* Variant of IsAnswer: what is not a control frame is an answer.
IsAnswerOrText(f) == f.kind \in {"reply", "notify", "text"}

\* What readResponse returns: no message id is compared, no code is required.
IsAnswer(f) == f.kind \in {"reply", "notify"}

Take ==
  /\ toC # <<>>
  /\ IsAnswer(Head(toC))
  /\ toC' = Tail(toC)
  /\ taken' = [n |-> sent, want |-> stage, re |-> Head(toC).re,
               kind |-> Head(toC).kind]
  /\ UNCHANGED <<conn, targetVars, faults>>

\* The handshake goes on whatever the answer says.
Handshake ==
  /\ Take
  /\ \/ /\ stage = "connect"
        /\ stage' = "protover"
        /\ Send("protover")
     \/ /\ stage = "protover"
        /\ stage' = "ready"
        /\ UNCHANGED <<sent, toD>>
  /\ UNCHANGED <<tool, todo, sigVars>>

\* The table a handler may have in hand: debug_handle_signal changes an entry of
\* the session's before it sends the whole of it.
Tables(t) == IF t = "signal" THEN {passed \cup {s} : s \in Signals} \cup {passed \ {s} : s \in Signals}
                             ELSE {passed}

\* Variant of TableSent: the table is copied before it is changed.
TableSentUnchanged(t, tbl) == IF t = "signal" THEN passed ELSE {}

\* HandleSig sends a copy of the table; other commands carry none.
TableSent(t, tbl) == IF t = "signal" THEN tbl ELSE {}

\* A handler takes sess.mu and sends the first command of its script.
Begin(t) ==
  /\ stage = IF t \in Openers THEN "ready" ELSE "idle"
  /\ sent < MaxSent
  /\ tool' = t
  /\ todo' = Script[t]
  /\ stage' = "reply"
  /\ \E tbl \in Tables(t) :
       /\ passed' = tbl
       /\ Write(Head(Script[t]), TableSent(t, tbl))
  /\ settled' = (settled /\ t # "signal")
  /\ UNCHANGED <<conn, taken, toC, targetVars, faults>>

\* Variant of Reply: Run's acknowledgement is taken for the stop.
ReplyEndsRun ==
  /\ stage = "reply"
  /\ Take
  /\ IF Head(toC).code = "err" /\ ~Ignored THEN GiveUp
                                           ELSE Proceed(Tail(todo))
  /\ settled' = (settled \/ (tool = "signal" /\ Head(toC).code = "ok"))
  /\ UNCHANGED passed

\* The answer to a command: an error answer ends the tool unless the handler
\* ignores it; Run is followed by WaitStop whatever it answered; memory is read
\* and written, and the tables staged, in as many commands as it takes.
Reply ==
  /\ stage = "reply"
  /\ Take
  /\ IF Head(todo) = "run"
       THEN stage' = "stop" /\ UNCHANGED <<tool, todo, sent, toD>>
     ELSE IF Head(toC).code = "err" /\ ~Ignored
       THEN GiveUp
       ELSE \/ Proceed(Tail(todo))
            \/ Head(todo) \in Repeated /\ sent < MaxSent /\ Proceed(todo)
  /\ settled' = (settled \/ (tool = "signal" /\ Head(toC).code = "ok"))
  /\ UNCHANGED passed

\* WaitStop: the next frame is the stop, whatever its code.
Stopped ==
  /\ stage = "stop"
  /\ Take
  /\ Proceed(<<>>)
  /\ UNCHANGED sigVars

\* Variant of Timeout: no deadline is armed while waiting for the stop.
TimeoutOnReply ==
  /\ stage \in (Waiting \cup {"reset"}) \ {"stop"}
  /\ \/ toC = <<>> /\ UNCHANGED toC
     \/ toC # <<>> /\ toC' = <<Bad>> \o Tail(toC)
  /\ Fail
  /\ faults' = faults \cup {"timeout"}
  /\ UNCHANGED <<conn, taken, sigVars, targetVars>>

\* A byte does not arrive within the deadline: nothing came, or the frame came
\* in part and the part that was read is lost.
Timeout ==
  /\ stage \in Waiting \cup {"reset"}
  /\ \/ toC = <<>> /\ UNCHANGED toC
     \/ toC # <<>> /\ toC' = <<Bad>> \o Tail(toC)
  /\ Fail
  /\ faults' = faults \cup {"timeout"}
  /\ UNCHANGED <<conn, taken, sigVars, targetVars>>

\* The connection is gone and so is what it had delivered.
ReadFails ==
  /\ stage \in Waiting \cup {"reset"}
  /\ conn = "down"
  /\ toC = <<>>
  /\ Fail
  /\ UNCHANGED <<conn, taken, toC, sigVars, targetVars, faults>>

-----------------------------------------------------------------------------
(* pdebug and the process *)

Answer(c, code) == [kind |-> "reply", re |-> c.n, code |-> code]

\* pdebug carries a command out, or refuses it, and answers.
Serve(code) ==
  /\ conn = "up"
  /\ toD # <<>>
  /\ toD' = Tail(toD)
  /\ toC' = Append(toC, Answer(Head(toD), code))
  /\ LET c == Head(toD) IN
     IF code = "err" THEN UNCHANGED targetVars ELSE
       /\ proc' = IF c.cmd \in {"attach", "load"} THEN "stopped"
                  ELSE IF c.cmd = "detach" THEN "none"
                  ELSE IF c.cmd = "run" /\ proc # "none" THEN "running"
                  ELSE proc
       /\ run' = IF c.cmd = "run" THEN c.n ELSE run
       /\ owned' = (owned \/ c.cmd = "load")
       /\ tpassed' = IF c.cmd = "handlesig" THEN c.tbl ELSE tpassed
  /\ UNCHANGED <<conn, clientVars, faults>>

\* The process stops, at a breakpoint, after a step or on a signal, or exits.
StopEvent(p) ==
  /\ conn = "up"
  /\ proc = "running"
  /\ proc' = p
  /\ toC' = Append(toC, [kind |-> "notify", re |-> run, code |-> "ok"])
  /\ UNCHANGED <<conn, clientVars, toD, run, owned, tpassed, faults>>

\* A program that pdebug has loaded writes to its standard output.
PrintText ==
  /\ conn = "up"
  /\ proc = "running"
  /\ owned
  /\ Len(toC) < MaxQueue
  /\ toC' = Append(toC, Text)
  /\ UNCHANGED <<conn, clientVars, toD, targetVars, faults>>

\* The connection breaks; of what was on its way a prefix still arrives.
Drop(k) ==
  /\ conn = "up"
  /\ conn' = "down"
  /\ k \in 0..Len(toC)
  /\ toC' = SubSeq(toC, 1, k)
  /\ toD' = <<>>
  /\ UNCHANGED <<clientVars, targetVars, faults>>

-----------------------------------------------------------------------------
Init ==
  /\ conn = "up"
  /\ stage = "reset"
  /\ tool = "none"
  /\ todo = <<>>
  /\ sent = 0
  /\ toD = <<>>
  /\ toC = <<Control>>
  /\ proc = "none"
  /\ run = 0
  /\ owned = FALSE
  /\ passed = {} /\ tpassed = {} /\ settled = TRUE
  /\ taken = NoTaken
  /\ faults = {}

\* A call under way goes on: the deadline bounds every wait for a byte.
Client == \/ Reset \/ Skip \/ BadFrame \/ Handshake \/ Reply \/ Stopped
          \/ Timeout \/ ReadFails

Target == \/ \E code \in {"ok", "err"} : Serve(code)
          \/ \E p \in {"stopped", "none"} : StopEvent(p)
          \/ PrintText
          \/ \E k \in 0..Len(toC) : Drop(k)

Next == Client \/ (\E t \in Tools : Begin(t)) \/ Target

Spec == Init /\ [][Next]_vars

\* Each byte read is bounded by SetDeadline; nothing is assumed of the target.
FairSpec == Spec /\ WF_vars(Client)

-----------------------------------------------------------------------------
(* Properties *)

\* Every variable has its type; a tool runs exactly while its script does.
TypeOK ==
  /\ conn \in {"up", "down"}
  /\ stage \in Stages
  /\ tool \in Tools \cup {"none"}
  /\ todo \in Seq(Commands)
  /\ (stage \in {"reply", "stop"}) <=> (todo # <<>>)
  /\ sent \in Nat
  /\ toD \in Seq([n : 1..sent, cmd : Commands \cup {"connect", "protover"},
                   tbl : SUBSET Signals])
  /\ toC \in Seq(Frame)
  /\ proc \in {"none", "stopped", "running"}
  /\ run \in 0..sent
  /\ owned \in BOOLEAN
  /\ passed \subseteq Signals /\ tpassed \subseteq Signals /\ settled \in BOOLEAN
  /\ taken \in [n : Nat, want : Waiting, re : Nat,
               kind : {"control", "text", "reply", "notify", "bad"}]
  /\ faults \subseteq {"timeout"}

Clean == faults = {}

OwnFrame(t) ==
  /\ t.re = t.n
  /\ t.kind = IF t.want = "stop" THEN "notify" ELSE "reply"

\* As long as no read has timed out, what transact takes for the answer is the
\* reply to the command it sent, and what WaitStop takes for a stop is the
\* notification of the run it started, however output of the program is mixed
\* in: the missing comparison of message ids does no harm.
OwnAnswer == Clean => OwnFrame(taken)

\* As long as no read has timed out, the process is stopped whenever a tool may
\* start: registers, memory and breakpoints are those of a process at rest.
RestsBetweenTools ==
  Clean /\ conn = "up" /\ stage \in {"ready", "idle"} => proc # "running"

\* As long as no read has timed out, pdebug has the session's table of signals
\* whenever the last change of it was reported as done, also when changes before
\* it were refused (debug_handle_signal sends the whole table).
SignalsAgree ==
  Clean /\ settled => passed = tpassed

\* A tool comes to its end, in an answer or an error, if the program does not
\* print for ever: every wait inside transact and WaitStop has a deadline.
QuietToolsReturn ==
  <>[][~PrintText]_vars => ((stage \in Waiting \cup {"reset"}) ~>
                              (stage \notin Waiting \cup {"reset"}))
=============================================================================
