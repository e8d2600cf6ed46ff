----------------------------- MODULE QconnClient -----------------------------
(***************************************************************************)
(* The pooled qconn client (internal/qconn/client.go, framing.go, file.go, *)
(* cntl.go) and the daemon it talks to (internal/mockqnx/server.go, which  *)
(* stands for the real one, plus the refusals the client's comments say a  *)
(* real daemon sends).                                                     *)
(*                                                                         *)
(* Goroutines share one Client.  A call takes Client.mu, writes a command, *)
(* reads the stream up to the next prompt, writes the next command, and so *)
(* on until it returns.  A client action is the code between two blocking  *)
(* points: it takes what it was waiting for off the stream, decides, and   *)
(* writes the next command.  `stage' names the command (or the part of a   *)
(* response) that the running call is blocked on.                          *)
(*                                                                         *)
(* The stream to the client is a sequence of replies.  A reply is a status *)
(* line, a possible binary payload and the prompt; the parts are read one  *)
(* after the other and a read that gives up leaves the rest in the stream. *)
(* Command and reply numbers, `performed', `relied' and `faults' are        *)
(* history: no guard of the code reads them.                               *)
(***************************************************************************)
EXTENDS Naturals, Sequences

CONSTANTS Callers,    \* the goroutines (tool handlers) that share the client
          NoCaller,   \* Client.mu is free
          RawServices,\* the services Raw is called for
          MaxSent     \* bound: no call or further chunk starts once this many
                      \* commands were written


VARIABLES
  conn,       \* "up", or "down" after EOF, reset or a local Close
  current,    \* Client.current
  info,       \* Client.info: "none", "whole", or "wrong" (not an info answer)
  mu,         \* holder of Client.mu
  waiting,    \* callers inside a method: waiting for mu or holding it
  op,         \* the method the holder runs and the service it needs
  stage,      \* what the holder is blocked on
  fd,         \* fileHandle.fd of the running file operation
  sent,       \* number of commands written; the last one has this number
  toD,        \* commands written and not yet read by the daemon
  toC,        \* replies written and not yet read by the client
  noise,      \* the linemode/echo error line is unread, ahead of every answer
  svc,        \* session.svc of the daemon
  fds,        \* descriptors open on the target
  performed,  \* numbers of the commands the daemon carried out
  relied,     \* numbers of the commands whose success this call reports
  faults      \* what made the client stop in the middle of a response

clientVars == <<current, info, op, stage, fd, sent, relied>>
lockVars   == <<mu, waiting>>
daemonVars == <<svc, fds, performed>>
vars == <<conn, clientVars, lockVars, toD, toC, noise, daemonVars, faults>>

-----------------------------------------------------------------------------
(* Vocabulary *)

Services == {"broker", "launcher", "file", "cntl", "sinfo"}

ASSUME ClientAssumption == /\ NoCaller \notin Callers
                           /\ RawServices \subseteq Services
                           /\ MaxSent \in Nat

\* The methods of Client that use the pooled connection; Raw takes any service.
Ops == [kind : {"versions", "info"}, svc : {"broker"}]
         \cup [kind : {"stat", "read", "write", "delete", "mkdir", "chmod"},
               svc : {"file"}]
         \cup [kind : {"signal"}, svc : {"cntl"}]
         \cup [kind : {"raw"}, svc : RawServices]
NoOp == [kind |-> "none", svc |-> "broker"]

\* Commands: leave is "q"/"done", enter is "service <svc>", kill is the cntl
\* command, the others are named after the file-service letters.
Commands == {"leave", "enter", "versions", "info", "raw",
             "open", "r", "w", "d", "a", "close", "kill"}

\* rtail/rlast/wtail/wlast wait for the prompt after a status line (the
\* "last" ones end the chunk loop), rerr for the prompt after a read error.
Awaiting == Commands \cup {"rtail", "rlast", "rerr", "wtail", "wlast"}
Stages == Awaiting \cup {"greet", "idle", "failed"}

\* Status lines.  "none": read already or absent; "part": cut by EOF; "o:?" is
\* an "o:" that no number follows.
Lines == {"none", "part", "banner", "versions", "info", "raw",
          "OK", "ok", "o", "o:fd", "o:n", "o:0", "o:?", "err"}

Command == [n : Nat, kind : Commands, svc : Services, fd : Nat]
Reply == [re : Nat, line : Lines, payload : BOOLEAN,
          prompt : Services \cup {"eof"}]
FaultKinds == {"timeout", "write", "count", "eof"}

\* The first command of a method's body, once the service is right.
First(o) == CASE o.kind \in {"versions", "info", "raw"} -> o.kind
              [] o.kind = "delete" -> "d"
              [] o.kind = "signal" -> "kill"
              [] OTHER -> "open"

\* Stages whose failure ends the method; the others run the deferred closeFile.
Returning == {"leave", "enter", "versions", "info", "raw", "open", "d",
              "kill", "close"}

-----------------------------------------------------------------------------
(* The client: writing a command, returning, and reading the stream *)

\* writeLine.  On a dead connection the command goes nowhere and the read that
\* follows reports the error.
Write(k, service, handle) ==
  /\ stage' = k
  /\ sent' = sent + 1
  /\ fd' = handle
  /\ toD' = IF conn = "up"
              THEN Append(toD, [n |-> sent + 1, kind |-> k, svc |-> service,
                                fd |-> handle])
              ELSE toD

\* The running method goes on to its next command.
Issue(k, service, handle) ==
  /\ Write(k, service, handle)
  /\ UNCHANGED <<op, lockVars>>

\* The running method returns and its deferred Unlock runs.
Return ==
  /\ stage' = "idle"
  /\ mu' = NoCaller
  /\ waiting' = waiting \ {mu}
  /\ op' = NoOp
  /\ fd' = 0
  /\ UNCHANGED <<sent, toD>>

\* What readUntilPrompt can return now.  EOF after some bytes also ends a
\* block, and the noise line alone is some bytes.
Blank == [re |-> 0, line |-> "none", payload |-> FALSE, prompt |-> "eof"]
Block == IF toC = <<>> THEN Blank ELSE Head(toC)
BlockReady ==
  \/ toC # <<>> /\ (\/ Head(toC).prompt # "eof"
                    \/ Head(toC).line # "none"
                    \/ Head(toC).payload)
  \/ toC = <<>> /\ noise /\ conn = "down"

\* Variant of TakeBlock: the block is taken and the noise line left behind.
TakeBlockLeavesNoise ==
  /\ BlockReady
  /\ toC' = IF toC = <<>> THEN <<>> ELSE Tail(toC)
  /\ faults' = IF Block.prompt = "eof" THEN faults \cup {"eof"} ELSE faults
  /\ UNCHANGED <<conn, noise, daemonVars>>

\* readUntilPrompt returns: the whole block, noise line included, is gone.
TakeBlock ==
  /\ BlockReady
  /\ toC' = IF toC = <<>> THEN <<>> ELSE Tail(toC)
  /\ noise' = FALSE
  /\ faults' = IF Block.prompt = "eof" THEN faults \cup {"eof"} ELSE faults
  /\ UNCHANGED <<conn, daemonVars>>

\* readResponseLine returns the first complete line; a prompt or a payload
\* that was left in the stream becomes a prefix of it.
LineAt(i) == /\ toC[i].line \notin {"none", "part"}
             /\ \A j \in 1..(i - 1) : toC[j].line = "none"
StatusLine(i) == IF i = 1 THEN toC[1].line ELSE "garbled"
AfterLine(i, left) ==
  <<[toC[i] EXCEPT !.line = "none", !.payload = left]>>
     \o SubSeq(toC, i + 1, Len(toC))

-----------------------------------------------------------------------------
(* Dial, and the callers' side of Client.mu *)

\* Dial's handshake: the greeting up to the first broker prompt.  The noise
\* line comes after that prompt and stays in the stream.
Handshake ==
  /\ stage = "greet"
  /\ toC # <<>>
  /\ toC' = Tail(toC)
  /\ stage' = "idle"
  /\ UNCHANGED <<conn, current, info, op, fd, sent, relied, lockVars, toD,
                 noise, daemonVars, faults>>

\* The handshake fails on EOF or at the deadline; Dial closes the socket.
DialFails ==
  /\ stage = "greet"
  /\ conn = "up" \/ toC = <<>>
  /\ stage' = "failed"
  /\ conn' = "down"
  /\ toC' = <<>>
  /\ UNCHANGED <<current, info, op, fd, sent, relied, lockVars, toD, noise,
                 daemonVars, faults>>

\* A tool handler calls a method and asks for Client.mu.
Call(c) ==
  /\ stage \notin {"greet", "failed"}
  /\ c \notin waiting
  /\ sent < MaxSent
  /\ waiting' = waiting \cup {c}
  /\ UNCHANGED <<conn, clientVars, mu, toD, toC, noise, daemonVars, faults>>

\* c gets Client.mu for method o and runs to the first blocking read: ensure
\* writes the leave or the service command, or the body writes its first one.
Acquire(c, o) ==
  /\ c \in waiting
  /\ mu = NoCaller
  /\ stage = "idle"
  /\ ~ (o.kind = "info" /\ info # "none")
  /\ mu' = c
  /\ op' = o
  /\ relied' = {}
  /\ CASE current = o.svc -> Write(First(o), current, 0)
       [] current # o.svc /\ current = "broker" -> Write("enter", o.svc, 0)
       [] OTHER -> Write("leave", current, 0)
  /\ UNCHANGED <<conn, current, info, waiting, toC, noise, daemonVars, faults>>

\* Info answers from the cache without touching the connection.
InfoCached(c) ==
  /\ c \in waiting
  /\ mu = NoCaller
  /\ info # "none"
  /\ waiting' = waiting \ {c}
  /\ UNCHANGED <<conn, clientVars, mu, toD, toC, noise, daemonVars, faults>>

\* Client.Close: write "quit" and close the socket, waiting for nothing.
Close(c) ==
  /\ c \in waiting
  /\ mu = NoCaller
  /\ waiting' = waiting \ {c}
  /\ conn' = "down"
  /\ toD' = <<>>
  /\ toC' = <<>>
  /\ noise' = FALSE
  /\ fds' = {}
  /\ UNCHANGED <<clientVars, mu, svc, performed, faults>>

-----------------------------------------------------------------------------
(* ensure and leaveService *)

\* leaveService: whatever block arrives, the client takes itself to be back
\* in the broker.
LeaveDone ==
  /\ stage = "leave"
  /\ TakeBlock
  /\ current' = "broker"
  /\ IF op.svc = "broker" THEN Issue(First(op), "broker", 0)
                          ELSE Issue("enter", op.svc, 0)
  /\ UNCHANGED <<info, relied>>

\* Variant of EnterDone: the answer to "service" is not looked at.
EnterUnchecked ==
  /\ stage = "enter"
  /\ TakeBlock
  /\ current' = op.svc
  /\ relied' = relied
  /\ Issue(First(op), op.svc, 0)
  /\ UNCHANGED info

EnterDone ==
  /\ stage = "enter"
  /\ TakeBlock
  /\ \/ /\ Block.line = "OK"
        /\ current' = op.svc
        /\ relied' = relied \cup {sent}
        /\ Issue(First(op), op.svc, 0)
     \/ /\ Block.line # "OK"
        /\ relied' = {}
        /\ Return
        /\ UNCHANGED current
  /\ UNCHANGED info

-----------------------------------------------------------------------------
(* Bodies that are one exchange *)

\* Versions and Raw take any block for the answer.
TextDone ==
  /\ stage \in {"versions", "raw"}
  /\ TakeBlock
  /\ relied' = relied \cup {sent}
  /\ Return
  /\ UNCHANGED <<current, info>>

\* Info caches whatever KEY=VALUE fields the block has.
InfoDone ==
  /\ stage = "info"
  /\ TakeBlock
  /\ info' = IF Block.line = "info" THEN "whole" ELSE "wrong"
  /\ relied' = relied \cup {sent}
  /\ Return
  /\ UNCHANGED current

\* Variant of StatusDone: the status of the answer is not looked at.
StatusUnchecked ==
  /\ stage \in {"d", "kill"}
  /\ TakeBlock
  /\ relied' = relied \cup {sent}
  /\ Return
  /\ UNCHANGED <<current, info>>

\* Delete wants "o"; Signal wants "ok" in either case.
StatusDone ==
  /\ stage \in {"d", "kill"}
  /\ TakeBlock
  /\ relied' = IF \/ stage = "d" /\ Block.line = "o"
                  \/ stage = "kill" /\ Block.line \in {"ok", "OK"}
                 THEN relied \cup {sent} ELSE {}
  /\ Return
  /\ UNCHANGED <<current, info>>

-----------------------------------------------------------------------------
(* Bodies that open a descriptor *)

\* The command after openFile: chmod's, a chunk, or closeFile at once (Stat,
\* Mkdir, an empty range or an empty buffer).
AfterOpen(o) == CASE o.kind = "chmod" -> {"a"}
                  [] o.kind = "read" -> {"r", "close"}
                  [] o.kind = "write" -> {"w", "close"}
                  [] OTHER -> {"close"}

OpenDone ==
  /\ stage = "open"
  /\ TakeBlock
  /\ \/ /\ Block.line = "o:fd"
        /\ relied' = relied \cup {sent}
        /\ \E k \in AfterOpen(op) : Issue(k, "file", Block.re)
     \/ /\ Block.line # "o:fd"
        /\ relied' = {}
        /\ Return
  /\ UNCHANGED <<current, info>>

\* readAt's status line.  "o:<n>" is followed by readN of the payload; a stale
\* open answer is also "o:<hex>", and readN then eats into its prompt.  After
\* an "o:" without a number readAt fails and leaves the prompt unread.
ReadStatus ==
  /\ stage = "r"
  /\ \E i \in 1..Len(toC) :
       /\ LineAt(i)
       /\ \/ /\ StatusLine(i) = "o:n"
             /\ stage' = "rtail"
             /\ toC' = AfterLine(i, FALSE)
             /\ UNCHANGED <<op, fd, sent, relied, lockVars, toD, faults>>
          \/ /\ StatusLine(i) = "o:0"
             /\ stage' = "rlast"
             /\ toC' = AfterLine(i, FALSE)
             /\ UNCHANGED <<op, fd, sent, relied, lockVars, toD, faults>>
          \/ /\ StatusLine(i) = "o:fd"
             /\ stage' = "rtail"
             /\ toC' = Tail(toC)
             /\ UNCHANGED <<op, fd, sent, relied, lockVars, toD, faults>>
          \/ /\ StatusLine(i) = "o:?"
             /\ toC' = AfterLine(i, toC[i].payload)
             /\ relied' = {}
             /\ faults' = faults \cup {"count"}
             /\ Issue("close", "file", fd)
          \/ /\ StatusLine(i) \notin {"o:n", "o:0", "o:fd", "o:?"}
             /\ stage' = "rerr"
             /\ toC' = AfterLine(i, toC[i].payload)
             /\ UNCHANGED <<op, fd, sent, relied, lockVars, toD, faults>>
  /\ UNCHANGED <<conn, current, info, noise, daemonVars>>

\* The prompt after the payload; ReadFile and ReadFileRange loop on a
\* non-empty chunk until they have all they want.
ReadTail ==
  /\ stage \in {"rtail", "rlast"}
  /\ TakeBlock
  /\ relied' = relied \cup {sent}
  /\ \/ stage = "rtail" /\ sent < MaxSent /\ Issue("r", "file", fd)
     \/ Issue("close", "file", fd)
  /\ UNCHANGED <<current, info>>

\* Variants of ReadResync: the prompt is not read, as in writeAt; and the
\* error is returned without the deferred closeFile.
ReadNoResync ==
  /\ stage = "rerr"
  /\ relied' = {}
  /\ Issue("close", "file", fd)
  /\ UNCHANGED <<conn, current, info, toC, noise, daemonVars, faults>>
ReadErrorLeaks ==
  /\ stage = "rerr"
  /\ TakeBlock
  /\ relied' = {}
  /\ Return
  /\ UNCHANGED <<current, info>>

\* readAt's error path reads the prompt to resync, then fails.
ReadResync ==
  /\ stage = "rerr"
  /\ TakeBlock
  /\ relied' = {}
  /\ Issue("close", "file", fd)
  /\ UNCHANGED <<current, info>>

\* writeAt's status line; its error path does not read the prompt, and a count
\* that is no number is 0.
WriteStatus ==
  /\ stage = "w"
  /\ \E i \in 1..Len(toC) :
       /\ LineAt(i)
       /\ toC' = AfterLine(i, toC[i].payload)
       /\ \/ /\ StatusLine(i) \in {"o:n", "o:fd"}
             /\ stage' = "wtail"
             /\ UNCHANGED <<op, fd, sent, relied, lockVars, toD, faults>>
          \/ /\ StatusLine(i) \in {"o:0", "o:?"}
             /\ stage' = "wlast"
             /\ UNCHANGED <<op, fd, sent, relied, lockVars, toD, faults>>
          \/ /\ StatusLine(i) \notin {"o:n", "o:fd", "o:0", "o:?"}
             /\ relied' = {}
             /\ faults' = faults \cup {"write"}
             /\ Issue("close", "file", fd)
  /\ UNCHANGED <<conn, current, info, noise, daemonVars>>

WriteTail ==
  /\ stage \in {"wtail", "wlast"}
  /\ TakeBlock
  /\ relied' = relied \cup {sent}
  /\ \/ stage = "wtail" /\ sent < MaxSent /\ Issue("w", "file", fd)
     \/ Issue("close", "file", fd)
  /\ UNCHANGED <<current, info>>

\* Variant of AttrDone: Chmod does not wait for its answer.
AttrUnread ==
  /\ stage = "a"
  /\ relied' = relied
  /\ Issue("close", "file", fd)
  /\ UNCHANGED <<conn, current, info, toC, noise, daemonVars, faults>>

\* Chmod's answer; closeFile is deferred.
AttrDone ==
  /\ stage = "a"
  /\ TakeBlock
  /\ relied' = IF Block.line = "o" THEN relied \cup {sent} ELSE {}
  /\ Issue("close", "file", fd)
  /\ UNCHANGED <<current, info>>

\* closeFile.  Only Mkdir returns its error.
CloseDone ==
  /\ stage = "close"
  /\ TakeBlock
  /\ relied' = CASE op.kind = "mkdir" /\ Block.line = "o" -> relied \cup {sent}
                 [] op.kind = "mkdir" /\ Block.line # "o" -> {}
                 [] OTHER -> relied
  /\ Return
  /\ UNCHANGED <<current, info>>

-----------------------------------------------------------------------------
(* Failing reads *)

\* Any other error of the blocked read: the method returns it, after the
\* deferred closeFile if a descriptor is open.
Abandon ==
  /\ relied' = IF stage = "close" /\ op.kind # "mkdir" THEN relied ELSE {}
  /\ IF stage \in Returning THEN Return ELSE Issue("close", "file", fd)
  /\ UNCHANGED <<current, info>>

\* What a read leaves of the reply it was in the middle of.
Residues(r) == {r, [r EXCEPT !.line = "none"],
                [r EXCEPT !.line = "none", !.payload = FALSE]}

\* Variant of Timeout: readResponseLine sets no deadline.
TimeoutNotOnLines ==
  /\ stage \in Awaiting \ {"r", "w"}
  /\ conn = "up"
  /\ UNCHANGED <<toC, noise>>
  /\ faults' = faults \cup {"timeout"}
  /\ Abandon
  /\ UNCHANGED <<conn, daemonVars>>

\* The deadline passes before the response is complete.  What was read of it
\* is gone, the rest arrives later; the connection stays in the pool.
Timeout ==
  /\ stage \in Awaiting
  /\ conn = "up"
  /\ \/ /\ UNCHANGED <<toC, noise>>
     \/ /\ noise
        /\ noise' = FALSE
        /\ UNCHANGED toC
     \/ /\ toC # <<>>
        /\ noise' = FALSE
        /\ \E r \in Residues(Head(toC)) : toC' = <<r>> \o Tail(toC)
  /\ faults' = faults \cup {"timeout"}
  /\ Abandon
  /\ UNCHANGED <<conn, daemonVars>>

\* EOF, reset, or a closed socket, with no block or line to return.
ReadFails ==
  /\ stage \in Awaiting
  /\ conn = "down"
  /\ IF stage \in {"r", "w"} THEN ~ \E i \in 1..Len(toC) : LineAt(i)
                             ELSE ~ BlockReady
  /\ toC' = <<>>
  /\ noise' = FALSE
  /\ Abandon
  /\ UNCHANGED <<conn, daemonVars, faults>>

-----------------------------------------------------------------------------
(* The daemon and the network *)

\* session.dispatch: is command c one of the service the daemon is in?
Understood(c) ==
  CASE c.kind = "enter" -> svc = "broker"
    [] c.kind \in {"versions", "info"} -> svc = "broker"
    [] c.kind = "leave" -> \/ svc = "file"
                           \/ svc # "broker" /\ c.svc # "file"
    [] c.kind = "raw" -> TRUE
    [] c.kind = "kill" -> svc = "cntl"
    [] OTHER -> svc = "file"

\* The lines that answer a command carried out; "o:n" to a read has a payload.
\* The check of the count in readAt is for a daemon that may leave it out.
Answers(c) ==
  CASE c.kind = "enter" -> {"OK"}
    [] c.kind = "leave" -> {"none"}
    [] c.kind \in {"versions", "info", "raw"} -> {c.kind}
    [] c.kind = "open" -> {"o:fd"}
    [] c.kind = "r" -> {"o:n", "o:0", "o:?"}
    [] c.kind = "w" -> {"o:n", "o:0"}
    [] c.kind = "kill" -> {"ok"}
    [] OTHER -> {"o"}

\* The daemon reads one command, carries it out and answers with a line, a
\* payload and the prompt of the service it is then in.
Serve ==
  /\ conn = "up"
  /\ toD # <<>>
  /\ Understood(Head(toD))
  /\ toD' = Tail(toD)
  /\ svc' = CASE Head(toD).kind = "enter" -> Head(toD).svc
              [] Head(toD).kind = "leave" -> "broker"
              [] OTHER -> svc
  /\ fds' = CASE Head(toD).kind = "open" -> fds \cup {Head(toD).n}
              [] Head(toD).kind = "close" -> fds \ {Head(toD).fd}
              [] OTHER -> fds
  /\ performed' = IF Head(toD).kind = "raw" /\ svc # Head(toD).svc
                    THEN performed ELSE performed \cup {Head(toD).n}
  /\ \E line \in Answers(Head(toD)) :
       toC' = Append(toC, [re |-> Head(toD).n, line |-> line,
                           payload |-> Head(toD).kind = "r" /\ line = "o:n",
                           prompt |-> svc'])
  /\ UNCHANGED <<conn, clientVars, lockVars, noise, faults>>

\* Commands a daemon may refuse although it knows them ("e:<message>").
Refusable == {"enter", "open", "r", "w", "d", "a", "close", "kill"}

\* An error line and the prompt.  A descriptor whose close is refused is gone.
Refuse ==
  /\ conn = "up"
  /\ toD # <<>>
  /\ ~ Understood(Head(toD)) \/ Head(toD).kind \in Refusable
  /\ toD' = Tail(toD)
  /\ fds' = IF Head(toD).kind = "close" THEN fds \ {Head(toD).fd} ELSE fds
  /\ toC' = Append(toC, [re |-> Head(toD).n, line |-> "err",
                         payload |-> FALSE, prompt |-> svc])
  /\ UNCHANGED <<conn, clientVars, lockVars, noise, svc, performed, faults>>

\* The end of the stream cuts a reply anywhere.
Cuts(r) ==
  IF r.line = "none" THEN {}
  ELSE {[r EXCEPT !.prompt = "eof"],
        [r EXCEPT !.prompt = "eof", !.payload = FALSE],
        [r EXCEPT !.prompt = "eof", !.payload = FALSE, !.line = "part"]}

\* The daemon or the target goes away: commands are lost, and so is the end
\* of the stream.
Drop ==
  /\ conn = "up"
  /\ conn' = "down"
  /\ toD' = <<>>
  /\ fds' = {}
  /\ \/ /\ toC' = <<>>
        /\ noise' = FALSE
     \/ /\ \E k \in 0..Len(toC) : toC' = SubSeq(toC, 1, k)
        /\ UNCHANGED noise
     \/ /\ \E k \in 1..Len(toC) : \E r \in Cuts(toC[k]) :
             toC' = SubSeq(toC, 1, k - 1) \o <<r>>
        /\ noise' = (noise /\ stage # "greet")
  /\ UNCHANGED <<clientVars, lockVars, svc, performed, faults>>

-----------------------------------------------------------------------------
(* The specification *)

\* A connection just accepted: the greeting is banner, prompt, noise line.
Init ==
  /\ conn = "up"
  /\ current = "broker"
  /\ info = "none"
  /\ mu = NoCaller
  /\ waiting = {}
  /\ op = NoOp
  /\ stage = "greet"
  /\ fd = 0
  /\ sent = 0
  /\ toD = <<>>
  /\ toC = <<[re |-> 0, line |-> "banner", payload |-> FALSE,
              prompt |-> "broker"]>>
  /\ noise = TRUE
  /\ svc = "broker"
  /\ fds = {}
  /\ performed = {}
  /\ relied = {}
  /\ faults = {}

Receive == \/ LeaveDone \/ EnterDone \/ TextDone \/ InfoDone \/ StatusDone
           \/ OpenDone \/ ReadStatus \/ ReadTail \/ ReadResync
           \/ WriteStatus \/ WriteTail \/ AttrDone \/ CloseDone

\* The goroutine that holds Client.mu; SetDeadline bounds every read it makes.
Holder == Receive \/ Timeout \/ ReadFails

\* A caller at Client.mu runs its method.
Enter(c) == InfoCached(c) \/ Close(c) \/ \E o \in Ops : Acquire(c, o)

Next == \/ Handshake \/ DialFails
        \/ \E c \in Callers : Call(c) \/ Enter(c)
        \/ Holder
        \/ Serve \/ Refuse \/ Drop

Spec == Init /\ [][Next]_vars

\* A read returns or meets its deadline, and sync.Mutex starves no waiter.  Of the
\* daemon nothing is assumed but that an answer it begins has an end.
Fairness == WF_vars(Holder) /\ \A c \in Callers : SF_vars(Enter(c))
FairSpec == Spec /\ Fairness

-----------------------------------------------------------------------------
(* Properties *)

\* Every variable keeps its type, whatever the daemon, the network and the
\* callers do.
TypeOK ==
  /\ conn \in {"up", "down"}
  /\ current \in Services
  /\ info \in {"none", "whole", "wrong"}
  /\ mu \in Callers \cup {NoCaller}
  /\ waiting \in SUBSET Callers
  /\ op \in Ops \cup {NoOp}
  /\ stage \in Stages
  /\ fd \in Nat
  /\ sent \in Nat
  /\ toD \in Seq(Command)
  /\ toC \in Seq(Reply)
  /\ noise \in BOOLEAN
  /\ svc \in Services
  /\ fds \in SUBSET Nat
  /\ performed \in SUBSET Nat
  /\ relied \in SUBSET Nat
  /\ faults \in SUBSET FaultKinds

\* No read has stopped inside a response: no deadline passed, no write was
\* refused, no count of a read was missing, no block was ended by EOF.
Clean == faults = {}

\* As long as that is so, the reply a blocked method finds at the head of the
\* stream answers the command it wrote last, nothing follows it, and between
\* two methods the stream is empty: refused opens, reads, deletes and service
\* changes, a dying daemon, Close and other callers never shift the stream
\* (raw, readAt, writeAt, ensure).
OwnReply ==
  Clean => /\ stage \in Awaiting /\ toC # <<>> =>
                Len(toC) = 1 /\ Head(toC).re = sent /\ toD = <<>>
           /\ stage = "idle" => toC = <<>> /\ toD = <<>>

\* As long as that is so, Client.current is the service the daemon is in
\* whenever no method runs: ensure and leaveService never move one of the two
\* alone, not even when the daemon refuses the service.
ServiceAgrees ==
  Clean /\ stage = "idle" /\ conn = "up" => current = svc

\* As long as that is so, every exchange that a method takes for a success,
\* and so every success it reports, was carried out by the daemon, in the
\* service the method meant.
SuccessIsReal == Clean => relied \subseteq performed

\* As long as that is so, no method leaves a descriptor open on the target:
\* the deferred closeFile runs on every path out of a method that opened one.
NoDescriptorLeft == Clean /\ stage = "idle" => fds = {}

\* The linemode/echo error line is never where a status line is parsed by
\* readResponseLine, which does not filter it, timeouts or not: some block
\* read has always swallowed it before.
NoiseNeverStatus == stage \in {"r", "w"} => ~ noise

\* Every method call returns, whatever the daemon answers or fails to answer:
\* each read has a deadline and every path releases Client.mu.
CallsReturn == \A c \in Callers : c \in waiting ~> c \notin waiting

\* The client implements SerialClient as long as no fault is noted: calls of
\* concurrent goroutines run one after the other (Client.mu), no command is
\* carried out twice or after its method returned, and none is relied on
\* before it was carried out.
Serial == INSTANCE SerialClient WITH trusted <- Clean, holder <- mu, last <- sent
ImplementsSerial == Serial!Spec

-----------------------------------------------------------------------------
(* What comments of the code say that the code does not keep *)

\* readAt "consume[s] the trailing prompt to resync before returning"
\* (file.go:96); the same for writeAt would keep every later success real
\* after a refused write.
SuccessIsRealAfterRefusedWrite ==
  faults \subseteq {"write"} => relied \subseteq performed

\* The client is "safe for concurrent use: a mutex serializes the [...]
\* request/response exchanges" (client.go:52): a method whose read timed out
\* does not make a later one report a success that did not happen.
SuccessIsRealAfterTimeout ==
  faults \subseteq {"timeout"} => relied \subseteq performed
=============================================================================
