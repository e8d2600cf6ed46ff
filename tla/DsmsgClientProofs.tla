-------------------------- MODULE DsmsgClientProofs --------------------------
(***************************************************************************)
(* Proofs about DsmsgClient, for any number of commands, any length of the *)
(* queues and any set of signals.                                          *)
(***************************************************************************)
EXTENDS DsmsgClient, SequenceTheorems, TLAPS

-----------------------------------------------------------------------------
(* The inductive invariant *)

Awaiting == {"connect", "protover", "reply"}

\* Running Continue or Step, before or after the acknowledgement.
AtRun == stage = "stop" \/ (stage = "reply" /\ Head(todo) = "run")

\* What is in the stream from pdebug belongs to the last command.
FramesInv ==
  /\ \A i \in 1..Len(toC) : /\ toC[i].kind # "bad"
                            /\ IsAnswer(toC[i]) => toC[i].re = sent /\ stage \in Waiting /\ toD = <<>>
  /\ \A i, j \in 1..Len(toC) :
       IsAnswer(toC[i]) /\ IsAnswer(toC[j]) /\ i < j => toC[i].kind = "reply" /\ toC[j].kind = "notify"
  /\ \A i \in 1..Len(toC) : toC[i].kind = "reply" => stage # "stop"
  /\ \A j \in 1..Len(toC) : toC[j].kind = "notify" =>
       /\ AtRun /\ proc # "running"
       /\ stage = "reply" => \E i \in 1..Len(toC) : i < j /\ toC[i].kind = "reply"

\* What is on its way to pdebug is the last command.
CommandsInv ==
  /\ conn = "down" \/ stage \notin Awaiting => toD = <<>>
  /\ toD # <<>> => /\ Len(toD) = 1 /\ toD[1].n = sent
                   /\ toD[1].cmd = IF stage = "reply" THEN Head(todo) ELSE stage

\* A process that runs does so under the last command.
RunInv ==
  conn = "up" /\ proc = "running" =>
    /\ AtRun /\ run = sent /\ toD = <<>>
    /\ stage = "reply" => \E i \in 1..Len(toC) : toC[i].kind = "reply"

\* The table of signals, and the change under way.
SignalInv ==
  /\ settled => passed = tpassed
  /\ tool = "signal" => todo = <<"handlesig">> /\ ~settled
  /\ tool # "signal" => \A i \in 1..Len(todo) : todo[i] # "handlesig"
  /\ toD # <<>> /\ tool = "signal" => toD[1].tbl = passed
  /\ tool = "signal" => \A i \in 1..Len(toC) :
       toC[i].kind = "reply" /\ toC[i].code = "ok" => passed = tpassed

Aligned == FramesInv /\ CommandsInv /\ RunInv /\ SignalInv /\ OwnFrame(taken)

IInv == TypeOK /\ (Clean => Aligned)

-----------------------------------------------------------------------------
(* Scripts and sequences *)

\* Every handler's script is a non-empty sequence of commands, and only
\* debug_handle_signal sends HandleSig.
LEMMA Scripts ==
  \A t \in Tools : /\ Script[t] \in Seq(Commands) /\ Script[t] # <<>>
                   /\ t = "signal" => Script[t] = <<"handlesig">>
                   /\ t # "signal" => \A i \in 1..Len(Script[t]) : Script[t][i] # "handlesig"
<1> SUFFICES ASSUME NEW t \in Tools
             PROVE  /\ Script[t] \in Seq(Commands) /\ Script[t] # <<>>
                    /\ t = "signal" => Script[t] = <<"handlesig">>
                    /\ t # "signal" => \A i \in 1..Len(Script[t]) : Script[t][i] # "handlesig"
  OBVIOUS
<1>1. \A k \in 1..Len(Script[t]) : Script[t][k] \in Commands
  BY DEF Commands
<1> DEFINE One == {"regrd", "regwr", "memrd", "memwr", "brk", "select", "handlesig", "cpuinfo",
                   "procmap", "run", "detach"}
<1>2. \/ \E x \in One : Script[t] = <<x>> /\ (t # "signal" => x # "handlesig")
      \/ t # "signal" /\ Script[t] = <<"attach", "select">>
      \/ t # "signal" /\ Script[t] = <<"pidlist", "tidnames">>
      \/ t # "signal" /\ Script[t] = <<"env", "load", "select">>
  BY DEF Tools, Script
<1>3. Script[t] \in Seq(Commands) /\ Script[t] # <<>>
  <2>1. CASE \E x \in One : Script[t] = <<x>>
    <3>1. PICK x \in One : Script[t] = <<x>>
      BY <2>1
    <3>2. x \in Commands
      BY <1>1, <3>1
    <3> QED
      BY <3>1, <3>2
  <2>2. ASSUME NEW x, NEW y, Script[t] = <<x, y>>
        PROVE  Script[t] \in Seq(Commands) /\ Script[t] # <<>>
    <3>1. x \in Commands /\ y \in Commands
      BY <1>1, <2>2
    <3> QED
      BY <2>2, <3>1
  <2>3. ASSUME NEW x, NEW y, NEW z, Script[t] = <<x, y, z>>
        PROVE  Script[t] \in Seq(Commands) /\ Script[t] # <<>>
    <3>1. x \in Commands /\ y \in Commands /\ z \in Commands
      BY <1>1, <2>3
    <3> QED
      BY <2>3, <3>1
  <2> QED
    BY <1>2, <2>1, <2>2, <2>3
<1>4. t = "signal" => Script[t] = <<"handlesig">>
  BY DEF Script
<1>5. t # "signal" => \A i \in 1..Len(Script[t]) : Script[t][i] # "handlesig"
  BY <1>2
<1> QED
  BY <1>3, <1>4, <1>5

\* A longer history leaves the commands under way well typed.
Command(k) == [n : 1..k, cmd : Commands \cup {"connect", "protover"}, tbl : SUBSET Signals]

LEMMA Widen ==
  ASSUME NEW k \in Nat, NEW q \in Seq(Command(k))
  PROVE  q \in Seq(Command(k + 1))
<1>1. \A c \in Command(k) : c \in Command(k + 1)
  BY DEF Command
<1> QED
  BY <1>1

-----------------------------------------------------------------------------
(* Types *)

\* What the client changes of its own when a call goes on or returns.
MoveOK ==
  /\ stage' \in Stages
  /\ tool' \in Tools \cup {"none"}
  /\ todo' \in Seq(Commands)
  /\ (stage' \in {"reply", "stop"}) <=> (todo' # <<>>)
  /\ sent' \in Nat /\ sent <= sent'
  /\ toD' \in Seq(Command(sent'))

\* Writing a command, and leaving the connection as it is.
LEMMA WriteType ==
  ASSUME TypeOK, NEW c \in Commands \cup {"connect", "protover"},
         NEW tbl \in SUBSET Signals, Write(c, tbl)
  PROVE  sent' \in Nat /\ sent <= sent' /\ toD' \in Seq(Command(sent'))
<1>1. sent \in Nat /\ sent' = sent + 1 /\ toD \in Seq(Command(sent))
  BY DEF TypeOK, Write, Command
<1>2. toD \in Seq(Command(sent'))
  BY <1>1, Widen
<1>3. [n |-> sent + 1, cmd |-> c, tbl |-> tbl] \in Command(sent')
  BY <1>1 DEF Command
<1>4. Append(toD, [n |-> sent + 1, cmd |-> c, tbl |-> tbl]) \in Seq(Command(sent'))
  BY <1>2, <1>3, AppendProperties
<1>5. CASE conn = "up"
  <2>1. toD' = Append(toD, [n |-> sent + 1, cmd |-> c, tbl |-> tbl])
    BY <1>5 DEF Write
  <2> QED
    BY <1>1, <1>4, <2>1
<1>6. CASE conn # "up"
  <2>1. toD' = toD
    BY <1>6 DEF Write
  <2> QED
    BY <1>1, <1>2, <2>1
<1> QED
  BY <1>5, <1>6

LEMMA ProceedType ==
  ASSUME TypeOK, NEW rest \in Seq(Commands), Proceed(rest)
  PROVE  MoveOK
<1>1. CASE rest = <<>>
  <2>1. todo' = <<>> /\ tool' = "none" /\ stage' \in {"closed", "idle"} /\ sent' = sent /\ toD' = toD
    BY <1>1 DEF Proceed
  <2>2. sent \in Nat /\ toD \in Seq(Command(sent))
    BY DEF TypeOK, Command
  <2> QED
    BY <2>1, <2>2, EmptySeq DEF MoveOK, Stages
<1>2. CASE rest # <<>>
  <2>1. todo' = rest /\ tool' = tool /\ stage' = "reply" /\ Write(Head(rest), {})
    BY <1>2 DEF Proceed, Send
  <2>2. Head(rest) \in Commands
    BY <1>2, HeadTailProperties
  <2>3. sent' \in Nat /\ sent <= sent' /\ toD' \in Seq(Command(sent'))
    BY <2>1, <2>2, WriteType
  <2> QED
    BY <1>2, <2>1, <2>3 DEF MoveOK, Stages, TypeOK
<1> QED
  BY <1>1, <1>2

LEMMA GiveUpType ==
  ASSUME TypeOK, GiveUp
  PROVE  MoveOK
<1>1. todo' = <<>> /\ tool' = "none" /\ stage' \in {"closed", "idle"} /\ sent' = sent /\ toD' = toD
  BY DEF GiveUp
<1>2. sent \in Nat /\ toD \in Seq(Command(sent))
  BY DEF TypeOK, Command
<1> QED
  BY <1>1, <1>2, EmptySeq DEF MoveOK, Stages

LEMMA FailType ==
  ASSUME TypeOK, Fail
  PROVE  MoveOK
<1>1. CASE Ignored /\ stage = "reply"
  <2>1. Tail(todo) \in Seq(Commands)
    BY <1>1, HeadTailProperties DEF TypeOK
  <2> QED
    BY <1>1, <2>1, ProceedType, Zenon DEF Fail
<1>2. CASE ~(Ignored /\ stage = "reply")
  BY <1>2, GiveUpType DEF Fail
<1> QED
  BY <1>1, <1>2

\* A move of the client, with what is left of the frames, keeps the types.
LEMMA MoveType ==
  ASSUME TypeOK, MoveOK, toC' \in Seq(Frame), UNCHANGED <<conn, targetVars>>,
         passed' \subseteq Signals, settled' \in BOOLEAN,
         taken' \in [n : Nat, want : Waiting, re : Nat,
                     kind : {"control", "text", "reply", "notify", "bad"}],
         faults' \subseteq {"timeout"}
  PROVE  TypeOK'
<1>1. run' \in 0..sent'
  BY DEF TypeOK, MoveOK, targetVars
<1>2. owned' \in BOOLEAN /\ tpassed' \subseteq Signals /\ conn' \in {"up", "down"}
      /\ proc' \in {"none", "stopped", "running"}
  BY DEF TypeOK, targetVars
<1>3. toD' \in Seq([n : 1..sent', cmd : Commands \cup {"connect", "protover"}, tbl : SUBSET Signals])
  BY DEF MoveOK, Command
<1> QED
  BY <1>1, <1>2, <1>3, SMTT(30) DEF TypeOK, MoveOK

LEMMA TakeType ==
  ASSUME TypeOK, Take, stage \in Waiting
  PROVE  /\ toC' \in Seq(Frame) /\ Head(toC) \in Frame
         /\ taken' \in [n : Nat, want : Waiting, re : Nat,
                        kind : {"control", "text", "reply", "notify", "bad"}]
         /\ UNCHANGED <<conn, targetVars>> /\ faults' \subseteq {"timeout"}
<1>1. Head(toC) \in Frame /\ Tail(toC) \in Seq(Frame)
  BY HeadTailProperties DEF TypeOK, Take
<1> QED
  BY <1>1, Zenon DEF TypeOK, Take, Frame

LEMMA TypeStep ==
  ASSUME TypeOK, [Next]_vars
  PROVE  TypeOK'
<1>0. toC # <<>> => Head(toC) \in Frame /\ Tail(toC) \in Seq(Frame)
  BY HeadTailProperties DEF TypeOK
<1>s. /\ passed \subseteq Signals /\ settled \in BOOLEAN /\ faults \subseteq {"timeout"}
      /\ taken \in [n : Nat, want : Waiting, re : Nat,
                   kind : {"control", "text", "reply", "notify", "bad"}]
  BY DEF TypeOK
<1>1. CASE Reset
  <2>1. toC' \in Seq(Frame) /\ UNCHANGED <<conn, taken, passed, settled, targetVars, faults>>
    BY <1>1, <1>0 DEF Reset, sigVars
  <2>2. MoveOK
    <3>1. CASE GiveUp
      BY <3>1, GiveUpType
    <3>2. CASE Write("connect", {}) /\ stage' = "connect" /\ UNCHANGED <<tool, todo>>
      <4>1. sent' \in Nat /\ sent <= sent' /\ toD' \in Seq(Command(sent'))
        BY <3>2, WriteType
      <4> QED
        BY <1>1, <3>2, <4>1 DEF MoveOK, TypeOK, Stages, Reset
    <3> QED
      BY <1>1, <3>1, <3>2 DEF Reset, Send
  <2> QED
    BY <2>1, <2>2, MoveType, <1>s
<1>2. CASE Skip
  <2>1. toC' \in Seq(Frame) /\ UNCHANGED <<conn, stage, tool, todo, sent, toD, taken, passed, settled, targetVars, faults>>
    BY <1>2, <1>0 DEF Skip, clientVars, sigVars
  <2> QED
    BY <2>1 DEF TypeOK, targetVars
<1>3. CASE BadFrame
  <2>1. toC' \in Seq(Frame) /\ UNCHANGED <<conn, taken, passed, settled, targetVars, faults>>
    BY <1>3, <1>0 DEF BadFrame, sigVars
  <2>2. MoveOK
    BY <1>3, FailType DEF BadFrame
  <2> QED
    BY <2>1, <2>2, MoveType, <1>s
<1>4. CASE Handshake
  <2>1. Take /\ stage \in Waiting /\ UNCHANGED <<tool, todo, passed, settled>>
    BY <1>4 DEF Handshake, Waiting, sigVars
  <2>2. MoveOK
    <3>1. CASE stage = "connect" /\ stage' = "protover" /\ Write("protover", {})
      <4>1. sent' \in Nat /\ sent <= sent' /\ toD' \in Seq(Command(sent'))
        BY <3>1, WriteType, Zenon
      <4> QED
        BY <2>1, <3>1, <4>1 DEF MoveOK, TypeOK, Stages
    <3>2. CASE stage = "protover" /\ stage' = "ready" /\ UNCHANGED <<sent, toD>>
      <4>1. sent' \in Nat /\ sent <= sent' /\ toD' \in Seq(Command(sent'))
        BY <3>2 DEF TypeOK, Command
      <4> QED
        BY <2>1, <3>2, <4>1 DEF MoveOK, TypeOK, Stages
    <3> QED
      BY <1>4, <3>1, <3>2 DEF Handshake, Send
  <2> QED
    BY <2>1, <2>2, TakeType, MoveType, <1>s
<1>5. CASE Reply
  <2>1. Take /\ stage \in Waiting /\ stage = "reply" /\ passed' = passed /\ settled' \in BOOLEAN
    BY <1>5, <1>s DEF Reply, Waiting
  <2>2. todo # <<>> /\ todo \in Seq(Commands) /\ Tail(todo) \in Seq(Commands)
    BY <2>1, HeadTailProperties DEF TypeOK
  <2>3. MoveOK
    <3>1. CASE stage' = "stop" /\ UNCHANGED <<tool, todo, sent, toD>>
      <4>1. sent' \in Nat /\ sent <= sent' /\ toD' \in Seq(Command(sent'))
        BY <3>1 DEF TypeOK, Command
      <4> QED
        BY <2>2, <3>1, <4>1 DEF MoveOK, TypeOK, Stages
    <3>2. CASE GiveUp
      BY <3>2, GiveUpType
    <3>3. CASE Proceed(Tail(todo))
      BY <2>2, <3>3, ProceedType, Zenon
    <3>4. CASE Proceed(todo)
      BY <2>2, <3>4, ProceedType
    <3> QED
      BY <1>5, <3>1, <3>2, <3>3, <3>4 DEF Reply
  <2> QED
    BY <2>1, <2>3, TakeType, MoveType, <1>s
<1>6. CASE Stopped
  <2>1. Take /\ stage \in Waiting /\ UNCHANGED <<passed, settled>> /\ Proceed(<<>>)
    BY <1>6 DEF Stopped, Waiting, sigVars
  <2>2. MoveOK
    BY <2>1, ProceedType, EmptySeq, Zenon
  <2> QED
    BY <2>1, <2>2, TakeType, MoveType, <1>s
<1>7. CASE Timeout
  <2>1. toC' \in Seq(Frame)
    <3>1. CASE UNCHANGED toC
      BY <3>1 DEF TypeOK
    <3>2. CASE toC # <<>> /\ toC' = <<Bad>> \o Tail(toC)
      <4>1. <<Bad>> \in Seq(Frame)
        BY DEF Bad, Frame
      <4> QED
        BY <1>0, <3>2, <4>1, ConcatProperties
    <3> QED
      BY <1>7, <3>1, <3>2 DEF Timeout
  <2>2. MoveOK
    BY <1>7, FailType DEF Timeout
  <2>3. UNCHANGED <<conn, taken, passed, settled, targetVars>> /\ faults' = faults \cup {"timeout"}
    BY <1>7 DEF Timeout, sigVars
  <2> QED
    BY <2>1, <2>2, <2>3, MoveType, <1>s
<1>8. CASE ReadFails
  <2>1. toC' \in Seq(Frame) /\ UNCHANGED <<conn, taken, passed, settled, targetVars, faults>>
    BY <1>8 DEF ReadFails, sigVars, TypeOK
  <2>2. MoveOK
    BY <1>8, FailType DEF ReadFails
  <2> QED
    BY <2>1, <2>2, MoveType, <1>s
<1>9. ASSUME NEW t \in Tools, Begin(t)
      PROVE  TypeOK'
  <2>1. PICK tbl \in Tables(t) : passed' = tbl /\ Write(Head(Script[t]), TableSent(t, tbl))
    BY <1>9 DEF Begin
  <2>2. tbl \in SUBSET Signals /\ TableSent(t, tbl) \in SUBSET Signals
    BY <1>s DEF Tables, TableSent
  <2>3. Script[t] \in Seq(Commands) /\ Script[t] # <<>> /\ Head(Script[t]) \in Commands
    BY Scripts, HeadTailProperties
  <2>4. sent' \in Nat /\ sent <= sent' /\ toD' \in Seq(Command(sent'))
    BY <2>1, <2>2, <2>3, WriteType
  <2>5. MoveOK
    BY <1>9, <2>3, <2>4 DEF MoveOK, Begin, Stages
  <2>6. settled' \in BOOLEAN
    BY <1>9 DEF Begin
  <2>7. UNCHANGED <<conn, taken, toC, targetVars, faults>>
    BY <1>9 DEF Begin
  <2>8. toC' \in Seq(Frame) /\ faults' \subseteq {"timeout"}
        /\ taken' \in [n : Nat, want : Waiting, re : Nat,
                       kind : {"control", "text", "reply", "notify", "bad"}]
    BY <2>7 DEF TypeOK
  <2> QED
    BY <2>1, <2>2, <2>5, <2>6, <2>7, <2>8, MoveType
<1>10. ASSUME NEW code \in {"ok", "err"}, Serve(code)
       PROVE  TypeOK'
  <2>1. /\ Head(toD) \in Command(sent)
        /\ Tail(toD) \in Seq([n : 1..sent, cmd : Commands \cup {"connect", "protover"}, tbl : SUBSET Signals])
    BY <1>10, HeadTailProperties, Zenon DEF Serve, TypeOK, Command
  <2>2. Answer(Head(toD), code) \in Frame
    BY <2>1 DEF Answer, Frame, Command, TypeOK
  <2>3. toC' \in Seq(Frame)
    BY <1>10, <2>2, AppendProperties DEF Serve, TypeOK
  <2>4. UNCHANGED <<conn, stage, tool, todo, sent, taken, passed, settled, faults>> /\ toD' = Tail(toD)
    BY <1>10 DEF Serve, clientVars, sigVars
  <2>5. proc' \in {"none", "stopped", "running"}
    BY <1>10, SMTT(30) DEF Serve, TypeOK, targetVars
  <2>6. run' \in 0..sent
    BY <1>10, <2>1, SMTT(30), SMTT(60) DEF Serve, TypeOK, targetVars, Command
  <2>7. tpassed' \subseteq Signals
    BY <1>10, <2>1, SMTT(30) DEF Serve, TypeOK, targetVars, Command
  <2>8. owned' \in BOOLEAN
    BY <1>10, Zenon DEF Serve, TypeOK, targetVars
  <2> QED
    BY <2>1, <2>3, <2>4, <2>5, <2>6, <2>7, <2>8, Zenon DEF TypeOK
<1>11. ASSUME NEW p \in {"stopped", "none"}, StopEvent(p)
       PROVE  TypeOK'
  <2>1. [kind |-> "notify", re |-> run, code |-> "ok"] \in Frame
    BY DEF Frame, TypeOK
  <2>2. toC' \in Seq(Frame)
    BY <1>11, <2>1, AppendProperties DEF StopEvent, TypeOK
  <2>3. UNCHANGED <<conn, stage, tool, todo, sent, taken, passed, settled, faults, toD, run, owned, tpassed>> /\ proc' = p
    BY <1>11 DEF StopEvent, clientVars, sigVars
  <2> QED
    BY <2>2, <2>3 DEF TypeOK
<1>12. CASE PrintText
  <2>1. toC' \in Seq(Frame)
    <3>1. Text \in Frame
      BY DEF Text, Frame
    <3> QED
      BY <1>12, <3>1, AppendProperties DEF PrintText, TypeOK
  <2>2. UNCHANGED <<conn, stage, tool, todo, sent, taken, passed, settled, faults, toD, proc, run, owned, tpassed>>
    BY <1>12 DEF PrintText, clientVars, sigVars, targetVars
  <2> QED
    BY <2>1, <2>2 DEF TypeOK
<1>13. ASSUME NEW k \in 0..Len(toC), Drop(k)
       PROVE  TypeOK'
  <2>1. toC' \in Seq(Frame)
    <3>1. \A i \in 1..k : toC[i] \in Frame
      BY ElementOfSeq DEF TypeOK
    <3>2. k \in Int /\ 1 \in Int
      BY DEF TypeOK
    <3> QED
      BY <1>13, <3>1, <3>2, SubSeqProperties DEF Drop
  <2>2. UNCHANGED <<stage, tool, todo, sent, taken, passed, settled, faults, proc, run, owned, tpassed>>
        /\ toD' = <<>> /\ conn' = "down"
    BY <1>13 DEF Drop, clientVars, sigVars, targetVars
  <2>3. toD' \in Seq([n : 1..sent, cmd : Commands \cup {"connect", "protover"}, tbl : SUBSET Signals])
    BY <2>2, EmptySeq
  <2> QED
    BY <2>1, <2>2, <2>3 DEF TypeOK
<1>14. CASE UNCHANGED vars
  BY <1>14 DEF vars, clientVars, sigVars, targetVars, TypeOK
<1> QED
  BY <1>1, <1>2, <1>3, <1>4, <1>5, <1>6, <1>7, <1>8, <1>9, <1>10, <1>11, <1>12, <1>13, <1>14
     DEF Next, Client, Target

-----------------------------------------------------------------------------
(* The stream *)

\* No frame of q is an answer or damaged.
Quiet(q) == \A i \in 1..Len(q) : q[i].kind # "bad" /\ ~IsAnswer(q[i])

\* With a quiet stream and a process at rest, only the commands matter.
LEMMA CalmStep ==
  ASSUME TypeOK, TypeOK', Quiet(toC'), ~(conn' = "up" /\ proc' = "running"), CommandsInv'
  PROVE  FramesInv' /\ RunInv'
<1>1. FramesInv'
  BY DEF FramesInv, Quiet, IsAnswer
<1>2. RunInv'
  BY DEF RunInv
<1> QED
  BY <1>1, <1>2

\* Between commands, one may be written.
LEMMA WriteStep ==
  ASSUME TypeOK, TypeOK', toD = <<>>, NEW c, NEW tbl, Write(c, tbl), conn' = conn,
         stage' \in Awaiting, c = IF stage' = "reply" THEN Head(todo') ELSE stage'
  PROVE  CommandsInv' /\ (toD' # <<>> => toD'[1].tbl = tbl)
<1>1. CASE conn = "up"
  <2>1. toD' = <<[n |-> sent + 1, cmd |-> c, tbl |-> tbl]>> /\ sent' = sent + 1
    BY <1>1 DEF Write
  <2> QED
    BY <1>1, <2>1 DEF CommandsInv
<1>2. CASE conn # "up"
  <2>1. toD' = <<>>
    BY <1>2 DEF Write
  <2> QED
    BY <2>1 DEF CommandsInv
<1> QED
  BY <1>1, <1>2

\* What a tool in its course leaves: an alignment of the commands, and no
\* change of signals under way.
Onward ==
  /\ CommandsInv'
  /\ tool' # "signal"
  /\ \A i \in 1..Len(todo') : todo'[i] # "handlesig"

LEMMA ProceedStep ==
  ASSUME TypeOK, TypeOK', toD = <<>>, conn' = conn, NEW rest \in Seq(Commands), Proceed(rest),
         tool # "signal" \/ rest = <<>>, \A i \in 1..Len(rest) : rest[i] # "handlesig"
  PROVE  Onward
<1>1. CASE rest = <<>>
  <2>1. toD' = <<>> /\ tool' = "none" /\ todo' = <<>> /\ stage' \in {"closed", "idle"}
    BY <1>1 DEF Proceed
  <2> QED
    BY <2>1 DEF Onward, CommandsInv
<1>2. CASE rest # <<>>
  <2>1. todo' = rest /\ tool' = tool /\ stage' = "reply" /\ Write(Head(rest), {})
    BY <1>2 DEF Proceed, Send
  <2>2. CommandsInv'
    BY <2>1, WriteStep DEF Awaiting
  <2> QED
    BY <1>2, <2>1, <2>2 DEF Onward
<1> QED
  BY <1>1, <1>2

LEMMA GiveUpStep ==
  ASSUME TypeOK, TypeOK', toD = <<>>, GiveUp
  PROVE  Onward
<1>1. toD' = <<>> /\ tool' = "none" /\ todo' = <<>> /\ stage' \in {"closed", "idle"}
  BY DEF GiveUp
<1> QED
  BY <1>1 DEF Onward, CommandsInv

\* The rest of a script without HandleSig has none.
LEMMA RestOfScript ==
  ASSUME TypeOK, SignalInv, todo # <<>>
  PROVE  /\ Tail(todo) \in Seq(Commands)
         /\ tool # "signal" \/ Tail(todo) = <<>>
         /\ \A i \in 1..Len(Tail(todo)) : Tail(todo)[i] # "handlesig"
<1>1. /\ Tail(todo) \in Seq(Commands) /\ Len(Tail(todo)) = Len(todo) - 1 /\ Len(todo) \in Nat
      /\ \A i \in 1..Len(Tail(todo)) : Tail(todo)[i] = todo[i + 1]
  BY HeadTailProperties, LenProperties DEF TypeOK
<1>2. CASE tool = "signal"
  <2>1. todo = <<"handlesig">>
    BY <1>2 DEF SignalInv
  <2>2. Tail(todo) = <<>> /\ Len(Tail(todo)) = 0
    BY <2>1
  <2>4. 1..Len(Tail(todo)) = {}
    BY <2>2
  <2>3. \A i \in 1..Len(Tail(todo)) : Tail(todo)[i] # "handlesig"
    BY <2>4, Zenon
  <2> QED
    BY <1>1, <2>2, <2>3
<1>3. CASE tool # "signal"
  <2>1. \A i \in 1..Len(todo) : todo[i] # "handlesig"
    BY <1>3 DEF SignalInv
  <2> QED
    BY <1>1, <1>3, <2>1
<1> QED
  BY <1>2, <1>3

LEMMA FailStep ==
  ASSUME TypeOK, TypeOK', SignalInv, toD = <<>>, conn' = conn, Fail
  PROVE  Onward
<1>1. CASE Ignored /\ stage = "reply"
  <2>1. todo # <<>>
    BY <1>1 DEF TypeOK
  <2> QED
    BY <1>1, <2>1, RestOfScript, ProceedStep, Zenon DEF Fail
<1>2. CASE ~(Ignored /\ stage = "reply")
  BY <1>2, GiveUpStep DEF Fail
<1> QED
  BY <1>1, <1>2

\* The table of signals once no change is under way.
LEMMA OnwardSignals ==
  ASSUME Onward, settled' => passed' = tpassed'
  PROVE  SignalInv'
BY DEF Onward, SignalInv

\* The head of the stream is the answer waited for, and nothing of the exchange
\* is left behind it unless it acknowledges Run.
LEMMA Answered ==
  ASSUME TypeOK, Aligned, toC # <<>>, IsAnswer(Head(toC))
  PROVE  /\ stage \in Waiting /\ toD = <<>> /\ Head(toC).re = sent
         /\ Head(toC).kind = IF stage = "stop" THEN "notify" ELSE "reply"
         /\ ~(stage = "reply" /\ Head(todo) = "run") =>
              Quiet(Tail(toC)) /\ ~(conn = "up" /\ proc = "running")
<1>1. /\ Len(toC) \in Nat /\ Len(toC) >= 1 /\ Head(toC) = toC[1]
      /\ Len(Tail(toC)) = Len(toC) - 1
      /\ \A i \in 1..Len(Tail(toC)) : Tail(toC)[i] = toC[i + 1]
  BY HeadTailProperties, EmptySeq, LenProperties DEF TypeOK
<1>2. stage \in Waiting /\ toD = <<>> /\ toC[1].re = sent
  BY <1>1 DEF Aligned, FramesInv
<1>3. toC[1].kind = "notify" => stage = "stop"
  BY <1>1 DEF Aligned, FramesInv, AtRun
<1>4. toC[1].kind = "reply" => stage # "stop"
  BY <1>1 DEF Aligned, FramesInv
<1>5. toC[1].kind \in {"reply", "notify"}
  BY <1>1 DEF IsAnswer
<1>6. ASSUME ~(stage = "reply" /\ Head(todo) = "run")
      PROVE  Quiet(Tail(toC)) /\ ~(conn = "up" /\ proc = "running")
  <2>1. ASSUME NEW i \in 2..Len(toC)
        PROVE  toC[i].kind # "bad" /\ ~IsAnswer(toC[i])
    <3>1. toC[i].kind # "bad"
      BY <1>1 DEF Aligned, FramesInv
    <3>2. ASSUME IsAnswer(toC[i]) PROVE FALSE
      <4>1. toC[1].kind = "reply" /\ toC[i].kind = "notify"
        BY <1>1, <3>2 DEF Aligned, FramesInv
      <4>2. AtRun
        BY <1>1, <4>1 DEF Aligned, FramesInv
      <4> QED
        BY <1>4, <1>6, <4>1, <4>2 DEF AtRun
    <3> QED
      BY <3>1, <3>2
  <2>2. Quiet(Tail(toC))
    BY <1>1, <2>1 DEF Quiet
  <2>3. ASSUME conn = "up", proc = "running" PROVE FALSE
    <3>1. AtRun
      BY <2>3 DEF Aligned, RunInv
    <3>2. toC[1].kind = "notify" => proc # "running"
      BY <1>1 DEF Aligned, FramesInv
    <3> QED
      BY <1>4, <1>5, <1>6, <2>3, <3>1, <3>2 DEF AtRun
  <2> QED
    BY <2>2, <2>3
<1> QED
  BY <1>1, <1>2, <1>3, <1>4, <1>5, <1>6

-----------------------------------------------------------------------------
(* The client's steps *)

\* One step of the invariant, from the parts.
LEMMA AlignedStep ==
  ASSUME TypeOK, TypeOK', Onward, Quiet(toC'), ~(conn' = "up" /\ proc' = "running"),
         settled' => passed' = tpassed', OwnFrame(taken')
  PROVE  Aligned'
<1>1. CommandsInv'
  BY DEF Onward
<1>2. FramesInv' /\ RunInv'
  BY <1>1, CalmStep
<1>3. SignalInv'
  BY OnwardSignals
<1> QED
  BY <1>1, <1>2, <1>3 DEF Aligned

\* Outside a wait the stream is quiet and the process at rest.
LEMMA AtRest ==
  ASSUME TypeOK, Aligned, stage \notin Waiting
  PROVE  Quiet(toC) /\ toD = <<>> /\ ~(conn = "up" /\ proc = "running")
<1>1. Quiet(toC)
  BY DEF Aligned, FramesInv, Quiet
<1>2. toD = <<>>
  BY DEF Aligned, CommandsInv, Awaiting, Waiting
<1>3. ~(conn = "up" /\ proc = "running")
  BY DEF Aligned, RunInv, AtRun, Waiting
<1> QED
  BY <1>1, <1>2, <1>3

LEMMA QuietTail ==
  ASSUME TypeOK, toC # <<>>, Quiet(toC)
  PROVE  Quiet(Tail(toC))
<1>1. /\ Len(toC) \in Nat /\ Len(Tail(toC)) = Len(toC) - 1
      /\ \A i \in 1..Len(Tail(toC)) : Tail(toC)[i] = toC[i + 1]
  BY HeadTailProperties, LenProperties DEF TypeOK
<1> QED
  BY <1>1 DEF Quiet

LEMMA ResetStep ==
  ASSUME TypeOK, TypeOK', Aligned, Reset
  PROVE  Aligned'
<1>1. Quiet(toC) /\ toD = <<>> /\ ~(conn = "up" /\ proc = "running")
  BY AtRest DEF Reset, Waiting
<1>2. Quiet(toC')
  BY <1>1, QuietTail DEF Reset
<1>3. UNCHANGED <<conn, taken, passed, settled, proc, tpassed>>
  BY DEF Reset, sigVars, targetVars
<1>4. todo = <<>> /\ tool # "signal"
  <2>1. todo = <<>>
    BY DEF Reset, TypeOK
  <2> QED
    BY <2>1 DEF Aligned, SignalInv
<1>5. Onward
  <2>1. CASE GiveUp
    BY <1>1, <2>1, GiveUpStep
  <2>2. CASE Write("connect", {}) /\ stage' = "connect" /\ UNCHANGED <<tool, todo>>
    <3>1. CommandsInv'
      BY <1>1, <1>3, <2>2, WriteStep DEF Awaiting
    <3> QED
      BY <1>4, <2>2, <3>1 DEF Onward
  <2> QED
    BY <2>1, <2>2 DEF Reset, Send
<1>6. settled' => passed' = tpassed'
  BY <1>3 DEF Aligned, SignalInv
<1>7. OwnFrame(taken')
  BY <1>3 DEF Aligned
<1> QED
  BY <1>1, <1>2, <1>3, <1>5, <1>6, <1>7, AlignedStep

LEMMA SkipStep ==
  ASSUME TypeOK, TypeOK', Aligned, Skip
  PROVE  Aligned'
<1>1. /\ Len(toC) \in Nat /\ Len(toC) >= 1 /\ Head(toC) = toC[1] /\ toC' = Tail(toC)
      /\ Len(toC') = Len(toC) - 1
      /\ \A i \in 1..Len(toC') : toC'[i] = toC[i + 1]
  BY HeadTailProperties, EmptySeq, LenProperties DEF TypeOK, Skip
<1>2. UNCHANGED <<conn, stage, tool, todo, sent, taken, passed, settled, toD, proc, run, tpassed>>
  BY DEF Skip, clientVars, sigVars, targetVars
<1>3. toC[1].kind \in {"control", "text"}
  BY <1>1 DEF Skip
<1>4. CommandsInv'
  BY <1>2 DEF Aligned, CommandsInv
<1>5. FramesInv'
  <2>1. ASSUME NEW i \in 1..Len(toC')
        PROVE  /\ toC'[i].kind # "bad"
               /\ IsAnswer(toC'[i]) => toC'[i].re = sent' /\ stage' \in Waiting /\ toD' = <<>>
               /\ toC'[i].kind = "reply" => stage' # "stop"
    BY <1>1, <1>2 DEF Aligned, FramesInv
  <2>2. ASSUME NEW i \in 1..Len(toC'), NEW j \in 1..Len(toC'),
               IsAnswer(toC'[i]), IsAnswer(toC'[j]), i < j
        PROVE  toC'[i].kind = "reply" /\ toC'[j].kind = "notify"
    <3>1. /\ i + 1 \in 1..Len(toC) /\ j + 1 \in 1..Len(toC) /\ i + 1 < j + 1
          /\ toC'[i] = toC[i + 1] /\ toC'[j] = toC[j + 1]
      BY <1>1, <2>2
    <3> QED
      BY <2>2, <3>1, SMTT(30) DEF Aligned, FramesInv
  <2>3. ASSUME NEW j \in 1..Len(toC'), toC'[j].kind = "notify"
        PROVE  /\ AtRun' /\ proc' # "running"
               /\ stage' = "reply" => \E i \in 1..Len(toC') : i < j /\ toC'[i].kind = "reply"
    <3>1. j + 1 \in 1..Len(toC) /\ toC[j + 1].kind = "notify"
      BY <1>1, <2>3
    <3>2. AtRun /\ proc # "running"
      BY <3>1 DEF Aligned, FramesInv
    <3>3. ASSUME stage = "reply"
          PROVE  \E i \in 1..Len(toC') : i < j /\ toC'[i].kind = "reply"
      <4>1. PICK k \in 1..Len(toC) : k < j + 1 /\ toC[k].kind = "reply"
        BY <3>1, <3>3 DEF Aligned, FramesInv
      <4>2. k # 1
        BY <1>3, <4>1
      <4>3. k - 1 \in 1..Len(toC') /\ k - 1 < j /\ toC'[k - 1] = toC[k]
        BY <1>1, <4>1, <4>2
      <4> QED
        BY <4>1, <4>3
    <3> QED
      BY <1>2, <3>2, <3>3 DEF AtRun
  <2> QED
    BY <2>1, <2>2, <2>3 DEF FramesInv
<1>6. RunInv'
  <2> SUFFICES ASSUME conn' = "up", proc' = "running"
               PROVE  /\ AtRun' /\ run' = sent' /\ toD' = <<>>
                      /\ stage' = "reply" => \E i \in 1..Len(toC') : toC'[i].kind = "reply"
    BY DEF RunInv
  <2>1. AtRun /\ run = sent /\ toD = <<>>
    BY <1>2 DEF Aligned, RunInv
  <2>2. ASSUME stage = "reply"
        PROVE  \E i \in 1..Len(toC') : toC'[i].kind = "reply"
    <3>1. PICK k \in 1..Len(toC) : toC[k].kind = "reply"
      BY <1>2, <2>2 DEF Aligned, RunInv
    <3>2. k - 1 \in 1..Len(toC') /\ toC'[k - 1] = toC[k]
      BY <1>1, <1>3, <3>1
    <3> QED
      BY <3>1, <3>2
  <2> QED
    BY <1>2, <2>1, <2>2 DEF AtRun
<1>7. SignalInv'
  <2>1. tool = "signal" => \A i \in 1..Len(toC') : toC'[i].kind = "reply" /\ toC'[i].code = "ok" => passed = tpassed
    BY <1>1 DEF Aligned, SignalInv
  <2> QED
    BY <1>2, <2>1 DEF Aligned, SignalInv
<1> QED
  BY <1>2, <1>4, <1>5, <1>6, <1>7 DEF Aligned

LEMMA TakenOwn ==
  ASSUME TypeOK, Aligned, Take
  PROVE  OwnFrame(taken')
<1>1. /\ stage \in Waiting /\ Head(toC).re = sent
      /\ Head(toC).kind = IF stage = "stop" THEN "notify" ELSE "reply"
  BY Answered DEF Take
<1>2. taken' = [n |-> sent, want |-> stage, re |-> Head(toC).re, kind |-> Head(toC).kind]
  BY DEF Take
<1> QED
  BY <1>1, <1>2 DEF OwnFrame

LEMMA HandshakeStep ==
  ASSUME TypeOK, TypeOK', Aligned, Handshake
  PROVE  Aligned'
<1>1. Take /\ stage # "reply" /\ stage # "stop" /\ UNCHANGED <<tool, todo, passed, settled>>
  BY DEF Handshake, sigVars
<1>2. toD = <<>> /\ Quiet(toC') /\ ~(conn = "up" /\ proc = "running")
  BY <1>1, Answered DEF Take
<1>3. UNCHANGED <<conn, proc, tpassed>>
  BY <1>1 DEF Take, targetVars
<1>4. todo = <<>> /\ tool # "signal"
  <2>1. todo = <<>>
    BY <1>1 DEF TypeOK
  <2> QED
    BY <2>1 DEF Aligned, SignalInv
<1>5. Onward
  <2>1. CASE stage' = "protover" /\ Write("protover", {})
    <3>1. CommandsInv'
      BY <1>2, <1>3, <2>1, WriteStep DEF Awaiting
    <3> QED
      BY <1>1, <1>4, <3>1 DEF Onward
  <2>2. CASE stage' = "ready" /\ UNCHANGED <<sent, toD>>
    <3>1. CommandsInv'
      BY <1>2, <2>2 DEF CommandsInv
    <3> QED
      BY <1>1, <1>4, <3>1 DEF Onward
  <2> QED
    BY <2>1, <2>2 DEF Handshake, Send
<1>6. settled' => passed' = tpassed'
  BY <1>1, <1>3 DEF Aligned, SignalInv
<1>7. OwnFrame(taken')
  BY <1>1, TakenOwn
<1> QED
  BY <1>2, <1>3, <1>5, <1>6, <1>7, AlignedStep

LEMMA ReplyStep ==
  ASSUME TypeOK, TypeOK', Aligned, Reply
  PROVE  Aligned'
<1>1. Take /\ stage = "reply" /\ passed' = passed /\ todo # <<>>
  BY DEF Reply, TypeOK
<1>2. /\ toD = <<>> /\ Head(toC).re = sent /\ Head(toC).kind = "reply"
      /\ Head(todo) # "run" => Quiet(toC') /\ ~(conn = "up" /\ proc = "running")
  BY <1>1, Answered DEF Take
<1>3. UNCHANGED <<conn, proc, run, tpassed>>
  BY <1>1 DEF Take, targetVars
<1>4. OwnFrame(taken')
  BY <1>1, TakenOwn
<1>5. /\ Len(toC) \in Nat /\ Len(toC) >= 1 /\ Head(toC) = toC[1] /\ toC' = Tail(toC)
      /\ Len(toC') = Len(toC) - 1
      /\ \A i \in 1..Len(toC') : toC'[i] = toC[i + 1]
  BY <1>1, HeadTailProperties, EmptySeq, LenProperties DEF TypeOK, Take
<1>6. settled' => passed' = tpassed'
  <2>1. settled => passed = tpassed
    BY DEF Aligned, SignalInv
  <2>2. tool = "signal" /\ Head(toC).code = "ok" => passed = tpassed
    BY <1>2, <1>5 DEF Aligned, SignalInv
  <2>3. settled' = (settled \/ (tool = "signal" /\ Head(toC).code = "ok"))
    BY DEF Reply
  <2> QED
    BY <1>1, <1>3, <2>1, <2>2, <2>3, Zenon
<1>7. CASE Head(todo) = "run"
  <2>1. stage' = "stop" /\ UNCHANGED <<tool, todo, sent, toD>>
    BY <1>7 DEF Reply
  <2>2. tool # "signal"
    <3>1. tool = "signal" => todo = <<"handlesig">>
      BY DEF Aligned, SignalInv
    <3> QED
      BY <1>7, <3>1
  <2>3. CommandsInv'
    BY <1>2, <2>1 DEF CommandsInv
  <2>4. ASSUME NEW i \in 1..Len(toC')
        PROVE  /\ toC'[i].kind # "bad" /\ toC'[i].kind # "reply"
               /\ toC'[i].kind = "notify" => proc # "running"
               /\ IsAnswer(toC'[i]) => toC'[i].re = sent
    <3>1. i + 1 \in 1..Len(toC) /\ toC'[i] = toC[i + 1] /\ 1 \in 1..Len(toC) /\ 1 < i + 1
      BY <1>5
    <3>2. IsAnswer(toC[1])
      BY <1>2, <1>5 DEF IsAnswer
    <3>3. IsAnswer(toC[i + 1]) => toC[i + 1].kind = "notify" /\ toC[i + 1].re = sent
      BY <3>1, <3>2 DEF Aligned, FramesInv
    <3>4. toC[i + 1].kind # "bad" /\ (toC[i + 1].kind = "notify" => proc # "running")
      BY <3>1 DEF Aligned, FramesInv
    <3> QED
      BY <3>1, <3>3, <3>4 DEF IsAnswer
  <2>5. ASSUME NEW i \in 1..Len(toC'), NEW j \in 1..Len(toC'), IsAnswer(toC'[i]), IsAnswer(toC'[j]), i < j
        PROVE  FALSE
    <3>1. i + 1 \in 1..Len(toC) /\ j + 1 \in 1..Len(toC) /\ i + 1 < j + 1
          /\ toC'[i] = toC[i + 1] /\ toC'[j] = toC[j + 1]
      BY <1>5, <2>5
    <3>2. toC'[i].kind = "reply"
      BY <2>5, <3>1 DEF Aligned, FramesInv
    <3> QED
      BY <2>4, <3>2
  <2>6. FramesInv'
    BY <1>2, <1>3, <2>1, <2>4, <2>5 DEF FramesInv, AtRun, Waiting
  <2>7. RunInv'
    BY <1>2, <1>3, <2>1 DEF RunInv, AtRun, Aligned
  <2>8. SignalInv'
    <3>1. \A i \in 1..Len(todo) : todo[i] # "handlesig"
      BY <2>2 DEF Aligned, SignalInv
    <3> QED
      BY <1>6, <2>1, <2>2, <3>1 DEF SignalInv
  <2> QED
    BY <1>4, <2>3, <2>6, <2>7, <2>8 DEF Aligned
<1>8. CASE Head(todo) # "run"
  <2>1. SignalInv
    BY DEF Aligned
  <2>2. Onward
    <3>1. CASE GiveUp
      BY <1>2, <3>1, GiveUpStep
    <3>2. CASE Proceed(Tail(todo))
      BY <1>1, <1>2, <1>3, <2>1, <3>2, RestOfScript, ProceedStep, Zenon
    <3>3. CASE Head(todo) \in Repeated /\ Proceed(todo)
      <4>1. tool # "signal"
        <5>1. tool = "signal" => todo = <<"handlesig">>
          BY <2>1 DEF SignalInv
        <5> QED
          BY <3>3, <5>1 DEF Repeated
      <4>2. \A i \in 1..Len(todo) : todo[i] # "handlesig"
        BY <2>1, <4>1 DEF SignalInv
      <4>3. todo \in Seq(Commands)
        BY DEF TypeOK
      <4> QED
        BY <1>2, <1>3, <3>3, <4>1, <4>2, <4>3, ProceedStep
    <3> QED
      BY <1>8, <3>1, <3>2, <3>3 DEF Reply
  <2> QED
    BY <1>2, <1>3, <1>4, <1>6, <1>8, <2>2, AlignedStep
<1> QED
  BY <1>7, <1>8

LEMMA StoppedStep ==
  ASSUME TypeOK, TypeOK', Aligned, Stopped
  PROVE  Aligned'
<1>1. Take /\ stage = "stop" /\ Proceed(<<>>) /\ UNCHANGED <<passed, settled>>
  BY DEF Stopped, sigVars
<1>2. toD = <<>> /\ Quiet(toC') /\ ~(conn = "up" /\ proc = "running")
  BY <1>1, Answered DEF Take
<1>3. UNCHANGED <<conn, proc, tpassed>>
  BY <1>1 DEF Take, targetVars
<1>4. Onward
  <2>1. toD' = <<>> /\ tool' = "none" /\ todo' = <<>> /\ stage' \in {"closed", "idle"}
    BY <1>1, <1>2 DEF Proceed
  <2> QED
    BY <2>1 DEF Onward, CommandsInv
<1>5. settled' => passed' = tpassed'
  BY <1>1, <1>3 DEF Aligned, SignalInv
<1>6. OwnFrame(taken')
  BY <1>1, TakenOwn
<1> QED
  BY <1>2, <1>3, <1>4, <1>5, <1>6, AlignedStep

LEMMA ReadFailsStep ==
  ASSUME TypeOK, TypeOK', Aligned, ReadFails
  PROVE  Aligned'
<1>1. UNCHANGED <<conn, taken, toC, passed, settled, proc, tpassed>> /\ conn = "down" /\ toC = <<>> /\ Fail
  BY DEF ReadFails, sigVars, targetVars
<1>2. toD = <<>> /\ SignalInv
  BY <1>1 DEF Aligned, CommandsInv
<1>3. Onward
  BY <1>1, <1>2, FailStep
<1>4. Quiet(toC')
  BY <1>1 DEF Quiet
<1>5. settled' => passed' = tpassed'
  BY <1>1, <1>2 DEF SignalInv
<1>6. OwnFrame(taken')
  BY <1>1 DEF Aligned
<1> QED
  BY <1>1, <1>3, <1>4, <1>5, <1>6, AlignedStep

LEMMA BeginStep ==
  ASSUME TypeOK, TypeOK', Aligned, NEW t \in Tools, Begin(t)
  PROVE  Aligned'
<1>1. Quiet(toC) /\ toD = <<>> /\ ~(conn = "up" /\ proc = "running")
  BY AtRest DEF Begin, Waiting
<1>2. UNCHANGED <<conn, toC, taken, proc, tpassed>> /\ tool' = t /\ todo' = Script[t] /\ stage' = "reply"
  BY DEF Begin, targetVars
<1>3. PICK tbl \in Tables(t) : passed' = tbl /\ Write(Head(Script[t]), TableSent(t, tbl))
  BY DEF Begin
<1>4. CommandsInv' /\ (toD' # <<>> => toD'[1].tbl = TableSent(t, tbl))
  BY <1>1, <1>2, <1>3, WriteStep DEF Awaiting
<1>5. FramesInv' /\ RunInv'
  BY <1>1, <1>2, <1>4, CalmStep
<1>6. SignalInv'
  <2>1. CASE t = "signal"
    <3>1. todo' = <<"handlesig">> /\ (toD' # <<>> => toD'[1].tbl = passed')
      BY <1>2, <1>3, <1>4, <2>1, Scripts DEF TableSent
    <3>2. ~settled'
      BY <2>1, Zenon DEF Begin
    <3>3. \A i \in 1..Len(toC') : toC'[i].kind # "reply"
      BY <1>1, <1>2 DEF Quiet, IsAnswer
    <3> QED
      BY <1>2, <2>1, <3>1, <3>2, <3>3 DEF SignalInv
  <2>2. CASE t # "signal"
    <3>1. \A i \in 1..Len(todo') : todo'[i] # "handlesig"
      BY <1>2, <2>2, Scripts
    <3>2. passed' = passed
      BY <1>3, <2>2 DEF Tables
    <3>3. settled' => settled
      BY Zenon DEF Begin
    <3>4. settled' => passed' = tpassed'
      BY <1>2, <3>2, <3>3 DEF Aligned, SignalInv
    <3> QED
      BY <1>2, <2>2, <3>1, <3>4 DEF SignalInv
  <2> QED
    BY <2>1, <2>2
<1>7. OwnFrame(taken')
  BY <1>2 DEF Aligned
<1> QED
  BY <1>4, <1>5, <1>6, <1>7 DEF Aligned

-----------------------------------------------------------------------------
(* The target's steps *)

\* A command on its way is alone: nothing of an earlier one is under way.
LEMMA Underway ==
  ASSUME TypeOK, Aligned, toD # <<>>
  PROVE  /\ Quiet(toC) /\ Len(toD) = 1 /\ Tail(toD) = <<>> /\ Head(toD) = toD[1]
         /\ stage \in Awaiting /\ ~(conn = "up" /\ proc = "running")
<1>1. Quiet(toC)
  BY DEF Aligned, FramesInv, Quiet
<1>2. Len(toD) = 1 /\ stage \in Awaiting
  BY DEF Aligned, CommandsInv
<1>3. Tail(toD) = <<>> /\ Head(toD) = toD[1]
  <2>1. toD \in Seq(Command(sent))
    BY DEF TypeOK, Command
  <2>2. Tail(toD) \in Seq(Command(sent)) /\ Len(Tail(toD)) = 0
    BY <1>2, <2>1, HeadTailProperties
  <2>3. Tail(toD) = <<>>
    BY <2>2, EmptySeq, Zenon
  <2>4. Head(toD) = toD[1]
    BY <2>1
  <2> QED
    BY <2>3, <2>4
<1>4. ~(conn = "up" /\ proc = "running")
  BY DEF Aligned, RunInv
<1> QED
  BY <1>1, <1>2, <1>3, <1>4, Zenon

LEMMA ServeStep ==
  ASSUME TypeOK, TypeOK', Aligned, NEW code \in {"ok", "err"}, Serve(code)
  PROVE  Aligned'
<1>1. /\ Quiet(toC) /\ Len(toD) = 1 /\ Tail(toD) = <<>> /\ Head(toD) = toD[1]
      /\ stage \in Awaiting /\ proc # "running" /\ toD # <<>>
  BY Underway DEF Serve
<1>2. /\ UNCHANGED <<conn, stage, tool, todo, sent, taken, passed, settled>>
      /\ toD' = <<>> /\ toC' = Append(toC, Answer(toD[1], code))
  BY <1>1 DEF Serve, clientVars, sigVars
<1>3. toD[1].n = sent /\ toD[1].cmd = IF stage = "reply" THEN Head(todo) ELSE stage
  BY <1>1, Zenon DEF Aligned, CommandsInv
<1>4. /\ Len(toC) \in Nat /\ Len(toC') = Len(toC) + 1
      /\ \A i \in 1..Len(toC) : toC'[i] = toC[i]
      /\ toC'[Len(toC) + 1] = [kind |-> "reply", re |-> sent, code |-> code]
  <2>1. Answer(toD[1], code) = [kind |-> "reply", re |-> sent, code |-> code]
    BY <1>3 DEF Answer
  <2>2. [kind |-> "reply", re |-> sent, code |-> code] \in Frame /\ toC \in Seq(Frame)
    BY DEF Frame, TypeOK
  <2> QED
    BY <1>2, <2>1, <2>2, AppendProperties, LenProperties, SMTT(30)
<1>5. CommandsInv'
  BY <1>2, Zenon DEF CommandsInv
<1>6. ASSUME NEW i \in 1..Len(toC'), i # Len(toC) + 1
      PROVE  toC'[i].kind # "bad" /\ toC'[i].kind # "reply" /\ toC'[i].kind # "notify" /\ ~IsAnswer(toC'[i])
  BY <1>1, <1>4, <1>6, SMTT(30), SMTT(60) DEF Quiet, IsAnswer
<1>7. FramesInv'
  <2>1. \A i \in 1..Len(toC') :
          /\ toC'[i].kind # "bad" /\ toC'[i].kind # "notify"
          /\ toC'[i].kind = "reply" \/ IsAnswer(toC'[i]) => i = Len(toC) + 1
    BY <1>4, <1>6, SMTT(30), SMTT(60)
  <2>2. \A i \in 1..Len(toC') :
          IsAnswer(toC'[i]) => toC'[i].re = sent' /\ stage' \in Waiting /\ toD' = <<>>
    BY <1>1, <1>2, <1>4, <2>1, SMTT(30), SMTT(60) DEF Awaiting, Waiting
  <2>3. \A i, j \in 1..Len(toC') : ~(IsAnswer(toC'[i]) /\ IsAnswer(toC'[j]) /\ i < j)
    BY <2>1, <1>4
  <2>4. stage' # "stop"
    BY <1>1, <1>2, Zenon DEF Awaiting
  <2> QED
    BY <2>1, <2>2, <2>3, <2>4, Zenon DEF FramesInv
<1>8. RunInv'
  <2> SUFFICES ASSUME conn' = "up", proc' = "running"
               PROVE  /\ AtRun' /\ run' = sent' /\ toD' = <<>>
                      /\ stage' = "reply" => \E i \in 1..Len(toC') : toC'[i].kind = "reply"
    BY DEF RunInv
  <2>1. toD[1].cmd = "run" /\ run' = sent
    BY <1>1, <1>3 DEF Serve, targetVars
  <2>2. stage = "reply" /\ Head(todo) = "run"
    BY <1>1, <1>3, <2>1, Zenon DEF Awaiting
  <2>3. Len(toC) + 1 \in 1..Len(toC')
    BY <1>4, SMT, SMTT(30)
  <2> QED
    BY <1>2, <1>4, <2>1, <2>2, <2>3 DEF AtRun
<1>9. SignalInv'
  <2>1. CASE tool = "signal"
    <3>1. todo = <<"handlesig">> /\ ~settled /\ toD[1].tbl = passed
      BY <1>1, <2>1, Zenon DEF Aligned, SignalInv
    <3>2. stage = "reply" /\ toD[1].cmd = "handlesig"
      BY <1>1, <1>3, <3>1 DEF TypeOK, Awaiting
    <3>3. code = "ok" => tpassed' = passed
      BY <1>1, <3>1, <3>2, Zenon DEF Serve
    <3>4. \A i \in 1..Len(toC') : toC'[i].kind = "reply" /\ toC'[i].code = "ok" => passed' = tpassed'
      BY <1>2, <1>4, <1>6, <3>3
    <3> QED
      BY <1>2, <2>1, <3>1, <3>4 DEF SignalInv
  <2>2. CASE tool # "signal"
    <3>1. (settled => passed = tpassed) /\ \A i \in 1..Len(todo) : todo[i] # "handlesig"
      BY <2>2 DEF Aligned, SignalInv
    <3>2. stage = "reply" => todo # <<>>
      BY DEF TypeOK
    <3>3. stage = "reply" => Head(todo) = todo[1] /\ 1 \in 1..Len(todo)
      BY <3>2, EmptySeq DEF TypeOK
    <3>4. toD[1].cmd # "handlesig"
      BY <1>1, <1>3, <3>1, <3>3 DEF Awaiting
    <3>5. tpassed' = tpassed
      BY <1>1, <3>4 DEF Serve, targetVars
    <3> QED
      BY <1>2, <2>2, <3>1, <3>5 DEF SignalInv
  <2> QED
    BY <2>1, <2>2
<1> QED
  BY <1>2, <1>5, <1>7, <1>8, <1>9 DEF Aligned

\* A frame that is neither an answer nor damaged changes nothing.
LEMMA PrintTextStep ==
  ASSUME TypeOK, TypeOK', Aligned, PrintText
  PROVE  Aligned'
<1>1. UNCHANGED <<conn, stage, tool, todo, sent, taken, passed, settled, toD, proc, run, tpassed>>
  BY DEF PrintText, clientVars, sigVars, targetVars
<1>2. /\ Len(toC) \in Nat /\ Len(toC') = Len(toC) + 1
      /\ \A i \in 1..Len(toC) : toC'[i] = toC[i]
      /\ toC'[Len(toC) + 1].kind = "text"
  <2>1. Text \in Frame /\ toC \in Seq(Frame)
    BY DEF Text, Frame, TypeOK
  <2>2. /\ Len(toC) \in Nat /\ Len(toC') = Len(toC) + 1
        /\ \A i \in 1..Len(toC) : toC'[i] = toC[i]
        /\ toC'[Len(toC) + 1] = Text
    BY <2>1, AppendProperties, LenProperties DEF PrintText
  <2> QED
    BY <2>2 DEF Text
<1>3. \A i \in 1..Len(toC') : (i \in 1..Len(toC) /\ toC'[i] = toC[i]) \/ (i = Len(toC) + 1 /\ toC'[i].kind = "text")
  BY <1>2
<1>4. CommandsInv'
  BY <1>1 DEF Aligned, CommandsInv
<1>5. FramesInv'
  <2>1. \A i \in 1..Len(toC') : /\ toC'[i].kind # "bad"
                                /\ IsAnswer(toC'[i]) => toC'[i].re = sent' /\ stage' \in Waiting /\ toD' = <<>>
                                /\ toC'[i].kind = "reply" => stage' # "stop"
    BY <1>1, <1>3 DEF Aligned, FramesInv, IsAnswer
  <2>2. \A i, j \in 1..Len(toC') :
          IsAnswer(toC'[i]) /\ IsAnswer(toC'[j]) /\ i < j => toC'[i].kind = "reply" /\ toC'[j].kind = "notify"
    BY <1>3, ZenonT(30) DEF Aligned, FramesInv, IsAnswer
  <2>3. ASSUME NEW j \in 1..Len(toC'), toC'[j].kind = "notify"
        PROVE  FALSE
    BY <1>1, <1>3, <2>3 DEF Aligned, FramesInv, PrintText
  <2> QED
    BY <2>1, <2>2, <2>3 DEF FramesInv
<1>6. RunInv'
  <2> SUFFICES ASSUME conn' = "up", proc' = "running"
               PROVE  /\ AtRun' /\ run' = sent' /\ toD' = <<>>
                      /\ stage' = "reply" => \E i \in 1..Len(toC') : toC'[i].kind = "reply"
    BY DEF RunInv
  <2>1. /\ AtRun /\ run = sent /\ toD = <<>>
        /\ stage = "reply" => \E i \in 1..Len(toC) : toC[i].kind = "reply"
    BY <1>1 DEF Aligned, RunInv
  <2>2. stage = "reply" => \E i \in 1..Len(toC') : toC'[i].kind = "reply"
    BY <1>2, <2>1
  <2> QED
    BY <1>1, <2>1, <2>2 DEF AtRun
<1>7. SignalInv'
  <2>1. tool = "signal" => \A i \in 1..Len(toC') : toC'[i].kind = "reply" /\ toC'[i].code = "ok" => passed = tpassed
    BY <1>3 DEF Aligned, SignalInv
  <2> QED
    BY <1>1, <2>1 DEF Aligned, SignalInv
<1> QED
  BY <1>1, <1>4, <1>5, <1>6, <1>7 DEF Aligned

LEMMA StopEventStep ==
  ASSUME TypeOK, TypeOK', Aligned, NEW p \in {"stopped", "none"}, StopEvent(p)
  PROVE  Aligned'
<1>1. /\ UNCHANGED <<conn, stage, tool, todo, sent, taken, passed, settled, toD, run, tpassed>>
      /\ proc' = p /\ conn = "up" /\ proc = "running"
  BY DEF StopEvent, clientVars, sigVars
<1>2. /\ AtRun /\ run = sent /\ toD = <<>>
      /\ stage = "reply" => \E i \in 1..Len(toC) : toC[i].kind = "reply"
  BY <1>1 DEF Aligned, RunInv
<1>3. /\ Len(toC) \in Nat /\ Len(toC') = Len(toC) + 1
      /\ \A i \in 1..Len(toC) : toC'[i] = toC[i]
      /\ toC'[Len(toC) + 1] = [kind |-> "notify", re |-> sent, code |-> "ok"]
  <2>1. [kind |-> "notify", re |-> sent, code |-> "ok"] \in Frame /\ toC \in Seq(Frame)
    BY DEF Frame, TypeOK
  <2> QED
    BY <1>2, <2>1, AppendProperties, LenProperties, SMTT(30) DEF StopEvent
<1>4. /\ \A i \in 1..Len(toC) : toC[i].kind # "notify"
      /\ \A i \in 1..Len(toC') : (i \in 1..Len(toC) /\ toC'[i] = toC[i]) \/ i = Len(toC) + 1
  BY <1>1, <1>3, SMTT(30) DEF Aligned, FramesInv
<1>5. CommandsInv'
  BY <1>1, <1>2 DEF CommandsInv
<1>6. FramesInv'
  <2>1. ASSUME NEW i \in 1..Len(toC')
        PROVE  /\ toC'[i].kind # "bad"
               /\ IsAnswer(toC'[i]) => toC'[i].re = sent' /\ stage' \in Waiting /\ toD' = <<>>
               /\ toC'[i].kind = "reply" => stage' # "stop"
    <3>1. CASE i = Len(toC) + 1
      BY <1>1, <1>2, <1>3, <3>1, SMTT(30), SMTT(60) DEF AtRun, Waiting
    <3>2. CASE i \in 1..Len(toC) /\ toC'[i] = toC[i]
      BY <1>1, <3>2 DEF Aligned, FramesInv
    <3> QED
      BY <1>4, <3>1, <3>2
  <2>2. ASSUME NEW i \in 1..Len(toC'), NEW j \in 1..Len(toC'), IsAnswer(toC'[i]), IsAnswer(toC'[j]), i < j
        PROVE  toC'[i].kind = "reply" /\ toC'[j].kind = "notify"
    <3>1. i \in 1..Len(toC) /\ toC'[i] = toC[i]
      BY <1>3, <2>2, SMTT(30)
    <3>2. CASE j = Len(toC) + 1
      BY <1>3, <1>4, <2>2, <3>1, <3>2, SMTT(30), SMTT(60) DEF IsAnswer
    <3>3. CASE j \in 1..Len(toC) /\ toC'[j] = toC[j]
      BY <2>2, <3>1, <3>3 DEF Aligned, FramesInv
    <3> QED
      BY <1>4, <3>2, <3>3
  <2>3. ASSUME NEW j \in 1..Len(toC'), toC'[j].kind = "notify"
        PROVE  /\ AtRun' /\ proc' # "running"
               /\ stage' = "reply" => \E i \in 1..Len(toC') : i < j /\ toC'[i].kind = "reply"
    <3>1. j = Len(toC) + 1
      BY <1>4, <2>3
    <3>2. stage = "reply" => \E i \in 1..Len(toC') : i < j /\ toC'[i].kind = "reply"
      BY <1>2, <1>3, <3>1
    <3> QED
      BY <1>1, <1>2, <3>2 DEF AtRun
  <2> QED
    BY <2>1, <2>2, <2>3 DEF FramesInv
<1>7. RunInv'
  BY <1>1 DEF RunInv
<1>8. SignalInv'
  <2>1. tool = "signal" => \A i \in 1..Len(toC') : toC'[i].kind = "reply" /\ toC'[i].code = "ok" => passed = tpassed
    BY <1>3, <1>4 DEF Aligned, SignalInv
  <2> QED
    BY <1>1, <2>1, Zenon DEF Aligned, SignalInv
<1> QED
  BY <1>1, <1>5, <1>6, <1>7, <1>8 DEF Aligned

\* A prefix of an aligned stream is aligned, and nobody reads the commands.
LEMMA DropStep ==
  ASSUME TypeOK, TypeOK', Aligned, NEW k \in 0..Len(toC), Drop(k)
  PROVE  Aligned'
<1>1. /\ UNCHANGED <<stage, tool, todo, sent, taken, passed, settled, proc, tpassed>>
      /\ conn' = "down" /\ toD' = <<>>
  BY DEF Drop, clientVars, sigVars, targetVars
<1>2. Len(toC) \in Nat /\ k \in Nat /\ k <= Len(toC)
  BY LenProperties DEF TypeOK
<1>3. Len(toC') = k /\ \A i \in 1..Len(toC') : i \in 1..Len(toC) /\ toC'[i] = toC[i]
  <2>1. \A i \in 1..k : toC[i] \in Frame
    BY <1>2, ElementOfSeq, SMTT(30), SMTT(60) DEF TypeOK
  <2>2. Len(SubSeq(toC, 1, k)) = k /\ \A i \in 1..k : SubSeq(toC, 1, k)[i] = toC[i]
    BY <1>2, <2>1, SubSeqProperties
  <2> QED
    BY <1>2, <2>2 DEF Drop
<1>4. CommandsInv' /\ RunInv'
  BY <1>1 DEF CommandsInv, RunInv
<1>5. FramesInv'
  <2>1. \A i \in 1..Len(toC') : /\ toC'[i].kind # "bad"
                                /\ IsAnswer(toC'[i]) => toC'[i].re = sent' /\ stage' \in Waiting /\ toD' = <<>>
                                /\ toC'[i].kind = "reply" => stage' # "stop"
    BY <1>1, <1>3 DEF Aligned, FramesInv
  <2>2. \A i, j \in 1..Len(toC') :
          IsAnswer(toC'[i]) /\ IsAnswer(toC'[j]) /\ i < j => toC'[i].kind = "reply" /\ toC'[j].kind = "notify"
    BY <1>3 DEF Aligned, FramesInv
  <2>3. ASSUME NEW j \in 1..Len(toC'), toC'[j].kind = "notify"
        PROVE  /\ AtRun' /\ proc' # "running"
               /\ stage' = "reply" => \E i \in 1..Len(toC') : i < j /\ toC'[i].kind = "reply"
    <3>1. j \in 1..Len(toC) /\ toC[j].kind = "notify" /\ j \in 1..k
      BY <1>3, <2>3
    <3>2. AtRun /\ proc # "running"
      BY <3>1 DEF Aligned, FramesInv
    <3>3. ASSUME stage = "reply"
          PROVE  \E i \in 1..Len(toC') : i < j /\ toC'[i].kind = "reply"
      <4>1. PICK i \in 1..Len(toC) : i < j /\ toC[i].kind = "reply"
        BY <3>1, <3>3 DEF Aligned, FramesInv
      <4>2. i \in 1..Len(toC')
        BY <1>2, <1>3, <3>1, <4>1, SMT, SMTT(30)
      <4> QED
        BY <1>3, <4>1, <4>2
    <3> QED
      BY <1>1, <3>2, <3>3 DEF AtRun
  <2> QED
    BY <2>1, <2>2, <2>3 DEF FramesInv
<1>6. SignalInv'
  <2>1. tool = "signal" => \A i \in 1..Len(toC') : toC'[i].kind = "reply" /\ toC'[i].code = "ok" => passed = tpassed
    BY <1>3 DEF Aligned, SignalInv
  <2> QED
    BY <1>1, <2>1 DEF Aligned, SignalInv
<1> QED
  BY <1>1, <1>4, <1>5, <1>6 DEF Aligned

-----------------------------------------------------------------------------
(* The theorems *)

LEMMA InitInv ==
  ASSUME Init
  PROVE  IInv
<1>1. Control \in Frame /\ toC = <<Control>>
  BY DEF Init, Control, Frame
<1>2. Len(toC) = 1 /\ toC[1] = Control /\ toC \in Seq(Frame)
  BY <1>1
<1>3. /\ todo \in Seq(Commands)
      /\ toD \in Seq([n : 1..sent, cmd : Commands \cup {"connect", "protover"}, tbl : SUBSET Signals])
  BY EmptySeq DEF Init
<1>4. TypeOK
  <2>1. conn = "up" /\ stage = "reset" /\ tool = "none" /\ todo = <<>> /\ sent = 0 /\ proc = "none" /\ run = 0
    BY DEF Init
  <2>2. passed \subseteq Signals /\ tpassed \subseteq Signals /\ faults \subseteq {"timeout"}
    BY DEF Init
  <2>3. taken \in [n : Nat, want : Waiting, re : Nat, kind : {"control", "text", "reply", "notify", "bad"}]
    BY DEF Init, NoTaken, Waiting
  <2>4. owned \in BOOLEAN
    BY Zenon DEF Init
  <2>5. settled \in BOOLEAN
    BY DEF Init
  <2>6. stage \in Stages /\ run \in 0..sent
    BY <2>1, SMT, SMTT(30) DEF Stages
  <2> QED
    BY <1>2, <1>3, <2>1, <2>2, <2>3, <2>4, <2>5, <2>6 DEF TypeOK
<1>5. FramesInv
  BY <1>2, SMTT(30) DEF FramesInv, Control, IsAnswer
<1>6. CommandsInv /\ RunInv
  BY DEF Init, CommandsInv, RunInv
<1>7. SignalInv
  BY DEF Init, SignalInv
<1>8. OwnFrame(taken)
  BY DEF Init, OwnFrame, NoTaken
<1> QED
  BY <1>4, <1>5, <1>6, <1>7, <1>8 DEF IInv, Aligned

\* Every step of the client, of pdebug and of the process keeps the alignment.
LEMMA NextStep ==
  ASSUME IInv, [Next]_vars
  PROVE  IInv'
<1>1. TypeOK /\ TypeOK'
  BY TypeStep DEF IInv
<1> SUFFICES ASSUME Clean'
             PROVE  Aligned'
  BY <1>1 DEF IInv
<1>2. ~Timeout
  BY DEF Timeout, Clean
<1>3. Clean
  <2>1. Client => faults' = faults \/ Timeout
    BY ZenonT(30)
       DEF Client, Reset, Skip, BadFrame, Handshake, Reply, Stopped, Take, ReadFails
  <2>2. Target => faults' = faults
    BY DEF Target, Serve, StopEvent, PrintText, Drop
  <2>3. \A t \in Tools : Begin(t) => faults' = faults
    BY DEF Begin
  <2>4. UNCHANGED vars => faults' = faults
    BY DEF vars
  <2> QED
    BY <1>2, <2>1, <2>2, <2>3, <2>4, ZenonT(30) DEF Clean, Next
<1>4. Aligned
  BY <1>3 DEF IInv
<1>5. ~BadFrame
  <2>1. toC # <<>> => Head(toC) = toC[1] /\ 1 \in 1..Len(toC)
    BY <1>1, EmptySeq DEF TypeOK
  <2> QED
    BY <1>4, <2>1 DEF BadFrame, Aligned, FramesInv
<1>6. CASE Client
  BY <1>1, <1>2, <1>4, <1>5, <1>6, ResetStep, SkipStep, HandshakeStep, ReplyStep, StoppedStep, ReadFailsStep
     DEF Client
<1>7. CASE \E t \in Tools : Begin(t)
  BY <1>1, <1>4, <1>7, BeginStep
<1>8. CASE Target
  BY <1>1, <1>4, <1>8, ServeStep, StopEventStep, PrintTextStep, DropStep DEF Target
<1>9. CASE UNCHANGED vars
  <2>1. UNCHANGED <<conn, stage, tool, todo, sent, taken, passed, settled, toD, toC, proc, run, tpassed>>
    BY <1>9 DEF vars, clientVars, sigVars, targetVars
  <2>2. FramesInv /\ CommandsInv /\ RunInv
    BY <1>4 DEF Aligned
  <2>3. AtRun' = AtRun
    BY <2>1 DEF AtRun
  <2>4. FramesInv'
    BY <2>1, <2>2, <2>3, SMTT(30) DEF FramesInv
  <2>5. CommandsInv'
    BY <2>1, <2>2 DEF CommandsInv
  <2>6. RunInv'
    BY <2>1, <2>2, <2>3 DEF RunInv
  <2>7. SignalInv' /\ OwnFrame(taken')
    BY <1>4, <2>1 DEF Aligned, SignalInv
  <2> QED
    BY <2>4, <2>5, <2>6, <2>7 DEF Aligned
<1> QED
  BY <1>6, <1>7, <1>8, <1>9 DEF Next

\* The stream is aligned in every reachable state: as long as no read has timed
\* out, what is under way in either direction belongs to the last command.
THEOREM Alignment == Spec => []IInv
<1>1. Init => IInv
  BY InitInv
<1>2. IInv /\ [Next]_vars => IInv'
  BY NextStep
<1> QED
  BY <1>1, <1>2, PTL DEF Spec

\* Every variable of the session keeps its type.
THEOREM TypeCorrect == Spec => []TypeOK
<1>1. IInv => TypeOK
  BY DEF IInv
<1> QED
  BY <1>1, Alignment, PTL

\* transact and WaitStop take the answer to their own command although
\* readResponse compares no message id, as long as no read has timed out.
THEOREM AnswersAreOwn == Spec => []OwnAnswer
<1>1. IInv => OwnAnswer
  BY DEF IInv, OwnAnswer, Aligned
<1> QED
  BY <1>1, Alignment, PTL

\* Between the debug tools the process is at rest, as long as no read has timed
\* out: Continue and Step return after the stop of the run they started.
THEOREM RestsBetween == Spec => []RestsBetweenTools
<1>1. IInv => RestsBetweenTools
  BY DEF IInv, RestsBetweenTools, Aligned, RunInv, AtRun
<1> QED
  BY <1>1, Alignment, PTL

\* pdebug has the session's table of signals once the last change of it was
\* acknowledged, as long as no read has timed out.
THEOREM TablesAgree == Spec => []SignalsAgree
<1>1. IInv => SignalsAgree
  BY DEF IInv, SignalsAgree, Aligned, SignalInv
<1> QED
  BY <1>1, Alignment, PTL
=============================================================================
