------------------------- MODULE QconnClientProofs -------------------------
(***************************************************************************)
(* Proofs about QconnClient, for any set of callers and any bound: types,  *)
(* the place of the noise line, and the inductive invariant of the         *)
(* command/reply stream from which OwnReply, ServiceAgrees, SuccessIsReal  *)
(* and NoDescriptorLeft follow; and that QconnClient implements            *)
(* SerialClient.                                                           *)
(***************************************************************************)
EXTENDS QconnClient, SequenceTheorems, TLAPS

-----------------------------------------------------------------------------
(* The inductive invariant *)

\* Stages in which a descriptor is open, and those of an exchange in a service
\* the client has entered.
HandleStages == {"r", "rtail", "rlast", "rerr", "w", "wtail", "wlast", "a",
                 "close"}
BodyStages == Awaiting \ {"leave", "enter"}

\* A blocked method holds Client.mu and only a blocked method does.
LockInv == mu = NoCaller <=> stage \notin Awaiting

\* The noise line is gone before a descriptor is open.
NoiseInv == noise => stage \notin HandleStages

\* At most one exchange is under way and it is the running method's.
StreamInv ==
  /\ stage \in {"idle", "failed"} => toC = <<>>
  /\ stage = "greet" => Len(toC) <= 1
  /\ stage \notin Awaiting => toD = <<>>
  /\ stage \in Awaiting => toC = <<>> \/ toD = <<>>
  /\ stage \in Awaiting /\ conn = "up" => toC # <<>> \/ toD # <<>>
  /\ toD # <<>> => /\ conn = "up"
                   /\ Len(toD) = 1
                   /\ toD[1].n = sent
                   /\ toD[1].kind = stage
  /\ stage \in Awaiting /\ toC # <<>> => Len(toC) = 1 /\ toC[1].re = sent

\* A reply says what became of the command, and success was relied on only
\* where the command was carried out.
ReplyInv ==
  /\ relied \subseteq performed
  /\ \A n \in performed : n <= sent
  /\ toD # <<>> => sent \notin performed
  /\ stage \in {"rtail", "rlast", "wtail", "wlast"} => sent \in performed
  /\ stage \in Awaiting /\ toC # <<>> =>
       /\ toC[1].line \notin {"none", "part", "err"} => sent \in performed
       /\ stage \in {"versions", "info", "raw"} => sent \in performed
       /\ toC[1].line = "o:fd" => stage = "open"

\* Where the daemon is, as the client sees it.
ServiceInv ==
  conn = "up" =>
    /\ stage \in BodyStages \cup {"greet", "idle"} => current = svc
    /\ stage \in {"versions", "info"} => current = "broker"
    /\ stage = "raw" /\ toD # <<>> => toD[1].svc = current
    /\ stage = "leave" => current # "broker"
    /\ stage = "leave" /\ toD # <<>> => svc = current /\ toD[1].svc = current
    /\ stage = "leave" /\ toC # <<>> => svc = "broker"
    /\ stage = "enter" => current = "broker"
    /\ stage = "enter" /\ toD # <<>> => svc = "broker" /\ toD[1].svc = op.svc
    /\ stage = "enter" /\ toC # <<>> =>
         svc = (IF toC[1].line = "OK" THEN op.svc ELSE "broker")

\* Which descriptors are open.
HandleInv ==
  /\ conn = "down" => fds = {}
  /\ stage \notin HandleStages \cup {"open"} => fds = {}
  /\ stage = "open" /\ toD # <<>> => fds = {}
  /\ stage = "open" /\ toC # <<>> =>
       fds \subseteq (IF toC[1].line = "o:fd" THEN {sent} ELSE {})
  /\ stage \in HandleStages => fds \subseteq {fd}
  /\ stage = "close" /\ toD # <<>> => toD[1].fd = fd
  /\ stage = "close" /\ toC # <<>> => fds = {}

Sync == StreamInv /\ ReplyInv /\ ServiceInv /\ HandleInv
IInv == TypeOK /\ LockInv /\ NoiseInv /\ (Clean => Sync)

-----------------------------------------------------------------------------
(* Types *)

\* The first command of a method is a command.
LEMMA FirstIsCommand ==
  \A o \in Ops \cup {NoOp} : First(o) \in Commands /\ o.svc \in Services
BY ClientAssumption DEF First, Ops, NoOp, Commands, Services

\* Writing a command keeps the types of what it changes.
LEMMA WriteType ==
  ASSUME TypeOK, NEW k \in Commands, NEW service \in Services,
         NEW handle \in Nat, Write(k, service, handle)
  PROVE  /\ stage' \in Stages
         /\ sent' \in Nat
         /\ fd' \in Nat
         /\ toD' \in Seq(Command)
<1>1. [n |-> sent + 1, kind |-> k, svc |-> service, fd |-> handle] \in Command
  BY DEF TypeOK, Command
<1>2. toD' \in Seq(Command)
  BY <1>1, AppendProperties DEF Write, TypeOK
<1> QED
  BY <1>2 DEF Write, TypeOK, Stages, Awaiting

\* Returning keeps the types of what it changes.
LEMMA ReturnType ==
  ASSUME TypeOK, Return
  PROVE  /\ stage' \in Stages
         /\ mu' \in Callers \cup {NoCaller}
         /\ waiting' \in SUBSET Callers
         /\ op' \in Ops \cup {NoOp}
         /\ fd' \in Nat
         /\ sent' \in Nat
         /\ toD' \in Seq(Command)
BY DEF Return, TypeOK, Stages

\* Taking a block keeps the types, and the block is a reply.
LEMMA TakeBlockType ==
  ASSUME TypeOK, TakeBlock
  PROVE  /\ conn' \in {"up", "down"}
         /\ toC' \in Seq(Reply)
         /\ noise' \in BOOLEAN
         /\ svc' \in Services
         /\ fds' \in SUBSET Nat
         /\ performed' \in SUBSET Nat
         /\ faults' \in SUBSET FaultKinds
         /\ Block.re \in Nat
<1>1. toC # <<>> => Head(toC) \in Reply /\ Tail(toC) \in Seq(Reply)
  BY HeadTailProperties DEF TypeOK
<1>2. toC' \in Seq(Reply)
  BY <1>1 DEF TakeBlock, TypeOK
<1>3. Block.re \in Nat
  BY <1>1 DEF Block, Blank, Reply
<1>4. faults' \in SUBSET FaultKinds
  BY DEF TakeBlock, TypeOK, FaultKinds
<1> QED
  BY <1>2, <1>3, <1>4, Zenon DEF TakeBlock, TypeOK, daemonVars

\* Giving up on a read keeps the types of what it changes.
LEMMA AbandonType ==
  ASSUME TypeOK, Abandon
  PROVE  /\ stage' \in Stages
         /\ mu' \in Callers \cup {NoCaller}
         /\ waiting' \in SUBSET Callers
         /\ op' \in Ops \cup {NoOp}
         /\ fd' \in Nat
         /\ sent' \in Nat
         /\ toD' \in Seq(Command)
         /\ relied' \in SUBSET Nat
         /\ current' \in Services
         /\ info' \in {"none", "whole", "wrong"}
<1>1. relied' \in SUBSET Nat /\ current' \in Services
        /\ info' \in {"none", "whole", "wrong"}
  BY DEF Abandon, TypeOK
<1>2. CASE Return
  BY <1>1, <1>2, ReturnType
<1>3. CASE Issue("close", "file", fd)
  <2>1. Write("close", "file", fd)
    BY <1>3 DEF Issue
  <2>2. "close" \in Commands /\ "file" \in Services /\ fd \in Nat
    BY DEF TypeOK, Commands, Services
  <2> QED
    BY <1>1, <1>3, <2>1, <2>2, WriteType DEF Issue, TypeOK, lockVars
<1> QED
  BY <1>2, <1>3 DEF Abandon

\* A method that goes on to command k keeps the types.
LEMMA IssueType ==
  ASSUME TypeOK, NEW k \in Commands, NEW service \in Services,
         NEW handle \in Nat, Issue(k, service, handle)
  PROVE  /\ stage' \in Stages
         /\ mu' \in Callers \cup {NoCaller}
         /\ waiting' \in SUBSET Callers
         /\ op' \in Ops \cup {NoOp}
         /\ fd' \in Nat
         /\ sent' \in Nat
         /\ toD' \in Seq(Command)
<1>1. Write(k, service, handle) /\ UNCHANGED <<op, mu, waiting>>
  BY DEF Issue, lockVars
<1> QED
  BY <1>1, WriteType DEF TypeOK

\* What readResponseLine leaves is a sequence of replies.
LEMMA AfterLineType ==
  ASSUME TypeOK, NEW i \in 1..Len(toC), NEW left \in BOOLEAN
  PROVE  /\ AfterLine(i, left) \in Seq(Reply)
         /\ toC[i].payload \in BOOLEAN
         /\ toC # <<>> /\ Tail(toC) \in Seq(Reply)
<1>1. toC \in Seq(Reply) /\ toC[i] \in Reply
  BY ElementOfSeq DEF TypeOK
<1>2. toC # <<>> /\ Tail(toC) \in Seq(Reply)
  BY <1>1, EmptySeq, HeadTailProperties
<1>3. [toC[i] EXCEPT !.line = "none", !.payload = left] \in Reply
  BY <1>1, Zenon DEF Reply, Lines
<1>4. <<[toC[i] EXCEPT !.line = "none", !.payload = left]>> \in Seq(Reply)
  BY <1>3
<1>5. SubSeq(toC, i + 1, Len(toC)) \in Seq(Reply)
  BY <1>1, SubSeqProperties, LenProperties
<1> QED
  BY <1>1, <1>2, <1>4, <1>5, ConcatProperties DEF AfterLine, Reply

\* Every line the daemon can write is one.
LEMMA AnswersType ==
  \A c \in Command : Answers(c) \subseteq Lines
BY DEF Answers, Lines

\* The actions that take a block.
BlockAction == \/ LeaveDone \/ EnterDone \/ TextDone \/ InfoDone
               \/ StatusDone \/ OpenDone \/ ReadTail \/ ReadResync
               \/ WriteTail \/ AttrDone \/ CloseDone

\* They end in the next command or in the method's return.
LEMMA BlockActionShape ==
  ASSUME TypeOK, BlockAction
  PROVE  /\ stage \in Awaiting
         /\ TakeBlock
         /\ \/ Return
            \/ \E k \in Commands, service \in Services, handle \in Nat :
                 Issue(k, service, handle)
<1>1. stage \in Awaiting /\ TakeBlock
  BY DEF BlockAction, LeaveDone, EnterDone, TextDone, InfoDone, StatusDone,
         OpenDone, ReadTail, ReadResync, WriteTail, AttrDone, CloseDone,
         Awaiting, Commands
<1>2. op.svc \in Services /\ First(op) \in Commands /\ fd \in Nat
        /\ Block.re \in Nat
  BY <1>1, TakeBlockType, FirstIsCommand DEF TypeOK
<1>3. AfterOpen(op) \subseteq Commands
  BY DEF AfterOpen, Commands
<1>4. {"enter", "r", "w", "close"} \subseteq Commands
        /\ {"broker", "file"} \subseteq Services /\ 0 \in Nat
  BY DEF Commands, Services
<1> QED
  BY <1>1, <1>2, <1>3, <1>4
  DEF BlockAction, LeaveDone, EnterDone, TextDone, InfoDone, StatusDone,
      OpenDone, ReadTail, ReadResync, WriteTail, AttrDone, CloseDone

\* They keep the types.
LEMMA BlockActionsType ==
  ASSUME TypeOK, BlockAction
  PROVE  TypeOK'
<1>1. TakeBlock
  BY BlockActionShape
<1>2. /\ current' \in Services
      /\ info' \in {"none", "whole", "wrong"}
      /\ relied' \in SUBSET Nat
  BY FirstIsCommand
  DEF BlockAction, TypeOK, LeaveDone, EnterDone, TextDone, InfoDone,
      StatusDone, OpenDone, ReadTail, ReadResync, WriteTail, AttrDone,
      CloseDone, Services
<1>3. /\ stage' \in Stages
      /\ mu' \in Callers \cup {NoCaller}
      /\ waiting' \in SUBSET Callers
      /\ op' \in Ops \cup {NoOp}
      /\ fd' \in Nat
      /\ sent' \in Nat
      /\ toD' \in Seq(Command)
  BY BlockActionShape, IssueType, ReturnType
<1> QED
  BY <1>1, <1>2, <1>3, TakeBlockType DEF TypeOK

\* Status lines are parsed and reads fail within the types.
LEMMA LineActionsType ==
  ASSUME TypeOK, ReadStatus \/ WriteStatus \/ Timeout \/ ReadFails
  PROVE  TypeOK'
<1>1. CASE ReadStatus
  <2>1. toC' \in Seq(Reply)
    BY <1>1, AfterLineType, Zenon DEF ReadStatus
  <2>2. CASE Issue("close", "file", fd) /\ relied' = {}
               /\ faults' = faults \cup {"count"}
    <3>1. "close" \in Commands /\ "file" \in Services /\ fd \in Nat
      BY DEF TypeOK, Commands, Services
    <3>2. relied' \in SUBSET Nat /\ faults' \in SUBSET FaultKinds
      BY <2>2 DEF TypeOK, FaultKinds
    <3> QED
      BY <1>1, <2>1, <2>2, <3>1, <3>2, IssueType, Zenon
      DEF ReadStatus, TypeOK, daemonVars
  <2>3. CASE /\ stage' \in {"rtail", "rlast", "rerr"}
             /\ UNCHANGED <<op, fd, sent, relied, lockVars, toD, faults>>
    BY <1>1, <2>1, <2>3 DEF ReadStatus, TypeOK, lockVars, daemonVars, Stages,
                            Awaiting
  <2> QED
    BY <1>1, <2>2, <2>3, Zenon DEF ReadStatus
<1>2. CASE WriteStatus
  <2>1. toC' \in Seq(Reply)
    BY <1>2, AfterLineType, Zenon DEF WriteStatus
  <2>2. CASE Issue("close", "file", fd) /\ relied' = {}
               /\ faults' = faults \cup {"write"}
    <3>1. "close" \in Commands /\ "file" \in Services /\ fd \in Nat
      BY DEF TypeOK, Commands, Services
    <3>2. relied' \in SUBSET Nat /\ faults' \in SUBSET FaultKinds
      BY <2>2 DEF TypeOK, FaultKinds
    <3> QED
      BY <1>2, <2>1, <2>2, <3>1, <3>2, IssueType, Zenon
      DEF WriteStatus, TypeOK, daemonVars
  <2>3. CASE /\ stage' \in {"wtail", "wlast"}
             /\ UNCHANGED <<op, fd, sent, relied, lockVars, toD, faults>>
    BY <1>2, <2>1, <2>3 DEF WriteStatus, TypeOK, lockVars, daemonVars, Stages,
                            Awaiting
  <2> QED
    BY <1>2, <2>2, <2>3 DEF WriteStatus
<1>3. CASE Timeout
  <2>1. toC' \in Seq(Reply)
    <3>1. ASSUME toC # <<>>, NEW r \in Residues(Head(toC)),
                 toC' = <<r>> \o Tail(toC)
          PROVE  toC' \in Seq(Reply)
      <4>1. Head(toC) \in Reply /\ Tail(toC) \in Seq(Reply)
        BY <3>1, HeadTailProperties DEF TypeOK
      <4>2. r \in Reply
        BY <4>1, Zenon DEF Residues, Reply, Lines
      <4> QED
        BY <3>1, <4>1, <4>2, ConcatProperties
    <3> QED
      BY <1>3, <3>1, Zenon DEF Timeout, TypeOK
  <2>2. noise' \in BOOLEAN /\ faults' \in SUBSET FaultKinds
    BY <1>3, Zenon DEF Timeout, TypeOK, FaultKinds
  <2>3. Abandon
    BY <1>3 DEF Timeout
  <2> QED
    BY <1>3, <2>1, <2>2, <2>3, AbandonType DEF Timeout, TypeOK, daemonVars
<1>4. CASE ReadFails
  <2>1. Abandon
    BY <1>4 DEF ReadFails
  <2>2. noise' \in BOOLEAN
    BY <1>4, Zenon DEF ReadFails
  <2>3. toC' \in Seq(Reply)
    BY <1>4 DEF ReadFails
  <2> QED
    BY <1>4, <2>1, <2>2, <2>3, AbandonType DEF ReadFails, TypeOK, daemonVars
<1> QED
  BY <1>1, <1>2, <1>3, <1>4

\* Dial and the callers keep the types.
LEMMA CallerActionsType ==
  ASSUME TypeOK,
         \/ Handshake \/ DialFails
         \/ \E c \in Callers : Call(c) \/ Enter(c)
  PROVE  TypeOK'
<1>1. CASE Handshake
  BY <1>1, HeadTailProperties
  DEF Handshake, TypeOK, Stages, lockVars, daemonVars
<1>2. CASE DialFails
  BY <1>2 DEF DialFails, TypeOK, Stages, lockVars, daemonVars
<1>3. ASSUME NEW c \in Callers, Call(c)
      PROVE  TypeOK'
  BY <1>3 DEF Call, TypeOK, clientVars, daemonVars
<1>4. ASSUME NEW c \in Callers, InfoCached(c)
      PROVE  TypeOK'
  BY <1>4 DEF InfoCached, TypeOK, clientVars, daemonVars
<1>5. ASSUME NEW c \in Callers, Close(c)
      PROVE  TypeOK'
  <2>1. noise' \in BOOLEAN
    BY <1>5, Zenon DEF Close
  <2> QED
    BY <1>5, <2>1 DEF Close, TypeOK, clientVars
<1>6. ASSUME NEW c \in Callers, NEW o \in Ops, Acquire(c, o)
      PROVE  TypeOK'
  <2>1. \E k \in Commands, service \in Services : Write(k, service, 0)
    <3>1. /\ First(o) \in Commands /\ "enter" \in Commands
          /\ "leave" \in Commands /\ o.svc \in Services
      BY FirstIsCommand DEF Commands
    <3> QED
      BY <1>6, <3>1 DEF Acquire, TypeOK
  <2>2. /\ stage' \in Stages /\ sent' \in Nat /\ fd' \in Nat
        /\ toD' \in Seq(Command)
    BY <2>1, WriteType
  <2> QED
    BY <1>6, <2>2 DEF Acquire, TypeOK, daemonVars
<1> QED
  BY <1>1, <1>2, <1>3, <1>4, <1>5, <1>6 DEF Enter

\* The daemon and the network keep the types.
LEMMA DaemonActionsType ==
  ASSUME TypeOK, Serve \/ Refuse \/ Drop
  PROVE  TypeOK'
<1>1. ASSUME toD # <<>>
      PROVE  Head(toD) \in Command /\ Tail(toD) \in Seq(Command)
  BY <1>1, HeadTailProperties DEF TypeOK
<1>2. CASE Serve
  <2>1. svc' \in Services /\ fds' \in SUBSET Nat /\ performed' \in SUBSET Nat
    BY <1>1, <1>2, Zenon DEF Serve, TypeOK, Command, Services
  <2>2. PICK line \in Answers(Head(toD)) :
          toC' = Append(toC, [re |-> Head(toD).n, line |-> line,
                              payload |-> Head(toD).kind = "r" /\ line = "o:n",
                              prompt |-> svc'])
    BY <1>2 DEF Serve
  <2>3. line \in Lines
    BY <1>1, <1>2, AnswersType DEF Serve
  <2>4. [re |-> Head(toD).n, line |-> line,
         payload |-> Head(toD).kind = "r" /\ line = "o:n",
         prompt |-> svc'] \in Reply
    BY <1>1, <1>2, <2>1, <2>3 DEF Serve, Reply, Command
  <2>5. toC' \in Seq(Reply)
    BY <2>2, <2>4, AppendProperties DEF TypeOK
  <2> QED
    BY <1>1, <1>2, <2>1, <2>5 DEF Serve, TypeOK, clientVars, lockVars
<1>3. CASE Refuse
  <2>1. [re |-> Head(toD).n, line |-> "err", payload |-> FALSE,
         prompt |-> svc] \in Reply
    BY <1>1, <1>3, SMTT(20) DEF Refuse, Reply, Command, Lines, TypeOK
  <2>2. toC' \in Seq(Reply)
    BY <1>3, <2>1, AppendProperties, SMTT(20) DEF Refuse, TypeOK
  <2>3. fds' \in SUBSET Nat
    BY <1>3, Zenon DEF Refuse, TypeOK
  <2> QED
    BY <1>1, <1>3, <2>2, <2>3, SMTT(20) DEF Refuse, TypeOK, clientVars, lockVars
<1>4. CASE Drop
  <2>1. ASSUME NEW k \in 0..Len(toC)
        PROVE  SubSeq(toC, 1, k) \in Seq(Reply)
    BY SubSeqProperties, LenProperties DEF TypeOK
  <2>2. ASSUME NEW k \in 1..Len(toC), NEW r \in Cuts(toC[k])
        PROVE  SubSeq(toC, 1, k - 1) \o <<r>> \in Seq(Reply)
    <3>1. toC[k] \in Reply
      BY ElementOfSeq DEF TypeOK
    <3>2. r \in Reply
      BY <3>1, ZenonT(30) DEF Cuts, Reply, Lines
    <3>3. SubSeq(toC, 1, k - 1) \in Seq(Reply)
      <4>1. k - 1 \in 0..Len(toC)
        BY LenProperties DEF TypeOK
      <4> QED
        BY <2>1, <4>1
    <3> QED
      BY <3>2, <3>3, ConcatProperties
  <2>3. toC' \in Seq(Reply)
    <3>1. \/ toC' = <<>>
          \/ \E k \in 0..Len(toC) : toC' = SubSeq(toC, 1, k)
          \/ \E k \in 1..Len(toC) : \E r \in Cuts(toC[k]) :
               toC' = SubSeq(toC, 1, k - 1) \o <<r>>
      BY <1>4, Zenon DEF Drop
    <3>2. <<>> \in Seq(Reply)
      OBVIOUS
    <3> QED
      BY <2>1, <2>2, <3>1, <3>2, Zenon
  <2>4. noise' \in BOOLEAN
    BY <1>4, Zenon DEF Drop, TypeOK
  <2> QED
    BY <1>4, <2>3, <2>4 DEF Drop, TypeOK, clientVars, lockVars
<1> QED
  BY <1>2, <1>3, <1>4

\* TypeOK is inductive on its own.
LEMMA TypeStep ==
  ASSUME TypeOK, [Next]_vars
  PROVE  TypeOK'
<1>1. CASE UNCHANGED vars
  BY <1>1 DEF vars, clientVars, lockVars, daemonVars, TypeOK
<1>2. CASE Next
  BY <1>2, BlockActionsType, LineActionsType, CallerActionsType,
     DaemonActionsType DEF Next, Holder, Receive, BlockAction
<1> QED
  BY <1>1, <1>2

\* The initial states have the types.
LEMMA TypeInit ==
  ASSUME Init
  PROVE  TypeOK
<1>1. [re |-> 0, line |-> "banner", payload |-> FALSE, prompt |-> "broker"]
        \in Reply
  BY DEF Reply, Lines, Services
<1>2. toC \in Seq(Reply)
  BY <1>1 DEF Init
<1> QED
  BY <1>2 DEF Init, TypeOK, Services, Stages, FaultKinds

\* Whatever the daemon, the network and the callers do, the client's state and
\* the stream keep their types, for any callers and any number of commands.
THEOREM TypeCorrect == Spec => []TypeOK
BY TypeInit, TypeStep, PTL DEF Spec

-----------------------------------------------------------------------------
(* Who holds the lock, and where the noise line is *)

\* Every step keeps LockInv and NoiseInv.
LEMMA ControlStep ==
  ASSUME TypeOK, LockInv, NoiseInv, [Next]_vars
  PROVE  LockInv' /\ NoiseInv'
<1> USE ClientAssumption DEF LockInv, NoiseInv
<1>1. ASSUME stage \in Awaiting, NEW k \in Commands, NEW s, NEW h,
             Issue(k, s, h)
      PROVE  LockInv' /\ stage' = k
  BY <1>1 DEF Issue, Write, lockVars, Awaiting
<1>2. ASSUME Return
      PROVE  LockInv' /\ NoiseInv'
  BY <1>2 DEF Return, Awaiting, HandleStages, Commands
<1>3. ASSUME TakeBlock
      PROVE  NoiseInv'
  BY <1>3 DEF TakeBlock
<1>4. ASSUME stage \in Awaiting, Abandon, noise' => noise
      PROVE  LockInv' /\ NoiseInv'
  <2>1. CASE stage \in Returning
    BY <1>2, <1>4, <2>1 DEF Abandon
  <2>2. CASE stage \notin Returning
    <3>1. Issue("close", "file", fd) /\ "close" \in Commands
      BY <1>4, <2>2 DEF Abandon, Commands
    <3>2. stage \in HandleStages
      BY <1>4, <2>2 DEF Awaiting, Commands, Returning, HandleStages
    <3> QED
      BY <1>1, <1>4, <3>1, <3>2
  <2> QED
    BY <2>1, <2>2
<1>5. CASE BlockAction
  BY <1>1, <1>2, <1>3, <1>5, BlockActionShape
<1>6. CASE ReadStatus
  <2>1. stage = "r" /\ noise' = noise
    BY <1>6 DEF ReadStatus
  <2>2. stage \in Awaiting /\ ~ noise /\ "close" \in Commands
    BY <2>1 DEF Awaiting, Commands, HandleStages
  <2>3. CASE Issue("close", "file", fd)
    BY <1>1, <2>1, <2>2, <2>3
  <2>4. CASE stage' \in {"rtail", "rlast", "rerr"} /\ UNCHANGED lockVars
    BY <2>1, <2>2, <2>4 DEF lockVars, Awaiting
  <2> QED
    BY <1>6, <2>3, <2>4, Zenon DEF ReadStatus
<1>7. CASE WriteStatus
  <2>1. stage = "w" /\ noise' = noise
    BY <1>7 DEF WriteStatus
  <2>2. stage \in Awaiting /\ ~ noise /\ "close" \in Commands
    BY <2>1 DEF Awaiting, Commands, HandleStages
  <2>3. CASE Issue("close", "file", fd)
    BY <1>1, <2>1, <2>2, <2>3
  <2>4. CASE stage' \in {"wtail", "wlast"} /\ UNCHANGED lockVars
    BY <2>1, <2>2, <2>4 DEF lockVars, Awaiting
  <2> QED
    BY <1>7, <2>3, <2>4 DEF WriteStatus
<1>8. CASE Timeout \/ ReadFails
  <2>1. stage \in Awaiting /\ Abandon
    BY <1>8 DEF Timeout, ReadFails
  <2>2. noise' => noise
    BY <1>8, Zenon DEF Timeout, ReadFails
  <2> QED
    BY <1>4, <2>1, <2>2
<1>9. CASE Handshake \/ DialFails
  BY <1>9 DEF Handshake, DialFails, lockVars, Awaiting, Commands, HandleStages
<1>10. ASSUME NEW c \in Callers, Call(c) \/ InfoCached(c) \/ Close(c)
       PROVE  LockInv' /\ NoiseInv'
  <2>1. stage' = stage /\ mu' = mu
    BY <1>10 DEF Call, InfoCached, Close, clientVars
  <2>2. noise' => noise
    BY <1>10, Zenon DEF Call, InfoCached, Close
  <2> QED
    BY <2>1, <2>2
<1>11. ASSUME NEW c \in Callers, NEW o \in Ops, Acquire(c, o)
       PROVE  LockInv' /\ NoiseInv'
  <2>1. First(o) \in Commands \ HandleStages
    BY DEF First, Commands, HandleStages, Ops
  <2>2. stage' \in Commands \ HandleStages /\ mu' = c
    BY <1>11, <2>1 DEF Acquire, Write, Commands, HandleStages
  <2> QED
    BY <2>2 DEF Awaiting
<1>12. CASE Serve \/ Refuse
  BY <1>12 DEF Serve, Refuse, clientVars, lockVars
<1>13. CASE Drop
  <2>1. stage' = stage /\ mu' = mu
    BY <1>13 DEF Drop, clientVars, lockVars
  <2>2. noise' => noise
    BY <1>13, Zenon DEF Drop
  <2> QED
    BY <2>1, <2>2
<1>14. CASE UNCHANGED vars
  BY <1>14 DEF vars, clientVars, lockVars
<1> QED
  BY <1>5, <1>6, <1>7, <1>8, <1>9, <1>10, <1>11, <1>12, <1>13, <1>14
  DEF Next, Holder, Receive, Enter, BlockAction

\* readResponseLine, which does not filter the linemode/echo error line, never
\* meets it, whatever timed out or was refused before.
THEOREM NoiseIsFiltered == Spec => []NoiseNeverStatus
<1>1. Init => LockInv /\ NoiseInv
  BY DEF Init, LockInv, NoiseInv, Awaiting, Commands, HandleStages
<1>2. NoiseInv => NoiseNeverStatus
  BY DEF NoiseInv, NoiseNeverStatus, HandleStages
<1> QED
  BY <1>1, <1>2, TypeInit, TypeStep, ControlStep, PTL DEF Spec

-----------------------------------------------------------------------------
(* The stream: what the pieces of an action do to it *)

\* A block taken without a fault is the reply to the last command, and the
\* only thing in the stream.
LEMMA CleanTake ==
  ASSUME TypeOK, StreamInv, stage \in Awaiting, TakeBlock, Clean'
  PROVE  /\ Clean
         /\ toC # <<>> /\ Len(toC) = 1 /\ Block = toC[1]
         /\ toC[1].re = sent
         /\ toC' = <<>> /\ toD = <<>>
         /\ UNCHANGED <<conn, svc, fds, performed>>
<1>1. Block.prompt # "eof" /\ faults = {}
  BY Zenon DEF TakeBlock, Clean
<1>2. toC # <<>>
  BY <1>1 DEF Block, Blank
<1>3. Len(toC) = 1 /\ toC[1].re = sent /\ toD = <<>>
  BY <1>2 DEF StreamInv
<1>4. toC \in Seq(Reply)
  BY DEF TypeOK
<1>5. Block = toC[1] /\ Tail(toC) = <<>>
  <2>1. Tail(toC) \in Seq(Reply) /\ Len(Tail(toC)) = 0
    BY <1>2, <1>3, <1>4, HeadTailProperties
  <2>2. Tail(toC) = <<>>
    BY <2>1, EmptySeq, Zenon
  <2>3. Block = toC[1]
    BY <1>2, <1>4 DEF Block
  <2> QED
    BY <2>2, <2>3
<1> QED
  BY <1>1, <1>2, <1>3, <1>5 DEF TakeBlock, Clean, daemonVars

\* A command written to an empty stream is the only thing in it.
LEMMA WriteAlone ==
  ASSUME TypeOK, NEW k \in Commands, NEW service \in Services,
         NEW handle \in Nat, Write(k, service, handle), toD = <<>>,
         toC' = <<>>, conn' = conn
  PROVE  /\ StreamInv'
         /\ stage' = k /\ fd' = handle
         /\ toD' # <<>> => /\ conn = "up"
                          /\ toD'[1].svc = service
                          /\ toD'[1].fd = handle
<1> DEFINE c == [n |-> sent + 1, kind |-> k, svc |-> service, fd |-> handle]
<1>1. c \in Command
  BY DEF TypeOK, Command
<1>2. conn = "up" => toD' = <<c>>
  BY <1>1 DEF Write
<1>3. conn # "up" => toD' = <<>>
  BY DEF Write
<1>4. stage' = k /\ sent' = sent + 1 /\ fd' = handle
  BY DEF Write
<1>5. k \in Awaiting /\ k \notin {"idle", "failed", "greet"}
  BY DEF Commands, Awaiting
<1>6. c.n = sent + 1 /\ c.kind = k /\ c.svc = service /\ c.fd = handle
  OBVIOUS
<1>7. toD' # <<>> => /\ conn = "up" /\ Len(toD') = 1 /\ toD'[1] = c
  BY <1>2, <1>3
<1> HIDE DEF c
<1>8. conn' = "up" => toD' # <<>>
  BY <1>2
<1>9. StreamInv'
  BY <1>4, <1>5, <1>6, <1>7, <1>8 DEF StreamInv
<1> QED
  BY <1>4, <1>6, <1>7, <1>9

\* A method that returns with the stream empty leaves it so.
LEMMA ReturnEmpty ==
  ASSUME Return, toD = <<>>, toC' = <<>>
  PROVE  /\ stage' = "idle" /\ toD' = <<>>
         /\ StreamInv'
BY DEF Return, StreamInv, Awaiting, Commands

\* A command written to an empty stream, in the service it is meant for, keeps
\* client and daemon in step.
LEMMA WriteSync ==
  ASSUME TypeOK, NEW k \in Commands, NEW service \in Services,
         NEW handle \in Nat, Write(k, service, handle),
         toD = <<>>, toC' = <<>>, UNCHANGED <<conn, svc, fds, performed>>,
         relied' \subseteq performed, \A n \in performed : n <= sent,
         conn = "down" => fds = {},
         conn = "up" => current' = svc,
         k = "leave" => service = current' /\ current' # "broker",
         k = "enter" => service = op'.svc /\ current' = "broker",
         k = "raw" => service = current',
         k \in {"versions", "info"} => current' = "broker",
         fds \subseteq (IF k \in HandleStages THEN {handle} ELSE {})
  PROVE  Sync'
<1>1. /\ StreamInv'
      /\ stage' = k /\ fd' = handle
      /\ toD' # <<>> => /\ conn = "up"
                       /\ toD'[1].svc = service
                       /\ toD'[1].fd = handle
  BY WriteAlone
<1>2. ReplyInv'
  <2>1. /\ sent' = sent + 1 /\ sent \in Nat /\ performed \subseteq Nat
        /\ \A n \in performed : n <= sent
    BY DEF Write, TypeOK
  <2>2. (\A n \in performed : n <= sent') /\ sent' \notin performed
    BY <2>1
  <2> QED
    BY <1>1, <2>2 DEF ReplyInv, Commands
<1>3. ServiceInv'
  BY <1>1 DEF ServiceInv, BodyStages, Awaiting, Commands
<1>4. HandleInv'
  BY <1>1 DEF HandleInv, HandleStages
<1> QED
  BY <1>1, <1>2, <1>3, <1>4 DEF Sync

\* A method that returns with the stream empty, in the daemon's service and
\* with no descriptor open keeps client and daemon in step.
LEMMA ReturnSync ==
  ASSUME TypeOK, Return, toD = <<>>, toC' = <<>>,
         UNCHANGED <<conn, svc, fds, performed>>,
         relied' \subseteq performed, \A n \in performed : n <= sent,
         conn = "up" => current' = svc,
         fds = {}
  PROVE  Sync'
<1>1. stage' = "idle" /\ toD' = <<>> /\ StreamInv'
  BY ReturnEmpty
<1>2. ReplyInv'
  BY <1>1 DEF ReplyInv, Awaiting, Commands, Return
<1>3. ServiceInv'
  BY <1>1 DEF ServiceInv, BodyStages, Awaiting, Commands
<1>4. HandleInv'
  BY <1>1 DEF HandleInv, HandleStages
<1> QED
  BY <1>1, <1>2, <1>3, <1>4 DEF Sync

-----------------------------------------------------------------------------
(* The stream: each action *)

\* Taking a block and going on, or returning, keeps client and daemon in step
\* unless a fault is noted.
LEMMA BlockSync ==
  ASSUME TypeOK, Sync, BlockAction, Clean'
  PROVE  Sync'
<1>1. stage \in Awaiting /\ TakeBlock
  BY BlockActionShape
<1>2. /\ toC # <<>> /\ Block = toC[1] /\ toC[1].re = sent
      /\ toC' = <<>> /\ toD = <<>>
      /\ UNCHANGED <<conn, svc, fds, performed>>
  BY <1>1, CleanTake DEF Sync
<1>3. ReplyInv /\ ServiceInv /\ HandleInv
  BY DEF Sync
<1>4. /\ op.svc \in Services /\ First(op) \in Commands \ HandleStages
      /\ First(op) \notin {"leave", "enter"}
      /\ First(op) \in {"versions", "info"} => op.svc = "broker"
      /\ fd \in Nat /\ sent \in Nat
      /\ "broker" \in Services /\ "file" \in Services
      /\ {"enter", "r", "w", "close"} \subseteq Commands
  BY FirstIsCommand
  DEF TypeOK, First, Ops, NoOp, Commands, Services, HandleStages
<1>5. stage \in BodyStages /\ conn = "up" => current = svc
  BY <1>3 DEF ServiceInv
<1>6. conn = "down" => fds = {}
  BY <1>3 DEF HandleInv
<1>7. relied \subseteq performed /\ \A n \in performed : n <= sent
  BY <1>3 DEF ReplyInv
<1>8. CASE LeaveDone
  <2>1. stage = "leave" /\ current' = "broker" /\ relied' = relied
    BY <1>8 DEF LeaveDone
  <2>2. (conn = "up" => svc = "broker") /\ fds = {}
    BY <1>2, <1>3, <2>1 DEF ServiceInv, HandleInv, HandleStages
  <2>3. \/ Write(First(op), "broker", 0)
        \/ Write("enter", op.svc, 0) /\ op' = op
    BY <1>8 DEF LeaveDone, Issue
  <2> QED
    BY <1>2, <1>4, <1>7, <2>1, <2>2, <2>3, WriteSync DEF HandleStages
<1>9. CASE EnterDone
  <2>1. stage = "enter" /\ fds = {}
    BY <1>3, <1>9 DEF EnterDone, HandleInv, HandleStages
  <2>2. CASE Block.line = "OK"
    <3>1. /\ current' = op.svc /\ relied' = relied \cup {sent}
          /\ Write(First(op), op.svc, 0)
      BY <1>9, <2>2 DEF EnterDone, Issue
    <3>2. sent \in performed /\ (conn = "up" => svc = op.svc)
      BY <1>1, <1>2, <1>3, <2>1, <2>2 DEF ReplyInv, ServiceInv
    <3> QED
      BY <1>2, <1>4, <1>7, <2>1, <3>1, <3>2, WriteSync
  <2>3. CASE Block.line # "OK"
    <3>1. current' = current /\ relied' = {} /\ Return
      BY <1>9, <2>3 DEF EnterDone
    <3>2. conn = "up" => current = "broker" /\ svc = "broker"
      BY <1>2, <1>3, <2>1, <2>3 DEF ServiceInv
    <3> QED
      BY <1>2, <1>7, <2>1, <3>1, <3>2, ReturnSync
  <2> QED
    BY <2>2, <2>3
<1>10. CASE TextDone \/ InfoDone
  <2>1. /\ stage \in {"versions", "raw", "info"} /\ current' = current
        /\ relied' = relied \cup {sent} /\ Return
    BY <1>10 DEF TextDone, InfoDone
  <2>2. sent \in performed /\ fds = {}
    BY <1>1, <1>2, <1>3, <2>1 DEF ReplyInv, HandleInv, HandleStages
  <2>3. stage \in BodyStages
    BY <1>1, <2>1 DEF BodyStages
  <2> QED
    BY <1>2, <1>5, <1>7, <2>1, <2>2, <2>3, ReturnSync
<1>11. CASE StatusDone
  <2>1. stage \in {"d", "kill"} /\ current' = current /\ Return
    BY <1>11 DEF StatusDone
  <2>2. relied' \subseteq performed
    BY <1>1, <1>2, <1>3, <1>7, <1>11 DEF StatusDone, ReplyInv
  <2>3. fds = {} /\ stage \in BodyStages
    BY <1>1, <1>3, <2>1 DEF HandleInv, HandleStages, BodyStages
  <2> QED
    BY <1>2, <1>7, <1>5, <2>1, <2>2, <2>3, ReturnSync
<1>12. CASE OpenDone
  <2>1. stage = "open" /\ current' = current /\ stage \in BodyStages
    BY <1>1, <1>12 DEF OpenDone, BodyStages
  <2>2. CASE Block.line = "o:fd"
    <3>1. relied' = relied \cup {sent} /\ sent \in performed
      BY <1>1, <1>2, <1>3, <1>12, <2>2 DEF OpenDone, ReplyInv
    <3>2. PICK k \in AfterOpen(op) : Write(k, "file", sent)
      BY <1>2, <1>12, <2>2 DEF OpenDone, Issue
    <3>3. k \in {"a", "r", "w", "close"}
      BY <3>2 DEF AfterOpen
    <3>4. fds \subseteq {sent}
      BY <1>2, <1>3, <2>1, <2>2 DEF HandleInv
    <3>5. k \in Commands /\ k \in HandleStages
            /\ k \notin {"leave", "enter", "raw", "versions", "info"}
      BY <3>3 DEF Commands, HandleStages
    <3> QED
      BY <1>2, <1>4, <1>5, <1>6, <1>7, <2>1, <3>1, <3>2, <3>4, <3>5, WriteSync, SMTT(20)
  <2>3. CASE Block.line # "o:fd"
    <3>1. relied' = {} /\ Return
      BY <1>12, <2>3 DEF OpenDone
    <3>2. fds = {}
      BY <1>2, <1>3, <2>1, <2>3 DEF HandleInv
    <3> QED
      BY <1>2, <1>7, <1>5, <2>1, <3>1, <3>2, ReturnSync
  <2> QED
    BY <2>2, <2>3
<1>13. CASE ReadTail \/ WriteTail \/ ReadResync \/ AttrDone
  <2>1. /\ stage \in {"rtail", "rlast", "wtail", "wlast", "rerr", "a"}
        /\ current' = current
    BY <1>13 DEF ReadTail, WriteTail, ReadResync, AttrDone
  <2>2. PICK k \in {"r", "w", "close"} : Write(k, "file", fd)
    BY <1>13 DEF ReadTail, WriteTail, ReadResync, AttrDone, Issue
  <2>3. relied' \subseteq performed
    BY <1>1, <1>2, <1>3, <1>7, <1>13
    DEF ReadTail, WriteTail, ReadResync, AttrDone, ReplyInv
  <2>4. stage \in BodyStages /\ fds \subseteq {fd}
    BY <1>1, <1>3, <2>1 DEF BodyStages, HandleInv, HandleStages
  <2>5. k \in Commands /\ k \in HandleStages
          /\ k \notin {"leave", "enter", "raw", "versions", "info"}
    BY DEF Commands, HandleStages
  <2> QED
    BY <1>2, <1>7, <1>4, <1>5, <1>6, <2>1, <2>2, <2>3, <2>4, <2>5, WriteSync, Zenon
<1>14. CASE CloseDone
  <2>1. stage = "close" /\ current' = current /\ Return
    BY <1>14 DEF CloseDone
  <2>2. relied' \subseteq performed
    <3>1. \/ relied' \in {relied, {}}
          \/ relied' = relied \cup {sent} /\ Block.line = "o"
      BY <1>14 DEF CloseDone
    <3> QED
      BY <1>1, <1>2, <1>3, <1>7, <3>1 DEF ReplyInv
  <2>3. fds = {} /\ stage \in BodyStages
    BY <1>1, <1>2, <1>3, <2>1 DEF HandleInv, BodyStages
  <2> QED
    BY <1>2, <1>7, <1>5, <2>1, <2>2, <2>3, ReturnSync
<1> QED
  BY <1>8, <1>9, <1>10, <1>11, <1>12, <1>13, <1>14 DEF BlockAction

\* So does parsing a status line; a refused write and a read without a count
\* are noted as faults.
LEMMA LineSync ==
  ASSUME TypeOK, Sync, ReadStatus \/ WriteStatus, Clean'
  PROVE  Sync'
<1>1. StreamInv /\ ReplyInv /\ ServiceInv /\ HandleInv
  BY DEF Sync
<1>2. stage \in {"r", "w"} /\ toC # <<>> /\ toC \in Seq(Reply)
  <2>1. stage \in {"r", "w"} /\ 1..Len(toC) # {}
    BY Zenon DEF ReadStatus, WriteStatus
  <2> QED
    BY <2>1, SMTT(20) DEF TypeOK
<1>3. stage \in Awaiting /\ stage \in BodyStages /\ stage \in HandleStages
  BY <1>2 DEF Awaiting, BodyStages, HandleStages, Commands
<1>4. Len(toC) = 1 /\ toD = <<>> /\ toC[1].re = sent /\ toC[1].line # "o:fd"
  BY <1>1, <1>2, <1>3 DEF StreamInv, ReplyInv
<1>5. ASSUME NEW left \in BOOLEAN
      PROVE  AfterLine(1, left)
               = <<[toC[1] EXCEPT !.line = "none", !.payload = left]>>
  <2> DEFINE r == [toC[1] EXCEPT !.line = "none", !.payload = left]
  <2>1. r \in Reply
    <3>1. toC[1] \in Reply
      BY <1>2, <1>4, ElementOfSeq
    <3> QED
      BY <3>1, Zenon DEF Reply, Lines
  <2>2. SubSeq(toC, 1 + 1, Len(toC)) = <<>>
    BY <1>2, <1>4
  <2>3. AfterLine(1, left) = <<r>> \o <<>>
    BY <2>2, Zenon DEF AfterLine
  <2> HIDE DEF r
  <2>4. <<r>> \o <<>> = <<r>>
    BY <2>1, ConcatEmptySeq
  <2> QED
    BY <2>3, <2>4 DEF r
<1>6. /\ StatusLine(1) = toC[1].line
      /\ toC[1].line \notin {"none", "part"}
      /\ \E left \in BOOLEAN : toC' = AfterLine(1, left)
      /\ stage' \in {"rtail", "rlast", "wtail", "wlast", "rerr"}
      /\ stage' # "rerr" => toC[1].line \in {"o:n", "o:0", "o:?"}
      /\ UNCHANGED <<conn, current, op, fd, sent, relied, toD, svc, fds,
                     performed>>
  <2>1. \A i \in 1..Len(toC) : i = 1 /\ toC[i].payload \in BOOLEAN
    <3>1. 1 \in 1..Len(toC) /\ FALSE \in BOOLEAN
      BY <1>4
    <3>2. toC[1].payload \in BOOLEAN
      BY <3>1, AfterLineType, Zenon
    <3> QED
      BY <1>4, <3>2
  <2>2. StatusLine(1) = toC[1].line
    BY DEF StatusLine
  <2>3. CASE ReadStatus
    <3>1. "count" \notin faults'
      BY DEF Clean
    <3> QED
      BY <1>4, <2>1, <2>2, <2>3, <3>1, ZenonT(30) DEF ReadStatus, LineAt, daemonVars
  <2>4. CASE WriteStatus
    <3>1. "write" \notin faults'
      BY DEF Clean
    <3> QED
      BY <1>4, <2>1, <2>2, <2>4, <3>1 DEF WriteStatus, LineAt, daemonVars
  <2> QED
    BY <2>2, <2>3, <2>4
<1>7. /\ Len(toC') = 1 /\ toC' # <<>>
      /\ toC'[1].re = sent /\ toC'[1].line = "none"
  <2>1. PICK left \in BOOLEAN : toC' = <<[toC[1] EXCEPT !.line = "none",
                                                     !.payload = left]>>
    BY <1>5, <1>6, Zenon
  <2>2. toC[1] \in Reply
    BY <1>2, <1>4
  <2> QED
    BY <1>4, <2>1, <2>2, Zenon DEF Reply
<1>8. stage' \in Awaiting /\ stage' \in HandleStages /\ stage' \in BodyStages
        /\ stage' \notin {"idle", "failed", "greet", "open", "close",
                          "leave", "enter", "raw", "versions", "info"}
  BY <1>6, SMTT(20), Zenon DEF Awaiting, HandleStages, BodyStages, Commands
<1>9. StreamInv'
  BY <1>4, <1>6, <1>7, <1>8, ZenonT(30) DEF StreamInv
<1>10. ReplyInv'
  BY <1>1, <1>2, <1>3, <1>6, <1>7, <1>8, Zenon DEF ReplyInv
<1>11. ServiceInv'
  BY <1>1, <1>3, <1>6, <1>8, ZenonT(30) DEF ServiceInv
<1>12. HandleInv'
  BY <1>1, <1>3, <1>6, <1>8 DEF HandleInv
<1> QED
  BY <1>9, <1>10, <1>11, <1>12 DEF Sync

\* A read that fails because the connection is gone leaves an empty stream;
\* one that times out is noted as a fault.
LEMMA FailSync ==
  ASSUME TypeOK, Sync, Timeout \/ ReadFails, Clean'
  PROVE  Sync'
<1>1. StreamInv /\ ReplyInv /\ ServiceInv /\ HandleInv
  BY DEF Sync
<1>2. ReadFails
  BY DEF Timeout, Clean
<1>3. /\ stage \in Awaiting /\ conn = "down" /\ toC' = <<>> /\ Abandon
      /\ UNCHANGED <<conn, svc, fds, performed>>
  BY <1>2 DEF ReadFails, daemonVars
<1>4. /\ toD = <<>> /\ fds = {} /\ relied \subseteq performed
      /\ \A n \in performed : n <= sent
  BY <1>1, <1>3 DEF StreamInv, HandleInv, ReplyInv
<1>5. relied' \subseteq performed
  BY <1>3, <1>4 DEF Abandon
<1>6. CASE Return
  BY <1>3, <1>4, <1>5, <1>6, ReturnSync
<1>7. CASE Issue("close", "file", fd)
  <2>1. Write("close", "file", fd) /\ "close" \in Commands
          /\ "file" \in Services /\ fd \in Nat
    BY <1>7 DEF Issue, TypeOK, Commands, Services
  <2> QED
    BY <1>3, <1>4, <1>5, <2>1, WriteSync
<1> QED
  BY <1>3, <1>6, <1>7 DEF Abandon

\* A step that leaves the stream and both ends alone keeps them in step.
LEMMA SyncUnchanged ==
  ASSUME Sync, UNCHANGED <<conn, current, op, stage, fd, sent, relied, toD, toC,
                           svc, fds, performed>>
  PROVE  Sync'
<1>1. StreamInv'
  BY DEF Sync, StreamInv
<1>2. ReplyInv'
  BY DEF Sync, ReplyInv
<1>3. ServiceInv'
  BY DEF Sync, ServiceInv
<1>4. HandleInv'
  BY DEF Sync, HandleInv
<1> QED
  BY <1>1, <1>2, <1>3, <1>4 DEF Sync

\* With no descriptor open and no command on its way nothing can be wrong with
\* the descriptors.
LEMMA NoHandles ==
  ASSUME fds' = {}, toD' = <<>>
  PROVE  HandleInv'
BY DEF HandleInv

\* The client waits for the rest of a response only inside a method.
LEMMA TailStagesAwait ==
  {"rtail", "rlast", "wtail", "wlast"} \subseteq Awaiting
BY DEF Awaiting

\* Dial and the callers keep client and daemon in step.
LEMMA CallerSync ==
  ASSUME TypeOK, LockInv, Sync,
         \/ Handshake \/ DialFails
         \/ \E c \in Callers : Call(c) \/ Enter(c)
  PROVE  Sync'
<1>1. StreamInv /\ ReplyInv /\ ServiceInv /\ HandleInv
  BY DEF Sync
<1>2. CASE Handshake
  <2>1. /\ stage = "greet" /\ toC # <<>> /\ toC' = Tail(toC) /\ stage' = "idle"
        /\ UNCHANGED <<conn, current, sent, toD, svc, fds, performed, relied>>
    BY <1>2 DEF Handshake, daemonVars
  <2>2. toC' = <<>>
    <3>1. Tail(toC) \in Seq(Reply) /\ Len(Tail(toC)) = Len(toC) - 1
            /\ Len(toC) \in Nat
      BY <2>1, HeadTailProperties, LenProperties DEF TypeOK
    <3> QED
      BY <1>1, <2>1, <3>1, EmptySeq DEF StreamInv
  <2>3. stage \notin Awaiting /\ stage' \notin Awaiting
    BY <2>1 DEF Awaiting, Commands
  <2>4. StreamInv'
    BY <1>1, <2>1, <2>2, <2>3, SMTT(20) DEF StreamInv
  <2>5. ReplyInv' /\ ServiceInv'
    BY <1>1, <2>1, <2>3 DEF ReplyInv, ServiceInv, BodyStages
  <2>6. HandleInv'
    BY <1>1, <2>1 DEF HandleInv, HandleStages
  <2> QED
    BY <2>4, <2>5, <2>6 DEF Sync
<1>3. CASE DialFails
  <2>1. /\ stage = "greet" /\ conn' = "down" /\ toC' = <<>> /\ stage' = "failed"
        /\ UNCHANGED <<sent, toD, fds, performed, relied>>
    BY <1>3 DEF DialFails, daemonVars
  <2>2. stage \notin Awaiting /\ stage' \notin Awaiting
    BY <2>1, Zenon DEF Awaiting, Commands
  <2>3. StreamInv' /\ ReplyInv' /\ ServiceInv'
    BY <1>1, <2>1, <2>2 DEF StreamInv, ReplyInv, ServiceInv
  <2>4. fds = {} /\ toD = <<>>
    BY <1>1, <2>1, <2>2 DEF StreamInv, HandleInv, HandleStages
  <2>5. HandleInv'
    BY <2>1, <2>4, NoHandles
  <2> QED
    BY <2>3, <2>5 DEF Sync
<1>4. ASSUME NEW c \in Callers, Call(c) \/ InfoCached(c)
      PROVE  Sync'
  <2>1. UNCHANGED <<conn, current, op, stage, fd, sent, relied, toD, toC, svc,
                    fds, performed>>
    BY <1>4 DEF Call, InfoCached, clientVars, daemonVars
  <2> QED
    BY <2>1, SyncUnchanged
<1>5. ASSUME NEW c \in Callers, Close(c)
      PROVE  Sync'
  <2>1. /\ conn' = "down" /\ toD' = <<>> /\ toC' = <<>> /\ fds' = {}
        /\ UNCHANGED <<stage, sent, performed, relied>>
        /\ stage' \notin Awaiting
    BY <1>5, Zenon DEF Close, clientVars, LockInv
  <2>2. StreamInv'
    BY <2>1 DEF StreamInv
  <2>3. ReplyInv'
    BY <1>1, <2>1, TailStagesAwait DEF ReplyInv
  <2>4. ServiceInv' /\ HandleInv'
    BY <2>1, NoHandles DEF ServiceInv
  <2> QED
    BY <2>2, <2>3, <2>4 DEF Sync
<1>6. ASSUME NEW c \in Callers, NEW o \in Ops, Acquire(c, o)
      PROVE  Sync'
  <2>1. /\ stage = "idle" /\ op' = o /\ relied' = {}
        /\ UNCHANGED <<conn, current, toC, svc, fds, performed>>
    BY <1>6, Zenon DEF Acquire, daemonVars
  <2>2. /\ toC' = <<>> /\ toD = <<>> /\ fds = {}
        /\ conn = "up" => current = svc
        /\ \A n \in performed : n <= sent
    BY <1>1, <2>1
    DEF StreamInv, ReplyInv, HandleInv, ServiceInv, HandleStages, Awaiting, Commands
  <2>3. /\ First(o) \in Commands \ (HandleStages \cup {"leave", "enter"})
        /\ First(o) \in {"versions", "info"} => o.svc = "broker"
        /\ o.svc \in Services /\ current \in Services /\ 0 \in Nat
        /\ {"leave", "enter"} \subseteq Commands \ HandleStages
    BY FirstIsCommand, ZenonT(30)
    DEF TypeOK, First, Ops, Commands, HandleStages
  <2>4. CASE current = o.svc
    <3>1. Write(First(o), current, 0)
      BY <1>6, <2>4, SMTT(20) DEF Acquire
    <3> QED
      BY <2>1, <2>2, <2>3, <2>4, <3>1, WriteSync
  <2>5. CASE current # o.svc /\ current = "broker"
    <3>1. Write("enter", o.svc, 0)
      BY <1>6, <2>5 DEF Acquire
    <3> QED
      BY <2>1, <2>2, <2>3, <2>5, <3>1, WriteSync, Zenon
  <2>6. CASE current # o.svc /\ current # "broker"
    <3>1. Write("leave", current, 0)
      BY <1>6, <2>6 DEF Acquire
    <3> QED
      BY <2>1, <2>2, <2>3, <2>6, <3>1, WriteSync
  <2> QED
    BY <2>4, <2>5, <2>6
<1> QED
  BY <1>2, <1>3, <1>4, <1>5, <1>6 DEF Enter

\* An answer replaces the command in the stream.
LEMMA AnswerStream ==
  ASSUME TypeOK, StreamInv, toD # <<>>, NEW r \in Reply, r.re = Head(toD).n,
         toD' = Tail(toD), toC' = Append(toC, r),
         UNCHANGED <<conn, stage, sent>>
  PROVE  /\ Head(toD) = toD[1] /\ toD[1].kind = stage /\ toD[1].n = sent
         /\ stage \in Awaiting /\ conn = "up"
         /\ toD' = <<>> /\ toC' = <<r>>
         /\ StreamInv'
<1>1. /\ Len(toD) = 1 /\ toD[1].n = sent /\ toD[1].kind = stage
      /\ stage \in Awaiting /\ conn = "up" /\ toC = <<>>
  BY DEF StreamInv
<1>2. Head(toD) = toD[1]
  BY DEF TypeOK
<1>3. toD' = <<>>
  <2>1. Tail(toD) \in Seq(Command) /\ Len(Tail(toD)) = 0
    BY <1>1, HeadTailProperties DEF TypeOK
  <2> QED
    BY <2>1, EmptySeq
<1>4. toC' = <<r>>
  BY <1>1
<1>5. StreamInv'
  <2>1. stage \notin {"idle", "failed", "greet"}
    BY <1>1 DEF Awaiting, Commands
  <2>2. Len(toC') = 1 /\ toC'[1] = r
    BY <1>4
  <2> QED
    BY <1>1, <1>2, <1>3, <1>4, <2>1, <2>2 DEF StreamInv
<1> QED
  BY <1>1, <1>2, <1>3, <1>4, <1>5

\* A command carried out keeps client and daemon in step.
LEMMA ServeSync ==
  ASSUME TypeOK, Sync, Serve
  PROVE  Sync'
<1> DEFINE c == Head(toD)
<1>1. StreamInv /\ ReplyInv /\ ServiceInv /\ HandleInv
  BY DEF Sync
<1>2. toD # <<>> /\ c \in Command /\ sent \in Nat
  BY HeadTailProperties DEF Serve, TypeOK
<1>3. PICK line \in Answers(c) :
        toC' = Append(toC, [re |-> c.n, line |-> line,
                            payload |-> c.kind = "r" /\ line = "o:n",
                            prompt |-> svc'])
  BY ZenonT(30) DEF Serve
<1> DEFINE r == [re |-> c.n, line |-> line,
                 payload |-> c.kind = "r" /\ line = "o:n", prompt |-> svc']
<1>4. r \in Reply
  <2>1. line \in Lines /\ svc' \in Services
    BY <1>2, AnswersType, DaemonActionsType, SMTT(60) DEF TypeOK
  <2>2. c.n \in Nat
    BY <1>2 DEF Command
  <2>3. (c.kind = "r" /\ line = "o:n") \in BOOLEAN
    BY ZenonT(30)
  <2> QED
    BY <2>1, <2>2, <2>3, Zenon DEF Reply
<1>5. r.re = c.n /\ r.line = line
  OBVIOUS
<1>6. /\ toD' = Tail(toD) /\ toC' = Append(toC, r)
      /\ UNCHANGED <<conn, stage, sent, current, op, fd, relied>>
  <2>1. toD' = Tail(toD) /\ UNCHANGED <<conn, stage, sent, current, op, fd, relied>>
    BY DEF Serve, clientVars
  <2> QED
    BY <1>3, <2>1
<1> HIDE DEF r
<1>7. /\ c = toD[1] /\ c.kind = stage /\ c.n = sent
      /\ stage \in Awaiting /\ conn = "up"
      /\ toD' = <<>> /\ toC' = <<r>> /\ StreamInv'
  BY <1>1, <1>2, <1>4, <1>5, <1>6, AnswerStream
<1>8. toC'[1].line = line
  BY <1>5, <1>7
<1>9. stage \in Commands
  BY <1>2, <1>7 DEF Command
<1>10. performed' = performed \cup {sent}
  <2>1. stage = "raw" => c.svc = svc
    BY <1>1, <1>2, <1>7 DEF ServiceInv, BodyStages
  <2> QED
    BY <1>7, <2>1 DEF Serve
<1>11. ReplyInv'
  <2>1. line = "o:fd" => stage = "open"
    BY <1>3, <1>7 DEF Answers
  <2> QED
    BY <1>1, <1>2, <1>6, <1>7, <1>8, <1>10, <2>1 DEF ReplyInv
<1>12. ServiceInv'
  <2>1. stage = "enter" => line = "OK"
    BY <1>3, <1>7 DEF Answers
  <2>2. svc' = CASE stage = "enter" -> c.svc
                 [] stage = "leave" -> "broker"
                 [] OTHER -> svc
    BY <1>7 DEF Serve
  <2>3. CASE stage = "enter"
    BY <1>1, <1>2, <1>6, <1>7, <1>8, <2>1, <2>2, <2>3
    DEF ServiceInv, BodyStages
  <2>4. CASE stage = "leave"
    BY <1>1, <1>6, <1>7, <2>2, <2>4 DEF ServiceInv, BodyStages
  <2>5. CASE stage \notin {"enter", "leave"}
    BY <1>1, <1>6, <1>7, <2>2, <2>5 DEF ServiceInv, BodyStages
  <2> QED
    BY <2>3, <2>4, <2>5
<1>13. HandleInv'
  <2>1. fds' = CASE stage = "open" -> fds \cup {sent}
                 [] stage = "close" -> fds \ {c.fd}
                 [] OTHER -> fds
    BY <1>7, Zenon DEF Serve
  <2>2. CASE stage = "open"
    <3>1. line = "o:fd"
      BY <1>3, <1>7, <2>2 DEF Answers
    <3>2. fds = {}
      BY <1>1, <1>2, <2>2 DEF HandleInv
    <3>3. fds' = {sent}
      BY <2>1, <2>2, <3>2, Zenon
    <3> QED
      BY <1>6, <1>7, <1>8, <2>2, <3>1, <3>3 DEF HandleInv, HandleStages
  <2>3. CASE stage = "close"
    <3>1. c.fd = fd /\ fds \subseteq {fd}
      BY <1>1, <1>2, <1>7, <2>3 DEF HandleInv, HandleStages
    <3>2. fds' = {}
      BY <2>1, <2>3, <3>1
    <3> QED
      BY <1>6, <1>7, <2>3, <3>2, ZenonT(30) DEF HandleInv, HandleStages
  <2>4. CASE stage \notin {"open", "close"}
    BY <1>1, <1>6, <1>7, <2>1, <2>4 DEF HandleInv, HandleStages
  <2> QED
    BY <2>2, <2>3, <2>4
<1> QED
  BY <1>7, <1>11, <1>12, <1>13 DEF Sync

\* A refusal keeps client and daemon in step.
LEMMA RefuseSync ==
  ASSUME TypeOK, Sync, Refuse
  PROVE  Sync'
<1> DEFINE c == Head(toD)
           r == [re |-> c.n, line |-> "err", payload |-> FALSE, prompt |-> svc]
<1>1. StreamInv /\ ReplyInv /\ ServiceInv /\ HandleInv
  BY DEF Sync
<1>2. toD # <<>> /\ c \in Command
  BY HeadTailProperties, Zenon DEF Refuse, TypeOK
<1>3. r \in Reply
  BY <1>2, Zenon DEF Reply, Command, Lines, TypeOK
<1>4. r.re = c.n /\ r.line = "err"
  OBVIOUS
<1>5. /\ toD' = Tail(toD) /\ toC' = Append(toC, r)
      /\ UNCHANGED <<conn, stage, sent, current, op, fd, relied, svc,
                     performed>>
  BY Zenon DEF Refuse, clientVars
<1> HIDE DEF r
<1>6. /\ c = toD[1] /\ c.kind = stage /\ c.n = sent
      /\ stage \in Awaiting /\ conn = "up"
      /\ toD' = <<>> /\ toC' = <<r>> /\ StreamInv'
  BY <1>1, <1>2, <1>3, <1>4, <1>5, AnswerStream
<1>7. toC'[1].line = "err"
  BY <1>4, <1>6
<1>8. stage \notin {"versions", "info", "raw", "leave"}
  <2>1. stage \in {"versions", "info"} => svc = "broker"
    BY <1>1, <1>6, Zenon DEF ServiceInv, BodyStages
  <2>2. stage = "leave" => svc = c.svc /\ svc # "broker"
    BY <1>1, <1>2, <1>6 DEF ServiceInv
  <2>3. stage \in {"versions", "info", "raw", "leave"} => Understood(c)
    BY <1>6, <2>1, <2>2 DEF Understood
  <2> QED
    BY <1>6, <2>3 DEF Refuse, Refusable
<1>9. ReplyInv'
  BY <1>1, <1>5, <1>6, <1>7, <1>8, ZenonT(30) DEF ReplyInv
<1>10. ServiceInv'
  BY <1>1, <1>2, <1>5, <1>6, <1>7, <1>8, SMTT(30) DEF ServiceInv
<1>11. HandleInv'
  <2>1. fds' = IF stage = "close" THEN fds \ {c.fd} ELSE fds
    BY <1>6, SMTT(60) DEF Refuse
  <2>2. CASE stage = "close"
    <3>1. c.fd = fd /\ fds \subseteq {fd}
      BY <1>1, <1>2, <1>6, <2>2 DEF HandleInv, HandleStages
    <3>2. fds' = {}
      BY <2>1, <2>2, <3>1, Zenon
    <3> QED
      BY <1>6, <3>2, NoHandles, ZenonT(30)
  <2>3. CASE stage # "close"
    BY <1>1, <1>2, <1>5, <1>6, <1>7, <2>1, <2>3 DEF HandleInv
  <2> QED
    BY <2>2, <2>3, ZenonT(30)
<1> QED
  BY <1>6, <1>9, <1>10, <1>11, Zenon DEF Sync

\* The loss of the connection, in the middle of a reply too, keeps the part of
\* the agreement that still matters.
LEMMA DropSync ==
  ASSUME TypeOK, Sync, Drop
  PROVE  Sync'
<1>1. StreamInv /\ ReplyInv /\ ServiceInv /\ HandleInv
  BY DEF Sync
<1>2. /\ conn' = "down" /\ toD' = <<>> /\ fds' = {}
      /\ UNCHANGED <<stage, sent, relied, performed>>
  BY DEF Drop, clientVars
<1>3. toC \in Seq(Reply) /\ Len(toC) \in Nat
  BY LenProperties DEF TypeOK
<1>4. ASSUME NEW k \in 0..Len(toC)
      PROVE  /\ SubSeq(toC, 1, k) \in Seq(Reply)
             /\ Len(SubSeq(toC, 1, k)) = k
             /\ \A i \in 1..k : SubSeq(toC, 1, k)[i] = toC[i]
  BY <1>3, SubSeqProperties, SMTT(20)
<1>5. /\ Len(toC') <= Len(toC) /\ Len(toC') \in Nat
      /\ toC = <<>> => toC' = <<>>
      /\ Len(toC) = 1 /\ toC' # <<>> =>
           /\ toC'[1].re = toC[1].re
           /\ toC'[1].line \in {toC[1].line, "part"}
  <2>1. CASE toC' = <<>>
    BY <1>3, <2>1
  <2>2. ASSUME NEW k \in 0..Len(toC), toC' = SubSeq(toC, 1, k)
        PROVE  <1>5!:
    BY <1>3, <1>4, <2>2, EmptySeq
  <2>3. ASSUME NEW k \in 1..Len(toC), NEW r \in Cuts(toC[k]),
               toC' = SubSeq(toC, 1, k - 1) \o <<r>>
        PROVE  <1>5!:
    <3>1. toC[k] \in Reply
      BY <1>3, ElementOfSeq
    <3>2. r \in Reply /\ r.re = toC[k].re /\ r.line \in {toC[k].line, "part"}
      BY <3>1, ZenonT(30) DEF Cuts, Reply, Lines
    <3>3. /\ SubSeq(toC, 1, k - 1) \in Seq(Reply)
          /\ Len(SubSeq(toC, 1, k - 1)) = k - 1
      BY <1>3, <1>4
    <3>4. <<r>> \in Seq(Reply) /\ Len(<<r>>) = 1 /\ <<r>>[1] = r
      BY <3>2
    <3>5. Len(toC') = k /\ toC'[k] = r
      BY <2>3, <3>3, <3>4, ConcatProperties
    <3> QED
      BY <1>3, <3>2, <3>5, EmptySeq
  <2> QED
    BY <2>1, <2>2, <2>3, Zenon DEF Drop
<1>6. StreamInv'
  <2>1. toC' # <<>> => Len(toC') # 0
    BY DaemonActionsType, EmptySeq DEF TypeOK
  <2>2. Len(toC) = 1 /\ toC' # <<>> => Len(toC') = 1
    <3>1. Len(toC') \in Nat /\ Len(toC') <= Len(toC)
      BY <1>5, SMTT(20)
    <3> QED
      BY <2>1, <3>1, SMT, SMTT(30)
  <2> QED
    BY <1>1, <1>2, <1>3, <1>5, <2>2, SMT, SMTT(30) DEF StreamInv
<1>7. ReplyInv'
  BY <1>1, <1>2, <1>5 DEF ReplyInv, StreamInv
<1>8. ServiceInv'
  BY <1>2 DEF ServiceInv
<1>9. HandleInv'
  BY <1>2 DEF HandleInv
<1> QED
  BY <1>6, <1>7, <1>8, <1>9 DEF Sync

-----------------------------------------------------------------------------
(* The theorems *)

\* Sync is kept by every step that notes no fault.
LEMMA SyncStep ==
  ASSUME TypeOK, LockInv, Sync, [Next]_vars, Clean'
  PROVE  Sync'
<1>1. CASE UNCHANGED vars
  BY <1>1, SyncUnchanged DEF vars, clientVars, daemonVars
<1>2. CASE Next
  BY <1>2, BlockSync, LineSync, FailSync, CallerSync, ServeSync, RefuseSync,
     DropSync DEF Next, Holder, Receive, BlockAction
<1> QED
  BY <1>1, <1>2, Zenon

\* Once a fault is noted it stays noted.
LEMMA CleanBefore ==
  ASSUME [Next]_vars, Clean'
  PROVE  Clean
<1>1. CASE UNCHANGED vars
  BY <1>1 DEF vars, Clean
<1>2. CASE BlockAction
  <2>1. TakeBlock
    BY <1>2, SMTT(20) DEF BlockAction, LeaveDone, EnterDone, TextDone, InfoDone,
       StatusDone, OpenDone, ReadTail, ReadResync, WriteTail, AttrDone,
       CloseDone
  <2> QED
    BY <2>1 DEF TakeBlock, Clean
<1>3. CASE Handshake \/ DialFails \/ ReadStatus \/ WriteStatus \/ Timeout
           \/ ReadFails \/ Serve \/ Refuse \/ Drop
  BY <1>3, Zenon DEF Handshake, DialFails, ReadStatus, WriteStatus, Timeout,
              ReadFails, Serve, Refuse, Drop, Clean
<1>4. CASE \E c \in Callers : Call(c) \/ Enter(c)
  BY <1>4 DEF Call, Enter, InfoCached, Close, Acquire, Clean
<1> QED
  BY <1>1, <1>2, <1>3, <1>4 DEF Next, Holder, Receive, BlockAction

\* The initial states satisfy the inductive invariant.
LEMMA InitIInv ==
  ASSUME Init
  PROVE  IInv
<1>1. TypeOK
  BY TypeInit
<1>2. LockInv /\ NoiseInv
  BY DEF Init, LockInv, NoiseInv, Awaiting, Commands, HandleStages
<1>3. StreamInv
  BY DEF Init, StreamInv, Awaiting, Commands
<1>4. ReplyInv
  BY Zenon DEF Init, ReplyInv, Awaiting, Commands
<1>5. ServiceInv /\ HandleInv
  BY DEF Init, ServiceInv, HandleInv, HandleStages
<1> QED
  BY <1>1, <1>2, <1>3, <1>4, <1>5 DEF IInv, Sync

\* Every step keeps the inductive invariant.
LEMMA NextIInv ==
  ASSUME IInv, [Next]_vars
  PROVE  IInv'
BY TypeStep, ControlStep, CleanBefore, SyncStep DEF IInv

\* What the invariant says of the states a reader cares about.
LEMMA IInvImplies ==
  ASSUME IInv
  PROVE  OwnReply /\ ServiceAgrees /\ SuccessIsReal /\ NoDescriptorLeft
<1>1. SUFFICES ASSUME Clean
               PROVE  OwnReply /\ ServiceAgrees /\ SuccessIsReal
                        /\ NoDescriptorLeft
  BY DEF OwnReply, ServiceAgrees, SuccessIsReal, NoDescriptorLeft
<1>2. StreamInv /\ ReplyInv /\ ServiceInv /\ HandleInv
  BY <1>1, Zenon DEF IInv, Sync
<1>3. OwnReply
  <2>1. toC # <<>> => Head(toC) = toC[1]
    BY DEF IInv, TypeOK
  <2> QED
    BY <1>2, <2>1 DEF OwnReply, StreamInv, Awaiting, Commands
<1>4. ServiceAgrees /\ SuccessIsReal
  BY <1>2 DEF ServiceAgrees, SuccessIsReal, ServiceInv, ReplyInv
<1>5. NoDescriptorLeft
  BY <1>2 DEF NoDescriptorLeft, HandleInv, HandleStages
<1> QED
  BY <1>3, <1>4, <1>5

\* Until a read is abandoned inside a response, each method reads the reply to
\* the command it wrote, for any number of callers, commands and refusals, and
\* wherever the connection breaks.
THEOREM RepliesMatch == Spec => []OwnReply
BY InitIInv, NextIInv, IInvImplies, PTL DEF Spec

\* Until then, an idle client is in the service the daemon is in.
THEOREM ServicesAgree == Spec => []ServiceAgrees
BY InitIInv, NextIInv, IInvImplies, PTL DEF Spec

\* Until then, a success that a method reports is one: the daemon has carried
\* out every command the method relied on.
THEOREM SuccessesAreReal == Spec => []SuccessIsReal
BY InitIInv, NextIInv, IInvImplies, PTL DEF Spec

\* Until then, no descriptor stays open on the target when its method returns.
THEOREM DescriptorsClosed == Spec => []NoDescriptorLeft
BY InitIInv, NextIInv, IInvImplies, PTL DEF Spec

-----------------------------------------------------------------------------
(* QconnClient implements SerialClient *)

\* What a method concludes from a block: nothing, its own failure, or the
\* success of the last command, which was then carried out.
LEMMA BlockOutcome ==
  ASSUME TypeOK, Sync, BlockAction, Clean'
  PROVE  Serial!Outcome
<1>1. stage \in Awaiting /\ TakeBlock
  BY BlockActionShape
<1>2. toC # <<>> /\ Block = toC[1]
  BY <1>1, CleanTake DEF Sync
<1>3. ReplyInv
  BY DEF Sync
<1>4. Block.line \notin {"none", "part", "err"} => sent \in performed
  BY <1>1, <1>2, <1>3 DEF ReplyInv
<1>5. stage \in {"versions", "info", "raw", "rtail", "rlast", "wtail", "wlast"}
        => sent \in performed
  BY <1>1, <1>2, <1>3 DEF ReplyInv
<1>6. CASE LeaveDone \/ ReadResync
  BY <1>6 DEF LeaveDone, ReadResync, Serial!Outcome
<1>7. CASE TextDone \/ InfoDone \/ ReadTail \/ WriteTail
  BY <1>5, <1>7 DEF TextDone, InfoDone, ReadTail, WriteTail, Serial!Outcome
<1>8. CASE EnterDone \/ StatusDone \/ OpenDone \/ AttrDone \/ CloseDone
  BY <1>4, <1>8 DEF EnterDone, StatusDone, OpenDone, AttrDone, CloseDone,
                    Serial!Outcome
<1> QED
  BY <1>6, <1>7, <1>8 DEF BlockAction

\* A step of the running method, after which it waits for its next command or
\* has returned, is a Proceed or a Finish.
LEMMA HolderStep ==
  ASSUME LockInv, Clean, Clean', stage \in Awaiting, Serial!Outcome,
         performed' = performed,
         Return \/ \E k, s, h : Issue(k, s, h)
  PROVE  Serial!Next
<1>1. mu # NoCaller /\ Clean' = Clean
  BY DEF LockInv
<1>2. CASE Return
  BY <1>1, <1>2 DEF Return, Serial!Finish, Serial!Next, Clean
<1>3. ASSUME NEW k, NEW s, NEW h, Issue(k, s, h)
      PROVE  Serial!Next
  BY <1>1, <1>3 DEF Issue, Write, lockVars, Serial!Proceed, Serial!Next, Clean
<1> QED
  BY <1>2, <1>3

\* Every step of the client, the daemon and the network is a step of
\* SerialClient or leaves its variables alone.
LEMMA SerialStep ==
  ASSUME IInv, [Next]_vars
  PROVE  [Serial!Next]_(Serial!vars)
<1>1. CASE ~ Clean'
  BY <1>1 DEF Serial!Next, Clean
<1>2. CASE Clean'
  <2>1. Clean /\ TypeOK /\ LockInv /\ Sync /\ Clean' = Clean
    BY <1>2, CleanBefore, Zenon DEF IInv
  <2>2. CASE UNCHANGED vars
    BY <2>2 DEF vars, clientVars, lockVars, daemonVars, Serial!vars, Clean
  <2>3. CASE BlockAction
    <3>1. stage \in Awaiting /\ TakeBlock
            /\ (Return \/ \E k, s, h : Issue(k, s, h))
      BY <2>1, <2>3, BlockActionShape
    <3>2. performed' = performed
      BY <3>1 DEF TakeBlock, daemonVars
    <3> QED
      BY <1>2, <2>1, <2>3, <3>1, <3>2, BlockOutcome, HolderStep
  <2>4. CASE ReadFails
    <3>1. stage \in Awaiting /\ Abandon /\ performed' = performed
      BY <2>4 DEF ReadFails, daemonVars
    <3>2. Serial!Outcome
      BY <3>1 DEF Abandon, Serial!Outcome
    <3>3. Return \/ \E k, s, h : Issue(k, s, h)
      BY <3>1 DEF Abandon
    <3> QED
      BY <1>2, <2>1, <3>1, <3>2, <3>3, HolderStep
  <2>5. CASE Timeout
    BY <1>2, <2>5 DEF Timeout, Clean
  <2>6. CASE ReadStatus \/ WriteStatus \/ Handshake \/ DialFails \/ Refuse
             \/ Drop
    <3>1. UNCHANGED <<mu, sent, performed, relied>>
      <4>1. "write" \notin faults' /\ "count" \notin faults'
        BY <1>2 DEF Clean
      <4> QED
        BY <2>6, <4>1, Zenon DEF ReadStatus, WriteStatus, Handshake, DialFails, Refuse,
                     Drop, clientVars, lockVars, daemonVars
    <3> QED
      BY <2>1, <3>1 DEF Serial!vars
  <2>7. ASSUME NEW c \in Callers, Call(c) \/ InfoCached(c) \/ Close(c)
        PROVE  [Serial!Next]_(Serial!vars)
    <3>1. UNCHANGED <<mu, sent, performed, relied>>
      BY <2>7 DEF Call, InfoCached, Close, clientVars, daemonVars
    <3> QED
      BY <2>1, <3>1 DEF Serial!vars
  <2>8. ASSUME NEW c \in Callers, NEW o \in Ops, Acquire(c, o)
        PROVE  [Serial!Next]_(Serial!vars)
    <3>1. mu = NoCaller /\ mu' = c /\ relied' = {} /\ performed' = performed
      BY <2>8 DEF Acquire, daemonVars
    <3>2. sent' = sent + 1
      BY <2>8 DEF Acquire, Write
    <3>3. Serial!Begin(c)
      BY <2>1, <3>1, <3>2 DEF Serial!Begin
    <3> QED
      BY <2>1, <3>3 DEF Serial!Next
  <2>9. CASE Serve
    <3>1. toD # <<>> /\ UNCHANGED <<mu, sent, relied>>
      BY <2>9 DEF Serve, clientVars, lockVars
    <3>2. /\ Head(toD) = toD[1] /\ toD[1].n = sent /\ stage \in Awaiting
          /\ sent \notin performed
      BY <2>1, <3>1 DEF TypeOK, Sync, StreamInv, ReplyInv
    <3>3. performed' = performed \/ performed' = performed \cup {sent}
      BY <2>9, <3>2 DEF Serve
    <3>4. CASE performed' = performed
      BY <2>1, <3>1, <3>4 DEF Serial!vars
    <3>5. CASE performed' = performed \cup {sent}
      <4>1. Serial!Perform
        BY <2>1, <3>1, <3>2, <3>5 DEF Serial!Perform, LockInv
      <4> QED
        BY <2>1, <4>1 DEF Serial!Next
    <3> QED
      BY <3>3, <3>4, <3>5
  <2> QED
    BY <2>2, <2>3, <2>4, <2>5, <2>6, <2>7, <2>8, <2>9
    DEF Next, Holder, Receive, Enter, BlockAction
<1> QED
  BY <1>1, <1>2

\* The client of client.go, file.go and cntl.go keeps, until a response is
\* left half read, every promise of SerialClient.
THEOREM RefinesSerial == Spec => ImplementsSerial
<1>1. Init => Serial!Init
  BY DEF Init, Serial!Init, Clean
<1> QED
  BY <1>1, InitIInv, NextIInv, SerialStep, PTL
  DEF Spec, ImplementsSerial, Serial!Spec

=============================================================================
