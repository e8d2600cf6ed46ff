------------------------------ MODULE McpServer ------------------------------
(***************************************************************************)
(* The MCP server (internal/mcpserver): tool calls run concurrently, share *)
(* one lazily dialled qconn client (Server.conn with its debug manager     *)
(* Server.mgr, under Server.mu) and a table of debug sessions              *)
(* (Server.sessions, under Server.dbgMu), and race with Server.Close when   *)
(* the process is told to stop.                                            *)
(*                                                                         *)
(* A connection or a session is a number, given out once.  What a qconn    *)
(* method does while it holds Client.mu is module QconnClient; here it is  *)
(* one critical section that succeeds only on a connection open at both    *)
(* ends.  The sections of dbgMu never block, so each is part of one step.  *)
(***************************************************************************)
EXTENDS Naturals

CONSTANTS Workers,   \* goroutines that run tool handlers
          Main,      \* the goroutine of main, which runs Close
          Nobody,    \* a mutex is free
          UseSerial, \* Config.DebugSerial is set: pdebug is not spawned
          MaxConns,  \* bound: connections dialled in a run
          MaxIds     \* bound: debug sessions created in a run

VARIABLES
  mu,        \* holder of Server.mu
  conn,      \* Server.conn; 0 is nil
  mgr,       \* the connection of Server.mgr; 0 is nil
  dials,     \* connections dialled so far, numbered from 1
  open,      \* connections this side has not closed
  up,        \* connections the target has not dropped
  cmu,       \* cmu[c]: holder of Client.mu of connection c
  seq,       \* sessionSeq
  sessions,  \* keys of Server.sessions
  closed,    \* sessions whose pdebug connection this side has closed
  smu,       \* smu[i]: holder of qnxSession.mu of session i
  pc,        \* where each goroutine is
  tool,      \* the kind of tool a worker runs
  ref,       \* the connection or the session a worker has in hand
  failed     \* history: connections on which a call has met the broken link

poolVars == <<mu, conn, mgr, dials, open, up, cmu, failed>>
sessionVars == <<seq, sessions, closed, smu>>
vars == <<poolVars, sessionVars, pc, tool, ref>>

Procs == Workers \cup {Main}
Conns == 1..MaxConns
Ids   == 1..MaxIds

ASSUME ServerAssumption == /\ Main \notin Workers
                           /\ Nobody \notin Workers \cup {Main}
                           /\ UseSerial \in BOOLEAN
                           /\ MaxConns \in Nat
                           /\ MaxIds \in Nat

-----------------------------------------------------------------------------
(* The tools, by the way they reach the target: "pooled" runs a method     *)
(* under Client.mu, "exec" dials a launcher connection of its own (Exec),  *)
(* "attach" creates a debug session, "session" talks on one, "detach" ends *)
(* one.                                                                    *)

SystemTools  == {"pooled", "exec"}  \* system_info, list_services; system_memory
ProcessTools == {"exec"}            \* every tool of the group is a pidin
MemoryTools  == {"pooled", "exec"}  \* read/write_memory; memory_map
ExecTools    == {"exec"}
ControlTools == {"pooled"}
FileTools    == {"pooled", "exec"}  \* all but list_dir; list_dir
DebugTools   == {"attach", "session", "detach"}

QconnTools == SystemTools \cup ProcessTools \cup MemoryTools \cup ExecTools
                \cup ControlTools \cup FileTools

PCs == {"idle", "client", "dialing", "reset", "closing", "use", "using",
        "execing", "spawn", "attaching", "insert", "lookup", "lock",
        "talking", "unmap", "panicked", "serving", "close", "exited"}

Goto(p, l) == pc' = [pc EXCEPT ![p] = l]
Has(w, x)  == ref' = [ref EXCEPT ![w] = x]

\* A handler returns and its locals are gone; main returns and the process exits.
Return(p) ==
  /\ Goto(p, IF p = Main THEN "exited" ELSE "idle")
  /\ tool' = [w \in Workers |-> IF w = p THEN "none" ELSE tool[w]]
  /\ ref' = [w \in Workers |-> IF w = p THEN 0 ELSE ref[w]]

\* The handler's first step after cli() has returned a client.
AfterCli(w) == IF tool[w] = "pooled" THEN "use"
               ELSE IF tool[w] = "exec" THEN "execing" ELSE "spawn"

-----------------------------------------------------------------------------
(* A tool call begins *)

\* The SDK runs the handler of a tool that needs the qconn client.
StartTool(w, t) ==
  /\ pc[w] = "idle"
  /\ pc[Main] = "serving"
  /\ tool' = [tool EXCEPT ![w] = t]
  /\ Goto(w, "client")
  /\ UNCHANGED <<poolVars, sessionVars, ref>>

\* The SDK runs the handler of a tool that names a debug session.
StartSessionTool(w, t, i) ==
  /\ pc[w] = "idle"
  /\ pc[Main] = "serving"
  /\ tool' = [tool EXCEPT ![w] = t]
  /\ Has(w, i)
  /\ Goto(w, "lookup")
  /\ UNCHANGED <<poolVars, sessionVars>>

-----------------------------------------------------------------------------
(* The shared qconn client *)

\* client(): the connection exists and is handed out.
Reuse(w) ==
  /\ pc[w] = "client"
  /\ mu = Nobody
  /\ conn # 0
  /\ Has(w, conn)
  /\ Goto(w, AfterCli(w))
  /\ UNCHANGED <<poolVars, sessionVars, tool>>

\* Variant of BeginDial: s.mu is not held across the dial.
BeginDialUnlocked(w) ==
  /\ pc[w] = "client"
  /\ mu = Nobody
  /\ conn = 0
  /\ Goto(w, "dialing")
  /\ UNCHANGED <<poolVars, sessionVars, tool, ref>>

\* client(): there is none; Dial runs with s.mu held.
BeginDial(w) ==
  /\ pc[w] = "client"
  /\ mu = Nobody
  /\ conn = 0
  /\ mu' = w
  /\ Goto(w, "dialing")
  /\ UNCHANGED <<conn, mgr, dials, open, up, cmu, failed, sessionVars, tool,
                 ref>>

\* Dial and its handshake succeed: conn and mgr are set, s.mu is released.
DialOk(w) ==
  /\ pc[w] = "dialing"
  /\ dials < MaxConns
  /\ dials' = dials + 1
  /\ conn' = dials + 1
  /\ mgr' = dials + 1
  /\ open' = open \cup {dials + 1}
  /\ up' = up \cup {dials + 1}
  /\ mu' = Nobody
  /\ Has(w, dials + 1)
  /\ Goto(w, AfterCli(w))
  /\ UNCHANGED <<cmu, failed, sessionVars, tool>>

\* Variant of DialFails: cli() tries again instead of returning the error.
DialRetries(w) ==
  /\ pc[w] = "dialing"
  /\ mu' = Nobody
  /\ Goto(w, "client")
  /\ UNCHANGED <<conn, mgr, dials, open, up, cmu, failed, sessionVars, tool,
                 ref>>

\* Dial fails: client() releases s.mu and cli() goes on to resetClient.
DialFails(w) ==
  /\ pc[w] = "dialing"
  /\ mu' = Nobody
  /\ Goto(w, "reset")
  /\ UNCHANGED <<conn, mgr, dials, open, up, cmu, failed, sessionVars, tool,
                 ref>>

\* resetClient finds no connection.
ResetNothing(p) ==
  /\ pc[p] = "reset"
  /\ mu = Nobody
  /\ conn = 0
  /\ Return(p)
  /\ UNCHANGED <<poolVars, sessionVars>>

\* resetClient has s.mu and waits in Client.Close for Client.mu.
ResetLocks(p) ==
  /\ pc[p] = "reset"
  /\ mu = Nobody
  /\ conn # 0
  /\ mu' = p
  /\ Goto(p, "closing")
  /\ UNCHANGED <<conn, mgr, dials, open, up, cmu, failed, sessionVars, tool,
                 ref>>

\* Client.Close runs; conn and mgr become nil; s.mu is released.
ResetCloses(p) ==
  /\ pc[p] = "closing"
  /\ cmu[conn] = Nobody
  /\ open' = open \ {conn}
  /\ conn' = 0
  /\ mgr' = 0
  /\ mu' = Nobody
  /\ Return(p)
  /\ UNCHANGED <<dials, up, cmu, failed, sessionVars>>

\* A method of the qconn client takes Client.mu.
Use(w) ==
  /\ pc[w] = "use"
  /\ cmu[ref[w]] = Nobody
  /\ cmu' = [cmu EXCEPT ![ref[w]] = w]
  /\ Goto(w, "using")
  /\ UNCHANGED <<mu, conn, mgr, dials, open, up, failed, sessionVars, tool,
                 ref>>

\* The method returns to the handler, the handler to its caller: with an error
\* when an end of the connection is gone.  Server.conn is left as it is.  No
\* step of the server makes it return: every byte it reads has a deadline of its
\* own, but an answer may go on, and so does ReadFile as long as a file without a
\* size delivers bytes.
UseReturns(w) ==
  /\ pc[w] = "using"
  /\ cmu' = [cmu EXCEPT ![ref[w]] = Nobody]
  /\ failed' = IF ref[w] \in open \cap up THEN failed
                                          ELSE failed \cup {ref[w]}
  /\ Return(w)
  /\ UNCHANGED <<mu, conn, mgr, dials, open, up, sessionVars>>

\* Exec on its own connection returns, with or without an error.  It reads
\* until the output pauses, and every read restarts the idle time: the output
\* of a command that keeps printing has no end.
ExecReturns(w) ==
  /\ pc[w] = "execing"
  /\ Return(w)
  /\ UNCHANGED <<poolVars, sessionVars>>

\* The target reboots or qconn exits: a connection breaks.
TargetDrops(c) ==
  /\ c \in up
  /\ up' = up \ {c}
  /\ UNCHANGED <<mu, conn, mgr, dials, open, cmu, failed, sessionVars, pc,
                 tool, ref>>

-----------------------------------------------------------------------------
(* Debug sessions *)

\* dialPdebug: s.mgr is read without s.mu, and its client runs pdebug on the
\* target; over a serial line nothing is spawned.
SpawnPdebug(w) ==
  /\ pc[w] = "spawn"
  /\ UseSerial \/ mgr # 0
  /\ Goto(w, "attaching")
  /\ UNCHANGED <<poolVars, sessionVars, tool, ref>>

\* SpawnPdebug on a nil manager dereferences it.
SpawnOnNil(w) ==
  /\ pc[w] = "spawn"
  /\ ~UseSerial
  /\ mgr = 0
  /\ Goto(w, "panicked")
  /\ UNCHANGED <<poolVars, sessionVars, tool, ref>>

\* Spawn, Connect, or Attach/Launch fails; a connection made is closed again.
AttachFails(w) ==
  /\ pc[w] = "attaching"
  /\ Return(w)
  /\ UNCHANGED <<poolVars, sessionVars>>

\* Variant of AttachOk: the id of a detached session is given out again.
AttachRecycles(w) ==
  /\ pc[w] = "attaching"
  /\ seq < MaxIds
  /\ \/ \E i \in closed \ sessions : Has(w, i) /\ seq' = seq
     \/ Has(w, seq + 1) /\ seq' = seq + 1
  /\ Goto(w, "insert")
  /\ UNCHANGED <<poolVars, sessions, closed, smu, tool>>

\* Attach/Launch succeeds, Select's outcome is ignored, the id is drawn.
AttachOk(w) ==
  /\ pc[w] = "attaching"
  /\ seq < MaxIds
  /\ seq' = seq + 1
  /\ Has(w, seq + 1)
  /\ Goto(w, "insert")
  /\ UNCHANGED <<poolVars, sessions, closed, smu, tool>>

\* The session is entered under dbgMu and its id returned.
Insert(w) ==
  /\ pc[w] = "insert"
  /\ sessions' = sessions \cup {ref[w]}
  /\ Return(w)
  /\ UNCHANGED <<poolVars, seq, closed, smu>>

\* getSession.
GetSession(w) ==
  /\ pc[w] = "lookup"
  /\ IF ref[w] \in sessions
       THEN Goto(w, "lock") /\ UNCHANGED <<tool, ref>>
       ELSE Return(w)
  /\ UNCHANGED <<poolVars, sessionVars>>

\* sess.mu.Lock().
LockSession(w) ==
  /\ pc[w] = "lock"
  /\ smu[ref[w]] = Nobody
  /\ smu' = [smu EXCEPT ![ref[w]] = w]
  /\ Goto(w, "talking")
  /\ UNCHANGED <<poolVars, seq, sessions, closed, tool, ref>>

\* The exchange with pdebug ends, in an answer or an error.
TalkReturns(w) ==
  /\ pc[w] = "talking"
  /\ tool[w] = "session"
  /\ smu' = [smu EXCEPT ![ref[w]] = Nobody]
  /\ Return(w)
  /\ UNCHANGED <<poolVars, seq, sessions, closed>>

\* Variant of DetachCloses: after a Detach that the target refuses the
\* connection stays open, and the session is removed all the same.
DetachReturnsError(w) ==
  /\ pc[w] = "talking"
  /\ tool[w] = "detach"
  /\ closed' \in {closed, closed \cup {ref[w]}}
  /\ smu' = [smu EXCEPT ![ref[w]] = Nobody]
  /\ Goto(w, "unmap")
  /\ UNCHANGED <<poolVars, seq, sessions, tool, ref>>

\* Variant of DetachCloses: the handler returns without deleting the id.
DetachForgets(w) ==
  /\ pc[w] = "talking"
  /\ tool[w] = "detach"
  /\ closed' = closed \cup {ref[w]}
  /\ smu' = [smu EXCEPT ![ref[w]] = Nobody]
  /\ Return(w)
  /\ UNCHANGED <<poolVars, seq, sessions>>

\* Detach, its outcome ignored, then Close; sess.mu is released.
DetachCloses(w) ==
  /\ pc[w] = "talking"
  /\ tool[w] = "detach"
  /\ closed' = closed \cup {ref[w]}
  /\ smu' = [smu EXCEPT ![ref[w]] = Nobody]
  /\ Goto(w, "unmap")
  /\ UNCHANGED <<poolVars, seq, sessions, tool, ref>>

\* delete(s.sessions, id) under dbgMu.
Unmap(w) ==
  /\ pc[w] = "unmap"
  /\ sessions' = sessions \ {ref[w]}
  /\ Return(w)
  /\ UNCHANGED <<poolVars, seq, closed, smu>>

-----------------------------------------------------------------------------
(* Shutdown *)

\* A signal arrives: the listener closes, and after at most five seconds main
\* goes on to the deferred Close, whatever handlers are still running.
Shutdown ==
  /\ pc[Main] = "serving"
  /\ Goto(Main, "close")
  /\ UNCHANGED <<poolVars, sessionVars, tool, ref>>

\* Variant of CloseSessions: each session is closed under its own mutex.
CloseSessionsLocked ==
  /\ pc[Main] = "close"
  /\ \A i \in sessions : smu[i] = Nobody
  /\ closed' = closed \cup sessions
  /\ sessions' = {}
  /\ Goto(Main, "reset")
  /\ UNCHANGED <<poolVars, seq, smu, tool, ref>>

\* Close, first part: every session is closed, without sess.mu, and removed.
CloseSessions ==
  /\ pc[Main] = "close"
  /\ closed' = closed \cup sessions
  /\ sessions' = {}
  /\ Goto(Main, "reset")
  /\ UNCHANGED <<poolVars, seq, smu, tool, ref>>

\* The process has exited; nothing of it moves any more.
Exited ==
  /\ pc[Main] = "exited"
  /\ UNCHANGED vars

-----------------------------------------------------------------------------
Init ==
  /\ mu = Nobody
  /\ conn = 0
  /\ mgr = 0
  /\ dials = 0
  /\ open = {}
  /\ up = {}
  /\ cmu = [c \in Conns |-> Nobody]
  /\ failed = {}
  /\ seq = 0
  /\ sessions = {}
  /\ closed = {}
  /\ smu = [i \in Ids |-> Nobody]
  /\ pc = [p \in Procs |-> IF p = Main THEN "serving" ELSE "idle"]
  /\ tool = [w \in Workers |-> "none"]
  /\ ref = [w \in Workers |-> 0]

Start(w) ==
  \/ \E t \in QconnTools \cup {"attach"} : StartTool(w, t)
  \/ \E t \in {"session", "detach"}, i \in Ids : StartSessionTool(w, t, i)

\* Steps towards the qconn client, and out of it.
ClientStep(w) ==
  \/ Reuse(w) \/ BeginDial(w) \/ DialOk(w) \/ DialFails(w) \/ Use(w)
QconnStep(w) == ClientStep(w) \/ UseReturns(w) \/ ExecReturns(w)

\* resetClient, run by a worker whose dial failed or by main.
ResetStep(p) == ResetNothing(p) \/ ResetLocks(p) \/ ResetCloses(p)

DebugStep(w) ==
  \/ SpawnPdebug(w) \/ SpawnOnNil(w) \/ AttachFails(w) \/ AttachOk(w)
  \/ Insert(w) \/ GetSession(w) \/ LockSession(w) \/ TalkReturns(w)
  \/ DetachCloses(w) \/ Unmap(w)

Running == pc[Main] # "exited"

Next ==
  \/ Running /\ \E w \in Workers : \/ Start(w)
                                   \/ QconnStep(w)
                                   \/ ResetStep(w)
                                   \/ DebugStep(w)
  \/ Running /\ \E c \in Conns : TargetDrops(c)
  \/ Shutdown
  \/ CloseSessions
  \/ ResetStep(Main)
  \/ Exited

Spec == Init /\ [][Next]_vars

\* Dial ends by its deadlines, given a greeting of qconn that ends (each byte has
\* a deadline of its own), and a waiter on a sync.Mutex is not passed over for
\* ever.  Nothing is assumed of a method or an Exec under way, nor of the exchange
\* with pdebug: text frames of the program restart its deadline, so Continue may
\* hold sess.mu for as long as the program prints.
FairSpec ==
  /\ Spec
  /\ \A w \in Workers : SF_vars(Running /\ (ClientStep(w) \/ ResetStep(w)))
  /\ WF_vars(CloseSessions)
  /\ SF_vars(ResetStep(Main))

\* No handler stays for ever where l says, unless the process exits first.
Leaves(w, l) == []<>(pc[w] # l \/ ~Running)

\* Answers of qconn end, and no file without a size delivers bytes for ever.
MethodsEnd == \A w \in Workers : Leaves(w, "using")

-----------------------------------------------------------------------------
(* Properties *)

\* Every variable has its type; connections and sessions in use were given out
\* by Dial (client) and sessionSeq (attach, launch).
TypeOK ==
  /\ mu \in Procs \cup {Nobody}
  /\ dials \in 0..MaxConns
  /\ conn \in 0..dials
  /\ mgr \in 0..dials
  /\ open \subseteq 1..dials
  /\ up \subseteq 1..dials
  /\ failed \subseteq 1..dials
  /\ cmu \in [Conns -> Workers \cup {Nobody}]
  /\ seq \in 0..MaxIds
  /\ sessions \subseteq 1..seq
  /\ closed \subseteq 1..seq
  /\ smu \in [Ids -> Workers \cup {Nobody}]
  /\ pc \in [Procs -> PCs]
  /\ tool \in [Workers -> QconnTools \cup DebugTools \cup {"none"}]
  /\ ref \in [Workers -> Nat]

\* The connections this side holds open are exactly the one in Server.conn, and
\* the debug manager is the one built on it: however first calls, failed dials
\* and resets interleave, client() neither dials twice nor loses a connection.
PoolConsistent ==
  /\ mgr = conn
  /\ open = {conn} \ {0}

\* Every debug session ever created is in the table, has its pdebug connection
\* closed, or is on its way into the table: no interleaving of attach, launch,
\* detach and Close loses a session without closing its connection.
NoLostSession ==
  \A i \in 1..seq : \/ i \in sessions \cup closed
                    \/ \E w \in Workers : pc[w] = "insert" /\ ref[w] = i

\* A session in the table whose connection is closed is about to be deleted by
\* the detach that closed it: getSession does not go on handing out a dead one.
NoDeadSession ==
  \A i \in sessions \cap closed :
    \E w \in Workers : pc[w] = "unmap" /\ ref[w] = i

\* An id on its way into the table names no earlier session and no other
\* attach has drawn it: inserting it overwrites nothing and a client that kept
\* the id of a detached session cannot reach somebody else's.
FreshIds ==
  \A w \in Workers : pc[w] = "insert" =>
    /\ ref[w] \notin sessions \cup closed
    /\ \A v \in Workers \ {w} : pc[v] = "insert" => ref[v] # ref[w]

\* If every pooled method ends, a tool call that uses qconn returns (or the
\* process exits) unless it runs a command that prints for ever: no order of
\* Server.mu and Client.mu in client(), resetClient and the methods blocks it,
\* even while debug tools wait for a process that never stops and the Exec of
\* another handler never ends.
CallsReturn ==
  MethodsEnd =>
    \A w \in Workers : Leaves(w, "execing") =>
      (tool[w] \in QconnTools ~> pc[w] = "idle" \/ ~Running)

\* If every pooled method ends, Close terminates although handlers may still
\* hold any of the mutexes: it closes sessions without sess.mu, so a Continue
\* that waits for a stop that never comes does not keep the process alive, nor
\* does an Exec, which holds none.
ShutdownCompletes == MethodsEnd => (pc[Main] = "close" ~> ~Running)

-----------------------------------------------------------------------------
(* What the comments of the code say and the code does not guarantee *)

\* "ensures qconn + s.mgr" (attach): s.mgr is there when dialPdebug reads it.
AttachFindsManager ==
  ~UseSerial => \A w \in Workers : pc[w] = "spawn" => mgr # 0

\* "so the next call redials": a call is not handed a connection that an
\* earlier call has already found broken.
NextCallRedials ==
  [][\A w \in Workers : Reuse(w) => conn \notin failed]_vars

=============================================================================
