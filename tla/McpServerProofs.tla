--------------------------- MODULE McpServerProofs ---------------------------
(***************************************************************************)
(* Proofs about McpServer, for any number of workers, connections and      *)
(* sessions and for both debug transports.                                 *)
(***************************************************************************)
EXTENDS McpServer, TLAPS

-----------------------------------------------------------------------------
(* The inductive invariant *)

\* s.mu is held exactly while a goroutine dials or closes, and the one that
\* dials has seen no connection, the one that closes has seen one.
MutexInv ==
  \A p \in Procs : /\ (mu = p) <=> (pc[p] \in {"dialing", "closing"})
                   /\ pc[p] = "dialing" => conn = 0
                   /\ pc[p] = "closing" => conn # 0

\* What a worker inside a debug tool knows of the session it has in hand.
HandInv ==
  \A w \in Workers :
    /\ pc[w] = "insert" => ref[w] \in 1..seq
    /\ pc[w] \in {"lock", "talking"} => ref[w] \in sessions \cup closed
    /\ pc[w] = "unmap" => ref[w] \in closed

\* A worker inside a qconn method has a connection that was dialled.
UseInv ==
  \A w \in Workers : pc[w] \in {"use", "using"} => ref[w] \in 1..dials

PoolInv == MutexInv /\ UseInv /\ PoolConsistent
SessionInv == HandInv /\ FreshIds /\ NoLostSession /\ NoDeadSession

IInv == TypeOK /\ PoolInv /\ SessionInv

-----------------------------------------------------------------------------
\* A step keeps the types: what enters a table was counted before.
LEMMA TypeStep ==
  ASSUME TypeOK, PoolInv, HandInv, [Next]_vars
  PROVE  TypeOK'
<1> USE ServerAssumption
    DEF TypeOK, Procs, Conns, Ids, PCs, QconnTools, DebugTools, SystemTools,
        ProcessTools, MemoryTools, ExecTools, ControlTools, FileTools,
        vars, poolVars, sessionVars, Goto
<1>1. ASSUME NEW w \in Workers, NEW t \in QconnTools \cup {"attach"}, StartTool(w, t)
      PROVE  TypeOK'
  BY <1>1 DEF StartTool
<1>2. ASSUME NEW w \in Workers, NEW t \in {"session", "detach"},
                    NEW i \in Ids, StartSessionTool(w, t, i)
      PROVE  TypeOK'
  BY <1>2, SMTT(30) DEF StartSessionTool, Has
<1>3. ASSUME NEW w \in Workers, Reuse(w)
      PROVE  TypeOK'
  BY <1>3 DEF Reuse, Has, AfterCli
<1>4. ASSUME NEW w \in Workers, BeginDial(w)
      PROVE  TypeOK'
  BY <1>4 DEF BeginDial
<1>5. ASSUME NEW w \in Workers, DialOk(w)
      PROVE  TypeOK'
  BY <1>5 DEF DialOk, Has, AfterCli
<1>6. ASSUME NEW w \in Workers, DialFails(w)
      PROVE  TypeOK'
  BY <1>6 DEF DialFails
<1>7. ASSUME NEW w \in Workers, Use(w)
      PROVE  TypeOK'
  BY <1>7, Zenon DEF Use
<1>8. ASSUME NEW w \in Workers, UseReturns(w)
      PROVE  TypeOK'
  BY <1>8, Zenon DEF UseReturns, Return, PoolInv, UseInv
<1>9. ASSUME NEW w \in Workers, ExecReturns(w)
      PROVE  TypeOK'
  BY <1>9 DEF ExecReturns, Return
<1>10. ASSUME NEW p \in Procs, ResetNothing(p)
      PROVE  TypeOK'
  BY <1>10 DEF ResetNothing, Return
<1>11. ASSUME NEW p \in Procs, ResetLocks(p)
      PROVE  TypeOK'
  BY <1>11 DEF ResetLocks
<1>12. ASSUME NEW p \in Procs, ResetCloses(p)
      PROVE  TypeOK'
  BY <1>12 DEF ResetCloses, Return
<1>13. ASSUME NEW w \in Workers, SpawnPdebug(w)
      PROVE  TypeOK'
  BY <1>13 DEF SpawnPdebug
<1>14. ASSUME NEW w \in Workers, SpawnOnNil(w)
      PROVE  TypeOK'
  BY <1>14 DEF SpawnOnNil
<1>15. ASSUME NEW w \in Workers, AttachFails(w)
      PROVE  TypeOK'
  BY <1>15 DEF AttachFails, Return
<1>16. ASSUME NEW w \in Workers, AttachOk(w)
      PROVE  TypeOK'
  BY <1>16 DEF AttachOk, Has
<1>17. ASSUME NEW w \in Workers, Insert(w)
      PROVE  TypeOK'
  BY <1>17, Zenon DEF Insert, Return, HandInv
<1>18. ASSUME NEW w \in Workers, GetSession(w)
      PROVE  TypeOK'
  <2>1. CASE ref[w] \in sessions
    BY <1>18, <2>1, Zenon DEF GetSession
  <2>2. CASE ref[w] \notin sessions
    <3>1. Return(w) /\ UNCHANGED <<poolVars, sessionVars>>
      BY <1>18, <2>2, Zenon DEF GetSession
    <3> QED
      BY <3>1, Zenon DEF Return
  <2> QED
    BY <2>1, <2>2, Zenon
<1>19. ASSUME NEW w \in Workers, LockSession(w)
      PROVE  TypeOK'
  BY <1>19, Zenon DEF LockSession
<1>20. ASSUME NEW w \in Workers, TalkReturns(w)
      PROVE  TypeOK'
  BY <1>20, Zenon DEF TalkReturns, Return
<1>21. ASSUME NEW w \in Workers, DetachCloses(w)
      PROVE  TypeOK'
  BY <1>21, Zenon DEF DetachCloses, HandInv
<1>22. ASSUME NEW w \in Workers, Unmap(w)
      PROVE  TypeOK'
  BY <1>22, Zenon DEF Unmap, Return
<1>23. ASSUME NEW c \in Conns, TargetDrops(c)
      PROVE  TypeOK'
  BY <1>23 DEF TargetDrops
<1>24. CASE Shutdown
  BY <1>24 DEF Shutdown
<1>25. CASE CloseSessions
  BY <1>25 DEF CloseSessions
<1>26. CASE UNCHANGED vars
  BY <1>26
<1> HIDE DEF TypeOK
<1> QED
  BY <1>1, <1>2, <1>3, <1>4, <1>5, <1>6, <1>7, <1>8, <1>9,
     <1>10, <1>11, <1>12, <1>13, <1>14, <1>15, <1>16, <1>17, <1>18,
     <1>19, <1>20, <1>21, <1>22, <1>23, <1>24, <1>25, <1>26
     DEF Next, Start, QconnStep, ClientStep, ResetStep, DebugStep, Procs, Exited

\* A step keeps Server.conn, Server.mgr and the open connections in agreement.
LEMMA PoolStep ==
  ASSUME TypeOK, PoolInv, [Next]_vars
  PROVE  PoolInv'
<1> USE ServerAssumption
    DEF TypeOK, Procs, PoolInv, MutexInv, UseInv, PoolConsistent,
        vars, poolVars, sessionVars, Goto
<1>1. ASSUME NEW w \in Workers, NEW t \in QconnTools \cup {"attach"}, StartTool(w, t)
      PROVE  PoolInv'
  BY <1>1 DEF StartTool
<1>2. ASSUME NEW w \in Workers, NEW t \in {"session", "detach"},
                    NEW i \in Ids, StartSessionTool(w, t, i)
      PROVE  PoolInv'
  BY <1>2 DEF StartSessionTool, Has
<1>3. ASSUME NEW w \in Workers, Reuse(w)
      PROVE  PoolInv'
  BY <1>3 DEF Reuse, Has, AfterCli
<1>4. ASSUME NEW w \in Workers, BeginDial(w)
      PROVE  PoolInv'
  BY <1>4 DEF BeginDial
<1>5. ASSUME NEW w \in Workers, DialOk(w)
      PROVE  PoolInv'
  BY <1>5 DEF DialOk, Has, AfterCli
<1>6. ASSUME NEW w \in Workers, DialFails(w)
      PROVE  PoolInv'
  BY <1>6 DEF DialFails
<1>7. ASSUME NEW w \in Workers, Use(w)
      PROVE  PoolInv'
  BY <1>7 DEF Use
<1>8. ASSUME NEW w \in Workers, UseReturns(w)
      PROVE  PoolInv'
  BY <1>8 DEF UseReturns, Return
<1>9. ASSUME NEW w \in Workers, ExecReturns(w)
      PROVE  PoolInv'
  BY <1>9 DEF ExecReturns, Return
<1>10. ASSUME NEW p \in Procs, ResetNothing(p)
      PROVE  PoolInv'
  BY <1>10 DEF ResetNothing, Return
<1>11. ASSUME NEW p \in Procs, ResetLocks(p)
      PROVE  PoolInv'
  BY <1>11 DEF ResetLocks
<1>12. ASSUME NEW p \in Procs, ResetCloses(p)
      PROVE  PoolInv'
  BY <1>12 DEF ResetCloses, Return
<1>13. ASSUME NEW w \in Workers, SpawnPdebug(w)
      PROVE  PoolInv'
  BY <1>13 DEF SpawnPdebug
<1>14. ASSUME NEW w \in Workers, SpawnOnNil(w)
      PROVE  PoolInv'
  BY <1>14, Zenon DEF SpawnOnNil
<1>15. ASSUME NEW w \in Workers, AttachFails(w)
      PROVE  PoolInv'
  BY <1>15 DEF AttachFails, Return
<1>16. ASSUME NEW w \in Workers, AttachOk(w)
      PROVE  PoolInv'
  BY <1>16 DEF AttachOk, Has
<1>17. ASSUME NEW w \in Workers, Insert(w)
      PROVE  PoolInv'
  BY <1>17 DEF Insert, Return
<1>18. ASSUME NEW w \in Workers, GetSession(w)
      PROVE  PoolInv'
  BY <1>18 DEF GetSession, Return
<1>19. ASSUME NEW w \in Workers, LockSession(w)
      PROVE  PoolInv'
  BY <1>19 DEF LockSession
<1>20. ASSUME NEW w \in Workers, TalkReturns(w)
      PROVE  PoolInv'
  BY <1>20 DEF TalkReturns, Return
<1>21. ASSUME NEW w \in Workers, DetachCloses(w)
      PROVE  PoolInv'
  BY <1>21 DEF DetachCloses
<1>22. ASSUME NEW w \in Workers, Unmap(w)
      PROVE  PoolInv'
  BY <1>22 DEF Unmap, Return
<1>23. ASSUME NEW c \in Conns, TargetDrops(c)
      PROVE  PoolInv'
  BY <1>23 DEF TargetDrops
<1>24. CASE Shutdown
  BY <1>24 DEF Shutdown
<1>25. CASE CloseSessions
  BY <1>25 DEF CloseSessions
<1>26. CASE UNCHANGED vars
  BY <1>26
<1> HIDE DEF TypeOK, PoolInv
<1> QED
  BY <1>1, <1>2, <1>3, <1>4, <1>5, <1>6, <1>7, <1>8, <1>9,
     <1>10, <1>11, <1>12, <1>13, <1>14, <1>15, <1>16, <1>17, <1>18,
     <1>19, <1>20, <1>21, <1>22, <1>23, <1>24, <1>25, <1>26
     DEF Next, Start, QconnStep, ClientStep, ResetStep, DebugStep, Procs, Exited

\* A step keeps every session accounted for and every id fresh.
LEMMA SessionStep ==
  ASSUME TypeOK, SessionInv, [Next]_vars
  PROVE  SessionInv'
<1> USE ServerAssumption
    DEF TypeOK, Procs, SessionInv, HandInv, FreshIds, NoLostSession,
        NoDeadSession, vars, poolVars, sessionVars, Goto
<1>1. ASSUME NEW w \in Workers, NEW t \in QconnTools \cup {"attach"}, StartTool(w, t)
      PROVE  SessionInv'
  BY <1>1 DEF StartTool
<1>2. ASSUME NEW w \in Workers, NEW t \in {"session", "detach"},
                    NEW i \in Ids, StartSessionTool(w, t, i)
      PROVE  SessionInv'
  BY <1>2 DEF StartSessionTool, Has
<1>3. ASSUME NEW w \in Workers, Reuse(w)
      PROVE  SessionInv'
  BY <1>3 DEF Reuse, Has, AfterCli
<1>4. ASSUME NEW w \in Workers, BeginDial(w)
      PROVE  SessionInv'
  BY <1>4 DEF BeginDial
<1>5. ASSUME NEW w \in Workers, DialOk(w)
      PROVE  SessionInv'
  BY <1>5 DEF DialOk, Has, AfterCli
<1>6. ASSUME NEW w \in Workers, DialFails(w)
      PROVE  SessionInv'
  BY <1>6 DEF DialFails
<1>7. ASSUME NEW w \in Workers, Use(w)
      PROVE  SessionInv'
  BY <1>7 DEF Use
<1>8. ASSUME NEW w \in Workers, UseReturns(w)
      PROVE  SessionInv'
  BY <1>8 DEF UseReturns, Return
<1>9. ASSUME NEW w \in Workers, ExecReturns(w)
      PROVE  SessionInv'
  BY <1>9 DEF ExecReturns, Return
<1>10. ASSUME NEW p \in Procs, ResetNothing(p)
      PROVE  SessionInv'
  BY <1>10 DEF ResetNothing, Return
<1>11. ASSUME NEW p \in Procs, ResetLocks(p)
      PROVE  SessionInv'
  BY <1>11 DEF ResetLocks
<1>12. ASSUME NEW p \in Procs, ResetCloses(p)
      PROVE  SessionInv'
  BY <1>12 DEF ResetCloses, Return
<1>13. ASSUME NEW w \in Workers, SpawnPdebug(w)
      PROVE  SessionInv'
  BY <1>13 DEF SpawnPdebug
<1>14. ASSUME NEW w \in Workers, SpawnOnNil(w)
      PROVE  SessionInv'
  BY <1>14 DEF SpawnOnNil
<1>15. ASSUME NEW w \in Workers, AttachFails(w)
      PROVE  SessionInv'
  BY <1>15 DEF AttachFails, Return
<1>16. ASSUME NEW w \in Workers, AttachOk(w)
      PROVE  SessionInv'
  BY <1>16 DEF AttachOk, Has
<1>17. ASSUME NEW w \in Workers, Insert(w)
      PROVE  SessionInv'
  BY <1>17 DEF Insert, Return
<1>18. ASSUME NEW w \in Workers, GetSession(w)
      PROVE  SessionInv'
  BY <1>18 DEF GetSession, Return
<1>19. ASSUME NEW w \in Workers, LockSession(w)
      PROVE  SessionInv'
  BY <1>19 DEF LockSession
<1>20. ASSUME NEW w \in Workers, TalkReturns(w)
      PROVE  SessionInv'
  BY <1>20 DEF TalkReturns, Return
<1>21. ASSUME NEW w \in Workers, DetachCloses(w)
      PROVE  SessionInv'
  BY <1>21 DEF DetachCloses
<1>22. ASSUME NEW w \in Workers, Unmap(w)
      PROVE  SessionInv'
  BY <1>22 DEF Unmap, Return
<1>23. ASSUME NEW c \in Conns, TargetDrops(c)
      PROVE  SessionInv'
  BY <1>23 DEF TargetDrops
<1>24. CASE Shutdown
  BY <1>24 DEF Shutdown
<1>25. CASE CloseSessions
  BY <1>25 DEF CloseSessions
<1>26. CASE UNCHANGED vars
  BY <1>26
<1> HIDE DEF TypeOK, SessionInv
<1> QED
  BY <1>1, <1>2, <1>3, <1>4, <1>5, <1>6, <1>7, <1>8, <1>9,
     <1>10, <1>11, <1>12, <1>13, <1>14, <1>15, <1>16, <1>17, <1>18,
     <1>19, <1>20, <1>21, <1>22, <1>23, <1>24, <1>25, <1>26
     DEF Next, Start, QconnStep, ClientStep, ResetStep, DebugStep, Procs, Exited

\* The initial states satisfy the invariant.
LEMMA InitIInv == Init => IInv
<1> SUFFICES ASSUME Init PROVE IInv
  OBVIOUS
<1> USE ServerAssumption DEF Init, Procs
<1>1. TypeOK
  BY DEF TypeOK, Conns, Ids, PCs
<1>2. PoolInv
  BY Zenon DEF PoolInv, MutexInv, UseInv, PoolConsistent
<1>3. SessionInv
  BY DEF SessionInv, HandInv, FreshIds, NoLostSession, NoDeadSession
<1> QED
  BY <1>1, <1>2, <1>3 DEF IInv

\* The invariant holds in every reachable state.
LEMMA Invariance == Spec => []IInv
<1>1. IInv /\ [Next]_vars => IInv'
  BY TypeStep, PoolStep, SessionStep DEF IInv, SessionInv
<1> QED
  BY InitIInv, <1>1, PTL DEF Spec

-----------------------------------------------------------------------------
(* Theorems *)

\* Types hold in every reachable state, for any number of workers.
THEOREM TypeCorrect == Spec => []TypeOK
  BY Invariance, PTL DEF IInv

\* client(), cli() and resetClient keep one connection at most: what is open is
\* what Server.conn and Server.mgr name.
THEOREM PoolIsConsistent == Spec => []PoolConsistent
<1>1. IInv => PoolConsistent
  BY DEF IInv, PoolInv
<1> QED
  BY Invariance, <1>1, PTL

\* No interleaving of attach, launch, detach and Close loses a session.
THEOREM SessionsAccounted == Spec => []NoLostSession
<1>1. IInv => NoLostSession
  BY DEF IInv, SessionInv
<1> QED
  BY Invariance, <1>1, PTL

\* A closed session stays in the table only until its detach deletes it.
THEOREM NoSessionStaysDead == Spec => []NoDeadSession
<1>1. IInv => NoDeadSession
  BY DEF IInv, SessionInv
<1> QED
  BY Invariance, <1>1, PTL

\* sessionSeq never gives an id that names, or named, another session.
THEOREM IdsAreFresh == Spec => []FreshIds
<1>1. IInv => FreshIds
  BY DEF IInv, SessionInv
<1> QED
  BY Invariance, <1>1, PTL

=============================================================================
