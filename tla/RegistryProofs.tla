---------------------------- MODULE RegistryProofs ----------------------------
(***************************************************************************)
(* For any number of sessions, calls and statements, any timeouts and any  *)
(* answers of the server: the registry loses no open client, and its       *)
(* cleanup removes nothing that was in use when it began.                  *)
(*                                                                         *)
(* RegistryInv strengthens the two: a free slot is kept for every POST     *)
(* under way (Room), a session has no timeout of its own before its POST   *)
(* sets one (PostingInv), none has been taken back since the cleanup began *)
(* (SnapshotInv), what the cleanup has marked stays used or due while it   *)
(* holds m.mu (MarkedInv), and CloseAll gives m.mu back before no Close    *)
(* of its own (KeptInv).                                                   *)
(***************************************************************************)
EXTENDS Registry, TLAPS

Room == creating + nextID <= MaxSessions

PostingInv ==
  \A id \in Id : /\ posting[id] \in {"none", "registered", "idle"} => timeout[id] = 0
                 /\ id >= nextID => posting[id] = "none"

SnapshotInv ==
  \A id \in Id : timeout[id] = 0 => timeoutThen[id] = 0

UsedOrDue(id) == lastActivity[id] >= now \/ Due(id)

MarkedInv ==
  mu = "cleanup" => /\ now <= clock
                    /\ \A id \in toDelete : UsedOrDue(id)

KeptInv ==
  \A id \in Id : holder[id] = "closeAll" => mu = "closeAll" /\ id \in sessions

RegistryInv ==
  /\ TypeOK
  /\ Room
  /\ PostingInv
  /\ SnapshotInv
  /\ DeadIsClosed
  /\ NoOrphan
  /\ MarkedInv
  /\ KeptInv

USE RegistryAssumption DEF Id

-----------------------------------------------------------------------------
LEMMA InitRegistryInv == Init => RegistryInv
<1> SUFFICES ASSUME Init PROVE RegistryInv
  OBVIOUS
<1>1. TypeOK
  <2>0. /\ probing \in BOOLEAN /\ open \in [Id -> BOOLEAN]
    BY Zenon DEF Init
  <2>1. looping \in BOOLEAN
    <3>1. looping = (idleTimeout > 0 \/ deadTimeout > 0)
      BY DEF Init
    <3> QED
      BY <3>1, Zenon
  <2>2. /\ timeout \in [Id -> Int]
        /\ timeoutThen \in [Id -> Int]
        /\ lastActivity \in [Id -> 0 .. MaxTime]
        /\ working \in [Id -> Nat]
        /\ goCloses \in [Id -> Nat]
        /\ calls \in [Calls \X Id -> Nat]
    BY DEF Init
  <2>3. /\ posting \in [Id -> {"none", "registered", "idle", "sync", "done"}]
        /\ state \in [Id -> {"none", "starting", "idle", "busy", "dead", "shutting_down"}]
        /\ uuid \in [Id -> Uuid \cup {"none"}]
        /\ holder \in [Id -> Holders]
    BY DEF Init, Holders
  <2>4. /\ nextID \in 0 .. MaxSessions /\ settled \in 0 .. MaxSessions
        /\ creating \in 0 .. MaxSessions
        /\ now \in 0 .. MaxTime
        /\ clock \in 0 .. MaxTime
    BY DEF Init
  <2>5. idleTimeout \in Int /\ deadTimeout \in Int
    <3>1. PICK flags \in Flags : idleTimeout = flags[1] /\ deadTimeout = flags[2]
      BY DEF Init
    <3>2. flags \in Int \X Int
      BY <3>1
    <3> QED
      BY <3>1, <3>2
  <2>6. /\ sessions = {} /\ toScan = {} /\ toDelete = {}
        /\ stopCh = "open" /\ mu = "free" /\ phase = "serving"
    BY DEF Init
  <2> QED
    BY <2>0, <2>1, <2>2, <2>3, <2>4, <2>5, <2>6
       DEF TypeOK, ManagerTypeOK, ReaperTypeOK, SessionTypeOK, PostTypeOK, CallTypeOK, Phases
<1>2. Room /\ PostingInv /\ SnapshotInv /\ MarkedInv
  BY DEF Init, Room, PostingInv, SnapshotInv, MarkedInv
<1>3. DeadIsClosed /\ NoOrphan /\ KeptInv
  BY DEF Init, DeadIsClosed, NoOrphan, KeptInv
<1> QED
  BY <1>1, <1>2, <1>3 DEF RegistryInv

-----------------------------------------------------------------------------
(* Types, one group of variables at a time: <1>0 lists the actions that     *)
(* change the group.                                                       *)

LEMMA ManagerTypeStep ==
  ASSUME TypeOK, Room, [Next]_vars
  PROVE  ManagerTypeOK' /\ Room' /\ (settled \in 0 .. MaxSessions)'
<1>a. /\ ManagerTypeOK /\ SessionTypeOK /\ PostTypeOK
      /\ settled \in 0 .. MaxSessions
  BY DEF TypeOK
<1>1. Room' /\ (nextID \in 0 .. MaxSessions)'
  <2> USE DEF Room, ManagerTypeOK, PostTypeOK
  <2>1. CASE UNCHANGED <<nextID, creating>>
    BY <2>1, <1>a
  <2>2. CASE PostSession \/ PostSessionFails
    <3>1. /\ UNCHANGED nextID
          /\ \/ creating + nextID < MaxSessions /\ creating' = creating + 1
             \/ creating > 0 /\ creating' = creating - 1
      BY <2>2 DEF PostSession, PostSessionFails, managerVars
    <3> QED
      BY <3>1, <1>a
  <2>3. ASSUME NEW u \in Uuid, CreateSession(u)
        PROVE  Room' /\ (nextID \in 0 .. MaxSessions)'
    BY <2>3, <1>a DEF CreateSession
  <2>0. \/ UNCHANGED <<nextID, creating>>
        \/ PostSession \/ PostSessionFails
        \/ \E u \in Uuid : CreateSession(u)
    BY ZenonT(60) DEF Next, Tick, StartupProbe, CleanupBegins, CleanupDeletes, CleanupStops,
           ServerFails, Signal, CloseAllBegins, CloseAllEnds, MainReturns, SetStateIdle,
           KeepDefaultTimeout, SetSessionTimeout, SyncDefaultTimeout, FindSession,
           AdmitStatement, RejectStatement, SubmitStatement, FinishStatement, CancelStatement,
           DeleteSession, GoCloses, CloseEnds, CleanupLocks, CleanupScans, CleanupDeadlocks,
           CloseAllCloses, CloseAllPanics, vars, managerVars, postVars
  <2> QED
    BY <2>0, <2>1, <2>2, <2>3
<1>2. (sessions \subseteq Id)'
  <2> USE DEF ManagerTypeOK
  <2>1. ASSUME NEW u \in Uuid, CreateSession(u)
        PROVE  sessions' \subseteq Id
    BY <2>1, <1>a DEF CreateSession, Room, PostTypeOK
  <2>0. sessions' \subseteq sessions \/ \E u \in Uuid : CreateSession(u)
    BY ZenonT(60) DEF Next, Tick, PostSession, PostSessionFails, StartupProbe, CleanupBegins,
           CleanupDeletes, CleanupStops, ServerFails, Signal, CloseAllBegins, CloseAllEnds,
           MainReturns, SetStateIdle, KeepDefaultTimeout, SetSessionTimeout,
           SyncDefaultTimeout, FindSession, AdmitStatement, RejectStatement, SubmitStatement,
           FinishStatement, CancelStatement, DeleteSession, GoCloses, CloseEnds, CleanupLocks,
           CleanupScans, CleanupDeadlocks, CloseAllCloses, CloseAllPanics, vars, managerVars
  <2> QED
    BY <2>0, <2>1, <1>a
<1>3. (idleTimeout \in Int /\ deadTimeout \in Int)'
  <2> USE DEF ManagerTypeOK
  <2>1. CASE StartupProbe
    BY <2>1, <1>a DEF StartupProbe
  <2>2. ASSUME NEW id \in Id, SyncDefaultTimeout(id)
        PROVE  (idleTimeout \in Int /\ deadTimeout \in Int)'
    BY <2>2, <1>a DEF SyncDefaultTimeout, SessionTypeOK
  <2>0. \/ UNCHANGED <<idleTimeout, deadTimeout>>
        \/ StartupProbe
        \/ \E id \in Id : SyncDefaultTimeout(id)
    BY ZenonT(60) DEF Next, Tick, PostSession, PostSessionFails, CreateSession, CleanupBegins,
           CleanupDeletes, CleanupStops, ServerFails, Signal, CloseAllBegins, CloseAllEnds,
           MainReturns, SetStateIdle, KeepDefaultTimeout, SetSessionTimeout, FindSession,
           AdmitStatement, RejectStatement, SubmitStatement, FinishStatement, CancelStatement,
           DeleteSession, GoCloses, CloseEnds, CleanupLocks, CleanupScans, CleanupDeadlocks,
           CloseAllCloses, CloseAllPanics, vars, managerVars
  <2> QED
    BY <2>0, <2>1, <2>2, <1>a
<1>4. (settled \in 0 .. MaxSessions)'
  <2>0. UNCHANGED settled \/ settled' = nextID
    BY ZenonT(60) DEF Next, Tick, PostSession, PostSessionFails, CreateSession, StartupProbe,
           CleanupBegins, CleanupDeletes, CleanupStops, ServerFails, Signal, CloseAllBegins,
           CloseAllEnds, MainReturns, SetStateIdle, KeepDefaultTimeout, SetSessionTimeout,
           SyncDefaultTimeout, FindSession, AdmitStatement, RejectStatement, SubmitStatement,
           FinishStatement, CancelStatement, DeleteSession, GoCloses, CloseEnds, CleanupLocks,
           CleanupScans, CleanupDeadlocks, CloseAllCloses, CloseAllPanics, vars, mainVars
  <2> QED
    BY <2>0, <1>a DEF ManagerTypeOK
<1> QED
  BY <1>1, <1>2, <1>3, <1>4 DEF ManagerTypeOK

LEMMA ReaperTypeStep ==
  ASSUME TypeOK, [Next]_vars
  PROVE  ReaperTypeOK'
<1> USE DEF ReaperTypeOK
<1>a. ReaperTypeOK /\ sessions \subseteq Id /\ clock \in 0 .. MaxTime /\ timeout \in [Id -> Int]
  BY DEF TypeOK, ManagerTypeOK, SessionTypeOK
<1>1. CASE UNCHANGED reaperVars
  BY <1>1, <1>a DEF reaperVars, roundVars
<1>2. CASE CleanupBegins \/ CleanupStops
  BY <1>2, <1>a DEF CleanupBegins, CleanupStops, roundVars
<1>3. CASE CleanupDeletes
  <2>1. timeoutThen' \in [Id -> Int] /\ now' \in 0 .. MaxTime
    BY <1>3 DEF CleanupDeletes
  <2> QED
    BY <1>3, <2>1, <1>a DEF CleanupDeletes
<1>4. CASE CloseAllBegins \/ CloseAllEnds
  BY <1>4, <1>a DEF CloseAllBegins, CloseAllEnds, roundVars
<1>5. ASSUME NEW id \in Id, CleanupScans(id) \/ CloseAllPanics(id)
      PROVE  ReaperTypeOK'
  BY <1>5, <1>a DEF CleanupScans, CloseAllPanics, roundVars
<1>0. \/ UNCHANGED reaperVars
      \/ CleanupBegins \/ CleanupDeletes \/ CleanupStops \/ CloseAllBegins \/ CloseAllEnds
      \/ \E id \in Id : CleanupScans(id) \/ CloseAllPanics(id)
  BY ZenonT(60) DEF Next, Tick, PostSession, PostSessionFails, CreateSession, StartupProbe,
         ServerFails, Signal, MainReturns, SetStateIdle, KeepDefaultTimeout,
         SetSessionTimeout, SyncDefaultTimeout, FindSession, AdmitStatement, RejectStatement,
         SubmitStatement, FinishStatement, CancelStatement, DeleteSession, GoCloses,
         CloseEnds, CleanupLocks, CleanupDeadlocks, CloseAllCloses, vars
<1> QED
  BY <1>0, <1>1, <1>2, <1>3, <1>4, <1>5

\* What the steps of a Close do to the variables they change.
CloseStep(id) ==
  \/ CloseReturns(id)
  \/ \E who \in Closers : CloseSession(id, who)
  \/ ClosePanics(id)

LEMMA CloseTypes ==
  ASSUME SessionTypeOK, NEW id \in Id, CloseStep(id)
  PROVE  /\ state' \in [Id -> {"none", "starting", "idle", "busy", "dead", "shutting_down"}]
         /\ holder' \in [Id -> Holders]
         /\ UNCHANGED <<lastActivity, open>>
<1> USE DEF SessionTypeOK
<1>1. CASE CloseReturns(id)
  BY <1>1 DEF CloseReturns, closeVars
<1>2. ASSUME NEW who \in Closers, CloseSession(id, who)
      PROVE  /\ state' \in [Id -> {"none", "starting", "idle", "busy", "dead", "shutting_down"}]
             /\ holder' \in [Id -> Holders]
             /\ UNCHANGED <<lastActivity, open>>
  <2>1. who \in Holders
    BY DEF Holders
  <2> QED
    BY <1>2, <2>1 DEF CloseSession
<1>3. CASE ClosePanics(id)
  BY <1>3 DEF ClosePanics
<1> QED
  BY <1>1, <1>2, <1>3 DEF CloseStep

LEMMA SessionTypeStep ==
  ASSUME TypeOK, Room, [Next]_vars
  PROVE  SessionTypeOK'
<1> USE DEF SessionTypeOK
<1>a. SessionTypeOK /\ clock \in 0 .. MaxTime
  BY DEF TypeOK
<1>1. CASE UNCHANGED sessionVars
  BY <1>1, <1>a DEF sessionVars, closeVars
<1>2. ASSUME NEW u \in Uuid, CreateSession(u)
      PROVE  SessionTypeOK'
  BY <1>2, <1>a DEF CreateSession
<1>3. ASSUME NEW id \in Id, SetStateIdle(id)
      PROVE  SessionTypeOK'
  BY <1>3, <1>a DEF SetStateIdle
<1>4. ASSUME NEW id \in Id, NEW r \in RemoteTimeouts, SetSessionTimeout(id, r)
      PROVE  SessionTypeOK'
  <2>1. PICK t \in Int : timeout' = [timeout EXCEPT ![id] = t]
    <3>1. r \in Int
      BY RegistryAssumption
    <3>2. (IF r > 0 THEN r ELSE -1) \in Int
      BY <3>1
    <3> QED
      BY <1>4, <3>2 DEF SetSessionTimeout
  <2>2. UNCHANGED <<state, lastActivity, uuid, open, holder, working>>
    BY <1>4 DEF SetSessionTimeout, closeVars
  <2> QED
    BY <1>a, <2>1, <2>2
<1>5. ASSUME NEW id \in Id, SubmitStatement(id)
      PROVE  SessionTypeOK'
  BY <1>5, <1>a DEF SubmitStatement
<1>6. ASSUME NEW id \in Id, FinishStatement(id) \/ CancelStatement(id)
      PROVE  SessionTypeOK'
  <2>1. /\ \/ /\ working[id] > 0
              /\ working' = [working EXCEPT ![id] = @ - 1]
              /\ state' = [state EXCEPT ![id] = StateAfterStatement(id)]
           \/ UNCHANGED <<working, state>>
        /\ UNCHANGED lastActivity \/ lastActivity' = [lastActivity EXCEPT ![id] = clock]
        /\ UNCHANGED <<timeout, uuid, open, holder>>
    BY <1>6 DEF FinishStatement, CancelStatement
  <2>2. StateAfterStatement(id) \in {"none", "starting", "idle", "busy", "dead", "shutting_down"}
    BY <1>a DEF StateAfterStatement
  <2>3. working' \in [Id -> Nat]
    <3>1. working[id] > 0 => working[id] - 1 \in Nat
      BY <1>a
    <3> QED
      BY <2>1, <3>1, <1>a
  <2>4. state' \in [Id -> {"none", "starting", "idle", "busy", "dead", "shutting_down"}]
    BY <1>a, <2>1, <2>2
  <2>5. lastActivity' \in [Id -> 0 .. MaxTime]
    BY <1>a, <2>1
  <2> QED
    BY <1>a, <2>1, <2>3, <2>4, <2>5
<1>7. ASSUME NEW id \in Id, CloseStep(id), UNCHANGED <<timeout, uuid, working>>
      PROVE  SessionTypeOK'
  BY <1>7, <1>a, CloseTypes
<1>8. ASSUME NEW id \in Id, CloseEnds(id)
      PROVE  SessionTypeOK'
  <2>1. "free" \in Holders
    BY DEF Holders
  <2>2. /\ state' = [state EXCEPT ![id] = "dead"]
        /\ open' = [open EXCEPT ![id] = FALSE]
        /\ lastActivity' = [lastActivity EXCEPT ![id] = clock]
        /\ holder' = [holder EXCEPT ![id] = "free"]
        /\ UNCHANGED <<timeout, uuid, working>>
    BY <1>8 DEF CloseEnds
  <2>3. open' \in [Id -> BOOLEAN] /\ holder' \in [Id -> Holders]
    BY <2>1, <2>2, <1>a
  <2> QED
    BY <2>2, <2>3, <1>a
<1>9. ASSUME NEW id \in Id, CleanupLocks(id) \/ CleanupScans(id) \/ CleanupDeadlocks(id)
      PROVE  SessionTypeOK'
  <2>1. /\ \E h \in Holders : holder' = [holder EXCEPT ![id] = h]
        /\ UNCHANGED <<state, lastActivity, open, timeout, uuid, working>>
    BY <1>9 DEF CleanupLocks, CleanupScans, CleanupDeadlocks, Holders
  <2> QED
    BY <2>1, <1>a
<1>0. \/ UNCHANGED sessionVars
      \/ \E u \in Uuid : CreateSession(u)
      \/ \E id \in Id : \/ SetStateIdle(id) \/ SubmitStatement(id)
                        \/ FinishStatement(id) \/ CancelStatement(id)
                        \/ \E r \in RemoteTimeouts : SetSessionTimeout(id, r)
                        \/ CloseStep(id) /\ UNCHANGED <<timeout, uuid, working>>
                        \/ CloseEnds(id)
                        \/ CleanupLocks(id) \/ CleanupScans(id) \/ CleanupDeadlocks(id)
  BY ZenonT(60) DEF Next, Tick, PostSession, PostSessionFails, StartupProbe, CleanupBegins,
         CleanupDeletes, CleanupStops, ServerFails, Signal, CloseAllBegins, CloseAllEnds,
         MainReturns, KeepDefaultTimeout, SyncDefaultTimeout, FindSession, AdmitStatement,
         RejectStatement, DeleteSession, GoCloses, CloseAllCloses, CloseAllPanics, vars,
         CloseStep, Closers
<1> QED
  BY <1>0, <1>1, <1>2, <1>3, <1>4, <1>5, <1>6, <1>7, <1>8, <1>9

LEMMA CallTypeStep ==
  ASSUME TypeOK, [Next]_vars
  PROVE  CallTypeOK'
<1> USE DEF CallTypeOK
<1>a. CallTypeOK
  BY DEF TypeOK
<1>1. CASE UNCHANGED callVars
  BY <1>1, <1>a DEF callVars
<1>2. CASE CleanupDeletes
  BY <1>2, <1>a DEF CleanupDeletes
<1>3. ASSUME NEW id \in Id, NEW kind \in Calls, CallBegins(kind, id), UNCHANGED goCloses
      PROVE  CallTypeOK'
  <2>1. <<kind, id>> \in Calls \X Id
    OBVIOUS
  <2>2. calls' = [calls EXCEPT ![<<kind, id>>] = @ + 1]
    BY <1>3 DEF CallBegins
  <2> QED
    BY <2>1, <2>2, <1>3, <1>a
<1>4. ASSUME NEW id \in Id, NEW kind \in Calls, CallEnds(kind, id), UNCHANGED goCloses
      PROVE  CallTypeOK'
  <2>1. <<kind, id>> \in Calls \X Id
    OBVIOUS
  <2>2. calls' = [calls EXCEPT ![<<kind, id>>] = @ - 1] /\ calls[<<kind, id>>] > 0
    BY <1>4 DEF CallEnds
  <2> QED
    BY <2>1, <2>2, <1>4, <1>a
<1>5. ASSUME NEW id \in Id, AdmitStatement(id)
      PROVE  CallTypeOK'
  <2> DEFINE looked == [calls EXCEPT ![<<"submit", id>>] = @ - 1]
  <2>1. <<"submit", id>> \in Calls \X Id /\ <<"admitted", id>> \in Calls \X Id
    BY DEF Calls
  <2>2. calls[<<"submit", id>>] - 1 \in Nat
    BY <1>5, <2>1, <1>a DEF AdmitStatement
  <2>3. looked \in [Calls \X Id -> Nat]
    BY <2>1, <2>2, <1>a
  <2>4. /\ calls' = [looked EXCEPT ![<<"admitted", id>>] = @ + 1]
        /\ UNCHANGED goCloses
    BY <1>5 DEF AdmitStatement
  <2> HIDE DEF looked
  <2>5. looked[<<"admitted", id>>] + 1 \in Nat
    BY <2>1, <2>3
  <2>6. calls' \in [Calls \X Id -> Nat]
    BY <2>3, <2>4, <2>5
  <2> QED
    BY <2>4, <2>6, <1>a
<1>6. ASSUME NEW id \in Id, FinishStatement(id) \/ GoCloses(id)
      PROVE  CallTypeOK'
  <2>1. /\ UNCHANGED calls
        /\ \/ UNCHANGED goCloses
           \/ goCloses' = [goCloses EXCEPT ![id] = @ + 1]
           \/ goCloses[id] > 0 /\ goCloses' = [goCloses EXCEPT ![id] = @ - 1]
    BY <1>6 DEF FinishStatement, GoCloses
  <2>2. goCloses[id] \in Nat
    BY <1>a
  <2>3. CASE goCloses' = [goCloses EXCEPT ![id] = @ + 1]
    BY <2>1, <2>2, <2>3, <1>a
  <2>4. CASE goCloses[id] > 0 /\ goCloses' = [goCloses EXCEPT ![id] = @ - 1]
    BY <2>1, <2>2, <2>4, <1>a
  <2> QED
    BY <2>1, <2>3, <2>4, <1>a
<1>0. \/ UNCHANGED callVars
      \/ CleanupDeletes
      \/ \E id \in Id : \/ \E kind \in Calls :
                             \/ CallBegins(kind, id) /\ UNCHANGED goCloses
                             \/ CallEnds(kind, id) /\ UNCHANGED goCloses
                        \/ AdmitStatement(id) \/ FinishStatement(id) \/ GoCloses(id)
  BY ZenonT(60) DEF Next, Tick, PostSession, PostSessionFails, CreateSession, StartupProbe,
         CleanupBegins, CleanupStops, ServerFails, Signal, CloseAllBegins, CloseAllEnds,
         MainReturns, SetStateIdle, KeepDefaultTimeout, SetSessionTimeout, SyncDefaultTimeout,
         FindSession, RejectStatement, SubmitStatement, CancelStatement, DeleteSession,
         CloseEnds, CleanupLocks, CleanupScans, CleanupDeadlocks, CloseAllCloses,
         CloseAllPanics, vars, Calls
<1> QED
  BY <1>0, <1>1, <1>2, <1>3, <1>4, <1>5, <1>6

LEMMA PostTypeStep ==
  ASSUME TypeOK, Room, [Next]_vars
  PROVE  PostTypeOK' /\ (clock \in 0 .. MaxTime /\ phase \in Phases)'
<1> USE DEF PostTypeOK
<1>a. PostTypeOK /\ clock \in 0 .. MaxTime /\ phase \in Phases
  BY DEF TypeOK
<1>1. PostTypeOK'
  <2>1. CASE UNCHANGED postVars
    BY <2>1, <1>a DEF postVars
  <2>2. CASE PostSession \/ PostSessionFails
    <3>1. creating' \in 0 .. MaxSessions
      BY <2>2, <1>a DEF PostSession, PostSessionFails, TypeOK, ManagerTypeOK
    <3> QED
      BY <2>2, <3>1, <1>a DEF PostSession, PostSessionFails
  <2>3. ASSUME NEW u \in Uuid, CreateSession(u)
        PROVE  PostTypeOK'
    <3>1. creating' \in 0 .. MaxSessions
      BY <2>3, <1>a DEF CreateSession
    <3> QED
      BY <2>3, <3>1, <1>a DEF CreateSession
  <2>4. CASE StartupProbe
    BY <2>4, <1>a DEF StartupProbe
  <2>5. ASSUME NEW id \in Id,
               \/ SetStateIdle(id) \/ KeepDefaultTimeout(id) \/ SyncDefaultTimeout(id)
               \/ \E r \in RemoteTimeouts : SetSessionTimeout(id, r)
        PROVE  PostTypeOK'
    BY <2>5, <1>a DEF SetStateIdle, KeepDefaultTimeout, SyncDefaultTimeout, SetSessionTimeout
  <2>0. \/ UNCHANGED postVars
        \/ PostSession \/ PostSessionFails \/ StartupProbe
        \/ \E u \in Uuid : CreateSession(u)
        \/ \E id \in Id : \/ SetStateIdle(id) \/ KeepDefaultTimeout(id) \/ SyncDefaultTimeout(id)
                          \/ \E r \in RemoteTimeouts : SetSessionTimeout(id, r)
    BY ZenonT(60) DEF Next, Tick, CleanupBegins, CleanupDeletes, CleanupStops, ServerFails,
           Signal, CloseAllBegins, CloseAllEnds, MainReturns, FindSession, AdmitStatement,
           RejectStatement, SubmitStatement, FinishStatement, CancelStatement, DeleteSession,
           GoCloses, CloseEnds, CleanupLocks, CleanupScans, CleanupDeadlocks, CloseAllCloses,
           CloseAllPanics, vars
  <2> QED
    BY <2>0, <2>1, <2>2, <2>3, <2>4, <2>5
<1>2. (clock \in 0 .. MaxTime)'
  <2>1. CASE Tick
    BY <2>1, <1>a DEF Tick
  <2>2. Tick \/ UNCHANGED clock
    BY ZenonT(60) DEF Next, PostSession, PostSessionFails, CreateSession, StartupProbe,
           CleanupBegins, CleanupDeletes, CleanupStops, ServerFails, Signal, CloseAllBegins,
           CloseAllEnds, MainReturns, SetStateIdle, KeepDefaultTimeout, SetSessionTimeout,
           SyncDefaultTimeout, FindSession, AdmitStatement, RejectStatement, SubmitStatement,
           FinishStatement, CancelStatement, DeleteSession, GoCloses, CloseEnds, CleanupLocks,
           CleanupScans, CleanupDeadlocks, CloseAllCloses, CloseAllPanics, vars
  <2> QED
    BY <2>1, <2>2, <1>a
<1>3. (phase \in Phases)'
  <2>1. \/ UNCHANGED phase
        \/ phase' \in {"draining", "closing", "closingAgain", "leaving", "exited", "unwinding",
                       "panicking", "dying", "crashed"}
    BY ZenonT(60) DEF Next, Tick, PostSession, PostSessionFails, CreateSession, StartupProbe,
           CleanupBegins, CleanupDeletes, CleanupStops, ServerFails, Signal, CloseAllBegins,
           CloseAllEnds, MainReturns, SetStateIdle, KeepDefaultTimeout, SetSessionTimeout,
           SyncDefaultTimeout, FindSession, AdmitStatement, RejectStatement, SubmitStatement,
           FinishStatement, CancelStatement, DeleteSession, GoCloses, CloseEnds, CleanupLocks,
           CleanupScans, CleanupDeadlocks, CloseAllCloses, CloseAllPanics, vars, mainVars,
           AfterCloseAll
  <2> QED
    BY <2>1, <1>a DEF Phases
<1> QED
  BY <1>1, <1>2, <1>3

-----------------------------------------------------------------------------
LEMMA PostingStep ==
  ASSUME TypeOK, Room, PostingInv, SnapshotInv, [Next]_vars
  PROVE  PostingInv' /\ SnapshotInv'
<1> USE DEF PostingInv, SnapshotInv
<1>a. /\ posting \in [Id -> {"none", "registered", "idle", "sync", "done"}]
      /\ timeout \in [Id -> Int]
      /\ nextID \in 0 .. MaxSessions
  BY DEF TypeOK, PostTypeOK, SessionTypeOK, ManagerTypeOK
<1>1. CASE UNCHANGED <<posting, timeout, timeoutThen, nextID>>
  BY <1>1
<1>2. ASSUME NEW u \in Uuid, CreateSession(u)
      PROVE  PostingInv' /\ SnapshotInv'
  BY <1>2, <1>a DEF CreateSession, reaperVars, roundVars
<1>3. ASSUME NEW id \in Id, SetStateIdle(id) \/ KeepDefaultTimeout(id) \/ SyncDefaultTimeout(id)
      PROVE  PostingInv' /\ SnapshotInv'
  BY <1>3, <1>a DEF SetStateIdle, KeepDefaultTimeout, SyncDefaultTimeout, managerVars,
                    sessionVars, reaperVars, roundVars
<1>4. ASSUME NEW id \in Id, NEW r \in RemoteTimeouts, SetSessionTimeout(id, r)
      PROVE  PostingInv' /\ SnapshotInv'
  <2>1. PICK t \in Int \ {0} : timeout' = [timeout EXCEPT ![id] = t]
    <3>1. r \in Int /\ r # 0
      BY <1>4, RegistryAssumption DEF SetSessionTimeout
    <3>2. (IF r > 0 THEN r ELSE -1) \in Int \ {0}
      BY <3>1
    <3> QED
      BY <1>4, <3>2 DEF SetSessionTimeout
  <2>2. /\ posting[id] = "idle"
        /\ posting'[id] \in {"sync", "done"}
        /\ \A x \in Id \ {id} : posting'[x] = posting[x]
        /\ UNCHANGED <<nextID, timeoutThen>>
    BY <1>4, <1>a DEF SetSessionTimeout, managerVars, reaperVars, roundVars
  <2> QED
    BY <2>1, <2>2, <1>a
<1>5. CASE CleanupBegins \/ CleanupDeletes
  BY <1>5, <1>a DEF CleanupBegins, CleanupDeletes, managerVars, sessionVars, postVars
<1>0. \/ UNCHANGED <<posting, timeout, timeoutThen, nextID>>
      \/ CleanupBegins \/ CleanupDeletes
      \/ \E u \in Uuid : CreateSession(u)
      \/ \E id \in Id : \/ SetStateIdle(id) \/ KeepDefaultTimeout(id) \/ SyncDefaultTimeout(id)
                        \/ \E r \in RemoteTimeouts : SetSessionTimeout(id, r)
  BY ZenonT(60) DEF Next, Tick, PostSession, PostSessionFails, StartupProbe, CleanupStops,
         ServerFails, Signal, CloseAllBegins, CloseAllEnds, MainReturns, FindSession,
         AdmitStatement, RejectStatement, SubmitStatement, FinishStatement, CancelStatement,
         DeleteSession, GoCloses, CloseEnds, CleanupLocks, CleanupScans, CleanupDeadlocks,
         CloseAllCloses, CloseAllPanics, vars, managerVars, sessionVars, postVars, reaperVars,
         roundVars
<1> QED
  BY <1>0, <1>1, <1>2, <1>3, <1>4, <1>5
-----------------------------------------------------------------------------
LEMMA ClosedStep ==
  ASSUME TypeOK, Room, DeadIsClosed, NoOrphan, [Next]_vars
  PROVE  DeadIsClosed' /\ NoOrphan'
<1> USE DEF DeadIsClosed, NoOrphan, Closing
<1>a. /\ SessionTypeOK
      /\ goCloses \in [Id -> Nat]
      /\ creating > 0 => nextID \in Id
  BY DEF TypeOK, CallTypeOK, PostTypeOK, ManagerTypeOK, Room
<1>1. CASE UNCHANGED <<sessions, state, open, goCloses, holder>>
  BY <1>1
<1>2. ASSUME NEW u \in Uuid, CreateSession(u)
      PROVE  DeadIsClosed' /\ NoOrphan'
  BY <1>2, <1>a DEF CreateSession, SessionTypeOK, callVars
<1>3. CASE CleanupDeletes
  BY <1>3, <1>a DEF CleanupDeletes, sessionVars, closeVars
<1>4. ASSUME NEW id \in Id, SetStateIdle(id) \/ SubmitStatement(id)
      PROVE  DeadIsClosed' /\ NoOrphan'
  BY <1>4, <1>a DEF SetStateIdle, SubmitStatement, SessionTypeOK, managerVars, callVars
<1>5. ASSUME NEW id \in Id, FinishStatement(id) \/ CancelStatement(id)
      PROVE  DeadIsClosed' /\ NoOrphan'
  <2>1. /\ state' = [state EXCEPT ![id] = StateAfterStatement(id)] \/ UNCHANGED state
        /\ UNCHANGED <<sessions, open, holder>>
        /\ UNCHANGED goCloses \/ goCloses' = [goCloses EXCEPT ![id] = @ + 1]
    BY <1>5 DEF FinishStatement, CancelStatement, managerVars, callVars
  <2>2. StateAfterStatement(id) \in Closed => StateAfterStatement(id) = state[id]
    BY DEF StateAfterStatement, Closed
  <2>3. DeadIsClosed'
    BY <2>1, <2>2, <1>a DEF SessionTypeOK, Closed
  <2>4. NoOrphan'
    BY <2>1, <1>a
  <2> QED
    BY <2>3, <2>4
\* A Close that has nothing to do finds the client closed: its session is terminated,
\* and nobody keeps the lock.
<1>6. ASSUME NEW id \in Id, CloseReturns(id),
             UNCHANGED goCloses \/ goCloses' = [goCloses EXCEPT ![id] = @ - 1],
             UNCHANGED sessions \/ sessions' = sessions \ {id}
      PROVE  DeadIsClosed' /\ NoOrphan'
  <2>1. ~open[id] /\ UNCHANGED <<state, open, holder>>
    BY <1>6 DEF CloseReturns, SessionFree, Closed, Closers, closeVars
  <2> QED
    BY <2>1, <1>6, <1>a
<1>7. ASSUME NEW id \in Id, NEW who \in Closers, CloseSession(id, who),
             UNCHANGED goCloses \/ goCloses' = [goCloses EXCEPT ![id] = @ - 1],
             UNCHANGED sessions
      PROVE  DeadIsClosed' /\ NoOrphan'
  BY <1>7, <1>a DEF CloseSession, SessionTypeOK
<1>8. ASSUME NEW id \in Id, ClosePanics(id),
             UNCHANGED goCloses \/ goCloses' = [goCloses EXCEPT ![id] = @ - 1],
             UNCHANGED sessions
      PROVE  DeadIsClosed' /\ NoOrphan'
  BY <1>8, <1>a DEF ClosePanics, SessionTypeOK
<1>9. ASSUME NEW id \in Id,
             DeleteSession(id) \/ GoCloses(id) \/ CloseAllCloses(id) \/ CloseAllPanics(id)
      PROVE  DeadIsClosed' /\ NoOrphan'
  <2>1. /\ UNCHANGED goCloses \/ goCloses' = [goCloses EXCEPT ![id] = @ - 1]
        /\ \/ CloseReturns(id) /\ (UNCHANGED sessions \/ sessions' = sessions \ {id})
           \/ (\E who \in Closers : CloseSession(id, who)) /\ UNCHANGED sessions
           \/ ClosePanics(id) /\ UNCHANGED sessions
    BY <1>9 DEF DeleteSession, GoCloses, CloseAllCloses, CloseAllPanics, Closers, managerVars,
                callVars
  <2> QED
    BY <2>1, <1>6, <1>7, <1>8
<1>10. ASSUME NEW id \in Id, CloseEnds(id)
       PROVE  DeadIsClosed' /\ NoOrphan'
  <2>1. /\ state' = [state EXCEPT ![id] = "dead"]
        /\ open' = [open EXCEPT ![id] = FALSE]
        /\ holder' = [holder EXCEPT ![id] = "free"]
        /\ \A x \in Id \ {id} : x \in sessions => x \in sessions'
        /\ UNCHANGED goCloses
    BY <1>10 DEF CloseEnds, callVars
  <2> QED
    BY <2>1, <1>a DEF SessionTypeOK
<1>11. ASSUME NEW id \in Id, CleanupLocks(id) \/ CleanupScans(id) \/ CleanupDeadlocks(id)
       PROVE  DeadIsClosed' /\ NoOrphan'
  <2>1. /\ \A x \in Id : holder'[x] \in Closers <=> holder[x] \in Closers
        /\ UNCHANGED <<sessions, state, open, goCloses>>
    BY <1>11, <1>a DEF CleanupLocks, CleanupScans, CleanupDeadlocks, SessionFree, SessionTypeOK,
                       Closers, managerVars, callVars
  <2> QED
    BY <2>1
<1>0. \/ UNCHANGED <<sessions, state, open, goCloses, holder>>
      \/ CleanupDeletes
      \/ \E u \in Uuid : CreateSession(u)
      \/ \E id \in Id : \/ SetStateIdle(id) \/ SubmitStatement(id)
                        \/ FinishStatement(id) \/ CancelStatement(id)
                        \/ DeleteSession(id) \/ GoCloses(id) \/ CloseEnds(id)
                        \/ CloseAllCloses(id) \/ CloseAllPanics(id)
                        \/ CleanupLocks(id) \/ CleanupScans(id) \/ CleanupDeadlocks(id)
  BY ZenonT(60) DEF Next, Tick, PostSession, PostSessionFails, StartupProbe, CleanupBegins,
         CleanupStops, ServerFails, Signal, CloseAllBegins, CloseAllEnds, MainReturns,
         KeepDefaultTimeout, SetSessionTimeout, SyncDefaultTimeout, FindSession,
         AdmitStatement, RejectStatement, vars, managerVars, sessionVars, closeVars, callVars
<1> QED
  BY <1>0, <1>1, <1>2, <1>3, <1>4, <1>5, <1>9, <1>10, <1>11

-----------------------------------------------------------------------------
\* What the cleanup has marked stays used or due as long as it holds m.mu.
LEMMA MarkedStep ==
  ASSUME TypeOK, PostingInv, SnapshotInv, MarkedInv, [Next]_vars
  PROVE  MarkedInv'
<1> SUFFICES ASSUME mu' = "cleanup"
             PROVE  MarkedInv'
  BY DEF MarkedInv
<1> DEFINE Same == UNCHANGED <<mu, now, timeoutThen, idleTimeout, deadTimeout>>
<1> USE DEF MarkedInv, UsedOrDue, Due, IdleTooLong, UnusedFor
<1>a. /\ SessionTypeOK
      /\ posting \in [Id -> {"none", "registered", "idle", "sync", "done"}]
      /\ idleTimeout \in Int /\ deadTimeout \in Int
      /\ now \in Int /\ clock \in Int
      /\ toDelete \subseteq Id
  BY DEF TypeOK, PostTypeOK, ManagerTypeOK, ReaperTypeOK
<1>b. \A x \in Id : lastActivity[x] \in Int /\ timeout[x] \in Int
  BY <1>a DEF SessionTypeOK
<1>1. CASE /\ Same
           /\ UNCHANGED <<toDelete, state, lastActivity, timeout>>
           /\ UNCHANGED clock \/ clock' = clock + 1
  BY <1>1, <1>a
<1>2. CASE CleanupBegins
  BY <1>2, <1>a DEF CleanupBegins
<1>3. ASSUME NEW id \in Id, CleanupScans(id)
      PROVE  MarkedInv'
  <2>1. /\ Same /\ UNCHANGED <<clock, state, lastActivity, timeout>>
        /\ toDelete' = toDelete \/ (Expired(id) /\ toDelete' = toDelete \cup {id})
    BY <1>3 DEF CleanupScans, managerVars
  <2>2. Expired(id) => Due(id)
    BY <1>a, <1>b DEF Expired, EffectiveTimeout
  <2> QED
    BY <2>1, <2>2
<1>4. ASSUME NEW id \in Id, Same, UNCHANGED <<clock, toDelete, timeout>>,
             \A x \in Id \ {id} : state'[x] = state[x] /\ lastActivity'[x] = lastActivity[x],
             \/ lastActivity'[id] = clock
             \/ /\ lastActivity'[id] = lastActivity[id]
                /\ \/ state'[id] = state[id]
                   \/ state[id] = "busy"
                   \/ state'[id] = "shutting_down" /\ state[id] # "dead"
      PROVE  MarkedInv'
  <2> SUFFICES ASSUME NEW x \in toDelete
               PROVE  UsedOrDue(x)'
    BY <1>4
  <2>1. mu = "cleanup" /\ UsedOrDue(x) /\ now <= clock /\ x \in Id
    BY <1>4, <1>a
  <2>2. CASE x # id
    BY <1>4, <2>1, <2>2
  <2>3. CASE x = id
    <3>1. CASE lastActivity'[id] = clock
      BY <1>4, <2>1, <2>3, <3>1, <1>a
    <3>2. CASE lastActivity'[id] = lastActivity[id] /\ state[id] = "busy"
      BY <1>4, <2>1, <2>3, <3>2, <1>a
    <3>3. CASE /\ lastActivity'[id] = lastActivity[id]
               /\ \/ state'[id] = state[id]
                  \/ state'[id] = "shutting_down" /\ state[id] # "dead"
      BY <1>4, <2>1, <2>3, <3>3, <1>a
    <3> QED
      BY <1>4, <3>1, <3>2, <3>3
  <2> QED
    BY <2>2, <2>3
<1>5. ASSUME NEW id \in Id,
             SetStateIdle(id) \/ SubmitStatement(id) \/ FinishStatement(id) \/ CloseEnds(id)
      PROVE  MarkedInv'
  <2>1. /\ Same /\ UNCHANGED <<clock, toDelete, timeout>>
        /\ \A x \in Id \ {id} : state'[x] = state[x] /\ lastActivity'[x] = lastActivity[x]
        /\ lastActivity'[id] = clock
    BY <1>5, <1>a DEF SetStateIdle, SubmitStatement, FinishStatement, CloseEnds, SessionTypeOK,
                      managerVars, reaperVars, roundVars
  <2> QED
    BY <1>4, <2>1
<1>6. ASSUME NEW id \in Id, CancelStatement(id)
      PROVE  MarkedInv'
  <2>1. /\ Same /\ UNCHANGED <<clock, toDelete, timeout, lastActivity>>
        /\ state' = [state EXCEPT ![id] = StateAfterStatement(id)] \/ UNCHANGED state
    BY <1>6 DEF CancelStatement, managerVars, reaperVars, roundVars
  <2>2. StateAfterStatement(id) = state[id] \/ state[id] = "busy"
    BY DEF StateAfterStatement
  <2>3. /\ \A x \in Id \ {id} : state'[x] = state[x]
        /\ state'[id] = state[id] \/ state[id] = "busy"
    BY <2>1, <2>2, <1>a DEF SessionTypeOK
  <2> QED
    BY <1>4, <2>1, <2>3
<1>7. ASSUME NEW id \in Id,
             DeleteSession(id) \/ GoCloses(id) \/ CloseAllCloses(id) \/ CloseAllPanics(id)
      PROVE  MarkedInv'
  <2>1. /\ \/ CloseReturns(id)
           \/ \E who \in Closers : CloseSession(id, who)
           \/ ClosePanics(id)
        /\ Same /\ UNCHANGED <<clock, toDelete, timeout>>
    BY <1>7 DEF DeleteSession, GoCloses, CloseAllCloses, CloseAllPanics, Closers, managerVars,
                reaperVars, roundVars
  <2>2. /\ UNCHANGED lastActivity
        /\ \A x \in Id \ {id} : state'[x] = state[x]
        /\ state'[id] = state[id] \/ (state'[id] = "shutting_down" /\ state[id] # "dead")
    BY <2>1, <1>a DEF CloseReturns, CloseSession, ClosePanics, Closed, SessionTypeOK, closeVars
  <2> QED
    BY <1>4, <2>1, <2>2
<1>8. ASSUME NEW id \in Id, NEW r \in RemoteTimeouts, SetSessionTimeout(id, r)
      PROVE  MarkedInv'
  \* Until now the default applied to the session, and when the cleanup began.
  <2>1. /\ Same /\ UNCHANGED <<clock, toDelete, state, lastActivity>>
        /\ timeoutThen[id] = 0
        /\ timeout[id] = 0
        /\ \A x \in Id \ {id} : timeout'[x] = timeout[x]
    BY <1>8, <1>a DEF SetSessionTimeout, PostingInv, SnapshotInv, SessionTypeOK, managerVars,
                      reaperVars, roundVars, closeVars
  <2> SUFFICES ASSUME NEW x \in toDelete
               PROVE  UsedOrDue(x)'
    BY <2>1
  <2>2. UsedOrDue(x) /\ x \in Id
    BY <2>1, <1>a
  <2>3. CASE x # id
    BY <2>1, <2>2, <2>3
  <2>4. CASE x = id
    BY <2>1, <2>2, <2>4
  <2> QED
    BY <2>3, <2>4
<1>0. \/ /\ Same
         /\ UNCHANGED <<toDelete, state, lastActivity, timeout>>
         /\ UNCHANGED clock \/ clock' = clock + 1
      \/ CleanupBegins
      \/ \E id \in Id : \/ CleanupScans(id) \/ SetStateIdle(id) \/ SubmitStatement(id)
                        \/ FinishStatement(id) \/ CancelStatement(id) \/ CloseEnds(id)
                        \/ DeleteSession(id) \/ GoCloses(id)
                        \/ CloseAllCloses(id) \/ CloseAllPanics(id)
                        \/ \E r \in RemoteTimeouts : SetSessionTimeout(id, r)
  \* Whatever else changes one of them takes m.mu, or gives it back.
  BY ZenonT(60) DEF Next, Tick, PostSession, PostSessionFails, CreateSession, StartupProbe,
         CleanupDeletes, CleanupStops, ServerFails, Signal, CloseAllBegins, CloseAllEnds,
         MainReturns, KeepDefaultTimeout, SyncDefaultTimeout, FindSession, AdmitStatement,
         RejectStatement, CleanupLocks, CleanupDeadlocks, vars, LockFree, managerVars,
         reaperVars, roundVars, sessionVars, closeVars
<1> QED
  BY <1>0, <1>1, <1>2, <1>3, <1>5, <1>6, <1>7, <1>8

-----------------------------------------------------------------------------
LEMMA KeptStep ==
  ASSUME TypeOK, KeptInv, [Next]_vars
  PROVE  KeptInv'
<1> USE DEF KeptInv
<1>a. SessionTypeOK
  BY DEF TypeOK
<1>1. CASE UNCHANGED <<sessions, mu, holder>>
  BY <1>1
<1>2. ASSUME NEW u \in Uuid, CreateSession(u)
      PROVE  KeptInv'
  BY <1>2 DEF CreateSession, reaperVars
<1>3. CASE CleanupBegins \/ CleanupDeletes \/ CloseAllBegins \/ CloseAllEnds
  BY <1>3 DEF CleanupBegins, CleanupDeletes, CloseAllBegins, CloseAllEnds, LockFree, managerVars,
              sessionVars, closeVars
<1>4. ASSUME NEW id \in Id,
             DeleteSession(id) \/ GoCloses(id)
      PROVE  KeptInv'
  <2>1. /\ \/ UNCHANGED holder
           \/ \E who \in {"delete", "go"} : holder' = [holder EXCEPT ![id] = who]
        /\ UNCHANGED <<sessions, mu>>
    BY <1>4 DEF DeleteSession, GoCloses, CloseReturns, CloseSession, ClosePanics, managerVars,
                reaperVars, closeVars
  <2> QED
    BY <2>1, <1>a DEF SessionTypeOK
<1>5. ASSUME NEW id \in Id, CloseAllCloses(id)
      PROVE  KeptInv'
  <2>1. CASE CloseReturns(id) /\ sessions' = sessions \ {id}
    BY <1>5, <2>1 DEF CloseAllCloses, CloseReturns, SessionFree, reaperVars, closeVars
  <2>2. CASE CloseSession(id, "closeAll") /\ UNCHANGED sessions
    BY <1>5, <2>2, <1>a DEF CloseAllCloses, CloseAllAt, CloseSession, SessionTypeOK, reaperVars
  <2> QED
    BY <1>5, <2>1, <2>2 DEF CloseAllCloses
<1>6. ASSUME NEW id \in Id, CloseAllPanics(id)
      PROVE  KeptInv'
  \* It has closed every session it had come to.
  <2>1. (\A x \in Id : holder[x] # "closeAll") /\ UNCHANGED holder
    BY <1>6 DEF CloseAllPanics, CloseAllAt, ClosePanics
  <2> QED
    BY <2>1
<1>7. ASSUME NEW id \in Id, CloseEnds(id)
      PROVE  KeptInv'
  <2>1. /\ holder' = [holder EXCEPT ![id] = "free"]
        /\ \A x \in Id \ {id} : x \in sessions => x \in sessions'
        /\ UNCHANGED mu
    BY <1>7 DEF CloseEnds, reaperVars
  <2> QED
    BY <2>1, <1>a DEF SessionTypeOK
<1>8. ASSUME NEW id \in Id, CleanupLocks(id) \/ CleanupScans(id) \/ CleanupDeadlocks(id)
      PROVE  KeptInv'
  <2>1. /\ \E h \in {"free", "cleanup", "deadlock"} : holder' = [holder EXCEPT ![id] = h]
        /\ UNCHANGED <<sessions, mu>>
    BY <1>8 DEF CleanupLocks, CleanupScans, CleanupDeadlocks, managerVars, reaperVars
  <2> QED
    BY <2>1, <1>a DEF SessionTypeOK
<1>0. \/ UNCHANGED <<sessions, mu, holder>>
      \/ CleanupBegins \/ CleanupDeletes \/ CloseAllBegins \/ CloseAllEnds
      \/ \E u \in Uuid : CreateSession(u)
      \/ \E id \in Id : \/ DeleteSession(id) \/ GoCloses(id)
                        \/ CloseAllCloses(id) \/ CloseAllPanics(id) \/ CloseEnds(id)
                        \/ CleanupLocks(id) \/ CleanupScans(id) \/ CleanupDeadlocks(id)
  BY ZenonT(60) DEF Next, Tick, PostSession, PostSessionFails, StartupProbe, CleanupStops,
         ServerFails, Signal, MainReturns, SetStateIdle, KeepDefaultTimeout,
         SetSessionTimeout, SyncDefaultTimeout, FindSession, AdmitStatement, RejectStatement,
         SubmitStatement, FinishStatement, CancelStatement, vars, managerVars, reaperVars,
         sessionVars, closeVars
<1> QED
  BY <1>0, <1>1, <1>2, <1>3, <1>4, <1>5, <1>6, <1>7, <1>8

-----------------------------------------------------------------------------
\* Every reachable state of the registry satisfies RegistryInv.
THEOREM RegistryInvariant == Spec => []RegistryInv
<1>1. RegistryInv /\ [Next]_vars => RegistryInv'
  <2> SUFFICES ASSUME RegistryInv, [Next]_vars
               PROVE  RegistryInv'
    OBVIOUS
  <2>1. TypeOK' /\ Room'
    BY ManagerTypeStep, ReaperTypeStep, SessionTypeStep, CallTypeStep, PostTypeStep
       DEF RegistryInv, TypeOK
  <2>2. PostingInv' /\ SnapshotInv' /\ DeadIsClosed' /\ NoOrphan' /\ MarkedInv'
        /\ KeptInv'
    BY PostingStep, ClosedStep, MarkedStep, KeptStep DEF RegistryInv
  <2> QED
    BY <2>1, <2>2 DEF RegistryInv
<1> QED
  BY InitRegistryInv, <1>1, PTL DEF Spec

\* The registry's data are what TypeOK says; in particular ids stay within bounds,
\* and no statement, call or goroutine is counted down below zero.
THEOREM RegistryTypeCorrect == Spec => []TypeOK
<1>1. RegistryInv => TypeOK
  BY DEF RegistryInv
<1> QED
  BY RegistryInvariant, <1>1, PTL

\* An open client is in the map, or a Close of it has been started: neither the
\* cleanup nor the shutdown loses one.
THEOREM NothingIsOrphaned == Spec => []NoOrphan
<1>1. RegistryInv => NoOrphan
  BY DEF RegistryInv
<1> QED
  BY RegistryInvariant, <1>1, PTL

\* A session that is reported dead has closed its client, and one that is reported
\* shutting down has, or has a Close at work that keeps its lock.
THEOREM TerminatedIsClosed == Spec => []DeadIsClosed
<1>1. RegistryInv => DeadIsClosed
  BY DEF RegistryInv
<1> QED
  BY RegistryInvariant, <1>1, PTL

\* After the last CloseAll the map holds nothing but sessions that were registered
\* when it had given m.mu back.
ExitInv ==
  /\ settled <= nextID
  /\ phase \in {"leaving", "exited"} => \A id \in sessions : id >= settled

LEMMA ExitStep ==
  ASSUME TypeOK, ExitInv, [Next]_vars
  PROVE  ExitInv'
<1> USE DEF ExitInv
<1>a. /\ sessions \subseteq Id
      /\ nextID \in Int /\ settled \in Int
  BY DEF TypeOK, ManagerTypeOK
<1>1. CASE /\ UNCHANGED <<nextID, settled>>
           /\ sessions' \subseteq sessions
           /\ phase' \in {"leaving", "exited"} => phase \in {"leaving", "exited"}
  BY <1>1
<1>2. CASE CloseAllEnds
  BY <1>2, <1>a DEF CloseAllEnds, managerVars
<1>3. ASSUME NEW u \in Uuid, CreateSession(u)
      PROVE  ExitInv'
  <2>1. /\ sessions' = sessions \cup {nextID}
        /\ nextID' = nextID + 1
        /\ UNCHANGED <<phase, settled>>
    BY <1>3 DEF CreateSession, mainVars
  <2> QED
    BY <2>1, <1>a
<1>0. \/ /\ UNCHANGED <<nextID, settled>>
         /\ sessions' \subseteq sessions
         /\ phase' \in {"leaving", "exited"} => phase \in {"leaving", "exited"}
      \/ CloseAllEnds
      \/ \E u \in Uuid : CreateSession(u)
  <2>1. \/ UNCHANGED <<nextID, settled>> /\ sessions' \subseteq sessions
        \/ CloseAllEnds
        \/ \E u \in Uuid : CreateSession(u)
    BY ZenonT(60) DEF Next, Tick, PostSession, PostSessionFails, StartupProbe, CleanupBegins,
           CleanupDeletes, CleanupStops, ServerFails, Signal, CloseAllBegins, MainReturns,
           SetStateIdle, KeepDefaultTimeout, SetSessionTimeout, SyncDefaultTimeout,
           FindSession, AdmitStatement, RejectStatement, SubmitStatement, FinishStatement,
           CancelStatement, DeleteSession, GoCloses, CloseEnds, CleanupLocks, CleanupScans,
           CleanupDeadlocks, CloseAllCloses, CloseAllPanics, vars, managerVars, mainVars
  <2>2. \/ phase' \in {"leaving", "exited"} => phase \in {"leaving", "exited"}
        \/ CloseAllEnds
    BY ZenonT(60) DEF Next, Tick, PostSession, PostSessionFails, CreateSession, StartupProbe,
           CleanupBegins, CleanupDeletes, CleanupStops, ServerFails, Signal, CloseAllBegins,
           MainReturns, SetStateIdle, KeepDefaultTimeout, SetSessionTimeout,
           SyncDefaultTimeout, FindSession, AdmitStatement, RejectStatement, SubmitStatement,
           FinishStatement, CancelStatement, DeleteSession, GoCloses, CloseEnds, CleanupLocks,
           CleanupScans, CleanupDeadlocks, CloseAllCloses, CloseAllPanics, vars, mainVars
  <2> QED
    BY <2>1, <2>2
<1> QED
  BY <1>0, <1>1, <1>2, <1>3

\* When the process exits, a client that is still open and was registered before the
\* last CloseAll gave the map back has a Close that was started: a POST that outlasts
\* the shutdown is the only way to a session that nobody is closing.
THEOREM ExitLosesOnlyWhatIsStarted == Spec => []ExitLeavesOnlyStarted
<1>1. Init => ExitInv
  BY DEF Init, ExitInv
<1>2. RegistryInv /\ ExitInv /\ [Next]_vars => ExitInv'
  BY ExitStep DEF RegistryInv
<1>3. RegistryInv /\ ExitInv => ExitLeavesOnlyStarted
  <2> SUFFICES ASSUME RegistryInv, ExitInv, phase = "exited",
                      NEW id \in Id, open[id], id < settled
               PROVE  goCloses[id] > 0 \/ Closing(id)
    BY DEF ExitLeavesOnlyStarted
  <2>1. id \notin sessions
    <3>1. \A x \in sessions : x >= settled
      BY DEF ExitInv
    <3>2. settled \in Int
      BY DEF RegistryInv, TypeOK
    <3> QED
      BY <3>1, <3>2
  <2> QED
    BY <2>1 DEF RegistryInv, NoOrphan
<1> QED
  BY RegistryInvariant, <1>1, <1>2, <1>3, PTL DEF Spec

\* The cleanup removes only what was past its timeout, its own or else the default,
\* when the cleanup began, or was used since.
THEOREM OnlyDueSessionsAreRemoved == Spec => RemovedWasDue
<1>1. RegistryInv /\ [Next]_vars =>
        [mu = "cleanup" =>
           \A id \in sessions \ sessions' : lastActivity[id] >= now \/ Due(id)]_vars
  <2> SUFFICES ASSUME RegistryInv, [Next]_vars, mu = "cleanup", NEW id \in sessions \ sessions'
               PROVE  lastActivity[id] >= now \/ Due(id)
    OBVIOUS
  <2>1. CASE CleanupDeletes
    BY <2>1 DEF CleanupDeletes, RegistryInv, MarkedInv, UsedOrDue
  \* Only CloseAll takes sessions out of the map beside the cleanup.
  <2>2. CASE \E x \in Id : CloseEnds(x)
    BY <2>2 DEF CloseEnds, RegistryInv, KeptInv
  <2>0. CleanupDeletes \/ \E x \in Id : CloseEnds(x)
    BY ZenonT(60) DEF Next, Tick, PostSession, PostSessionFails, CreateSession, StartupProbe,
           CleanupBegins, CleanupStops, ServerFails, Signal, CloseAllBegins, CloseAllEnds,
           MainReturns, SetStateIdle, KeepDefaultTimeout, SetSessionTimeout,
           SyncDefaultTimeout, FindSession, AdmitStatement, RejectStatement, SubmitStatement,
           FinishStatement, CancelStatement, DeleteSession, GoCloses, CleanupLocks,
           CleanupScans, CleanupDeadlocks, CloseAllCloses, CloseAllPanics, vars, LockFree,
           CloseAllAt, managerVars
  <2> QED
    BY <2>0, <2>1, <2>2
<1> QED
  BY RegistryInvariant, <1>1, PTL DEF Spec, RemovedWasDue

-----------------------------------------------------------------------------
(* Every session of the registry keeps SessionContract.  What this needs   *)
(* beyond RegistryInv is KnownInv: nobody holds, closes, locks or runs     *)
(* anything for a session that has not been created.                       *)

Called(id) == \E kind \in Calls : calls[<<kind, id>>] > 0

KnownInv ==
  /\ \A id \in Id : state[id] = "none" <=> id >= nextID
  /\ \A id \in sessions \cup toScan \cup toDelete : id < nextID
  /\ \A id \in Id : working[id] > 0 => id < nextID
  /\ \A id \in Id : goCloses[id] > 0 => id < nextID
  /\ \A id \in Id : holder[id] # "free" => id < nextID
  /\ \A id \in Id : Called(id) => id < nextID

LEMMA InitKnownInv == Init => KnownInv
<1> SUFFICES ASSUME Init PROVE KnownInv
  OBVIOUS
<1>1. ASSUME NEW id \in Id, Called(id)
      PROVE  FALSE
  <2>1. PICK kind \in Calls : calls[<<kind, id>>] > 0
    BY <1>1 DEF Called
  <2>2. calls[<<kind, id>>] = 0
    BY DEF Init
  <2> QED
    BY <2>1, <2>2
<1>2. \A id \in Id : state[id] = "none" /\ id >= nextID
  BY DEF Init
<1> QED
  BY <1>1, <1>2 DEF Init, KnownInv

\* What a handler has found is in the map, and stays known.
LEMMA CallsStep ==
  ASSUME CallTypeOK, [Next]_vars, NEW x \in Id, Called(x)'
  PROVE  Called(x) \/ x \in sessions
<1> USE DEF Called
<1>a. calls \in [Calls \X Id -> Nat]
  BY DEF CallTypeOK
<1>1. CASE UNCHANGED calls
  BY <1>1
<1>2. ASSUME NEW id \in Id, NEW kind \in Calls, CallBegins(kind, id)
      PROVE  Called(x) \/ x \in sessions
  <2>1. id \in sessions /\ calls' = [calls EXCEPT ![<<kind, id>>] = @ + 1]
    BY <1>2 DEF CallBegins
  <2>2. \A k \in Calls : x # id => calls'[<<k, x>>] = calls[<<k, x>>]
    BY <2>1, <1>a
  <2> QED
    BY <2>1, <2>2
<1>3. ASSUME NEW id \in Id, NEW kind \in Calls, CallEnds(kind, id)
      PROVE  Called(x) \/ x \in sessions
  <2>1. /\ calls[<<kind, id>>] > 0
        /\ calls' = [calls EXCEPT ![<<kind, id>>] = @ - 1]
    BY <1>3 DEF CallEnds
  <2>2. \A k \in Calls : x # id => calls'[<<k, x>>] = calls[<<k, x>>]
    BY <2>1, <1>a
  <2> QED
    BY <2>1, <2>2
<1>4. ASSUME NEW id \in Id, AdmitStatement(id)
      PROVE  Called(x) \/ x \in sessions
  <2> DEFINE looked == [calls EXCEPT ![<<"submit", id>>] = @ - 1]
  <2>1. "submit" \in Calls /\ calls[<<"submit", id>>] > 0
    BY <1>4 DEF AdmitStatement, Calls
  <2>2. \A k \in Calls : x # id => looked[<<k, x>>] = calls[<<k, x>>]
    BY <1>a
  <2>3. DOMAIN looked = Calls \X Id
    BY <1>a
  <2>4. calls' = [looked EXCEPT ![<<"admitted", id>>] = @ + 1]
    BY <1>4 DEF AdmitStatement
  <2> HIDE DEF looked
  <2>5. \A k \in Calls : x # id => calls'[<<k, x>>] = looked[<<k, x>>]
    BY <2>3, <2>4
  <2> QED
    BY <2>1, <2>2, <2>5
<1>0. \/ UNCHANGED calls
      \/ \E id \in Id : \/ \E kind \in Calls : CallBegins(kind, id) \/ CallEnds(kind, id)
                        \/ AdmitStatement(id)
  BY ZenonT(60) DEF Next, Tick, PostSession, PostSessionFails, CreateSession, StartupProbe,
         CleanupBegins, CleanupDeletes, CleanupStops, ServerFails, Signal, CloseAllBegins,
         CloseAllEnds, MainReturns, SetStateIdle, KeepDefaultTimeout, SetSessionTimeout,
         SyncDefaultTimeout, FindSession, RejectStatement, SubmitStatement, FinishStatement,
         CancelStatement, DeleteSession, GoCloses, CloseEnds, CleanupLocks, CleanupScans,
         CleanupDeadlocks, CloseAllCloses, CloseAllPanics, vars, Calls, callVars
<1> QED
  BY <1>0, <1>1, <1>2, <1>3, <1>4

\* A step of a Close makes no session that is not there, and changes this one only.
LEMMA CloseKeepsKnown ==
  ASSUME SessionTypeOK, NEW id \in Id, state[id] # "none", CloseStep(id)
  PROVE  \A x \in Id : state'[x] = "none" <=> state[x] = "none"
<1>1. \/ UNCHANGED state
      \/ state' = [state EXCEPT ![id] = "shutting_down"]
  BY DEF CloseStep, CloseReturns, CloseSession, ClosePanics, closeVars
<1> QED
  BY <1>1 DEF SessionTypeOK

\* Nor does it touch another session's lock.
LEMMA CloseKeepsOtherLocks ==
  ASSUME SessionTypeOK, NEW id \in Id, CloseStep(id)
  PROVE  \A x \in Id \ {id} : holder'[x] = holder[x]
<1>1. UNCHANGED holder \/ \E who \in Closers : holder' = [holder EXCEPT ![id] = who]
  BY DEF CloseStep, CloseReturns, CloseSession, ClosePanics, closeVars
<1> QED
  BY <1>1 DEF SessionTypeOK

\* Where a Close comes from: a handler, a goroutine, or CloseAll.
LEMMA CloseCallers ==
  ASSUME NEW id \in Id,
         DeleteSession(id) \/ GoCloses(id) \/ CloseAllCloses(id) \/ CloseAllPanics(id)
  PROVE  /\ CloseStep(id)
         /\ Called(id) \/ goCloses[id] > 0 \/ id \in sessions
         /\ UNCHANGED <<nextID, posting, working, uuid, timeout>>
  BY DEF DeleteSession, GoCloses, CloseAllCloses, CloseAllPanics, CloseAllAt, CallEnds, CloseStep,
         Closers, Called, Calls, managerVars, postVars

LEMMA KnownStep ==
  ASSUME TypeOK, Room, PostingInv, KnownInv, [Next]_vars
  PROVE  KnownInv'
<1>a. /\ SessionTypeOK /\ CallTypeOK
      /\ goCloses \in [Id -> Nat]
      /\ sessions \subseteq Id /\ toScan \subseteq Id /\ toDelete \subseteq Id
      /\ nextID \in Int
      /\ creating > 0 => nextID \in Id
  BY DEF TypeOK, CallTypeOK, PostTypeOK, ManagerTypeOK, ReaperTypeOK, Room
<1>1. \/ nextID' = nextID
      \/ nextID' = nextID + 1 /\ \E u \in Uuid : CreateSession(u)
  BY ZenonT(60) DEF Next, Tick, PostSession, PostSessionFails, CreateSession, StartupProbe,
         CleanupBegins, CleanupDeletes, CleanupStops, ServerFails, Signal, CloseAllBegins,
         CloseAllEnds, MainReturns, SetStateIdle, KeepDefaultTimeout, SetSessionTimeout,
         SyncDefaultTimeout, FindSession, AdmitStatement, RejectStatement, SubmitStatement,
         FinishStatement, CancelStatement, DeleteSession, GoCloses, CloseEnds, CleanupLocks,
         CleanupScans, CleanupDeadlocks, CloseAllCloses, CloseAllPanics, vars, managerVars
<1>b. \A x \in Id : x < nextID => x < nextID'
  BY <1>1, <1>a
<1>2. \A x \in Id : state'[x] = "none" <=> x >= nextID'
  <2> DEFINE Same == \A x \in Id : state'[x] = "none" <=> state[x] = "none"
  <2>a. \A x \in Id : state[x] = "none" <=> x >= nextID
    BY DEF KnownInv
  <2>1. CASE UNCHANGED <<state, nextID>>
    BY <2>1, <2>a
  <2>2. ASSUME NEW u \in Uuid, CreateSession(u)
        PROVE  \A x \in Id : state'[x] = "none" <=> x >= nextID'
    <3>1. /\ nextID \in Id
          /\ nextID' = nextID + 1
          /\ state' = [state EXCEPT ![nextID] = "starting"]
      BY <2>2, <1>a DEF CreateSession
    <3> SUFFICES ASSUME NEW x \in Id
                 PROVE  state'[x] = "none" <=> x >= nextID'
      OBVIOUS
    <3>2. state'[x] = (IF x = nextID THEN "starting" ELSE state[x])
      BY <3>1, <1>a DEF SessionTypeOK
    <3>3. state[x] = "none" <=> x >= nextID
      BY <2>a
    <3>4. CASE x = nextID
      BY <3>1, <3>2, <3>4
    <3>5. CASE x # nextID
      BY <3>1, <3>2, <3>3, <3>5
    <3> QED
      BY <3>4, <3>5
  <2>3. ASSUME NEW id \in Id, SetStateIdle(id) \/ SubmitStatement(id) \/ CloseEnds(id)
        PROVE  Same /\ UNCHANGED nextID
    <3>1. /\ posting[id] = "registered" \/ Called(id) \/ holder[id] # "free"
          /\ \E s \in {"idle", "busy", "dead"} : state' = [state EXCEPT ![id] = s]
          /\ UNCHANGED nextID
      BY <2>3 DEF SetStateIdle, SubmitStatement, CloseEnds, CallEnds, Called, Calls, Closers,
                  managerVars
    <3>2. id < nextID
      BY <3>1, <1>a DEF KnownInv, PostingInv
    <3>3. state[id] # "none"
      BY <3>2, <2>a, <1>a
    <3> QED
      BY <3>1, <3>3, <1>a DEF SessionTypeOK
  <2>4. ASSUME NEW id \in Id, FinishStatement(id) \/ CancelStatement(id)
        PROVE  Same /\ UNCHANGED nextID
    <3>1. /\ \/ UNCHANGED state
             \/ working[id] > 0 /\ state' = [state EXCEPT ![id] = StateAfterStatement(id)]
          /\ UNCHANGED nextID
      BY <2>4 DEF FinishStatement, CancelStatement, managerVars
    <3>2. CASE UNCHANGED state
      BY <3>1, <3>2
    <3>3. CASE working[id] > 0 /\ state' = [state EXCEPT ![id] = StateAfterStatement(id)]
      <4>1. id < nextID
        BY <3>3 DEF KnownInv
      <4>2. state[id] # "none"
        BY <4>1, <2>a, <1>a
      <4>3. StateAfterStatement(id) # "none"
        BY <4>2 DEF StateAfterStatement
      <4> QED
        BY <3>1, <3>3, <4>2, <4>3, <1>a DEF SessionTypeOK
    <3> QED
      BY <3>1, <3>2, <3>3
  <2>5. ASSUME NEW id \in Id,
               DeleteSession(id) \/ GoCloses(id) \/ CloseAllCloses(id) \/ CloseAllPanics(id)
        PROVE  Same /\ UNCHANGED nextID
    <3>1. id < nextID
      BY <2>5, CloseCallers DEF KnownInv
    <3>2. state[id] # "none"
      BY <3>1, <2>a, <1>a
    <3> QED
      BY <2>5, <3>2, <1>a, CloseCallers, CloseKeepsKnown
  <2>0. \/ UNCHANGED <<state, nextID>>
        \/ \E u \in Uuid : CreateSession(u)
        \/ \E id \in Id : \/ SetStateIdle(id) \/ SubmitStatement(id) \/ CloseEnds(id)
                          \/ FinishStatement(id) \/ CancelStatement(id)
                          \/ DeleteSession(id) \/ GoCloses(id)
                          \/ CloseAllCloses(id) \/ CloseAllPanics(id)
    BY ZenonT(60) DEF Next, Tick, PostSession, PostSessionFails, StartupProbe, CleanupBegins,
           CleanupDeletes, CleanupStops, ServerFails, Signal, CloseAllBegins, CloseAllEnds,
           MainReturns, KeepDefaultTimeout, SetSessionTimeout, SyncDefaultTimeout,
           FindSession, AdmitStatement, RejectStatement, CleanupLocks, CleanupScans,
           CleanupDeadlocks, vars, managerVars, sessionVars, closeVars
  <2>6. CASE Same /\ UNCHANGED nextID
    BY <2>6, <2>a
  <2> HIDE DEF Same
  <2> QED
    BY <2>0, <2>1, <2>2, <2>3, <2>4, <2>5, <2>6
<1>3. \A x \in sessions' \cup toScan' \cup toDelete' : x < nextID'
  <2>a. \A x \in sessions \cup toScan \cup toDelete : x \in Id /\ x < nextID'
    BY <1>a, <1>b DEF KnownInv
  <2>1. ASSUME NEW u \in Uuid, CreateSession(u)
        PROVE  \A x \in sessions' \cup toScan' \cup toDelete' : x < nextID'
    <3>1. /\ nextID' = nextID + 1
          /\ sessions' = sessions \cup {nextID}
          /\ UNCHANGED <<toScan, toDelete>>
      BY <2>1 DEF CreateSession, reaperVars, roundVars
    <3>2. nextID < nextID'
      BY <3>1, <1>a
    <3> QED
      BY <3>1, <3>2, <2>a
  <2>2. CASE sessions' \cup toScan' \cup toDelete' \subseteq sessions \cup toScan \cup toDelete
    BY <2>2, <2>a
  <2>3. ASSUME NEW id \in Id, CleanupScans(id)
        PROVE  \A x \in sessions' \cup toScan' \cup toDelete' : x < nextID'
    <3>1. /\ id < nextID'
          /\ toDelete' \subseteq toDelete \cup {id}
          /\ toScan' \subseteq toScan
          /\ UNCHANGED sessions
      BY <2>3, <1>b DEF CleanupScans, KnownInv, managerVars
    <3> QED
      BY <3>1, <2>a
  <2>0. \/ sessions' \cup toScan' \cup toDelete' \subseteq sessions \cup toScan \cup toDelete
        \/ \E u \in Uuid : CreateSession(u)
        \/ \E id \in Id : CleanupScans(id)
    <3>1. \/ sessions' \subseteq sessions
          \/ \E u \in Uuid : CreateSession(u)
      BY ZenonT(60) DEF Next, Tick, PostSession, PostSessionFails, StartupProbe,
             CleanupBegins, CleanupDeletes, CleanupStops, ServerFails, Signal, CloseAllBegins,
             CloseAllEnds, MainReturns, SetStateIdle, KeepDefaultTimeout, SetSessionTimeout,
             SyncDefaultTimeout, FindSession, AdmitStatement, RejectStatement,
             SubmitStatement, FinishStatement, CancelStatement, DeleteSession, GoCloses,
             CloseEnds, CleanupLocks, CleanupScans, CleanupDeadlocks, CloseAllCloses,
             CloseAllPanics, vars, managerVars
    <3>2. \/ toScan' \subseteq toScan \cup sessions /\ toDelete' \subseteq toDelete
          \/ \E id \in Id : CleanupScans(id)
      BY ZenonT(60) DEF Next, Tick, PostSession, PostSessionFails, CreateSession,
             StartupProbe, CleanupBegins, CleanupDeletes, CleanupStops, ServerFails, Signal,
             CloseAllBegins, CloseAllEnds, MainReturns, SetStateIdle, KeepDefaultTimeout,
             SetSessionTimeout, SyncDefaultTimeout, FindSession, AdmitStatement,
             RejectStatement, SubmitStatement, FinishStatement, CancelStatement,
             DeleteSession, GoCloses, CloseEnds, CleanupLocks, CleanupDeadlocks,
             CloseAllCloses, CloseAllPanics, vars, reaperVars, roundVars
    <3> QED
      BY <3>1, <3>2
  <2> QED
    BY <2>0, <2>1, <2>2, <2>3
<1>4. \A x \in Id : working'[x] > 0 => x < nextID'
  <2>1. \A x \in Id : working'[x] > 0 => working[x] > 0 \/ Called(x)
    <3>1. \/ UNCHANGED working
          \/ \E id \in Id : /\ Called(id) \/ working[id] > 0
                            /\ \A y \in Id \ {id} : working'[y] = working[y]
      <4>1. ASSUME NEW id \in Id, SubmitStatement(id)
            PROVE  /\ Called(id)
                   /\ \A y \in Id \ {id} : working'[y] = working[y]
        BY <4>1, <1>a DEF SubmitStatement, CallEnds, Called, Calls, SessionTypeOK
      <4>2. ASSUME NEW id \in Id, FinishStatement(id) \/ CancelStatement(id)
            PROVE  \/ UNCHANGED working
                   \/ /\ working[id] > 0
                      /\ \A y \in Id \ {id} : working'[y] = working[y]
        BY <4>2, <1>a DEF FinishStatement, CancelStatement, SessionTypeOK
      <4>0. \/ UNCHANGED working
            \/ \E id \in Id : SubmitStatement(id) \/ FinishStatement(id) \/ CancelStatement(id)
        BY ZenonT(60) DEF Next, Tick, PostSession, PostSessionFails, CreateSession,
               StartupProbe, CleanupBegins, CleanupDeletes, CleanupStops, ServerFails, Signal,
               CloseAllBegins, CloseAllEnds, MainReturns, SetStateIdle, KeepDefaultTimeout,
               SetSessionTimeout, SyncDefaultTimeout, FindSession, AdmitStatement,
               RejectStatement, DeleteSession, GoCloses, CloseEnds, CleanupLocks,
               CleanupScans, CleanupDeadlocks, CloseAllCloses, CloseAllPanics, vars,
               sessionVars
      <4> QED
        BY <4>0, <4>1, <4>2
    <3> QED
      BY <3>1, <1>a DEF SessionTypeOK
  <2> QED
    BY <2>1, <1>b DEF KnownInv
<1>5. \A x \in Id : goCloses'[x] > 0 => x < nextID'
  <2>1. \A x \in Id : goCloses'[x] > 0 => goCloses[x] > 0 \/ working[x] > 0 \/ x \in toDelete
    <3>1. CASE UNCHANGED goCloses
      BY <3>1
    <3>2. CASE CleanupDeletes
      BY <3>2, <1>a DEF CleanupDeletes
    <3>3. ASSUME NEW id \in Id, FinishStatement(id) \/ GoCloses(id)
          PROVE  \A x \in Id : goCloses'[x] > 0 => goCloses[x] > 0 \/ working[x] > 0
      <4>1. /\ goCloses[id] > 0 \/ working[id] > 0
            /\ \/ UNCHANGED goCloses
               \/ goCloses' = [goCloses EXCEPT ![id] = @ + 1]
               \/ goCloses' = [goCloses EXCEPT ![id] = @ - 1]
        BY <3>3 DEF FinishStatement, GoCloses
      <4> QED
        BY <4>1, <1>a
    <3>0. \/ UNCHANGED goCloses
          \/ CleanupDeletes
          \/ \E id \in Id : FinishStatement(id) \/ GoCloses(id)
      BY ZenonT(60) DEF Next, Tick, PostSession, PostSessionFails, CreateSession,
             StartupProbe, CleanupBegins, CleanupStops, ServerFails, Signal, CloseAllBegins,
             CloseAllEnds, MainReturns, SetStateIdle, KeepDefaultTimeout, SetSessionTimeout,
             SyncDefaultTimeout, FindSession, AdmitStatement, RejectStatement,
             SubmitStatement, CancelStatement, DeleteSession, CloseEnds, CleanupLocks,
             CleanupScans, CleanupDeadlocks, CloseAllCloses, CloseAllPanics, vars, callVars
    <3> QED
      BY <3>0, <3>1, <3>2, <3>3
  <2> QED
    BY <2>1, <1>b DEF KnownInv
<1>6. \A x \in Id : holder'[x] # "free" => x < nextID'
  <2>1. \A x \in Id : holder'[x] # "free" =>
          \/ holder[x] # "free" \/ Called(x) \/ goCloses[x] > 0
          \/ x \in sessions \/ x \in toScan
    <3>1. CASE UNCHANGED holder
      BY <3>1
    <3>2. ASSUME NEW id \in Id,
                 \/ DeleteSession(id) \/ GoCloses(id) \/ CloseAllCloses(id) \/ CloseAllPanics(id)
                 \/ CleanupLocks(id) \/ CleanupScans(id) \/ CleanupDeadlocks(id) \/ CloseEnds(id)
          PROVE  /\ \/ holder[id] # "free" \/ Called(id) \/ goCloses[id] > 0
                    \/ id \in sessions \/ id \in toScan
                 /\ \A x \in Id \ {id} : holder'[x] = holder[x]
      <4>1. CASE DeleteSession(id) \/ GoCloses(id) \/ CloseAllCloses(id) \/ CloseAllPanics(id)
        BY <4>1, <1>a, CloseCallers, CloseKeepsOtherLocks
      <4>2. CASE CleanupLocks(id) \/ CleanupScans(id) \/ CleanupDeadlocks(id) \/ CloseEnds(id)
        BY <4>2, <1>a DEF CleanupLocks, CleanupScans, CleanupDeadlocks, CloseEnds, Closers,
                          SessionTypeOK
      <4> QED
        BY <3>2, <4>1, <4>2
    <3>0. \/ UNCHANGED holder
          \/ \E id \in Id :
               \/ DeleteSession(id) \/ GoCloses(id) \/ CloseAllCloses(id) \/ CloseAllPanics(id)
               \/ CleanupLocks(id) \/ CleanupScans(id) \/ CleanupDeadlocks(id) \/ CloseEnds(id)
      BY ZenonT(60) DEF Next, Tick, PostSession, PostSessionFails, CreateSession,
             StartupProbe, CleanupBegins, CleanupDeletes, CleanupStops, ServerFails, Signal,
             CloseAllBegins, CloseAllEnds, MainReturns, SetStateIdle, KeepDefaultTimeout,
             SetSessionTimeout, SyncDefaultTimeout, FindSession, AdmitStatement,
             RejectStatement, SubmitStatement, FinishStatement, CancelStatement, vars,
             sessionVars, closeVars
    <3> QED
      BY <3>0, <3>1, <3>2
  <2> QED
    BY <2>1, <1>b DEF KnownInv
<1>7. \A x \in Id : Called(x)' => x < nextID'
  BY CallsStep, <1>a, <1>b DEF KnownInv
<1> QED
  BY <1>2, <1>3, <1>4, <1>5, <1>6, <1>7 DEF KnownInv

\* The five things the contract speaks of, for one session.
ContractUnchanged(x) ==
  /\ state'[x] = state[x] /\ open'[x] = open[x]
  /\ holder'[x] \in Closers <=> holder[x] \in Closers
  /\ working'[x] = working[x]
  /\ posting'[x] \in {"none", "registered"} <=> posting[x] \in {"none", "registered"}

LEMMA UnchangedIsContractual ==
  ASSUME NEW x \in Id, ContractUnchanged(x)
  PROVE  [Contract(x)!Next]_(Contract(x)!contractVars)
<1>2. Closing(x)' = Closing(x)
  BY DEF ContractUnchanged, Closing
<1>3. (posting[x] \notin {"none", "registered"})' = (posting[x] \notin {"none", "registered"})
  BY DEF ContractUnchanged
<1> QED
  BY <1>2, <1>3 DEF ContractUnchanged, Contract!contractVars

\* The session is there, and nobody keeps its lock to close it.
LEMMA FreeExists ==
  ASSUME NEW id \in Id, SessionFree(id), state[id] # "none"
  PROVE  Contract(id)!Exists
  BY DEF SessionFree, Closing, Closers, Contract!Exists

\* A step of a Close is one of the contract's, or nothing.
LEMMA CloseIsContractual ==
  ASSUME SessionTypeOK, NEW id \in Id, state[id] # "none", CloseStep(id),
         UNCHANGED <<working, posting>>, NEW x \in Id
  PROVE  [Contract(x)!Next]_(Contract(x)!contractVars)
<1> USE DEF SessionTypeOK
<1>1. CASE x # id \/ CloseReturns(id)
  BY <1>1, UnchangedIsContractual DEF CloseStep, CloseReturns, CloseSession, ClosePanics,
                                      ContractUnchanged, closeVars
<1>2. ASSUME x = id, NEW who \in Closers, CloseSession(id, who)
      PROVE  [Contract(x)!Next]_(Contract(x)!contractVars)
  <2>1. ~Closing(id) /\ Closing(id)'
    BY <1>2 DEF CloseSession, SessionFree, Closing, Closers
  <2>2. Contract(id)!Exists
    BY <1>2, FreeExists DEF CloseSession
  <2>3. state[id] \notin {"dead", "shutting_down"} /\ open[id]
    BY <1>2 DEF CloseSession, Closed
  <2>4. state'[id] = "shutting_down" /\ open'[id] = open[id]
    BY <1>2 DEF CloseSession
  <2>5. Contract(id)!CloseBegins
    BY <2>1, <2>2, <2>3, <2>4 DEF Contract!CloseBegins, Contract!Terminated
  <2> QED
    BY <1>2, <2>5 DEF Contract!Next
<1>3. CASE x = id /\ ClosePanics(id)
  <2>1. Contract(id)!Exists
    BY <1>3, FreeExists DEF ClosePanics
  <2>2. state[id] \notin {"dead", "shutting_down"} /\ ~open[id]
    BY <1>3 DEF ClosePanics, Closed
  <2>3. state'[id] = "shutting_down" /\ UNCHANGED <<open, holder>>
    BY <1>3 DEF ClosePanics
  <2>4. Contract(id)!CloseAgain
    BY <2>1, <2>2, <2>3 DEF Contract!CloseAgain, Contract!Terminated, Closing
  <2> QED
    BY <1>3, <2>4 DEF Contract!Next
<1> QED
  BY <1>1, <1>2, <1>3 DEF CloseStep

LEMMA RegistryStepIsContractual ==
  ASSUME TypeOK, Room, PostingInv, KnownInv, [Next]_vars, NEW x \in Id
  PROVE  [Contract(x)!Next]_(Contract(x)!contractVars)
<1>a. /\ SessionTypeOK /\ PostTypeOK
      /\ \A id \in Id : id < nextID => state[id] # "none"
      /\ creating > 0 => nextID \in Id
  BY DEF TypeOK, KnownInv, ManagerTypeOK, PostTypeOK, Room
<1>1. CASE UNCHANGED <<state, open, holder, working, posting>>
  BY <1>1, UnchangedIsContractual DEF ContractUnchanged
<1>2. ASSUME NEW u \in Uuid, CreateSession(u)
      PROVE  [Contract(x)!Next]_(Contract(x)!contractVars)
  <2>1. /\ nextID \in Id
        /\ posting' = [posting EXCEPT ![nextID] = "registered"]
        /\ state' = [state EXCEPT ![nextID] = "starting"]
        /\ open' = [open EXCEPT ![nextID] = TRUE]
        /\ UNCHANGED <<holder, working>>
    BY <1>2, <1>a DEF CreateSession
  <2>2. CASE x # nextID
    BY <2>1, <2>2, <1>a, UnchangedIsContractual DEF ContractUnchanged, SessionTypeOK, PostTypeOK
  <2>3. CASE x = nextID
    <3>1. state[x] = "none" /\ posting[x] = "none"
      BY <2>1, <2>3 DEF KnownInv, PostingInv, TypeOK, ManagerTypeOK
    <3>2. Contract(x)!Create
      BY <2>1, <2>3, <3>1, <1>a DEF Contract!Create, Closing, SessionTypeOK, PostTypeOK
    <3> QED
      BY <3>2 DEF Contract!Next
  <2> QED
    BY <2>2, <2>3
<1>3. ASSUME NEW id \in Id, SetStateIdle(id)
      PROVE  [Contract(x)!Next]_(Contract(x)!contractVars)
  <2>1. /\ posting[id] = "registered"
        /\ posting' = [posting EXCEPT ![id] = "idle"]
        /\ state' = [state EXCEPT ![id] = "idle"]
        /\ UNCHANGED <<open, holder, working>>
    BY <1>3 DEF SetStateIdle
  <2>2. CASE x # id
    BY <2>1, <2>2, <1>a, UnchangedIsContractual DEF ContractUnchanged, SessionTypeOK, PostTypeOK
  <2>3. CASE x = id
    <3>1. state[x] # "none"
      BY <2>1, <2>3, <1>a DEF PostingInv, TypeOK, ManagerTypeOK
    <3>2. Contract(x)!Exists
      BY <1>3, <2>3, <3>1, FreeExists DEF SetStateIdle
    <3>3. Contract(x)!Publish
      BY <2>1, <2>3, <3>2, <1>a DEF Contract!Publish, Closing, SessionTypeOK, PostTypeOK
    <3> QED
      BY <3>3 DEF Contract!Next
  <2> QED
    BY <2>2, <2>3
<1>4. ASSUME NEW id \in Id,
             \/ KeepDefaultTimeout(id) \/ SyncDefaultTimeout(id)
             \/ \E r \in RemoteTimeouts : SetSessionTimeout(id, r)
      PROVE  [Contract(x)!Next]_(Contract(x)!contractVars)
  \* The session is published since SetStateIdle.
  <2>1. /\ posting[id] \notin {"none", "registered"}
        /\ posting'[id] \notin {"none", "registered"}
        /\ \A y \in Id \ {id} : posting'[y] = posting[y]
        /\ UNCHANGED <<state, open, holder, working>>
    BY <1>4, <1>a DEF KeepDefaultTimeout, SyncDefaultTimeout, SetSessionTimeout, sessionVars,
                      closeVars, PostTypeOK
  <2> QED
    BY <2>1, UnchangedIsContractual DEF ContractUnchanged
<1>5. ASSUME NEW id \in Id, SubmitStatement(id)
      PROVE  [Contract(x)!Next]_(Contract(x)!contractVars)
  <2>1. /\ Called(id)
        /\ working' = [working EXCEPT ![id] = @ + 1]
        /\ state' = [state EXCEPT ![id] = "busy"]
        /\ UNCHANGED <<open, holder, posting>>
    BY <1>5 DEF SubmitStatement, CallEnds, Called, Calls, postVars
  <2>2. CASE x # id
    BY <2>1, <2>2, <1>a, UnchangedIsContractual DEF ContractUnchanged, SessionTypeOK
  <2>3. CASE x = id
    <3>1. state[id] # "none"
      BY <2>1, <1>a DEF KnownInv
    <3>2. Contract(x)!Exists
      BY <1>5, <2>3, <3>1, FreeExists DEF SubmitStatement
    <3>3. Contract(x)!Submit
      BY <2>1, <2>3, <3>2, <1>a DEF Contract!Submit, Closing, SessionTypeOK
    <3> QED
      BY <3>3 DEF Contract!Next
  <2> QED
    BY <2>2, <2>3
<1>6. ASSUME NEW id \in Id, FinishStatement(id) \/ CancelStatement(id)
      PROVE  [Contract(x)!Next]_(Contract(x)!contractVars)
  <2>1. /\ \/ UNCHANGED <<working, state>>
           \/ /\ working[id] > 0
              /\ working' = [working EXCEPT ![id] = @ - 1]
              /\ state' = [state EXCEPT ![id] = StateAfterStatement(id)]
        /\ SessionFree(id)
        /\ UNCHANGED <<open, holder, posting>>
    BY <1>6 DEF FinishStatement, CancelStatement, postVars
  <2>2. CASE x # id \/ UNCHANGED <<working, state>>
    BY <2>1, <2>2, <1>a, UnchangedIsContractual DEF ContractUnchanged, SessionTypeOK
  <2>3. CASE /\ x = id
             /\ working[id] > 0
             /\ working' = [working EXCEPT ![id] = @ - 1]
             /\ state' = [state EXCEPT ![id] = StateAfterStatement(id)]
    <3>1. state[id] # "none"
      BY <2>3, <1>a DEF KnownInv
    <3>2. Contract(x)!Exists
      BY <2>1, <2>3, <3>1, FreeExists
    <3>3. Contract(x)!EndStatement
      BY <2>1, <2>3, <3>2, <1>a DEF Contract!EndStatement, StateAfterStatement, Closing,
                                    SessionTypeOK
    <3> QED
      BY <3>3 DEF Contract!Next
  <2> QED
    BY <2>1, <2>2, <2>3
<1>7. ASSUME NEW id \in Id,
             DeleteSession(id) \/ GoCloses(id) \/ CloseAllCloses(id) \/ CloseAllPanics(id)
      PROVE  [Contract(x)!Next]_(Contract(x)!contractVars)
  <2>1. id < nextID
    BY <1>7, CloseCallers DEF KnownInv
  <2> QED
    BY <1>7, <2>1, <1>a, CloseCallers, CloseIsContractual
<1>8. ASSUME NEW id \in Id, CloseEnds(id)
      PROVE  [Contract(x)!Next]_(Contract(x)!contractVars)
  <2>1. /\ holder[id] \in Closers
        /\ state' = [state EXCEPT ![id] = "dead"]
        /\ open' = [open EXCEPT ![id] = FALSE]
        /\ holder' = [holder EXCEPT ![id] = "free"]
        /\ UNCHANGED <<working, posting>>
    BY <1>8 DEF CloseEnds, postVars
  <2>2. CASE x # id
    BY <2>1, <2>2, <1>a, UnchangedIsContractual DEF ContractUnchanged, SessionTypeOK
  <2>3. CASE x = id
    <3>1. Contract(x)!CloseEnds
      BY <2>1, <2>3, <1>a DEF Contract!CloseEnds, Closing, Closers, SessionTypeOK
    <3> QED
      BY <3>1 DEF Contract!Next
  <2> QED
    BY <2>2, <2>3
<1>9. ASSUME NEW id \in Id, CleanupLocks(id) \/ CleanupScans(id) \/ CleanupDeadlocks(id)
      PROVE  [Contract(x)!Next]_(Contract(x)!contractVars)
  <2>1. /\ holder'[x] \in Closers <=> holder[x] \in Closers
        /\ UNCHANGED <<state, open, working, posting>>
    BY <1>9, <1>a DEF CleanupLocks, CleanupScans, CleanupDeadlocks, SessionFree, SessionTypeOK,
                      Closers, postVars
  <2> QED
    BY <2>1, UnchangedIsContractual DEF ContractUnchanged
<1>0. \/ UNCHANGED <<state, open, holder, working, posting>>
      \/ \E u \in Uuid : CreateSession(u)
      \/ \E id \in Id : \/ SetStateIdle(id)
                        \/ KeepDefaultTimeout(id) \/ SyncDefaultTimeout(id)
                        \/ \E r \in RemoteTimeouts : SetSessionTimeout(id, r)
                        \/ SubmitStatement(id) \/ FinishStatement(id) \/ CancelStatement(id)
                        \/ DeleteSession(id) \/ GoCloses(id) \/ CloseEnds(id)
                        \/ CloseAllCloses(id) \/ CloseAllPanics(id)
                        \/ CleanupLocks(id) \/ CleanupScans(id) \/ CleanupDeadlocks(id)
  BY ZenonT(60) DEF Next, Tick, PostSession, PostSessionFails, StartupProbe, CleanupBegins,
         CleanupDeletes, CleanupStops, ServerFails, Signal, CloseAllBegins, CloseAllEnds,
         MainReturns, FindSession, AdmitStatement, RejectStatement, vars, sessionVars,
         closeVars, postVars
<1> QED
  BY <1>0, <1>1, <1>2, <1>3, <1>4, <1>5, <1>6, <1>7, <1>8, <1>9

\* Nothing is done for a session that does not exist.
THEOREM KnownInvariant == Spec => []KnownInv
<1>1. RegistryInv /\ KnownInv /\ [Next]_vars => KnownInv'
  BY KnownStep DEF RegistryInv
<1> QED
  BY InitKnownInv, RegistryInvariant, <1>1, PTL DEF Spec

\* Whatever handlers, goroutines, cleanup and shutdown do to a session, it keeps
\* the contract that module Session keeps too.
THEOREM RegistryKeepsContract == Spec => SessionsKeepContract
<1> DEFINE Kept == \A id \in Id : [Contract(id)!Next]_(Contract(id)!contractVars)
<1>1. Init => \A id \in Id : Contract(id)!Init
  BY DEF Init, Contract!Init, Closing, Closers
<1>2. RegistryInv /\ KnownInv /\ [Next]_vars => [Kept]_vars
  BY RegistryStepIsContractual DEF RegistryInv
<1>3. Spec => [][Kept]_vars
  BY RegistryInvariant, KnownInvariant, <1>2, PTL DEF Spec
<1> QED
  BY <1>1, <1>3 DEF Spec, SessionsKeepContract
=============================================================================
