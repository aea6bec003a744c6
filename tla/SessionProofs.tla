----------------------------- MODULE SessionProofs -----------------------------
(***************************************************************************)
(* Session's invariants, its action property and its refinement, for any   *)
(* number of statements.                                                   *)
(*                                                                         *)
(* None of the properties is inductive by itself.  SessionInv adds what    *)
(* they rest on: which statements exist (Numbering), what the position of  *)
(* a worker says about its statement (WorkerInv), and what the lock and    *)
(* closeCh say about the client (CloseInv).                                *)
(***************************************************************************)
EXTENDS Session, FiniteSetTheorems, TLAPS

Numbering ==
  /\ numStatements + admitted <= MaxStatements
  /\ \A i \in StmtId : /\ stmtState[i] # "none" <=> i < numStatements
                       /\ worker[i] # "none" <=> i < numStatements

WorkerInv ==
  \A i \in StmtId :
    /\ worker[i] = "spawned" => stmtState[i] \in {"waiting", "cancelled"}
    /\ worker[i] \in {"executing", "returned"} =>
         /\ stmtState[i] \in {"running", "cancelled"}
         /\ cancelFunc[i]
         /\ stmtState[i] = "cancelled" => ctxDone[i]
    /\ worker[i] = "returned" => result[i] \in Results
    /\ worker[i] = "done" => stmtState[i] \in {"available", "error", "cancelled"}

CloseInv ==
  /\ mu # "free" => closeCh = "closed" /\ clientCloses = 0 /\ sessState = "shutting_down"
  /\ mu = "free" /\ closeCh = "closed" => clientCloses = 1
  /\ closeCh = "open" => clientCloses = 0 /\ mu = "free" /\ sessState \notin Closed

SessionInv ==
  /\ TypeOK
  /\ Numbering
  /\ WorkerInv
  /\ BusyHasWork
  /\ CloseInv
  /\ QuietWhenIdle

USE SessionAssumption DEF SessionStates, StatementStates, Results, CloseKinds, StmtId

-----------------------------------------------------------------------------
\* The initial state satisfies the invariant.
LEMMA InitSessionInv == Init => SessionInv
<1> SUFFICES ASSUME Init PROVE SessionInv
  OBVIOUS
<1>1. TypeOK
  <2>1. /\ stmtState \in [StmtId -> StatementStates \cup {"none"}]
        /\ stmtOutput \in [StmtId -> {"none", "ok", "error", "cancelled"}]
        /\ worker \in [StmtId -> {"none", "spawned", "executing", "returned", "done"}]
        /\ result \in [StmtId -> Results \cup {"none"}]
    BY DEF Init
  <2>2. /\ completed \in [StmtId -> BOOLEAN]
        /\ cancelFunc \in [StmtId -> BOOLEAN]
        /\ ctxDone \in [StmtId -> BOOLEAN]
    BY Zenon DEF Init
  <2>3. numStatements \in 0 .. MaxStatements /\ admitted \in 0 .. MaxStatements
    BY DEF Init
  <2> QED
    BY <2>1, <2>2, <2>3 DEF Init, TypeOK
<1>2. Numbering /\ WorkerInv
  BY DEF Init, Numbering, WorkerInv
<1>3. BusyHasWork /\ CloseInv /\ QuietWhenIdle
  BY DEF Init, BusyHasWork, CloseInv, QuietWhenIdle, Closed
<1> QED
  BY <1>1, <1>2, <1>3 DEF SessionInv

\* A statement that is submitted gets an id of StmtId: there is still room for
\* the submissions that were admitted.
LEMMA SubmissionHasRoom ==
  ASSUME TypeOK, Numbering, SubmitStatement
  PROVE  numStatements \in StmtId /\ stmtState[numStatements] = "none"
  BY DEF TypeOK, Numbering, SubmitStatement

\* What UpdateBusyState can answer.
LEMMA UpdateBusyStateFacts ==
  ASSUME TypeOK, NEW states \in [StmtId -> StatementStates \cup {"none"}]
  PROVE  /\ UpdateBusyState(states) \in SessionStates
         /\ sessState # "busy" => UpdateBusyState(states) = sessState
         /\ sessState = "busy" => UpdateBusyState(states) \in {"busy", "idle"}
         /\ UpdateBusyState(states) = "busy" => \E i \in StmtId : states[i] \in Unfinished
         /\ UpdateBusyState(states) = "idle" =>
              sessState = "idle" \/ \A i \in StmtId : states[i] \notin Unfinished
  BY DEF UpdateBusyState, TypeOK

-----------------------------------------------------------------------------
(* The steps, one part of the invariant at a time.                         *)

LEMMA TypeOKStep ==
  ASSUME TypeOK, Numbering, WorkerInv, [Next]_vars
  PROVE  TypeOK'
<1> USE DEF TypeOK
<1>1. CASE SetStateIdle
  BY <1>1 DEF SetStateIdle, stmtVars, workerVars, closeVars
<1>2. CASE AdmitStatement
  BY <1>2 DEF AdmitStatement, stmtVars, workerVars, closeVars
<1>3. CASE RejectStatement
  BY <1>3 DEF RejectStatement, stmtVars, workerVars, closeVars
<1>4. CASE SubmitStatement
  BY <1>4, SubmissionHasRoom DEF SubmitStatement, Numbering, closeVars
<1>5. CASE Evict
  <2>1. goCloses' \in Nat
    BY <1>5 DEF Evict
  <2> QED
    BY <1>5, <2>1 DEF Evict, stmtVars, workerVars
<1>6. CASE CloseEnds
  BY <1>6 DEF CloseEnds, stmtVars, workerVars, apiVars
<1>7. ASSUME NEW i \in StmtId, CancelStatement(i)
      PROVE  TypeOK'
  <2>1. stmtState' \in [StmtId -> StatementStates \cup {"none"}]
    BY <1>7 DEF CancelStatement
  <2> QED
    BY <1>7, <2>1, UpdateBusyStateFacts DEF CancelStatement, closeVars, apiVars
<1>8. ASSUME NEW i \in StmtId, BeginStatement(i)
      PROVE  TypeOK'
  <2>1. CASE SkipCancelled(i)
    BY <1>8, <2>1 DEF BeginStatement, SkipCancelled, closeVars, apiVars
  <2>2. CASE StartRunning(i)
    <3>1. stmtState' \in [StmtId -> StatementStates \cup {"none"}]
      BY <2>2 DEF StartRunning
    <3>2. /\ worker' \in [StmtId -> {"none", "spawned", "executing", "returned", "done"}]
          /\ cancelFunc' \in [StmtId -> BOOLEAN]
      BY <2>2 DEF StartRunning
    <3>3. UNCHANGED <<sessState, numStatements, stmtOutput, completed, result, ctxDone,
                      closeVars, apiVars>>
      BY <1>8, <2>2 DEF BeginStatement, StartRunning
    <3> QED
      BY <3>1, <3>2, <3>3 DEF closeVars, apiVars
  <2> QED
    BY <1>8, <2>1, <2>2 DEF BeginStatement
<1>9. ASSUME NEW i \in StmtId, CloseListener(i)
      PROVE  TypeOK'
  BY <1>9 DEF CloseListener, stmtVars, closeVars, apiVars
<1>10. ASSUME NEW i \in StmtId, ExecuteSQLReturns(i)
       PROVE  TypeOK'
  BY <1>10 DEF ExecuteSQLReturns, stmtVars, closeVars, apiVars
<1>11. ASSUME NEW i \in StmtId, FinishStatement(i)
       PROVE  TypeOK'
  <2>1. /\ stmtState' \in [StmtId -> StatementStates \cup {"none"}]
        /\ stmtOutput' \in [StmtId -> {"none", "ok", "error", "cancelled"}]
    BY <1>11 DEF FinishStatement, DropOutcome, RecordOutcome
  <2>2. goCloses' \in Nat
    BY <1>11 DEF FinishStatement, DropOutcome, RecordOutcome
  <2> QED
    BY <1>11, <2>1, <2>2, UpdateBusyStateFacts DEF FinishStatement, apiVars
<1>12. ASSUME NEW k \in CloseKinds, CloseReturns(k) \/ CloseBegins(k) \/ ClosePanics(k)
       PROVE  TypeOK'
  <2>1. goCloses' \in Nat
    BY <1>12 DEF CloseReturns, CloseBegins, ClosePanics, CloseCalled
  <2>2. crashed' \in BOOLEAN
    BY <1>12 DEF CloseReturns, CloseBegins, ClosePanics
  <2> QED
    BY <1>12, <2>1, <2>2 DEF CloseReturns, CloseBegins, ClosePanics, stmtVars, workerVars, apiVars
<1>13. CASE UNCHANGED vars
  BY <1>13 DEF vars, stmtVars, workerVars, closeVars, apiVars
<1> QED
  BY <1>1, <1>2, <1>3, <1>4, <1>5, <1>6, <1>7, <1>8, <1>9, <1>10, <1>11, <1>12, <1>13 DEF Next

LEMMA NumberingStep ==
  ASSUME TypeOK, Numbering, WorkerInv, [Next]_vars
  PROVE  Numbering'
<1> USE DEF TypeOK, Numbering
<1>1. CASE \/ SetStateIdle \/ AdmitStatement \/ RejectStatement \/ Evict \/ CloseEnds
  BY <1>1 DEF SetStateIdle, AdmitStatement, RejectStatement, Evict, CloseEnds, stmtVars, workerVars,
              apiVars
<1>2. CASE SubmitStatement
  <2>1. numStatements \in StmtId
    BY <1>2, SubmissionHasRoom
  <2>2. /\ numStatements' = numStatements + 1
        /\ admitted' = admitted - 1
    BY <1>2 DEF SubmitStatement
  <2>3. ASSUME NEW j \in StmtId
        PROVE  /\ stmtState'[j] # "none" <=> j < numStatements'
               /\ worker'[j] # "none" <=> j < numStatements'
    BY <1>2, <2>1, <2>2 DEF SubmitStatement
  <2> QED
    BY <2>2, <2>3
<1>3. ASSUME NEW i \in StmtId, CancelStatement(i)
      PROVE  Numbering'
  BY <1>3 DEF CancelStatement, Unfinished, apiVars
<1>4. ASSUME NEW i \in StmtId, BeginStatement(i)
      PROVE  Numbering'
  BY <1>4 DEF BeginStatement, SkipCancelled, StartRunning, apiVars
<1>5. ASSUME NEW i \in StmtId, CloseListener(i) \/ ExecuteSQLReturns(i)
      PROVE  Numbering'
  BY <1>5 DEF CloseListener, ExecuteSQLReturns, stmtVars, apiVars
<1>6. ASSUME NEW i \in StmtId, FinishStatement(i)
      PROVE  Numbering'
  BY <1>6 DEF FinishStatement, DropOutcome, RecordOutcome, apiVars
<1>7. ASSUME NEW k \in CloseKinds, CloseReturns(k) \/ CloseBegins(k) \/ ClosePanics(k)
      PROVE  Numbering'
  BY <1>7 DEF CloseReturns, CloseBegins, ClosePanics, stmtVars, workerVars, apiVars
<1>8. CASE UNCHANGED vars
  BY <1>8 DEF vars, stmtVars, workerVars, apiVars
<1> QED
  BY <1>1, <1>2, <1>3, <1>4, <1>5, <1>6, <1>7, <1>8 DEF Next

LEMMA WorkerInvStep ==
  ASSUME TypeOK, Numbering, WorkerInv, [Next]_vars
  PROVE  WorkerInv'
<1> USE DEF TypeOK, WorkerInv
<1>1. CASE \/ SetStateIdle \/ AdmitStatement \/ RejectStatement \/ Evict \/ CloseEnds
  BY <1>1 DEF SetStateIdle, AdmitStatement, RejectStatement, Evict, CloseEnds, stmtVars, workerVars
<1>2. CASE SubmitStatement
  BY <1>2, SubmissionHasRoom DEF SubmitStatement
<1>3. ASSUME NEW i \in StmtId, CancelStatement(i)
      PROVE  WorkerInv'
  \* An executing statement has its cancel function, so its context is done.
  BY <1>3 DEF CancelStatement, Unfinished
<1>4. ASSUME NEW i \in StmtId, BeginStatement(i)
      PROVE  WorkerInv'
  BY <1>4 DEF BeginStatement, SkipCancelled, StartRunning
<1>5. ASSUME NEW i \in StmtId, CloseListener(i)
      PROVE  WorkerInv'
  BY <1>5 DEF CloseListener, stmtVars
<1>6. ASSUME NEW i \in StmtId, ExecuteSQLReturns(i)
      PROVE  WorkerInv'
  BY <1>6 DEF ExecuteSQLReturns, stmtVars
<1>7. ASSUME NEW i \in StmtId, FinishStatement(i)
      PROVE  WorkerInv'
  BY <1>7 DEF FinishStatement, DropOutcome, RecordOutcome
<1>8. ASSUME NEW k \in CloseKinds, CloseReturns(k) \/ CloseBegins(k) \/ ClosePanics(k)
      PROVE  WorkerInv'
  BY <1>8 DEF CloseReturns, CloseBegins, ClosePanics, stmtVars, workerVars
<1>9. CASE UNCHANGED vars
  BY <1>9 DEF vars, stmtVars, workerVars
<1> QED
  BY <1>1, <1>2, <1>3, <1>4, <1>5, <1>6, <1>7, <1>8, <1>9 DEF Next

LEMMA BusyHasWorkStep ==
  ASSUME TypeOK, Numbering, WorkerInv, BusyHasWork, [Next]_vars
  PROVE  BusyHasWork'
<1> USE DEF TypeOK, BusyHasWork, Unfinished
<1>1. CASE \/ SetStateIdle \/ AdmitStatement \/ RejectStatement \/ Evict \/ CloseEnds
  BY <1>1 DEF SetStateIdle, AdmitStatement, RejectStatement, Evict, CloseEnds, stmtVars
<1>2. CASE SubmitStatement
  BY <1>2, SubmissionHasRoom DEF SubmitStatement
<1>3. ASSUME NEW i \in StmtId, CancelStatement(i)
      PROVE  BusyHasWork'
  <2>1. stmtState' \in [StmtId -> StatementStates \cup {"none"}]
    BY <1>3 DEF CancelStatement
  <2> QED
    BY <1>3, <2>1, UpdateBusyStateFacts DEF CancelStatement
<1>4. ASSUME NEW i \in StmtId, BeginStatement(i)
      PROVE  BusyHasWork'
  BY <1>4 DEF BeginStatement, SkipCancelled, StartRunning
<1>5. ASSUME NEW i \in StmtId, CloseListener(i) \/ ExecuteSQLReturns(i)
      PROVE  BusyHasWork'
  BY <1>5 DEF CloseListener, ExecuteSQLReturns, stmtVars
<1>6. ASSUME NEW i \in StmtId, FinishStatement(i)
      PROVE  BusyHasWork'
  <2>1. stmtState' \in [StmtId -> StatementStates \cup {"none"}]
    BY <1>6 DEF FinishStatement, DropOutcome, RecordOutcome
  <2> QED
    BY <1>6, <2>1, UpdateBusyStateFacts DEF FinishStatement
<1>7. ASSUME NEW k \in CloseKinds, CloseReturns(k) \/ CloseBegins(k) \/ ClosePanics(k)
      PROVE  BusyHasWork'
  BY <1>7 DEF CloseReturns, CloseBegins, ClosePanics, stmtVars
<1>8. CASE UNCHANGED vars
  BY <1>8 DEF vars, stmtVars
<1> QED
  BY <1>1, <1>2, <1>3, <1>4, <1>5, <1>6, <1>7, <1>8 DEF Next

LEMMA CloseInvStep ==
  ASSUME TypeOK, CloseInv, [Next]_vars
  PROVE  CloseInv'
<1> USE DEF CloseInv, Closed
<1>1. CASE \/ SetStateIdle \/ AdmitStatement \/ RejectStatement \/ SubmitStatement \/ Evict
  BY <1>1 DEF SetStateIdle, AdmitStatement, RejectStatement, SubmitStatement, Evict, LockFree, closeVars
<1>2. CASE CloseEnds
  BY <1>2 DEF CloseEnds, TypeOK
<1>3. ASSUME NEW i \in StmtId, CancelStatement(i)
      PROVE  CloseInv'
  BY <1>3 DEF CancelStatement, UpdateBusyState, LockFree, closeVars
<1>4. ASSUME NEW i \in StmtId,
             BeginStatement(i) \/ CloseListener(i) \/ ExecuteSQLReturns(i)
      PROVE  CloseInv'
  BY <1>4 DEF BeginStatement, CloseListener, ExecuteSQLReturns, closeVars
<1>5. ASSUME NEW i \in StmtId, FinishStatement(i)
      PROVE  CloseInv'
  BY <1>5 DEF FinishStatement, UpdateBusyState, LockFree
<1>6. ASSUME NEW k \in CloseKinds, CloseReturns(k) \/ CloseBegins(k) \/ ClosePanics(k)
      PROVE  CloseInv'
  BY <1>6 DEF CloseReturns, CloseBegins, ClosePanics, CloseCalled, LockFree, TypeOK
<1>7. CASE UNCHANGED vars
  BY <1>7 DEF vars, closeVars
<1> QED
  BY <1>1, <1>2, <1>3, <1>4, <1>5, <1>6, <1>7 DEF Next

LEMMA QuietWhenIdleStep ==
  ASSUME TypeOK, Numbering, WorkerInv, QuietWhenIdle, [Next]_vars
  PROVE  QuietWhenIdle'
<1> USE DEF TypeOK, QuietWhenIdle, Unfinished
<1>1. CASE SetStateIdle
  \* Whatever is unfinished now is early from now on.
  BY <1>1 DEF SetStateIdle, Numbering, stmtVars
<1>2. CASE AdmitStatement \/ RejectStatement \/ Evict
  BY <1>2 DEF AdmitStatement, RejectStatement, Evict, stmtVars, closeVars
<1>3. CASE SubmitStatement
  BY <1>3 DEF SubmitStatement
<1>4. CASE CloseEnds
  BY <1>4 DEF CloseEnds, stmtVars, apiVars
<1>5. ASSUME NEW i \in StmtId, CancelStatement(i)
      PROVE  QuietWhenIdle'
  <2>1. stmtState' \in [StmtId -> StatementStates \cup {"none"}]
    BY <1>5 DEF CancelStatement
  <2>2. sessState' = "idle" =>
          sessState = "idle" \/ \A j \in StmtId : stmtState'[j] \notin Unfinished
    BY <1>5, <2>1, UpdateBusyStateFacts DEF CancelStatement
  <2> QED
    BY <1>5, <2>2 DEF CancelStatement, apiVars
<1>6. ASSUME NEW i \in StmtId, BeginStatement(i)
      PROVE  QuietWhenIdle'
  BY <1>6 DEF BeginStatement, SkipCancelled, StartRunning, WorkerInv, apiVars
<1>7. ASSUME NEW i \in StmtId, CloseListener(i) \/ ExecuteSQLReturns(i)
      PROVE  QuietWhenIdle'
  BY <1>7 DEF CloseListener, ExecuteSQLReturns, stmtVars, apiVars
<1>8. ASSUME NEW i \in StmtId, FinishStatement(i)
      PROVE  QuietWhenIdle'
  <2>1. stmtState' \in [StmtId -> StatementStates \cup {"none"}]
    BY <1>8 DEF FinishStatement, DropOutcome, RecordOutcome
  <2>2. sessState' = "idle" =>
          sessState = "idle" \/ \A j \in StmtId : stmtState'[j] \notin Unfinished
    BY <1>8, <2>1, UpdateBusyStateFacts DEF FinishStatement
  <2>3. \A j \in StmtId : stmtState'[j] \in Unfinished => stmtState[j] \in Unfinished
    BY <1>8 DEF FinishStatement, DropOutcome, RecordOutcome
  <2> QED
    BY <1>8, <2>2, <2>3 DEF FinishStatement, apiVars
<1>9. ASSUME NEW k \in CloseKinds, CloseReturns(k) \/ CloseBegins(k) \/ ClosePanics(k)
      PROVE  QuietWhenIdle'
  BY <1>9 DEF CloseReturns, CloseBegins, ClosePanics, stmtVars, apiVars
<1>10. CASE UNCHANGED vars
  BY <1>10 DEF vars, stmtVars, apiVars
<1> QED
  BY <1>1, <1>2, <1>3, <1>4, <1>5, <1>6, <1>7, <1>8, <1>9, <1>10 DEF Next

-----------------------------------------------------------------------------
\* Every reachable state of the session satisfies SessionInv.
THEOREM SessionInvariant == Spec => []SessionInv
<1>1. SessionInv /\ [Next]_vars => SessionInv'
  BY TypeOKStep, NumberingStep, WorkerInvStep, BusyHasWorkStep, CloseInvStep, QuietWhenIdleStep
     DEF SessionInv
<1> QED
  BY InitSessionInv, <1>1, PTL DEF Spec

\* The session's data are what TypeOK says, whoever calls it and when.
THEOREM TypeCorrect == Spec => []TypeOK
<1>1. SessionInv => TypeOK
  BY DEF SessionInv
<1> QED
  BY SessionInvariant, <1>1, PTL

\* An idle session runs nothing but what was submitted before its POST made it
\* idle (updateBusyStateLocked).
THEOREM IdleIsQuiet == Spec => []QuietWhenIdle
<1>1. SessionInv => QuietWhenIdle
  BY DEF SessionInv
<1> QED
  BY SessionInvariant, <1>1, PTL

\* A busy session always has a statement that waits or runs, whoever calls it.
THEOREM BusyIsJustified == Spec => []BusyHasWork
<1>1. SessionInv => BusyHasWork
  BY DEF SessionInv
<1> QED
  BY SessionInvariant, <1>1, PTL

\* CancelStatement always reaches a worker that executes.
THEOREM CancelIsHeard == Spec => []CancelReachesContext
<1>1. SessionInv => CancelReachesContext
  BY DEF SessionInv, WorkerInv, CancelReachesContext
<1> QED
  BY SessionInvariant, <1>1, PTL

\* The Spark Connect client is closed at most once, and a dead session's has been.
THEOREM ClientReleasedOnce == Spec => []ReleasedExactlyOnce
<1>1. SessionInv => ReleasedExactlyOnce
  BY DEF SessionInv, TypeOK, CloseInv, ReleasedExactlyOnce, Closed
<1> QED
  BY SessionInvariant, <1>1, PTL

\* A finished statement keeps its state and its output for ever.
THEOREM FinishedStaysFinished == Spec => TerminalIsFinal
<1> DEFINE Fixed(i) == stmtState[i] \in StatementStates \ Unfinished =>
                         stmtState'[i] = stmtState[i] /\ stmtOutput'[i] = stmtOutput[i]
<1>1. SessionInv /\ [Next]_vars => [\A i \in StmtId : Fixed(i)]_vars
  <2> SUFFICES ASSUME SessionInv, [Next]_vars, NEW j \in StmtId
               PROVE  Fixed(j)
    OBVIOUS
  <2> USE DEF TypeOK, Unfinished
  <2>1. CASE UNCHANGED <<stmtState, stmtOutput>>
    BY <2>1
  <2>2. CASE SubmitStatement
    BY <2>2, SubmissionHasRoom DEF SubmitStatement, SessionInv
  <2>3. ASSUME NEW i \in StmtId, CancelStatement(i)
        PROVE  Fixed(j)
    BY <2>3 DEF CancelStatement, SessionInv
  <2>4. ASSUME NEW i \in StmtId, BeginStatement(i)
        PROVE  Fixed(j)
    \* A spawned worker's statement is waiting or cancelled.
    BY <2>4 DEF BeginStatement, SkipCancelled, StartRunning, SessionInv, WorkerInv
  <2>5. ASSUME NEW i \in StmtId, FinishStatement(i)
        PROVE  Fixed(j)
    \* A returned worker's statement is running or cancelled.
    BY <2>5 DEF FinishStatement, DropOutcome, RecordOutcome, SessionInv, WorkerInv
  <2>6. \/ UNCHANGED <<stmtState, stmtOutput>>
        \/ SubmitStatement
        \/ \E i \in StmtId : CancelStatement(i) \/ BeginStatement(i) \/ FinishStatement(i)
    BY DEF Next, SetStateIdle, AdmitStatement, RejectStatement, Evict, CloseEnds, CloseListener,
           ExecuteSQLReturns, CloseReturns, CloseBegins, ClosePanics, vars, stmtVars
  <2> QED
    BY <2>1, <2>2, <2>3, <2>4, <2>5, <2>6
<1> QED
  BY SessionInvariant, <1>1, PTL DEF Spec, TerminalIsFinal

-----------------------------------------------------------------------------
(* Session implements StatementLifecycle: the initial states agree and a   *)
(* step of the session is, for its statements, one lifecycle step or none. *)

LEMMA InitRefines == Init => Lifecycle!Init
  BY DEF Init, Lifecycle!Init

LEMMA StepRefines ==
  ASSUME SessionInv, [Next]_vars
  PROVE  [Lifecycle!Next]_(Lifecycle!lifecycleVars)
<1> USE DEF TypeOK, Lifecycle!lifecycleVars
<1> SUFFICES ASSUME ~UNCHANGED <<stmtState, stmtOutput>>
             PROVE  Lifecycle!Next
  OBVIOUS
<1>1. CASE SubmitStatement
  <2>1. numStatements \in StmtId /\ stmtState[numStatements] = "none"
    BY <1>1, SubmissionHasRoom DEF SessionInv
  <2>2. \A j \in StmtId : j < numStatements => stmtState[j] # "none"
    BY DEF SessionInv, Numbering
  <2>3. Lifecycle!Submit(numStatements)
    BY <1>1, <2>1, <2>2 DEF SubmitStatement, Lifecycle!Submit
  <2> QED
    BY <2>1, <2>3 DEF Lifecycle!Next
<1>2. ASSUME NEW i \in StmtId, CancelStatement(i)
      PROVE  Lifecycle!Next
  BY <1>2 DEF CancelStatement, Unfinished, Lifecycle!Cancel, Lifecycle!Next
<1>3. ASSUME NEW i \in StmtId, BeginStatement(i)
      PROVE  Lifecycle!Next
  <2>1. stmtState[i] = "waiting" /\ StartRunning(i) /\ UNCHANGED stmtOutput
    BY <1>3 DEF BeginStatement, SkipCancelled, StartRunning, SessionInv, WorkerInv
  <2> QED
    BY <2>1 DEF StartRunning, Lifecycle!Start, Lifecycle!Next
<1>4. ASSUME NEW i \in StmtId, FinishStatement(i)
      PROVE  Lifecycle!Next
  <2>1. stmtState[i] = "running" /\ RecordOutcome(i)
    BY <1>4 DEF FinishStatement, DropOutcome, RecordOutcome, SessionInv, WorkerInv
  <2>2. Lifecycle!Complete(i)
    BY <2>1 DEF RecordOutcome, Lifecycle!Complete
  <2> QED
    BY <2>2 DEF Lifecycle!Next
<1>5. \/ SubmitStatement
      \/ \E i \in StmtId : CancelStatement(i) \/ BeginStatement(i) \/ FinishStatement(i)
  BY DEF Next, SetStateIdle, AdmitStatement, RejectStatement, Evict, CloseEnds, CloseListener,
         ExecuteSQLReturns, CloseReturns, CloseBegins, ClosePanics, vars, stmtVars
<1> QED
  BY <1>1, <1>2, <1>3, <1>4, <1>5

\* Whatever the goroutines, the lock and the contexts do, a client that polls
\* the statements sees a behaviour of StatementLifecycle.
THEOREM SessionRefinesLifecycle == Spec => ImplementsLifecycle
<1>1. SessionInv /\ [Next]_vars => [Lifecycle!Next]_(Lifecycle!lifecycleVars)
  BY StepRefines
<1> QED
  BY InitRefines, SessionInvariant, <1>1, PTL
     DEF Spec, ImplementsLifecycle, Lifecycle!Spec
-----------------------------------------------------------------------------
(* Session keeps SessionContract.  The number of unfinished statements is  *)
(* the cardinality of Pending; a step of the session adds one element to   *)
(* it, takes one away or leaves it alone.                                  *)

Pending == {i \in StmtId : stmtState[i] \in Unfinished}

\* There are finitely many statements, so their number behaves as one expects.
LEMMA PendingIsFinite ==
  /\ IsFiniteSet(Pending)
  /\ Cardinality(Pending) \in Nat
  /\ Cardinality(Pending) = 0 <=> Pending = {}
  /\ \A i \in Pending : Cardinality(Pending \ {i}) = Cardinality(Pending) - 1
  /\ \A i \in StmtId \ Pending : Cardinality(Pending \cup {i}) = Cardinality(Pending) + 1
<1>1. IsFiniteSet(StmtId)
  BY FS_Interval
<1>2. IsFiniteSet(Pending)
  BY <1>1, FS_Subset DEF Pending
<1> QED
  BY <1>2, FS_CardinalityType, FS_EmptySet, FS_AddElement, FS_RemoveElement

\* The last of the statements that wait or run takes the session out of "busy",
\* and only the last one.
LEMMA EndingIsContractual ==
  ASSUME SessionInv, NEW i \in StmtId, LockFree,
         stmtState[i] \in Unfinished,
         NEW final \in StatementStates \ Unfinished,
         stmtState' = [stmtState EXCEPT ![i] = final],
         sessState' = UpdateBusyState(stmtState'),
         UNCHANGED <<mu, clientCloses, published>>
  PROVE  Contract!EndStatement
<1> USE DEF SessionInv, TypeOK
<1>1. i \in Pending /\ Pending' = Pending \ {i}
  BY DEF Pending
<1>2. /\ Cardinality(Pending) \in Nat
      /\ Cardinality(Pending') = Cardinality(Pending) - 1
      /\ Cardinality(Pending) = 0 <=> Pending = {}
  BY <1>1, PendingIsFinite
<1>3. Cardinality(Pending) > 0
  BY <1>1, <1>2
<1>4. Cardinality(Pending) = 1 <=> Pending' = {}
  <2>1. IsFiniteSet(Pending')
    BY <1>1, PendingIsFinite, FS_Subset
  <2>2. Cardinality(Pending') = 0 <=> Pending' = {}
    BY <2>1, FS_EmptySet
  <2> QED
    BY <1>2, <2>2
<1>5. sessState' = IF sessState = "busy" /\ Cardinality(Pending) = 1 THEN "idle" ELSE sessState
  BY <1>4 DEF UpdateBusyState, Pending
<1> QED
  BY <1>2, <1>3, <1>5 DEF Contract!EndStatement, Contract!Exists, Pending, LockFree

LEMMA InitKeepsContract == Init => Contract!Init
<1> SUFFICES ASSUME Init PROVE Contract!Init
  OBVIOUS
<1>1. Pending = {}
  BY DEF Init, Pending, Unfinished
<1>2. Cardinality(Pending) = 0
  BY <1>1, FS_EmptySet
<1> QED
  BY <1>2 DEF Init, Contract!Init, Pending

LEMMA StepKeepsContract ==
  ASSUME SessionInv, [Next]_vars
  PROVE  [Contract!Next]_(Contract!contractVars)
<1> USE DEF SessionInv, TypeOK
<1>1. CASE UNCHANGED <<sessState, mu, clientCloses, stmtState, published>>
  BY <1>1 DEF Contract!contractVars
<1>2. CASE SetStateIdle
  <2>1. Contract!Publish
    BY <1>2 DEF SetStateIdle, LockFree, stmtVars, closeVars, Contract!Publish, Contract!Exists
  <2> QED
    BY <2>1 DEF Contract!Next
<1>3. CASE SubmitStatement
  <2>1. /\ numStatements \in StmtId \ Pending
        /\ Pending' = Pending \cup {numStatements}
    BY <1>3, SubmissionHasRoom DEF SubmitStatement, Pending, Unfinished
  <2>2. Cardinality(Pending') = Cardinality(Pending) + 1
    BY <2>1, PendingIsFinite
  <2>3. Contract!Submit
    BY <1>3, <2>2 DEF SubmitStatement, LockFree, closeVars, Pending, Contract!Submit,
                    Contract!Exists
  <2> QED
    BY <2>3 DEF Contract!Next
<1>4. ASSUME NEW i \in StmtId, CancelStatement(i)
      PROVE  Contract!Next
  <2>1. /\ LockFree /\ stmtState[i] \in Unfinished
        /\ stmtState' = [stmtState EXCEPT ![i] = "cancelled"]
        /\ sessState' = UpdateBusyState(stmtState')
        /\ UNCHANGED <<mu, clientCloses, published>>
    BY <1>4 DEF CancelStatement, closeVars, apiVars
  <2>2. "cancelled" \in StatementStates \ Unfinished
    BY DEF Unfinished
  <2>3. Contract!EndStatement
    BY <2>1, <2>2, EndingIsContractual
  <2> QED
    BY <2>3 DEF Contract!Next
<1>5. ASSUME NEW i \in StmtId, BeginStatement(i)
      PROVE  UNCHANGED Contract!contractVars
  <2>1. Pending' = Pending
    BY <1>5 DEF BeginStatement, SkipCancelled, StartRunning, WorkerInv, Pending, Unfinished
  <2> QED
    BY <1>5, <2>1 DEF BeginStatement, closeVars, apiVars, Pending, Contract!contractVars
<1>6. ASSUME NEW i \in StmtId, FinishStatement(i)
      PROVE  [Contract!Next]_(Contract!contractVars)
  <2>0. /\ LockFree
        /\ sessState' = UpdateBusyState(stmtState')
        /\ UNCHANGED <<mu, clientCloses, published>>
    BY <1>6 DEF FinishStatement, apiVars
  <2>1. CASE DropOutcome(i)
    \* A busy session has another statement to be busy with.
    <3>1. stmtState' = stmtState
      BY <2>1 DEF DropOutcome
    <3>2. sessState' = sessState
      BY <2>0, <3>1 DEF UpdateBusyState, BusyHasWork
    <3> QED
      BY <2>0, <3>1, <3>2 DEF Contract!contractVars
  <2>2. CASE RecordOutcome(i)
    <3>1. stmtState[i] \in Unfinished
      BY <1>6, <2>2 DEF FinishStatement, RecordOutcome, WorkerInv, Unfinished
    <3>2. CASE result[i] = "ok"
      <4>1. stmtState' = [stmtState EXCEPT ![i] = "available"]
        BY <2>2, <3>2 DEF RecordOutcome
      <4>2. "available" \in StatementStates \ Unfinished
        BY DEF Unfinished
      <4>3. Contract!EndStatement
        BY <2>0, <3>1, <4>1, <4>2, EndingIsContractual
      <4> QED
        BY <4>3 DEF Contract!Next
    <3>3. CASE result[i] # "ok"
      <4>1. stmtState' = [stmtState EXCEPT ![i] = "error"]
        BY <2>2, <3>3 DEF RecordOutcome
      <4>2. "error" \in StatementStates \ Unfinished
        BY DEF Unfinished
      <4>3. Contract!EndStatement
        BY <2>0, <3>1, <4>1, <4>2, EndingIsContractual
      <4> QED
        BY <4>3 DEF Contract!Next
    <3> QED
      BY <3>2, <3>3
  <2> QED
    BY <1>6, <2>1, <2>2 DEF FinishStatement
<1>7. ASSUME NEW k \in CloseKinds, CloseBegins(k)
      PROVE  Contract!Next
  \* Its closeCh is open still, so no Close has come to its end.
  <2>1. clientCloses = 0
    BY <1>7 DEF CloseBegins, CloseInv
  <2>2. Contract!CloseBegins
    BY <1>7, <2>1 DEF CloseBegins, CloseCalled, LockFree, stmtVars, apiVars, Closed,
                      Contract!CloseBegins, Contract!Exists, Contract!Terminated
  <2> QED
    BY <2>2 DEF Contract!Next
<1>8. ASSUME NEW k \in CloseKinds, ClosePanics(k)
      PROVE  Contract!Next
  \* closeCh is closed and nobody keeps the lock: that Close is over.
  <2>1. clientCloses # 0
    BY <1>8 DEF ClosePanics, CloseCalled, LockFree, CloseInv
  <2>2. Contract!CloseAgain
    BY <1>8, <2>1 DEF ClosePanics, CloseCalled, LockFree, stmtVars, apiVars, Closed,
                      Contract!CloseAgain, Contract!Exists, Contract!Terminated
  <2> QED
    BY <2>2 DEF Contract!Next
<1>9. CASE CloseEnds
  <2>1. clientCloses' # 0
    BY <1>9 DEF CloseEnds
  <2>2. Contract!CloseEnds
    BY <1>9, <2>1 DEF CloseEnds, stmtVars, apiVars, Contract!CloseEnds
  <2> QED
    BY <2>2 DEF Contract!Next
<1>0. \/ UNCHANGED <<sessState, mu, clientCloses, stmtState, published>>
      \/ SetStateIdle \/ SubmitStatement \/ CloseEnds
      \/ \E i \in StmtId : CancelStatement(i) \/ BeginStatement(i) \/ FinishStatement(i)
      \/ \E k \in CloseKinds : CloseBegins(k) \/ ClosePanics(k)
  BY DEF Next, AdmitStatement, RejectStatement, Evict, CloseListener, ExecuteSQLReturns,
         CloseReturns, vars, stmtVars, closeVars, apiVars
<1> QED
  BY <1>0, <1>1, <1>2, <1>3, <1>4, <1>5, <1>6, <1>7, <1>8, <1>9

\* Whatever its goroutines do, the session is for the manager what
\* SessionContract says: module Registry may go by it.
THEOREM SessionKeepsContract == Spec => ImplementsContract
<1>1. SessionInv /\ [Next]_vars => [Contract!Next]_(Contract!contractVars)
  BY StepKeepsContract
<1> QED
  BY InitKeepsContract, SessionInvariant, <1>1, PTL
     DEF Spec, ImplementsContract, Contract!Spec
=============================================================================
