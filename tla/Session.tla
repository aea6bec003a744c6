-------------------------------- MODULE Session --------------------------------
(***************************************************************************)
(* One interactive session (pkg/session/session.go) together with          *)
(* everything that runs against it: the HTTP handlers that publish it,     *)
(* submit and cancel statements and delete it, one worker goroutine per    *)
(* statement (runStatement) with its close listener, the Close goroutines  *)
(* started by a worker that saw a severed connection or by the reaper, and *)
(* the Spark Connect client, of which only the moment and the kind of      *)
(* ExecuteSQL's answer matter.                                             *)
(*                                                                         *)
(* s.mu is the variable mu: a critical section that calls nothing that     *)
(* blocks is one action guarded by LockFree; Close, which keeps the lock   *)
(* across client.Close(), is a step that takes it and a step that          *)
(* releases it.                                                            *)
(***************************************************************************)
EXTENDS Naturals, FiniteSets

CONSTANT MaxStatements \* bound: statements submitted to the session in its life

ASSUME SessionAssumption == MaxStatements \in Nat \ {0}

VARIABLES
  sessState,     \* s.State
  numStatements, \* len(s.Statements)
  stmtState,     \* stmtState[i]: s.Statements[i].State, "none" before submission
  stmtOutput,    \* stmtOutput[i]: which outcome s.Statements[i].Output carries
  completed,     \* completed[i]: Completed stamped and Progress = 1.0
  worker,        \* worker[i]: where the runStatement goroutine of i stands
  result,        \* result[i]: what ExecuteSQL returned to that goroutine
  cancelFunc,    \* cancelFunc[i]: is s.Statements[i].cancelFunc set?
  ctxDone,       \* ctxDone[i]: is the context handed to ExecuteSQL cancelled?
  closeCh,       \* s.closeCh
  mu,            \* s.mu: "free", or the kind of Close call that holds it
  clientCloses,  \* how often s.client.Close() has run
  goCloses,      \* `go Close()` goroutines started that have not yet run
  published,     \* has CreateSession's handler done its SetState(idle)?
  early,         \* history: how many statements had been submitted by then
  admitted,      \* submit handlers between their state check and SubmitStatement
  registered,    \* is the session still in the manager's map?
  crashed        \* has an unrecovered panic ended the process?

stmtVars   == <<numStatements, stmtState, stmtOutput, completed>>
workerVars == <<worker, result, cancelFunc, ctxDone>>
closeVars  == <<closeCh, mu, clientCloses, goCloses, crashed>>
apiVars    == <<published, early, admitted, registered>>
vars == <<sessState, stmtVars, workerVars, closeVars, apiVars>>

StmtId          == 0 .. MaxStatements - 1
SessionStates   == {"starting", "idle", "busy", "dead", "shutting_down"}
StatementStates == {"waiting", "running", "available", "error", "cancelled"}
Results         == {"ok", "error", "severed"}
CloseKinds      == {"handler", "goroutine"}

Closed     == {"dead", "shutting_down"}
Unfinished == {"waiting", "running"}

\* s.mu can be taken, by a process that is still alive.
LockFree == ~crashed /\ mu = "free"

-----------------------------------------------------------------------------
Init ==
  /\ sessState = "starting"
  /\ numStatements = 0
  /\ stmtState = [i \in StmtId |-> "none"]
  /\ stmtOutput = [i \in StmtId |-> "none"]
  /\ completed = [i \in StmtId |-> FALSE]
  /\ worker = [i \in StmtId |-> "none"]
  /\ result = [i \in StmtId |-> "none"]
  /\ cancelFunc = [i \in StmtId |-> FALSE]
  /\ ctxDone = [i \in StmtId |-> FALSE]
  /\ closeCh = "open"
  /\ mu = "free"
  /\ clientCloses = 0
  /\ goCloses = 0
  /\ published = FALSE
  /\ early = 0
  /\ admitted = 0
  /\ registered = TRUE
  /\ crashed = FALSE

\* Wrong: overlooks the statements whose goroutine has not run yet.
UpdateBusyStateOnlyRunning(states) ==
  IF sessState = "busy" /\ \A i \in StmtId : states[i] # "running" THEN "idle" ELSE sessState

\* updateBusyStateLocked, given the statements' states at its call.
UpdateBusyState(states) ==
  IF sessState = "busy" /\ \A i \in StmtId : states[i] \notin Unfinished
    THEN "idle"
    ELSE sessState

-----------------------------------------------------------------------------
(* The HTTP handlers.                                                      *)

\* CreateSession's handler: SetState(idle), whatever the state has become since
\* manager.CreateSession put the session in the map, in reach of everybody.
SetStateIdle ==
  /\ LockFree
  /\ ~published
  /\ published' = TRUE
  /\ early' = numStatements
  /\ sessState' = "idle"
  /\ UNCHANGED <<stmtVars, workerVars, closeVars, admitted, registered>>

\* The submit handler's check that the session is not terminated.  It reads the
\* state twice; the read that passes first is the one that counts, since "dead"
\* never follows a "shutting_down" that can be read.
AdmitStatement ==
  /\ LockFree
  /\ sessState \notin Closed
  /\ admitted + numStatements < MaxStatements
  /\ admitted' = admitted + 1
  /\ UNCHANGED <<sessState, stmtVars, workerVars, closeVars, published, early, registered>>

\* The body is not JSON or has no code: answered 400, nothing submitted.
RejectStatement ==
  /\ ~crashed
  /\ admitted > 0
  /\ admitted' = admitted - 1
  /\ UNCHANGED <<sessState, stmtVars, workerVars, closeVars, published, early, registered>>

\* SubmitStatement looks at nothing: the check made by the handler may be stale.
SubmitStatement ==
  /\ LockFree
  /\ admitted > 0
  /\ admitted' = admitted - 1
  /\ numStatements' = numStatements + 1
  /\ stmtState' = [stmtState EXCEPT ![numStatements] = "waiting"]
  /\ sessState' = "busy"
  /\ worker' = [worker EXCEPT ![numStatements] = "spawned"]
  /\ UNCHANGED <<stmtOutput, completed, result, cancelFunc, ctxDone, closeVars,
                 published, early, registered>>

\* Wrong: the session's own state is not recomputed.
CancelStatementStaysBusy(i) ==
  /\ LockFree
  /\ stmtState[i] \in Unfinished
  /\ stmtState' = [stmtState EXCEPT ![i] = "cancelled"]
  /\ ctxDone' = [ctxDone EXCEPT ![i] = @ \/ cancelFunc[i]]
  /\ stmtOutput' = [stmtOutput EXCEPT ![i] = "cancelled"]
  /\ UNCHANGED <<sessState, numStatements, completed, worker, result, cancelFunc,
                 closeVars, apiVars>>

\* CancelStatement: signals the context if the worker has installed it.
CancelStatement(i) ==
  /\ LockFree
  /\ stmtState[i] \in Unfinished
  /\ stmtState' = [stmtState EXCEPT ![i] = "cancelled"]
  /\ ctxDone' = [ctxDone EXCEPT ![i] = @ \/ cancelFunc[i]]
  /\ stmtOutput' = [stmtOutput EXCEPT ![i] = "cancelled"]
  /\ sessState' = UpdateBusyState(stmtState')
  /\ UNCHANGED <<numStatements, completed, worker, result, cancelFunc, closeVars, apiVars>>

-----------------------------------------------------------------------------
(* The worker goroutine of statement i, runStatement.                      *)

\* A statement cancelled before its worker ran: runStatement returns at once
\* and its deferred cancel() releases the context.
SkipCancelled(i) ==
  /\ stmtState[i] = "cancelled"
  /\ worker' = [worker EXCEPT ![i] = "done"]
  /\ ctxDone' = [ctxDone EXCEPT ![i] = TRUE]
  /\ UNCHANGED <<stmtState, cancelFunc>>

\* Wrong: a statement cancelled before its worker ran is run all the same.
StartRunningRegardless(i) ==
  /\ cancelFunc' = [cancelFunc EXCEPT ![i] = TRUE]
  /\ stmtState' = [stmtState EXCEPT ![i] = "running"]
  /\ worker' = [worker EXCEPT ![i] = "executing"]
  /\ UNCHANGED ctxDone

\* Wrong: the cancel function is not there yet when the statement is running.
StartRunningUncancellable(i) ==
  /\ stmtState[i] # "cancelled"
  /\ stmtState' = [stmtState EXCEPT ![i] = "running"]
  /\ worker' = [worker EXCEPT ![i] = "executing"]
  /\ UNCHANGED <<cancelFunc, ctxDone>>

\* Otherwise the cancel function is installed in the same critical section
\* that makes the statement running.
StartRunning(i) ==
  /\ stmtState[i] # "cancelled"
  /\ cancelFunc' = [cancelFunc EXCEPT ![i] = TRUE]
  /\ stmtState' = [stmtState EXCEPT ![i] = "running"]
  /\ worker' = [worker EXCEPT ![i] = "executing"]
  /\ UNCHANGED ctxDone

BeginStatement(i) ==
  /\ LockFree
  /\ worker[i] = "spawned"
  /\ SkipCancelled(i) \/ StartRunning(i)
  /\ UNCHANGED <<sessState, numStatements, stmtOutput, completed, result, closeVars, apiVars>>

\* Wrong: no listener goroutine, so nobody waits on closeCh.
CloseListenerMissing(i) == FALSE

\* The listener goroutine: closing closeCh cancels the statement's context.
CloseListener(i) ==
  /\ ~crashed
  /\ worker[i] \in {"executing", "returned"}
  /\ closeCh = "closed"
  /\ ~ctxDone[i]
  /\ ctxDone' = [ctxDone EXCEPT ![i] = TRUE]
  /\ UNCHANGED <<sessState, stmtVars, worker, result, cancelFunc, closeVars, apiVars>>

\* ExecuteSQL returns, without the lock.  A cancelled context does not decide
\* the answer: the rows may have arrived just before.
ExecuteSQLReturns(i) ==
  /\ ~crashed
  /\ worker[i] = "executing"
  /\ worker' = [worker EXCEPT ![i] = "returned"]
  /\ \E r \in Results : result' = [result EXCEPT ![i] = r]
  /\ UNCHANGED <<sessState, stmtVars, cancelFunc, ctxDone, closeVars, apiVars>>

\* Wrong: a cancellation during the execution is overwritten by its outcome.
RecordOutcomeOverwrites(i) ==
  /\ stmtState' = [stmtState EXCEPT ![i] = IF result[i] = "ok" THEN "available" ELSE "error"]
  /\ stmtOutput' = [stmtOutput EXCEPT ![i] = IF result[i] = "ok" THEN "ok" ELSE "error"]
  /\ goCloses' = IF result[i] = "severed" THEN goCloses + 1 ELSE goCloses

\* Wrong: the client's answer becomes the statement's state untranslated.
RecordOutcomeRaw(i) ==
  /\ stmtState[i] # "cancelled"
  /\ stmtState' = [stmtState EXCEPT ![i] = result[i]]
  /\ stmtOutput' = [stmtOutput EXCEPT ![i] = result[i]]
  /\ goCloses' = IF result[i] = "severed" THEN goCloses + 1 ELSE goCloses

\* Wrong: the severed connection is recorded but not acted upon.
RecordOutcomeKeepsSession(i) ==
  /\ stmtState[i] # "cancelled"
  /\ stmtState' = [stmtState EXCEPT ![i] = IF result[i] = "ok" THEN "available" ELSE "error"]
  /\ stmtOutput' = [stmtOutput EXCEPT ![i] = IF result[i] = "ok" THEN "ok" ELSE "error"]
  /\ UNCHANGED goCloses

\* The statement was cancelled while it executed: its outcome is dropped.
DropOutcome(i) ==
  /\ stmtState[i] = "cancelled"
  /\ UNCHANGED <<stmtState, stmtOutput, goCloses>>

\* Otherwise the outcome is recorded; an error that tells of a closed session
\* or a severed connection also starts `go s.Close()`.
RecordOutcome(i) ==
  /\ stmtState[i] # "cancelled"
  /\ stmtState' = [stmtState EXCEPT ![i] = IF result[i] = "ok" THEN "available" ELSE "error"]
  /\ stmtOutput' = [stmtOutput EXCEPT ![i] = IF result[i] = "ok" THEN "ok" ELSE "error"]
  /\ goCloses' = IF result[i] = "severed" THEN goCloses + 1 ELSE goCloses

FinishStatement(i) ==
  /\ LockFree
  /\ worker[i] = "returned"
  /\ worker' = [worker EXCEPT ![i] = "done"]
  /\ ctxDone' = [ctxDone EXCEPT ![i] = TRUE]
  /\ completed' = [completed EXCEPT ![i] = TRUE]
  /\ DropOutcome(i) \/ RecordOutcome(i)
  /\ sessState' = UpdateBusyState(stmtState')
  /\ UNCHANGED <<numStatements, result, cancelFunc, closeCh, mu, clientCloses, crashed, apiVars>>

-----------------------------------------------------------------------------
(* Closing.  A Close call runs in an HTTP handler (DELETE /sessions/{id})  *)
(* or in a goroutine of its own (`go s.Close()`).                          *)

\* Wrong: the session leaves the map and nobody closes it.
EvictWithoutClose ==
  /\ LockFree
  /\ registered
  /\ sessState \in {"idle", "starting", "dead"}
  /\ registered' = FALSE
  /\ UNCHANGED <<sessState, stmtVars, workerVars, closeVars, published, early, admitted>>

\* The reaper has seen, under s.mu.RLock, a session that is past its timeout:
\* it drops it from the map and starts `go sess.Close()`.  Clocks are left out
\* here; handlers that already hold the session keep using it.
Evict ==
  /\ LockFree
  /\ registered
  /\ sessState \in {"idle", "starting", "dead"}
  /\ registered' = FALSE
  /\ goCloses' = goCloses + 1
  /\ UNCHANGED <<sessState, stmtVars, workerVars, closeCh, mu, clientCloses, crashed,
                 published, early, admitted>>

\* A Close call of kind k is about to take the lock.
CloseCalled(k) ==
  /\ LockFree
  /\ \/ k = "handler" /\ UNCHANGED goCloses
     \/ k = "goroutine" /\ goCloses > 0 /\ goCloses' = goCloses - 1

\* Already terminated: nothing to do.
CloseReturns(k) ==
  /\ CloseCalled(k)
  /\ sessState \in Closed
  /\ UNCHANGED <<sessState, stmtVars, workerVars, closeCh, mu, clientCloses, crashed, apiVars>>

\* Wrong: an already closed closeCh is skipped instead of noticed, and the
\* session's client is closed once more.
CloseBeginsAgain(k) ==
  /\ CloseCalled(k)
  /\ sessState \notin Closed
  /\ sessState' = "shutting_down"
  /\ closeCh' = "closed"
  /\ mu' = k
  /\ UNCHANGED <<stmtVars, workerVars, clientCloses, crashed, apiVars>>

\* The lock is kept while client.Close() talks to the server.
CloseBegins(k) ==
  /\ CloseCalled(k)
  /\ sessState \notin Closed
  /\ closeCh = "open"
  /\ sessState' = "shutting_down"
  /\ closeCh' = "closed"
  /\ mu' = k
  /\ UNCHANGED <<stmtVars, workerVars, clientCloses, crashed, apiVars>>

\* close(s.closeCh) on a closed channel panics.  The deferred Unlock runs; a
\* handler's panic is caught by the router's Recoverer, a goroutine's is not
\* caught by anyone and ends the process.
ClosePanics(k) ==
  /\ CloseCalled(k)
  /\ sessState \notin Closed
  /\ closeCh = "closed"
  /\ sessState' = "shutting_down"
  /\ crashed' = (k = "goroutine")
  /\ UNCHANGED <<stmtVars, workerVars, closeCh, mu, clientCloses, apiVars>>

\* client.Close() has returned.
CloseEnds ==
  /\ ~crashed
  /\ mu # "free"
  /\ clientCloses' = clientCloses + 1
  /\ sessState' = "dead"
  /\ mu' = "free"
  /\ UNCHANGED <<stmtVars, workerVars, closeCh, goCloses, crashed, apiVars>>

-----------------------------------------------------------------------------
Next ==
  \/ SetStateIdle
  \/ AdmitStatement
  \/ RejectStatement
  \/ SubmitStatement
  \/ Evict
  \/ CloseEnds
  \/ \E i \in StmtId :
       \/ CancelStatement(i)
       \/ BeginStatement(i)
       \/ CloseListener(i)
       \/ ExecuteSQLReturns(i)
       \/ FinishStatement(i)
  \/ \E k \in CloseKinds :
       \/ CloseReturns(k)
       \/ CloseBegins(k)
       \/ ClosePanics(k)

Spec == Init /\ [][Next]_vars

\* Goroutines are scheduled, the lock is handed on, client.Close() returns (its
\* connection has keepalives) and ExecuteSQL returns once its context is
\* cancelled.  Nothing makes clients call, or makes an uncancelled query end.
Fairness ==
  /\ WF_vars(SetStateIdle)
  /\ WF_vars(CloseEnds)
  /\ WF_vars(CloseReturns("goroutine") \/ CloseBegins("goroutine") \/ ClosePanics("goroutine"))
  /\ \A i \in StmtId :
       /\ WF_vars(BeginStatement(i))
       /\ WF_vars(CloseListener(i))
       /\ WF_vars(ctxDone[i] /\ ExecuteSQLReturns(i))
       /\ WF_vars(FinishStatement(i))

FairSpec == Spec /\ Fairness

-----------------------------------------------------------------------------
(* Properties.                                                             *)

TypeOK ==
  /\ sessState \in SessionStates
  /\ numStatements \in 0 .. MaxStatements
  /\ stmtState \in [StmtId -> StatementStates \cup {"none"}]
  /\ stmtOutput \in [StmtId -> {"none", "ok", "error", "cancelled"}]
  /\ completed \in [StmtId -> BOOLEAN]
  /\ worker \in [StmtId -> {"none", "spawned", "executing", "returned", "done"}]
  /\ result \in [StmtId -> Results \cup {"none"}]
  /\ cancelFunc \in [StmtId -> BOOLEAN]
  /\ ctxDone \in [StmtId -> BOOLEAN]
  /\ closeCh \in {"open", "closed"}
  /\ mu \in CloseKinds \cup {"free"}
  /\ clientCloses \in Nat
  /\ goCloses \in Nat
  /\ published \in BOOLEAN
  /\ early \in 0 .. MaxStatements
  /\ admitted \in 0 .. MaxStatements
  /\ registered \in BOOLEAN
  /\ crashed \in BOOLEAN

\* A session that calls itself idle, the state in which the reaper may take it,
\* has no statement waiting or running, unless one that was submitted before its
\* POST made it idle: every path that ends a statement recomputes the state over
\* all the others.
QuietWhenIdle ==
  sessState = "idle" => \A i \in StmtId : stmtState[i] \in Unfinished => i < early

\* A busy session has a statement that is waiting or running, so it cannot stay
\* busy, out of the reaper's reach, once its last statement is over.
BusyHasWork ==
  sessState = "busy" => \E i \in StmtId : stmtState[i] \in Unfinished

\* A statement that is cancelled while its worker executes has its context
\* cancelled too: there is no moment at which the statement is running and
\* CancelStatement finds no cancel function to call.
CancelReachesContext ==
  \A i \in StmtId :
    (stmtState[i] = "cancelled" /\ worker[i] \in {"executing", "returned"}) => ctxDone[i]

\* However many Close calls and resurrections a session sees, the Spark Connect
\* client is closed at most once, and a dead session's has been.
ReleasedExactlyOnce ==
  /\ clientCloses <= 1
  /\ sessState = "dead" => clientCloses = 1 /\ closeCh = "closed"

\* What a client has once read of a finished statement never changes: a late
\* answer of ExecuteSQL does not overwrite a cancellation, nor a cancellation
\* an outcome.
TerminalIsFinal ==
  [][\A i \in StmtId :
       stmtState[i] \in StatementStates \ Unfinished =>
         stmtState'[i] = stmtState[i] /\ stmtOutput'[i] = stmtOutput[i]]_vars

\* Seen through its statements' states and outputs only, the session with all
\* its goroutines is StatementLifecycle.
Lifecycle == INSTANCE StatementLifecycle WITH state <- stmtState, output <- stmtOutput

ImplementsLifecycle == Lifecycle!Spec

\* Seen by the manager the session keeps SessionContract: its state and the number
\* of its unfinished statements move together, nothing but the end of its Close
\* takes it from shutting_down while its client is still open, and it is never
\* dead before its client is closed.
Contract == INSTANCE SessionContract WITH
  state      <- sessState,
  open       <- clientCloses = 0,
  closing    <- mu # "free",
  unfinished <- Cardinality({i \in StmtId : stmtState[i] \in Unfinished})

ImplementsContract == Contract!Spec

\* Once the session is being closed every statement submitted to it comes to an
\* end, the ones that slip in later included: no worker outlives the session.
CloseQuiesces ==
  closeCh = "closed" ~> (crashed \/ \A i \in StmtId : worker[i] \in {"none", "done"})

\* Cancelling a statement ends its worker, wherever it stands.
CancelledStops ==
  \A i \in StmtId : stmtState[i] = "cancelled" ~> (crashed \/ worker[i] = "done")

SeveredOutcome(i) == worker[i] = "done" /\ stmtState[i] = "error" /\ result[i] = "severed"

\* A statement that learns that the connection is gone gets the session closed.
SeveredCloses ==
  \A i \in StmtId : SeveredOutcome(i) ~> (crashed \/ closeCh = "closed")

\* A session the reaper took out of the map is not leaked: its client is closed.
EvictedIsReleased ==
  ~registered ~> (crashed \/ clientCloses = 1)

-----------------------------------------------------------------------------
(* What the documentation says and the code does not do.                   *)

\* session.go: after a severed connection the session is "automatically"
\* terminated.  The Close of a resurrected session panics instead.
SeveredTerminates == \A i \in StmtId : SeveredOutcome(i) ~> sessState = "dead"
=============================================================================
