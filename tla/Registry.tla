------------------------------- MODULE Registry -------------------------------
(***************************************************************************)
(* The session manager (pkg/session/manager.go) from the start of the      *)
(* gateway to its exit (cmd/livy-next/main.go): the map of sessions, the   *)
(* handlers that create, look up and delete them, the timeouts and their   *)
(* synchronisation with the Spark Connect server, the cleanup goroutine    *)
(* and the shutdown sequence.                                              *)
(*                                                                         *)
(* A session is reduced to what the manager reads of it: its state, its    *)
(* LastActivity, its own timeout and how many of its statements are        *)
(* unfinished; module Session has the rest.  The two locks that are kept   *)
(* across a call that may not return are variables: m.mu (mu), kept by the *)
(* cleanup and by CloseAll, and each session's s.mu (holder), kept by      *)
(* Session.Close while client.Close() runs, and by the cleanup.            *)
(***************************************************************************)
EXTENDS Integers, FiniteSets, Folds, Functions

CONSTANTS
  Uuid,               \* the Spark Connect session ids clients ask for
  MaxSessions,        \* bound: sessions created
  MaxTime,            \* bound: the clock stops there
  MaxWork,            \* bound: unfinished statements, `go Close()` goroutines of a session
  MaxCalls,           \* bound: handlers at work on a session they have found
  Flags,              \* the pairs <<--idle-timeout, --dead-timeout>> it may be started with
  RemoteTimeouts,     \* what the server may answer to GetSessionTimeout
  SyncSessionTimeout  \* --sync-session-timeout

ASSUME RegistryAssumption ==
  /\ MaxSessions \in Nat /\ MaxTime \in Nat /\ MaxWork \in Nat \ {0} /\ MaxCalls \in Nat
  /\ Flags \subseteq Int \X Int
  /\ RemoteTimeouts \subseteq Int
  /\ SyncSessionTimeout \in BOOLEAN

VARIABLES
  sessions,     \* the keys of m.sessions
  nextID,       \* m.nextID
  idleTimeout,  \* m.idleTimeout
  deadTimeout,  \* m.deadTimeout
  looping,      \* does the cleanup goroutine run?
  stopCh,       \* m.stopCh
  mu,           \* m.mu: "free", or who keeps it across several steps
  now,          \* the cleanup's clock reading, 0 between two rounds
  toScan,       \* the sessions it has not visited yet
  toDelete,     \* the sessions it is going to remove
  timeoutThen,  \* history: the sessions' own timeouts when the round began
  clock,        \* the time
  probing,      \* is the startup probe still to answer?
  creating,     \* POST /sessions requests that are setting up their client
  posting,      \* posting[id]: where the POST that created id stands
  state,        \* state[id]: its State
  lastActivity, \* lastActivity[id]: its LastActivity
  timeout,      \* timeout[id]: its idleTimeoutDuration
  uuid,         \* uuid[id]: its SessionID
  open,         \* open[id]: its client is not closed
  holder,       \* holder[id]: its s.mu: "free", or who keeps it across several steps
  working,      \* working[id]: its statements that wait or run
  calls,        \* calls[kind, id]: how many handlers of a kind have found session id
  goCloses,     \* goCloses[id]: its `go sess.Close()` goroutines that have not run
  phase,        \* where main stands, or "crashed"
  settled       \* history: m.nextID when the last CloseAll gave m.mu back

managerVars == <<sessions, nextID, idleTimeout, deadTimeout>>
roundVars   == <<now, toScan, toDelete, timeoutThen>>
reaperVars  == <<looping, stopCh, mu, roundVars>>
closeVars   == <<state, lastActivity, open, holder>>
sessionVars == <<closeVars, timeout, uuid, working>>
postVars    == <<probing, creating, posting>>
callVars    == <<calls, goCloses>>
mainVars    == <<phase, settled>>
vars == <<managerVars, reaperVars, sessionVars, postVars, callVars, clock, mainVars>>

Id == 0 .. MaxSessions - 1

Alive == phase \notin {"exited", "crashed"}

\* main calls CloseAll and, by its defer, calls it again ("closingAgain"); a panic
\* of the first call still runs the deferred one ("panicking", "unwinding").  Then
\* main returns ("leaving"), or the panic goes on ("dying").
Phases == {"serving", "draining", "closing", "closingAgain", "leaving", "exited",
           "panicking", "unwinding", "dying", "crashed"}

\* m.mu can be taken.
LockFree == Alive /\ mu = "free"

\* So can the lock of session id.
SessionFree(id) == Alive /\ holder[id] = "free"

\* The callers of Session.Close, which keep a session's lock while client.Close()
\* talks to the server.
Closers == {"delete", "go", "closeAll"}

\* Beside them the cleanup keeps a read lock, or waits for ever for a second one.
Holders == Closers \cup {"free", "cleanup", "deadlock"}

Closed == {"dead", "shutting_down"}

\* What a handler is about to do with the session it has found; "admitted" is a
\* submission that has passed the check of the session's state.
Calls == {"submit", "admitted", "cancel", "delete"}

\* Handlers at work on a session they have found.
InFlight == FoldFunction(+, 0, calls)

\* A handler looks session id up and goes on to use it (after SIGTERM too, if its
\* request was being served by then) ...
CallBegins(kind, id) ==
  /\ LockFree
  /\ id \in sessions
  /\ InFlight < MaxCalls
  /\ calls' = [calls EXCEPT ![<<kind, id>>] = @ + 1]

\* ... whatever has become of it, or of the map.
CallEnds(kind, id) ==
  /\ Alive
  /\ calls[<<kind, id>>] > 0
  /\ calls' = [calls EXCEPT ![<<kind, id>>] = @ - 1]

\* The timeout the cleanup applies to a session that is not dead.
EffectiveTimeout(id) == IF timeout[id] = 0 THEN idleTimeout ELSE timeout[id]

-----------------------------------------------------------------------------
Init ==
  /\ sessions = {}
  /\ nextID = 0
  /\ \E flags \in Flags : idleTimeout = flags[1] /\ deadTimeout = flags[2]
  /\ looping = (idleTimeout > 0 \/ deadTimeout > 0)
  /\ stopCh = "open"
  /\ mu = "free"
  /\ now = 0 /\ toScan = {} /\ toDelete = {}
  /\ timeoutThen = [id \in Id |-> 0]
  /\ clock = 0
  /\ probing = TRUE
  /\ creating = 0
  /\ posting = [id \in Id |-> "none"]
  /\ state = [id \in Id |-> "none"]
  /\ lastActivity = [id \in Id |-> 0]
  /\ timeout = [id \in Id |-> 0]
  /\ uuid = [id \in Id |-> "none"]
  /\ open = [id \in Id |-> FALSE]
  /\ holder = [id \in Id |-> "free"]
  /\ working = [id \in Id |-> 0]
  /\ calls = [c \in Calls \X Id |-> 0]
  /\ goCloses = [id \in Id |-> 0]
  /\ phase = "serving"
  /\ settled = 0

Tick ==
  /\ Alive
  /\ clock < MaxTime
  /\ clock' = clock + 1
  /\ UNCHANGED <<managerVars, reaperVars, sessionVars, postVars, callVars, mainVars>>

-----------------------------------------------------------------------------
(* POST /sessions.                                                         *)

\* The request is decoded and createClient called; it may take 15 seconds.
PostSession ==
  /\ Alive
  /\ creating + nextID < MaxSessions
  /\ creating' = creating + 1
  /\ UNCHANGED <<managerVars, reaperVars, sessionVars, probing, posting, callVars, clock,
                 mainVars>>

\* createClient failed, and has closed what it had opened.
PostSessionFails ==
  /\ Alive
  /\ creating > 0
  /\ creating' = creating - 1
  /\ UNCHANGED <<managerVars, reaperVars, sessionVars, probing, posting, callVars, clock,
                 mainVars>>

\* manager.CreateSession.
CreateSession(u) ==
  /\ LockFree
  /\ creating > 0
  /\ creating' = creating - 1
  /\ sessions' = sessions \cup {nextID}
  /\ nextID' = nextID + 1
  /\ posting' = [posting EXCEPT ![nextID] = "registered"]
  /\ state' = [state EXCEPT ![nextID] = "starting"]
  /\ lastActivity' = [lastActivity EXCEPT ![nextID] = clock]
  /\ uuid' = [uuid EXCEPT ![nextID] = u]
  /\ open' = [open EXCEPT ![nextID] = TRUE]
  /\ UNCHANGED <<idleTimeout, deadTimeout, reaperVars, holder, timeout, working, probing,
                 callVars, clock, mainVars>>

\* sess.SetState(idle), whatever the state has become.
SetStateIdle(id) ==
  /\ SessionFree(id)
  /\ posting[id] = "registered"
  /\ posting' = [posting EXCEPT ![id] = "idle"]
  /\ state' = [state EXCEPT ![id] = "idle"]
  /\ lastActivity' = [lastActivity EXCEPT ![id] = clock]
  /\ UNCHANGED <<managerVars, reaperVars, open, holder, timeout, uuid, working, probing,
                 creating, callVars, clock, mainVars>>

\* SetAppInfo has had the session's lock; GetSessionTimeout answers 0 or fails: the
\* session keeps the manager's default.
KeepDefaultTimeout(id) ==
  /\ SessionFree(id)
  /\ posting[id] = "idle"
  /\ posting' = [posting EXCEPT ![id] = "done"]
  /\ UNCHANGED <<managerVars, reaperVars, sessionVars, probing, creating, callVars, clock,
                 mainVars>>

\* It answers r: the session takes it over, the manager's default follows next.
SetSessionTimeout(id, r) ==
  /\ SessionFree(id)
  /\ posting[id] = "idle"
  /\ r # 0
  /\ timeout' = [timeout EXCEPT ![id] = IF r > 0 THEN r ELSE -1]
  /\ posting' = [posting EXCEPT ![id] = IF r > 0 /\ SyncSessionTimeout THEN "sync" ELSE "done"]
  /\ UNCHANGED <<managerVars, reaperVars, closeVars, uuid, working, probing, creating,
                 callVars, clock, mainVars>>

\* manager.SetIdleTimeout(remoteTimeout).
SyncDefaultTimeout(id) ==
  /\ LockFree
  /\ posting[id] = "sync"
  /\ posting' = [posting EXCEPT ![id] = "done"]
  /\ idleTimeout' = timeout[id]
  /\ UNCHANGED <<sessions, nextID, deadTimeout, reaperVars, sessionVars, probing, creating,
                 callVars, clock, mainVars>>

\* main's probe at startup: it takes the server's timeout over for the manager,
\* or finds no server, or none that answers a positive one.
StartupProbe ==
  /\ LockFree
  /\ probing
  /\ probing' = FALSE
  /\ \/ UNCHANGED idleTimeout
     \/ /\ SyncSessionTimeout
        /\ idleTimeout' \in {r \in RemoteTimeouts : r > 0}
  /\ UNCHANGED <<sessions, nextID, deadTimeout, reaperVars, sessionVars, creating, posting,
                 callVars, clock, mainVars>>

-----------------------------------------------------------------------------
(* Statements, as far as they move the session's state and LastActivity.   *)

\* A handler finds the session it was asked for.
FindSession(kind, id) ==
  /\ CallBegins(kind, id)
  /\ UNCHANGED <<managerVars, reaperVars, sessionVars, postVars, goCloses, clock, mainVars>>

\* The submit handler sees that it is not terminated; the cleanup's read lock does
\* not keep it from looking.
AdmitStatement(id) ==
  /\ Alive
  /\ holder[id] \in {"free", "cleanup"}
  /\ state[id] \notin Closed
  /\ calls[<<"submit", id>>] > 0
  /\ LET looked == [calls EXCEPT ![<<"submit", id>>] = @ - 1]
     IN  calls' = [looked EXCEPT ![<<"admitted", id>>] = @ + 1]
  /\ UNCHANGED <<managerVars, reaperVars, sessionVars, postVars, goCloses, clock, mainVars>>

\* It is terminated, or the request's body is no statement.
RejectStatement(id) ==
  /\ \/ CallEnds("submit", id) /\ state[id] \in Closed /\ holder[id] \in {"free", "cleanup"}
     \/ CallEnds("admitted", id)
  /\ UNCHANGED <<managerVars, reaperVars, sessionVars, postVars, goCloses, clock, mainVars>>

\* Whatever has become of the session, in the map or not, since it was admitted.
SubmitStatement(id) ==
  /\ SessionFree(id)
  /\ CallEnds("admitted", id)
  /\ working[id] < MaxWork
  /\ working' = [working EXCEPT ![id] = @ + 1]
  /\ state' = [state EXCEPT ![id] = "busy"]
  /\ lastActivity' = [lastActivity EXCEPT ![id] = clock]
  /\ UNCHANGED <<managerVars, reaperVars, open, holder, timeout, uuid, postVars, goCloses,
                 clock, mainVars>>

\* updateBusyStateLocked, with one statement of id fewer.
StateAfterStatement(id) ==
  IF state[id] = "busy" /\ working[id] = 1 THEN "idle" ELSE state[id]

\* runStatement records an outcome; a severed connection starts `go s.Close()`.
FinishStatement(id) ==
  /\ SessionFree(id)
  /\ working[id] > 0
  /\ working' = [working EXCEPT ![id] = @ - 1]
  /\ state' = [state EXCEPT ![id] = StateAfterStatement(id)]
  /\ lastActivity' = [lastActivity EXCEPT ![id] = clock]
  /\ \/ UNCHANGED goCloses
     \/ goCloses[id] < MaxWork /\ goCloses' = [goCloses EXCEPT ![id] = @ + 1]
  /\ UNCHANGED <<managerVars, reaperVars, open, holder, timeout, uuid, postVars, calls, clock,
                 mainVars>>

\* Wrong: a statement that is already over is cancelled once more.
CancelStatementTwice(id) ==
  /\ SessionFree(id)
  /\ CallEnds("cancel", id)
  /\ working' = [working EXCEPT ![id] = @ - 1]
  /\ state' = [state EXCEPT ![id] = StateAfterStatement(id)]
  /\ UNCHANGED <<managerVars, reaperVars, lastActivity, open, holder, timeout, uuid, postVars,
                 goCloses, clock, mainVars>>

\* CancelStatement leaves LastActivity alone, and everything if the statement is over.
CancelStatement(id) ==
  /\ SessionFree(id)
  /\ CallEnds("cancel", id)
  /\ \/ /\ working[id] > 0
        /\ working' = [working EXCEPT ![id] = @ - 1]
        /\ state' = [state EXCEPT ![id] = StateAfterStatement(id)]
     \/ UNCHANGED <<working, state>>
  /\ UNCHANGED <<managerVars, reaperVars, lastActivity, open, holder, timeout, uuid, postVars,
                 goCloses, clock, mainVars>>

-----------------------------------------------------------------------------
(* Session.Close, from its three callers.                                  *)

\* Terminated already: nothing to do.
CloseReturns(id) ==
  /\ SessionFree(id)
  /\ state[id] \in Closed
  /\ UNCHANGED closeVars

\* Wrong: the session's lock is given back before client.Close() is called.
CloseSessionUnlocked(id, who) ==
  /\ SessionFree(id)
  /\ state[id] \notin Closed
  /\ open[id]
  /\ state' = [state EXCEPT ![id] = "shutting_down"]
  /\ UNCHANGED <<holder, lastActivity, open>>

\* The session is shutting down, and its closeCh closed; the lock is kept while
\* client.Close(), which has no deadline, runs.
CloseSession(id, who) ==
  /\ SessionFree(id)
  /\ state[id] \notin Closed
  /\ open[id]
  /\ state' = [state EXCEPT ![id] = "shutting_down"]
  /\ holder' = [holder EXCEPT ![id] = who]
  /\ UNCHANGED <<lastActivity, open>>

\* close(s.closeCh) once more: the panic leaves the session shutting down.
ClosePanics(id) ==
  /\ SessionFree(id)
  /\ state[id] \notin Closed
  /\ ~open[id]
  /\ state' = [state EXCEPT ![id] = "shutting_down"]
  /\ UNCHANGED <<lastActivity, open, holder>>

\* Wrong: the session takes its client for closed before client.Close() is called.
CloseEndsEarly(id) ==
  /\ Alive
  /\ holder[id] \in Closers
  /\ state' = [state EXCEPT ![id] = "dead"]
  /\ lastActivity' = [lastActivity EXCEPT ![id] = clock]
  /\ holder' = [holder EXCEPT ![id] = "free"]
  /\ sessions' = IF holder[id] = "closeAll" THEN sessions \ {id} ELSE sessions
  /\ UNCHANGED <<nextID, idleTimeout, deadTimeout, reaperVars, open, timeout, uuid, working,
                 postVars, callVars, clock, mainVars>>

\* client.Close() has returned.  CloseAll goes on to delete the session from the map.
CloseEnds(id) ==
  /\ Alive
  /\ holder[id] \in Closers
  /\ state' = [state EXCEPT ![id] = "dead"]
  /\ open' = [open EXCEPT ![id] = FALSE]
  /\ lastActivity' = [lastActivity EXCEPT ![id] = clock]
  /\ holder' = [holder EXCEPT ![id] = "free"]
  /\ sessions' = IF holder[id] = "closeAll" THEN sessions \ {id} ELSE sessions
  /\ UNCHANGED <<nextID, idleTimeout, deadTimeout, reaperVars, timeout, uuid, working,
                 postVars, callVars, clock, mainVars>>

\* The handler's Close; a panic is recovered by the router.
DeleteSession(id) ==
  /\ CallEnds("delete", id)
  /\ CloseReturns(id) \/ CloseSession(id, "delete") \/ ClosePanics(id)
  /\ UNCHANGED <<managerVars, reaperVars, timeout, uuid, working, postVars, goCloses, clock,
                 mainVars>>

\* A goroutine's Close; nobody recovers its panic.
GoCloses(id) ==
  /\ goCloses[id] > 0
  /\ goCloses' = [goCloses EXCEPT ![id] = @ - 1]
  /\ \/ CloseReturns(id) /\ UNCHANGED phase
     \/ CloseSession(id, "go") /\ UNCHANGED phase
     \/ ClosePanics(id) /\ phase' = "crashed"
  /\ UNCHANGED <<managerVars, reaperVars, timeout, uuid, working, postVars, calls, clock,
                 settled>>

-----------------------------------------------------------------------------
(* The cleanup goroutine.                                                  *)

CleanupBegins ==
  /\ LockFree
  /\ looping
  /\ mu' = "cleanup"
  /\ now' = clock
  /\ toScan' = sessions
  /\ toDelete' = {}
  /\ timeoutThen' = timeout
  /\ UNCHANGED <<managerVars, looping, stopCh, sessionVars, postVars, callVars, clock,
                 mainVars>>

\* It visits the sessions one by one, each under the session's read lock.
CleanupLocks(id) ==
  /\ SessionFree(id)
  /\ mu = "cleanup"
  /\ id \in toScan
  /\ holder' = [holder EXCEPT ![id] = "cleanup"]
  /\ UNCHANGED <<managerVars, reaperVars, state, lastActivity, open, timeout, uuid, working,
                 postVars, callVars, clock, mainVars>>

\* Wrong: a session that has no timeout of its own is never due.
ExpiredOnOwnTimeout(id) ==
  IF state[id] = "dead"
    THEN deadTimeout > 0 /\ now - lastActivity[id] > deadTimeout
    ELSE /\ state[id] \in {"idle", "starting"}
         /\ timeout[id] > 0 /\ now - lastActivity[id] > timeout[id]

\* Wrong: the manager's default goes before the session's own timeout.
ExpiredOnDefault(id) ==
  IF state[id] = "dead"
    THEN deadTimeout > 0 /\ now - lastActivity[id] > deadTimeout
    ELSE /\ state[id] \in {"idle", "starting"}
         /\ idleTimeout > 0 /\ now - lastActivity[id] > idleTimeout

\* Wrong: dead sessions are treated like idle ones.
ExpiredLikeIdle(id) ==
  /\ state[id] \in {"idle", "starting"}
  /\ EffectiveTimeout(id) > 0 /\ now - lastActivity[id] > EffectiveTimeout(id)

\* Is the session due at the time the cleanup has read?
Expired(id) ==
  IF state[id] = "dead"
    THEN deadTimeout > 0 /\ now - lastActivity[id] > deadTimeout
    ELSE /\ state[id] \in {"idle", "starting"}
         /\ EffectiveTimeout(id) > 0 /\ now - lastActivity[id] > EffectiveTimeout(id)

CleanupScans(id) ==
  /\ Alive
  /\ holder[id] = "cleanup"
  /\ holder' = [holder EXCEPT ![id] = "free"]
  /\ toScan' = toScan \ {id}
  /\ toDelete' = IF Expired(id) THEN toDelete \cup {id} ELSE toDelete
  /\ UNCHANGED <<managerVars, looping, stopCh, mu, now, timeoutThen, state, lastActivity,
                 open, timeout, uuid, working, postVars, callVars, clock, mainVars>>

\* Somebody is about to change the session, and may be waiting for its lock: its POST,
\* a handler that has found it, a Close goroutine, the worker of a statement.
WriterMayWait(id) ==
  \/ posting[id] \in {"registered", "idle"}
  \/ \E kind \in {"admitted", "cancel", "delete"} : calls[<<kind, id>>] > 0
  \/ goCloses[id] > 0
  \/ working[id] > 0

\* sess.GetIdleTimeout() takes the read lock a second time: Go's RWMutex makes it
\* queue behind the writer, which waits for the first one, for ever.
CleanupDeadlocks(id) ==
  /\ Alive
  /\ holder[id] = "cleanup"
  /\ state[id] # "dead"
  /\ WriterMayWait(id)
  /\ holder' = [holder EXCEPT ![id] = "deadlock"]
  /\ UNCHANGED <<managerVars, reaperVars, state, lastActivity, open, timeout, uuid, working,
                 postVars, callVars, clock, mainVars>>

\* Wrong: the sessions leave the map and nobody closes them.
CleanupForgets ==
  /\ Alive
  /\ mu = "cleanup"
  /\ toScan = {}
  /\ sessions' = sessions \ toDelete
  /\ toDelete' = {} /\ now' = 0 /\ timeoutThen' = [id \in Id |-> 0]
  /\ mu' = "free"
  /\ UNCHANGED <<nextID, idleTimeout, deadTimeout, looping, stopCh, toScan, sessionVars,
                 postVars, callVars, clock, mainVars>>

\* What was due leaves the map, whatever has happened to it since its scan.
CleanupDeletes ==
  /\ Alive
  /\ mu = "cleanup"
  /\ toScan = {}
  /\ sessions' = sessions \ toDelete
  /\ goCloses' = [id \in Id |-> goCloses[id] + (IF id \in toDelete THEN 1 ELSE 0)]
  /\ toDelete' = {} /\ now' = 0 /\ timeoutThen' = [id \in Id |-> 0]
  /\ mu' = "free"
  /\ UNCHANGED <<nextID, idleTimeout, deadTimeout, looping, stopCh, toScan, sessionVars,
                 postVars, calls, clock, mainVars>>

\* stopCh is noticed between two rounds.
CleanupStops ==
  /\ Alive
  /\ looping
  /\ mu # "cleanup"
  /\ stopCh = "closed"
  /\ looping' = FALSE
  /\ UNCHANGED <<managerVars, stopCh, mu, roundVars, sessionVars, postVars, callVars, clock,
                 mainVars>>

-----------------------------------------------------------------------------
(* Shutdown.                                                               *)

\* ListenAndServe fails: log.Fatalf ends the process without any deferred call.
ServerFails ==
  /\ phase = "serving"
  /\ phase' = "crashed"
  /\ UNCHANGED <<managerVars, reaperVars, sessionVars, postVars, callVars, clock, settled>>

\* SIGTERM: server.Shutdown lets no new request in ...
Signal ==
  /\ phase = "serving"
  /\ phase' = "draining"
  /\ UNCHANGED <<managerVars, reaperVars, sessionVars, postVars, callVars, clock, settled>>

\* ... and gives up after 10 seconds on the handlers that still run.  CloseAll
\* takes m.mu and keeps it.
CloseAllBegins ==
  /\ LockFree
  /\ \/ phase = "draining"  /\ phase' = "closing"
     \/ phase = "closing"   /\ phase' = "closingAgain"
     \/ phase = "panicking" /\ phase' = "unwinding"
  /\ mu' = "closeAll"
  /\ stopCh' = "closed"
  /\ UNCHANGED <<managerVars, looping, roundVars, sessionVars, postVars, callVars, clock,
                 settled>>

\* One session of the map after the other.
CloseAllAt(id) ==
  /\ mu = "closeAll"
  /\ id \in sessions
  /\ \A other \in sessions : holder[other] # "closeAll"

CloseAllCloses(id) ==
  /\ CloseAllAt(id)
  /\ \/ CloseReturns(id) /\ sessions' = sessions \ {id}
     \/ CloseSession(id, "closeAll") /\ UNCHANGED sessions
  /\ UNCHANGED <<nextID, idleTimeout, deadTimeout, reaperVars, timeout, uuid, working,
                 postVars, callVars, clock, mainVars>>

\* The panic releases m.mu; only the first CloseAll is followed by another one.
CloseAllPanics(id) ==
  /\ CloseAllAt(id)
  /\ ClosePanics(id)
  /\ mu' = "free"
  /\ phase' = IF phase = "closing" THEN "panicking" ELSE "dying"
  /\ UNCHANGED <<managerVars, looping, stopCh, roundVars, timeout, uuid, working, postVars,
                 callVars, clock, settled>>

\* Where main goes when CloseAll has released m.mu.
AfterCloseAll ==
  CASE phase = "closing"      -> "closing"
    [] phase = "closingAgain" -> "leaving"
    [] OTHER                  -> "dying"

\* Wrong: m.mu is not released.
CloseAllKeepsLock ==
  /\ Alive
  /\ mu = "closeAll"
  /\ sessions = {}
  /\ phase' = AfterCloseAll
  /\ settled' = nextID
  /\ UNCHANGED <<managerVars, reaperVars, sessionVars, postVars, callVars, clock>>

\* Wrong: a CloseAll that finds stopCh closed already takes its work for done.
CloseAllDoneBefore ==
  /\ Alive
  /\ mu = "closeAll"
  /\ phase = "closing" => sessions = {}
  /\ mu' = "free"
  /\ phase' = AfterCloseAll
  /\ settled' = nextID
  /\ UNCHANGED <<managerVars, looping, stopCh, roundVars, sessionVars, postVars, callVars,
                 clock>>

CloseAllEnds ==
  /\ Alive
  /\ mu = "closeAll"
  /\ sessions = {}
  /\ mu' = "free"
  /\ phase' = AfterCloseAll
  /\ settled' = nextID
  /\ UNCHANGED <<managerVars, looping, stopCh, roundVars, sessionVars, postVars, callVars,
                 clock>>

\* The process ends with main, whatever the other goroutines are doing.
MainReturns ==
  /\ \/ phase = "leaving" /\ phase' = "exited"
     \/ phase = "dying"   /\ phase' = "crashed"
  /\ UNCHANGED <<managerVars, reaperVars, sessionVars, postVars, callVars, clock, settled>>

-----------------------------------------------------------------------------
Next ==
  \/ Tick
  \/ PostSession
  \/ PostSessionFails
  \/ \E u \in Uuid : CreateSession(u)
  \/ StartupProbe
  \/ CleanupBegins
  \/ CleanupDeletes
  \/ CleanupStops
  \/ ServerFails
  \/ Signal
  \/ CloseAllBegins
  \/ CloseAllEnds
  \/ MainReturns
  \/ \E id \in Id :
       \/ SetStateIdle(id)
       \/ KeepDefaultTimeout(id)
       \/ \E r \in RemoteTimeouts : SetSessionTimeout(id, r)
       \/ SyncDefaultTimeout(id)
       \/ \E kind \in {"submit", "cancel", "delete"} : FindSession(kind, id)
       \/ AdmitStatement(id)
       \/ RejectStatement(id)
       \/ SubmitStatement(id)
       \/ FinishStatement(id)
       \/ CancelStatement(id)
       \/ DeleteSession(id)
       \/ GoCloses(id)
       \/ CloseEnds(id)
       \/ CleanupLocks(id)
       \/ CleanupScans(id)
       \/ CleanupDeadlocks(id)
       \/ CloseAllCloses(id)
       \/ CloseAllPanics(id)

Spec == Init /\ [][Next]_vars

\* Time passes, goroutines are scheduled, and the mutexes of Go, which hand
\* themselves to whoever has waited longest, starve nobody.  That client.Close()
\* returns (CloseEnds) is not assumed.
Fairness ==
  /\ WF_vars(Tick)
  /\ WF_vars(CleanupBegins)
  /\ WF_vars(CleanupDeletes)
  /\ SF_vars(CloseAllBegins)
  /\ WF_vars(CloseAllEnds)
  /\ WF_vars(MainReturns)
  /\ \A id \in Id :
       /\ WF_vars(CleanupLocks(id))
       /\ WF_vars(CleanupScans(id))
       /\ WF_vars(CloseAllCloses(id) \/ CloseAllPanics(id))

FairSpec == Spec /\ Fairness

-----------------------------------------------------------------------------
(* Properties.                                                             *)

ManagerTypeOK ==
  /\ sessions \subseteq Id
  /\ nextID \in 0 .. MaxSessions
  /\ idleTimeout \in Int
  /\ deadTimeout \in Int

ReaperTypeOK ==
  /\ looping \in BOOLEAN
  /\ stopCh \in {"open", "closed"}
  /\ mu \in {"free", "cleanup", "closeAll"}
  /\ now \in 0 .. MaxTime
  /\ toScan \subseteq Id
  /\ toDelete \subseteq Id
  /\ timeoutThen \in [Id -> Int]

SessionTypeOK ==
  /\ state \in [Id -> {"none", "starting", "idle", "busy", "dead", "shutting_down"}]
  /\ lastActivity \in [Id -> 0 .. MaxTime]
  /\ timeout \in [Id -> Int]
  /\ uuid \in [Id -> Uuid \cup {"none"}]
  /\ open \in [Id -> BOOLEAN]
  /\ holder \in [Id -> Holders]
  /\ working \in [Id -> Nat]

PostTypeOK ==
  /\ probing \in BOOLEAN
  /\ creating \in 0 .. MaxSessions
  /\ posting \in [Id -> {"none", "registered", "idle", "sync", "done"}]

CallTypeOK ==
  /\ calls \in [Calls \X Id -> Nat]
  /\ goCloses \in [Id -> Nat]

TypeOK ==
  /\ ManagerTypeOK
  /\ ReaperTypeOK
  /\ SessionTypeOK
  /\ PostTypeOK
  /\ CallTypeOK
  /\ clock \in 0 .. MaxTime
  /\ phase \in Phases
  /\ settled \in 0 .. MaxSessions

\* A Close of the session is at work: its client is open, or its server is told.
Closing(id) == holder[id] \in Closers

\* A Spark Connect client that is not closed belongs to a session one can still
\* reach in the map, or to one whose Close has been started: neither the
\* cleanup nor CloseAll drops a session and its client with it.
NoOrphan ==
  \A id \in Id : open[id] => id \in sessions \/ goCloses[id] > 0 \/ Closing(id)

\* A session that is reported dead holds no client any more, and one that is
\* reported shutting_down holds one only while a Close keeps its lock: whichever
\* handlers, goroutines and resurrections it has been through, no client is left
\* behind in a session that every later Close takes for terminated.
DeadIsClosed ==
  \A id \in Id : /\ state[id] = "dead" => ~open[id]
                 /\ state[id] = "shutting_down" => ~open[id] \/ Closing(id)

\* When main returns, every session that was registered before the last CloseAll
\* gave m.mu back has been closed, or its Close started: what a POST or a late
\* submit puts into the map, or back to life, while main closes the sessions is
\* caught by the second CloseAll.  An exit can still lose the Closes that have been
\* started and not awaited, the client of a POST that registers it after that
\* moment or never (see ExitReleasesAll), and log.Fatalf's exit loses everything.
ExitLeavesOnlyStarted ==
  phase = "exited" =>
    \A id \in Id : open[id] /\ id < settled => goCloses[id] > 0 \/ Closing(id)

\* Every session of the map, and every one that has left it, goes only through
\* the steps SessionContract allows: handlers that keep using a session, the
\* goroutines that close it, the cleanup and CloseAll, in whatever order they
\* come, take it where a session can go.
Contract(id) == INSTANCE SessionContract WITH
  state      <- state[id],
  open       <- open[id],
  closing    <- Closing(id),
  unfinished <- working[id],
  published  <- posting[id] \notin {"none", "registered"}

SessionsKeepContract ==
  /\ \A id \in Id : Contract(id)!Init
  /\ [][\A id \in Id : [Contract(id)!Next]_(Contract(id)!contractVars)]_vars

\* Unused for longer than a timeout, unless 0 or a negative number disables it.
UnusedFor(id, allowed) == allowed > 0 /\ lastActivity[id] + allowed < now

\* A session's own timeout, once it has one, goes before the default.
IdleTooLong(id, own) ==
  \/ own # 0 /\ UnusedFor(id, own)
  \/ own = 0 /\ UnusedFor(id, idleTimeout)

\* Its own timeout is judged as it is now, or as it was when the cleanup began: its
\* POST may take the server's over in between.  A Close that panics, or has not
\* come to its end, is a use that LastActivity does not show.
Due(id) ==
  \/ state[id] = "dead" /\ UnusedFor(id, deadTimeout)
  \/ /\ state[id] \in {"idle", "starting", "shutting_down"}
     /\ IdleTooLong(id, timeout[id]) \/ IdleTooLong(id, timeoutThen[id])

\* The cleanup removes no session but one that was past its timeout when it began,
\* or that has been used since: neither a long statement nor a timeout that the
\* server has lengthened or switched off before the round is overlooked.
RemovedWasDue ==
  [][mu = "cleanup" =>
       \A id \in sessions \ sessions' : lastActivity[id] >= now \/ Due(id)]_vars

\* The lock of some session is kept for ever: its client.Close() does not return, or
\* the cleanup waits for its own read lock.
KeptForEver == \E id \in Id : <>[](holder[id] \in Closers \cup {"deadlock"})

\* While the cleanup runs, no session stays idle in the map for ever once its
\* timeout has passed, unless the cleanup itself is held up for ever by a session.
IdleIsRemoved ==
  \A id \in Id :
    <>[](/\ phase = "serving" /\ looping
         /\ id \in sessions
         /\ state[id] = "idle"
         /\ EffectiveTimeout(id) > 0
         /\ clock - lastActivity[id] > EffectiveTimeout(id)) => KeptForEver

\* Nor does a dead one once the time it is kept has passed.
DeadIsRemoved ==
  \A id \in Id :
    <>[](/\ phase = "serving" /\ looping
         /\ id \in sessions
         /\ state[id] = "dead"
         /\ deadTimeout > 0
         /\ clock - lastActivity[id] > deadTimeout) => KeptForEver

\* After SIGTERM the process ends, unless the lock of a session is kept for ever:
\* requests that are still running, a POST that registers another session, panics
\* and sessions in any state cannot keep CloseAll from coming to its end.
ShutdownEnds ==
  phase = "draining" ~> (phase \in {"exited", "crashed"} \/ KeptForEver)

-----------------------------------------------------------------------------
(* What the documentation says and the code does not do.                   *)

\* README: all remote sessions are released before the process exits.  A POST
\* that outlasts the drain, and the goroutines of the cleanup, are not awaited.
ExitReleasesAll ==
  phase = "exited" => \A id \in Id : ~open[id]

\* README: a session can be addressed by its UUID as well as by its number.  A
\* UUID asked for twice may lead to the dead session that had it first.
UuidFindsLiveSession ==
  \A id \in sessions : state[id] \in {"idle", "busy"} =>
    \A other \in sessions : uuid[other] = uuid[id] => state[other] \notin Closed
=============================================================================
