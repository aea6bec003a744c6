--------------------------------- MODULE Locks ---------------------------------
(***************************************************************************)
(* Who waits for whom: the gateway's two kinds of read/write mutex, m.mu   *)
(* of the manager and one s.mu per session, and every order in which its   *)
(* code takes them.  A goroutine is reduced to the lock operations it still *)
(* has to do; what it does between them is in Session and Registry.        *)
(*                                                                         *)
(* The mutex is Go's sync.RWMutex: a writer first announces itself and     *)
(* then waits for the readers that are inside; a reader that comes after   *)
(* the announcement waits until that writer has left, even if it is inside *)
(* already.                                                                *)
(***************************************************************************)
EXTENDS Integers, Sequences

CONSTANTS
  Sess,       \* the sessions
  Handlers,   \* bound: goroutines that serve requests, run statements or close, at a time
  Background, \* which of "main" (CloseAll) and "cleanup" (the cleanup loop) run
  Hung        \* the sessions whose client.Close() never returns

Proc == Handlers \cup Background

Manager == "m.mu"
Lock == Sess \cup {Manager}
Nobody == "nobody"

ASSUME LocksAssumption ==
  /\ Background \subseteq {"main", "cleanup"}
  /\ Hung \subseteq Sess
  /\ Manager \notin Sess
  /\ Nobody \notin Proc

VARIABLES
  rest,      \* rest[p]: the lock operations p has still to do
  unvisited, \* unvisited[p]: the sessions that p's loop has still to visit
  readers,   \* readers[l][p]: how often p is inside l as a reader
  announced, \* announced[l]: the writer that has announced itself at l
  writing,   \* writing[l]: is it inside?
  waiting    \* waiting[l]: the readers that wait for it to leave

vars == <<rest, unvisited, readers, announced, writing, waiting>>

-----------------------------------------------------------------------------
(* What the code does to the locks.                                        *)

Reads(l)  == << <<"RLock", l>>, <<"RUnlock", l>> >>
Writes(l) == << <<"Lock", l>>, <<"Unlock", l>> >>

GetSessionByIdentifier == Reads(Manager)

\* manager.ListSessions and the four getters of its handler; GetVersion has two.
ListSessions ==
  Reads(Manager) \o Reads(Manager) \o Reads(Manager) \o Reads(Manager) \o Reads(Manager)

GetState(s) == Reads(s)
Close(s)    == Writes(s)

\* manager.CreateSession, SetState, SetAppInfo; then, if the server answers,
\* SetIdleTimeout of both and SetSparkInfo.
CreateSession(s) ==
  Writes(Manager) \o Writes(s) \o Writes(s) \o Writes(s) \o Writes(Manager) \o Writes(Manager)

\* Wrong: the lock is released before the copy is made, and by the defer again.
GetStatementUnlocksTwice(s) == GetSessionByIdentifier \o Reads(s) \o <<<<"RUnlock", s>>>>

GetStatement(s) == GetSessionByIdentifier \o Reads(s)

CancelStatement(s) == GetSessionByIdentifier \o Writes(s)

\* Wrong: m.mu is kept until the session is closed.
DeleteSessionKeepsManager(s) == <<<<"RLock", Manager>>>> \o Close(s) \o <<<<"RUnlock", Manager>>>>

DeleteSession(s) == GetSessionByIdentifier \o Close(s)

\* Wrong: the handler keeps the session's lock while it asks for its state.
SubmitStatementNested(s) ==
  GetSessionByIdentifier \o <<<<"RLock", s>>>> \o GetState(s) \o <<<<"RUnlock", s>>>> \o Writes(s)

SubmitStatement(s) == GetSessionByIdentifier \o GetState(s) \o GetState(s) \o Writes(s)

\* A worker: to begin and to record the outcome.
RunStatement(s) == Writes(s) \o Writes(s)

HandlerPrograms ==
  {GetSessionByIdentifier, ListSessions} \cup
  UNION {{CreateSession(s), GetStatement(s), CancelStatement(s), DeleteSession(s),
          SubmitStatement(s), RunStatement(s), Close(s)} : s \in Sess}

\* A session that is not dead is asked for its timeout by GetIdleTimeout, which
\* locks it once more: the inner pair.
ScansLiveSession(s) ==
  << <<"RLock", s>>, <<"RLock", s>>, <<"RUnlock", s>>, <<"RUnlock", s>> >>

CleanupScans(s) == {Reads(s), ScansLiveSession(s)}

\* What the loops of CloseAll and cleanupIdleSessions do with a session.
Visits(p, s) == IF p = "cleanup" THEN CleanupScans(s) ELSE {Close(s)}

\* Both keep m.mu from before the loop until after it.
Programs(p) == IF p \in {"main", "cleanup"} THEN {Writes(Manager)} ELSE HandlerPrograms

-----------------------------------------------------------------------------
Init ==
  /\ rest = [p \in Proc |-> <<>>]
  /\ unvisited = [p \in Proc |-> {}]
  /\ readers = [l \in Lock |-> [p \in Proc |-> 0]]
  /\ announced = [l \in Lock |-> Nobody]
  /\ writing = [l \in Lock |-> FALSE]
  /\ waiting = [l \in Lock |-> {}]

\* p's next operation is op on l.
At(p, op, l) == rest[p] # <<>> /\ Head(rest[p]) = <<op, l>>

\* A request comes in, a goroutine starts, the ticker ticks.  A loop visits whatever
\* sessions are in the map: what comes and goes is in Registry.
Start(p) ==
  /\ rest[p] = <<>>
  /\ \E program \in Programs(p) : rest' = [rest EXCEPT ![p] = program]
  /\ \E inMap \in SUBSET Sess :
       unvisited' = [unvisited EXCEPT ![p] = IF p \in {"main", "cleanup"} THEN inMap ELSE {}]
  /\ UNCHANGED <<readers, announced, writing, waiting>>

\* The next session of a loop, in any order.
VisitSession(p, s) ==
  /\ s \in unvisited[p] /\ rest[p] = <<<<"Unlock", Manager>>>>
  /\ \E visit \in Visits(p, s) : rest' = [rest EXCEPT ![p] = visit \o @]
  /\ unvisited' = [unvisited EXCEPT ![p] = @ \ {s}]
  /\ UNCHANGED <<readers, announced, writing, waiting>>

RLock(p, l) ==
  /\ At(p, "RLock", l)
  /\ p \notin waiting[l]
  /\ \/ /\ announced[l] = Nobody
        /\ readers' = [readers EXCEPT ![l][p] = @ + 1]
        /\ rest' = [rest EXCEPT ![p] = Tail(@)]
        /\ UNCHANGED waiting
     \/ /\ announced[l] # Nobody
        /\ waiting' = [waiting EXCEPT ![l] = @ \cup {p}]
        /\ UNCHANGED <<readers, rest>>
  /\ UNCHANGED <<unvisited, announced, writing>>

RUnlock(p, l) ==
  /\ At(p, "RUnlock", l)
  /\ readers' = [readers EXCEPT ![l][p] = @ - 1]
  /\ rest' = [rest EXCEPT ![p] = Tail(@)]
  /\ UNCHANGED <<unvisited, announced, writing, waiting>>

Announce(p, l) ==
  /\ At(p, "Lock", l)
  /\ announced[l] = Nobody
  /\ announced' = [announced EXCEPT ![l] = p]
  /\ UNCHANGED <<rest, unvisited, readers, writing, waiting>>

Enter(p, l) ==
  /\ At(p, "Lock", l)
  /\ announced[l] = p
  /\ ~writing[l]
  /\ \A q \in Proc : readers[l][q] = 0
  /\ writing' = [writing EXCEPT ![l] = TRUE]
  /\ rest' = [rest EXCEPT ![p] = Tail(@)]
  /\ UNCHANGED <<unvisited, readers, announced, waiting>>

\* The readers that wait are let in before another writer can announce itself.
Unlock(p, l) ==
  /\ At(p, "Unlock", l)
  /\ l = Manager => unvisited[p] = {}
  /\ announced' = [announced EXCEPT ![l] = Nobody]
  /\ writing' = [writing EXCEPT ![l] = FALSE]
  /\ readers' = [readers EXCEPT ![l] = [q \in Proc |-> @[q] + (IF q \in waiting[l] THEN 1 ELSE 0)]]
  /\ rest' = [q \in Proc |-> IF q = p \/ q \in waiting[l] THEN Tail(rest[q]) ELSE rest[q]]
  /\ waiting' = [waiting EXCEPT ![l] = {}]
  /\ UNCHANGED unvisited

Next ==
  \E p \in Proc :
    \/ Start(p)
    \/ \E s \in Sess : VisitSession(p, s)
    \/ \E l \in Lock : RLock(p, l) \/ RUnlock(p, l) \/ Announce(p, l) \/ Enter(p, l) \/ Unlock(p, l)

Spec == Init /\ [][Next]_vars

\* Goroutines run on; a mutex is handed to whoever has waited longest, so no
\* writer is passed over for ever.  Nothing promises that a hung Close ends.
Fairness ==
  \A p \in Proc, l \in Lock :
    /\ WF_vars(VisitSession(p, l))
    /\ WF_vars(RLock(p, l))
    /\ WF_vars(RUnlock(p, l))
    /\ SF_vars(Announce(p, l))
    /\ WF_vars(Enter(p, l))
    /\ l \notin Hung => WF_vars(Unlock(p, l))

FairSpec == Spec /\ Fairness

-----------------------------------------------------------------------------
(* Properties.                                                             *)

TypeOK ==
  /\ \A p \in Proc : \A i \in DOMAIN rest[p] :
       rest[p][i] \in {"RLock", "RUnlock", "Lock", "Unlock"} \X Lock
  /\ unvisited \in [Proc -> SUBSET Sess]
  /\ readers \in [Lock -> [Proc -> Nat]]
  /\ announced \in [Lock -> Proc \cup {Nobody}]
  /\ writing \in [Lock -> BOOLEAN]
  /\ waiting \in [Lock -> SUBSET Proc]

\* p cannot go on before q has done something.
WaitsFor(p, q) ==
  \E l \in Lock :
    \/ p \in waiting[l] /\ announced[l] = q
    \/ /\ At(p, "Lock", l)
       /\ \/ announced[l] = q /\ (q # p \/ writing[l])
          \/ announced[l] = p /\ readers[l][q] > 0

\* Each of them waits for another one, or for itself.
Deadlocked(procs) == procs # {} /\ \A p \in procs : \E q \in procs : WaitsFor(p, q)

\* The cleanup is about to lock a session again that it is reading already.
RereadsSession(p) == p = "cleanup" /\ \E s \in Sess : p \in waiting[s] /\ readers[s][p] > 0

\* Handlers, workers, Close goroutines and CloseAll never wait for one another in
\* a circle, whatever sessions they meet at: m.mu is taken before any s.mu and no
\* lock twice, but for the cleanup's second read lock on a session.
OnlyCleanupDeadlocks ==
  \A procs \in SUBSET Proc : Deadlocked(procs) => \E p \in procs : RereadsSession(p)

\* p's request has nothing to do with a session whose Close hangs.
Unaffected(p) == rest[p] # <<>> /\ \A i \in DOMAIN rest[p] : rest[p][i][2] \notin Hung

\* Such a request is answered: nobody keeps m.mu, or starves it, for ever.
RequestsServed == \A p \in Proc : Unaffected(p) ~> rest[p] = <<>>
=============================================================================
