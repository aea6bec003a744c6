# livy-next in TLA+

`livy-next` is a REST gateway in front of Spark Connect: a client creates a
session (one Spark Connect client each), submits statements to it, polls their
state, cancels them, reads their result page by page and deletes the session. A
background loop removes sessions that were idle for too long, and a shutdown
sequence releases them all.

This directory holds a model of the gateway's own logic, the TLC runs that check
it on small instances, and TLAPS proofs of the main safety properties for every
value of the constants.

    tlc -config MCSession.cfg Session      # and so on, see "Runs"
    tlapm SessionProofs.tla                # and so on, see "Proofs"

`PROJECT.json` maps every definition to the source lines it stands for, and lists
the runs, the mutants that show each property can fail, the hazards and the
theorems.

## 1. The system

### Components

| Component | Source | State it keeps | Operations |
|---|---|---|---|
| Session | `pkg/session/session.go` | state, statements, each with state, output and cancel function; `closeCh`, `LastActivity`, `mu` | SubmitStatement, runStatement (a goroutine per statement, with a listener on `closeCh`), CancelStatement, updateBusyStateLocked, SetState, Close, getters |
| Manager | `pkg/session/manager.go` | map of sessions, `nextID`, `idleTimeout`, `deadTimeout`, `stopCh`, `mu` | CreateSession, GetSession(ByIdentifier), ListSessions, DeleteSession(ByIdentifier), SetIdleTimeout, cleanupLoop and cleanupIdleSessions, CloseAll |
| Handlers | `pkg/api/handler.go` | none of their own | create (client, registration, `SetState(idle)`, timeout synchronisation), get, list, delete, submit, cancel, paged reads, UI proxy |
| Process | `cmd/livy-next/main.go` | flags | startup probe, HTTP server, SIGTERM, drain, CloseAll; `createClient` |
| Spark client | `pkg/spark/client.go` | gRPC session | ExecuteSQL (row limit, Arrow conversion), GetSessionTimeout, Close |
| Mock client | `pkg/spark/mock.go` | none | fixed answers, for tests |
| Router | `pkg/api/router.go` | none | routes, Recoverer, CORS |
| Console | `pkg/api/ui/index.html` | browser state | pollers for sessions and statements |

### How they interact

* A handler finds a session under `m.mu`, lets go of `m.mu`, and uses the session
  under `s.mu`. Between the two, and between two uses, anything may happen to the
  session: the submit handler checks the state, decodes the body, then submits.
* A statement runs in a goroutine. It takes `s.mu` to begin and to record its
  outcome and not while it executes. A listener goroutine turns the closing of
  `closeCh` into a cancelled context; CancelStatement cancels it by the function
  the worker has installed.
* `Close` is called by the delete handler, by `go s.Close()` of a worker that was
  told of a severed connection, by `go sess.Close()` of the cleanup and by
  CloseAll. It keeps `s.mu` across `client.Close()`.
* The cleanup keeps `m.mu` over a whole round, CloseAll keeps it until the last
  session is closed. `main` calls CloseAll once and once more by a `defer`.

### What is hard, and what correct means

| Component | Hard | Correct |
|---|---|---|
| Session | stale checks, cancellation at any moment of a worker, late answers, Close against everything else | a finished statement never changes; idle and busy say what the statements do; cancellation is heard; closing ends all workers; the client is released once |
| Manager | rounds of the cleanup against use, three timeouts that interact, resurrection of dead sessions, shutdown against handlers still running | nothing is removed that is not due, what is due is removed, no client is lost, shutdown ends |
| Locks | two kinds of lock, nested by the cleanup and CloseAll, read locks taken twice, a Close that hangs | no circle of waiting; a request is served whatever session another one hangs in |
| Paging | clamping, defaults, wrapping sums, a list that grows | pages join without gap or repetition; every item can be reached |
| Results | limits of three widths, batches of any length, conversions with edges, values JSON cannot write | every cell is where and what the query has; a bad value does not stop what comes before it |
| Creation | calls that fail or hang in the middle, readers of a session that is still being filled | no client is left open, no session half configured; the POST is answered; what is read after the answer is whole |

Every hazard has its line in `PROJECT.json`, with the properties that would catch
it or the reason that none does yet.

## 2. Modules

| Module | Models | Remarks |
|---|---|---|
| `StatementLifecycle` | what one session promises about its statements: numbered in order, each going from waiting to a final state and output that never change | the abstract specification |
| `Session` | one session with its handlers, workers, listeners and Close goroutines | implements `StatementLifecycle` and `SessionContract` |
| `SessionContract` | what one session is for the manager: a state, an open client or not, a Close at work or not, a number of unfinished statements, and how they move together | the seam between the next two and `Session` |
| `SessionProofs` | proofs about `Session`, its two refinements included | |
| `Registry`, `MCRegistry` | the manager from startup to exit: map, timeouts, cleanup, shutdown, the two locks that are kept across calls that may not return, and the handlers as far as the manager is concerned | each of its sessions keeps `SessionContract` |
| `RegistryProofs` | proofs about `Registry` | |
| `Locks`, `MCLocks`, `LocksProofs` | Go's `sync.RWMutex` and every order in which the code takes the two kinds of lock | |
| `GoIntegers` | Go's `int` and `int32`, as wide as the constants say | |
| `Paging` | pages of statements and of result rows | what `Results` is composed with, and keeps to |
| `PagingProofs` | proofs about `Paging` | |
| `Conversions` | what becomes of one cell between Arrow and JSON, as pure operators, and what a client may read from it | |
| `ConversionsProofs` | which cells a client can read back, for every value | |
| `IntegersProofs` | the integer facts these rest on: induction, division, powers | lemmas only |
| `Results`, `MCResults` | the row limit, the conversion of a table, its pages and their encoding | extends `Paging` and `Conversions` |
| `ResultsProofs` | proofs about `Results` | |
| `Creation`, `MCCreation` | POST /sessions from the request to the answer, against GETs that encode the session without its lock and against those who keep the locks it needs | |
| `CreationProofs` | proofs about `Creation` | |

Operators marked *Wrong* in their comment are faulty variants of the definition
that follows them. No specification uses them; each one shows that some property
would notice the fault.

### Session

`sessState` and `stmtState` are `s.State` and the statements' states, `worker`
the program counter of each `runStatement` goroutine:

    none -> spawned -> executing -> returned -> done

A critical section that calls nothing that blocks is one action guarded by
`LockFree`. `Close` is two (`CloseBegins`, `CloseEnds`), because `client.Close()`
runs between them with the lock kept. `AdmitStatement` and `SubmitStatement` are
the submit handler's check and its use, with everything else free to happen in
between; so are `manager.CreateSession` and `SetStateIdle`. A second
`close(s.closeCh)` is `ClosePanics`: recovered in a handler, the end of the
process in a goroutine. Of the Spark Connect client only the moment and the kind
of its answer (`ok`, `error`, `severed`) are left. `early` is a history variable:
how many statements were submitted before the session's POST made it idle. Clocks
are left out: `Evict` may take any session in a state the cleanup takes.

Code that is data or wording is left out: AppInfo, time stamps, progress other
than that it ends with `completed`, log lines.

### Registry

A session is what the manager reads of it: state, `LastActivity`, timeout, UUID,
whether its client is open, and how many statements are unfinished. Two kinds of
lock are kept while something is awaited that need not come, and these are
variables:

* `mu` is `m.mu`, kept by the cleanup over a whole round and by CloseAll.
* `holder[id]` is the session's lock. `Close` keeps it while `client.Close()` runs:
  `CloseSession` makes the session `shutting_down`, which a GET may show,
  `CloseEnds` makes it dead, and nothing says that the second follows the first.
  The cleanup keeps it while it looks at the session (`CleanupLocks`,
  `CleanupScans`), and for ever (`CleanupDeadlocks`) if a writer queues between its
  two read locks.

`calls` counts, for each session, the handlers that have looked it up and not yet
used it: submits, submits that have passed the check of the state, cancels and
deletes, several of a kind if they come. None of them needs `m.mu` any more when it
goes on. `phase` is where `main` stands:

    serving -> draining -> closing -> closing -> closingAgain -> leaving -> exited

In the first `closing` CloseAll is at work, in the second it has released `m.mu` and the
deferred call is about to take it once more. After a panic in CloseAll it is
`panicking -> unwinding -> dying -> crashed`, for the deferred call still runs. `leaving` and `dying` lie between the release of
`m.mu` and the end of the process, so that a POST which was waiting for `m.mu` may
register its session there. `ServerFails` is `log.Fatalf` in the server's goroutine:
an exit without any CloseAll. Handlers that were being served at SIGTERM may go on
until the exit: the drain gives up on them after ten seconds, and `main` does not
wait for goroutines.

A dead session may come back to life: a submit handler that saw it alive makes it
busy after its Close. The model keeps that, and what follows from it.

### SessionContract

`Session` and `Registry` look at one session from two sides, and their product is
too large for TLC. They meet in a common abstraction. `Session` implements it with the
cardinality of its unfinished statements and with a close that counts from the moment
it takes the lock: `closing` is the stretch in which `client.Close()` runs, the state
reads `shutting_down` and everything that changes the session waits. `Registry` keeps
it for each of its sessions (`Contract(id)`, a parameterised instance). What it fixes
is what the cleanup relies on: only the end of the last statement, or the POST, makes
a session idle, nothing but the end of the close of its client makes it dead, and only
a late `SetState(idle)` or submit brings it back. It does not say that `Registry` allows
everything a session may do; `Registry` bounds the statements and handlers, the contract
does not.

### Locks

A goroutine is the list of lock operations it still has to do; the operators
named after the code's functions give those lists. The loops of CloseAll and of the
cleanup take `m.mu`, visit the sessions of the map in any order (`VisitSession`) and
release it. `RLock`, `Announce`, `Enter`
and `Unlock` are the mutex: a writer announces itself, waits for the readers
inside, and later readers wait for it even if they are inside already.

### Paging

A client asks for what follows the last item it has, with any `size`. Sums wrap
as Go's `int` does; a slice whose end is before its start panics.

### Conversions

A cell is its column's type, an integer, and the type's parameter (scale, time
unit). `ExtractArrowValue` gives what `encoding/json` is handed: a shape and the
numbers it spells out, where `FormatMonthInterval`, `FormatDayTime`,
`FormatDuration`, `DecimalToString` and `Float64` do the arithmetic of the code,
widths included; `Float64` rounds every integer, whatever its size, to the nearest
one its mantissa can hold (`Spacing` apart). `IsCell` is what an Arrow array can hold:
an interval of months is an int32, a duration an int64, its unit one of four. `Says` is
the reference: what a client that knows the schema's type reads from the value, if
an answer can carry it (a NaN or an infinity is carried by none). The small decimals
and list views, which `extractArrowValue` has no case for, go by `ByDefault`: the former as
Arrow's own text, the latter through JSON; elements of collections are integers. Literals
such as 1000, 60 and 2^53 are constants, so that every boundary is within reach of a small
instance.

### Results

    executing -> converting -> available      (or error)

`TableArrives` makes the rows, `ConvertBatch` is the inner loop of
`ArrowTableToQueryResult` for one chunk of one column, `NextColumn` the
outer one, `Finish` hands the result to the statement. A table may be cut into
batches anywhere, empty ones included. `ReadEncoded`, `ReadRefused` and
`ReadOverflows` are a page that is answered, one that `json.Marshal` refuses, and
one whose slice expression panics. The list is either the rows of the result or
the statements of the session; of a statement only whether it can be encoded is
kept. `LimitIsKept` is about limits that are configured, and names no default; what
the code makes of 0 is in section 6.

### Creation

`pc` walks through `createClient` and the POST handler:

    building -> naming -> configuring -> adding -> idle -> appId -> appInfo
      -> timeout -> setTimeout -> sync -> version -> setVersion -> master -> setInfo -> created
    configuring, adding -> closing -> refused

Each call to Spark succeeds, fails, or hangs until `ContextEnds`; then it fails.
From `idle` on the session is in the map: `StateChanges` and `CloseSession` are
what others do to it. `smu` and `mmu` are its lock and the manager's, which the POST
needs for `SetState`, `SetAppInfo`, `SetIdleTimeout`, and for registration,
`SyncIdleTimeout` and `SetSparkInfo`. A Close keeps the one until `SessionClosed`, which
need not come; the cleanup and CloseAll (`KeepManager`) keep the other as long as they
are held up, and the cleanup may be held up at this session.

A GET encodes field by field (`BeginEncoding`, `EncodeField`) and takes no lock; `seen`
holds every value the field has had while it is being read. For a string that was
written meanwhile the outcome may be a torn value, for a map a part of it, a recovered
panic (`EncodingPanics`), or the end of the process (`EncodingIsFatal`). Of the fields of
a session those are encoded that the POST writes as strings or maps, and the state.

The server's timeout is a number of halves of a unit, so that there are fractions, and
`ParseSparkDuration` makes nanoseconds of it as the code does: `time.ParseDuration` cuts
off fractions of a nanosecond and refuses what an `int64` cannot hold, a bare number of
milliseconds wraps, days that no `int64` holds become its largest or its smallest value
(what the conversion from float64 yields depends on the processor; both are allowed). The
rounding of days in float64, at most about a microsecond, is left out.
`Meant` is the reference and shares no definition with the parser: `Worth` says what a
unit is, for `min` and negative days as well. `min` stands for everything the gateway does
not understand.

## 3. Runs

| Run | Instance | Shows |
|---|---|---|
| `session` (`MCSession.cfg`) | 2 statements, fair | type, state and cancellation invariants, final states are final, refinement of `StatementLifecycle` and of `SessionContract`, and four liveness properties |
| `registry` (`MCRegistry.cfg`) | 1 session, 1 unfinished statement, 2 handlers at work on it, time up to 2, started with both timeouts 0 or with 2 and 1, server timeouts disabled and 1, taken over by the manager too | no orphaned client, dead means closed and `shutting_down` closed or being closed, the session keeps `SessionContract`, only due sessions are removed, and `main` leaves nothing behind that it could have closed |
| `registry_live` (`MCRegistryLive.cfg`) | the same, fair, with 1 handler and timeouts of 1, which the manager keeps | due sessions are removed and shutdown ends, or a session's lock is kept for ever |
| `locks` (`MCLocks.cfg`) | 2 sessions, 2 handlers, CloseAll and cleanup | every circle of waiting contains the cleanup's second read lock |
| `locks_hung` (`MCLocksHung.cfg`) | 2 sessions, one of which hangs in Close, 2 handlers, no background | a session that hangs does not stop requests that have nothing to do with it |
| `results` (`MCResults.cfg`) | tables of up to 3 rows, 2 columns and 3 batches, one sample cell of every type and boundary, limits from none to beyond an `int32`, a default of 2 rows, sizes unreadable, negative, 0 to 3 and the largest two | cells in place, the limit kept, exactly which values survive, pages connect, everything before the first bad value is seen, only overflow panics |
| `creation` (`MCCreation.cfg`) | 2 configuration keys, 2 JARs, 1 reader, 9 settings of the timeout, `m.mu` and the session's lock kept by others | no client left open, nothing half configured, whole answers after the POST, the server's timeout, the POST is answered or a lock is kept for ever |

and the runs that find a disagreement with a document or a comment (section 6):
`session_severed_terminates`, `registry_exit_releases_all`, `registry_uuid`,
`locks_requests_served`, `creation_process_survives`.

### Why the bounds are enough

* *Session.* The hazards are between one statement and Close, or between a
  statement and the state another one leaves behind; two statements give both,
  and a resurrected session that is closed again. Its safety properties are also
  proved for every `MaxStatements`.
* *Registry.* Its properties are about one session and the manager; the actions
  of another session touch only its own entries, `m.mu` and the default timeout,
  which `StartupProbe` also changes. The safety properties are proved for any
  number of sessions, `registry_uuid` has two. Two handlers at work on a session give a
  submit across a delete, two submits, or two deletes at once. Time 2 is one tick past a
  timeout of 1, the server's and that for dead sessions; the gateway's own 2 is never
  reached, so that a session which is removed has the server's timeout. `MaxWork` bounds
  the unfinished statements and also the Close goroutines that statements start, not those
  of the cleanup. The liveness run has one handler, which is enough for a Close, a
  resurrection and a second Close, and keeps the manager's timeouts, which the other run
  changes.
* *Locks.* A circle of waiting needs two locks and two goroutines, or one lock
  read twice and a writer; the run has three locks and four goroutines of every
  combination. `MCLocks` uses symmetry, and only for invariants. The two runs of
  liveness use none. `Background` is empty in `locks_hung` because CloseAll and the
  cleanup do wait, with `m.mu` kept, for a session that hangs: that is hazard
  `session.go:265`, and part of why `OnlyCleanupDeadlocks` alone is not enough.
* *Results.* Three rows in up to three batches have a first, an inner, an empty
  and a last batch; two columns show what is carried from one to the next. With
  `MaxInt` 127, `Thousand` 2, `Sixty` 3 and `DayHours` 2 every field of an interval
  is reached and every scaling overflows for some values; `MaxInt32` 31 is passed
  by two limits, one of which turns negative as an `int32`; the default of 2 cuts a row
  off the tables of 3; collections hold integers beyond `Mantissa` 8. Only the largest
  sizes wrap `start + size`. Cells in place, the limit and the connection of pages and
  what becomes of the values are proved for every table, flag, size and width.
* *Creation.* Two keys and two JARs have one that fails after one that succeeded.
  Readers do not influence each other, so one is enough; the safety properties are
  proved for any number of keys, JARs and readers. With `Thousand` 3, `Sixty` 2 and `DayHours` 2
  an `int64` that ends at 500 holds 18 seconds and two days: 20 seconds are refused, two
  and a half days and a bare 60 go beyond it. There is no history server in the run of the
  properties, and one in `creation_process_survives`. Every setting is in the proof.

### Deadlock checking

It is off in every configuration: a process may exit or crash, clients may stop
calling, and bounded counters run out. In `Locks`, where being stuck is the
question, `OnlyCleanupDeadlocks` asks it of every set of goroutines, a stronger
question than whether all of them are stuck; and `RequestsServed` asks it with
fairness.

### Fairness

* Goroutines are scheduled: weak fairness of every step a started goroutine is
  able to do.
* Go's mutexes hand themselves to a goroutine that has waited too long. A writer
  therefore gets its turn although the lock is taken again and again: strong
  fairness of `Announce` in `Locks`, of `CloseAllBegins` in `Registry` and of what the
  POST does without Spark (`Local`) in `Creation`.
* `client.Close()` has no deadline. In `Registry` and `Creation` nothing says that it
  returns, and in `Locks` nothing for sessions in `Hung`. In `Session` it is assumed
  (`CloseEnds`), because its gRPC connection has keepalives: the question there is what the
  goroutines of a session make of a close that ends.
* The cleanup need not come to its end either: in `Registry` it may wait for its own read
  lock for ever (`CleanupDeadlocks`), in `Creation` nothing makes it go on. `IdleIsRemoved`,
  `DeadIsRemoved` and `ShutdownEnds` therefore except executions in which a session's
  lock is kept for ever (`KeptForEver`), and `PostIsAnswered` those in which the lock
  of its session or `m.mu` is. These exceptions are the hazards `manager.go:211` and
  `session.go:265`, not conveniences: `locks_requests_served` shows the first to happen.
* `ExecuteSQL` returns once its context is cancelled; an uncancelled query may run
  for ever.
* Time passes, and the cleanup's ticker with it.
* A worker goes on converting a table, and a POST goes on with what it does without
  Spark. A call to Spark is only assumed to be given up once its context is over,
  and contexts do end: all calls of a POST are made under a deadline.
* Nothing makes clients send requests, except in `Results`, where the question is
  what a client that goes on asking gets. It is assumed that it is sooner or later
  answered with a page that can be encoded, if there is one to be had; not with
  which size.

## 4. Proofs

`SessionProofs` proves `Spec => []SessionInv`, where

    SessionInv == TypeOK /\ Numbering /\ WorkerInv /\ BusyHasWork /\ CloseInv /\ QuietWhenIdle

* `Numbering`: exactly the first `numStatements` entries hold a statement. Without
  it `SubmitStatement` could overwrite one.
* `WorkerInv`: where a worker can stand given its statement's state, and that a
  cancelled statement whose worker executes has a cancelled context. This makes
  `CancelReachesContext` inductive: the cancel function is installed in the very
  step that makes the statement running.
* `BusyHasWork` and `QuietWhenIdle` need `UpdateBusyStateFacts`, a lemma about the
  operator that all three paths share.
* `CloseInv`: how `closeCh`, the lock and the number of closes of the client
  belong together; it yields `ReleasedExactlyOnce`, resurrections included.

From it follow `TypeCorrect`, `IdleIsQuiet`, `BusyIsJustified`, `CancelIsHeard`,
`ClientReleasedOnce`, the action property `FinishedStaysFinished`, and
`SessionRefinesLifecycle`: every step of the session is a step of
`StatementLifecycle` or a stutter. `SessionKeepsContract` is the same for
`SessionContract`, with `Pending`, the set of unfinished statements, for their number
(`PendingIsFinite`): a step adds one element to it or takes one away
(`EndingIsContractual`), and an outcome that is dropped leaves a busy session busy
because of `BusyHasWork`.

`RegistryProofs` proves `Spec => []RegistryInv` with

    RegistryInv == TypeOK /\ Room /\ PostingInv /\ SnapshotInv /\ DeadIsClosed
                     /\ NoOrphan /\ MarkedInv /\ KeptInv

* `Room`: a free id is kept for every POST that is setting up its client.
* `PostingInv`, `SnapshotInv`: a session has no timeout of its own before its POST sets
  one, nor had it one when the round began, and no POST is at work for an id that has not
  been handed out.
* `MarkedInv`: what is known of a session the cleanup has marked, until it removes
  it: it was due at the time the cleanup read, or has been used since. It carries what
  `CleanupScans` saw to `CleanupDeletes`, across everything handlers, closes and POSTs do
  in between, and gives `OnlyDueSessionsAreRemoved`.
* `KeptInv`: the session whose lock CloseAll keeps is in the map, and CloseAll keeps `m.mu`.

`Due`, of `RemovedWasDue`, is not the cleanup's own condition: it says when a session
with a timeout of its own, and one without, has been unused for too long, in any state
the cleanup may find it in or leave it in. A timeout that the server has lengthened or
disabled before the round protects the session; one that its POST takes over in the
middle of a round is judged by either.

From it follow `RegistryTypeCorrect`, `NothingIsOrphaned`, `TerminatedIsClosed` and
`OnlyDueSessionsAreRemoved`; with `ExitInv` (when main is over
the map holds nothing but what was registered after the second CloseAll had given `m.mu`
back; `settled` is the number of sessions at that moment) also `ExitLosesOnlyWhatIsStarted`,
which bounds what `registry_exit_releases_all` shows to be lost: of the sessions registered
before that moment, none but those whose Close has been started. What `log.Fatalf` loses
is everything, and no theorem is about it. `RegistryKeepsContract`, for every session at once, needs
`KnownInv` besides: no handler, goroutine, lock or statement belongs to a session that has
not been created.

`LocksProofs` proves `Spec => []LocksInv` with

    LocksInv == RestInv /\ MutexTypes /\ WriterInv /\ ReaderInv /\ WaitingInv

* `RestInv`: every list of operations is disciplined: a lock is released before
  another one is taken, but for the cleanup's second read lock. It is shown for the
  programs one by one and carried over concatenation and over `Tail`.
* `WriterInv`, `ReaderInv`, `WaitingInv`: where a goroutine stands in its list, given
  what it holds, has announced, or waits for. Without them the state of the mutexes
  says nothing of what their holders do next.

Then `NothingElseDeadlocks`, for any number of sessions and goroutines: whoever
keeps the lock of a session has nothing left to do but to release it, so that a
goroutine that is waited for at a session does not itself wait, unless it is the
cleanup at its second read lock; who is left waits for `m.mu`, whose holder can wait
only at a session.

`LocksTypeCorrect` says that no goroutine gives back a read lock it does not hold. The
mutexes count readers, so this is an invariant about balances, not about positions:

    OwedInv == \A q \in Proc : Paid(rest[q]) /\ \A l \in Lock : readers[l][q] >= Owed(rest[q], 1, l)

* `Owed(r, i, l)` is how often the list `r`, from its i-th operation on, expects to find
  its goroutine inside `l`; it looks no further than three operations ahead, which the
  deepest nesting, the cleanup's, needs.
* `Paid(r)`: each operation leaves its goroutine inside as often as what follows expects.
  It is a property of the list alone. Every program is `Fresh`: paid, and owing nothing
  at its start (`ProgramsAreFresh`). Concatenation keeps that (`FreshConcatenated`),
  which carries it to the loops of CloseAll and of the cleanup, and so to any number of
  sessions.
* A step then changes `readers` by the `Effect` of the operation it takes off the list.

`PagingProofs` proves `PagesAlwaysConnect`; its lemmas say that a page lies within
the list and that a copy extended by one is still a copy.

`ResultsProofs` proves `ResultsSpec => []ResultsInv`, where

    ResultsInv == stage and shape of the result /\ Converted /\ CellsInPlace

* `Converted` is about the conversion under way: `offset` is where the next batch
  begins (`cuts[batch]`), the columns before `column` are done, and of `column` the
  rows up to `offset`. Without it nothing ties the offset, which the code carries
  through two loops, to the row of the query.

From it follow `CellsAreInPlace`, `LimitIsAlwaysKept`, and `ResultsKeepToPaging`: every
step is a step of `Paging` or a stutter. With `PagesAlwaysConnect` that gives
`ResultPagesConnect`.

`ResultsTypeCorrect` is the type invariant of the same state, that of the reader
included. `OnlyOverflowsPanic` shows of every read that panics that `start + size` has
wrapped: with a page that begins within the list, a sum that fits ends where it began or
later, and the slice exists.

`ConversionsProofs` proves, for every cell of the types that `IsCell` lists (every type that
`detectSparkTypeFromArrow` names, but intervals of months, days and nanoseconds together), every
scale, time unit and width,

    CellsSayWhatTheyHold ==
      IsCell(c) => (Says(c, DetectSparkType(c.type), ExtractArrowValue(c)) <=> Survives(c))

so that `Survives` is not a list of exceptions that have been met but all there are, and
`ResultsProofs` carries it through limit, batches and columns to
`ValuesAlwaysSayWhatTheyHold`. Both directions need work:

* *Durations.* Quotients and remainders taken one after the other lose nothing and stay
  in their ranges (`Clock`); what has wrapped reads back as another number. Of the
  smallest `int64`, which has no negative, the fields come out negative.
* *Decimals.* What is put together from `Digits`, `Padded` and a point is what long
  division writes (`DecimalSaid`). This needs the number of digits of a number, and
  that dividing by 10^a and then by 10^b is dividing by 10^(a+b).
* *Collections.* `Float64` gives back an integer exactly when it is a multiple of
  `Spacing`.

`MonthsReadBack` and `MicrosReadBack` state the part about the two kinds of interval by
itself.

`IntegersProofs` holds what these need and the provers do not know. Powers are a
recursive function, and facts about them need induction; the library's theorem of
induction takes an operator, which the provers cannot instantiate. `SetInduction` is
induction for a set, `0 \in S` and `n \in S => n + 1 \in S` give `Nat \subseteq S`, and
follows from the well-foundedness of `<`; each use takes for `S` the set of the numbers
for which the lemma holds.

`CreationProofs` proves `Spec => [](CreationInv /\ SettledInv)` with

    CreationInv == TypeOK /\ ClientAccountedFor /\ Progress /\ Locked /\ Inherited
                     /\ TimeoutIsTheServers

* `Progress`: what is configured and added in each stretch of the POST, and that a
  client is open as long as a failure must close it.
* `Locked`: who may keep the session's lock, and when; a Close at work has an open client.
* `Inherited`: no timeout has been set before the server has answered, and what is about to
  be set is one of the results of the parser.
* `SettledInv`: a reader that began after the answer has, in every field it has
  passed but the state, what the field holds: nobody writes these any more, so that
  `seen` has one value and no race is left.

From it follow `CreationTypeCorrect`, `NoClientIsLeftOpen`, `RegisteredAreConfigured`,
`TimeoutsAreTheServers` (with the lemmas `ParsesToWhatIsMeant` about the parser,
`UnitsAgree` about its units and the operator's, and `Int64Keeps` about wrapping) and
`SettledAfterTheAnswer`.

The assumptions are those the modules name: `SessionAssumption`,
`RegistryAssumption`, `LocksAssumption`, `PagingAssumption`, `GoIntegersAssumption`,
`ConversionsAssumption`, `ResultsAssumption`, `CreationAssumption`. They say that
bounds are natural numbers, timeouts integers, that lists fit into an `int`, that an
`int32` is no wider than an `int`, that rows are as wide as their table, and what the
units of a duration are; TLC evaluates each of them on the instances it checks.

## 5. What is only model-checked

* Liveness (`CloseQuiesces`, `CancelledStops`, `SeveredCloses`,
  `EvictedIsReleased`, `IdleIsRemoved`, `DeadIsRemoved`, `ShutdownEnds`,
  `RequestsServed`, `SeenUpToTheFirstBad`, `PostIsAnswered`): temporal reasoning with
  fairness is beyond the provers used here.

Every invariant, action property and refinement that a passing run checks is proved.
The runs remain what shows that the bad cases happen at all: that a mutant is caught, that
every action fires, and that the states the theorems speak of can be reached.

## 6. Where code and documents disagree

Each is a run of TLC that must find the violation.

| Run | The code | It is said |
|---|---|---|
| `session_severed_terminates` | a session that was closed and made busy or idle again by a late submit or `SetState` is closed again: `close(s.closeCh)` panics (`session.go:262`) and ends the process | the session is terminated "automatically" (`session.go:345`) |
| `registry_exit_releases_all` | `main` awaits neither the goroutines of the cleanup nor handlers that outlast the drain (`main.go:271`) | all active sessions are released before exit (`README.md:36`) |
| `registry_uuid` | of two sessions with one UUID either may be found, a dead one too (`manager.go:75`) | number and UUID are interchangeable (`README.md:203`) |
| `locks_requests_served` | the cleanup read-locks a session twice, with `m.mu` kept (`manager.go:211`) | handlers query and cancel concurrently (`lld.md:120`) |
| `creation_process_survives` | a GET iterates over the AppInfo map of a live session without its lock while its POST writes to it (`handler.go:525`) | mutexes prevent race conditions (`lld.md:116`) |

Seen while modelling, and not made runs of their own:

* A dead session can become busy (`lld.md:92` makes dead final), and `SetState(idle)`,
  which comes after the session is in the map, overwrites `busy` (`handler.go:257`,
  against `lld.md:88`). The models keep both.
* A session may leave the map although it has just become busy: the cleanup's check
  and its deletion are not one step with the submit, which happens without `m.mu`;
  `RemovedWasDue` allows for it
  (`lastActivity[id] >= now`).
* A session whose Close panicked stays `shutting_down`, and no timeout removes it:
  `DeadIsRemoved` is about dead sessions only.
* `CancelStatement` does not count as activity.
* With both timeouts 0 at startup there is no cleanup loop, even if the server's
  timeout is taken over later (`manager.go:32`); `IdleIsRemoved` asks only while there is one.
* `log.Fatalf` (`main.go:256`) exits without closing any session, the deferred CloseAll
  included.
* NaN and infinity go through the conversion, and `json.Marshal` refuses every page and every
  list of statements that holds one (`client.go:627`, `handler.go:525`), where values are
  said to be made JSON-serializable (`client.go:331`). `Survives` excludes them, and
  `SeenUpToTheFirstBad` says what a client still gets.
* `lld.md:128-134` knows four types of a schema: `integer` for `int64` too, `double` for
  `float32`, `string` for all the rest. The code has `long`, `float` and sixteen in all
  (`client.go:551`); `DetectSparkType` follows the code. Unsigned columns are called by
  the signed type of their width, which a large value does not fit into.
* `start + size` wraps for sizes near the largest `int` and the slice panics, where
  `size` is a maximum (`session.go:460`, `handler.go:450`); `OnlyOverflowPanics` says
  that nothing else does.
* A row limit of 0 is said to be unlimited (`main.go:104`, `README.md:106`), and
  `NewClient` makes 10000 of it (`client.go:31`); one beyond an `int32` wraps (`client.go:54`).
* The values that `Survives` excludes: fractions of a second in a timestamp, 64-bit
  integers beyond 2^53 in a list or map, a list in a struct (which comes out in
  base64), the smallest interval of months, and so on.
* `min`, a unit that Spark knows, is not understood by the duration parser, which is
  said to read the durations Spark accepts (`client.go:119`); the session then has no
  timeout of its own. Nor are negative days. A bare number of more than 292 years in
  milliseconds wraps (`client.go:148`), days beyond that become what the processor makes of
  them (`client.go:137`); `TimeoutIsTheServers` leaves these settings out by name.

## 7. Not modelled

Everything planned has been built, with one exception, the web console
(`pkg/api/ui/index.html`): pollers for sessions and statements that run in the
browser, where an answer may arrive after another session has been selected
(`index.html:1966`). It keeps no state that the gateway depends on.

`Session` and `Registry` are not run as one product; `SessionContract` connects them.

Parts of modelled components that are left out:

* intervals of months, days and nanoseconds together, time zones, the width of a
  decimal of more than 64 bits, the text of a 32-bit or 64-bit decimal, and collections of
  anything but integers: data whose conversion is one library call or a
  repetition of one that is modelled;
* the reflection by which `releaseSparkSession` finds the session to release (one call,
  whose failure is logged), flags, environment and the builder of the server's
  address;
* log lines, status codes other than those of recovered panics, JSON layout.

Not to be modelled: the mock client (fixed answers), the UI reverse proxy (stateless
library code), CORS headers (formatting), generated API documents.
