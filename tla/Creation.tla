-------------------------------- MODULE Creation -------------------------------
(***************************************************************************)
(* POST /sessions from the request to its answer: the Spark client is      *)
(* built and configured, the session registered, and then filled with what *)
(* Spark says of itself while others may already read it.  GET /sessions   *)
(* and GET /sessions/{id} hand the live session to encoding/json, which    *)
(* reads it field by field and takes no lock.                              *)
(*                                                                         *)
(* A call to Spark may be answered, fail, or hang until the context of the *)
(* POST is over; then it fails.  The POST also waits for two locks which   *)
(* others keep as long as they like: m.mu, which the cleanup and CloseAll  *)
(* keep while they wait for a session, and s.mu, which Session.Close keeps *)
(* while client.Close() runs.  What the POST does to the manager's own     *)
(* timeout is in Registry.                                                 *)
(***************************************************************************)
EXTENDS Integers, Sequences, FiniteSets, GoIntegers

CONSTANTS
  Confs,     \* the keys of the request's conf
  Jars,      \* how many JARs it names
  HasHistory, \* is there a URL of a history server?
  SyncSessionTimeout, \* --sync-session-timeout
  Readers,   \* the GET handlers
  Durations, \* settings of defaultSessionTimeout: a number, in halves, and a unit
  Thousand, Sixty, DayHours  \* how many of a unit make the next one

Units == {"bare", "ns", "us", "ms", "s", "m", "min", "h", "d"}

ASSUME CreationAssumption ==
  /\ Jars \in Nat
  /\ HasHistory \in BOOLEAN /\ SyncSessionTimeout \in BOOLEAN
  /\ \A d \in Durations : d.halves \in Int /\ d.unit \in Units
  /\ Thousand \in Nat \ {0} /\ Sixty \in Nat \ {0} /\ DayHours \in Nat \ {0}

VARIABLES
  pc,       \* where the POST is
  late,     \* is the context it calls Spark with over?
  todo,     \* keys of conf still to be set
  applied,  \* keys that are set, or that Spark said are static
  added,    \* how many JARs are added
  client,   \* the Spark client: "none", "open" or "closed"
  setting,  \* defaultSessionTimeout, when the server has told it
  told,     \* has GetAppID been answered?
  remote,   \* the timeout GetSessionTimeout has returned, 0 without one
  timeout,  \* the session's own idle timeout: 0 without one, Disabled
  smu,      \* the session's lock: "free", or who keeps it across several steps
  mmu,      \* m.mu: "free", or "kept" by the cleanup or CloseAll
  field,    \* the session as far as encoding/json reads it, field by field
  at,       \* the field a GET handler is reading, "out" if it reads none
  seen,     \* the values the field has had since it began with it
  shown,    \* what it has read; Panicked if json.Marshal panicked
  settled,  \* did it begin when the POST was answered?
  process   \* "up" or "dead"

spark   == <<todo, applied, added, client>>
inherit == <<told, setting, remote, timeout>>
locks   == <<smu, mmu>>
reading == <<at, seen, shown, settled>>
vars    == <<pc, late, spark, inherit, locks, field, reading, process>>

-----------------------------------------------------------------------------
Registering == {"building", "naming", "configuring", "adding", "closing"}

\* Where the POST waits for Spark under a deadline.
Calling == {"building", "naming", "configuring", "adding",
            "appId", "timeout", "version", "master"}

Fields == {"appId", "state", "appInfo", "sparkVersion"}

\* The order of the struct's fields.
NextField(f) ==
  CASE f = "appId" -> "state" [] f = "state" -> "appInfo"
    [] f = "appInfo" -> "sparkVersion" [] f = "sparkVersion" -> "out"

\* Every value is a set, of what there is to be known.
Unknown  == {}
Torn     == {"torn"}
Panicked == {"panic"}

\* The entries SetAppInfo makes, in its order.
InfoOrder == <<"sparkAppId", "sparkUiUrl", "sparkConnectUiUrl", "sparkHistoryUrl">>

InfoKeys(appId) ==
  {"sparkUiUrl", "sparkConnectUiUrl"}
  \cup (IF appId = Unknown THEN {} ELSE {"sparkAppId"})
  \cup (IF HasHistory /\ appId # Unknown THEN {"sparkHistoryUrl"} ELSE {})

-----------------------------------------------------------------------------
(* Durations, in nanoseconds, which Go keeps in an int64.                  *)

Disabled == -1

\* Before the server has told any, the session has none.
NoSetting == [halves |-> 0, unit |-> "bare"]

Nanosecond  == 1
Microsecond == Thousand * Nanosecond
Millisecond == Thousand * Microsecond
Second      == Thousand * Millisecond
Minute      == Sixty * Second
Hour        == Sixty * Minute

InInt64(n) == -MaxInt - 1 <= n /\ n <= MaxInt

\* The units time.ParseDuration knows.
UnitMap == [ns |-> Nanosecond, us |-> Microsecond, ms |-> Millisecond,
            s |-> Second, m |-> Minute, h |-> Hour]

\* time.ParseDuration: fractions of a nanosecond are cut off, and what an int64
\* cannot hold is an error.
ParseDuration(halves, unit) ==
  LET n == Quo(halves * UnitMap[unit], 2) IN IF InInt64(n) THEN n ELSE 0

\* Days are not negative; a float64 that no int64 can hold is converted as the
\* processor has it, to the largest or to the smallest one.
ParseDays(halves) ==
  LET n == Quo(halves * (DayHours * Hour), 2)
  IN  IF halves < 0 THEN {0} ELSE IF InInt64(n) THEN {n} ELSE {MaxInt, -MaxInt - 1}

\* A whole number of milliseconds that an int64 can hold; the nanoseconds wrap.
ParseBare(halves) ==
  LET n == Quo(halves, 2)
  IN  IF halves % 2 # 0 \/ ~InInt64(n) THEN 0 ELSE Int64(n * Millisecond)

\* Wrong: a number without a unit counts seconds.
ParseBareSeconds(d) ==
  CASE d.unit = "d"    -> ParseDays(d.halves)
    [] d.unit = "bare" -> {Int64(Quo(d.halves, 2) * Second)}
    [] d.unit = "min"  -> {0}
    [] OTHER           -> {ParseDuration(d.halves, d.unit)}

\* The durations it may return, 0 with an error: "min", which stands for all that
\* nobody here knows, is no unit.
ParseSparkDuration(d) ==
  IF d.halves = -2 /\ d.unit \in {"bare", "ms", "s", "m"} THEN {Disabled}
  ELSE CASE d.unit = "d"    -> ParseDays(d.halves)
         [] d.unit = "bare" -> {ParseBare(d.halves)}
         [] d.unit = "min"  -> {0}
         [] OTHER           -> {ParseDuration(d.halves, d.unit)}

-----------------------------------------------------------------------------
Init ==
  /\ pc = "building" /\ late = FALSE
  /\ todo = Confs /\ applied = {} /\ added = 0
  /\ client = "none"
  /\ told = FALSE /\ setting = NoSetting /\ remote = 0 /\ timeout = 0
  /\ smu = "free" /\ mmu = "free"
  /\ field = [f \in Fields |-> IF f = "state" THEN {"starting"} ELSE Unknown]
  /\ at = [r \in Readers |-> "out"]
  /\ seen = [r \in Readers |-> {}]
  /\ shown = [r \in Readers |-> [f \in Fields |-> Unknown]]
  /\ settled = [r \in Readers |-> FALSE]
  /\ process = "up"

Serving == process = "up"

Goto(p) == pc' = p

\* A call to Spark comes back, successful only before the context is over and on a
\* client that nobody has closed.
Answered(ok) == Serving /\ (ok => ~late /\ client # "closed")

\* A field is written.  Who is reading it may see any of its values.
Write(f, value) ==
  /\ field' = [field EXCEPT ![f] = value]
  /\ seen' = [r \in Readers |-> IF at[r] = f THEN seen[r] \cup {value} ELSE seen[r]]

-----------------------------------------------------------------------------
(* createClient.                                                           *)

\* The fifteen seconds of createClient or the three of the handler are over; in
\* the handler's case the client may also have hung up.
ContextEnds ==
  /\ Serving /\ pc \in Calling /\ ~late
  /\ late' = TRUE
  /\ UNCHANGED <<pc, spark, inherit, locks, field, reading, process>>

BuildSession(ok) ==
  /\ pc = "building" /\ Answered(ok)
  /\ client' = IF ok THEN "open" ELSE "none"
  /\ Goto(IF ok THEN "naming" ELSE "refused")
  /\ UNCHANGED <<late, todo, applied, added, inherit, locks, field, reading,
                 process>>

\* Whether spark.app.name could be set does not matter.
NameApp(ok) ==
  /\ pc = "naming" /\ Answered(ok)
  /\ Goto("configuring")
  /\ UNCHANGED <<late, spark, inherit, locks, field, reading, process>>

\* Wrong: a key that cannot be set is passed over.
SetConfigLenient(k, outcome) ==
  /\ pc = "configuring" /\ k \in todo /\ Answered(outcome # "error")
  /\ todo' = todo \ {k}
  /\ applied' = IF outcome = "error" THEN applied ELSE applied \cup {k}
  /\ UNCHANGED <<pc, late, added, client, inherit, locks, field, reading, process>>

\* Wrong: configured without the context, whose end it does not notice.
SetConfigForEver(k, outcome) ==
  /\ pc = "configuring" /\ k \in todo /\ Serving /\ ~late
  /\ todo' = todo \ {k}
  /\ applied' = applied \cup {k}
  /\ UNCHANGED <<pc, late, added, client, inherit, locks, field, reading, process>>

\* The keys of a Go map come in any order.  A static one is skipped; another error
\* gives up.
SetConfig(k, outcome) ==
  /\ pc = "configuring" /\ k \in todo /\ Answered(outcome # "error")
  /\ todo' = todo \ {k}
  /\ applied' = IF outcome = "error" THEN applied ELSE applied \cup {k}
  /\ Goto(IF outcome = "error" THEN "closing" ELSE pc)
  /\ UNCHANGED <<late, added, client, inherit, locks, field, reading, process>>

Configured ==
  /\ Serving /\ pc = "configuring" /\ todo = {}
  /\ Goto("adding")
  /\ UNCHANGED <<late, spark, inherit, locks, field, reading, process>>

\* Wrong: a JAR that cannot be added leaves the client open.
AddJarLeaks(ok) ==
  /\ pc = "adding" /\ added < Jars /\ Answered(ok)
  /\ added' = IF ok THEN added + 1 ELSE added
  /\ Goto(IF ok THEN pc ELSE "refused")
  /\ UNCHANGED <<late, todo, applied, client, inherit, locks, field, reading,
                 process>>

\* Wrong: one JAR too many.
AddJarOnceMore(ok) ==
  /\ pc = "adding" /\ added <= Jars /\ Answered(ok)
  /\ added' = IF ok THEN added + 1 ELSE added
  /\ Goto(IF ok THEN pc ELSE "closing")
  /\ UNCHANGED <<late, todo, applied, client, inherit, locks, field, reading,
                 process>>

AddJar(ok) ==
  /\ pc = "adding" /\ added < Jars /\ Answered(ok)
  /\ added' = IF ok THEN added + 1 ELSE added
  /\ Goto(IF ok THEN pc ELSE "closing")
  /\ UNCHANGED <<late, todo, applied, client, inherit, locks, field, reading,
                 process>>

\* client.Close, which has no deadline, and the answer 500.
CloseClient ==
  /\ Serving /\ pc = "closing"
  /\ client' = "closed"
  /\ Goto("refused")
  /\ UNCHANGED <<late, todo, applied, added, inherit, locks, field, reading,
                 process>>

-----------------------------------------------------------------------------
(* The handler: registration, and what Spark says of itself.               *)

Registered == pc \notin Registering \cup {"refused"}

\* createClient returns, its context cancelled, and manager.CreateSession registers
\* the session; from here on others find it.
CreateSession ==
  /\ Serving /\ pc = "adding" /\ added = Jars
  /\ mmu = "free"
  /\ late' = TRUE
  /\ Goto("idle")
  /\ UNCHANGED <<spark, inherit, locks, field, reading, process>>

\* SetState, and the handler's own context.
SetStateIdle ==
  /\ Serving /\ pc = "idle"
  /\ smu = "free"
  /\ Write("state", {"idle"})
  /\ late' = FALSE
  /\ Goto("appId")
  /\ UNCHANGED <<spark, inherit, locks, at, shown, settled, process>>

\* GetAppID, whose error is an empty id.
GetAppID(ok) ==
  /\ pc = "appId" /\ Answered(ok)
  /\ told' = ok
  /\ Goto("appInfo")
  /\ UNCHANGED <<late, spark, setting, remote, timeout, locks, field, reading, process>>

\* SetAppInfo takes the session's lock, sets its AppID, ...
BeginAppInfo ==
  /\ Serving /\ pc = "appInfo"
  /\ smu = "free"
  /\ smu' = "appInfo"
  /\ Write("appId", IF told THEN {"known"} ELSE Unknown)
  /\ UNCHANGED <<pc, late, spark, inherit, mmu, at, shown, settled, process>>

\* ... makes one assignment to the map after the other ...
PutAppInfo(i) ==
  LET missing == InfoKeys(field["appId"]) \ field["appInfo"]
  IN /\ Serving /\ smu = "appInfo"
     /\ InfoOrder[i] \in missing
     /\ \A j \in 1 .. i - 1 : InfoOrder[j] \notin missing
     /\ Write("appInfo", field["appInfo"] \cup {InfoOrder[i]})
     /\ UNCHANGED <<pc, late, spark, inherit, locks, at, shown, settled, process>>

\* ... and gives the lock back.
EndAppInfo ==
  /\ Serving /\ smu = "appInfo"
  /\ field["appInfo"] = InfoKeys(field["appId"])
  /\ smu' = "free"
  /\ Goto("timeout")
  /\ UNCHANGED <<late, spark, inherit, mmu, field, reading, process>>

\* Nothing is set for an error, a setting that is not understood, or zero.
GetSessionTimeout(ok) ==
  /\ pc = "timeout" /\ Answered(ok)
  /\ IF ok THEN setting' \in Durations ELSE UNCHANGED setting
  /\ remote' \in IF ok THEN ParseSparkDuration(setting') ELSE {0}
  /\ Goto(IF remote' = 0 THEN "version" ELSE "setTimeout")
  /\ UNCHANGED <<late, spark, told, timeout, locks, field, reading, process>>

\* The session's SetIdleTimeout ...
SetIdleTimeout ==
  /\ Serving /\ pc = "setTimeout"
  /\ smu = "free"
  /\ timeout' = IF remote > 0 THEN remote ELSE Disabled
  /\ Goto(IF remote > 0 /\ SyncSessionTimeout THEN "sync" ELSE "version")
  /\ UNCHANGED <<late, spark, told, setting, remote, locks, field, reading, process>>

\* ... and the manager's.
SyncIdleTimeout ==
  /\ Serving /\ pc = "sync"
  /\ mmu = "free"
  /\ Goto("version")
  /\ UNCHANGED <<late, spark, inherit, locks, field, reading, process>>

\* Whoever returns cancels the context it has made.
GetSparkVersion(ok) ==
  /\ pc = "version" /\ Answered(ok)
  /\ late' = (late \/ ~ok)
  /\ Goto(IF ok THEN "setVersion" ELSE "created")
  /\ UNCHANGED <<spark, inherit, locks, field, reading, process>>

\* Wrong: the version is filled in behind the answer.
SetSparkVersionLate ==
  /\ Serving /\ pc = "created"
  /\ Write("sparkVersion", {"known"})
  /\ UNCHANGED <<pc, late, spark, inherit, locks, at, shown, settled, process>>

\* An assignment without the session's lock.
SetSparkVersion ==
  /\ Serving /\ pc = "setVersion"
  /\ Write("sparkVersion", {"known"})
  /\ Goto("master")
  /\ UNCHANGED <<late, spark, inherit, locks, at, shown, settled, process>>

\* GetMaster, whose error is an empty string.
GetMaster(ok) ==
  /\ pc = "master" /\ Answered(ok)
  /\ Goto("setInfo")
  /\ UNCHANGED <<late, spark, inherit, locks, field, reading, process>>

\* SetSparkInfo tells the manager the version and the master; the answer is 201.
SetSparkInfo ==
  /\ Serving /\ pc = "setInfo"
  /\ mmu = "free"
  /\ late' = TRUE
  /\ Goto("created")
  /\ UNCHANGED <<spark, inherit, locks, field, reading, process>>

-----------------------------------------------------------------------------
(* What others do to the manager, and to a session that is registered.     *)

\* The cleanup and CloseAll keep m.mu while they wait for the lock of one session
\* or another, or for its client.Close(), perhaps for ever.
KeepManager ==
  /\ Serving /\ mmu = "free"
  /\ mmu' = "kept"
  /\ UNCHANGED <<pc, late, spark, inherit, smu, field, reading, process>>

LeaveManager ==
  /\ Serving /\ mmu = "kept" /\ smu # "cleanup"
  /\ mmu' = "free"
  /\ UNCHANGED <<pc, late, spark, inherit, smu, field, reading, process>>

\* The cleanup reads this one under its lock; the second read lock it takes may keep
\* it there.
CleanupReads ==
  /\ Serving /\ Registered /\ mmu = "kept" /\ smu = "free"
  /\ smu' = "cleanup"
  /\ UNCHANGED <<pc, late, spark, inherit, mmu, field, reading, process>>

CleanupHasRead ==
  /\ Serving /\ smu = "cleanup"
  /\ smu' = "free"
  /\ UNCHANGED <<pc, late, spark, inherit, mmu, field, reading, process>>

\* Statements are submitted and end.
StateChanges(s) ==
  /\ Serving /\ Registered /\ smu = "free"
  /\ s = "idle" => field["state"] = {"busy"}
  /\ field["state"] # {s}
  /\ Write("state", {s})
  /\ UNCHANGED <<pc, late, spark, inherit, locks, at, shown, settled, process>>

\* DELETE, the cleanup or CloseAll: the session's lock is kept while its client is
\* closed.  The Close of a session that was brought back panics.
CloseSession ==
  /\ Serving /\ Registered /\ smu = "free"
  /\ field["state"] \notin {{"dead"}, {"shutting_down"}}
  /\ Write("state", {"shutting_down"})
  /\ smu' = IF client = "open" THEN "close" ELSE "free"
  /\ UNCHANGED <<pc, late, spark, inherit, mmu, at, shown, settled, process>>

\* client.Close() has returned; it has no deadline.
SessionClosed ==
  /\ Serving /\ smu = "close"
  /\ client' = "closed"
  /\ Write("state", {"dead"})
  /\ smu' = "free"
  /\ UNCHANGED <<pc, late, todo, applied, added, inherit, mmu, at, shown,
                 settled, process>>

-----------------------------------------------------------------------------
(* GET: the session is found and encoded.                                  *)

BeginEncoding(r) ==
  /\ Serving /\ Registered /\ at[r] = "out"
  /\ at' = [at EXCEPT ![r] = "appId"]
  /\ seen' = [seen EXCEPT ![r] = {field["appId"]}]
  /\ shown' = [shown EXCEPT ![r] = [f \in Fields |-> Unknown]]
  /\ settled' = [settled EXCEPT ![r] = pc = "created"]
  /\ UNCHANGED <<pc, late, spark, inherit, locks, field, process>>

\* What may be made of a field: of a string that was written meanwhile the pointer
\* of one and the length of another, of a map that has grown any part.
Readings(f, values) ==
  IF Cardinality(values) = 1 THEN values
  ELSE IF f = "appInfo"
       THEN {part \in SUBSET UNION values : \E v \in values : v \subseteq part}
       ELSE values \cup {Torn}

EncodeField(r) ==
  LET f == at[r]
      next == NextField(f)
  IN /\ Serving /\ f # "out"
     /\ \E value \in Readings(f, seen[r]) : shown' = [shown EXCEPT ![r][f] = value]
     /\ at' = [at EXCEPT ![r] = next]
     /\ seen' = [seen EXCEPT ![r] = IF next = "out" THEN {} ELSE {field[next]}]
     /\ UNCHANGED <<pc, late, spark, inherit, locks, field, settled, process>>

Raced(r) == at[r] = "appInfo" /\ Cardinality(seen[r]) > 1

\* A map that has grown since it was measured: index out of range, and a 500.
EncodingPanics(r) ==
  /\ Serving /\ Raced(r)
  /\ shown' = [shown EXCEPT ![r]["appInfo"] = Panicked]
  /\ at' = [at EXCEPT ![r] = "out"]
  /\ seen' = [seen EXCEPT ![r] = {}]
  /\ UNCHANGED <<pc, late, spark, inherit, locks, field, settled, process>>

\* The runtime notices a write during an iteration and ends the process.
EncodingIsFatal(r) ==
  /\ Serving /\ Raced(r)
  /\ process' = "dead"
  /\ UNCHANGED <<pc, late, spark, inherit, locks, field, reading>>

-----------------------------------------------------------------------------
Calls(ok) ==
  \/ BuildSession(ok) \/ NameApp(ok) \/ AddJar(ok)
  \/ GetAppID(ok) \/ GetSessionTimeout(ok) \/ GetSparkVersion(ok) \/ GetMaster(ok)
  \/ \E k \in Confs : \E outcome \in (IF ok THEN {"ok", "static"} ELSE {"error"}) :
       SetConfig(k, outcome)

Local ==
  \/ Configured \/ CreateSession \/ SetStateIdle
  \/ BeginAppInfo \/ (\E i \in DOMAIN InfoOrder : PutAppInfo(i)) \/ EndAppInfo
  \/ SetIdleTimeout \/ SyncIdleTimeout \/ SetSparkVersion \/ SetSparkInfo

Others ==
  \/ KeepManager \/ LeaveManager \/ CleanupReads \/ CleanupHasRead
  \/ (\E s \in {"idle", "busy"} : StateChanges(s))
  \/ CloseSession \/ SessionClosed

Next ==
  \/ ContextEnds \/ Local \/ CloseClient
  \/ Others
  \/ \E ok \in BOOLEAN : Calls(ok)
  \/ \E r \in Readers : \/ BeginEncoding(r) \/ EncodeField(r)
                        \/ EncodingPanics(r) \/ EncodingIsFatal(r)

Spec == Init /\ [][Next]_vars

\* The POST goes on; it gets a lock that is free again and again, as Go's mutexes
\* promise; time passes, and a call is given up when its context is over.  Nothing
\* is assumed of closing a client, nor of who keeps m.mu.
FairSpec ==
  Spec /\ SF_vars(Local) /\ WF_vars(ContextEnds) /\ WF_vars(late /\ Calls(FALSE))

-----------------------------------------------------------------------------
(* Properties.                                                             *)

TypeOK ==
  /\ pc \in Registering \cup Calling \cup
           {"idle", "appInfo", "setTimeout", "sync", "setVersion", "setInfo",
            "created", "refused"}
  /\ late \in BOOLEAN
  /\ todo \subseteq Confs /\ applied \subseteq Confs
  /\ added \in 0 .. Jars
  /\ client \in {"none", "open", "closed"}
  /\ setting \in Durations \cup {NoSetting}
  /\ told \in BOOLEAN
  /\ remote \in Int
  /\ timeout \in Int
  /\ smu \in {"free", "appInfo", "cleanup", "close"}
  /\ mmu \in {"free", "kept"}
  /\ DOMAIN field = Fields
  /\ at \in [Readers -> Fields \cup {"out"}]
  /\ settled \in [Readers -> BOOLEAN]
  /\ process \in {"up", "dead"}

\* However far createClient got, a POST that is refused leaves no client open, and
\* a session that others can find has one, open until the session is closed.
ClientAccountedFor ==
  /\ pc = "refused" => client # "open"
  /\ Registered => client # "none"

\* No session is registered that has not all of its configuration and its JARs.
RegisteredIsConfigured ==
  Registered => applied = Confs /\ added = Jars

\* Who asks after the POST was answered gets the whole of what Spark said, whatever
\* readers and writers did before and still do to the state.
SettledOnceAnswered ==
  \A r \in Readers : settled[r] /\ at[r] = "out" =>
    \A f \in Fields \ {"state"} : shown[r][f] = field[f]

\* What a unit is worth: a bare number counts milliseconds.
Worth ==
  LET us   == Thousand
      ms   == Thousand * us
      sec  == Thousand * ms
      min  == Sixty * sec
      hour == Sixty * min
      day  == DayHours * hour
  IN  [ns |-> 1, us |-> us, bare |-> ms, ms |-> ms, s |-> sec, m |-> min, min |-> min,
       h |-> hour, d |-> day]

\* What the server's operator means by a setting, in whole nanoseconds.
Meant(d) == Quo(d.halves * Worth[d.unit], 2)

\* The settings the gateway does not understand, though Spark may: minutes written
\* "min", negative days, and a fraction without a unit.
Foreign(d) ==
  \/ d.unit = "min"
  \/ d.unit = "d" /\ d.halves < 0
  \/ d.unit = "bare" /\ d.halves % 2 # 0

\* Once the server has told its timeout, the session has it, disabled if it is
\* negative, and no other: none is lost or misread, but a foreign one, which leaves
\* the session with the default, and one of more nanoseconds than an int64 holds.
TimeoutIsTheServers ==
  LET meant == Meant(setting)
  IN  pc # "setTimeout" /\ InInt64(meant) =>
        timeout = IF Foreign(setting) THEN 0 ELSE IF meant < 0 THEN Disabled ELSE meant

\* A POST is answered, however long Spark takes, unless the process ends, or it is
\* closing a client of its own, or somebody keeps the lock it waits for for ever: a
\* Close of the session that hangs, the cleanup, or CloseAll.
PostIsAnswered ==
  (pc = "building") ~>
    \/ pc \in {"created", "refused", "closing"} \/ process = "dead"
    \/ <>[](smu \in {"close", "cleanup"}) \/ <>[](mmu = "kept")

\* lld.md: mutexes "prevent race conditions" on sessions.  The encoder takes none.
ProcessSurvives == process = "up"
=============================================================================
