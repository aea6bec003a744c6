---------------------------- MODULE CreationProofs ----------------------------
(***************************************************************************)
(* Creation for every configuration and any number of JARs and readers:    *)
(* its types, what createClient leaves behind, and that an encoder that    *)
(* begins after the answer sees what Spark said whole.                     *)
(***************************************************************************)
EXTENDS Creation, IntegersProofs, FiniteSetTheorems

\* The three stretches of the POST and what is done in each.
Progress ==
  /\ pc \notin {"closing", "refused"} => applied \cup todo = Confs
  /\ Registered \/ pc = "adding" => todo = {}
  /\ Registered => added = Jars
  /\ pc = "building" => client = "none"
  /\ pc \in {"naming", "configuring", "adding", "closing"} => client = "open"

\* Nobody writes what a reader that began after the answer still has to read, but
\* the state.
Passed(r) ==
  CASE at[r] = "appId"        -> {}
    [] at[r] = "state"        -> {"appId"}
    [] at[r] = "appInfo"      -> {"appId"}
    [] at[r] = "sparkVersion" -> {"appId", "appInfo"}
    [] at[r] = "out"          -> {"appId", "appInfo", "sparkVersion"}

SettledReader(r) ==
  settled[r] =>
    /\ pc = "created"
    /\ at[r] \notin {"out", "state"} => seen[r] = {field[at[r]]}
    /\ \A f \in Passed(r) : shown[r][f] = field[f]

Shapes ==
  /\ DOMAIN seen = Readers
  /\ DOMAIN shown = Readers
  /\ \A r \in Readers : DOMAIN shown[r] = Fields

SettledInv == Shapes /\ \A r \in Readers : SettledReader(r)

\* Who may keep the session's lock, and when.
Locked ==
  /\ ~Registered => smu = "free"
  /\ smu = "appInfo" => pc = "appInfo"
  /\ smu = "close" => client = "open"

Untold == setting = NoSetting /\ remote = 0 /\ timeout = 0

\* The timeout on its way from the server to the session.
Inherited ==
  /\ pc \in Registering \cup {"refused", "idle", "appId", "appInfo", "timeout"} => Untold
  /\ pc = "setTimeout" =>
       setting \in Durations /\ remote \in ParseSparkDuration(setting) /\ remote # 0

CreationInv ==
  TypeOK /\ ClientAccountedFor /\ Progress /\ Locked /\ Inherited /\ TimeoutIsTheServers

-----------------------------------------------------------------------------
(* Durations.                                                              *)

\* An int64 is any number that fits it, and always a number.
LEMMA Int64Keeps ==
  ASSUME NEW n \in Int
  PROVE  Int64(n) \in Int /\ (InInt64(n) => Int64(n) = n)
<1> DEFINE m == 2 * (MaxInt + 1)
           k == n + MaxInt + 1
<1>1. MaxInt \in Nat
  BY GoIntegersAssumption
<1>2. m \in Nat \ {0} /\ k \in Int
  BY <1>1
<1>3. k % m \in 0 .. m - 1
  <2> HIDE DEF m, k
  <2> QED
    BY <1>2, Division
<1>4. ASSUME InInt64(n) PROVE k % m = k
  <2>1. k \in 0 .. m - 1
    BY <1>1, <1>4 DEF InInt64
  <2>2. m * 0 + k = k
    BY <1>1
  <2> HIDE DEF m, k
  <2> QED
    BY <1>2, <2>1, <2>2, DivisionIsUnique
<1>5. Int64(n) = (k % m) - MaxInt - 1
  BY DEF Int64, Wrap
<1> HIDE DEF m
<1>6. ASSUME InInt64(n) PROVE Int64(n) = n
  BY <1>1, <1>4, <1>5, <1>6
<1> HIDE DEF k
<1> QED
  BY <1>1, <1>3, <1>5, <1>6

LEMMA HalfOfANumber ==
  ASSUME NEW n \in Int
  PROVE  /\ Quo(n, 2) \in Int
         /\ n < -1 => Quo(n, 2) < 0
         /\ n % 2 = 0 => 2 * Quo(n, 2) = n
BY DEF Quo

LEMMA HalfOfTwice ==
  ASSUME NEW n \in Int
  PROVE  Quo(2 * n, 2) = n
BY DEF Quo

LEMMA ProductIsPositive ==
  ASSUME NEW a \in Nat \ {0}, NEW b \in Nat \ {0}
  PROVE  a * b \in Nat \ {0}
OBVIOUS

\* The gateway's units and the operator's are worth the same.
LEMMA UnitsAgree ==
  /\ \A u \in Units : Worth[u] \in Nat \ {0}
  /\ \A u \in {"ns", "us", "ms", "s", "m", "h"} : UnitMap[u] = Worth[u]
  /\ Worth["bare"] = Millisecond
  /\ Worth["d"] = DayHours * Hour
<1>1. Nanosecond = 1
  BY DEF Nanosecond
<1>2. Microsecond \in Nat \ {0} /\ Microsecond = Thousand
  BY CreationAssumption DEF Microsecond, Nanosecond
<1>3. Millisecond \in Nat \ {0}
  BY <1>2, CreationAssumption, ProductIsPositive DEF Millisecond
<1>4. Second \in Nat \ {0}
  BY <1>3, CreationAssumption, ProductIsPositive DEF Second
<1>5. Minute \in Nat \ {0}
  BY <1>4, CreationAssumption, ProductIsPositive DEF Minute
<1>6. Hour \in Nat \ {0}
  BY <1>5, CreationAssumption, ProductIsPositive DEF Hour
<1>7. DayHours * Hour \in Nat \ {0}
  BY <1>6, CreationAssumption, ProductIsPositive
<1>8. /\ Millisecond = Thousand * Microsecond /\ Second = Thousand * Millisecond
      /\ Minute = Sixty * Second /\ Hour = Sixty * Minute
  BY DEF Millisecond, Second, Minute, Hour
<1>9. Worth = [ns |-> 1, us |-> Microsecond, bare |-> Millisecond, ms |-> Millisecond,
               s |-> Second, m |-> Minute, min |-> Minute, h |-> Hour,
               d |-> DayHours * Hour]
  BY <1>2, <1>8, Zenon DEF Worth
<1>10. UnitMap = [ns |-> 1, us |-> Microsecond, ms |-> Millisecond,
                  s |-> Second, m |-> Minute, h |-> Hour]
  BY <1>1, Zenon DEF UnitMap
<1> QED
  BY <1>2, <1>3, <1>4, <1>5, <1>6, <1>7, <1>9, <1>10 DEF Units

LEMMA SettingHasAWorth ==
  ASSUME NEW d \in Durations
  PROVE  d.halves \in Int /\ d.unit \in Units /\ Worth[d.unit] \in Nat \ {0}
BY CreationAssumption, UnitsAgree

\* What a setting is parsed to (client.go:122).
LEMMA ParsesToWhatIsMeant ==
  ASSUME NEW d \in Durations, NEW r \in ParseSparkDuration(d)
  PROVE  /\ r \in Int
         /\ InInt64(Meant(d)) =>
              IF Foreign(d) THEN r = 0 ELSE r = Meant(d) \/ (r < 0 /\ Meant(d) < 0)
<1> DEFINE n == d.halves
           w == Worth[d.unit]
<1>1. n \in Int /\ d.unit \in Units /\ w \in Nat \ {0} /\ n * w \in Int
  BY SettingHasAWorth
<1>2. Meant(d) = Quo(n * w, 2)
  BY DEF Meant
<1>3. MaxInt \in Nat
  BY GoIntegersAssumption
<1> HIDE DEF w
<1>4. CASE n = -2 /\ d.unit \in {"bare", "ms", "s", "m"}
  <2>1. r = -1
    BY <1>4 DEF ParseSparkDuration, Disabled
  <2>2. ~Foreign(d)
    BY <1>4 DEF Foreign
  <2>3. n * w < -1
    BY <1>1, <1>4
  <2>4. Meant(d) < 0
    <3> HIDE DEF n
    <3> QED
      BY <1>1, <1>2, <2>3, HalfOfANumber
  <2> QED
    BY <2>1, <2>2, <2>4
<1>5. CASE d.unit = "min"
  BY <1>5 DEF ParseSparkDuration, Foreign
<1>6. CASE d.unit = "d"
  <2>1. r \in ParseDays(n)
    BY <1>6 DEF ParseSparkDuration
  <2>2. w = DayHours * Hour
    BY <1>6, UnitsAgree DEF w
  <2>3. Foreign(d) <=> n < 0
    BY <1>6 DEF Foreign
  <2>4. ParseDays(n) = IF n < 0 THEN {0} ELSE IF InInt64(Meant(d)) THEN {Meant(d)}
                                           ELSE {MaxInt, -MaxInt - 1}
    BY <1>2, <2>2 DEF ParseDays
  <2>5. Meant(d) \in Int
    <3> HIDE DEF n
    <3> QED
      BY <1>1, <1>2, HalfOfANumber
  <2> QED
    BY <1>3, <2>1, <2>3, <2>4, <2>5
<1>7. CASE d.unit = "bare" /\ n # -2
  <2> DEFINE v == Quo(n, 2)
  <2>1. r = ParseBare(n)
    BY <1>7 DEF ParseSparkDuration
  <2>2. w = Millisecond
    BY <1>7, UnitsAgree DEF w
  <2>3. Foreign(d) <=> n % 2 # 0
    BY <1>7 DEF Foreign
  <2>4. v \in Int /\ (n % 2 = 0 => 2 * v = n)
    <3> HIDE DEF n
    <3> QED
      BY <1>1, HalfOfANumber
  <2>5. ParseBare(n) = IF n % 2 # 0 \/ ~InInt64(v) THEN 0 ELSE Int64(v * w)
    BY <2>2 DEF ParseBare
  <2>6. v * w \in Int
    <3> HIDE DEF v
    <3> QED
      BY <1>1, <2>4
  <2>7. ASSUME n % 2 = 0 PROVE Meant(d) = v * w
    <3>1. n * w = 2 * (v * w)
      <4> HIDE DEF v
      <4>1. n * w = (2 * v) * w
        BY <2>4, <2>7
      <4> QED
        BY <4>1, <1>1, <2>4
    <3> HIDE DEF v
    <3> QED
      BY <1>2, <2>6, <3>1, HalfOfTwice
  <2>8. InInt64(v * w) => InInt64(v)
    <3> HIDE DEF v
    <3>1. v >= 0 => v <= v * w
      BY <1>1, <2>4
    <3>2. v < 0 => v * w <= v
      BY <1>1, <2>4
    <3> QED
      BY <1>3, <2>4, <2>6, <3>1, <3>2 DEF InInt64
  <2>9. Int64(v * w) \in Int /\ (InInt64(v * w) => Int64(v * w) = v * w)
    <3> HIDE DEF v
    <3> QED
      BY <2>6, Int64Keeps
  <2> HIDE DEF v
  <2> QED
    BY <2>1, <2>3, <2>5, <2>7, <2>8, <2>9
<1>8. CASE /\ d.unit \notin {"min", "d", "bare"}
           /\ ~(n = -2 /\ d.unit \in {"bare", "ms", "s", "m"})
  <2>1. r = ParseDuration(n, d.unit)
    BY <1>8 DEF ParseSparkDuration
  <2>2. UnitMap[d.unit] = w
    BY <1>1, <1>8, UnitsAgree DEF Units, w
  <2>3. ParseDuration(n, d.unit) = IF InInt64(Meant(d)) THEN Meant(d) ELSE 0
    BY <1>2, <2>2 DEF ParseDuration
  <2>4. ~Foreign(d)
    BY <1>8 DEF Foreign
  <2>5. Meant(d) \in Int
    <3> HIDE DEF n
    <3> QED
      BY <1>1, <1>2, HalfOfANumber
  <2> QED
    BY <2>1, <2>3, <2>4, <2>5
<1> QED
  BY <1>4, <1>5, <1>6, <1>7, <1>8

-----------------------------------------------------------------------------
(* What every step keeps.                                                  *)

\* Of the stages of the POST, those in which others find the session.
LEMMA Stages ==
  Registered <=> pc \notin {"building", "naming", "configuring", "adding", "closing", "refused"}
  BY DEF Registered, Registering

LEMMA NoSettingMeansNone ==
  Meant(NoSetting) = 0 /\ ~Foreign(NoSetting)
<1>1. Worth["bare"] \in Nat
  BY UnitsAgree DEF Units
<1>2. 0 * Worth["bare"] = 0
  BY <1>1
<1> QED
  BY <1>2 DEF Meant, Foreign, NoSetting, Quo

\* A session has the server's timeout while nobody tells another.
LEMMA TimeoutStays ==
  ASSUME Untold \/ (TimeoutIsTheServers /\ pc # "setTimeout"),
         UNCHANGED <<setting, timeout>>
  PROVE  TimeoutIsTheServers'
<1>1. CASE Untold
  BY <1>1, NoSettingMeansNone DEF Untold, TimeoutIsTheServers
<1>2. CASE TimeoutIsTheServers /\ pc # "setTimeout"
  BY <1>2 DEF TimeoutIsTheServers
<1> QED
  BY <1>1, <1>2

LEMMA CreationInvInit == Init => CreationInv
  <1> SUFFICES ASSUME Init PROVE CreationInv
    OBVIOUS
  <1>1. TypeOK
    <2>1. DOMAIN field = Fields
      BY DEF Init
    <2>2. at \in [Readers -> Fields \cup {"out"}] /\ settled \in [Readers -> BOOLEAN]
      BY DEF Init
    <2>3. /\ pc = "building" /\ late \in BOOLEAN /\ todo = Confs /\ applied = {}
          /\ added = 0 /\ client = "none" /\ told = FALSE /\ setting = NoSetting
          /\ remote = 0 /\ timeout = 0 /\ smu = "free" /\ mmu = "free" /\ process = "up"
      BY DEF Init
    <2>4. added \in 0 .. Jars
      BY <2>3, CreationAssumption
    <2>5. remote \in Int /\ timeout \in Int
      BY <2>3
    <2>6. setting \in Durations \cup {NoSetting} /\ told \in BOOLEAN
      BY DEF Init
    <2>7. /\ pc \in Registering /\ client \in {"none", "open", "closed"}
          /\ todo \subseteq Confs /\ applied \subseteq Confs
          /\ smu \in {"free", "appInfo", "cleanup", "close"} /\ mmu \in {"free", "kept"}
          /\ process \in {"up", "dead"} /\ late \in BOOLEAN
      BY <2>3 DEF Registering
    <2> QED
      BY <2>1, <2>2, <2>4, <2>5, <2>6, <2>7 DEF TypeOK
  <1>2. ClientAccountedFor /\ Progress /\ Locked /\ Inherited
    BY Stages DEF Init, ClientAccountedFor, Progress, Locked, Inherited, Untold
  <1>3. TimeoutIsTheServers
    BY NoSettingMeansNone DEF Init, TimeoutIsTheServers
  <1> QED BY <1>1, <1>2, <1>3 DEF CreationInv

Control == TypeOK /\ ClientAccountedFor /\ Progress /\ Locked

\* All but the durations.
LEMMA ControlStep ==
  CreationInv /\ [Next]_vars => Control'
  <1> SUFFICES ASSUME CreationInv, [Next]_vars PROVE Control'
    OBVIOUS
  <1> USE DEF CreationInv, Control, TypeOK, ClientAccountedFor, Progress, Locked,
              Registered, Registering, Calling, Serving, Answered, Goto, spark, reading,
              inherit, locks
  <1>1. CASE ContextEnds
    BY <1>1 DEF ContextEnds
  <1>2. CASE Configured
    BY <1>2 DEF Configured
  <1>3. CASE CreateSession
    BY <1>3 DEF CreateSession
  <1>4. CASE SetStateIdle
    BY <1>4 DEF SetStateIdle, Write
  <1>5. CASE BeginAppInfo
    BY <1>5 DEF BeginAppInfo, Write
  <1>6. ASSUME NEW i \in DOMAIN InfoOrder, PutAppInfo(i) PROVE Control'
    BY <1>6 DEF PutAppInfo, Write
  <1>7. CASE EndAppInfo
    BY <1>7 DEF EndAppInfo
  <1>8. CASE SetIdleTimeout
    BY <1>8 DEF SetIdleTimeout, Disabled
  <1>9. CASE SyncIdleTimeout
    BY <1>9 DEF SyncIdleTimeout
  <1>10. CASE SetSparkVersion
    BY <1>10 DEF SetSparkVersion, Write
  <1>11. CASE SetSparkInfo
    BY <1>11 DEF SetSparkInfo
  <1>12. CASE CloseClient
    BY <1>12 DEF CloseClient
  <1>13. CASE KeepManager \/ LeaveManager \/ CleanupReads \/ CleanupHasRead
    BY <1>13 DEF KeepManager, LeaveManager, CleanupReads, CleanupHasRead
  <1>14. ASSUME NEW s \in {"idle", "busy"}, StateChanges(s) PROVE Control'
    BY <1>14 DEF StateChanges, Write
  <1>15. CASE CloseSession
    BY <1>15 DEF CloseSession, Write
  <1>16. CASE SessionClosed
    BY <1>16 DEF SessionClosed, Write
  <1>17. ASSUME NEW ok \in BOOLEAN, Calls(ok) PROVE Control'
    <2>1. CASE BuildSession(ok)
      BY <2>1 DEF BuildSession
    <2>2. CASE NameApp(ok)
      BY <2>2 DEF NameApp
    <2>3. CASE AddJar(ok)
      BY <2>3, CreationAssumption DEF AddJar
    <2>4. CASE GetAppID(ok)
      BY <2>4 DEF GetAppID
    <2>5. CASE GetSessionTimeout(ok)
      <3>1. setting' \in Durations \cup {NoSetting} /\ remote' \in Int
        BY <2>5, ParsesToWhatIsMeant DEF GetSessionTimeout
      <3> QED
        BY <2>5, <3>1 DEF GetSessionTimeout
    <2>6. CASE GetSparkVersion(ok)
      BY <2>6 DEF GetSparkVersion
    <2>7. CASE GetMaster(ok)
      BY <2>7 DEF GetMaster
    <2>8. ASSUME NEW k \in Confs, NEW outcome \in {"ok", "static", "error"},
                 SetConfig(k, outcome)
          PROVE  Control'
      BY <2>8 DEF SetConfig
    <2> QED
      BY <1>17, <2>1, <2>2, <2>3, <2>4, <2>5, <2>6, <2>7, <2>8 DEF Calls
  <1>18. ASSUME NEW r \in Readers, BeginEncoding(r) PROVE Control'
    BY <1>18 DEF BeginEncoding, Fields
  <1>19. ASSUME NEW r \in Readers, EncodeField(r) PROVE Control'
    <2>1. at[r] \in Fields /\ NextField(at[r]) \in Fields \cup {"out"}
      BY <1>19 DEF EncodeField, NextField, Fields
    <2> QED
      BY <1>19, <2>1 DEF EncodeField
  <1>20. ASSUME NEW r \in Readers, EncodingPanics(r) PROVE Control'
    BY <1>20 DEF EncodingPanics
  <1>21. ASSUME NEW r \in Readers, EncodingIsFatal(r) PROVE Control'
    BY <1>21 DEF EncodingIsFatal
  <1>22. CASE UNCHANGED vars
    BY <1>22 DEF vars
  <1> QED
    BY <1>1, <1>2, <1>3, <1>4, <1>5, <1>6, <1>7, <1>8, <1>9, <1>10, <1>11, <1>12, <1>13,
       <1>14, <1>15, <1>16, <1>17, <1>18, <1>19, <1>20, <1>21, <1>22
    DEF Next, Local, Others

\* Only two steps change the durations.
LEMMA OthersLeaveDurations ==
  ASSUME [Next]_vars
  PROVE  \/ UNCHANGED <<setting, remote, timeout>> /\ (pc' = "setTimeout" => pc = "setTimeout")
         \/ SetIdleTimeout
         \/ \E ok \in BOOLEAN : GetSessionTimeout(ok)
<1> DEFINE Left == UNCHANGED <<setting, remote, timeout>> /\ (pc' = "setTimeout" => pc = "setTimeout")
<1>1. CASE UNCHANGED vars
  BY <1>1 DEF vars, inherit
<1>2. ASSUME NEW ok \in BOOLEAN, Calls(ok), ~GetSessionTimeout(ok) PROVE Left
  BY <1>2
  DEF Calls, BuildSession, NameApp, AddJar, GetAppID, GetSparkVersion, GetMaster, SetConfig,
      Goto, inherit
<1>3. ASSUME Local, ~SetIdleTimeout PROVE Left
  BY <1>3
  DEF Local, Configured, CreateSession, SetStateIdle, BeginAppInfo, PutAppInfo, EndAppInfo,
      SyncIdleTimeout, SetSparkVersion, SetSparkInfo, Goto, inherit
<1>4. CASE ContextEnds \/ CloseClient \/ Others
  BY <1>4
  DEF ContextEnds, CloseClient, Others, KeepManager, LeaveManager, CleanupReads,
      CleanupHasRead, StateChanges, CloseSession, SessionClosed, Goto, inherit
<1>5. ASSUME NEW r \in Readers,
             \/ BeginEncoding(r) \/ EncodeField(r) \/ EncodingPanics(r) \/ EncodingIsFatal(r)
      PROVE  Left
  BY <1>5 DEF BeginEncoding, EncodeField, EncodingPanics, EncodingIsFatal, inherit
<1> QED
  BY <1>1, <1>2, <1>3, <1>4, <1>5 DEF Next

\* Nobody goes back to where the timeout is not told yet.
LEMMA NobodyGoesBack ==
  ASSUME CreationInv, [Next]_vars, ~GetSessionTimeout(TRUE), ~GetSessionTimeout(FALSE)
  PROVE  pc' \in Registering \cup {"refused", "idle", "appId", "appInfo", "timeout"} =>
           pc \in Registering \cup {"refused", "idle", "appId", "appInfo", "timeout"}
<1> USE DEF Registering, Goto
<1> DEFINE Early(p) == p \in Registering \cup {"refused", "idle", "appId", "appInfo", "timeout"}
<1>1. CASE UNCHANGED vars
  BY <1>1 DEF vars
<1>2. ASSUME NEW ok \in BOOLEAN, Calls(ok), Early(pc') PROVE Early(pc)
  BY <1>2
  DEF Calls, BuildSession, NameApp, AddJar, GetAppID, GetSparkVersion, GetMaster, SetConfig
<1>3. ASSUME Local, Early(pc') PROVE Early(pc)
  BY <1>3
  DEF Local, Configured, CreateSession, SetStateIdle, BeginAppInfo, PutAppInfo, EndAppInfo,
      SetIdleTimeout, SyncIdleTimeout, SetSparkVersion, SetSparkInfo, CreationInv, Locked
<1>4. ASSUME ContextEnds \/ CloseClient \/ Others, Early(pc') PROVE Early(pc)
  BY <1>4
  DEF ContextEnds, CloseClient, Others, KeepManager, LeaveManager, CleanupReads,
      CleanupHasRead, StateChanges, CloseSession, SessionClosed
<1>5. ASSUME NEW r \in Readers,
             \/ BeginEncoding(r) \/ EncodeField(r) \/ EncodingPanics(r) \/ EncodingIsFatal(r),
             Early(pc')
      PROVE  Early(pc)
  BY <1>5 DEF BeginEncoding, EncodeField, EncodingPanics, EncodingIsFatal
<1> QED
  BY <1>1, <1>2, <1>3, <1>4, <1>5 DEF Next

LEMMA DurationsStep ==
  ASSUME CreationInv, [Next]_vars
  PROVE  Inherited' /\ TimeoutIsTheServers'
<1>1. Inherited /\ TimeoutIsTheServers /\ setting \in Durations \cup {NoSetting}
  BY DEF CreationInv, TypeOK
<1>2. ASSUME NEW ok \in BOOLEAN, GetSessionTimeout(ok)
      PROVE  Inherited' /\ TimeoutIsTheServers'
  <2>1. Untold /\ timeout' = 0
    BY <1>1, <1>2 DEF GetSessionTimeout, Inherited, Untold
  <2>2. pc' = IF remote' = 0 THEN "version" ELSE "setTimeout"
    BY <1>2 DEF GetSessionTimeout, Goto
  <2>3. CASE ok
    <3>1. setting' \in Durations /\ remote' \in ParseSparkDuration(setting')
      BY <1>2, <2>3 DEF GetSessionTimeout
    <3>2. Inherited'
      BY <2>2, <3>1 DEF Inherited, Registering
    <3>3. remote' = 0 /\ InInt64(Meant(setting')) =>
            0 = IF Foreign(setting') THEN 0
                ELSE IF Meant(setting') < 0 THEN Disabled ELSE Meant(setting')
      BY <3>1, ParsesToWhatIsMeant
    <3> QED
      BY <2>1, <2>2, <3>2, <3>3 DEF TimeoutIsTheServers
  <2>4. CASE ~ok
    <3>1. setting' = NoSetting /\ remote' = 0
      BY <1>2, <2>1, <2>4 DEF GetSessionTimeout, Untold
    <3> QED
      BY <2>1, <2>2, <3>1, NoSettingMeansNone DEF TimeoutIsTheServers, Inherited, Registering
  <2> QED
    BY <1>2, <2>3, <2>4
<1>3. CASE SetIdleTimeout
  <2>1. /\ pc = "setTimeout" /\ pc' \in {"sync", "version"}
        /\ setting' = setting
        /\ timeout' = IF remote > 0 THEN remote ELSE Disabled
    BY <1>3 DEF SetIdleTimeout, Goto
  <2>2. setting \in Durations /\ remote \in ParseSparkDuration(setting) /\ remote # 0
    BY <1>1, <2>1 DEF Inherited
  <2>3. remote \in Int /\ (InInt64(Meant(setting)) =>
          IF Foreign(setting) THEN remote = 0
          ELSE remote = Meant(setting) \/ (remote < 0 /\ Meant(setting) < 0))
    BY <2>2, ParsesToWhatIsMeant
  <2>4. InInt64(Meant(setting)) =>
          timeout' = IF Foreign(setting) THEN 0
                     ELSE IF Meant(setting) < 0 THEN Disabled ELSE Meant(setting)
    BY <2>1, <2>2, <2>3
  <2> QED
    BY <2>1, <2>4 DEF TimeoutIsTheServers, Inherited, Registering
<1>4. ASSUME UNCHANGED <<setting, remote, timeout>>, pc' = "setTimeout" => pc = "setTimeout",
             ~GetSessionTimeout(TRUE), ~GetSessionTimeout(FALSE)
      PROVE  Inherited' /\ TimeoutIsTheServers'
  <2>1. Inherited'
    BY <1>1, <1>4, NobodyGoesBack DEF Inherited, Untold, Registering
  <2>2. ASSUME pc # "setTimeout" PROVE TimeoutIsTheServers'
    BY <1>1, <1>4, <2>2, TimeoutStays
  <2>3. ASSUME pc' = "setTimeout" PROVE TimeoutIsTheServers'
    BY <2>3 DEF TimeoutIsTheServers
  <2>4. ASSUME pc = "setTimeout", pc' # "setTimeout" PROVE SetIdleTimeout
    BY <2>4
    DEF Next, vars, Calls, BuildSession, NameApp, AddJar, GetAppID, GetSessionTimeout,
        GetSparkVersion, GetMaster, SetConfig, Local, Configured, CreateSession, SetStateIdle,
        BeginAppInfo, PutAppInfo, EndAppInfo, SyncIdleTimeout, SetSparkVersion,
        SetSparkInfo, ContextEnds, CloseClient, Others, KeepManager, LeaveManager,
        CleanupReads, CleanupHasRead, StateChanges, CloseSession, SessionClosed,
        BeginEncoding, EncodeField, EncodingPanics, EncodingIsFatal, CreationInv, Locked
  <2> QED
    BY <1>3, <2>1, <2>2, <2>3, <2>4
<1> QED
  BY <1>2, <1>3, <1>4, OthersLeaveDurations

LEMMA CreationInvStep == CreationInv /\ [Next]_vars => CreationInv'
  BY ControlStep, DurationsStep DEF CreationInv, Control

-----------------------------------------------------------------------------
\* What is made of a field that had one value is that value.
LEMMA ReadWhole ==
  ASSUME NEW f, NEW v, NEW value \in Readings(f, {v})
  PROVE  value = v
  <1>1. Cardinality({v}) = 1
    BY FS_Singleton
  <1> QED
    BY <1>1 DEF Readings

\* A reader that is settled meets no race on a map.
LEMMA SettledRacesNot ==
  ASSUME NEW r \in Readers, SettledReader(r), settled[r]
  PROVE  ~Raced(r)
  <1> SUFFICES ASSUME Raced(r) PROVE FALSE
    OBVIOUS
  <1>1. seen[r] = {field[at[r]]}
    BY DEF Raced, SettledReader
  <1>2. Cardinality(seen[r]) = 1
    BY <1>1, FS_Singleton
  <1> QED
    BY <1>2 DEF Raced

\* After the answer only the state is written.
LEMMA OnlyStateIsWritten ==
  ASSUME CreationInv, SettledInv, NEW v, Write("state", v), pc' = pc \/ pc # "created",
         UNCHANGED <<at, shown, settled>>
  PROVE  SettledInv'
  <1>1. Shapes'
    BY DEF SettledInv, Shapes, Write
  <1>2. ASSUME NEW r \in Readers PROVE SettledReader(r)'
    <2>1. Passed(r)' = Passed(r) /\ Passed(r) \subseteq Fields \ {"state"}
      BY DEF Passed, CreationInv, TypeOK, Fields
    <2>2. at[r] # "state" => seen'[r] = seen[r]
      BY DEF Write
    <2>3. \A f \in Fields \ {"state"} : field'[f] = field[f]
      BY DEF Write, CreationInv, TypeOK
    <2>4. at[r] \in Fields \cup {"out"}
      BY DEF CreationInv, TypeOK
    <2> QED
      BY <2>1, <2>2, <2>3, <2>4 DEF SettledInv, SettledReader
  <1> QED
    BY <1>1, <1>2 DEF SettledInv

\* Before the answer nobody is settled.
LEMMA NobodyIsSettledBefore ==
  ASSUME SettledInv, pc # "created", Shapes', settled' = settled
  PROVE  SettledInv'
  BY DEF SettledInv, SettledReader

\* A reader is as settled as it was while nothing that it depends on changes.
LEMMA OthersStaySettled ==
  ASSUME NEW q \in Readers, SettledReader(q), UNCHANGED <<pc, field>>,
         at'[q] = at[q], seen'[q] = seen[q], shown'[q] = shown[q], settled'[q] = settled[q]
  PROVE  SettledReader(q)'
  <1>1. Passed(q)' = Passed(q)
    BY DEF Passed
  <1> QED
    BY <1>1 DEF SettledReader

LEMMA SettledInvInit == Init => SettledInv
  BY DEF Init, SettledInv, SettledReader, Shapes

LEMMA SettledInvStep ==
  CreationInv /\ SettledInv /\ [Next]_vars => SettledInv'
  <1> SUFFICES ASSUME CreationInv, SettledInv, [Next]_vars PROVE SettledInv'
    OBVIOUS
  <1>1. CASE pc # "created" /\ UNCHANGED <<at, shown, settled>> /\ DOMAIN seen' = Readers
    <2>1. Shapes'
      BY <1>1 DEF SettledInv, Shapes
    <2> QED
      BY <1>1, <2>1, NobodyIsSettledBefore
  <1>2. CASE UNCHANGED <<pc, field, reading>>
    BY <1>2 DEF SettledInv, SettledReader, Passed, Shapes, reading
  <1>3. DOMAIN seen = Readers
    BY DEF SettledInv, Shapes
  <1>4. CASE Local
    BY <1>1, <1>3, <1>4
    DEF Local, Configured, CreateSession, SetStateIdle, BeginAppInfo, PutAppInfo,
        EndAppInfo, SetIdleTimeout, SyncIdleTimeout, SetSparkVersion, SetSparkInfo,
        Write, reading, CreationInv, Locked
  <1>5. CASE ContextEnds \/ CloseClient
    BY <1>1, <1>2, <1>3, <1>5 DEF ContextEnds, CloseClient, Calling, reading
  <1>6. CASE CloseSession \/ SessionClosed
    BY <1>6, OnlyStateIsWritten DEF CloseSession, SessionClosed
  <1>14. CASE KeepManager \/ LeaveManager \/ CleanupReads \/ CleanupHasRead
    BY <1>2, <1>14 DEF KeepManager, LeaveManager, CleanupReads, CleanupHasRead
  <1>7. ASSUME NEW s \in {"idle", "busy"}, StateChanges(s) PROVE SettledInv'
    BY <1>7, OnlyStateIsWritten DEF StateChanges
  <1>8. ASSUME NEW ok \in BOOLEAN, Calls(ok) PROVE SettledInv'
    BY <1>1, <1>3, <1>8
    DEF Calls, BuildSession, NameApp, AddJar, GetAppID, GetSessionTimeout, GetSparkVersion,
        GetMaster, SetConfig, Write, reading
  <1>9. ASSUME NEW r \in Readers, BeginEncoding(r) PROVE SettledInv'
    <2>1. Shapes'
      BY <1>9 DEF BeginEncoding, SettledInv, Shapes
    <2>2. ASSUME NEW q \in Readers PROVE SettledReader(q)'
      <3>1. CASE q = r
        BY <1>9, <3>1
        DEF BeginEncoding, SettledInv, SettledReader, Shapes, Passed, CreationInv, TypeOK
      <3>2. CASE q # r
        BY <1>9, <3>2, OthersStaySettled
        DEF BeginEncoding, SettledInv, Shapes, CreationInv, TypeOK
      <3> QED BY <3>1, <3>2
    <2> QED BY <2>1, <2>2 DEF SettledInv
  <1>10. ASSUME NEW r \in Readers, EncodeField(r) PROVE SettledInv'
    <2>1. Shapes'
      BY <1>10 DEF EncodeField, SettledInv, Shapes
    <2>2. ASSUME NEW q \in Readers, q # r PROVE SettledReader(q)'
      BY <1>10, <2>2, OthersStaySettled
      DEF EncodeField, SettledInv, Shapes, CreationInv, TypeOK
    <2>3. SettledReader(r)'
      <3> SUFFICES ASSUME settled[r] PROVE SettledReader(r)'
        BY <1>10 DEF EncodeField, SettledReader
      <3> DEFINE f == at[r]
      <3>1. PICK value \in Readings(f, seen[r]) : shown' = [shown EXCEPT ![r][f] = value]
        BY <1>10 DEF EncodeField
      <3>2. /\ at[r] \in Fields /\ at'[r] = NextField(at[r]) /\ UNCHANGED <<pc, field, settled>>
            /\ NextField(at[r]) # "out" => seen'[r] = {field[NextField(at[r])]}
        BY <1>10 DEF EncodeField, SettledInv, Shapes, CreationInv, TypeOK
      <3>3. f # "state" => value = field[f]
        BY <3>1, <3>2, ReadWhole DEF SettledInv, SettledReader, Fields
      <3>4. /\ shown'[r][f] = value
            /\ \A g \in Fields \ {f} : shown'[r][g] = shown[r][g]
        BY <3>1, <3>2 DEF SettledInv, Shapes
      <3>5. Passed(r)' \subseteq (Passed(r) \cup {f}) \ {"state"}
        BY <3>2 DEF Passed, NextField, Fields
      <3>6. Passed(r) \subseteq Fields \ {f}
        BY <3>2 DEF Passed, Fields
      <3>7. \A g \in Passed(r)' : shown'[r][g] = field'[g]
        BY <3>2, <3>3, <3>4, <3>5, <3>6 DEF SettledInv, SettledReader
      <3> QED
        BY <3>2, <3>7 DEF SettledInv, SettledReader
    <2> QED BY <2>1, <2>2, <2>3 DEF SettledInv
  <1>11. ASSUME NEW r \in Readers, EncodingPanics(r) PROVE SettledInv'
    <2>1. Shapes'
      BY <1>11 DEF EncodingPanics, SettledInv, Shapes
    <2>2. ~settled[r]
      BY <1>11, SettledRacesNot DEF EncodingPanics, SettledInv
    <2>3. ASSUME NEW q \in Readers PROVE SettledReader(q)'
      <3>1. CASE q = r
        BY <1>11, <2>2, <3>1 DEF EncodingPanics, SettledReader
      <3>2. CASE q # r
        <4>1. /\ at'[q] = at[q] /\ seen'[q] = seen[q] /\ shown'[q] = shown[q]
              /\ UNCHANGED <<pc, field, settled>>
          BY <1>11, <3>2 DEF EncodingPanics
        <4>2. SettledReader(q)
          BY DEF SettledInv
        <4> QED BY <4>1, <4>2 DEF SettledReader, Passed
      <3> QED BY <3>1, <3>2
    <2> QED BY <2>1, <2>3 DEF SettledInv
  <1>12. ASSUME NEW r \in Readers, EncodingIsFatal(r) PROVE SettledInv'
    BY <1>2, <1>12 DEF EncodingIsFatal
  <1>13. CASE UNCHANGED vars
    BY <1>2, <1>13 DEF vars
  <1> QED
    BY <1>4, <1>5, <1>6, <1>7, <1>8, <1>9, <1>10, <1>11, <1>12, <1>13, <1>14
    DEF Next, Others

-----------------------------------------------------------------------------
\* What the POST keeps from its first step to its last (main.go:198, handler.go:218).
THEOREM CreationInvariant == Spec => []CreationInv
  <1>1. Init => CreationInv
    BY CreationInvInit
  <1>2. CreationInv /\ [Next]_vars => CreationInv'
    BY CreationInvStep
  <1> QED BY <1>1, <1>2, PTL DEF Spec

\* The variables have the types that TypeOK gives them.
THEOREM CreationTypeCorrect == Spec => []TypeOK
  BY CreationInvariant, PTL DEF CreationInv

\* Whatever step of createClient fails, and after how many others, no client is left
\* open by a POST that is refused (main.go:217, 227).
THEOREM NoClientIsLeftOpen == Spec => []ClientAccountedFor
  BY CreationInvariant, PTL DEF CreationInv

\* Others find a session only when all of its configuration is set and all of its JARs
\* are added (main.go:211-230, handler.go:250-256).
THEOREM RegisteredAreConfigured == Spec => []RegisteredIsConfigured
  <1>1. CreationInv => RegisteredIsConfigured
    BY Stages DEF CreationInv, Progress, RegisteredIsConfigured
  <1> QED BY <1>1, CreationInvariant, PTL

\* A session that the server has told its timeout has exactly that one, whatever numbers
\* and units the settings have and however the gateway's units relate, as long as an
\* int64 holds it in nanoseconds and the gateway understands it (client.go:122,
\* handler.go:268).
THEOREM TimeoutsAreTheServers == Spec => []TimeoutIsTheServers
  BY CreationInvariant, PTL DEF CreationInv

\* The race of encoding/json with the POST is over when the POST is answered
\* (handler.go:288, 525): any number of readers, any history of writes.
THEOREM SettledAfterTheAnswer == Spec => []SettledOnceAnswered
  <1>1. CreationInv /\ SettledInv => SettledOnceAnswered
    BY DEF SettledInv, SettledReader, Passed, SettledOnceAnswered, Fields
  <1>2. Init => CreationInv /\ SettledInv
    BY CreationInvInit, SettledInvInit
  <1>3. (CreationInv /\ SettledInv) /\ [Next]_vars => (CreationInv /\ SettledInv)'
    BY CreationInvStep, SettledInvStep
  <1> QED BY <1>1, <1>2, <1>3, PTL DEF Spec
=============================================================================
