------------------------------ MODULE Startup ------------------------------
(***************************************************************************)
(* The life of one SQLite database across launches of an app: the adapter  *)
(* sets it up (as a new database, by migrating it, or by wiping it), the   *)
(* Database runs the pending seed steps, reads issued meanwhile wait, and  *)
(* the app may reset it; the process may die between any two steps.        *)
(*                                                                         *)
(* One context has the database open; another one (a second tab, process   *)
(* or headless context of the same app version) can only complete its set- *)
(* up between this one's look at the version and its own set-up.           *)
(* A schema of version v is the set 1..v: what each version added to it.   *)
(* 0 stands for tables that another program made.                          *)
(***************************************************************************)
EXTENDS Naturals, FiniteSets, FiniteSetsExt

CONSTANTS
  Drivers,      \* of "native", "node", "wasm"
  MaxVersion,   \* the newest schema version an app comes with
  SeedVersions, \* the versions that seed steps are tied to
  Retries,      \* extra attempts of a seed step
  MaxLaunches,  \* bound on the launches
  MaxFaults     \* bound on the calls that fail

ASSUME DriversAssumption == Drivers \subseteq {"native", "node", "wasm"}
ASSUME BoundsAssumption == Retries \in Nat /\ MaxLaunches \in Nat /\ MaxFaults \in Nat
ASSUME VersionAssumption == MaxVersion \in Nat \ {0}
ASSUME SeedAssumption == SeedVersions \subseteq 1..MaxVersion

VARIABLES
  driver,      \* what backs the adapter, the same on every launch
  db,          \* the file: user_version, tables, rows of the user, the marker
               \* of the last seed step that ran, the steps whose rows it holds
  app,         \* schema.version of the running app; 0 when it is not running
  oldest,      \* migrations.minVersion (app when there are none)
  pc,          \* what the adapter and the Database are doing
  found,       \* databaseVersion, as initialize() saw it
  setUpError,  \* _setUpError
  connected,   \* the driver still has a connection for the adapter's tag
  ready,       \* _ready
  settled,     \* _readyPromise has resolved
  resetting,   \* _isBeingReset
  steps,       \* pendingSteps not yet done
  attempt,     \* attempts at the current one that failed
  read,        \* a raw read of the app: "none", "queued", "rows", "error"
  raced,       \* another context set the database up under this one
  launches, faults

adapter == <<app, oldest, found, connected>>
gate == <<setUpError, ready, settled, resetting>>
seeding == <<steps, attempt>>
counters == <<launches, faults>>
vars == <<driver, db, pc, adapter, gate, seeding, read, raced, counters>>

Blank == [version |-> 0, tables |-> {}, content |-> FALSE, marker |-> 0, seeded |-> {}]
Foreign == [Blank EXCEPT !.tables = {0}, !.content = TRUE]
\* What setting up with the schema of version v leaves.
SetUpAt(v) == [Blank EXCEPT !.version = v, !.tables = 1..v]

Init ==
  /\ driver \in Drivers
  /\ db \in {Blank, Foreign}
  /\ pc = "off" /\ app = 0 /\ oldest = 0 /\ found = 0 /\ connected = FALSE
  /\ setUpError = FALSE /\ ready = FALSE /\ settled = FALSE /\ resetting = FALSE
  /\ steps = {} /\ attempt = 0 /\ read = "none" /\ raced = FALSE
  /\ launches = 0 /\ faults = 0

Fault == faults < MaxFaults /\ faults' = faults + 1 /\ UNCHANGED launches

-----------------------------------------------------------------------------
\* The seed steps an app of version v comes with; none: no `seed` was given.
SeedOf(v) == SeedVersions \cap 1..v

\* Fault: one step too late.
StepsAfterNext(from, to) == {v \in 1..to : v > from + 1}
\* stepsForMigration: what the migrations from one version to another add ...
Steps(from, to) == {v \in 1..to : v > from}

\* ... or null.  (maxVersion is the schema's: validateAdapter.)
Available(from, minVersion) == from >= minVersion

\* new SQLiteAdapter() and new Database(), of any version of the app.
Launch(v, minVersion) ==
  /\ pc = "off" /\ launches < MaxLaunches
  /\ launches' = launches + 1
  /\ app' = v /\ oldest' = minVersion
  /\ pc' = "initialize" /\ found' = 0 /\ connected' = TRUE
  /\ ready' = (SeedOf(v) = {}) /\ settled' = ready'
  /\ setUpError' = FALSE /\ resetting' = FALSE
  /\ steps' = {} /\ attempt' = 0 /\ read' = "none" /\ raced' = FALSE
  /\ UNCHANGED <<driver, db, faults>>

\* The process dies, or the app quits; `native` does so by std::abort() too.
Dies ==
  /\ pc' = "off" /\ app' = 0 /\ oldest' = 0 /\ found' = 0 /\ connected' = FALSE
  /\ setUpError' = FALSE /\ ready' = FALSE /\ settled' = FALSE /\ resetting' = FALSE
  /\ steps' = {} /\ attempt' = 0 /\ read' = "none" /\ raced' = FALSE
Crash ==
  /\ pc # "off"
  /\ Dies
  /\ UNCHANGED <<driver, db, counters>>

-----------------------------------------------------------------------------
\* Fault: the seed job rejects with the set-up error, and what waits for it
\* never runs.
SettledUnlessFailed == setUpError' = TRUE /\ UNCHANGED settled
\* The seed job does not reject: reads go on, to fail with the set-up error.
SettledAnyway == setUpError' = TRUE /\ settled' = TRUE

\* Setting up failed: at launch the adapter keeps the error; in a reset the
\* Database keeps the ErrorAdapter, as `finally` only clears _isBeingReset.
SetUpFails ==
  /\ IF resetting
     THEN pc' = "broken" /\ UNCHANGED <<setUpError, settled>>
     ELSE pc' = "failed" /\ SettledAnyway
  /\ resetting' = FALSE
  /\ UNCHANGED <<driver, app, oldest, found, ready, seeding, read, raced, launches>>

\* wa-sqlite disposes of the connection when a set-up fails.
Disposes == connected' = (driver # "wasm")

\* The database is set up: the seed job goes on, or the rest of a reset,
\* which seeds again unless the app asked it not to.
SeedIsNext ==
  /\ setUpError' = FALSE
  /\ \/ /\ SeedOf(app) # {}
        /\ pc' = "getMarker"
        /\ UNCHANGED <<ready, settled, resetting>>
     \/ /\ SeedOf(app) = {} \/ resetting
        /\ pc' = "idle" /\ ready' = TRUE /\ settled' = TRUE /\ resetting' = FALSE

\* Fault: tables are not looked for.
RefusesNothing(file) == FALSE
\* Tables without a version were not made by NitromelonDB.
Refuses(file) == file.version = 0 /\ file.tables # {}

Initialize ==
  /\ pc = "initialize" /\ ~Refuses(db)
  /\ found' = db.version
  /\ IF db.version = app THEN SeedIsNext
     ELSE /\ pc' = IF db.version \in 1..app /\ Available(db.version, oldest)
                   THEN "migrate" ELSE "schema"
          /\ UNCHANGED gate
  /\ UNCHANGED <<driver, db, app, oldest, connected, seeding, read, raced, counters>>

InitializeRefuses ==
  /\ pc = "initialize" /\ Refuses(db)
  /\ SetUpFails
  /\ UNCHANGED <<db, connected, faults>>

InitializeFails ==
  /\ pc = "initialize"
  /\ Fault
  /\ SetUpFails /\ Disposes
  /\ UNCHANGED db

\* native: reset mode and `vacuum` empty the file; the schema is a
\* transaction of its own.
Vacuum ==
  /\ pc = "schema" /\ driver = "native"
  /\ db' = Blank
  /\ pc' = "populate"
  /\ UNCHANGED <<driver, adapter, gate, seeding, read, raced, counters>>

Populate ==
  /\ pc = "populate"
  /\ db' = SetUpAt(app)
  /\ SeedIsNext
  /\ UNCHANGED <<driver, adapter, seeding, read, raced, counters>>

NativeSchemaFails ==
  /\ driver = "native" /\ pc \in {"schema", "populate"}
  /\ Fault
  /\ Dies
  /\ UNCHANGED <<driver, db>>

\* node, wasm: one transaction wipes the file and sets it up.  wa-sqlite's
\* setUpWithSchema looks at the version again; its unsafeResetDatabase, which
\* a reset calls unless the adapter's set-up had failed, does not.
SetUpWithSchema ==
  /\ pc = "schema" /\ driver # "native" /\ connected
  /\ db' = IF driver = "wasm" /\ db.version = app /\ (resetting => setUpError)
           THEN db ELSE SetUpAt(app)
  /\ SeedIsNext
  /\ UNCHANGED <<driver, adapter, seeding, read, raced, counters>>

\* node's VACUUM, after the commit, may be what fails.
SchemaFails ==
  /\ pc = "schema" /\ driver # "native"
  /\ \/ ~connected /\ UNCHANGED <<db, counters>>
     \/ Fault /\ UNCHANGED db
     \/ driver = "node" /\ Fault /\ db' = SetUpAt(app)
  /\ SetUpFails /\ Disposes

\* node and wasm compare the version with `from` (native's assert is compiled
\* out of a release build; there the tables and columns exist already).
Applies == db.version = found

Migrate ==
  /\ pc = "migrate" /\ Applies
  /\ db' = [db EXCEPT !.version = app, !.tables = @ \cup Steps(found, app)]
  /\ SeedIsNext
  /\ UNCHANGED <<driver, adapter, seeding, read, raced, counters>>

MigrateRechecks ==
  /\ pc = "migrate" /\ driver = "wasm" /\ db.version = app
  /\ SeedIsNext
  /\ UNCHANGED <<driver, db, adapter, seeding, read, raced, counters>>

MigrateFails ==
  /\ pc = "migrate"
  /\ Fault \/ (~Applies /\ ~(driver = "wasm" /\ db.version = app) /\ UNCHANGED counters)
  /\ SetUpFails /\ Disposes
  /\ UNCHANGED db

\* Another context of this version saw what this one saw, and was first; its
\* user may have written already.
OtherSetsUp ==
  /\ pc \in {"schema", "migrate"} /\ ~resetting /\ db.version = found /\ ~raced
  /\ \E content \in BOOLEAN :
       db' = IF pc = "migrate"
             THEN [db EXCEPT !.version = app, !.tables = 1..app, !.content = @ \/ content]
             ELSE [SetUpAt(app) EXCEPT !.content = content]
  /\ raced' = TRUE
  /\ UNCHANGED <<driver, pc, adapter, gate, seeding, read, counters>>

-----------------------------------------------------------------------------
\* _runSeed is over, whether a step failed or not.
SeedSettles ==
  /\ pc' = "idle" /\ ready' = TRUE /\ settled' = TRUE /\ resetting' = FALSE
  /\ UNCHANGED setUpError

GetMarker ==
  /\ pc = "getMarker"
  /\ steps' = {v \in SeedOf(app) : v > db.marker}
  /\ attempt' = 0
  /\ IF steps' = {} THEN SeedSettles ELSE pc' = "run" /\ UNCHANGED gate
  /\ UNCHANGED <<driver, db, adapter, read, raced, counters>>

\* _seeding
Seeding == pc = "run"
\* Fault: reads are not gated.
ReadsNeverWait == TRUE
\* _readsUnblocked
ReadsUnblocked == ready \/ Seeding

\* sortedSteps
Step == Min(steps)

\* step.run(): it reads and writes through the database it is given.
RunStep ==
  /\ pc = "run" /\ ReadsUnblocked
  /\ db' = [db EXCEPT !.seeded = @ \cup {Step}]
  /\ pc' = "setMarker"
  /\ UNCHANGED <<driver, adapter, gate, seeding, read, raced, counters>>

\* Fault: one attempt too many.
RetriesOnceMore == attempt <= Retries
\* maxAttempts is not reached.
RetriesLeft == attempt < Retries

\* It throws, before it wrote or after.
StepThrows ==
  /\ pc = "run" /\ ReadsUnblocked
  /\ Fault
  /\ UNCHANGED db \/ db' = [db EXCEPT !.seeded = @ \cup {Step}]
  /\ attempt' = attempt + 1
  /\ IF RetriesLeft THEN UNCHANGED <<pc, gate>> ELSE SeedSettles
  /\ UNCHANGED <<driver, adapter, steps, read, raced>>

\* Fault: the marker of the newest step is set at once.
MarkNewest(pending) == Max(pending)
\* The marker of the step that ran.
Mark(pending) == Min(pending)

SetMarker ==
  /\ pc = "setMarker"
  /\ db' = [db EXCEPT !.marker = Mark(steps)]
  /\ steps' = steps \ {Step} /\ attempt' = 0
  /\ IF steps' = {} THEN SeedSettles ELSE pc' = "run" /\ UNCHANGED gate
  /\ UNCHANGED <<driver, adapter, read, raced, counters>>

MarkerFails ==
  /\ pc \in {"getMarker", "setMarker"}
  /\ Fault
  /\ SeedSettles
  /\ UNCHANGED <<driver, db, adapter, seeding, read, raced>>

-----------------------------------------------------------------------------
Write ==
  /\ pc = "idle"
  /\ db' = [db EXCEPT !.content = TRUE]
  /\ UNCHANGED <<driver, pc, adapter, gate, seeding, read, raced, counters>>

\* In a writer, which runs after the seed job.
UnsafeResetDatabase ==
  /\ pc \in {"idle", "failed"}
  /\ pc' = "schema" /\ resetting' = TRUE
  /\ UNCHANGED <<driver, db, adapter, setUpError, ready, settled, seeding, read, raced, counters>>

\* Collection's raw reads: _fetchQuery, _fetchCount, ...
Read ==
  /\ pc # "off" /\ read # "queued"
  /\ read' = "queued"
  /\ UNCHANGED <<driver, db, pc, adapter, gate, seeding, raced, counters>>

\* _whenReady, then the dispatcher: it queues calls until the set-up is over.
\* A database being reset has the ErrorAdapter.
ReadAnswered ==
  /\ read = "queued"
  /\ ReadsUnblocked \/ settled
  /\ \/ /\ pc = "broken" \/ setUpError \/ (resetting /\ pc \in {"schema", "populate"})
        /\ read' = "error"
     \/ /\ pc \in {"getMarker", "run", "setMarker", "idle"} /\ ~setUpError
        /\ read' = "rows"
  /\ UNCHANGED <<driver, db, pc, adapter, gate, seeding, raced, counters>>

Proceed ==
  \/ Initialize \/ InitializeRefuses \/ InitializeFails
  \/ Vacuum \/ Populate \/ NativeSchemaFails \/ SetUpWithSchema \/ SchemaFails
  \/ Migrate \/ MigrateRechecks \/ MigrateFails
  \/ GetMarker \/ RunStep \/ StepThrows \/ SetMarker \/ MarkerFails

Next ==
  \/ \E v \in 1..MaxVersion : \E minVersion \in 1..v : Launch(v, minVersion)
  \/ Crash \/ OtherSetsUp \/ Proceed
  \/ Write \/ UnsafeResetDatabase \/ Read \/ ReadAnswered

\* A driver answers every call, a seed step ends, a read that may go goes.
Spec == Init /\ [][Next]_vars /\ WF_vars(Proceed) /\ WF_vars(ReadAnswered)

-----------------------------------------------------------------------------
Versions == 1..MaxVersion

Files ==
  [version : 0..MaxVersion, tables : SUBSET (0..MaxVersion), content : BOOLEAN,
   marker : 0..MaxVersion, seeded : SUBSET Versions]
FileTyped == driver \in Drivers /\ db \in Files
AppTyped ==
  /\ app \in 0..MaxVersion /\ oldest \in 0..MaxVersion /\ found \in 0..MaxVersion
  /\ (pc = "off") <=> (app = 0)
  /\ pc \in {"off", "initialize", "schema", "populate", "migrate", "getMarker", "run",
             "setMarker", "idle", "failed", "broken"}
GateTyped ==
  /\ setUpError \in BOOLEAN /\ connected \in BOOLEAN /\ ready \in BOOLEAN
  /\ settled \in BOOLEAN /\ resetting \in BOOLEAN /\ raced \in BOOLEAN
  /\ read \in {"none", "queued", "rows", "error"}
SeedTyped == steps \subseteq Versions /\ attempt \in 0..(Retries + 1)
CountersTyped == launches \in 0..MaxLaunches /\ faults \in 0..MaxFaults

\* Every variable has a value the code can give it.  In particular a seed step
\* is not tried again once its retries are used up.
TypeOK == FileTyped /\ AppTyped /\ GateTyped /\ SeedTyped /\ CountersTyped

\* The version of a file tells its schema, whichever versions of the app it
\* went through and wherever they died (setUserVersion, stepsForMigration).
VersionTellsSchema == db.version > 0 => db.tables = 1..db.version

\* The rows of every seed step up to the marker are in the file, after any
\* failures, retries, restarts, resets and migrations (_runSeed).
MarkerImpliesSeeded == SeedOf(db.marker) \subseteq db.seeded

\* What the user wrote, or another program made, goes only in a reset the app
\* asked for, or when the app is older than the file or has no migrations from
\* its version.  Native and node, unlike wa-sqlite, do not look again after
\* another context set the database up.
DataKept ==
  [][db.content /\ ~db'.content =>
       \/ resetting
       \/ db.version > app
       \/ db.version \in 1..(oldest - 1)
       \/ raced /\ driver # "wasm"]_vars

\* A read is answered with rows from the schema the app knows, and not before
\* the seed steps settled, but in a reset and by a step that runs (_whenReady).
ReadsWaitForSetUp ==
  [][read = "queued" /\ read' = "rows" =>
       /\ db.version = app
       /\ resetting \/ pc \in {"run", "idle"}]_vars

\* Every read is answered, whatever fails, unless the process dies: a set-up
\* that failed, a step that reads, a reset that fails do not hold it for ever.
ReadsAnswered == (read = "queued") ~> (read # "queued")
=============================================================================
