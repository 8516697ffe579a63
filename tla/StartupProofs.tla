--------------------------- MODULE StartupProofs ---------------------------
(***************************************************************************)
(* Theorems about Startup, for any number of versions, seed steps,         *)
(* retries, launches and failures, and any mix of drivers.                 *)
(*                                                                         *)
(* None of the properties is inductive.  SetUpShape says what the adapter  *)
(* may rely on between its look at the version and its set-up, SeedShape   *)
(* that the seed steps left are those after the marker, GateShape that     *)
(* reads are held back until the seed job is over.                         *)
(***************************************************************************)
EXTENDS Startup, TLAPS, WellFoundedInduction

\* Between initialize() and the set-up, the version is what was seen unless
\* another context was first; after the set-up, it is the app's.
SetUpShape ==
  /\ pc = "initialize" => ~raced
  /\ pc = "migrate" => found \in 1..app
  /\ pc = "schema" /\ ~resetting /\ ~raced =>
       /\ db.version = found
       /\ found = 0 => ~db.content
       /\ found = 0 \/ found < oldest \/ found > app
  /\ pc \in {"schema", "migrate"} /\ ~resetting /\ raced => db.version = app
  /\ pc = "populate" => ~db.content
  /\ pc \in {"getMarker", "run", "setMarker", "idle"} => db.version = app
  /\ db.version = 0 /\ db.content => db.tables # {}

Pending == {v \in SeedOf(app) : v > db.marker}

\* The steps left are those after the marker; before the marker is set, the
\* rows of its step are there.
SeedShape ==
  /\ pc \in {"run", "setMarker"} => steps = Pending /\ steps # {} /\ attempt <= Retries
  /\ pc = "setMarker" => Step \in db.seeded

\* Until the first seed job is over, no read goes through for its end.
GateShape ==
  /\ pc \in {"getMarker", "run", "setMarker"} => SeedOf(app) # {}
  /\ /\ pc \in {"initialize", "schema", "populate", "migrate", "getMarker", "run", "setMarker"}
     /\ ~resetting /\ SeedOf(app) # {}
     => ~ready /\ ~settled

IInv ==
  /\ TypeOK /\ VersionTellsSchema /\ MarkerImpliesSeeded
  /\ SetUpShape /\ SeedShape /\ GateShape

-----------------------------------------------------------------------------
\* Min is defined on every nonempty set of numbers.
LEMMA LeastVersion ==
  ASSUME NEW S, S \subseteq Nat, S # {}
  PROVE  Min(S) \in S /\ \A v \in S : Min(S) <= v
PROOF
  <1> DEFINE Less == {pair \in Nat \X Nat : pair[1] < pair[2]}
  <1>1. OpToRel(<, Nat) = Less
    BY DEF OpToRel
  <1>2. IsWellFoundedOn(Less, Nat)
    BY <1>1, NatLessThanWellFounded
  <1> HIDE DEF Less
  <1>3. PICK least \in S : \A v \in S : ~(<<v, least>> \in Less)
    BY <1>2, WFMin
  <1>4. ASSUME NEW v \in S
        PROVE  least <= v
    <2>1. ~(<<v, least>> \in Less) /\ v \in Nat /\ least \in Nat
      BY <1>3
    <2> QED
      BY <2>1 DEF Less
  <1> QED  BY <1>3, <1>4 DEF Min

\* A file that was set up, migrated, seeded or marked is a file.
LEMMA BlankFile ==
  /\ Blank \in Files
  /\ Blank.version = 0 /\ Blank.tables = {} /\ Blank.content = FALSE
  /\ Blank.marker = 0 /\ Blank.seeded = {}
BY VersionAssumption DEF Blank, Files, Versions

LEMMA MigratedFile ==
  ASSUME NEW file \in Files, NEW v \in 0..MaxVersion, NEW tables \in SUBSET (0..MaxVersion),
         NEW content \in BOOLEAN
  PROVE  /\ [file EXCEPT !.version = v, !.tables = tables] \in Files
         /\ [file EXCEPT !.version = v, !.tables = tables, !.content = content] \in Files
         /\ [file EXCEPT !.tables = tables, !.content = content] \in Files
         /\ [file EXCEPT !.content = content] \in Files
BY DEF Files

LEMMA SetUpFile ==
  ASSUME NEW v \in 0..MaxVersion
  PROVE  /\ SetUpAt(v) \in Files
         /\ SetUpAt(v).version = v /\ SetUpAt(v).tables = 1..v
         /\ SetUpAt(v).content = FALSE
         /\ SetUpAt(v).marker = 0 /\ SetUpAt(v).seeded = {}
PROOF
  <1>1. 1..v \in SUBSET (0..MaxVersion)
    BY VersionAssumption
  <1>2. SetUpAt(v) \in Files
    BY <1>1, BlankFile, MigratedFile DEF SetUpAt
  <1>3. /\ SetUpAt(v).version = v /\ SetUpAt(v).tables = 1..v
        /\ SetUpAt(v).content = FALSE
        /\ SetUpAt(v).marker = 0 /\ SetUpAt(v).seeded = {}
    BY DEF SetUpAt, Blank
  <1> QED  BY <1>2, <1>3

LEMMA SeededFile ==
  ASSUME NEW file \in Files, NEW step \in Versions
  PROVE  /\ [file EXCEPT !.seeded = @ \cup {step}] \in Files
         /\ [file EXCEPT !.marker = step] \in Files
         /\ [file EXCEPT !.content = TRUE] \in Files
PROOF
  <1>1. file.seeded \cup {step} \in SUBSET Versions /\ step \in 0..MaxVersion
    BY DEF Files, Versions
  <1> QED  BY <1>1 DEF Files

\* The step that runs is one of those pending, and the first of them.
LEMMA StepIsFirst ==
  ASSUME TypeOK, SeedShape, pc \in {"run", "setMarker"}
  PROVE  Step \in steps /\ Step \in Versions /\ \A v \in steps : Step <= v
PROOF
  <1>1. steps \subseteq Nat /\ steps # {} /\ steps \subseteq Versions
    BY DEF TypeOK, SeedTyped, SeedShape, Versions
  <1> QED  BY <1>1, LeastVersion DEF Step

LEMMA NoSteps ==
  SeedOf(0) = {}
BY SeedAssumption DEF SeedOf

LEMMA PendingKept ==
  ASSUME app' = app, db'.marker = db.marker
  PROVE  Pending' = Pending
BY DEF Pending, SeedOf

-----------------------------------------------------------------------------
\* Each action leaves a file; only the pending steps can be marked.
LEMMA FileStep ==
  ASSUME TypeOK, SeedShape, [Next]_vars
  PROVE  FileTyped'
PROOF
  <1> USE DEF adapter, gate, seeding, counters, TypeOK, FileTyped, AppTyped
  <1>1. ASSUME NEW v \in 1..MaxVersion, NEW minVersion \in 1..v, Launch(v, minVersion)
       PROVE  FileTyped'
    BY <1>1 DEF Launch, Versions
  <1>2. CASE Crash
    BY <1>2 DEF Crash, Dies
  <1>3. CASE OtherSetsUp
    <2>1. PICK content \in BOOLEAN :
            db' = IF pc = "migrate"
                  THEN [db EXCEPT !.version = app, !.tables = 1..app, !.content = @ \/ content]
                  ELSE [SetUpAt(app) EXCEPT !.content = content]
      BY <1>3 DEF OtherSetsUp
    <2>2. CASE pc = "migrate"
      <3>1. 1..app \in SUBSET (0..MaxVersion) /\ (db.content \/ content) \in BOOLEAN
        BY VersionAssumption DEF Files
      <3> QED
        BY <1>3, <2>1, <2>2, <3>1, MigratedFile DEF OtherSetsUp
    <2>3. CASE pc # "migrate"
      BY <1>3, <2>1, <2>3, SetUpFile, MigratedFile DEF OtherSetsUp
    <2> QED
      BY <2>2, <2>3
  <1>4. CASE Initialize
    BY <1>4 DEF Initialize, SeedIsNext
  <1>5. CASE InitializeRefuses
    BY <1>5 DEF InitializeRefuses, SetUpFails, SettledAnyway
  <1>6. CASE InitializeFails
    BY <1>6 DEF InitializeFails, SetUpFails, SettledAnyway, Disposes, Fault
  <1>7. CASE Vacuum
    BY <1>7, BlankFile DEF Vacuum, Blank
  <1>8. CASE Populate
    BY <1>8, SetUpFile DEF Populate, SetUpAt, Blank, SeedIsNext
  <1>9. CASE NativeSchemaFails
    BY <1>9 DEF NativeSchemaFails, Dies, Fault
  <1>10. CASE SetUpWithSchema
    BY <1>10, SetUpFile DEF SetUpWithSchema, SetUpAt, Blank, SeedIsNext
  <1>11. CASE SchemaFails
    BY <1>11, SetUpFile DEF SchemaFails, SetUpAt, Blank, SetUpFails, SettledAnyway, Disposes, Fault
  <1>12. CASE Migrate
    <2>1. db.tables \cup Steps(found, app) \in SUBSET (0..MaxVersion)
      <3>1. Steps(found, app) \subseteq 0..MaxVersion
        BY VersionAssumption DEF Steps
      <3> QED
        BY <3>1 DEF Files
    <2> QED
      BY <1>12, <2>1, MigratedFile DEF Migrate
  <1>13. CASE MigrateRechecks
    BY <1>13 DEF MigrateRechecks, SeedIsNext
  <1>14. CASE MigrateFails
    BY <1>14 DEF MigrateFails, SetUpFails, SettledAnyway, Disposes, Fault
  <1>15. CASE GetMarker
    BY <1>15 DEF GetMarker, SeedSettles, SeedOf
  <1>16. CASE RunStep
    <2>1. Step \in Versions
      BY <1>16, StepIsFirst DEF RunStep
    <2> QED
      BY <1>16, <2>1, SeededFile DEF RunStep
  <1>17. CASE StepThrows
    <2>1. Step \in Versions
      BY <1>17, StepIsFirst DEF StepThrows, Fault
    <2> QED
      BY <1>17, <2>1, SeededFile DEF StepThrows, Fault
  <1>18. CASE SetMarker
    <2>1. Step \in Versions
      BY <1>18, StepIsFirst DEF SetMarker, Mark, Step
    <2> QED
      BY <1>18, <2>1, SeededFile DEF SetMarker, Mark, Step
  <1>19. CASE MarkerFails
    BY <1>19 DEF MarkerFails, SeedSettles, Fault
  <1>20. CASE Write
    BY <1>20, MigratedFile DEF Write
  <1>21. CASE UnsafeResetDatabase
    BY <1>21 DEF UnsafeResetDatabase
  <1>22. CASE Read
    BY <1>22 DEF Read
  <1>23. CASE ReadAnswered
    BY <1>23 DEF ReadAnswered
  <1>24. CASE UNCHANGED vars
    BY <1>24 DEF vars
  <1> QED
    BY <1>1, <1>2, <1>3, <1>4, <1>5, <1>6, <1>7, <1>8, <1>9, <1>10, <1>11, <1>12,
       <1>13, <1>14, <1>15, <1>16, <1>17, <1>18, <1>19, <1>20, <1>21, <1>22, <1>23, <1>24 DEF Next, Proceed

\* No action leaves the versions the app may have.
LEMMA AppStep ==
  ASSUME TypeOK, [Next]_vars
  PROVE  AppTyped'
PROOF
  <1> USE DEF adapter, gate, seeding, counters, TypeOK, AppTyped
  <1>1. ASSUME NEW v \in 1..MaxVersion, NEW minVersion \in 1..v, Launch(v, minVersion)
       PROVE  AppTyped'
    BY <1>1, VersionAssumption DEF Launch, Versions
  <1>2. CASE Crash
    BY <1>2, VersionAssumption DEF Crash, Dies
  <1>3. CASE OtherSetsUp
    BY <1>3 DEF OtherSetsUp, SetUpAt, Blank
  <1>4. CASE Initialize
    BY <1>4 DEF Initialize, SeedIsNext, FileTyped, Files
  <1>5. CASE InitializeRefuses
    BY <1>5 DEF InitializeRefuses, SetUpFails, SettledAnyway
  <1>6. CASE InitializeFails
    BY <1>6 DEF InitializeFails, SetUpFails, SettledAnyway, Disposes, Fault
  <1>7. CASE Vacuum
    BY <1>7 DEF Vacuum, Blank
  <1>8. CASE Populate
    BY <1>8 DEF Populate, SetUpAt, Blank, SeedIsNext
  <1>9. CASE NativeSchemaFails
    BY <1>9, VersionAssumption DEF NativeSchemaFails, Dies, Fault
  <1>10. CASE SetUpWithSchema
    BY <1>10 DEF SetUpWithSchema, SetUpAt, Blank, SeedIsNext
  <1>11. CASE SchemaFails
    BY <1>11 DEF SchemaFails, SetUpAt, Blank, SetUpFails, SettledAnyway, Disposes, Fault
  <1>12. CASE Migrate
    BY <1>12 DEF Migrate, Applies, Steps, SeedIsNext
  <1>13. CASE MigrateRechecks
    BY <1>13 DEF MigrateRechecks, SeedIsNext
  <1>14. CASE MigrateFails
    BY <1>14 DEF MigrateFails, SetUpFails, SettledAnyway, Disposes, Fault
  <1>15. CASE GetMarker
    BY <1>15 DEF GetMarker, SeedSettles, SeedOf
  <1>16. CASE RunStep
    BY <1>16 DEF RunStep
  <1>17. CASE StepThrows
    BY <1>17 DEF StepThrows, RetriesLeft, SeedSettles, Fault
  <1>18. CASE SetMarker
    BY <1>18 DEF SetMarker, Mark, SeedSettles
  <1>19. CASE MarkerFails
    BY <1>19 DEF MarkerFails, SeedSettles, Fault
  <1>20. CASE Write
    BY <1>20 DEF Write
  <1>21. CASE UnsafeResetDatabase
    BY <1>21 DEF UnsafeResetDatabase
  <1>22. CASE Read
    BY <1>22 DEF Read
  <1>23. CASE ReadAnswered
    BY <1>23 DEF ReadAnswered
  <1>24. CASE UNCHANGED vars
    BY <1>24 DEF vars
  <1> QED
    BY <1>1, <1>2, <1>3, <1>4, <1>5, <1>6, <1>7, <1>8, <1>9, <1>10, <1>11, <1>12,
       <1>13, <1>14, <1>15, <1>16, <1>17, <1>18, <1>19, <1>20, <1>21, <1>22, <1>23, <1>24 DEF Next, Proceed

\* The flags are flags.
LEMMA GateTypeStep ==
  ASSUME TypeOK, [Next]_vars
  PROVE  GateTyped'
PROOF
  <1> USE DEF adapter, gate, seeding, counters, TypeOK, GateTyped
  <1>1. ASSUME NEW v \in 1..MaxVersion, NEW minVersion \in 1..v, Launch(v, minVersion)
       PROVE  GateTyped'
    BY <1>1 DEF Launch, Versions
  <1>2. CASE Crash
    BY <1>2 DEF Crash, Dies
  <1>3. CASE OtherSetsUp
    BY <1>3 DEF OtherSetsUp, SetUpAt, Blank
  <1>4. CASE Initialize
    BY <1>4 DEF Initialize, SeedIsNext
  <1>5. CASE InitializeRefuses
    BY <1>5 DEF InitializeRefuses, SetUpFails, SettledAnyway
  <1>6. CASE InitializeFails
    BY <1>6 DEF InitializeFails, SetUpFails, SettledAnyway, Disposes, Fault
  <1>7. CASE Vacuum
    BY <1>7 DEF Vacuum, Blank
  <1>8. CASE Populate
    BY <1>8 DEF Populate, SetUpAt, Blank, SeedIsNext
  <1>9. CASE NativeSchemaFails
    BY <1>9 DEF NativeSchemaFails, Dies, Fault
  <1>10. CASE SetUpWithSchema
    BY <1>10 DEF SetUpWithSchema, SetUpAt, Blank, SeedIsNext
  <1>11. CASE SchemaFails
    BY <1>11 DEF SchemaFails, SetUpAt, Blank, SetUpFails, SettledAnyway, Disposes, Fault
  <1>12. CASE Migrate
    BY <1>12 DEF Migrate, Applies, Steps, SeedIsNext
  <1>13. CASE MigrateRechecks
    BY <1>13 DEF MigrateRechecks, SeedIsNext
  <1>14. CASE MigrateFails
    BY <1>14 DEF MigrateFails, SetUpFails, SettledAnyway, Disposes, Fault
  <1>15. CASE GetMarker
    BY <1>15 DEF GetMarker, SeedSettles, SeedOf
  <1>16. CASE RunStep
    BY <1>16 DEF RunStep
  <1>17. CASE StepThrows
    BY <1>17 DEF StepThrows, RetriesLeft, SeedSettles, Fault
  <1>18. CASE SetMarker
    BY <1>18 DEF SetMarker, Mark, SeedSettles
  <1>19. CASE MarkerFails
    BY <1>19 DEF MarkerFails, SeedSettles, Fault
  <1>20. CASE Write
    BY <1>20 DEF Write
  <1>21. CASE UnsafeResetDatabase
    BY <1>21 DEF UnsafeResetDatabase
  <1>22. CASE Read
    BY <1>22 DEF Read
  <1>23. CASE ReadAnswered
    BY <1>23 DEF ReadAnswered
  <1>24. CASE UNCHANGED vars
    BY <1>24 DEF vars
  <1> QED
    BY <1>1, <1>2, <1>3, <1>4, <1>5, <1>6, <1>7, <1>8, <1>9, <1>10, <1>11, <1>12,
       <1>13, <1>14, <1>15, <1>16, <1>17, <1>18, <1>19, <1>20, <1>21, <1>22, <1>23, <1>24 DEF Next, Proceed

\* The steps left are versions, and no step is tried too often.
LEMMA SeedTypeStep ==
  ASSUME TypeOK, SeedShape, [Next]_vars
  PROVE  SeedTyped'
PROOF
  <1> USE DEF adapter, gate, seeding, counters, TypeOK, SeedTyped, Versions
  <1>1. ASSUME NEW v \in 1..MaxVersion, NEW minVersion \in 1..v, Launch(v, minVersion)
       PROVE  SeedTyped'
    BY <1>1, BoundsAssumption DEF Launch, Versions, SeedOf
  <1>2. CASE Crash
    BY <1>2, BoundsAssumption DEF Crash, Dies, SeedOf
  <1>3. CASE OtherSetsUp
    BY <1>3 DEF OtherSetsUp, SetUpAt, Blank
  <1>4. CASE Initialize
    BY <1>4 DEF Initialize, SeedIsNext
  <1>5. CASE InitializeRefuses
    BY <1>5 DEF InitializeRefuses, SetUpFails, SettledAnyway
  <1>6. CASE InitializeFails
    BY <1>6 DEF InitializeFails, SetUpFails, SettledAnyway, Disposes, Fault
  <1>7. CASE Vacuum
    BY <1>7 DEF Vacuum, Blank
  <1>8. CASE Populate
    BY <1>8 DEF Populate, SetUpAt, Blank, SeedIsNext
  <1>9. CASE NativeSchemaFails
    BY <1>9, BoundsAssumption DEF NativeSchemaFails, Dies, Fault, SeedOf
  <1>10. CASE SetUpWithSchema
    BY <1>10 DEF SetUpWithSchema, SetUpAt, Blank, SeedIsNext
  <1>11. CASE SchemaFails
    BY <1>11 DEF SchemaFails, SetUpAt, Blank, SetUpFails, SettledAnyway, Disposes, Fault
  <1>12. CASE Migrate
    BY <1>12 DEF Migrate, Applies, Steps, SeedIsNext
  <1>13. CASE MigrateRechecks
    BY <1>13 DEF MigrateRechecks, SeedIsNext
  <1>14. CASE MigrateFails
    BY <1>14 DEF MigrateFails, SetUpFails, SettledAnyway, Disposes, Fault
  <1>15. CASE GetMarker
    BY <1>15, BoundsAssumption, SeedAssumption DEF GetMarker, SeedSettles, SeedOf, SeedOf
  <1>16. CASE RunStep
    BY <1>16 DEF RunStep
  <1>17. CASE StepThrows
    BY <1>17, BoundsAssumption DEF StepThrows, RetriesLeft, SeedSettles, Fault, SeedShape
  <1>18. CASE SetMarker
    BY <1>18, BoundsAssumption DEF SetMarker, Mark, SeedSettles, SeedOf
  <1>19. CASE MarkerFails
    BY <1>19 DEF MarkerFails, SeedSettles, Fault
  <1>20. CASE Write
    BY <1>20 DEF Write
  <1>21. CASE UnsafeResetDatabase
    BY <1>21 DEF UnsafeResetDatabase
  <1>22. CASE Read
    BY <1>22 DEF Read
  <1>23. CASE ReadAnswered
    BY <1>23 DEF ReadAnswered
  <1>24. CASE UNCHANGED vars
    BY <1>24 DEF vars
  <1> QED
    BY <1>1, <1>2, <1>3, <1>4, <1>5, <1>6, <1>7, <1>8, <1>9, <1>10, <1>11, <1>12,
       <1>13, <1>14, <1>15, <1>16, <1>17, <1>18, <1>19, <1>20, <1>21, <1>22, <1>23, <1>24 DEF Next, Proceed

\* The bounds hold.
LEMMA CountersStep ==
  ASSUME TypeOK, [Next]_vars
  PROVE  CountersTyped'
PROOF
  <1> USE DEF adapter, gate, seeding, counters, TypeOK, CountersTyped
  <1>1. ASSUME NEW v \in 1..MaxVersion, NEW minVersion \in 1..v, Launch(v, minVersion)
       PROVE  CountersTyped'
    BY <1>1, BoundsAssumption DEF Launch, Versions
  <1>2. CASE Crash
    BY <1>2 DEF Crash, Dies
  <1>3. CASE OtherSetsUp
    BY <1>3 DEF OtherSetsUp, SetUpAt, Blank
  <1>4. CASE Initialize
    BY <1>4 DEF Initialize, SeedIsNext
  <1>5. CASE InitializeRefuses
    BY <1>5 DEF InitializeRefuses, SetUpFails, SettledAnyway
  <1>6. CASE InitializeFails
    BY <1>6, BoundsAssumption DEF InitializeFails, SetUpFails, SettledAnyway, Disposes, Fault
  <1>7. CASE Vacuum
    BY <1>7 DEF Vacuum, Blank
  <1>8. CASE Populate
    BY <1>8 DEF Populate, SetUpAt, Blank, SeedIsNext
  <1>9. CASE NativeSchemaFails
    BY <1>9, BoundsAssumption DEF NativeSchemaFails, Dies, Fault
  <1>10. CASE SetUpWithSchema
    BY <1>10 DEF SetUpWithSchema, SetUpAt, Blank, SeedIsNext
  <1>11. CASE SchemaFails
    BY <1>11, BoundsAssumption DEF SchemaFails, SetUpAt, Blank, SetUpFails, SettledAnyway, Disposes, Fault
  <1>12. CASE Migrate
    BY <1>12 DEF Migrate, Applies, Steps, SeedIsNext
  <1>13. CASE MigrateRechecks
    BY <1>13 DEF MigrateRechecks, SeedIsNext
  <1>14. CASE MigrateFails
    BY <1>14, BoundsAssumption DEF MigrateFails, SetUpFails, SettledAnyway, Disposes, Fault
  <1>15. CASE GetMarker
    BY <1>15 DEF GetMarker, SeedSettles, SeedOf
  <1>16. CASE RunStep
    BY <1>16 DEF RunStep
  <1>17. CASE StepThrows
    BY <1>17, BoundsAssumption DEF StepThrows, RetriesLeft, SeedSettles, Fault
  <1>18. CASE SetMarker
    BY <1>18 DEF SetMarker, Mark, SeedSettles
  <1>19. CASE MarkerFails
    BY <1>19, BoundsAssumption DEF MarkerFails, SeedSettles, Fault
  <1>20. CASE Write
    BY <1>20 DEF Write
  <1>21. CASE UnsafeResetDatabase
    BY <1>21 DEF UnsafeResetDatabase
  <1>22. CASE Read
    BY <1>22 DEF Read
  <1>23. CASE ReadAnswered
    BY <1>23 DEF ReadAnswered
  <1>24. CASE UNCHANGED vars
    BY <1>24 DEF vars
  <1> QED
    BY <1>1, <1>2, <1>3, <1>4, <1>5, <1>6, <1>7, <1>8, <1>9, <1>10, <1>11, <1>12,
       <1>13, <1>14, <1>15, <1>16, <1>17, <1>18, <1>19, <1>20, <1>21, <1>22, <1>23, <1>24 DEF Next, Proceed

\* The version of the file and its schema change together.
LEMMA VersionStep ==
  ASSUME TypeOK, SetUpShape, VersionTellsSchema, [Next]_vars
  PROVE  VersionTellsSchema'
PROOF
  <1> USE DEF adapter, gate, seeding, counters, VersionTellsSchema, TypeOK, FileTyped, AppTyped, Files
  <1>1. ASSUME NEW v \in 1..MaxVersion, NEW minVersion \in 1..v, Launch(v, minVersion)
       PROVE  VersionTellsSchema'
    BY <1>1 DEF Launch, Versions
  <1>2. CASE Crash
    BY <1>2 DEF Crash, Dies
  <1>3. CASE OtherSetsUp
    BY <1>3, SetUpFile DEF OtherSetsUp, SetUpAt, Blank
  <1>4. CASE Initialize
    BY <1>4 DEF Initialize, SeedIsNext
  <1>5. CASE InitializeRefuses
    BY <1>5 DEF InitializeRefuses, SetUpFails, SettledAnyway
  <1>6. CASE InitializeFails
    BY <1>6 DEF InitializeFails, SetUpFails, SettledAnyway, Disposes, Fault
  <1>7. CASE Vacuum
    BY <1>7 DEF Vacuum, Blank
  <1>8. CASE Populate
    BY <1>8, SetUpFile DEF Populate, SetUpAt, Blank, SeedIsNext
  <1>9. CASE NativeSchemaFails
    BY <1>9 DEF NativeSchemaFails, Dies, Fault
  <1>10. CASE SetUpWithSchema
    BY <1>10, SetUpFile DEF SetUpWithSchema, SetUpAt, Blank, SeedIsNext
  <1>11. CASE SchemaFails
    BY <1>11, SetUpFile DEF SchemaFails, SetUpAt, Blank, SetUpFails, SettledAnyway, Disposes, Fault
  <1>12. CASE Migrate
    BY <1>12 DEF Migrate, Applies, Steps, SeedIsNext, SetUpShape
  <1>13. CASE MigrateRechecks
    BY <1>13 DEF MigrateRechecks, SeedIsNext
  <1>14. CASE MigrateFails
    BY <1>14 DEF MigrateFails, SetUpFails, SettledAnyway, Disposes, Fault
  <1>15. CASE GetMarker
    BY <1>15 DEF GetMarker, SeedSettles, SeedOf
  <1>16. CASE RunStep
    BY <1>16 DEF RunStep
  <1>17. CASE StepThrows
    BY <1>17 DEF StepThrows, RetriesLeft, SeedSettles, Fault
  <1>18. CASE SetMarker
    BY <1>18 DEF SetMarker, Mark, SeedSettles
  <1>19. CASE MarkerFails
    BY <1>19 DEF MarkerFails, SeedSettles, Fault
  <1>20. CASE Write
    BY <1>20 DEF Write
  <1>21. CASE UnsafeResetDatabase
    BY <1>21 DEF UnsafeResetDatabase
  <1>22. CASE Read
    BY <1>22 DEF Read
  <1>23. CASE ReadAnswered
    BY <1>23 DEF ReadAnswered
  <1>24. CASE UNCHANGED vars
    BY <1>24 DEF vars
  <1> QED
    BY <1>1, <1>2, <1>3, <1>4, <1>5, <1>6, <1>7, <1>8, <1>9, <1>10, <1>11, <1>12,
       <1>13, <1>14, <1>15, <1>16, <1>17, <1>18, <1>19, <1>20, <1>21, <1>22, <1>23, <1>24 DEF Next, Proceed

\* What the adapter saw holds until it sets up, or another context was first.
LEMMA SetUpStep ==
  ASSUME TypeOK, SetUpShape, [Next]_vars
  PROVE  SetUpShape'
PROOF
  <1> USE DEF adapter, gate, seeding, counters, SetUpShape, TypeOK, FileTyped, AppTyped, Files
  <1>1. ASSUME NEW v \in 1..MaxVersion, NEW minVersion \in 1..v, Launch(v, minVersion)
       PROVE  SetUpShape'
    BY <1>1 DEF Launch, Versions
  <1>2. CASE Crash
    BY <1>2 DEF Crash, Dies
  <1>3. CASE OtherSetsUp
    BY <1>3 DEF OtherSetsUp, SetUpAt, Blank
  <1>4. CASE Initialize
    <2>1. found' = db.version /\ db' = db /\ app' = app /\ oldest' = oldest /\ raced' = raced
      BY <1>4 DEF Initialize
    <2>2. pc' \in {"schema", "migrate"} => db.version # app /\ resetting' = resetting
      BY <1>4 DEF Initialize, SeedIsNext
    <2>3. pc' = "migrate" => db.version \in 1..app
      BY <1>4 DEF Initialize, SeedIsNext
    <2>4. pc' = "schema" => ~(db.version \in 1..app /\ db.version >= oldest)
      BY <1>4 DEF Initialize, SeedIsNext, Available
    <2>5. db.version = 0 => ~db.content
      BY <1>4 DEF Initialize, Refuses
    <2> QED
      <3>1. SetUpShape!2'
        BY <1>4, <2>1, <2>3 DEF Initialize, SeedIsNext
      <3>2. SetUpShape!3'
        BY <1>4, <2>1, <2>2, <2>4, <2>5 DEF Initialize, SeedIsNext
      <3>3. SetUpShape!4'
        BY <1>4, <2>1, <2>2 DEF Initialize, SeedIsNext
      <3> QED
        BY <1>4, <2>1, <2>2, <3>1, <3>2, <3>3 DEF Initialize, SeedIsNext
  <1>5. CASE InitializeRefuses
    BY <1>5 DEF InitializeRefuses, SetUpFails, SettledAnyway
  <1>6. CASE InitializeFails
    BY <1>6 DEF InitializeFails, SetUpFails, SettledAnyway, Disposes, Fault
  <1>7. CASE Vacuum
    BY <1>7 DEF Vacuum, Blank
  <1>8. CASE Populate
    BY <1>8 DEF Populate, SetUpAt, Blank, SeedIsNext
  <1>9. CASE NativeSchemaFails
    BY <1>9 DEF NativeSchemaFails, Dies, Fault
  <1>10. CASE SetUpWithSchema
    BY <1>10 DEF SetUpWithSchema, SetUpAt, Blank, SeedIsNext
  <1>11. CASE SchemaFails
    BY <1>11 DEF SchemaFails, SetUpAt, Blank, SetUpFails, SettledAnyway, Disposes, Fault
  <1>12. CASE Migrate
    BY <1>12 DEF Migrate, Applies, Steps, SeedIsNext
  <1>13. CASE MigrateRechecks
    BY <1>13 DEF MigrateRechecks, SeedIsNext
  <1>14. CASE MigrateFails
    BY <1>14 DEF MigrateFails, SetUpFails, SettledAnyway, Disposes, Fault
  <1>15. CASE GetMarker
    BY <1>15 DEF GetMarker, SeedSettles, SeedOf
  <1>16. CASE RunStep
    BY <1>16 DEF RunStep
  <1>17. CASE StepThrows
    BY <1>17 DEF StepThrows, RetriesLeft, SeedSettles, Fault
  <1>18. CASE SetMarker
    BY <1>18 DEF SetMarker, Mark, SeedSettles
  <1>19. CASE MarkerFails
    BY <1>19 DEF MarkerFails, SeedSettles, Fault
  <1>20. CASE Write
    BY <1>20 DEF Write
  <1>21. CASE UnsafeResetDatabase
    BY <1>21 DEF UnsafeResetDatabase
  <1>22. CASE Read
    BY <1>22 DEF Read
  <1>23. CASE ReadAnswered
    BY <1>23 DEF ReadAnswered
  <1>24. CASE UNCHANGED vars
    BY <1>24 DEF vars
  <1> QED
    BY <1>1, <1>2, <1>3, <1>4, <1>5, <1>6, <1>7, <1>8, <1>9, <1>10, <1>11, <1>12,
       <1>13, <1>14, <1>15, <1>16, <1>17, <1>18, <1>19, <1>20, <1>21, <1>22, <1>23, <1>24 DEF Next, Proceed

\* The steps left are those behind the marker, whichever comes next.
LEMMA SeedStep ==
  ASSUME TypeOK, SeedShape, [Next]_vars
  PROVE  SeedShape'
PROOF
  <1> USE DEF adapter, gate, seeding, counters, SeedShape, TypeOK, FileTyped, AppTyped, SeedTyped, Files
  <1>1. ASSUME NEW v \in 1..MaxVersion, NEW minVersion \in 1..v, Launch(v, minVersion)
       PROVE  SeedShape'
    BY <1>1 DEF Launch, Versions
  <1>2. CASE Crash
    BY <1>2 DEF Crash, Dies
  <1>3. CASE OtherSetsUp
    BY <1>3 DEF OtherSetsUp, SetUpAt, Blank
  <1>4. CASE Initialize
    BY <1>4 DEF Initialize, SeedIsNext
  <1>5. CASE InitializeRefuses
    BY <1>5 DEF InitializeRefuses, SetUpFails, SettledAnyway
  <1>6. CASE InitializeFails
    BY <1>6 DEF InitializeFails, SetUpFails, SettledAnyway, Disposes, Fault
  <1>7. CASE Vacuum
    BY <1>7 DEF Vacuum, Blank
  <1>8. CASE Populate
    BY <1>8 DEF Populate, SetUpAt, Blank, SeedIsNext
  <1>9. CASE NativeSchemaFails
    BY <1>9 DEF NativeSchemaFails, Dies, Fault
  <1>10. CASE SetUpWithSchema
    BY <1>10 DEF SetUpWithSchema, SetUpAt, Blank, SeedIsNext
  <1>11. CASE SchemaFails
    BY <1>11 DEF SchemaFails, SetUpAt, Blank, SetUpFails, SettledAnyway, Disposes, Fault
  <1>12. CASE Migrate
    BY <1>12 DEF Migrate, Applies, Steps, SeedIsNext
  <1>13. CASE MigrateRechecks
    BY <1>13 DEF MigrateRechecks, SeedIsNext
  <1>14. CASE MigrateFails
    BY <1>14 DEF MigrateFails, SetUpFails, SettledAnyway, Disposes, Fault
  <1>15. CASE GetMarker
    <2>1. steps' = Pending'
      BY <1>15 DEF GetMarker, Pending
    <2> QED
      BY <1>15, <2>1, BoundsAssumption DEF GetMarker, SeedSettles
  <1>16. CASE RunStep
    <2>1. Pending' = Pending /\ Step' = Step
      BY <1>16, PendingKept DEF RunStep, Step
    <2>2. Step \in db'.seeded
      BY <1>16 DEF RunStep
    <2> QED
      BY <1>16, <2>1, <2>2 DEF RunStep
  <1>17. CASE StepThrows
    <2>1. Pending' = Pending
      BY <1>17, PendingKept DEF StepThrows
    <2> QED
      BY <1>17, <2>1, BoundsAssumption DEF StepThrows, RetriesLeft, SeedSettles, Fault
  <1>18. CASE SetMarker
    <2>1. Step \in steps /\ \A v \in steps : Step <= v
      BY <1>18, StepIsFirst DEF SetMarker
    <2>2. db'.marker = Step /\ app' = app
      BY <1>18 DEF SetMarker, Mark, Step
    <2>3. ASSUME NEW v
          PROVE  v \in steps \ {Step} <=> v \in Pending'
      <3>1. v \in steps <=> v \in SeedOf(app) /\ v > db.marker
        BY <1>18 DEF SetMarker, Pending
      <3>2. v \in Pending' <=> v \in SeedOf(app) /\ v > Step
        BY <2>2 DEF Pending
      <3>3. v \in SeedOf(app) => v \in Nat
        BY DEF SeedOf
      <3>4. Step \in Nat /\ Step > db.marker
        BY <1>18, <2>1 DEF SetMarker, Pending, SeedOf
      <3> QED
        BY <2>1, <3>1, <3>2, <3>3, <3>4
    <2>4. steps' = Pending'
      BY <1>18, <2>3 DEF SetMarker
    <2> QED
      BY <1>18, <2>4, BoundsAssumption DEF SetMarker, SeedSettles
  <1>19. CASE MarkerFails
    BY <1>19 DEF MarkerFails, SeedSettles, Fault
  <1>20. CASE Write
    BY <1>20 DEF Write
  <1>21. CASE UnsafeResetDatabase
    BY <1>21 DEF UnsafeResetDatabase
  <1>22. CASE Read
    <2>1. Pending' = Pending /\ Step' = Step
      BY <1>22, PendingKept DEF Read, Step
    <2> QED
      BY <1>22, <2>1 DEF Read
  <1>23. CASE ReadAnswered
    <2>1. Pending' = Pending /\ Step' = Step
      BY <1>23, PendingKept DEF ReadAnswered, Step
    <2> QED
      BY <1>23, <2>1 DEF ReadAnswered
  <1>24. CASE UNCHANGED vars
    <2>1. Pending' = Pending /\ Step' = Step
      BY <1>24, PendingKept DEF vars, Step
    <2> QED
      BY <1>24, <2>1 DEF vars
  <1> QED
    BY <1>1, <1>2, <1>3, <1>4, <1>5, <1>6, <1>7, <1>8, <1>9, <1>10, <1>11, <1>12,
       <1>13, <1>14, <1>15, <1>16, <1>17, <1>18, <1>19, <1>20, <1>21, <1>22, <1>23, <1>24 DEF Next, Proceed

\* A marker passes no step whose rows are missing.
LEMMA MarkerStep ==
  ASSUME TypeOK, SeedShape, MarkerImpliesSeeded, [Next]_vars
  PROVE  MarkerImpliesSeeded'
PROOF
  <1> USE DEF adapter, gate, seeding, counters, MarkerImpliesSeeded, TypeOK, FileTyped, AppTyped, Files
  <1>1. ASSUME NEW v \in 1..MaxVersion, NEW minVersion \in 1..v, Launch(v, minVersion)
       PROVE  MarkerImpliesSeeded'
    BY <1>1 DEF Launch, Versions
  <1>2. CASE Crash
    BY <1>2 DEF Crash, Dies
  <1>3. CASE OtherSetsUp
    BY <1>3 DEF OtherSetsUp, SetUpAt, Blank, SeedOf
  <1>4. CASE Initialize
    BY <1>4 DEF Initialize, SeedIsNext
  <1>5. CASE InitializeRefuses
    BY <1>5 DEF InitializeRefuses, SetUpFails, SettledAnyway
  <1>6. CASE InitializeFails
    BY <1>6 DEF InitializeFails, SetUpFails, SettledAnyway, Disposes, Fault
  <1>7. CASE Vacuum
    BY <1>7, BlankFile DEF Vacuum, Blank, SeedOf
  <1>8. CASE Populate
    <2>1. db' = SetUpAt(app)
      BY <1>8 DEF Populate
    <2>2. app \in 0..MaxVersion
      BY DEF TypeOK, AppTyped
    <2>3. SetUpAt(app).marker = 0
      BY <2>2, SetUpFile
    <2> QED
      BY <2>1, <2>3, NoSteps
  <1>9. CASE NativeSchemaFails
    BY <1>9 DEF NativeSchemaFails, Dies, Fault
  <1>10. CASE SetUpWithSchema
    <2>1. db' = SetUpAt(app) \/ db' = db
      BY <1>10 DEF SetUpWithSchema
    <2>2. app \in 0..MaxVersion
      BY DEF TypeOK, AppTyped
    <2>3. SetUpAt(app).marker = 0
      BY <2>2, SetUpFile
    <2> QED
      BY <2>1, <2>3, NoSteps
  <1>11. CASE SchemaFails
    <2>1. db' = SetUpAt(app) \/ db' = db
      BY <1>11 DEF SchemaFails
    <2>2. app \in 0..MaxVersion
      BY DEF TypeOK, AppTyped
    <2>3. SetUpAt(app).marker = 0
      BY <2>2, SetUpFile
    <2> QED
      BY <2>1, <2>3, NoSteps
  <1>12. CASE Migrate
    BY <1>12 DEF Migrate, Applies, Steps, SeedIsNext
  <1>13. CASE MigrateRechecks
    BY <1>13 DEF MigrateRechecks, SeedIsNext
  <1>14. CASE MigrateFails
    BY <1>14 DEF MigrateFails, SetUpFails, SettledAnyway, Disposes, Fault
  <1>15. CASE GetMarker
    BY <1>15 DEF GetMarker, SeedSettles, SeedOf
  <1>16. CASE RunStep
    BY <1>16 DEF RunStep
  <1>17. CASE StepThrows
    BY <1>17 DEF StepThrows, RetriesLeft, SeedSettles, Fault
  <1>18. CASE SetMarker
    <2>1. /\ Step \in steps /\ \A v \in steps : Step <= v
          /\ steps = Pending /\ Step \in db.seeded
      BY <1>18, StepIsFirst DEF SetMarker, SeedShape
    <2>2. db'.marker = Step /\ db'.seeded = db.seeded
      BY <1>18 DEF SetMarker, Mark, Step
    <2>3. Step \in 1..app
      BY <2>1 DEF Pending, SeedOf
    <2>4. ASSUME NEW v \in SeedOf(Step)
          PROVE  v \in db.seeded
      <3>1. v \in SeedVersions /\ v \in Nat /\ 1 <= v /\ v <= Step
        BY <2>3, AppTyped DEF SeedOf, AppTyped
      <3>2. CASE v <= db.marker
        BY <3>1, <3>2 DEF SeedOf
      <3>3. CASE ~(v <= db.marker)
        <4>1. v \in steps
          BY <2>1, <2>3, <3>1, <3>3 DEF Pending, SeedOf, AppTyped
        <4> QED
          BY <2>1, <2>3, <3>1, <4>1
      <3> QED
        BY <3>2, <3>3
    <2> QED
      BY <2>2, <2>4
  <1>19. CASE MarkerFails
    BY <1>19 DEF MarkerFails, SeedSettles, Fault
  <1>20. CASE Write
    BY <1>20 DEF Write
  <1>21. CASE UnsafeResetDatabase
    BY <1>21 DEF UnsafeResetDatabase
  <1>22. CASE Read
    BY <1>22 DEF Read
  <1>23. CASE ReadAnswered
    BY <1>23 DEF ReadAnswered
  <1>24. CASE UNCHANGED vars
    BY <1>24 DEF vars
  <1> QED
    BY <1>1, <1>2, <1>3, <1>4, <1>5, <1>6, <1>7, <1>8, <1>9, <1>10, <1>11, <1>12,
       <1>13, <1>14, <1>15, <1>16, <1>17, <1>18, <1>19, <1>20, <1>21, <1>22, <1>23, <1>24 DEF Next, Proceed

\* Only the end of the seed job opens the gate at launch.
LEMMA GateStep ==
  ASSUME TypeOK, SeedShape, GateShape, [Next]_vars
  PROVE  GateShape'
PROOF
  <1> USE DEF adapter, gate, seeding, counters, GateShape, TypeOK, AppTyped, GateTyped
  <1>1. ASSUME NEW v \in 1..MaxVersion, NEW minVersion \in 1..v, Launch(v, minVersion)
       PROVE  GateShape'
    BY <1>1 DEF Launch, Versions
  <1>2. CASE Crash
    BY <1>2 DEF Crash, Dies
  <1>3. CASE OtherSetsUp
    BY <1>3 DEF OtherSetsUp, SetUpAt, Blank
  <1>4. CASE Initialize
    BY <1>4 DEF Initialize, SeedIsNext
  <1>5. CASE InitializeRefuses
    BY <1>5 DEF InitializeRefuses, SetUpFails, SettledAnyway
  <1>6. CASE InitializeFails
    BY <1>6 DEF InitializeFails, SetUpFails, SettledAnyway, Disposes, Fault
  <1>7. CASE Vacuum
    BY <1>7 DEF Vacuum, Blank
  <1>8. CASE Populate
    BY <1>8 DEF Populate, SetUpAt, Blank, SeedIsNext
  <1>9. CASE NativeSchemaFails
    BY <1>9 DEF NativeSchemaFails, Dies, Fault
  <1>10. CASE SetUpWithSchema
    BY <1>10 DEF SetUpWithSchema, SetUpAt, Blank, SeedIsNext
  <1>11. CASE SchemaFails
    BY <1>11 DEF SchemaFails, SetUpAt, Blank, SetUpFails, SettledAnyway, Disposes, Fault
  <1>12. CASE Migrate
    BY <1>12 DEF Migrate, Applies, Steps, SeedIsNext
  <1>13. CASE MigrateRechecks
    BY <1>13 DEF MigrateRechecks, SeedIsNext
  <1>14. CASE MigrateFails
    BY <1>14 DEF MigrateFails, SetUpFails, SettledAnyway, Disposes, Fault
  <1>15. CASE GetMarker
    BY <1>15 DEF GetMarker, SeedSettles, SeedOf
  <1>16. CASE RunStep
    BY <1>16 DEF RunStep
  <1>17. CASE StepThrows
    BY <1>17 DEF StepThrows, RetriesLeft, SeedSettles, Fault
  <1>18. CASE SetMarker
    BY <1>18 DEF SetMarker, Mark, SeedSettles
  <1>19. CASE MarkerFails
    BY <1>19 DEF MarkerFails, SeedSettles, Fault
  <1>20. CASE Write
    BY <1>20 DEF Write
  <1>21. CASE UnsafeResetDatabase
    BY <1>21 DEF UnsafeResetDatabase
  <1>22. CASE Read
    BY <1>22 DEF Read
  <1>23. CASE ReadAnswered
    BY <1>23 DEF ReadAnswered
  <1>24. CASE UNCHANGED vars
    BY <1>24 DEF vars
  <1> QED
    BY <1>1, <1>2, <1>3, <1>4, <1>5, <1>6, <1>7, <1>8, <1>9, <1>10, <1>11, <1>12,
       <1>13, <1>14, <1>15, <1>16, <1>17, <1>18, <1>19, <1>20, <1>21, <1>22, <1>23, <1>24 DEF Next, Proceed

-----------------------------------------------------------------------------
\* What DataKept and ReadsWaitForSetUp say of a step.
LossIsAllowed ==
  db.content /\ ~db'.content =>
    \/ resetting
    \/ db.version > app
    \/ db.version \in 1..(oldest - 1)
    \/ raced /\ driver # "wasm"
RowsAreReady ==
  read = "queued" /\ read' = "rows" =>
    /\ db.version = app
    /\ resetting \/ pc \in {"run", "idle"}

\* What the user wrote goes only where that is allowed.
LEMMA LossStep ==
  ASSUME TypeOK, SetUpShape, [Next]_vars
  PROVE  LossIsAllowed
PROOF
  <1> USE DEF adapter, gate, seeding, counters, LossIsAllowed, SetUpShape, TypeOK, FileTyped, AppTyped, GateTyped, Files
  <1>1. ASSUME NEW v \in 1..MaxVersion, NEW minVersion \in 1..v, Launch(v, minVersion)
       PROVE  LossIsAllowed
    BY <1>1 DEF Launch, Versions
  <1>2. CASE Crash
    BY <1>2 DEF Crash, Dies
  <1>3. CASE OtherSetsUp
    BY <1>3 DEF OtherSetsUp, SetUpAt, Blank
  <1>4. CASE Initialize
    BY <1>4 DEF Initialize, SeedIsNext
  <1>5. CASE InitializeRefuses
    BY <1>5 DEF InitializeRefuses, SetUpFails, SettledAnyway
  <1>6. CASE InitializeFails
    BY <1>6 DEF InitializeFails, SetUpFails, SettledAnyway, Disposes, Fault
  <1>7. CASE Vacuum
    BY <1>7 DEF Vacuum, Blank
  <1>8. CASE Populate
    BY <1>8 DEF Populate, SetUpAt, Blank, SeedIsNext
  <1>9. CASE NativeSchemaFails
    BY <1>9 DEF NativeSchemaFails, Dies, Fault
  <1>10. CASE SetUpWithSchema
    BY <1>10 DEF SetUpWithSchema, SetUpAt, Blank, SeedIsNext
  <1>11. CASE SchemaFails
    BY <1>11 DEF SchemaFails, SetUpAt, Blank, SetUpFails, SettledAnyway, Disposes, Fault
  <1>12. CASE Migrate
    BY <1>12 DEF Migrate, Applies, Steps, SeedIsNext
  <1>13. CASE MigrateRechecks
    BY <1>13 DEF MigrateRechecks, SeedIsNext
  <1>14. CASE MigrateFails
    BY <1>14 DEF MigrateFails, SetUpFails, SettledAnyway, Disposes, Fault
  <1>15. CASE GetMarker
    BY <1>15 DEF GetMarker, SeedSettles, SeedOf
  <1>16. CASE RunStep
    BY <1>16 DEF RunStep
  <1>17. CASE StepThrows
    BY <1>17 DEF StepThrows, RetriesLeft, SeedSettles, Fault
  <1>18. CASE SetMarker
    BY <1>18 DEF SetMarker, Mark, SeedSettles
  <1>19. CASE MarkerFails
    BY <1>19 DEF MarkerFails, SeedSettles, Fault
  <1>20. CASE Write
    BY <1>20 DEF Write
  <1>21. CASE UnsafeResetDatabase
    BY <1>21 DEF UnsafeResetDatabase
  <1>22. CASE Read
    BY <1>22 DEF Read
  <1>23. CASE ReadAnswered
    BY <1>23 DEF ReadAnswered
  <1>24. CASE UNCHANGED vars
    BY <1>24 DEF vars
  <1> QED
    BY <1>1, <1>2, <1>3, <1>4, <1>5, <1>6, <1>7, <1>8, <1>9, <1>10, <1>11, <1>12,
       <1>13, <1>14, <1>15, <1>16, <1>17, <1>18, <1>19, <1>20, <1>21, <1>22, <1>23, <1>24 DEF Next, Proceed

\* Rows are read only from a database that is ready.
LEMMA RowsStep ==
  ASSUME TypeOK, SetUpShape, GateShape, [Next]_vars
  PROVE  RowsAreReady
PROOF
  <1> USE DEF adapter, gate, seeding, counters, RowsAreReady, TypeOK
  <1>1. ASSUME NEW v \in 1..MaxVersion, NEW minVersion \in 1..v, Launch(v, minVersion)
       PROVE  RowsAreReady
    BY <1>1 DEF Launch, Versions
  <1>2. CASE Crash
    BY <1>2 DEF Crash, Dies
  <1>3. CASE OtherSetsUp
    BY <1>3 DEF OtherSetsUp, SetUpAt, Blank
  <1>4. CASE Initialize
    BY <1>4 DEF Initialize, SeedIsNext
  <1>5. CASE InitializeRefuses
    BY <1>5 DEF InitializeRefuses, SetUpFails, SettledAnyway
  <1>6. CASE InitializeFails
    BY <1>6 DEF InitializeFails, SetUpFails, SettledAnyway, Disposes, Fault
  <1>7. CASE Vacuum
    BY <1>7 DEF Vacuum, Blank
  <1>8. CASE Populate
    BY <1>8 DEF Populate, SetUpAt, Blank, SeedIsNext
  <1>9. CASE NativeSchemaFails
    BY <1>9 DEF NativeSchemaFails, Dies, Fault
  <1>10. CASE SetUpWithSchema
    BY <1>10 DEF SetUpWithSchema, SetUpAt, Blank, SeedIsNext
  <1>11. CASE SchemaFails
    BY <1>11 DEF SchemaFails, SetUpAt, Blank, SetUpFails, SettledAnyway, Disposes, Fault
  <1>12. CASE Migrate
    BY <1>12 DEF Migrate, Applies, Steps, SeedIsNext
  <1>13. CASE MigrateRechecks
    BY <1>13 DEF MigrateRechecks, SeedIsNext
  <1>14. CASE MigrateFails
    BY <1>14 DEF MigrateFails, SetUpFails, SettledAnyway, Disposes, Fault
  <1>15. CASE GetMarker
    BY <1>15 DEF GetMarker, SeedSettles, SeedOf
  <1>16. CASE RunStep
    BY <1>16 DEF RunStep
  <1>17. CASE StepThrows
    BY <1>17 DEF StepThrows, RetriesLeft, SeedSettles, Fault
  <1>18. CASE SetMarker
    BY <1>18 DEF SetMarker, Mark, SeedSettles
  <1>19. CASE MarkerFails
    BY <1>19 DEF MarkerFails, SeedSettles, Fault
  <1>20. CASE Write
    BY <1>20 DEF Write
  <1>21. CASE UnsafeResetDatabase
    BY <1>21 DEF UnsafeResetDatabase
  <1>22. CASE Read
    BY <1>22 DEF Read
  <1>23. CASE ReadAnswered
    BY <1>23 DEF ReadAnswered, SetUpShape, GateShape, GateTyped, ReadsUnblocked, Seeding
  <1>24. CASE UNCHANGED vars
    BY <1>24 DEF vars
  <1> QED
    BY <1>1, <1>2, <1>3, <1>4, <1>5, <1>6, <1>7, <1>8, <1>9, <1>10, <1>11, <1>12,
       <1>13, <1>14, <1>15, <1>16, <1>17, <1>18, <1>19, <1>20, <1>21, <1>22, <1>23, <1>24 DEF Next, Proceed

-----------------------------------------------------------------------------
LEMMA Initially ==
  ASSUME Init
  PROVE  IInv
PROOF
  <1> USE DEF Init
  <1>1. db \in Files /\ db.version = 0 /\ db.marker = 0
        /\ (db.content => db.tables # {})
    <2>1. CASE db = Blank
      BY <2>1, BlankFile
    <2>2. CASE db = Foreign
      <3>1. {0} \in SUBSET (0..MaxVersion)
        BY VersionAssumption
      <3>2. Foreign \in Files
        BY <3>1, BlankFile, MigratedFile DEF Foreign
      <3>3. Foreign.version = 0 /\ Foreign.marker = 0 /\ Foreign.tables = {0}
        BY DEF Foreign, Blank
      <3> QED
        BY <2>2, <3>2, <3>3
    <2> QED
      BY <2>1, <2>2
  <1>2. TypeOK
    <2>1. FileTyped
      BY <1>1 DEF FileTyped
    <2>2. AppTyped
      BY VersionAssumption DEF AppTyped
    <2>3. GateTyped
      BY DEF GateTyped
    <2>4. SeedTyped /\ CountersTyped
      BY BoundsAssumption DEF SeedTyped, CountersTyped
    <2> QED
      BY <2>1, <2>2, <2>3, <2>4 DEF TypeOK
  <1>3. VersionTellsSchema /\ MarkerImpliesSeeded
    BY <1>1, NoSteps DEF VersionTellsSchema, MarkerImpliesSeeded
  <1>4. SetUpShape /\ SeedShape /\ GateShape
    BY <1>1 DEF SetUpShape, SeedShape, GateShape
  <1> QED  BY <1>2, <1>3, <1>4 DEF IInv

LEMMA Inductive ==
  ASSUME IInv, [Next]_vars
  PROVE  IInv'
PROOF
  <1>1. TypeOK'
    BY FileStep, AppStep, GateTypeStep, SeedTypeStep, CountersStep DEF IInv, TypeOK
  <1> QED
    BY <1>1, VersionStep, MarkerStep, SetUpStep, SeedStep, GateStep DEF IInv

LEMMA Invariance == Spec => []IInv
PROOF
  <1>1. Init => IInv
    BY Initially
  <1>2. IInv /\ [Next]_vars => IInv'
    BY Inductive
  <1> QED  BY <1>1, <1>2, PTL DEF Spec

\* Types, for any number of versions, retries, launches and failures.
THEOREM StartupTyping == Spec => []TypeOK
PROOF
  <1>1. IInv => TypeOK
    BY DEF IInv
  <1> QED  BY <1>1, Invariance, PTL

\* The version of a file tells its schema (setUserVersion, stepsForMigration).
THEOREM Versioning == Spec => []VersionTellsSchema
PROOF
  <1>1. IInv => VersionTellsSchema
    BY DEF IInv
  <1> QED  BY <1>1, Invariance, PTL

\* The rows of every seed step up to the marker are in the file (_runSeed).
THEOREM SeedMarking == Spec => []MarkerImpliesSeeded
PROOF
  <1>1. IInv => MarkerImpliesSeeded
    BY DEF IInv
  <1> QED  BY <1>1, Invariance, PTL

\* What the user wrote goes only in a reset, or when no migration leads from
\* the file's version to the app's (SQLiteAdapter._init).
THEOREM Keeping == Spec => DataKept
PROOF
  <1>1. IInv /\ [Next]_vars => [LossIsAllowed]_vars
    BY LossStep DEF IInv
  <1> QED  BY <1>1, Invariance, PTL DEF Spec, DataKept, LossIsAllowed

\* No read gets rows before the set-up and the seed steps are over
\* (_whenReady).
THEOREM Waiting == Spec => ReadsWaitForSetUp
PROOF
  <1>1. IInv /\ [Next]_vars => [RowsAreReady]_vars
    BY RowsStep DEF IInv
  <1> QED  BY <1>1, Invariance, PTL DEF Spec, ReadsWaitForSetUp, RowsAreReady
=============================================================================
