--------------------------- MODULE NativeDatabase ---------------------------
(***************************************************************************)
(* The C++ core: watermelondb::Database (native/shared/Database*.cpp) over *)
(* one SQLite connection, with its statement cache and its set of records  *)
(* that JavaScript holds.                                                  *)
(*                                                                         *)
(* JavaScript calls it from one thread; a memory alert and the teardown of *)
(* the bridge come from others.  Every call holds `mutex_` from its first  *)
(* to its last statement, so an alert finds it free or waits.  One step is *)
(* one SQLite statement (prepare, bind, step); each can fail.              *)
(***************************************************************************)
EXTENDS StatementCache, FiniteSets

CONSTANTS
  Ids,        \* the records of one table
  None,       \* no row, no call
  Batches,    \* the batches made: sequences of [do, id]
  Jsons,      \* the sync JSONs loaded: sequences of [id, value]
  MaxTables,  \* tables in a schema
  MaxCalls,   \* bound on the calls made
  MaxFaults   \* bound on the statements that fail

VARIABLES
  mutex,          \* mutex_: "free", or held by the thread of JavaScript
  isDestroyed,    \* isDestroyed_: the constructor does not set it
  connection,     \* "open", "closed", or "aborted" with its process
  asked,          \* destroy() was called
  capacity, lru,  \* cachedStatements_
  prepared,       \* statements of the connection that are not finalized
  held,           \* statements a call has a pointer to
  op,             \* the call that is running, or None
  txn,            \* SQLite is in a transaction
  rows, draft,    \* the committed rows, and those the transaction sees
  cachedRecords,  \* cachedRecords_
  known,          \* records whose row JavaScript was given or wrote
  spoiled,        \* records marked by a query that then failed
  calls, faults

native == <<isDestroyed, connection, asked, capacity>>
statements == <<lru, prepared>>
data == <<txn, rows, draft>>
marks == <<cachedRecords, known, spoiled>>
vars == <<mutex, native, statements, held, op, data, marks, calls, faults>>

\* The operations of a batch, and the records of a sync JSON.
Changes == [do : {"create", "update", "destroy"}, id : Ids]
Records == [id : Ids, value : {"right", "wrong", "missing"}]

Sqls == {"begin", "commit", "rollback", "version", "find", "query", "mutate",
         "insert", "create", "update", "destroy"}
Reads == {"find", "query", "ids"}
Values == {None, "default", "value", "deleted"}

Places ==
  {"vacuum", "begin", "select", "rows", "mutate", "ops", "held", "preamble", "insert",
   "records", "schema", "version", "commit", "fit", "rollback"}
\* A call that is running: which, where it is, its arguments, the rows it is
\* to leave, the rows it has yet to step through, and the records it added
\* (or read) and removed.
Ops ==
  [kind : Reads \cup {"batch", "batchJSON", "destroyMatching", "load", "reset", "migrate"},
   at : Places,
   arg : Ids \cup {None, "deleted"},
   todo : Seq(Changes) \cup Seq(Records),
   target : [Ids -> Values],
   left : SUBSET Ids, got : SUBSET Ids, gone : SUBSET Ids,
   bound : {None, "default", "value"}]

ASSUME NoneAssumption == None \notin Ids /\ None \notin Ops /\ None \notin Sqls \cup {"default", "value", "deleted"}
ASSUME ArgumentsAssumption == Batches \subseteq Seq(Changes) /\ Jsons \subseteq Seq(Records)
ASSUME BoundsAssumption == MaxTables \in Nat /\ MaxCalls \in Nat /\ MaxFaults \in Nat

Live(r) == {id \in Ids : r[id] \in {"default", "value"}}
Present(r) == {id \in Ids : r[id] # None}
Empty == [id \in Ids |-> None]

\* isDestroyed_ is read uninitialized: any value the memory held.
Init ==
  /\ mutex = "free" /\ held = {} /\ op = None
  /\ isDestroyed \in BOOLEAN
  /\ connection = "open" /\ asked = FALSE
  /\ capacity = kBaseCapacity /\ lru = <<>> /\ prepared = {}
  /\ txn = FALSE /\ rows = Empty /\ draft = Empty
  /\ cachedRecords = {} /\ known = {} /\ spoiled = {}
  /\ calls = 0 /\ faults = 0

-----------------------------------------------------------------------------
\* prepareQuery(sql): from the cache, or prepared and put into it.
Prepares(sql) ==
  /\ lru' = Used(lru, sql, capacity)
  /\ prepared' = (prepared \cup {sql}) \ Dropped(lru, sql, capacity)

\* Fault: the lock is not given back.
ReturnsLocked == mutex' = mutex /\ held' = {} /\ op' = None
\* A call returns or throws: the lock_guard and the statements go.
Returns == mutex' = "free" /\ held' = {} /\ op' = None

Goes(at) == op' = [op EXCEPT !.at = at]

-----------------------------------------------------------------------------
\* What the statements of a batch do to the rows they see.
\* Only a row that exists already is an error; `update` and `delete` may match
\* no row.
Possible(o, r) == o.do = "create" => r[o.id] = None
Applied(o, r) ==
  [r EXCEPT ![o.id] = IF o.do = "destroy" \/ (o.do = "update" /\ @ = None) THEN None ELSE "value"]
Does(o, kind) == IF o.do = kind THEN {o.id} ELSE {}

\* Fault: the bindings of the record before are kept.
BoundStays(before, value) == IF value = "right" THEN "value" ELSE IF before = None THEN "default" ELSE before
\* Turbo sync binds each column's default before the value of a record, and a
\* value of the wrong type not at all.
Bound(before, value) == IF value = "right" THEN "value" ELSE "default"

\* The rows after a whole call that succeeds, for AllOrNothing.
Touched(todo, id) == \E i \in 1..Len(todo) : todo[i].id = id
Destroys(o, id) == o.id = id /\ o.do = "destroy"
Destroyed(todo, id) == \E i \in 1..Len(todo) : Destroys(todo[i], id)
Created(todo, id) ==
  \E i \in 1..Len(todo) : /\ todo[i].id = id /\ todo[i].do = "create"
                          /\ \A j \in i..Len(todo) : ~Destroys(todo[j], id)
AfterBatch(r, todo) ==
  [id \in Ids |->
     IF ~Created(todo, id) /\ (r[id] = None \/ Destroyed(todo, id)) THEN None
     ELSE IF Touched(todo, id) THEN "value" ELSE r[id]]
AfterLoad(r, todo) ==
  [id \in Ids |->
     IF \E i \in 1..Len(todo) : todo[i].id = id /\ todo[i].value = "right" THEN "value"
     ELSE IF Touched(todo, id) THEN "default" ELSE r[id]]
AfterDestroy(r, to) == [id \in Ids |-> IF id \in Live(r) THEN to ELSE r[id]]

-----------------------------------------------------------------------------
\* JavaScript makes no call after it asked for the end, or after the teardown.
CanCall == mutex = "free" /\ connection = "open" /\ ~asked /\ calls < MaxCalls

Enters(kind, at, arg, todo, target) ==
  /\ CanCall
  /\ calls' = calls + 1
  /\ mutex' = "js"
  /\ op' = [kind |-> kind, at |-> at, arg |-> arg, todo |-> todo, target |-> target,
            left |-> {}, got |-> {}, gone |-> {}, bound |-> None]
  /\ UNCHANGED <<native, statements, held, data, marks, faults>>

Find(id) ==
  /\ id \notin cachedRecords
  /\ Enters("find", "select", id, <<>>, rows)

\* The bare id is the answer.
FindCached(id) ==
  /\ CanCall /\ id \in cachedRecords
  /\ calls' = calls + 1
  /\ UNCHANGED <<mutex, native, statements, held, op, data, marks, faults>>

\* query and queryAsArray.
Query == Enters("query", "select", None, <<>>, rows)
\* queryIds, unsafeQueryRaw, count, getLocal: no record is marked.
QueryIds == Enters("ids", "select", None, <<>>, rows)
\* batch prepares and releases each statement; batchJSON holds one for the
\* arguments of an operation.
Batch(kind, todo) == Enters(kind, "begin", None, todo, AfterBatch(rows, todo))
DestroyMatching(to) == Enters("destroyMatching", "begin", to, <<>>, AfterDestroy(rows, to))
LoadFromSync(json) == Enters("load", "begin", None, json, AfterLoad(rows, json))
\* Also setUpWithSchema().
UnsafeResetDatabase == Enters("reset", "vacuum", None, <<>>, Empty)
Migrate == Enters("migrate", "begin", None, <<>>, rows)

\* unsafeExecuteMultiple does not take mutex_; here it deletes a row.
ExecuteMultiple(id) ==
  /\ CanCall
  /\ calls' = calls + 1
  /\ rows' = [rows EXCEPT ![id] = None] /\ draft' = rows'
  /\ UNCHANGED <<mutex, native, statements, held, op, txn, marks, faults>>

-----------------------------------------------------------------------------
At(place) == op # None /\ op.at = place

Begin ==
  /\ At("begin")
  /\ Prepares("begin")
  /\ txn' = TRUE
  /\ Goes(CASE op.kind \in {"batch", "batchJSON"} -> "ops"
            [] op.kind = "destroyMatching" -> "select"
            [] op.kind = "load" -> "preamble"
            [] op.kind \in {"reset", "migrate"} -> "schema")
  /\ cachedRecords' = IF op.kind = "reset" THEN {} ELSE cachedRecords
  /\ UNCHANGED <<mutex, native, held, rows, draft, known, spoiled, calls, faults>>

\* executeQuery: the statement is held until the call returns.
Select ==
  /\ At("select")
  /\ LET sql == IF op.kind = "find" THEN "find" ELSE "query" IN
     Prepares(sql) /\ held' = held \cup {sql}
  /\ op' = [op EXCEPT !.at = "rows",
                      !.left = CASE op.kind = "find" -> {op.arg} \cap Present(draft)
                                 [] op.kind = "ids" -> {}
                                 [] OTHER -> Live(draft)]
  /\ UNCHANGED <<mutex, native, data, marks, calls, faults>>

\* A record is marked before its values are read (query), or after (find).
Row(id) ==
  /\ At("rows") /\ id \in op.left
  /\ LET bare == op.kind = "query" /\ id \in cachedRecords IN
     /\ op' = IF op.kind = "destroyMatching"
              THEN [op EXCEPT !.left = @ \ {id}, !.gone = @ \cup {id}]
              ELSE [op EXCEPT !.left = @ \ {id}, !.got = IF bare THEN @ ELSE @ \cup {id}]
     /\ cachedRecords' = IF op.kind \in {"query", "find"} THEN cachedRecords \cup {id}
                         ELSE cachedRecords
  /\ UNCHANGED <<mutex, native, statements, held, data, known, spoiled, calls, faults>>

LastRow ==
  /\ At("rows") /\ op.left = {}
  /\ \/ /\ op.kind = "destroyMatching"
        /\ Goes(IF op.gone = {} THEN "commit" ELSE "mutate")
        /\ UNCHANGED <<mutex, held, marks>>
     \/ /\ op.kind # "destroyMatching"
        /\ Returns
        /\ known' = known \cup op.got
        /\ UNCHANGED <<cachedRecords, spoiled>>
  /\ UNCHANGED <<native, statements, data, calls, faults>>

\* Whatever the where clause matched is deleted, or marked as deleted.
Mutate ==
  /\ At("mutate")
  /\ Prepares("mutate")
  /\ draft' = AfterDestroy(draft, op.arg)
  /\ Goes("commit")
  /\ UNCHANGED <<mutex, native, held, txn, rows, marks, calls, faults>>

\* addedIds (got) and removedIds (gone) are collected, to be applied later.
Executed(at) ==
  LET o == Head(op.todo) IN
  op' = [op EXCEPT !.at = at, !.todo = Tail(@),
                   !.got = @ \cup Does(o, "create"), !.gone = @ \cup Does(o, "destroy")]

\* One operation of batch: executeUpdate(sql, args).
Update ==
  /\ At("ops") /\ op.kind = "batch" /\ op.todo # <<>> /\ Possible(Head(op.todo), draft)
  /\ Prepares(Head(op.todo).do)
  /\ draft' = Applied(Head(op.todo), draft)
  /\ Executed("ops")
  /\ UNCHANGED <<mutex, native, held, txn, rows, marks, calls, faults>>

\* One operation of batchJSON: its statement is prepared, then executed.
HoldUpdate ==
  /\ At("ops") /\ op.kind = "batchJSON" /\ op.todo # <<>>
  /\ Prepares(Head(op.todo).do)
  /\ held' = {Head(op.todo).do}
  /\ Goes("held")
  /\ UNCHANGED <<mutex, native, data, marks, calls, faults>>

UpdateHeld ==
  /\ At("held") /\ Possible(Head(op.todo), draft)
  /\ draft' = Applied(Head(op.todo), draft)
  /\ held' = {}
  /\ Executed("ops")
  /\ UNCHANGED <<mutex, native, statements, txn, rows, marks, calls, faults>>

\* The sync JSON: the preamble drops the indices, one statement is prepared
\* for the records of a table and keeps its bindings between them, the
\* postamble creates the indices.
Preamble ==
  /\ At("preamble")
  /\ Goes("insert")
  /\ UNCHANGED <<mutex, native, statements, held, data, marks, calls, faults>>

HoldInsert ==
  /\ At("insert")
  /\ Prepares("insert")
  /\ held' = {"insert"}
  /\ Goes("records")
  /\ UNCHANGED <<mutex, native, data, marks, calls, faults>>

InsertRecord ==
  /\ At("records") /\ op.todo # <<>> /\ draft[Head(op.todo).id] = None
  /\ LET r == Head(op.todo) IN
     /\ op' = [op EXCEPT !.todo = Tail(@), !.bound = Bound(op.bound, r.value)]
     /\ draft' = [draft EXCEPT ![r.id] = op'.bound]
  /\ UNCHANGED <<mutex, native, statements, held, txn, rows, marks, calls, faults>>

Postamble ==
  /\ At("records") /\ op.todo = <<>>
  /\ held' = {}
  /\ Goes("commit")
  /\ UNCHANGED <<mutex, native, statements, data, marks, calls, faults>>

\* Reset mode and `vacuum` empty the file before the transaction begins.
Vacuum ==
  /\ At("vacuum")
  /\ rows' = Empty /\ draft' = Empty
  /\ Goes("begin")
  /\ UNCHANGED <<mutex, native, statements, held, txn, marks, calls, faults>>

\* executeMultiple(schema), of a new database or of a migration.
Schema ==
  /\ At("schema")
  /\ Goes("version")
  /\ UNCHANGED <<mutex, native, statements, held, data, marks, calls, faults>>

SetUserVersion ==
  /\ At("version")
  /\ Prepares("version")
  /\ Goes("commit")
  /\ UNCHANGED <<mutex, native, held, data, marks, calls, faults>>

Committing == At("commit") \/ (At("ops") /\ op.todo = <<>>)

\* Fault: removals first.
MarksRemovedFirst(marked, added, removed) == (marked \ removed) \cup added
\* What a call does to the marks once it has committed: additions first.
MarksAfter(marked, added, removed) == (marked \cup added) \ removed

Commit ==
  /\ Committing
  /\ Prepares("commit")
  /\ txn' = FALSE /\ rows' = draft
  /\ cachedRecords' = MarksAfter(cachedRecords, op.got, op.gone)
  /\ known' = IF op.kind = "reset" THEN {} ELSE (known \cup op.got) \ op.gone
  /\ spoiled' = spoiled \cap cachedRecords'
  /\ IF op.kind \in {"reset", "migrate"}
     THEN Goes("fit") /\ UNCHANGED <<mutex, held>>
     ELSE Returns
  /\ UNCHANGED <<native, draft, calls, faults>>

\* setCapacity for the tables there are; 0 if they cannot be counted.
FitsLocked ==
  IF isDestroyed THEN UNCHANGED <<capacity, statements>>
  ELSE \E tables \in 0..MaxTables :
         /\ capacity' = CapacityForTables(tables)
         /\ lru' = Kept(lru, capacity')
         /\ prepared' = prepared \ Evicted(lru, capacity')

\* Fault: the variant that locks is called.
FitLocking ==
  /\ At("fit") /\ mutex = "free"
  /\ FitsLocked
  /\ Returns
  /\ UNCHANGED <<isDestroyed, connection, asked, data, marks, calls, faults>>
\* reset and migrate hold mutex_ already, which is not recursive.
Fit ==
  /\ At("fit")
  /\ FitsLocked
  /\ Returns
  /\ UNCHANGED <<isDestroyed, connection, asked, data, marks, calls, faults>>

\* initialize() of a database whose version is right.
FitStatementCacheToSchema ==
  /\ CanCall
  /\ calls' = calls + 1
  /\ FitsLocked
  /\ UNCHANGED <<mutex, isDestroyed, connection, asked, held, op, data, marks, faults>>

-----------------------------------------------------------------------------
\* The statements the call may be preparing now.
Upcoming ==
  CASE At("begin") -> {"begin"}
    [] At("select") -> {IF op.kind = "find" THEN "find" ELSE "query"}
    [] At("mutate") -> {"mutate"}
    [] At("insert") -> {"insert"}
    [] At("version") -> {"version"}
    [] Committing -> {"commit"}
    [] At("ops") /\ ~Committing -> {Head(op.todo).do}
    [] OTHER -> {}

\* A statement that fails was prepared before it failed, or not even that.
Fails ==
  /\ faults < MaxFaults /\ faults' = faults + 1
  /\ UNCHANGED statements \/ \E sql \in Upcoming : Prepares(sql)

\* `begin` is outside the try: nothing to undo.  A failed reset aborts.
BeginFails ==
  /\ At("begin") \/ At("vacuum")
  /\ Fails
  /\ Returns
  /\ connection' = IF op.kind = "reset" THEN "aborted" ELSE connection
  /\ UNCHANGED <<isDestroyed, asked, capacity, data, marks, calls>>

\* A read throws on stepping, or on reading the values of a row: a query has
\* marked that row, and those before it, and delivers none.
ReadFails ==
  /\ op # None /\ op.kind \in Reads /\ op.at \in {"select", "rows"}
  /\ op.kind = "find" => op.got = {}
  /\ Fails
  /\ IF op.kind = "query"
     THEN \E row \in {{}} \cup {{id} : id \in op.left \ cachedRecords} :
            /\ cachedRecords' = cachedRecords \cup row
            /\ spoiled' = spoiled \cup row \cup op.got
     ELSE UNCHANGED <<cachedRecords, spoiled>>
  /\ Returns
  /\ UNCHANGED <<native, data, known, calls>>

\* Between `begin` and the end of the try block.
InTry == op # None /\ op.kind \notin Reads /\ op.at \notin {"begin", "vacuum", "rollback", "fit"}

\* Fault: the exception is thrown on without a rollback.
TryFailsAtOnce ==
  /\ InTry
  /\ Fails
  /\ \E rolledBack \in BOOLEAN :
       /\ txn' = ~rolledBack
       /\ draft' = IF rolledBack THEN rows ELSE draft
  /\ Returns
  /\ UNCHANGED <<native, rows, marks, calls>>
\* The try block ends, and with it what it held; SQLite may have rolled back.
TryFails ==
  /\ InTry
  /\ Fails
  /\ \E rolledBack \in BOOLEAN :
       /\ txn' = ~rolledBack
       /\ draft' = IF rolledBack THEN rows ELSE draft
  /\ held' = {}
  /\ Goes("rollback")
  /\ UNCHANGED <<mutex, native, rows, marks, calls>>

\* A row that exists already fails the batch.
Violates ==
  \/ op.at = "ops" /\ op.kind = "batch" /\ op.todo # <<>> /\ ~Possible(Head(op.todo), draft)
  \/ op.at = "held" /\ ~Possible(Head(op.todo), draft)
  \/ op.at = "records" /\ op.todo # <<>> /\ draft[Head(op.todo).id] # None
ConstraintFails ==
  /\ op # None /\ Violates
  /\ IF op.at = "ops" THEN Prepares(Head(op.todo).do) ELSE UNCHANGED statements
  /\ held' = {}
  /\ Goes("rollback")
  /\ UNCHANGED <<mutex, native, data, marks, calls, faults>>

\* An error here means there is no transaction any more; it is swallowed.
Rollback ==
  /\ At("rollback")
  /\ Prepares("rollback")
  /\ txn' = FALSE /\ draft' = rows
  /\ Returns
  /\ connection' = IF op.kind = "reset" THEN "aborted" ELSE connection
  /\ UNCHANGED <<isDestroyed, asked, capacity, rows, marks, calls, faults>>

-----------------------------------------------------------------------------
\* Fault: the lock is not taken.
ReleaseMemoryUnlocked ==
  /\ connection = "open" /\ ~isDestroyed
  /\ prepared' = prepared \ Elements(lru) /\ lru' = <<>>
  /\ UNCHANGED <<mutex, native, held, op, data, marks, calls, faults>>
\* releaseMemory, on the thread of a memory alert.
ReleaseMemory ==
  /\ mutex = "free" /\ connection = "open" /\ ~isDestroyed
  /\ prepared' = prepared \ Elements(lru) /\ lru' = <<>>
  /\ UNCHANGED <<mutex, native, held, op, data, marks, calls, faults>>

\* destroy, for unsafeClose() or on the thread that tears the bridge down.
Destroy ==
  /\ mutex = "free" /\ connection = "open" /\ ~asked
  /\ asked' = TRUE /\ isDestroyed' = TRUE
  /\ IF isDestroyed THEN UNCHANGED <<connection, statements>>
     ELSE /\ connection' = "closed"
          /\ lru' = <<>> /\ prepared' = prepared \ Elements(lru)
  /\ UNCHANGED <<mutex, capacity, held, op, data, marks, calls, faults>>

JsStep ==
  \/ Begin \/ Select \/ (\E id \in Ids : Row(id)) \/ LastRow \/ Mutate
  \/ Update \/ HoldUpdate \/ UpdateHeld
  \/ Preamble \/ HoldInsert \/ InsertRecord \/ Postamble
  \/ Vacuum \/ Schema \/ SetUserVersion \/ Commit \/ Fit
  \/ BeginFails \/ ReadFails \/ TryFails \/ ConstraintFails \/ Rollback

Call ==
  \/ \E id \in Ids : Find(id) \/ FindCached(id) \/ ExecuteMultiple(id)
  \/ Query \/ QueryIds \/ UnsafeResetDatabase \/ Migrate
  \/ \E kind \in {"batch", "batchJSON"}, todo \in Batches : Batch(kind, todo)
  \/ \E to \in {None, "deleted"} : DestroyMatching(to)
  \/ \E json \in Jsons : LoadFromSync(json)
  \/ FitStatementCacheToSchema

Next == Call \/ JsStep \/ ReleaseMemory \/ Destroy

\* The thread of JavaScript runs; alerts and calls need never come.
Spec == Init /\ [][Next]_vars /\ WF_vars(JsStep)

-----------------------------------------------------------------------------
CallTyped ==
  /\ op \in Ops \cup {None}
  /\ mutex = IF op = None THEN "free" ELSE "js"
NativeTyped ==
  /\ isDestroyed \in BOOLEAN /\ asked \in BOOLEAN
  /\ connection \in {"open", "closed", "aborted"}
  /\ calls \in 0..MaxCalls /\ faults \in 0..MaxFaults
CacheTyped ==
  /\ capacity \in kBaseCapacity..kMaxCapacity
  /\ lru \in Seq(Sqls) /\ prepared \subseteq Sqls /\ held \subseteq Sqls
DataTyped ==
  /\ txn \in BOOLEAN
  /\ rows \in [Ids -> Values] /\ draft \in [Ids -> Values]
  /\ cachedRecords \subseteq Ids /\ known \subseteq Ids /\ spoiled \subseteq Ids

\* Every variable has a value the code can give it.  In particular mutex_ is
\* held just while a call runs: each way out of a call, a throw included,
\* releases the lock_guard and the statements.
TypeOK == CallTyped /\ NativeTyped /\ CacheTyped /\ DataTyped

\* No call has a pointer to a statement that was finalized: by an eviction for
\* another statement of the same call, by a memory alert, by a smaller
\* capacity (prepareQuery, releaseMemory, destroyMatching).
HeldIsPrepared == held \subseteq prepared

\* The cache owns the statements of the connection: none is finalized while it
\* is listed, none is left out ("Leak detected" in SqliteDb::destroy), none is
\* listed twice, and there are no more than the capacity.
CacheOwnsStatements ==
  connection # "aborted" =>
    /\ prepared = Elements(lru)
    /\ \A i, j \in 1..Len(lru) : lru[i] = lru[j] => i = j
    /\ Len(lru) <= capacity

\* No call returns with a transaction open, whichever statement failed and
\* whether or not SQLite rolled back by itself (rollback).
NoTransactionLeftOpen ==
  op = None /\ connection = "open" => ~txn /\ draft = rows

\* A record the driver answers with its bare id was given to JavaScript or
\* written by it; only a query that failed half-way spoils that
\* (markAsCached, Database::query, Database::batch).
MarkedIsKnown ==
  connection # "aborted" =>
    cachedRecords \subseteq
      known \cup spoiled \cup (IF op # None /\ op.kind \in {"find", "query"} THEN op.got ELSE {})

\* The committed rows change, in one step, to what the whole call makes of
\* them, or by a script of the app (beginTransaction, commit, rollback).
AllOrNothing ==
  [][rows' # rows =>
       \/ op # None /\ rows' = op.target
       \/ \E id \in Ids : ExecuteMultiple(id)]_vars

\* Every call returns: none waits for the mutex it holds itself
\* (fitStatementCacheToSchemaLocked).
CallsReturn == (op # None) ~> (op = None)

\* destroy() closes the connection (Database::destroy).
DestroyCloses == asked => connection = "closed"
=============================================================================
