------------------------ MODULE NativeDatabaseProofs ------------------------
(***************************************************************************)
(* Theorems about NativeDatabase, for any records, batches, sync JSONs,    *)
(* tables, calls and failures, and any capacity of the statement cache the *)
(* code allows.                                                            *)
(*                                                                         *)
(* OpShape says where each kind of call can be, TxnShape when no           *)
(* transaction is open, HeldShape how near the front of the cache the held *)
(* statement is, MarkShape which records are marked, TargetShape what is    *)
(* left of the change a call makes.                                        *)
(***************************************************************************)
EXTENDS NativeDatabase, StatementCacheProofs

OpShape ==
  op # None =>
    /\ op.kind \in Reads => op.at \in {"select", "rows"} /\ op.gone = {}
    /\ op.at \in {"select", "rows"} => op.kind \in Reads \cup {"destroyMatching"}
    /\ op.at = "mutate" => op.kind = "destroyMatching"
    /\ op.kind = "destroyMatching" => op.arg \in {None, "deleted"}
    /\ op.at \in {"ops", "held"} => op.kind \in {"batch", "batchJSON"}
    /\ op.kind \in {"batch", "batchJSON"} => op.todo \in Seq(Changes)
    /\ op.at = "held" => op.todo # <<>>
    /\ op.at \in {"preamble", "insert", "records"} => op.kind = "load"
    /\ op.kind = "load" => op.todo \in Seq(Records)
    /\ op.at = "commit" => op.kind \in {"destroyMatching", "load", "reset", "migrate"}
    /\ op.at = "vacuum" => op.kind = "reset"
    /\ op.at \in {"schema", "version", "fit"} => op.kind \in {"reset", "migrate"}
    /\ op.kind = "reset" => op.got = {} /\ op.gone = {}

\* Outside the try block the transaction has not begun, or is over.
TxnShape ==
  op = None \/ op.at \in {"begin", "vacuum", "fit"} \/ op.kind \in Reads
  => ~txn /\ draft = rows

CacheShape ==
  prepared = Elements(lru) /\ NoDuplicates(lru) /\ Len(lru) <= capacity

\* The statement a call holds is the one prepared last, but when a mass destroy
\* commits.
HeldShape ==
  /\ op = None => held = {}
  /\ op # None =>
       /\ held # {} => /\ op.at \in {"rows", "mutate", "held", "records", "commit"}
                       /\ op.kind \notin {"reset", "migrate"}
       /\ op.at \in {"rows", "mutate", "held", "records"} =>
            lru # <<>> /\ held = {lru[1]}
       /\ op.at \in {"rows", "mutate"} /\ op.kind = "destroyMatching" => held = {"query"}
       /\ op.at = "commit" =>
            \/ held = {}
            \/ lru # <<>> /\ held = {lru[1]}
            \/ 2 <= Len(lru) /\ held = {lru[2]}

\* A reset begins by forgetting the marks.
MarkShape ==
  /\ cachedRecords \subseteq
       known \cup spoiled \cup (IF op # None /\ op.kind \in {"find", "query"} THEN op.got ELSE {})
  /\ op # None /\ op.kind = "reset" /\ op.at \notin {"vacuum", "begin"} => cachedRecords = {}

\* Records that can all be inserted: none is there, none comes twice.
Insertable(todo, r) ==
  /\ \A i \in 1..Len(todo) : r[todo[i].id] = None
  /\ \A i, j \in 1..Len(todo) : todo[i].id = todo[j].id => i = j

\* The rows a call has made and what is left of it make what the call is to
\* leave, until it fails.
TargetShape ==
  op # None /\ op.at # "rollback" =>
    /\ op.kind \in {"batch", "batchJSON"} => AfterBatch(draft, op.todo) = op.target
    /\ op.kind = "destroyMatching" =>
         /\ op.at # "commit" => AfterDestroy(draft, op.arg) = op.target
         /\ op.at \in {"begin", "select"} => op.gone = {}
         /\ op.at = "rows" => Live(draft) = op.left \cup op.gone
         /\ op.at = "commit" => draft = op.target
    /\ op.kind = "load" =>
         /\ Insertable(op.todo, draft) => AfterLoad(draft, op.todo) = op.target
         /\ op.at = "commit" => op.todo = <<>>
    /\ op.kind = "reset" => op.target = Empty /\ (op.at # "vacuum" => draft = Empty)
    /\ op.kind = "migrate" => draft = op.target

IInv ==
  TypeOK /\ OpShape /\ TxnShape /\ CacheShape /\ HeldShape /\ MarkShape /\ TargetShape

-----------------------------------------------------------------------------
\* A call that has just been made.
Entry(o) ==
  /\ o.left = {} /\ o.got = {} /\ o.gone = {} /\ o.bound = None
  /\ \/ o.kind \in Reads /\ o.at = "select"
     \/ /\ o.kind \in {"batch", "batchJSON"} /\ o.at = "begin" /\ o.todo \in Seq(Changes)
        /\ o.target = AfterBatch(rows, o.todo)
     \/ /\ o.kind = "destroyMatching" /\ o.at = "begin" /\ o.arg \in {None, "deleted"}
        /\ o.target = AfterDestroy(rows, o.arg)
     \/ /\ o.kind = "load" /\ o.at = "begin" /\ o.todo \in Seq(Records)
        /\ o.target = AfterLoad(rows, o.todo)
     \/ o.kind = "reset" /\ o.at = "vacuum" /\ o.target = Empty
     \/ o.kind = "migrate" /\ o.at = "begin" /\ o.target = rows
Entered ==
  /\ mutex = "free" /\ connection = "open" /\ calls < MaxCalls
  /\ calls' = calls + 1
  /\ mutex' = "js"
  /\ op' \in Ops /\ op' # None /\ Entry(op')
  /\ UNCHANGED <<native, statements, held, data, marks, faults>>

\* The rows a call is to leave are rows.
LEMMA TargetsTyped ==
  ASSUME NEW r \in [Ids -> Values]
  PROVE  /\ \A todo : AfterBatch(r, todo) \in [Ids -> Values]
         /\ \A todo : AfterLoad(r, todo) \in [Ids -> Values]
         /\ \A to \in {None, "deleted"} : AfterDestroy(r, to) \in [Ids -> Values]
         /\ Empty \in [Ids -> Values]
PROOF
  <1>1. ASSUME NEW todo
        PROVE  AfterBatch(r, todo) \in [Ids -> Values]
    BY DEF AfterBatch, Values
  <1>2. ASSUME NEW todo
        PROVE  AfterLoad(r, todo) \in [Ids -> Values]
    BY DEF AfterLoad, Values
  <1>3. ASSUME NEW to \in {None, "deleted"}
        PROVE  AfterDestroy(r, to) \in [Ids -> Values]
    BY DEF AfterDestroy, Values
  <1>4. Empty \in [Ids -> Values]
    BY DEF Empty, Values
  <1> QED  BY <1>1, <1>2, <1>3, <1>4

\* Each way of entering gives a call of its kind.
LEMMA EntersEntered ==
  ASSUME NEW kind, NEW at, NEW arg, NEW todo, NEW target,
         Enters(kind, at, arg, todo, target),
         arg \in Ids \cup {None, "deleted"}, target \in [Ids -> Values],
         \/ kind \in Reads /\ at = "select" /\ todo = <<>>
         \/ /\ kind \in {"batch", "batchJSON"} /\ at = "begin" /\ todo \in Seq(Changes)
            /\ target = AfterBatch(rows, todo)
         \/ /\ kind = "destroyMatching" /\ at = "begin" /\ arg \in {None, "deleted"} /\ todo = <<>>
            /\ target = AfterDestroy(rows, arg)
         \/ /\ kind = "load" /\ at = "begin" /\ todo \in Seq(Records)
            /\ target = AfterLoad(rows, todo)
         \/ kind = "reset" /\ at = "vacuum" /\ todo = <<>> /\ target = Empty
         \/ kind = "migrate" /\ at = "begin" /\ todo = <<>> /\ target = rows
  PROVE  Entered
PROOF
  <1>1. op' = [kind |-> kind, at |-> at, arg |-> arg, todo |-> todo, target |-> target,
               left |-> {}, got |-> {}, gone |-> {}, bound |-> None]
    BY DEF Enters
  <1>2. todo \in Seq(Changes) \cup Seq(Records)
    <2>1. <<>> \in Seq(Changes)
      OBVIOUS
    <2> QED  BY <2>1
  <1>3. op' \in Ops
    BY <1>1, <1>2 DEF Ops, Places, Reads
  <1>4. op' # None
    BY <1>3, NoneAssumption
  <1>5. Entry(op')
    BY <1>1 DEF Entry
  <1> QED  BY <1>3, <1>4, <1>5 DEF Enters, Entered, CanCall

\* Every call is Entered, or is over in one step.
LEMMA CallsEnter ==
  ASSUME TypeOK, Call
  PROVE  \/ Entered
         \/ \E id \in Ids : FindCached(id) \/ ExecuteMultiple(id)
         \/ FitStatementCacheToSchema
PROOF
  <1>1. rows \in [Ids -> Values]
    BY DEF TypeOK, DataTyped
  <1>2. CASE \E id \in Ids : Find(id)
    BY <1>1, <1>2, EntersEntered DEF Find, Reads
  <1>3. CASE Query \/ QueryIds
    BY <1>1, <1>3, EntersEntered DEF Query, QueryIds, Reads
  <1>4. CASE UnsafeResetDatabase \/ Migrate
    BY <1>1, <1>4, EntersEntered, TargetsTyped DEF UnsafeResetDatabase, Migrate
  <1>5. ASSUME NEW kind \in {"batch", "batchJSON"}, NEW todo \in Batches, Batch(kind, todo)
        PROVE  Entered
    BY <1>1, <1>5, EntersEntered, TargetsTyped, ArgumentsAssumption DEF Batch
  <1>6. ASSUME NEW to \in {None, "deleted"}, DestroyMatching(to)
        PROVE  Entered
    BY <1>1, <1>6, EntersEntered, TargetsTyped DEF DestroyMatching
  <1>7. ASSUME NEW json \in Jsons, LoadFromSync(json)
        PROVE  Entered
    BY <1>1, <1>7, EntersEntered, TargetsTyped, ArgumentsAssumption DEF LoadFromSync
  <1> QED  BY <1>2, <1>3, <1>4, <1>5, <1>6, <1>7 DEF Call

-----------------------------------------------------------------------------
\* What preparing a statement does to the cache.
LEMMA PreparesShape ==
  ASSUME CacheTyped, CacheShape, NEW sql \in Sqls, Prepares(sql)
  PROVE  /\ lru' \in Seq(Sqls) /\ prepared' \subseteq Sqls
         /\ prepared' = Elements(lru') /\ NoDuplicates(lru') /\ Len(lru') <= capacity
         /\ lru' # <<>> /\ lru'[1] = sql
         /\ lru # <<>> /\ lru[1] # sql => 2 <= Len(lru') /\ lru'[2] = lru[1]
PROOF
  <1>1. capacity \in Nat /\ 2 <= capacity
    BY CapacityAssumption DEF CacheTyped
  <1>2. lru' = Used(lru, sql, capacity) /\ prepared' = (prepared \cup {sql}) \ Dropped(lru, sql, capacity)
    BY DEF Prepares
  <1>3. /\ lru' \in Seq(Sqls) /\ NoDuplicates(lru')
        /\ 1 <= Len(lru') /\ Len(lru') <= capacity /\ lru'[1] = sql
        /\ lru # <<>> /\ lru[1] # sql => 2 <= Len(lru') /\ lru'[2] = lru[1]
        /\ Elements(lru') = (Elements(lru) \cup {sql}) \ Dropped(lru, sql, capacity)
    <2>1. lru \in Seq(Sqls) /\ NoDuplicates(lru) /\ Len(lru) <= capacity
      BY DEF CacheTyped, CacheShape
    <2> DEFINE new == Used(lru, sql, capacity)
    <2>2. /\ new \in Seq(Sqls) /\ NoDuplicates(new)
          /\ 1 <= Len(new) /\ Len(new) <= capacity /\ new[1] = sql
          /\ lru # <<>> /\ lru[1] # sql => 2 <= Len(new) /\ new[2] = lru[1]
          /\ Elements(new) = (Elements(lru) \cup {sql}) \ Dropped(lru, sql, capacity)
      BY <1>1, <2>1, UsedCache
    <2> QED  BY <1>2, <2>2
  <1>4. prepared' = Elements(lru')
    BY <1>2, <1>3 DEF CacheShape
  <1>5. lru' # <<>>
    BY <1>3
  <1> QED  BY <1>3, <1>4, <1>5, ElementsOfSeq

\* What a statement that fails may have done to the cache.
LEMMA FailsShape ==
  ASSUME CacheTyped, CacheShape, Fails, Upcoming \subseteq Sqls
  PROVE  /\ lru' \in Seq(Sqls) /\ prepared' \subseteq Sqls
         /\ prepared' = Elements(lru') /\ NoDuplicates(lru') /\ Len(lru') <= capacity
PROOF
  <1>1. CASE UNCHANGED statements
    BY <1>1 DEF statements, CacheTyped, CacheShape
  <1>2. CASE \E sql \in Upcoming : Prepares(sql)
    BY <1>2, PreparesShape
  <1> QED  BY <1>1, <1>2 DEF Fails

\* What fitting the capacity does to the cache.
LEMMA FitsShape ==
  ASSUME CacheTyped, CacheShape, FitsLocked
  PROVE  /\ capacity' \in kBaseCapacity..kMaxCapacity
         /\ lru' \in Seq(Sqls) /\ prepared' \subseteq Sqls
         /\ prepared' = Elements(lru') /\ NoDuplicates(lru') /\ Len(lru') <= capacity'
PROOF
  <1>1. CASE isDestroyed
    BY <1>1 DEF FitsLocked, statements, CacheTyped, CacheShape
  <1>2. CASE ~isDestroyed
    <2>1. PICK tables \in 0..MaxTables :
            /\ capacity' = CapacityForTables(tables)
            /\ lru' = Kept(lru, capacity')
            /\ prepared' = prepared \ Evicted(lru, capacity')
      BY <1>2 DEF FitsLocked
    <2>2. capacity' \in kBaseCapacity..kMaxCapacity
      BY <2>1, CapacityBounds
    <2>3. capacity' \in Nat \ {0}
      BY <2>2, CapacityAssumption
    <2>4. /\ lru' \in Seq(Sqls) /\ Len(lru') <= capacity' /\ NoDuplicates(lru')
          /\ Elements(lru') = Elements(lru) \ Evicted(lru, capacity')
      BY <2>1, <2>3, KeptCache DEF CacheTyped, CacheShape
    <2> QED  BY <2>1, <2>2, <2>4, ElementsOfSeq DEF CacheShape
  <1> QED  BY <1>1, <1>2

\* The next operation of a batch, the next record of a sync JSON.
LEMMA NextOperation ==
  ASSUME TypeOK, OpShape, op # None, op.todo # <<>>
  PROVE  /\ op.kind \in {"batch", "batchJSON"} =>
              Head(op.todo) \in Changes /\ Tail(op.todo) \in Seq(Changes)
         /\ op.kind = "load" =>
              Head(op.todo) \in Records /\ Tail(op.todo) \in Seq(Records)
BY DEF OpShape

\* What a call prepares is a statement.
LEMMA UpcomingIsSql ==
  ASSUME TypeOK, OpShape
  PROVE  Upcoming \subseteq Sqls
PROOF
  <1>1. CASE At("ops") /\ ~Committing
    <2>1. op # None /\ op.todo # <<>> /\ op.kind \in {"batch", "batchJSON"} /\ op.at = "ops"
      BY <1>1 DEF At, Committing, OpShape
    <2>2. Head(op.todo).do \in Sqls
      BY <2>1, NextOperation DEF Changes, Sqls
    <2>3. Upcoming = {Head(op.todo).do}
      BY <1>1, <2>1 DEF Upcoming, At
    <2> QED  BY <2>2, <2>3
  <1>2. CASE ~(At("ops") /\ ~Committing)
    BY <1>2 DEF Upcoming, Sqls, At
  <1> QED  BY <1>1, <1>2

-----------------------------------------------------------------------------
\* A batch of no operation leaves the rows.
LEMMA BatchEnds ==
  ASSUME NEW r \in [Ids -> Values]
  PROVE  AfterBatch(r, <<>>) = r
PROOF
  <1>1. \A id : ~Created(<<>>, id) /\ ~Destroyed(<<>>, id) /\ ~Touched(<<>>, id)
    BY DEF Created, Destroyed, Touched
  <1> QED  BY <1>1 DEF AfterBatch

\* Doing the first operation leaves what the rest makes of the rows.
LEMMA BatchStep ==
  ASSUME NEW r \in [Ids -> Values], NEW todo \in Seq(Changes), todo # <<>>,
         Possible(Head(todo), r)
  PROVE  AfterBatch(Applied(Head(todo), r), Tail(todo)) = AfterBatch(r, todo)
PROOF
  <1> DEFINE o == Head(todo)
             rest == Tail(todo)
             s == Applied(o, r)
  <1>1. o \in Changes /\ rest \in Seq(Changes) /\ Len(rest) = Len(todo) - 1 /\ Len(todo) \in Nat \ {0}
    OBVIOUS
  <1>2. todo[1] = o /\ \A i \in 1..Len(rest) : rest[i] = todo[i + 1]
    OBVIOUS
  <1>3. \A i \in 1..Len(todo) : i = 1 \/ (i - 1 \in 1..Len(rest) /\ todo[i] = rest[i - 1])
    BY <1>1, <1>2
  <1>4. \A i \in 1..Len(rest) : i + 1 \in 1..Len(todo)
    BY <1>1
  <1>5. 1 \in 1..Len(todo)
    BY <1>1
  <1> HIDE DEF o, rest, s
  <1>6. ASSUME NEW id \in Ids
        PROVE  /\ Touched(todo, id) <=> o.id = id \/ Touched(rest, id)
               /\ Destroyed(todo, id) <=> Destroys(o, id) \/ Destroyed(rest, id)
               /\ Created(todo, id) <=>
                    Created(rest, id) \/ (o.id = id /\ o.do = "create" /\ ~Destroyed(rest, id))
    <2>1. Touched(todo, id) <=> o.id = id \/ Touched(rest, id)
      BY <1>2, <1>3, <1>4, <1>5 DEF Touched
    <2>2. Destroyed(todo, id) <=> Destroys(o, id) \/ Destroyed(rest, id)
      BY <1>2, <1>3, <1>4, <1>5 DEF Destroyed
    <2>3. ASSUME Created(todo, id)
          PROVE  Created(rest, id) \/ (o.id = id /\ o.do = "create" /\ ~Destroyed(rest, id))
      <3>1. PICK i \in 1..Len(todo) : /\ todo[i].id = id /\ todo[i].do = "create"
                                      /\ \A j \in i..Len(todo) : ~Destroys(todo[j], id)
        BY <2>3 DEF Created
      <3>2. \A j \in 1..Len(rest) : j + 1 >= i => ~Destroys(rest[j], id)
        BY <1>1, <1>2, <3>1
      <3>3. CASE i = 1
        BY <1>2, <3>1, <3>2, <3>3 DEF Destroyed
      <3>4. CASE i # 1
        <4>1. i - 1 \in 1..Len(rest) /\ rest[i - 1] = todo[i]
          BY <1>3, <3>4
        <4>2. \A j \in i - 1..Len(rest) : ~Destroys(rest[j], id)
          BY <1>1, <3>2, <4>1
        <4> QED  BY <3>1, <4>1, <4>2 DEF Created
      <3> QED  BY <3>3, <3>4
    <2>4. ASSUME Created(rest, id)
          PROVE  Created(todo, id)
      <3>1. PICK i \in 1..Len(rest) : /\ rest[i].id = id /\ rest[i].do = "create"
                                      /\ \A j \in i..Len(rest) : ~Destroys(rest[j], id)
        BY <2>4 DEF Created
      <3>2. i + 1 \in 1..Len(todo) /\ todo[i + 1] = rest[i]
        BY <1>2, <1>4
      <3>3. \A j \in i + 1..Len(todo) : ~Destroys(todo[j], id)
        BY <1>1, <1>3, <3>1
      <3> QED  BY <3>1, <3>2, <3>3 DEF Created
    <2>5. ASSUME o.id = id, o.do = "create", ~Destroyed(rest, id)
          PROVE  Created(todo, id)
      <3>1. ~Destroys(todo[1], id)
        BY <1>2, <2>5 DEF Destroys
      <3>2. \A j \in 1..Len(todo) : ~Destroys(todo[j], id)
        BY <1>3, <2>5, <3>1 DEF Destroyed
      <3> QED  BY <1>2, <1>5, <2>5, <3>2 DEF Created
    <2> QED  BY <2>1, <2>2, <2>3, <2>4, <2>5
  <1>7. ASSUME NEW id \in Ids
        PROVE  AfterBatch(s, rest)[id] = AfterBatch(r, todo)[id]
    <2>1. s[id] = IF o.id # id THEN r[id]
                  ELSE IF o.do = "destroy" \/ (o.do = "update" /\ r[id] = None) THEN None ELSE "value"
      BY <1>1 DEF s, Applied, Changes
    <2>2. "value" # None
      BY NoneAssumption
    <2>3. o.do \in {"create", "update", "destroy"}
      BY <1>1 DEF Changes
    <2>4. Created(rest, id) => Touched(rest, id)
      BY DEF Created, Touched
    <2>5. o.id = id /\ o.do = "create" => r[id] = None
      BY DEF Possible, o
    <2>6. CASE o.id # id
      BY <1>6, <2>1, <2>6 DEF AfterBatch, Destroys
    <2>7. CASE o.id = id /\ o.do = "create"
      BY <1>6, <2>1, <2>2, <2>5, <2>7 DEF AfterBatch, Destroys
    <2>8. CASE o.id = id /\ o.do = "update"
      BY <1>6, <2>1, <2>2, <2>4, <2>8 DEF AfterBatch, Destroys
    <2>9. CASE o.id = id /\ o.do = "destroy"
      BY <1>6, <2>1, <2>2, <2>4, <2>9 DEF AfterBatch, Destroys
    <2> QED  BY <2>3, <2>6, <2>7, <2>8, <2>9
  <1>8. AfterBatch(s, rest) = AfterBatch(r, todo)
    BY <1>7 DEF AfterBatch
  <1> QED  BY <1>8 DEF s, o, rest

\* A sync JSON of no record leaves the rows.
LEMMA LoadEnds ==
  ASSUME NEW r \in [Ids -> Values]
  PROVE  AfterLoad(r, <<>>) = r
PROOF
  <1>1. \A id : ~Touched(<<>>, id)
    BY DEF Touched
  <1>2. ~(\E i \in 1..Len(<<>>) : TRUE)
    OBVIOUS
  <1> QED  BY <1>1, <1>2 DEF AfterLoad

\* The first record of a sync JSON is inserted, over the bindings there are.
Inserts(r, todo, bound, s) ==
  /\ todo \in Seq(Records) /\ todo # <<>> /\ r[Head(todo).id] = None
  /\ s = [r EXCEPT ![Head(todo).id] = Bound(bound, Head(todo).value)]

\* Inserting the first record leaves what the rest makes of the rows, if the
\* rest can be inserted.
LEMMA LoadStep ==
  ASSUME NEW r \in [Ids -> Values], NEW todo, NEW bound, NEW s,
         Inserts(r, todo, bound, s), Insertable(Tail(todo), s)
  PROVE  Insertable(todo, r) /\ AfterLoad(s, Tail(todo)) = AfterLoad(r, todo)
PROOF
  <1> USE DEF Inserts
  <1> DEFINE o == Head(todo)
             rest == Tail(todo)
  <1>1. o \in Records /\ rest \in Seq(Records) /\ Len(rest) = Len(todo) - 1 /\ Len(todo) \in Nat \ {0}
    OBVIOUS
  <1>2. todo[1] = o /\ \A i \in 1..Len(rest) : rest[i] = todo[i + 1]
    OBVIOUS
  <1>3. \A i \in 1..Len(todo) : i = 1 \/ (i - 1 \in 1..Len(rest) /\ todo[i] = rest[i - 1])
    BY <1>1, <1>2
  <1>4. \A i \in 1..Len(rest) : i + 1 \in 1..Len(todo) /\ rest[i].id \in Ids
    <2>1. \A i \in 1..Len(rest) : i + 1 \in 1..Len(todo)
      BY <1>1
    <2>2. \A i \in 1..Len(rest) : rest[i] \in Records
      BY <1>1
    <2> QED  BY <2>1, <2>2 DEF Records
  <1>5. 1 \in 1..Len(todo)
    BY <1>1
  <1>6. o.id \in Ids /\ s \in [Ids -> Values] /\ s[o.id] = Bound(bound, o.value)
    BY <1>1 DEF Records, Bound, Values
  <1>7. s[o.id] # None /\ \A id \in Ids : id # o.id => s[id] = r[id]
    BY <1>6, NoneAssumption DEF Bound
  <1> HIDE DEF o, rest
  <1>8. \A i \in 1..Len(rest) : s[rest[i].id] = None /\ rest[i].id # o.id
    BY <1>7 DEF Insertable, rest
  <1>9. Insertable(todo, r)
    <2>1. r[o.id] = None
      BY DEF o
    <2>2. ASSUME NEW i \in 1..Len(todo)
          PROVE  r[todo[i].id] = None
      <3>1. CASE i = 1
        BY <1>2, <2>1, <3>1
      <3>2. CASE i # 1
        <4>1. i - 1 \in 1..Len(rest) /\ todo[i] = rest[i - 1]
          BY <1>3, <3>2
        <4>2. rest[i - 1].id \in Ids /\ s[rest[i - 1].id] = None /\ rest[i - 1].id # o.id
          BY <1>4, <1>8, <4>1
        <4> QED  BY <1>7, <4>1, <4>2
      <3> QED  BY <3>1, <3>2
    <2>3. \A i, j \in 1..Len(rest) : rest[i].id = rest[j].id => i = j
      BY DEF Insertable, rest
    <2>4. ASSUME NEW i \in 1..Len(todo), NEW j \in 1..Len(todo), todo[i].id = todo[j].id
          PROVE  i = j
      <3>1. /\ i = 1 \/ (i - 1 \in 1..Len(rest) /\ todo[i] = rest[i - 1])
            /\ j = 1 \/ (j - 1 \in 1..Len(rest) /\ todo[j] = rest[j - 1])
        BY <1>3
      <3>2. CASE i = 1 \/ j = 1
        BY <1>2, <1>8, <2>4, <3>1, <3>2
      <3>3. CASE i # 1 /\ j # 1
        <4>1. i - 1 = j - 1
          BY <2>3, <2>4, <3>1, <3>3
        <4> QED  BY <4>1
      <3> QED  BY <3>2, <3>3
    <2> QED  BY <2>2, <2>4 DEF Insertable
  <1>10. ASSUME NEW id \in Ids
         PROVE  AfterLoad(s, rest)[id] = AfterLoad(r, todo)[id]
    <2>1. Touched(todo, id) <=> o.id = id \/ Touched(rest, id)
      BY <1>2, <1>3, <1>4, <1>5 DEF Touched
    <2> DEFINE right(q) == \E i \in 1..Len(q) : q[i].id = id /\ q[i].value = "right"
    <2>2. right(todo) <=> (o.id = id /\ o.value = "right") \/ right(rest)
      BY <1>2, <1>3, <1>4, <1>5
    <2>3. o.id = id => ~Touched(rest, id) /\ ~right(rest)
      BY <1>8 DEF Touched
    <2>4. /\ AfterLoad(s, rest)[id] = IF right(rest) THEN "value"
                                      ELSE IF Touched(rest, id) THEN "default" ELSE s[id]
          /\ AfterLoad(r, todo)[id] = IF right(todo) THEN "value"
                                      ELSE IF Touched(todo, id) THEN "default" ELSE r[id]
      BY DEF AfterLoad
    <2> HIDE DEF right
    <2>5. CASE o.id = id
      BY <1>6, <2>1, <2>2, <2>3, <2>4, <2>5 DEF Bound
    <2>6. CASE o.id # id
      BY <1>7, <2>1, <2>2, <2>4, <2>6
    <2> QED  BY <2>5, <2>6
  <1>11. AfterLoad(s, rest) = AfterLoad(r, todo)
    BY <1>10 DEF AfterLoad
  <1> QED  BY <1>9, <1>11 DEF rest

\* A mass destroy that matches no row leaves the rows.
LEMMA NothingDestroyed ==
  ASSUME NEW r \in [Ids -> Values], NEW to, Live(r) = {}
  PROVE  AfterDestroy(r, to) = r
BY DEF AfterDestroy
-----------------------------------------------------------------------------
\* What the steps of a call do to its record.
LEMMA OpChanges ==
  ASSUME op \in Ops, NEW at \in Places, NEW todo \in Seq(Changes) \cup Seq(Records),
         NEW left \in SUBSET Ids, NEW got \in SUBSET Ids, NEW gone \in SUBSET Ids,
         NEW bound \in {None, "default", "value"}
  PROVE  /\ [op EXCEPT !.at = at] \in Ops
         /\ [op EXCEPT !.at = at, !.left = left] \in Ops
         /\ [op EXCEPT !.left = left, !.gone = gone] \in Ops
         /\ [op EXCEPT !.left = left, !.got = got] \in Ops
         /\ [op EXCEPT !.at = at, !.todo = todo, !.got = got, !.gone = gone] \in Ops
         /\ [op EXCEPT !.todo = todo, !.bound = bound] \in Ops
BY DEF Ops

\* No call is None.
LEMMA OpIsACall ==
  ASSUME TypeOK
  PROVE  (op = None \/ op \in Ops) /\ (\A o \in Ops : o # None)
BY NoneAssumption DEF TypeOK, CallTyped

\* A call stays a call, and holds the mutex.
LEMMA CallTypedStep ==
  ASSUME TypeOK, OpShape, [Next]_vars
  PROVE  CallTyped'
PROOF
  <1> USE DEF native, statements, data, marks, CallTyped, Places, Ops, Reads
  <1>a. CallTyped /\ NativeTyped /\ CacheTyped /\ DataTyped
    BY DEF TypeOK
  <1>b. (op = None \/ op \in Ops) /\ (\A o \in Ops : o # None)
    BY OpIsACall
  <1> USE <1>a, <1>b
  <1>1. CASE Entered
    BY <1>1 DEF Entered, Entry
  <1>2. CASE \E id \in Ids : FindCached(id)
    BY <1>2 DEF FindCached, CanCall
  <1>3. CASE \E id \in Ids : ExecuteMultiple(id)
    BY <1>3 DEF ExecuteMultiple, CanCall
  <1>4. CASE FitStatementCacheToSchema
    BY <1>4 DEF FitStatementCacheToSchema, CanCall
  <1>5. CASE ReleaseMemory
    BY <1>5 DEF ReleaseMemory
  <1>6. CASE Destroy
    BY <1>6 DEF Destroy
  <1>7. CASE Begin
    BY <1>7 DEF Begin, At, Goes, OpShape
  <1>8. CASE Select
    <2>1. op \in Ops /\ mutex = "js" /\ mutex' = mutex
      BY <1>8 DEF Select, At
    <2>2. PICK left \in SUBSET Ids : op' = [op EXCEPT !.at = "rows", !.left = left]
      BY <1>8 DEF Select, Present, Live
    <2>3. op' \in Ops
      BY <2>1, <2>2
    <2> QED  BY <2>1, <2>3
  <1>9. CASE \E id \in Ids : Row(id)
    <2>1. PICK id \in Ids : Row(id)
      BY <1>9
    <2>2. op \in Ops /\ mutex = "js" /\ mutex' = mutex
      BY <2>1 DEF Row, At
    <2>3. op' \in Ops
      <3>1. CASE op.kind = "destroyMatching"
        BY <2>1, <2>2, <3>1 DEF Row
      <3>2. CASE op.kind # "destroyMatching"
        BY <2>1, <2>2, <3>2 DEF Row
      <3> QED  BY <3>1, <3>2
    <2> QED  BY <2>2, <2>3
  <1>10. CASE LastRow
    BY <1>10 DEF LastRow, At, Goes, Returns
  <1>11. CASE Mutate
    BY <1>11 DEF Mutate, At, Goes
  <1>12. CASE Update
    <2>1. op \in Ops /\ mutex = "js" /\ mutex' = mutex
      BY <1>12 DEF Update, At
    <2>2. op # None /\ op.todo # <<>> /\ op.kind \in {"batch", "batchJSON"}
      BY <1>12, <2>1 DEF Update, At, OpShape
    <2>3. Head(op.todo) \in Changes /\ Tail(op.todo) \in Seq(Changes)
      BY <2>2, NextOperation
    <2>4. Executed("ops")
      BY <1>12 DEF Update
    <2>5. PICK created \in SUBSET Ids, destroyed \in SUBSET Ids :
            op' = [op EXCEPT !.at = "ops", !.todo = Tail(op.todo),
                             !.got = op.got \cup created, !.gone = op.gone \cup destroyed]
      BY <2>3, <2>4 DEF Executed, Does, Changes
    <2>6. op' \in Ops
      BY <2>1, <2>3, <2>5
    <2> QED  BY <2>1, <2>6
  <1>13. CASE HoldUpdate
    BY <1>13 DEF HoldUpdate, At, Goes
  <1>14. CASE UpdateHeld
    <2>1. op \in Ops /\ mutex = "js" /\ mutex' = mutex
      BY <1>14 DEF UpdateHeld, At
    <2>2. op # None /\ op.todo # <<>> /\ op.kind \in {"batch", "batchJSON"}
      BY <1>14, <2>1 DEF UpdateHeld, At, OpShape
    <2>3. Head(op.todo) \in Changes /\ Tail(op.todo) \in Seq(Changes)
      BY <2>2, NextOperation
    <2>4. Executed("ops")
      BY <1>14 DEF UpdateHeld
    <2>5. PICK created \in SUBSET Ids, destroyed \in SUBSET Ids :
            op' = [op EXCEPT !.at = "ops", !.todo = Tail(op.todo),
                             !.got = op.got \cup created, !.gone = op.gone \cup destroyed]
      BY <2>3, <2>4 DEF Executed, Does, Changes
    <2>6. op' \in Ops
      BY <2>1, <2>3, <2>5
    <2> QED  BY <2>1, <2>6
  <1>15. CASE Preamble
    BY <1>15 DEF Preamble, At, Goes
  <1>16. CASE HoldInsert
    BY <1>16 DEF HoldInsert, At, Goes
  <1>17. CASE InsertRecord
    <2>1. op \in Ops /\ mutex = "js" /\ mutex' = mutex
      BY <1>17 DEF InsertRecord, At
    <2>2. op # None /\ op.todo # <<>> /\ op.kind = "load"
      BY <1>17, <2>1 DEF InsertRecord, At, OpShape
    <2>3. Tail(op.todo) \in Seq(Records)
      BY <2>2, NextOperation
    <2>4. op' = [op EXCEPT !.todo = Tail(op.todo), !.bound = Bound(op.bound, Head(op.todo).value)]
      BY <1>17 DEF InsertRecord
    <2>5. op' \in Ops
      BY <2>1, <2>3, <2>4 DEF Bound
    <2> QED  BY <2>1, <2>5
  <1>18. CASE Postamble
    BY <1>18 DEF Postamble, At, Goes
  <1>19. CASE Vacuum
    BY <1>19 DEF Vacuum, At, Goes
  <1>20. CASE Schema
    BY <1>20 DEF Schema, At, Goes
  <1>21. CASE SetUserVersion
    BY <1>21 DEF SetUserVersion, At, Goes
  <1>22. CASE Commit
    BY <1>22 DEF Commit, Committing, At, Goes, Returns
  <1>23. CASE Fit
    BY <1>23 DEF Fit, At, Returns
  <1>24. CASE BeginFails
    BY <1>24 DEF BeginFails, At, Returns
  <1>25. CASE ReadFails
    BY <1>25 DEF ReadFails, Returns
  <1>26. CASE TryFails
    BY <1>26 DEF TryFails, InTry, Goes
  <1>27. CASE ConstraintFails
    BY <1>27 DEF ConstraintFails, Violates, Goes
  <1>28. CASE Rollback
    BY <1>28 DEF Rollback, At, Returns
  <1>29. CASE UNCHANGED vars
    BY <1>29 DEF vars
  <1> QED
    BY CallsEnter, <1>1, <1>2, <1>3, <1>4, <1>5, <1>6, <1>7, <1>8, <1>9, <1>10, <1>11, <1>12,
       <1>13, <1>14, <1>15, <1>16, <1>17, <1>18, <1>19, <1>20, <1>21, <1>22, <1>23, <1>24,
       <1>25, <1>26, <1>27, <1>28, <1>29
    DEF Next, JsStep

\* A call goes from place to place as its kind allows.
LEMMA OpShapeStep ==
  ASSUME TypeOK, OpShape, [Next]_vars
  PROVE  OpShape'
PROOF
  <1> USE DEF native, statements, data, marks, OpShape, Reads, Ops
  <1>a. CallTyped /\ NativeTyped /\ CacheTyped /\ DataTyped
    BY DEF TypeOK
  <1>b. (op = None \/ op \in Ops) /\ (\A o \in Ops : o # None)
    BY OpIsACall
  <1> USE <1>a, <1>b
  <1>1. CASE Entered
    BY <1>1 DEF Entered, Entry
  <1>2. CASE \E id \in Ids : FindCached(id)
    BY <1>2 DEF FindCached, CanCall
  <1>3. CASE \E id \in Ids : ExecuteMultiple(id)
    BY <1>3 DEF ExecuteMultiple, CanCall
  <1>4. CASE FitStatementCacheToSchema
    BY <1>4 DEF FitStatementCacheToSchema, CanCall
  <1>5. CASE ReleaseMemory
    BY <1>5 DEF ReleaseMemory
  <1>6. CASE Destroy
    BY <1>6 DEF Destroy
  <1>7. CASE Begin
    BY <1>7 DEF Begin, At, Goes
  <1>8. CASE Select
    BY <1>8 DEF Select, At
  <1>9. CASE \E id \in Ids : Row(id)
    BY <1>9 DEF Row, At
  <1>10. CASE LastRow
    BY <1>10 DEF LastRow, At, Goes, Returns
  <1>11. CASE Mutate
    BY <1>11 DEF Mutate, At, Goes
  <1>12. CASE Update
    BY <1>12 DEF Update, At, Executed, Does
  <1>13. CASE HoldUpdate
    BY <1>13 DEF HoldUpdate, At, Goes
  <1>14. CASE UpdateHeld
    BY <1>14 DEF UpdateHeld, At, Executed, Does
  <1>15. CASE Preamble
    BY <1>15 DEF Preamble, At, Goes
  <1>16. CASE HoldInsert
    BY <1>16 DEF HoldInsert, At, Goes
  <1>17. CASE InsertRecord
    BY <1>17 DEF InsertRecord, At, Bound
  <1>18. CASE Postamble
    BY <1>18 DEF Postamble, At, Goes
  <1>19. CASE Vacuum
    BY <1>19 DEF Vacuum, At, Goes
  <1>20. CASE Schema
    BY <1>20 DEF Schema, At, Goes
  <1>21. CASE SetUserVersion
    BY <1>21 DEF SetUserVersion, At, Goes
  <1>22. CASE Commit
    BY <1>22 DEF Commit, Committing, At, Goes, Returns
  <1>23. CASE Fit
    BY <1>23 DEF Fit, At, Returns
  <1>24. CASE BeginFails
    BY <1>24 DEF BeginFails, At, Returns
  <1>25. CASE ReadFails
    BY <1>25 DEF ReadFails, Returns
  <1>26. CASE TryFails
    BY <1>26 DEF TryFails, InTry, Goes
  <1>27. CASE ConstraintFails
    BY <1>27 DEF ConstraintFails, Violates, Goes
  <1>28. CASE Rollback
    BY <1>28 DEF Rollback, At, Returns
  <1>29. CASE UNCHANGED vars
    BY <1>29 DEF vars
  <1> QED
    BY CallsEnter, <1>1, <1>2, <1>3, <1>4, <1>5, <1>6, <1>7, <1>8, <1>9, <1>10, <1>11, <1>12,
       <1>13, <1>14, <1>15, <1>16, <1>17, <1>18, <1>19, <1>20, <1>21, <1>22, <1>23, <1>24,
       <1>25, <1>26, <1>27, <1>28, <1>29
    DEF Next, JsStep

\* The connection, the bounds and the teardown.
LEMMA NativeStep ==
  ASSUME TypeOK, OpShape, [Next]_vars
  PROVE  NativeTyped'
PROOF
  <1> USE DEF native, statements, data, marks, NativeTyped
  <1>a. CallTyped /\ NativeTyped /\ CacheTyped /\ DataTyped
    BY DEF TypeOK
  <1>b. (op = None \/ op \in Ops) /\ (\A o \in Ops : o # None)
    BY OpIsACall
  <1> USE <1>a, <1>b
  <1>1. CASE Entered
    BY <1>1, BoundsAssumption DEF Entered, Entry
  <1>2. CASE \E id \in Ids : FindCached(id)
    BY <1>2, BoundsAssumption DEF FindCached, CanCall
  <1>3. CASE \E id \in Ids : ExecuteMultiple(id)
    BY <1>3, BoundsAssumption DEF ExecuteMultiple, CanCall
  <1>4. CASE FitStatementCacheToSchema
    BY <1>4, BoundsAssumption DEF FitStatementCacheToSchema, CanCall
  <1>5. CASE ReleaseMemory
    BY <1>5 DEF ReleaseMemory
  <1>6. CASE Destroy
    BY <1>6 DEF Destroy
  <1>7. CASE Begin
    BY <1>7 DEF Begin, At, Goes
  <1>8. CASE Select
    BY <1>8 DEF Select, At
  <1>9. CASE \E id \in Ids : Row(id)
    BY <1>9 DEF Row, At
  <1>10. CASE LastRow
    BY <1>10 DEF LastRow, At, Goes, Returns
  <1>11. CASE Mutate
    BY <1>11 DEF Mutate, At, Goes
  <1>12. CASE Update
    BY <1>12 DEF Update, At, Executed, Does
  <1>13. CASE HoldUpdate
    BY <1>13 DEF HoldUpdate, At, Goes
  <1>14. CASE UpdateHeld
    BY <1>14 DEF UpdateHeld, At, Executed, Does
  <1>15. CASE Preamble
    BY <1>15 DEF Preamble, At, Goes
  <1>16. CASE HoldInsert
    BY <1>16 DEF HoldInsert, At, Goes
  <1>17. CASE InsertRecord
    BY <1>17 DEF InsertRecord, At, Bound
  <1>18. CASE Postamble
    BY <1>18 DEF Postamble, At, Goes
  <1>19. CASE Vacuum
    BY <1>19 DEF Vacuum, At, Goes
  <1>20. CASE Schema
    BY <1>20 DEF Schema, At, Goes
  <1>21. CASE SetUserVersion
    BY <1>21 DEF SetUserVersion, At, Goes
  <1>22. CASE Commit
    BY <1>22 DEF Commit, Committing, At, Goes, Returns
  <1>23. CASE Fit
    BY <1>23 DEF Fit, At, Returns
  <1>24. CASE BeginFails
    BY <1>24, BoundsAssumption DEF BeginFails, At, Returns, Fails, FitsLocked, Present
  <1>25. CASE ReadFails
    BY <1>25, BoundsAssumption DEF ReadFails, Returns, Fails, FitsLocked, Present
  <1>26. CASE TryFails
    BY <1>26, BoundsAssumption DEF TryFails, InTry, Goes, Fails, FitsLocked, Present
  <1>27. CASE ConstraintFails
    BY <1>27 DEF ConstraintFails, Violates, Goes
  <1>28. CASE Rollback
    BY <1>28 DEF Rollback, At, Returns
  <1>29. CASE UNCHANGED vars
    BY <1>29 DEF vars
  <1> QED
    BY CallsEnter, <1>1, <1>2, <1>3, <1>4, <1>5, <1>6, <1>7, <1>8, <1>9, <1>10, <1>11, <1>12,
       <1>13, <1>14, <1>15, <1>16, <1>17, <1>18, <1>19, <1>20, <1>21, <1>22, <1>23, <1>24,
       <1>25, <1>26, <1>27, <1>28, <1>29
    DEF Next, JsStep

\* The rows stay rows, the marks stay records.
LEMMA DataStep ==
  ASSUME TypeOK, OpShape, [Next]_vars
  PROVE  DataTyped'
PROOF
  <1> USE DEF native, statements, data, marks, DataTyped
  <1>a. CallTyped /\ NativeTyped /\ CacheTyped /\ DataTyped
    BY DEF TypeOK
  <1>b. (op = None \/ op \in Ops) /\ (\A o \in Ops : o # None)
    BY OpIsACall
  <1> USE <1>a, <1>b
  <1>c. op # None => /\ op.left \subseteq Ids /\ op.got \subseteq Ids /\ op.gone \subseteq Ids
                     /\ op.bound \in {None, "default", "value"}
    BY <1>b DEF Ops
  <1> USE <1>c
  <1>1. CASE Entered
    BY <1>1 DEF Entered, Entry
  <1>2. CASE \E id \in Ids : FindCached(id)
    BY <1>2 DEF FindCached, CanCall
  <1>3. CASE \E id \in Ids : ExecuteMultiple(id)
    BY <1>3 DEF ExecuteMultiple, CanCall, Values
  <1>4. CASE FitStatementCacheToSchema
    BY <1>4 DEF FitStatementCacheToSchema, CanCall
  <1>5. CASE ReleaseMemory
    BY <1>5 DEF ReleaseMemory
  <1>6. CASE Destroy
    BY <1>6 DEF Destroy
  <1>7. CASE Begin
    BY <1>7 DEF Begin, At, Goes
  <1>8. CASE Select
    BY <1>8 DEF Select, At
  <1>9. CASE \E id \in Ids : Row(id)
    BY <1>9 DEF Row, At
  <1>10. CASE LastRow
    BY <1>10 DEF LastRow, At, Goes, Returns
  <1>11. CASE Mutate
    <2>1. op # None /\ op.arg \in {None, "deleted"}
      BY <1>11 DEF Mutate, At, OpShape
    <2>2. draft' \in [Ids -> Values]
      BY <1>11, <2>1, TargetsTyped DEF Mutate
    <2> QED  BY <1>11, <2>2 DEF Mutate
  <1>12. CASE Update
    <2>1. op # None /\ op.todo # <<>> /\ op.kind \in {"batch", "batchJSON"}
      BY <1>12 DEF Update, At, OpShape
    <2>2. Head(op.todo) \in Changes
      BY <2>1, NextOperation
    <2>3. draft' = Applied(Head(op.todo), draft)
      BY <1>12 DEF Update
    <2>4. draft' \in [Ids -> Values]
      BY <2>2, <2>3 DEF Applied, Values, Changes
    <2> QED  BY <1>12, <2>4 DEF Update
  <1>13. CASE HoldUpdate
    BY <1>13 DEF HoldUpdate, At, Goes
  <1>14. CASE UpdateHeld
    <2>1. op # None /\ op.todo # <<>> /\ op.kind \in {"batch", "batchJSON"}
      BY <1>14 DEF UpdateHeld, At, OpShape
    <2>2. Head(op.todo) \in Changes
      BY <2>1, NextOperation
    <2>3. draft' = Applied(Head(op.todo), draft)
      BY <1>14 DEF UpdateHeld
    <2>4. draft' \in [Ids -> Values]
      BY <2>2, <2>3 DEF Applied, Values, Changes
    <2> QED  BY <1>14, <2>4 DEF UpdateHeld
  <1>15. CASE Preamble
    BY <1>15 DEF Preamble, At, Goes
  <1>16. CASE HoldInsert
    BY <1>16 DEF HoldInsert, At, Goes
  <1>17. CASE InsertRecord
    <2>1. op # None /\ op.todo # <<>> /\ op.kind = "load"
      BY <1>17 DEF InsertRecord, At, OpShape
    <2>2. Head(op.todo) \in Records
      BY <2>1, NextOperation
    <2>3. op' = [op EXCEPT !.todo = Tail(op.todo), !.bound = Bound(op.bound, Head(op.todo).value)]
      BY <1>17 DEF InsertRecord
    <2>4. op'.bound \in Values
      BY <1>b, <2>1, <2>3 DEF Bound, Values, Ops
    <2>5. draft' \in [Ids -> Values]
      BY <1>17, <2>2, <2>4 DEF InsertRecord, Records
    <2> QED  BY <1>17, <2>5 DEF InsertRecord
  <1>18. CASE Postamble
    BY <1>18 DEF Postamble, At, Goes
  <1>19. CASE Vacuum
    BY <1>19 DEF Vacuum, At, Goes, Empty, Values
  <1>20. CASE Schema
    BY <1>20 DEF Schema, At, Goes
  <1>21. CASE SetUserVersion
    BY <1>21 DEF SetUserVersion, At, Goes
  <1>22. CASE Commit
    BY <1>22 DEF Commit, Committing, At, Goes, Returns, MarksAfter
  <1>23. CASE Fit
    BY <1>23 DEF Fit, At, Returns
  <1>24. CASE BeginFails
    BY <1>24 DEF BeginFails, At, Returns
  <1>25. CASE ReadFails
    BY <1>25 DEF ReadFails, Returns
  <1>26. CASE TryFails
    BY <1>26 DEF TryFails, InTry, Goes
  <1>27. CASE ConstraintFails
    BY <1>27 DEF ConstraintFails, Violates, Goes
  <1>28. CASE Rollback
    BY <1>28 DEF Rollback, At, Returns
  <1>29. CASE UNCHANGED vars
    BY <1>29 DEF vars
  <1> QED
    BY CallsEnter, <1>1, <1>2, <1>3, <1>4, <1>5, <1>6, <1>7, <1>8, <1>9, <1>10, <1>11, <1>12,
       <1>13, <1>14, <1>15, <1>16, <1>17, <1>18, <1>19, <1>20, <1>21, <1>22, <1>23, <1>24,
       <1>25, <1>26, <1>27, <1>28, <1>29
    DEF Next, JsStep

\* The cache owns what is prepared, within its capacity.
LEMMA CacheStep ==
  ASSUME TypeOK, OpShape, CacheShape, [Next]_vars
  PROVE  CacheTyped' /\ CacheShape'
PROOF
  <1> USE DEF native, statements, data, marks, CacheTyped, CacheShape
  <1>a. CallTyped /\ NativeTyped /\ CacheTyped /\ DataTyped
    BY DEF TypeOK
  <1>b. (op = None \/ op \in Ops) /\ (\A o \in Ops : o # None)
    BY OpIsACall
  <1> USE <1>a, <1>b
  <1>1. CASE Entered
    BY <1>1 DEF Entered, Entry
  <1>2. CASE \E id \in Ids : FindCached(id)
    BY <1>2 DEF FindCached, CanCall
  <1>3. CASE \E id \in Ids : ExecuteMultiple(id)
    BY <1>3 DEF ExecuteMultiple, CanCall
  <1>4. CASE FitStatementCacheToSchema
    BY <1>4, FitsShape DEF FitStatementCacheToSchema, CanCall
  <1>5. CASE ReleaseMemory
    BY <1>5 DEF ReleaseMemory, Elements, NoDuplicates
  <1>6. CASE Destroy
    <2>1. CASE isDestroyed
      BY <1>6, <2>1 DEF Destroy
    <2>2. CASE ~isDestroyed
      BY <1>6, <2>2 DEF Destroy, Elements, NoDuplicates
    <2> QED  BY <2>1, <2>2
  <1>7. CASE Begin
    <2>1. Prepares("begin") /\ "begin" \in Sqls
      BY <1>7 DEF Begin, Sqls
    <2> QED  BY <1>7, <2>1, PreparesShape DEF Begin, Sqls, Goes, Returns
  <1>8. CASE Select
    <2>1. PICK sql \in {"find", "query"} : Prepares(sql) /\ held' = held \cup {sql}
      BY <1>8 DEF Select
    <2>2. sql \in Sqls
      BY DEF Sqls
    <2> QED  BY <1>8, <2>1, <2>2, PreparesShape DEF Select
  <1>9. CASE \E id \in Ids : Row(id)
    BY <1>9 DEF Row, At
  <1>10. CASE LastRow
    BY <1>10 DEF LastRow, At, Goes, Returns
  <1>11. CASE Mutate
    <2>1. Prepares("mutate") /\ "mutate" \in Sqls
      BY <1>11 DEF Mutate, Sqls
    <2> QED  BY <1>11, <2>1, PreparesShape DEF Mutate, Sqls, Goes, Returns
  <1>12. CASE Update
    <2>1. op # None /\ op.todo # <<>> /\ op.kind \in {"batch", "batchJSON"}
      BY <1>12 DEF Update, At, OpShape
    <2>2. Head(op.todo) \in Changes
      BY <2>1, NextOperation
    <2>3. Head(op.todo).do \in Sqls
      BY <2>2 DEF Changes, Sqls
    <2> QED  BY <1>12, <2>3, PreparesShape DEF Update
  <1>13. CASE HoldUpdate
    <2>1. op # None /\ op.todo # <<>> /\ op.kind \in {"batch", "batchJSON"}
      BY <1>13 DEF HoldUpdate, At, OpShape
    <2>2. Head(op.todo) \in Changes
      BY <2>1, NextOperation
    <2>3. Head(op.todo).do \in Sqls
      BY <2>2 DEF Changes, Sqls
    <2> QED  BY <1>13, <2>3, PreparesShape DEF HoldUpdate
  <1>14. CASE UpdateHeld
    BY <1>14 DEF UpdateHeld, At, Executed, Does
  <1>15. CASE Preamble
    BY <1>15 DEF Preamble, At, Goes
  <1>16. CASE HoldInsert
    <2>1. Prepares("insert") /\ "insert" \in Sqls
      BY <1>16 DEF HoldInsert, Sqls
    <2> QED  BY <1>16, <2>1, PreparesShape DEF HoldInsert, Sqls, Goes, Returns
  <1>17. CASE InsertRecord
    BY <1>17 DEF InsertRecord, At, Bound
  <1>18. CASE Postamble
    BY <1>18 DEF Postamble, At, Goes
  <1>19. CASE Vacuum
    BY <1>19 DEF Vacuum, At, Goes
  <1>20. CASE Schema
    BY <1>20 DEF Schema, At, Goes
  <1>21. CASE SetUserVersion
    <2>1. Prepares("version") /\ "version" \in Sqls
      BY <1>21 DEF SetUserVersion, Sqls
    <2> QED  BY <1>21, <2>1, PreparesShape DEF SetUserVersion, Sqls, Goes, Returns
  <1>22. CASE Commit
    <2>1. Prepares("commit") /\ "commit" \in Sqls
      BY <1>22 DEF Commit, Sqls
    <2> QED  BY <1>22, <2>1, PreparesShape DEF Commit, Sqls, Goes, Returns
  <1>23. CASE Fit
    BY <1>23, FitsShape DEF Fit, At, Returns
  <1>24. CASE BeginFails
    BY <1>24, FailsShape, UpcomingIsSql DEF BeginFails, At, Returns
  <1>25. CASE ReadFails
    BY <1>25, FailsShape, UpcomingIsSql DEF ReadFails, Returns
  <1>26. CASE TryFails
    BY <1>26, FailsShape, UpcomingIsSql DEF TryFails, InTry, Goes
  <1>27. CASE ConstraintFails
    <2>1. CASE op.at = "ops"
      <3>1. op # None /\ op.todo # <<>> /\ op.kind \in {"batch", "batchJSON"}
        BY <1>27, <2>1 DEF ConstraintFails, Violates, OpShape
      <3>2. Head(op.todo).do \in Sqls
        BY <3>1, NextOperation DEF Changes, Sqls
      <3> QED  BY <1>27, <2>1, <3>2, PreparesShape DEF ConstraintFails
    <2>2. CASE op.at # "ops"
      BY <1>27, <2>2 DEF ConstraintFails
    <2> QED  BY <2>1, <2>2
  <1>28. CASE Rollback
    <2>1. Prepares("rollback") /\ "rollback" \in Sqls
      BY <1>28 DEF Rollback, Sqls
    <2> QED  BY <1>28, <2>1, PreparesShape DEF Rollback, Sqls, Goes, Returns
  <1>29. CASE UNCHANGED vars
    BY <1>29 DEF vars
  <1> QED
    BY CallsEnter, <1>1, <1>2, <1>3, <1>4, <1>5, <1>6, <1>7, <1>8, <1>9, <1>10, <1>11, <1>12,
       <1>13, <1>14, <1>15, <1>16, <1>17, <1>18, <1>19, <1>20, <1>21, <1>22, <1>23, <1>24,
       <1>25, <1>26, <1>27, <1>28, <1>29
    DEF Next, JsStep

\* Outside its try block a call leaves no transaction.
LEMMA TxnStep ==
  ASSUME TypeOK, OpShape, TxnShape, [Next]_vars
  PROVE  TxnShape'
PROOF
  <1> USE DEF native, statements, data, marks, CallTyped, TxnShape, OpShape, Ops, Reads
  <1>a. CallTyped /\ NativeTyped /\ CacheTyped /\ DataTyped
    BY DEF TypeOK
  <1>b. (op = None \/ op \in Ops) /\ (\A o \in Ops : o # None)
    BY OpIsACall
  <1>d. op' # None <=> mutex' = "js"
    <2>1. CallTyped'
      BY CallTypedStep
    <2> QED  BY <2>1, <1>b DEF CallTyped
  <1> USE <1>a, <1>b, <1>d
  <1>1. CASE Entered
    BY <1>1 DEF Entered, Entry
  <1>2. CASE \E id \in Ids : FindCached(id)
    BY <1>2 DEF FindCached, CanCall
  <1>3. CASE \E id \in Ids : ExecuteMultiple(id)
    BY <1>3 DEF ExecuteMultiple, CanCall
  <1>4. CASE FitStatementCacheToSchema
    BY <1>4 DEF FitStatementCacheToSchema, CanCall
  <1>5. CASE ReleaseMemory
    BY <1>5 DEF ReleaseMemory
  <1>6. CASE Destroy
    BY <1>6 DEF Destroy
  <1>7. CASE Begin
    BY <1>7 DEF Begin, At, Goes
  <1>8. CASE Select
    BY <1>8 DEF Select, At
  <1>9. CASE \E id \in Ids : Row(id)
    BY <1>9 DEF Row, At
  <1>10. CASE LastRow
    BY <1>10 DEF LastRow, At, Goes, Returns
  <1>11. CASE Mutate
    BY <1>11 DEF Mutate, At, Goes
  <1>12. CASE Update
    BY <1>12 DEF Update, At, Executed, Does
  <1>13. CASE HoldUpdate
    BY <1>13 DEF HoldUpdate, At, Goes
  <1>14. CASE UpdateHeld
    BY <1>14 DEF UpdateHeld, At, Executed, Does
  <1>15. CASE Preamble
    BY <1>15 DEF Preamble, At, Goes
  <1>16. CASE HoldInsert
    BY <1>16 DEF HoldInsert, At, Goes
  <1>17. CASE InsertRecord
    BY <1>17 DEF InsertRecord, At, Bound
  <1>18. CASE Postamble
    BY <1>18 DEF Postamble, At, Goes
  <1>19. CASE Vacuum
    BY <1>19 DEF Vacuum, At, Goes
  <1>20. CASE Schema
    BY <1>20 DEF Schema, At, Goes
  <1>21. CASE SetUserVersion
    BY <1>21 DEF SetUserVersion, At, Goes
  <1>22. CASE Commit
    BY <1>22 DEF Commit, Committing, At, Goes, Returns
  <1>23. CASE Fit
    BY <1>23 DEF Fit, At, Returns
  <1>24. CASE BeginFails
    BY <1>24 DEF BeginFails, At, Returns
  <1>25. CASE ReadFails
    BY <1>25 DEF ReadFails, Returns
  <1>26. CASE TryFails
    BY <1>26 DEF TryFails, InTry, Goes
  <1>27. CASE ConstraintFails
    BY <1>27 DEF ConstraintFails, Violates, Goes
  <1>28. CASE Rollback
    BY <1>28 DEF Rollback, At, Returns
  <1>29. CASE UNCHANGED vars
    BY <1>29 DEF vars
  <1> QED
    BY CallsEnter, <1>1, <1>2, <1>3, <1>4, <1>5, <1>6, <1>7, <1>8, <1>9, <1>10, <1>11, <1>12,
       <1>13, <1>14, <1>15, <1>16, <1>17, <1>18, <1>19, <1>20, <1>21, <1>22, <1>23, <1>24,
       <1>25, <1>26, <1>27, <1>28, <1>29
    DEF Next, JsStep

\* The held statement stays near the front.
LEMMA HeldStep ==
  ASSUME TypeOK, OpShape, CacheShape, HeldShape, [Next]_vars
  PROVE  HeldShape'
PROOF
  <1> USE DEF native, statements, data, marks, CallTyped, HeldShape, OpShape, Ops, Reads
  <1>a. CallTyped /\ NativeTyped /\ CacheTyped /\ DataTyped
    BY DEF TypeOK
  <1>b. (op = None \/ op \in Ops) /\ (\A o \in Ops : o # None)
    BY OpIsACall
  <1>d. op' # None <=> mutex' = "js"
    <2>1. CallTyped'
      BY CallTypedStep
    <2> QED  BY <2>1, <1>b DEF CallTyped
  <1> USE <1>a, <1>b, <1>d
  <1>1. CASE Entered
    BY <1>1 DEF Entered, Entry
  <1>2. CASE \E id \in Ids : FindCached(id)
    BY <1>2 DEF FindCached, CanCall
  <1>3. CASE \E id \in Ids : ExecuteMultiple(id)
    BY <1>3 DEF ExecuteMultiple, CanCall
  <1>4. CASE FitStatementCacheToSchema
    BY <1>4 DEF FitStatementCacheToSchema, CanCall
  <1>5. CASE ReleaseMemory
    BY <1>5 DEF ReleaseMemory
  <1>6. CASE Destroy
    BY <1>6 DEF Destroy
  <1>7. CASE Begin
    <2>1. Prepares("begin") /\ "begin" \in Sqls
      BY <1>7 DEF Begin, Sqls
    <2>2. /\ lru' # <<>> /\ lru'[1] = "begin"
          /\ lru # <<>> /\ lru[1] # "begin" => 2 <= Len(lru') /\ lru'[2] = lru[1]
      BY <2>1, PreparesShape
    <2> QED  BY <1>7, <2>2 DEF Begin, At, Committing, Goes, Returns
  <1>8. CASE Select
    <2>1. PICK sql \in {"find", "query"} :
            Prepares(sql) /\ held' = held \cup {sql} /\ (op.kind # "find" => sql = "query")
      BY <1>8 DEF Select
    <2>2. sql \in Sqls
      BY DEF Sqls
    <2>3. lru' # <<>> /\ lru'[1] = sql
      BY <2>1, <2>2, PreparesShape
    <2> QED  BY <1>8, <2>1, <2>3 DEF Select, At
  <1>9. CASE \E id \in Ids : Row(id)
    BY <1>9 DEF Row, At
  <1>10. CASE LastRow
    BY <1>10 DEF LastRow, At, Goes, Returns
  <1>11. CASE Mutate
    <2>1. Prepares("mutate") /\ "mutate" \in Sqls
      BY <1>11 DEF Mutate, Sqls
    <2>2. /\ lru' # <<>> /\ lru'[1] = "mutate"
          /\ lru # <<>> /\ lru[1] # "mutate" => 2 <= Len(lru') /\ lru'[2] = lru[1]
      BY <2>1, PreparesShape
    <2> QED  BY <1>11, <2>2 DEF Mutate, At, Committing, Goes, Returns
  <1>12. CASE Update
    BY <1>12 DEF Update, At, Executed, Does
  <1>13. CASE HoldUpdate
    <2>1. op # None /\ op.todo # <<>> /\ op.kind \in {"batch", "batchJSON"}
      BY <1>13 DEF HoldUpdate, At, OpShape
    <2>2. Head(op.todo) \in Changes
      BY <2>1, NextOperation
    <2>3. Head(op.todo).do \in Sqls
      BY <2>2 DEF Changes, Sqls
    <2>4. lru' # <<>> /\ lru'[1] = Head(op.todo).do
      BY <1>13, <2>3, PreparesShape DEF HoldUpdate
    <2> QED  BY <1>13, <2>4 DEF HoldUpdate, At, Goes
  <1>14. CASE UpdateHeld
    BY <1>14 DEF UpdateHeld, At, Executed, Does
  <1>15. CASE Preamble
    BY <1>15 DEF Preamble, At, Goes
  <1>16. CASE HoldInsert
    <2>1. Prepares("insert") /\ "insert" \in Sqls
      BY <1>16 DEF HoldInsert, Sqls
    <2>2. /\ lru' # <<>> /\ lru'[1] = "insert"
          /\ lru # <<>> /\ lru[1] # "insert" => 2 <= Len(lru') /\ lru'[2] = lru[1]
      BY <2>1, PreparesShape
    <2> QED  BY <1>16, <2>2 DEF HoldInsert, At, Committing, Goes, Returns
  <1>17. CASE InsertRecord
    BY <1>17 DEF InsertRecord, At, Bound
  <1>18. CASE Postamble
    BY <1>18 DEF Postamble, At, Goes
  <1>19. CASE Vacuum
    BY <1>19 DEF Vacuum, At, Goes
  <1>20. CASE Schema
    BY <1>20 DEF Schema, At, Goes
  <1>21. CASE SetUserVersion
    <2>1. Prepares("version") /\ "version" \in Sqls
      BY <1>21 DEF SetUserVersion, Sqls
    <2>2. /\ lru' # <<>> /\ lru'[1] = "version"
          /\ lru # <<>> /\ lru[1] # "version" => 2 <= Len(lru') /\ lru'[2] = lru[1]
      BY <2>1, PreparesShape
    <2> QED  BY <1>21, <2>2 DEF SetUserVersion, At, Committing, Goes, Returns
  <1>22. CASE Commit
    <2>1. Prepares("commit") /\ "commit" \in Sqls
      BY <1>22 DEF Commit, Sqls
    <2>2. /\ lru' # <<>> /\ lru'[1] = "commit"
          /\ lru # <<>> /\ lru[1] # "commit" => 2 <= Len(lru') /\ lru'[2] = lru[1]
      BY <2>1, PreparesShape
    <2> QED  BY <1>22, <2>2 DEF Commit, At, Committing, Goes, Returns
  <1>23. CASE Fit
    BY <1>23 DEF Fit, At, Returns
  <1>24. CASE BeginFails
    BY <1>24 DEF BeginFails, At, Returns
  <1>25. CASE ReadFails
    BY <1>25 DEF ReadFails, Returns
  <1>26. CASE TryFails
    BY <1>26 DEF TryFails, InTry, Goes
  <1>27. CASE ConstraintFails
    BY <1>27 DEF ConstraintFails, Violates, Goes
  <1>28. CASE Rollback
    <2>1. Prepares("rollback") /\ "rollback" \in Sqls
      BY <1>28 DEF Rollback, Sqls
    <2>2. /\ lru' # <<>> /\ lru'[1] = "rollback"
          /\ lru # <<>> /\ lru[1] # "rollback" => 2 <= Len(lru') /\ lru'[2] = lru[1]
      BY <2>1, PreparesShape
    <2> QED  BY <1>28, <2>2 DEF Rollback, At, Committing, Goes, Returns
  <1>29. CASE UNCHANGED vars
    BY <1>29 DEF vars
  <1> QED
    BY CallsEnter, <1>1, <1>2, <1>3, <1>4, <1>5, <1>6, <1>7, <1>8, <1>9, <1>10, <1>11, <1>12,
       <1>13, <1>14, <1>15, <1>16, <1>17, <1>18, <1>19, <1>20, <1>21, <1>22, <1>23, <1>24,
       <1>25, <1>26, <1>27, <1>28, <1>29
    DEF Next, JsStep

\* What is marked was given, written or spoiled.
LEMMA MarkStep ==
  ASSUME TypeOK, OpShape, MarkShape, [Next]_vars
  PROVE  MarkShape'
PROOF
  <1> USE DEF native, statements, data, marks, CallTyped, DataTyped, MarkShape, OpShape, Ops, Reads
  <1>a. CallTyped /\ NativeTyped /\ CacheTyped /\ DataTyped
    BY DEF TypeOK
  <1>b. (op = None \/ op \in Ops) /\ (\A o \in Ops : o # None)
    BY OpIsACall
  <1>d. op' # None <=> mutex' = "js"
    <2>1. CallTyped'
      BY CallTypedStep
    <2> QED  BY <2>1, <1>b DEF CallTyped
  <1> USE <1>a, <1>b, <1>d
  <1>1. CASE Entered
    BY <1>1 DEF Entered, Entry
  <1>2. CASE \E id \in Ids : FindCached(id)
    BY <1>2 DEF FindCached, CanCall
  <1>3. CASE \E id \in Ids : ExecuteMultiple(id)
    BY <1>3 DEF ExecuteMultiple, CanCall
  <1>4. CASE FitStatementCacheToSchema
    BY <1>4 DEF FitStatementCacheToSchema, CanCall
  <1>5. CASE ReleaseMemory
    BY <1>5 DEF ReleaseMemory
  <1>6. CASE Destroy
    BY <1>6 DEF Destroy
  <1>7. CASE Begin
    BY <1>7 DEF Begin, At, Goes
  <1>8. CASE Select
    BY <1>8 DEF Select, At
  <1>9. CASE \E id \in Ids : Row(id)
    BY <1>9 DEF Row, At
  <1>10. CASE LastRow
    BY <1>10 DEF LastRow, At, Goes, Returns
  <1>11. CASE Mutate
    BY <1>11 DEF Mutate, At, Goes
  <1>12. CASE Update
    BY <1>12 DEF Update, At, Executed, Does
  <1>13. CASE HoldUpdate
    BY <1>13 DEF HoldUpdate, At, Goes
  <1>14. CASE UpdateHeld
    BY <1>14 DEF UpdateHeld, At, Executed, Does
  <1>15. CASE Preamble
    BY <1>15 DEF Preamble, At, Goes
  <1>16. CASE HoldInsert
    BY <1>16 DEF HoldInsert, At, Goes
  <1>17. CASE InsertRecord
    BY <1>17 DEF InsertRecord, At, Bound
  <1>18. CASE Postamble
    BY <1>18 DEF Postamble, At, Goes
  <1>19. CASE Vacuum
    BY <1>19 DEF Vacuum, At, Goes
  <1>20. CASE Schema
    BY <1>20 DEF Schema, At, Goes
  <1>21. CASE SetUserVersion
    BY <1>21 DEF SetUserVersion, At, Goes
  <1>22. CASE Commit
    BY <1>22 DEF Commit, Committing, At, Goes, Returns, MarksAfter
  <1>23. CASE Fit
    BY <1>23 DEF Fit, At, Returns
  <1>24. CASE BeginFails
    BY <1>24 DEF BeginFails, At, Returns
  <1>25. CASE ReadFails
    BY <1>25 DEF ReadFails, Returns
  <1>26. CASE TryFails
    BY <1>26 DEF TryFails, InTry, Goes
  <1>27. CASE ConstraintFails
    BY <1>27 DEF ConstraintFails, Violates, Goes
  <1>28. CASE Rollback
    BY <1>28 DEF Rollback, At, Returns
  <1>29. CASE UNCHANGED vars
    BY <1>29 DEF vars
  <1> QED
    BY CallsEnter, <1>1, <1>2, <1>3, <1>4, <1>5, <1>6, <1>7, <1>8, <1>9, <1>10, <1>11, <1>12,
       <1>13, <1>14, <1>15, <1>16, <1>17, <1>18, <1>19, <1>20, <1>21, <1>22, <1>23, <1>24,
       <1>25, <1>26, <1>27, <1>28, <1>29
    DEF Next, JsStep

\* What a call is to leave does not change.
LEMMA TargetStep ==
  ASSUME TypeOK, OpShape, TxnShape, TargetShape, [Next]_vars
  PROVE  TargetShape'
PROOF
  <1> USE DEF native, statements, data, marks, TargetShape
  <1>a. CallTyped /\ NativeTyped /\ CacheTyped /\ DataTyped
    BY DEF TypeOK
  <1>b. (op = None \/ op \in Ops) /\ (\A o \in Ops : o # None)
    BY OpIsACall
  <1>d. op' # None <=> mutex' = "js"
    <2>1. CallTyped'
      BY CallTypedStep
    <2> QED  BY <2>1, <1>b DEF CallTyped
  <1> USE <1>a, <1>b, <1>d
  <1>1. CASE Entered
    <2>1. draft = rows /\ draft' = draft
      BY <1>1 DEF Entered, TxnShape, CallTyped
    <2> QED  BY <1>1, <2>1 DEF Entered, Entry, Reads
  <1>2. CASE \E id \in Ids : FindCached(id)
    BY <1>2 DEF FindCached, CanCall, CallTyped
  <1>3. CASE \E id \in Ids : ExecuteMultiple(id)
    BY <1>3 DEF ExecuteMultiple, CanCall, CallTyped
  <1>4. CASE FitStatementCacheToSchema
    BY <1>4 DEF FitStatementCacheToSchema, CanCall, CallTyped
  <1>5. CASE ReleaseMemory
    BY <1>5 DEF ReleaseMemory, CallTyped
  <1>6. CASE Destroy
    BY <1>6 DEF Destroy, CallTyped
  <1>7. CASE Begin
    BY <1>7 DEF Begin, At, Goes, OpShape, Reads, Ops
  <1>8. CASE Select
    BY <1>8 DEF Select, At, OpShape, Reads, Ops
  <1>9. CASE \E id \in Ids : Row(id)
    BY <1>9 DEF Row, At, OpShape, Reads, Ops
  <1>10. CASE LastRow
    <2>1. CASE op.kind = "destroyMatching" /\ op.gone = {}
      <3>1. op # None /\ op.at = "rows" /\ op.left = {} /\ draft' = draft
        BY <1>10, <2>1 DEF LastRow, At
      <3>2. Live(draft) = {}
        BY <2>1, <3>1
      <3>3. draft = op.target
        BY <2>1, <3>1, <3>2, NothingDestroyed DEF DataTyped
      <3>4. op'.at = "commit" /\ op'.kind = op.kind /\ op'.target = op.target
        BY <1>10, <2>1, <3>1 DEF LastRow, Goes, Ops
      <3> QED  BY <2>1, <3>1, <3>3, <3>4
    <2>2. CASE ~(op.kind = "destroyMatching" /\ op.gone = {})
      BY <1>10, <2>2 DEF LastRow, At, Goes, Returns, Ops
    <2> QED  BY <2>1, <2>2
  <1>11. CASE Mutate
    <2>1. op # None /\ op.at = "mutate" /\ op.kind = "destroyMatching"
      BY <1>11 DEF Mutate, At, OpShape
    <2>2. op'.at = "commit" /\ op'.kind = op.kind /\ op'.target = op.target
      BY <1>11, <2>1 DEF Mutate, Goes, Ops
    <2>3. draft' = op.target
      BY <1>11, <2>1 DEF Mutate
    <2> QED  BY <2>1, <2>2, <2>3
  <1>12. CASE Update
    <2>1. op # None /\ op.at # "rollback" /\ op.todo # <<>> /\ op.kind \in {"batch", "batchJSON"}
      BY <1>12 DEF Update, At, OpShape
    <2>2. op.todo \in Seq(Changes) /\ Possible(Head(op.todo), draft)
      BY <1>12, <2>1 DEF Update, OpShape
    <2>3. /\ op'.todo = Tail(op.todo) /\ op'.kind = op.kind /\ op'.target = op.target
          /\ draft' = Applied(Head(op.todo), draft)
      BY <1>12, <2>1 DEF Update, Executed, Ops
    <2>4. AfterBatch(draft', op'.todo) = AfterBatch(draft, op.todo)
      BY <2>1, <2>2, <2>3, BatchStep DEF DataTyped
    <2> QED  BY <2>1, <2>3, <2>4
  <1>13. CASE HoldUpdate
    BY <1>13 DEF HoldUpdate, At, Goes, OpShape, Reads, Ops
  <1>14. CASE UpdateHeld
    <2>1. op # None /\ op.at # "rollback" /\ op.todo # <<>> /\ op.kind \in {"batch", "batchJSON"}
      BY <1>14 DEF UpdateHeld, At, OpShape
    <2>2. op.todo \in Seq(Changes) /\ Possible(Head(op.todo), draft)
      BY <1>14, <2>1 DEF UpdateHeld, OpShape
    <2>3. /\ op'.todo = Tail(op.todo) /\ op'.kind = op.kind /\ op'.target = op.target
          /\ draft' = Applied(Head(op.todo), draft)
      BY <1>14, <2>1 DEF UpdateHeld, Executed, Ops
    <2>4. AfterBatch(draft', op'.todo) = AfterBatch(draft, op.todo)
      BY <2>1, <2>2, <2>3, BatchStep DEF DataTyped
    <2> QED  BY <2>1, <2>3, <2>4
  <1>15. CASE Preamble
    BY <1>15 DEF Preamble, At, Goes, OpShape, Reads, Ops
  <1>16. CASE HoldInsert
    BY <1>16 DEF HoldInsert, At, Goes, OpShape, Reads, Ops
  <1>17. CASE InsertRecord
    <2>1. op # None /\ op.at = "records" /\ op.todo # <<>> /\ op.kind = "load" /\ op.todo \in Seq(Records)
      BY <1>17 DEF InsertRecord, At, OpShape
    <2>2. draft[Head(op.todo).id] = None
      BY <1>17 DEF InsertRecord
    <2>3. /\ op'.todo = Tail(op.todo) /\ op'.kind = "load" /\ op'.at = "records" /\ op'.target = op.target
          /\ op'.bound = Bound(op.bound, Head(op.todo).value)
      BY <1>17, <2>1 DEF InsertRecord, Ops
    <2>4. draft' = [draft EXCEPT ![Head(op.todo).id] = Bound(op.bound, Head(op.todo).value)]
      BY <1>17, <2>3 DEF InsertRecord
    <2>5. ASSUME Insertable(Tail(op.todo), draft')
          PROVE  Insertable(op.todo, draft) /\ AfterLoad(draft', Tail(op.todo)) = AfterLoad(draft, op.todo)
      <3>1. draft \in [Ids -> Values]
        BY DEF DataTyped
      <3>2. Inserts(draft, op.todo, op.bound, draft')
        BY <2>1, <2>2, <2>4 DEF Inserts
      <3> HIDE DEF TargetShape
      <3> QED  BY <2>5, <3>1, <3>2, LoadStep
    <2> QED  BY <2>1, <2>3, <2>5
  <1>18. CASE Postamble
    BY <1>18 DEF Postamble, At, Goes, OpShape, Reads, Ops
  <1>19. CASE Vacuum
    BY <1>19 DEF Vacuum, At, Goes, OpShape, Reads, Ops
  <1>20. CASE Schema
    BY <1>20 DEF Schema, At, Goes, OpShape, Reads, Ops
  <1>21. CASE SetUserVersion
    BY <1>21 DEF SetUserVersion, At, Goes, OpShape, Reads, Ops
  <1>22. CASE Commit
    BY <1>22 DEF Commit, Committing, At, Goes, Returns, OpShape, Reads, Ops
  <1>23. CASE Fit
    BY <1>23 DEF Fit, At, Returns, OpShape, Reads, Ops
  <1>24. CASE BeginFails
    BY <1>24 DEF BeginFails, At, Returns, OpShape, Reads, Ops
  <1>25. CASE ReadFails
    BY <1>25 DEF ReadFails, Returns, OpShape, Reads, Ops
  <1>26. CASE TryFails
    BY <1>26 DEF TryFails, InTry, Goes, OpShape, Reads, Ops
  <1>27. CASE ConstraintFails
    BY <1>27 DEF ConstraintFails, Violates, Goes, OpShape, Reads, Ops
  <1>28. CASE Rollback
    BY <1>28 DEF Rollback, At, Returns, OpShape, Reads, Ops
  <1>29. CASE UNCHANGED vars
    BY <1>29 DEF vars
  <1> QED
    BY CallsEnter, <1>1, <1>2, <1>3, <1>4, <1>5, <1>6, <1>7, <1>8, <1>9, <1>10, <1>11, <1>12,
       <1>13, <1>14, <1>15, <1>16, <1>17, <1>18, <1>19, <1>20, <1>21, <1>22, <1>23, <1>24,
       <1>25, <1>26, <1>27, <1>28, <1>29
    DEF Next, JsStep

\* The invariant is inductive.
THEOREM Invariance == Spec => []IInv
PROOF
  <1>1. Init => IInv
    <2> SUFFICES ASSUME Init
                 PROVE  IInv
      OBVIOUS
    <2>1. TypeOK
      <3>1. CallTyped
        BY DEF Init, CallTyped
      <3>2. NativeTyped
        <4>1. isDestroyed \in BOOLEAN /\ asked \in BOOLEAN
          BY DEF Init
        <4>2. connection \in {"open", "closed", "aborted"}
          BY DEF Init
        <4>3. calls \in 0..MaxCalls /\ faults \in 0..MaxFaults
          BY BoundsAssumption DEF Init
        <4> QED  BY <4>1, <4>2, <4>3 DEF NativeTyped
      <3>3. CacheTyped
        BY CapacityAssumption DEF Init, CacheTyped
      <3>4. DataTyped
        BY TargetsTyped DEF Init, DataTyped, Empty, Values
      <3> QED  BY <3>1, <3>2, <3>3, <3>4 DEF TypeOK
    <2>2. CacheShape
      BY CapacityAssumption DEF Init, CacheShape, Elements, NoDuplicates
    <2> QED
      BY <2>1, <2>2 DEF Init, IInv, OpShape, TxnShape, HeldShape, MarkShape, TargetShape
  <1>2. IInv /\ [Next]_vars => IInv'
    <2> SUFFICES ASSUME IInv, [Next]_vars
                 PROVE  IInv'
      OBVIOUS
    <2>1. CallTyped' /\ OpShape'
      BY CallTypedStep, OpShapeStep DEF IInv
    <2>2. NativeTyped' /\ DataTyped'
      BY NativeStep, DataStep DEF IInv
    <2>3. CacheTyped' /\ CacheShape'
      BY CacheStep DEF IInv
    <2>4. TxnShape' /\ HeldShape' /\ MarkShape' /\ TargetShape'
      BY TxnStep, HeldStep, MarkStep, TargetStep DEF IInv
    <2> QED
      BY <2>1, <2>2, <2>3, <2>4 DEF IInv, TypeOK
  <1> QED
    BY <1>1, <1>2, PTL DEF Spec

-----------------------------------------------------------------------------
\* Every call, however it ends, gives the mutex back and takes each variable to
\* a value the code can give it (TypeOK).
THEOREM Typing == Spec => []TypeOK
PROOF
  <1>1. IInv => TypeOK
    BY DEF IInv
  <1> QED
    BY <1>1, Invariance, PTL

\* The statement cache and the connection agree on the statements that are
\* prepared, for any capacity and any order of calls, alerts and failures
\* (StatementCache, prepareQuery, releaseMemory).
THEOREM Owning == Spec => []CacheOwnsStatements
PROOF
  <1>1. IInv => CacheOwnsStatements
    BY DEF IInv, CacheShape, NoDuplicates, CacheOwnsStatements
  <1> QED
    BY <1>1, Invariance, PTL

\* A statement that a call has a pointer to is never finalized under it: it is
\* one of the two used last, and the capacity is at least three.
THEOREM Holding == Spec => []HeldIsPrepared
PROOF
  <1>1. IInv => HeldIsPrepared
    <2> SUFFICES ASSUME IInv
                 PROVE  held \subseteq prepared
      BY DEF HeldIsPrepared
    <2>1. CacheTyped /\ CacheShape /\ HeldShape
      BY DEF IInv, TypeOK
    <2>2. lru \in Seq(Sqls) /\ prepared = {lru[i] : i \in 1..Len(lru)}
      BY <2>1 DEF CacheTyped, CacheShape, Elements
    <2>3. \/ held = {}
          \/ lru # <<>> /\ held = {lru[1]}
          \/ 2 <= Len(lru) /\ held = {lru[2]}
      BY <2>1 DEF HeldShape
    <2>4. lru # <<>> => 1 \in 1..Len(lru)
      BY <2>2
    <2>5. 2 <= Len(lru) => 2 \in 1..Len(lru)
      BY <2>2
    <2> QED
      BY <2>2, <2>3, <2>4, <2>5
  <1> QED
    BY <1>1, Invariance, PTL

\* No transaction outlives the call that began it (beginTransaction, commit,
\* rollback).
THEOREM Closing == Spec => []NoTransactionLeftOpen
PROOF
  <1>1. IInv => NoTransactionLeftOpen
    BY DEF IInv, TxnShape, NoTransactionLeftOpen
  <1> QED
    BY <1>1, Invariance, PTL

\* A record answered with its bare id was given to JavaScript or written by it,
\* or a query failed after it marked it (markAsCached, removeFromCache).
THEOREM Marking == Spec => []MarkedIsKnown
PROOF
  <1>1. IInv => MarkedIsKnown
    BY DEF IInv, MarkShape, MarkedIsKnown
  <1> QED
    BY <1>1, Invariance, PTL

\* The committed rows only ever change, in one step, to what the whole call
\* makes of them, whatever fails and wherever, or by a script of the app: a
\* batch, a mass destroy, a sync JSON, a reset is all there or not at all
\* (beginTransaction, commit, rollback).
THEOREM Atomicity == Spec => AllOrNothing
PROOF
  <1> DEFINE Whole == (op # None /\ rows' = op.target) \/ \E id \in Ids : ExecuteMultiple(id)
  <1>1. ASSUME IInv, [Next]_vars, rows' # rows
        PROVE  Whole
    <2>1. TypeOK /\ OpShape /\ TargetShape /\ DataTyped /\ (op = None \/ op \in Ops)
      BY <1>1, OpIsACall DEF IInv, TypeOK
    <2>2. CASE Commit
      <3>1. op # None /\ op.at # "rollback" /\ rows' = draft /\ draft \in [Ids -> Values]
        BY <2>1, <2>2 DEF Commit, Committing, At, DataTyped
      <3>2. CASE op.at = "commit"
        <4>1. op.kind \in {"destroyMatching", "load", "reset", "migrate"}
          BY <2>1, <3>1, <3>2 DEF OpShape
        <4>2. CASE op.kind = "load"
          <5>1. op.todo = <<>>
            BY <2>1, <3>1, <3>2, <4>2 DEF TargetShape
          <5>2. Insertable(op.todo, draft)
            BY <5>1 DEF Insertable
          <5>3. AfterLoad(draft, <<>>) = op.target
            BY <2>1, <3>1, <4>2, <5>1, <5>2 DEF TargetShape
          <5>4. draft = op.target
            BY <3>1, <5>3, LoadEnds
          <5> QED  BY <3>1, <5>4
        <4>3. CASE op.kind # "load"
          BY <2>1, <3>1, <3>2, <4>1, <4>3 DEF TargetShape
        <4> QED  BY <4>2, <4>3
      <3>3. CASE op.at # "commit"
        <4>1. op.at = "ops" /\ op.todo = <<>> /\ op.kind \in {"batch", "batchJSON"}
          BY <2>1, <2>2, <3>3 DEF Commit, Committing, At, OpShape
        <4>2. AfterBatch(draft, <<>>) = op.target
          BY <2>1, <3>1, <4>1 DEF TargetShape
        <4>3. draft = op.target
          BY <3>1, <4>2, BatchEnds
        <4> QED  BY <3>1, <4>3
      <3> QED  BY <3>2, <3>3
    <2>3. CASE Vacuum
      <3>1. op # None /\ op.at = "vacuum" /\ rows' = Empty
        BY <2>3 DEF Vacuum, At
      <3>2. op.kind = "reset" /\ op.target = Empty
        BY <2>1, <3>1 DEF OpShape, TargetShape
      <3> QED  BY <3>1, <3>2
    <2>4. CASE \E id \in Ids : ExecuteMultiple(id)
      BY <2>4
    <2> USE DEF data
    <2>5. CASE Entered \/ (\E id \in Ids : FindCached(id)) \/ FitStatementCacheToSchema
      BY <1>1, <2>5 DEF Entered, FindCached, FitStatementCacheToSchema
    <2>6. CASE ReleaseMemory \/ Destroy
      BY <1>1, <2>6 DEF ReleaseMemory, Destroy
    <2>7. CASE Begin \/ Select \/ (\E id \in Ids : Row(id)) \/ LastRow \/ Mutate
      BY <1>1, <2>7 DEF Begin, Select, Row, LastRow, Mutate
    <2>8. CASE Update \/ HoldUpdate \/ UpdateHeld \/ Preamble \/ HoldInsert
      BY <1>1, <2>8 DEF Update, HoldUpdate, UpdateHeld, Preamble, HoldInsert
    <2>9. CASE InsertRecord \/ Postamble \/ Schema \/ SetUserVersion \/ Fit
      BY <1>1, <2>9 DEF InsertRecord, Postamble, Schema, SetUserVersion, Fit
    <2>10. CASE BeginFails \/ ReadFails \/ TryFails \/ ConstraintFails \/ Rollback
      BY <1>1, <2>10 DEF BeginFails, ReadFails, TryFails, ConstraintFails, Rollback
    <2>11. CASE UNCHANGED vars
      BY <1>1, <2>11 DEF vars
    <2> HIDE DEF Whole
    <2> QED
      BY <1>1, <2>1, <2>2, <2>3, <2>4, <2>5, <2>6, <2>7, <2>8, <2>9, <2>10, <2>11, CallsEnter
      DEF Next, JsStep, Whole
  <1>2. IInv /\ [Next]_vars => [rows' # rows => Whole]_vars
    BY <1>1
  <1> QED
    BY <1>2, Invariance, PTL DEF Spec, AllOrNothing
=============================================================================
