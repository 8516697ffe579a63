----------------------------- MODULE RecordCache -----------------------------
(***************************************************************************)
(* The two caches of a table: Collection._cache (Collection/RecordCache),  *)
(* which holds the one Model of a record, and the set of record ids that   *)
(* the SQLite driver believes JavaScript holds.  For an id in that set the *)
(* driver answers a query with the bare id, and JavaScript has nothing to  *)
(* build a Model from if it does not hold one.                             *)
(*                                                                         *)
(* Calls reach the driver in the order they are made.  Over a worker or a  *)
(* bridge each answer is a macrotask of its own, so what awaits it runs    *)
(* before the next answer.  A synchronous driver (Nitro, Node) answers     *)
(* inside the call (AtOnce): a query's callback runs in the call, while    *)
(* the code after `await adapter.batch()` runs in a later microtask.       *)
(***************************************************************************)
EXTENDS Naturals, Sequences, FiniteSets

CONSTANTS
  Ids,         \* the ids of the records
  Nothing,     \* no row, no Model
  MaxVersion,  \* how many changes are made
  MaxCalls,    \* how many calls are on their way at a time
  AtOnce,      \* the driver answers inside the call
  MayFail,     \* a batch may fail and is then rolled back
  Others       \* another connection writes to the database (wa-sqlite tabs)

ASSUME NothingAssumption == Nothing \notin [at : Nat, deleted : BOOLEAN]
ASSUME BoundsAssumption == MaxVersion \in Nat /\ MaxCalls \in Nat
ASSUME BuildAssumption ==
  AtOnce \in BOOLEAN /\ MayFail \in BOOLEAN /\ Others \in BOOLEAN

VARIABLES
  rows,      \* the committed rows: the version written last, deleted or not
  sent,      \* DatabaseDriver.cachedRecords
  cache,     \* RecordCache.map: the _raw of the Model held, or Nothing
  calls,     \* adapter calls the driver has not begun
  answers,   \* answers JavaScript has not acted upon
  stale,     \* another connection committed; its message is not here yet
  reported,  \* ids "sent over the bridge, but not cached"
  apart,     \* ids whose row or Model changed without the other
  revived,   \* ids updated while a removal of theirs was on its way
  clock      \* versions given out

vars == <<rows, sent, cache, calls, answers, stale, reported, apart, revived, clock>>

Row == [at : 1..MaxVersion, deleted : BOOLEAN]
Kinds == {"create", "update", "markAsDeleted", "destroyPermanently"}

Init ==
  /\ rows = [id \in Ids |-> Nothing]
  /\ sent = {}
  /\ cache = [id \in Ids |-> Nothing]
  /\ calls = <<>>
  /\ answers = <<>>
  /\ stale = FALSE
  /\ reported = {}
  /\ apart = {}
  /\ revived = {}
  /\ clock = 0

-----------------------------------------------------------------------------
Cached == {id \in Ids : cache[id] # Nothing}
Live == {id \in Ids : rows[id] # Nothing /\ ~rows[id].deleted}
Traffic == {calls[i] : i \in 1..Len(calls)} \cup {answers[i] : i \in 1..Len(answers)}

\* Records of a batch that are of kind k.
Of(batch, k) == {id \in DOMAIN batch.kinds : batch.kinds[id] = k}
Removed(batch) == Of(batch, "markAsDeleted") \cup Of(batch, "destroyPermanently")

\* Records of prepared creates: not in the cache before their batch is applied.
Creating == UNION {Of(m, "create") : m \in {t \in Traffic : t.op = "batch"}}

\* A change of record id is on its way.
Changing(id) ==
  \E m \in Traffic :
    \/ m.op = "batch" /\ id \in DOMAIN m.kinds
    \/ m.op \in {"destroyMatching", "destroyed"} /\ id \in m.ids
    \/ m.op = "reset"

\* A removal of record id is on its way: of its Model, when it is answered.
Removing(id) ==
  \E m \in Traffic :
    \/ m.op = "batch" /\ id \in Removed(m)
    \/ m.op \in {"destroyMatching", "destroyed"} /\ id \in m.ids

Resetting == \E m \in Traffic : m.op = "reset"

\* JavaScript is not inside a call that answers at once, there is room for one
\* more call, and the adapter is not replaced by the ErrorAdapter of a reset.
CanCall ==
  /\ AtOnce => calls = <<>> /\ \A i \in 1..Len(answers) : answers[i].op # "rows"
  /\ Len(calls) + Len(answers) < MaxCalls
  /\ ~Resetting

Call(m) == calls' = Append(calls, m)

-----------------------------------------------------------------------------
\* Collection._fetchQuery for a query whose conditions only `ids` can match.
Fetch(ids) ==
  /\ CanCall
  /\ Call([op |-> "query", ids |-> ids])
  /\ UNCHANGED <<rows, sent, cache, answers, stale, reported, apart, revived, clock>>

\* Collection._fetchRecord of a record without a Model.
Find(id) ==
  /\ CanCall /\ id \notin Cached
  /\ Call([op |-> "find", ids |-> {id}])
  /\ UNCHANGED <<rows, sent, cache, answers, stale, reported, apart, revived, clock>>

\* Fault: the raws are taken before the change.
RawsBefore(kinds) ==
  [id \in {i \in DOMAIN kinds : kinds[i] \in {"create", "update"}} |->
     [at |-> clock, deleted |-> kinds[id] = "update" /\ cache[id].deleted]]
\* The raws a batch writes: new ones, and those of Models changed in memory.
Raws(kinds) ==
  [id \in {i \in DOMAIN kinds : kinds[i] \in {"create", "update"}} |->
     [at |-> clock + 1, deleted |-> kinds[id] = "update" /\ cache[id].deleted]]

\* prepareUpdate() and prepareMarkAsDeleted() change the Model at once.
Prepared(kinds) ==
  [id \in Ids |->
     IF id \notin DOMAIN kinds \/ kinds[id] = "create" THEN cache[id]
     ELSE IF kinds[id] = "update" THEN Raws(kinds)[id]
     ELSE [cache[id] EXCEPT !.deleted = TRUE]]

\* Database._performBatch up to its await of the adapter.
Batch(kinds) ==
  /\ CanCall /\ clock < MaxVersion
  /\ \A id \in DOMAIN kinds :
       /\ id \notin Creating
       /\ IF kinds[id] = "create" THEN id \notin Live ELSE id \in Cached
  /\ Call([op |-> "batch", kinds |-> kinds, raws |-> Raws(kinds)])
  /\ cache' = Prepared(kinds)
  /\ clock' = clock + 1
  /\ revived' = revived \cup {id \in DOMAIN kinds : kinds[id] = "update" /\ Removing(id)}
  /\ UNCHANGED <<rows, sent, answers, stale, reported, apart>>

\* Query.markAllAsDeleted() and destroyAllPermanently().
MassDestroy(ids, permanently) ==
  /\ CanCall
  /\ Call([op |-> "destroyMatching", ids |-> ids, permanently |-> permanently])
  /\ UNCHANGED <<rows, sent, cache, answers, stale, reported, apart, revived, clock>>

\* destroyDeletedRecords(): a sync forgets records marked as deleted.
DestroyDeleted(ids) ==
  /\ CanCall
  /\ \A id \in ids : rows[id] # Nothing /\ rows[id].deleted /\ ~Changing(id)
  /\ Call([op |-> "destroyDeleted", ids |-> ids])
  /\ UNCHANGED <<rows, sent, cache, answers, stale, reported, apart, revived, clock>>

Reset ==
  /\ CanCall
  /\ Call([op |-> "reset"])
  /\ UNCHANGED <<rows, sent, cache, answers, stale, reported, apart, revived, clock>>

-----------------------------------------------------------------------------
\* The driver begins and ends the first call; what it returns is queued.
Serving(op) == calls # <<>> /\ Head(calls).op = op
Answer(a) == answers' = Append(answers, a)

\* Bare ids for the records JavaScript is believed to hold, else whole rows.
RowsAnswer(ids) ==
  [op |-> "rows",
   bare |-> ids \cap sent,
   full |-> [id \in ids \ sent |-> rows[id]]]

ServeQuery ==
  /\ Serving("query")
  /\ LET found == Head(calls).ids \cap Live IN
       /\ Answer(RowsAnswer(found))
       /\ sent' = sent \cup found
  /\ calls' = Tail(calls)
  /\ UNCHANGED <<rows, cache, stale, reported, apart, revived, clock>>

\* find() looks at the row only if the id is not in its set, deleted or not.
ServeFind ==
  /\ Serving("find")
  /\ LET found == {id \in Head(calls).ids : id \in sent \/ rows[id] # Nothing} IN
       /\ Answer(RowsAnswer(found))
       /\ sent' = sent \cup found
  /\ calls' = Tail(calls)
  /\ UNCHANGED <<rows, cache, stale, reported, apart, revived, clock>>

\* The rows after a batch; an update of a missing row does nothing.
Written(b) ==
  [id \in Ids |->
     IF id \notin DOMAIN b.kinds THEN rows[id]
     ELSE IF b.kinds[id] = "create" THEN b.raws[id]
     ELSE IF b.kinds[id] = "destroyPermanently" \/ rows[id] = Nothing THEN Nothing
     ELSE IF b.kinds[id] = "update" THEN b.raws[id]
     ELSE [rows[id] EXCEPT !.deleted = TRUE]]

\* Fault: a batch does not take the records it destroys out of the set.
SentKeepsRemoved(b) == sent \cup Of(b, "create")
SentAfter(b) == (sent \cup Of(b, "create")) \ Removed(b)

\* One transaction: a created id that exists, or a failing disk, undoes it all.
ServeBatch ==
  /\ Serving("batch")
  /\ LET b == Head(calls)
         unique == \A id \in Of(b, "create") : rows[id] = Nothing
         outcome(ok) == [op |-> "batch", kinds |-> b.kinds, raws |-> b.raws, ok |-> ok]
     IN \E ok \in BOOLEAN :
          /\ ok => unique
          /\ ~ok => MayFail \/ ~unique
          /\ Answer(outcome(ok))
          /\ rows' = IF ok THEN Written(b) ELSE rows
          /\ sent' = IF ok THEN SentAfter(b) ELSE sent
          /\ apart' = IF ok THEN apart \ {id \in DOMAIN b.kinds : rows'[id] # Nothing}
                      ELSE apart \cup (DOMAIN b.kinds \ Of(b, "create"))
  /\ calls' = Tail(calls)
  /\ UNCHANGED <<cache, stale, reported, revived, clock>>

ServeDestroyMatching ==
  /\ Serving("destroyMatching")
  /\ LET m == Head(calls)
         found == m.ids \cap Live
     IN /\ Answer([op |-> "destroyed", ids |-> found])
        /\ rows' = [id \in Ids |->
                      IF id \notin found THEN rows[id]
                      ELSE IF m.permanently THEN Nothing
                      ELSE [rows[id] EXCEPT !.deleted = TRUE]]
        /\ sent' = sent \ found
  /\ calls' = Tail(calls)
  /\ UNCHANGED <<cache, stale, reported, apart, revived, clock>>

\* An operation that ignores the set of ids; nothing waits for its answer.
ServeDestroyDeleted ==
  /\ Serving("destroyDeleted")
  /\ rows' = [id \in Ids |-> IF id \in Head(calls).ids THEN Nothing ELSE rows[id]]
  /\ calls' = Tail(calls)
  /\ UNCHANGED <<sent, cache, answers, stale, reported, apart, revived, clock>>

ServeReset ==
  /\ Serving("reset")
  /\ Answer([op |-> "reset"])
  /\ rows' = [id \in Ids |-> Nothing]
  /\ sent' = {}
  /\ calls' = Tail(calls)
  /\ UNCHANGED <<cache, stale, reported, apart, revived, clock>>

-----------------------------------------------------------------------------
\* JavaScript acts upon the first answer; a synchronous driver's rows are used
\* inside the call, ahead of what awaits earlier answers.
Due(i) ==
  /\ i \in 1..Len(answers)
  /\ IF AtOnce /\ \E j \in 1..Len(answers) : answers[j].op = "rows"
     THEN answers[i].op = "rows"
     ELSE i = 1

Without(i) ==
  [j \in 1..(Len(answers) - 1) |-> IF j < i THEN answers[j] ELSE answers[j + 1]]

\* recordsFromQueryResult: a Model for each result in turn, until an id without
\* a Model throws; a row whose record has a Model is not looked at.
HandleRows(i) ==
  /\ Due(i) /\ answers[i].op = "rows"
  /\ LET a == answers[i]
         unknown == a.bare \ Cached
     IN /\ \E built \in SUBSET DOMAIN a.full :
             /\ unknown = {} => built = DOMAIN a.full
             /\ cache' = [id \in Ids |->
                  IF id \in built /\ cache[id] = Nothing THEN a.full[id] ELSE cache[id]]
        /\ reported' = reported \cup unknown
  /\ answers' = Without(i)
  /\ UNCHANGED <<rows, sent, calls, stale, apart, revived, clock>>

\* Fault: a created record is found in the cache only once it is fetched.
CacheForgetsCreated(b) ==
  [id \in Ids |-> IF id \in Removed(b) THEN Nothing ELSE cache[id]]
\* _applyChangesToCache, with the created records' own Models.
Applied(b) ==
  [id \in Ids |->
     IF id \in Of(b, "create") THEN b.raws[id]
     ELSE IF id \in Removed(b) THEN Nothing
     ELSE cache[id]]

\* The rest of _performBatch; after an error nothing is applied.
HandleBatch(i) ==
  /\ Due(i) /\ answers[i].op = "batch"
  /\ cache' = IF answers[i].ok THEN Applied(answers[i]) ELSE cache
  /\ answers' = Without(i)
  /\ UNCHANGED <<rows, sent, calls, stale, reported, apart, revived, clock>>

\* The rest of _performMassDestroy.
HandleDestroyed(i) ==
  /\ Due(i) /\ answers[i].op = "destroyed"
  /\ cache' = [id \in Ids |-> IF id \in answers[i].ids THEN Nothing ELSE cache[id]]
  /\ answers' = Without(i)
  /\ UNCHANGED <<rows, sent, calls, stale, reported, apart, revived, clock>>

\* Fault: the caches are not cleared after a reset.
CacheSurvivesReset == cache
ClearedCache == [id \in Ids |-> Nothing]

\* The rest of unsafeResetDatabase().
HandleReset(i) ==
  /\ Due(i) /\ answers[i].op = "reset"
  /\ cache' = ClearedCache
  /\ answers' = Without(i)
  /\ UNCHANGED <<rows, sent, calls, stale, reported, apart, revived, clock>>

-----------------------------------------------------------------------------
\* Another connection to the same database commits a change of a record, and
\* tells the other workers to clear their sets of ids.
OtherCommits(id) ==
  /\ Others /\ clock < MaxVersion
  /\ \E row \in {Nothing} \cup [at : {clock + 1}, deleted : BOOLEAN] :
       rows' = [rows EXCEPT ![id] = row]
  /\ apart' = apart \cup {id}
  /\ stale' = TRUE
  /\ clock' = clock + 1
  /\ UNCHANGED <<sent, cache, calls, answers, reported, revived>>

\* The BroadcastChannel's message: clearCachedRecords().
Invalidate ==
  /\ stale
  /\ stale' = FALSE
  /\ sent' = {}
  /\ UNCHANGED <<rows, cache, calls, answers, reported, apart, revived, clock>>

Next ==
  \/ \E ids \in SUBSET Ids \ {{}} : Fetch(ids)
  \/ \E id \in Ids : Find(id)
  \/ \E ids \in SUBSET Ids \ {{}} : \E kinds \in [ids -> Kinds] : Batch(kinds)
  \/ \E ids \in SUBSET Ids \ {{}}, permanently \in BOOLEAN : MassDestroy(ids, permanently)
  \/ \E ids \in SUBSET Ids \ {{}} : DestroyDeleted(ids)
  \/ Reset
  \/ ServeQuery
  \/ ServeFind
  \/ ServeBatch
  \/ ServeDestroyMatching
  \/ ServeDestroyDeleted
  \/ ServeReset
  \/ \E i \in 1..Len(answers) : HandleRows(i)
  \/ \E i \in 1..Len(answers) : HandleBatch(i)
  \/ \E i \in 1..Len(answers) : HandleDestroyed(i)
  \/ \E i \in 1..Len(answers) : HandleReset(i)
  \/ \E id \in Ids : OtherCommits(id)
  \/ Invalidate

Spec == Init /\ [][Next]_vars
-----------------------------------------------------------------------------
\* Calls and answers; a batch carries the raws of what it creates and updates.
Partial(S) == UNION {[D -> S] : D \in SUBSET Ids}
CarriesRaws(m) ==
  m.op = "batch" =>
    DOMAIN m.raws = {id \in DOMAIN m.kinds : m.kinds[id] \in {"create", "update"}}
Calls ==
  [op : {"query", "find", "destroyDeleted"}, ids : SUBSET Ids]
  \cup [op : {"batch"}, kinds : Partial(Kinds), raws : Partial(Row)]
  \cup [op : {"destroyMatching"}, ids : SUBSET Ids, permanently : BOOLEAN]
  \cup [op : {"reset"}]
Answers ==
  [op : {"rows"}, bare : SUBSET Ids, full : Partial(Row)]
  \cup [op : {"batch"}, kinds : Partial(Kinds), raws : Partial(Row), ok : BOOLEAN]
  \cup [op : {"destroyed"}, ids : SUBSET Ids]
  \cup [op : {"reset"}]

(* The rows, the two caches and what is on its way keep their types: rows  *)
(* are answered only for records that have one.                            *)
TypeOK ==
  /\ rows \in [Ids -> Row \cup {Nothing}]
  /\ cache \in [Ids -> Row \cup {Nothing}]
  /\ sent \subseteq Ids
  /\ reported \subseteq Ids
  /\ apart \subseteq Ids /\ revived \subseteq Ids
  /\ stale \in BOOLEAN
  /\ clock \in 0..MaxVersion
  /\ calls \in Seq(Calls) /\ answers \in Seq(Answers)
  /\ \A i \in 1..Len(calls) : CarriesRaws(calls[i])
  /\ \A i \in 1..Len(answers) : CarriesRaws(answers[i])

(* No id is answered for which JavaScript has no Model: the error of       *)
(* _cachedModelForId is never thrown.                                      *)
NothingMissing == reported = {}

\* Record id has a Model once the first n answers are acted upon.
Grants(a, id) ==
  \/ a.op = "rows" /\ id \in DOMAIN a.full
  \/ a.op = "batch" /\ a.ok /\ id \in Of(a, "create")
Revokes(a, id) ==
  \/ a.op = "batch" /\ a.ok /\ id \in Removed(a)
  \/ a.op = "destroyed" /\ id \in a.ids
  \/ a.op = "reset"
HeldAfter(n, id) ==
  \/ /\ cache[id] # Nothing
     /\ \A i \in 1..n : ~Revokes(answers[i], id)
  \/ \E i \in 1..n :
       /\ Grants(answers[i], id)
       /\ \A j \in (i + 1)..n : ~Revokes(answers[j], id)

(* The driver's set is covered: every id it would now send bare, and every *)
(* id already sent bare, will have a Model when that answer is acted upon, *)
(* whatever batches, destroys and resets are on their way.                 *)
SentIsCovered ==
  ~AtOnce =>
    /\ \A id \in sent : HeldAfter(Len(answers), id)
    /\ \A j \in 1..Len(answers) :
         answers[j].op = "rows" => \A id \in answers[j].bare : HeldAfter(j - 1, id)

(* With nothing on its way for a record, its Model shows the committed row *)
(* -- unless a batch of it failed, another connection wrote it or it was   *)
(* updated behind a removal -- or is the Model of a record marked as       *)
(* deleted (RecordCache, Database._performBatch).                          *)
ModelsAreCurrent ==
  \A id \in Cached :
    ~Changing(id) /\ id \notin apart \cup revived => cache[id] = rows[id] \/ cache[id].deleted
=============================================================================
