---------------------------- MODULE Observation ----------------------------
(***************************************************************************)
(* How observers of queries follow the database: SharedSubscribable around *)
(* subscribeToSimpleQuery, subscribeToQueryReloading or                    *)
(* subscribeToQueryWithColumns over either; Database.batch and its         *)
(* notifications; the driver, which answers within the call (native) or    *)
(* later and in order (wa-sqlite, Node).                                   *)
(*                                                                         *)
(* The value of a record tells whether it matches the queries, and the     *)
(* columns they observe.  A JavaScript task is one step, but for the await *)
(* of a batch and for the calls of the subscribers, which are one step     *)
(* each.                                                                   *)
(***************************************************************************)
EXTENDS Naturals, Sequences, SequencesExt

CONSTANTS
  Records, Queries, Consumers,
  None,         \* no row, no list, no query
  Kindings,     \* the functions from Queries to kinds of observation that occur
  OnceAllowed,  \* consumers may leave in the call that gives them a record (Rx first())
  MaxBatches, MaxSubscriptions, MaxFaults

Kinds == {"simple", "reloading", "simpleColumns", "reloadingColumns"}
Matching == {"a", "b"}
Values == {None, "out"} \cup Matching
Changes ==
  {[record |-> r, type |-> "created", value |-> v] : r \in Records, v \in {"out", "a"}}
  \cup {[record |-> r, type |-> "updated", value |-> v] : r \in Records, v \in {"out", "a", "b"}}
  \cup {[record |-> r, type |-> t, value |-> None] : r \in Records, t \in {"destroyed", "raw"}}

ASSUME KindsAssumption == Kindings \subseteq [Queries -> Kinds]
\* What consumers see: Models, whose observed columns they read then; `early`
\* are those that had a value not announced yet.
Sights == [list : SUBSET Records, values : UNION {[seen -> Values] : seen \in SUBSET Records},
           early : SUBSET Records]
Batches == [change : Changes, state : {"sent", "done", "failed"}]

ASSUME NoneAssumption ==
  /\ None \notin Queries \cup {"out", "a", "b"} /\ \A list \in SUBSET Records : None # list
  /\ None \notin Seq(Changes) /\ None \notin Batches /\ None \notin Sights

VARIABLES
  sync,      \* the driver answers within the call
  kind,      \* how each query is observed
  rows,      \* the committed rows
  batch,     \* the batch awaited: its change and state, or None
  notify,    \* the notification under way
  deferred,  \* _pendingNotificationChanges in a batching scope, or None
  sent,      \* requests the driver has not executed
  answers,   \* answers JavaScript has not handled
  js,        \* observers, subscribers, Models and what consumers saw
  spoiled,   \* records whose Model kept an update that failed
  batches, subscriptions, faults

work == <<batch, notify, deferred>>
channel == <<sent, answers>>
counters == <<batches, subscriptions, faults>>
vars == <<sync, kind, rows, work, channel, js, spoiled, counters>>

Silent == [phase |-> "none", changes |-> <<>>, next |-> 1, length |-> 0, todo |-> {}]

\* The state of a source that is not subscribed to; `age` tells its closures
\* apart.
Idle(age) ==
  [subs |-> {}, last |-> None, age |-> age, list |-> None, observed |-> {}, first |-> TRUE,
   states |-> [r \in Records |-> None], pending |-> FALSE, fetching |-> TRUE, missed |-> FALSE]

Init ==
  /\ sync \in BOOLEAN /\ kind \in Kindings
  /\ rows \in [Records -> {None, "a"}]
  /\ batch = None /\ notify = Silent /\ deferred = None
  /\ sent = <<>> /\ answers = <<>>
  /\ js = [obs |-> [q \in Queries |-> Idle(0)],
           db |-> <<>>, col |-> <<>>,          \* _subscribers of both kinds
           raw |-> rows,                       \* _raw of the Models in the cache
           at |-> [c \in Consumers |-> None],
           saw |-> [c \in Consumers |-> None],
           once |-> {},                        \* consumers that will leave
           inSource |-> "no",                  \* in _subscribeToSource, called from
           failing |-> FALSE, bad |-> FALSE]
  /\ spoiled = {} /\ batches = 0 /\ subscriptions = 0 /\ faults = 0

Result == {r \in Records : rows[r] \in Matching}
HasColumns(q) == kind[q] \in {"simpleColumns", "reloadingColumns"}
IsSimple(q) == kind[q] \in {"simple", "simpleColumns"}

-----------------------------------------------------------------------------
\* SharedSubscribable.

\* Whether a Model has a value that was not announced, and may never be.
Updates(changes, r) == \E i \in DOMAIN changes : changes[i].record = r /\ changes[i].type = "updated"
Unannounced(r) ==
  \/ r \in spoiled
  \/ batch # None /\ Updates(<<batch.change>>, r)
  \/ deferred # None /\ Updates(deferred, r)

Sight(w, q, list) ==
  LET seen == IF HasColumns(q) THEN list ELSE {} IN
  [list |-> list, values |-> [r \in seen |-> w.raw[r]], early |-> {r \in seen : Unannounced(r)}]

\* What a query's observers add to the lists of subscribers of the database and
\* of the collection, and take out again.
Source(q) == [query |-> q, part |-> "source"]
Columns(q) == [query |-> q, part |-> "columns"]
Others(entries, q) == RemoveFirst(RemoveFirst(entries, Source(q)), Columns(q))

\* Fault: the source stays subscribed.
StaysSubscribed(w, q) == [w EXCEPT !.obs[q] = [@ EXCEPT !.subs = {}, !.last = None]]
\* The last subscriber left.  While the source is being subscribed to from
\* invalidate(), there is no _unsubscribeSource to call yet.
Deactivated(w, q) ==
  IF w.inSource = "invalidate"
  THEN [w EXCEPT !.obs[q] = [@ EXCEPT !.subs = {}, !.last = None]]
  ELSE [w EXCEPT !.obs[q] = Idle(w.obs[q].age + 1),
                 !.db = Others(@, q), !.col = Others(@, q)]

Left(w, q, leavers) ==
  LET w1 == [w EXCEPT !.obs[q].subs = @ \ leavers, !.once = @ \ leavers,
                      !.at = [c \in Consumers |-> IF c \in leavers THEN None ELSE @[c]],
                      !.saw = [c \in Consumers |-> IF c \in leavers THEN None ELSE @[c]]]
  IN IF w1.obs[q].subs = {} THEN Deactivated(w1, q) ELSE w1

\* _notify; its invariant is that there is a subscriber.
Delivered(w, q, list) ==
  IF w.obs[q].subs = {} THEN [w EXCEPT !.bad = TRUE]
  ELSE LET subs == w.obs[q].subs
           w1 == [w EXCEPT !.obs[q].last = list,
                           !.saw = [c \in Consumers |->
                                      IF c \in subs THEN Sight(w, q, list) ELSE @[c]]]
           leavers == IF w.inSource = "subscribe" \/ list = {} THEN {} ELSE subs \cap w.once
       IN IF leavers = {} THEN w1 ELSE Left(w1, q, leavers)

-----------------------------------------------------------------------------
\* subscribeToQueryWithColumns.

\* Emitted with the next answer of the source.
ColumnsPending(w, q) == [w EXCEPT !.obs[q].pending = TRUE]

\* observeWithColumnsCollectionChanged
ColumnsChanged(w, q, changes) ==
  LET o == w.obs[q]
      changed == {r \in Records :
                    /\ Updates(changes, r)
                    /\ o.states[r] \notin {None, w.raw[r]}}
      w1 == [w EXCEPT !.obs[q].states = [r \in Records |-> IF r \in changed THEN w.raw[r] ELSE o.states[r]]]
  IN IF changed = {} THEN w
     ELSE IF o.fetching \/ IsSimple(q) THEN ColumnsPending(w1, q)
     ELSE Delivered(w1, q, o.observed)

\* Fault: the values of records that are not listed any more stay.
SourceChangedKeeping(w, q, list) ==
  LET o == w.obs[q]
      w1 == [w EXCEPT !.obs[q] =
               [@ EXCEPT !.fetching = FALSE, !.pending = FALSE, !.first = FALSE, !.observed = list,
                         !.states =
                         [r \in Records |-> IF r \notin list \/ r \in o.observed THEN o.states[r] ELSE w.raw[r]]]]
  IN IF o.first \/ o.pending \/ list # o.observed THEN Delivered(w1, q, list) ELSE w1
\* observeWithColumnsSourceChanged
SourceChanged(w, q, list) ==
  LET o == w.obs[q]
      w1 == [w EXCEPT !.obs[q] =
               [@ EXCEPT !.fetching = FALSE, !.pending = FALSE, !.first = FALSE, !.observed = list,
                         !.states =
                         [r \in Records |-> IF r \notin list THEN None
                                            ELSE IF r \in o.observed THEN o.states[r] ELSE w.raw[r]]]]
  IN IF o.first \/ o.pending \/ list # o.observed THEN Delivered(w1, q, list) ELSE w1

Emitted(w, q, list) == IF HasColumns(q) THEN SourceChanged(w, q, list) ELSE Delivered(w, q, list)

-----------------------------------------------------------------------------
\* subscribeToSimpleQuery and subscribeToQueryReloading.

\* processChangeSet: the last change about a record decides; the matcher looks
\* at the Model as it is now.
Processed(list, w, changes) ==
  {r \in Records :
     LET about == {i \in DOMAIN changes : changes[i].record = r} IN
     IF about = {} THEN r \in list
     ELSE /\ w.raw[r] \in Matching
          /\ \E i \in about : changes[i].type # "destroyed" /\ \A j \in about : j <= i}

\* observeQueryCollectionChanged; alwaysEmit is for columns.
CollectionChanged(w, q, changes) ==
  LET list == Processed(w.obs[q].list, w, changes) IN
  IF list # w.obs[q].list \/ HasColumns(q)
  THEN Emitted([w EXCEPT !.obs[q].list = list], q, list) ELSE w

\* observeQueryInitialEmission: the observer begins to listen after its first
\* emission, unless that made it unsubscribe.
FirstAnswer(w, q, list) ==
  LET w1 == Emitted([w EXCEPT !.obs[q] = [@ EXCEPT !.list = list, !.missed = FALSE]], q, list) IN
  IF w1.obs[q].age # w.obs[q].age THEN w1
  ELSE [w1 EXCEPT !.col = Append(@, Source(q))]

ReloadingAnswer(w, q, list) ==
  LET w1 == [w EXCEPT !.obs[q] = [@ EXCEPT !.list = list, !.missed = FALSE]] IN
  IF HasColumns(q) \/ list # w.obs[q].list THEN Emitted(w1, q, list) ELSE w1

\* A driver that answers at once tells the id of a record the batch has just
\* created, which is not in the cache: an error, like a query that fails.  It
\* is logged.
Answered(w, q, list, failed) ==
  IF failed \/ \E r \in list : w.raw[r] = None THEN [w EXCEPT !.obs[q].missed = TRUE]
  ELSE IF IsSimple(q) THEN FirstAnswer(w, q, list) ELSE ReloadingAnswer(w, q, list)

\* _fetchQuery; emits `false` for columns.
Fetches(w, q) ==
  LET w1 == IF IsSimple(q) THEN w ELSE [w EXCEPT !.obs[q].fetching = TRUE] IN
  IF sync THEN Answered(w1, q, Result, w.failing) ELSE w1
Asks(q, age) == IF sync THEN sent' = sent
                ELSE sent' = Append(sent, [do |-> "fetch", query |-> q, age |-> age])

\* Fault: a reloading observer listens only after it fetched.
StartedUnheard(w, q) ==
  LET w1 == IF HasColumns(q) THEN [w EXCEPT !.col = Append(@, Columns(q))] ELSE w IN
  Fetches(w1, q)
\* _subscribeToSource
Started(w, q) ==
  LET w1 == IF HasColumns(q) THEN [w EXCEPT !.col = Append(@, Columns(q))] ELSE w
      w2 == IF IsSimple(q) THEN w1 ELSE [w1 EXCEPT !.db = Append(@, Source(q))]
  IN Fetches(w2, q)

\* Other tasks run when no subscriber is being called; a driver that answers
\* within the call leaves no request behind.
Calm == notify.phase = "none" /\ (sync => sent = <<>>)

-----------------------------------------------------------------------------
\* A step of JavaScript that may fetch, at once or by a request.
Runs(Step(_), q, asks) ==
  /\ \E fails \in BOOLEAN :
       /\ fails => sync /\ asks /\ faults < MaxFaults
       /\ faults' = IF fails THEN faults + 1 ELSE faults
       /\ js' = [Step([js EXCEPT !.failing = fails]) EXCEPT !.failing = FALSE, !.inSource = "no"]
  /\ IF asks THEN Asks(q, js.obs[q].age) ELSE UNCHANGED sent

\* SharedSubscribable.subscribe
Subscribe(c, q, once) ==
  /\ Calm /\ js.at[c] = None /\ subscriptions < MaxSubscriptions
  /\ once => OnceAllowed
  /\ subscriptions' = subscriptions + 1
  /\ LET o == js.obs[q]
         Joined(w) ==
           LET w1 == [w EXCEPT !.obs[q].subs = @ \cup {c}, !.at[c] = q,
                               !.once = IF once THEN @ \cup {c} ELSE @,
                               !.saw[c] = IF o.last # None THEN Sight(w, q, o.last) ELSE None]
               w2 == IF o.subs = {} THEN Started([w1 EXCEPT !.inSource = "subscribe"], q) ELSE w1
           IN IF once /\ w2.saw[c] # None /\ w2.saw[c].list # {}
              THEN Left([w2 EXCEPT !.inSource = "no"], q, {c}) ELSE w2
     IN Runs(Joined, q, o.subs = {})
  /\ UNCHANGED <<sync, kind, rows, work, answers, spoiled, batches>>

Unsubscribe(c) ==
  /\ Calm /\ js.at[c] # None
  /\ js' = Left(js, js.at[c], {c})
  /\ UNCHANGED <<sync, kind, rows, work, channel, spoiled, counters>>

-----------------------------------------------------------------------------
\* Database.batch, and unsafeExecute followed by resetObservablesCache().
\* Observers tell records by their Models: one created again is another.
Possible(change) ==
  IF change.type = "created" THEN js.raw[change.record] = None ELSE rows[change.record] # None

Batch(change) ==
  /\ Calm /\ batch = None /\ batches < MaxBatches
  /\ Possible(change)
  /\ change.type = "raw" => deferred = None
  /\ batches' = batches + 1
  /\ batch' = [change |-> change, state |-> "sent"]
  /\ js' = IF change.type = "updated" THEN [js EXCEPT !.raw[change.record] = change.value] ELSE js
  /\ sent' = Append(sent, [do |-> "batch"])
  /\ UNCHANGED <<sync, kind, rows, notify, deferred, answers, spoiled, subscriptions, faults>>

\* The driver executes the first request.
Execute ==
  /\ sent # <<>>
  /\ sent' = Tail(sent)
  /\ LET request == Head(sent) IN
     IF request.do = "fetch"
     THEN /\ answers' = Append(answers, [do |-> "fetch", query |-> request.query,
                                         age |-> request.age, list |-> Result, failed |-> FALSE])
          /\ UNCHANGED <<rows, batch>>
     ELSE /\ rows' = [rows EXCEPT ![batch.change.record] = batch.change.value]
          /\ batch' = [batch EXCEPT !.state = "done"]
          /\ answers' = Append(answers, [do |-> "batch"])
  /\ UNCHANGED <<sync, kind, notify, deferred, js, spoiled, counters>>

ExecuteFails ==
  /\ sent # <<>> /\ faults < MaxFaults
  /\ faults' = faults + 1
  /\ sent' = Tail(sent)
  /\ LET request == Head(sent) IN
     IF request.do = "fetch"
     THEN /\ answers' = Append(answers, [do |-> "fetch", query |-> request.query,
                                         age |-> request.age, list |-> {}, failed |-> TRUE])
          /\ UNCHANGED <<batch, spoiled>>
     ELSE /\ batch' = [batch EXCEPT !.state = "failed"]
          /\ spoiled' = IF batch.change.type = "updated" THEN spoiled \cup {batch.change.record}
                        ELSE spoiled
          /\ answers' = Append(answers, [do |-> "batch"])
  /\ UNCHANGED <<sync, kind, rows, notify, deferred, js, batches, subscriptions>>

FetchAnswered ==
  /\ Calm /\ answers # <<>> /\ Head(answers).do = "fetch"
  /\ answers' = Tail(answers)
  /\ LET answer == Head(answers) q == answer.query IN
     js' = IF answer.age = js.obs[q].age THEN Answered(js, q, answer.list, answer.failed) ELSE js
  /\ UNCHANGED <<sync, kind, rows, work, sent, spoiled, counters>>

Notifies(changes) ==
  notify' = [Silent EXCEPT !.phase = "db", !.changes = changes, !.length = Len(js.db)]

\* After the await: _applyChangesToCache and _notify.
BatchAnswered ==
  /\ Calm /\ answers # <<>> /\ Head(answers).do = "batch"
  /\ answers' = Tail(answers)
  /\ batch' = None
  /\ js' = IF batch.state = "done" /\ batch.change.type = "created"
           THEN [js EXCEPT !.raw[batch.change.record] = batch.change.value] ELSE js
  /\ spoiled' = IF batch.state = "done" THEN spoiled \ {batch.change.record} ELSE spoiled
  /\ CASE batch.state = "failed" -> UNCHANGED <<notify, deferred>>
       [] batch.state = "done" /\ batch.change.type = "raw" ->
            /\ notify' = [Silent EXCEPT !.phase = "invalidate", !.todo = Queries]
            /\ UNCHANGED deferred
       [] batch.state = "done" /\ batch.change.type # "raw" /\ deferred # None ->
            deferred' = Append(deferred, batch.change) /\ UNCHANGED notify
       [] OTHER -> Notifies(<<batch.change>>) /\ UNCHANGED deferred
  /\ UNCHANGED <<sync, kind, rows, sent, counters>>

\* experimentalBatchNotifications
BeginBatching ==
  /\ Calm /\ batch = None /\ deferred = None
  /\ deferred' = <<>>
  /\ UNCHANGED <<sync, kind, rows, batch, notify, channel, js, spoiled, counters>>

EndBatching ==
  /\ Calm /\ batch = None /\ deferred # None
  /\ deferred' = None
  /\ IF deferred = <<>> THEN UNCHANGED notify ELSE Notifies(deferred)
  /\ UNCHANGED <<sync, kind, rows, batch, channel, js, spoiled, counters>>

Rings(phase, length) == notify' = [notify EXCEPT !.phase = phase, !.next = 1, !.length = length]

\* The lists of subscribers are iterated in place, up to the length they had.
Heard(list) == notify.next <= notify.length /\ notify.next <= Len(list)

\* Database._notifySubscribers: reloadingObserverFetch of each.
NotifyDatabase ==
  /\ notify.phase = "db"
  /\ IF Heard(js.db)
     THEN LET q == js.db[notify.next].query Refetched(w) == Fetches(w, q) IN
          /\ Runs(Refetched, q, TRUE)
          /\ notify' = [notify EXCEPT !.next = @ + 1]
     ELSE /\ Rings("collection", Len(js.col))
          /\ UNCHANGED <<js, sent, faults>>
  /\ UNCHANGED <<sync, kind, rows, batch, deferred, answers, spoiled, batches, subscriptions>>

\* Collection._notify
NotifyCollection ==
  /\ notify.phase = "collection"
  /\ IF Heard(js.col)
     THEN LET e == js.col[notify.next] IN
          /\ js' = IF e.part = "columns" THEN ColumnsChanged(js, e.query, notify.changes)
                   ELSE CollectionChanged(js, e.query, notify.changes)
          /\ notify' = [notify EXCEPT !.next = @ + 1]
     ELSE notify' = Silent /\ UNCHANGED js
  /\ UNCHANGED <<sync, kind, rows, batch, deferred, channel, spoiled, counters>>

\* SharedSubscribable.invalidate
Invalidated(w, q) ==
  LET subs == w.obs[q].subs
      w1 == [w EXCEPT !.obs[q] = [Idle(@.age + 1) EXCEPT !.subs = subs],
                      !.db = Others(@, q), !.col = Others(@, q), !.inSource = "invalidate"]
  IN Started(w1, q)

\* resetObservablesCache, one active query after the other.
ResetObservables ==
  /\ notify.phase = "invalidate"
  /\ \E q \in notify.todo :
       LET Reset(w) == Invalidated(w, q) IN
       /\ IF js.obs[q].subs = {} THEN UNCHANGED <<js, sent, faults>>
          ELSE /\ \E fails \in BOOLEAN :
                    /\ fails => sync /\ faults < MaxFaults
                    /\ faults' = IF fails THEN faults + 1 ELSE faults
                    /\ js' = [Reset([js EXCEPT !.failing = fails])
                                EXCEPT !.failing = FALSE, !.inSource = "no"]
               /\ Asks(q, js.obs[q].age + 1)
       /\ notify' = IF notify.todo = {q} THEN Silent ELSE [notify EXCEPT !.todo = @ \ {q}]
  /\ UNCHANGED <<sync, kind, rows, batch, deferred, answers, spoiled, batches, subscriptions>>

Next ==
  \/ \E c \in Consumers, q \in Queries, once \in BOOLEAN : Subscribe(c, q, once)
  \/ \E c \in Consumers : Unsubscribe(c)
  \/ \E change \in Changes : Batch(change)
  \/ BeginBatching \/ EndBatching
  \/ Execute \/ ExecuteFails \/ FetchAnswered \/ BatchAnswered
  \/ NotifyDatabase \/ NotifyCollection \/ ResetObservables

Spec == Init /\ [][Next]_vars

-----------------------------------------------------------------------------
Lists == (SUBSET Records) \cup {None}

\* Every variable has a value the code can give it; an observer of columns
\* remembers the values of just the records it listed last (recordStates).
TypeOK ==
  /\ sync \in BOOLEAN /\ kind \in [Queries -> Kinds]
  /\ rows \in [Records -> Values]
  /\ batch # None => batch.change \in Changes /\ batch.state \in {"sent", "done", "failed"}
  /\ \A q \in Queries :
       /\ js.obs[q].subs \subseteq Consumers
       /\ js.obs[q].last \in Lists /\ js.obs[q].list \in Lists
       /\ js.obs[q].observed = {r \in Records : js.obs[q].states[r] # None}
       /\ js.obs[q].states \in [Records -> Values]
  /\ js.at \in [Consumers -> Queries \cup {None}]
  /\ js.once \subseteq Consumers /\ spoiled \subseteq Records

Quiet == batch = None /\ notify.phase = "none" /\ deferred = None /\ sent = <<>> /\ answers = <<>>

\* When nothing is under way, every consumer was last given the records that
\* match, and has seen the values the observed columns have: whatever was
\* subscribed, committed, deferred or wiped by raw SQL meanwhile, and in
\* whichever order the answers came (subscribeToQuery, observeWithColumns).  A
\* query that failed is only logged; a failed update stays in its Model, where
\* matchers and columns find it; who joined in a batching scope may have seen a
\* value that its end brings back unannounced.
ConsumersAreCurrent ==
  Quiet =>
    \A c \in Consumers : \A q \in Queries :
      js.at[c] = q /\ ~js.obs[q].missed =>
        /\ js.saw[c] # None
        /\ js.saw[c].list \ spoiled = Result \ spoiled
        /\ HasColumns(q) =>
             \A r \in (Result \ spoiled) \ js.saw[c].early : js.saw[c].values[r] = rows[r]

\* The entries in the lists of subscribers are those of the queries somebody
\* observes, one for each part: none is left behind, none twice.
NoEntryLeaks ==
  /\ \A entries \in {js.db, js.col} : \A i, j \in DOMAIN entries :
       /\ js.obs[entries[i].query].subs # {}
       /\ entries[i] = entries[j] => i = j
  /\ \A i \in DOMAIN js.db, j \in DOMAIN js.col : js.db[i] # js.col[j]
  /\ \A q \in Queries : js.obs[q].subs = {c \in Consumers : js.at[c] = q}

\* "SharedSubscribable's source emitted a value after it was unsubscribed from"
\* (_notify) is never thrown.
NoEmissionAfterEnd == ~js.bad
=============================================================================
