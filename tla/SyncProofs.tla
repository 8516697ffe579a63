----------------------------- MODULE SyncProofs -----------------------------
(***************************************************************************)
(* Theorems about Sync when synchronize() is not called while a call of it *)
(* is under way, for any records, columns, edits and faults.               *)
(***************************************************************************)
EXTENDS Sync, TLAPS

OneCall == \A s, t \in Syncs : s = t

Applying == {"batching", "stamping"}
BeforePush == {"idle", "pulling", "pulled", "batching", "stamping", "ready"}
AfterPush == {"answering", "marking", "forgetting"}

\* Resets are counted as faults when they begin; a writer of a sync keeps a
\* reset out.  No time is ahead of the server's.
BaseShape ==
  /\ resetCount <= faults /\ (resetting => resetCount < faults)
  /\ \A s \in Syncs :
       /\ syncs[s].phase \in Applying \cup {"forgetting"} => ~resetting
       /\ syncs[s].since <= now /\ syncs[s].stamp <= now

\* A record that is not new is known to the server; a deleted one has nothing
\* to push but the deletion.
LocalShape ==
  \A id \in Ids : local[id] # Nothing =>
    /\ local[id].status \in {"updated", "synced"} => server[id] # Nothing
    /\ local[id].status = "deleted" => \A c \in Columns : mine[id][c] = 0

\* EditsKept, for a column.
Kept(id, c) ==
  \/ mine[id][c] = 0
  \/ mine[id][c] \in received
  \/ server[id] # Nothing /\ server[id].deleted
  \/ Pending(id, c)
EditShape == \A id \in Ids : \A c \in Columns : Kept(id, c)

\* Current, for a record and up to a time.
CurrentAt(id, time) ==
  server[id] # Nothing /\ server[id].at <= time =>
    IF server[id].deleted THEN local[id] = Nothing
    ELSE /\ local[id] # Nothing
         /\ Live(id) => \A c \in Columns \ local[id].changed :
                          local[id].value[c] = server[id].value[c]
CurrentUpTo(time) == \A id \in Ids : CurrentAt(id, time)

\* When a pull was asked for and answered.
TimeShape(w) ==
  /\ w.phase \in {"pulled", "batching", "stamping"} => w.since <= w.stamp
  /\ w.phase \in Applying => w.since = lastPulledAt

\* What an answer to a pull says of the server, and of the local database,
\* until it is applied.  What it lists as created changed after since, so that
\* the next pull brings it again if its re-creation is not committed.
PulledFrom(id, pull, since, stamp) ==
  /\ id \in DOMAIN pull.rows =>
       /\ server[id] # Nothing
       /\ server[id].at <= stamp => ~server[id].deleted /\ server[id].value = pull.rows[id]
       /\ id \in removed => local[id] # Nothing
  /\ id \in pull.deleted =>
       server[id] # Nothing /\ server[id].deleted /\ id \notin DOMAIN pull.rows
  /\ id \in pull.created => server[id] # Nothing /\ server[id].at > since
  /\ server[id] # Nothing /\ server[id].at <= stamp =>
       IF server[id].deleted THEN server[id].at > since => id \in pull.deleted
       ELSE server[id].at > since \/ pull.replacement => id \in DOMAIN pull.rows
  /\ pull.replacement /\ id \notin DOMAIN pull.rows /\ local[id] # Nothing => ~LiveOnServer(id)
PullShape(w) ==
  w.phase \in {"pulled", "batching"} => \A id \in Ids : PulledFrom(id, w.pull, w.since, w.stamp)

\* destroyAllDeletedRecords has removed what it should; after the batch the
\* database is as current as the pull.
ApplyShape(w) ==
  /\ w.phase = "batching" => Forgotten(w.pull) = {}
  /\ w.phase = "stamping" => CurrentUpTo(w.stamp)

\* What is pushed, before and after the server has it.
Unaccepted(id, push) ==
  /\ push.raws[id].status # "deleted"
  /\ id \in removed => local[id] # Nothing
Accepted(id, push) ==
  /\ push.raws[id].status # "deleted"
  /\ server[id] # Nothing /\ server[id].at > lastPulledAt
  /\ \A c \in Columns : push.raws[id].value[c] \in received
DeletionPushed(id, push) ==
  /\ id \notin DOMAIN push.raws
  /\ local[id] = Nothing \/ local[id].status = "deleted"
  /\ \A c \in Columns : mine[id][c] = 0
PushShape(w) ==
  /\ w.phase \in BeforePush => w.push = NoPush
  /\ \A id \in w.push.deleted : DeletionPushed(id, w.push)
  /\ w.phase = "pushing" => \A id \in DOMAIN w.push.raws : Unaccepted(id, w.push)
  /\ w.phase \in AfterPush =>
       /\ \A id \in DOMAIN w.push.raws \ w.push.rejected : Accepted(id, w.push)
       /\ \A id \in w.push.deleted \ w.push.rejected : ~LiveOnServer(id)

CallShape(w) == TimeShape(w) /\ PullShape(w) /\ ApplyShape(w) /\ PushShape(w)

Base == TypeOK /\ BaseShape
Data == LocalShape /\ EditShape /\ DeletionsKept /\ CurrentUpTo(lastPulledAt)
IInv == Base /\ Data /\ \A s \in Syncs : CallShape(syncs[s])

-----------------------------------------------------------------------------
\* A call of synchronize() in full.
Record(p, r, since, stamp, pull, push) ==
  [phase |-> p, resets |-> r, since |-> since, stamp |-> stamp, pull |-> pull, push |-> push]
Becomes(s, w) == syncs' = [syncs EXCEPT ![s] = w]

\* A row and a raw are something, with columns.
LEMMA Something ==
  /\ \A raw \in Raw : /\ raw # Nothing /\ raw.status \in Statuses
                      /\ raw.changed \subseteq Columns /\ raw.value \in Value
  /\ \A row \in Row : /\ row # Nothing /\ row.at \in Nat /\ row.born \in Nat
                      /\ row.deleted \in BOOLEAN /\ row.value \in Value
BY NothingAssumption DEF Raw, Row

\* What the steps of a call make of it.
LEMMA CallEffects ==
  ASSUME TypeOK, NEW s \in Syncs
  PROVE  LET w == syncs[s] IN
         /\ w \in Calls
         /\ \A v \in Calls : Becomes(s, v) =>
              syncs' \in [Syncs -> Calls] /\ syncs'[s] = v /\ \A t \in Syncs \ {s} : syncs'[t] = syncs[t]
         /\ \A p : GoTo(s, p) => Becomes(s, Record(p, w.resets, w.since, w.stamp, w.pull, w.push))
         /\ End(s) => Becomes(s, Record("idle", 0, 0, 0, NoPull, NoPush))
         /\ Start(s) =>
              Becomes(s, Record("pulling", resetCount, lastPulledAt, w.stamp, w.pull, w.push))
         /\ ServerPulls(s) => \E answer \in Answers(w.since) :
              Becomes(s, Record("pulled", w.resets, w.since, now, answer, w.push))
         /\ Stamp(s) => Becomes(s, Record("ready", w.resets, w.since, w.stamp, NoPull, w.push))
         /\ FetchLocal(s) => \/ End(s)
                             \/ Becomes(s, Record("pushing", w.resets, w.since, w.stamp, w.pull, LocalChanges))
PROOF
  <1> DEFINE w == syncs[s]
  <1>1. syncs \in [Syncs -> Calls] /\ w \in Calls
    BY DEF TypeOK
  <1>2. w = Record(w.phase, w.resets, w.since, w.stamp, w.pull, w.push)
    BY <1>1 DEF Calls, Record
  <1>3. \A v \in Calls : Becomes(s, v) =>
          syncs' \in [Syncs -> Calls] /\ syncs'[s] = v /\ \A t \in Syncs \ {s} : syncs'[t] = syncs[t]
    BY <1>1 DEF Becomes
  <1>4. \A p : GoTo(s, p) => Becomes(s, Record(p, w.resets, w.since, w.stamp, w.pull, w.push))
    BY <1>1, <1>2 DEF GoTo, Becomes, Record, Calls
  <1>5. End(s) => Becomes(s, Record("idle", 0, 0, 0, NoPull, NoPush))
    BY DEF End, Becomes, Record, Idle
  <1>6. Start(s) => Becomes(s, Record("pulling", resetCount, lastPulledAt, w.stamp, w.pull, w.push))
    BY <1>1, <1>2 DEF Start, Becomes, Record, Calls
  <1>7. ServerPulls(s) => \E answer \in Answers(w.since) :
          Becomes(s, Record("pulled", w.resets, w.since, now, answer, w.push))
    <2> SUFFICES ASSUME ServerPulls(s)
                 PROVE  \E answer \in Answers(w.since) :
                          Becomes(s, Record("pulled", w.resets, w.since, now, answer, w.push))
      OBVIOUS
    <2>1. PICK answer \in Answers(w.since) :
            syncs' = [syncs EXCEPT ![s].phase = "pulled", ![s].stamp = now, ![s].pull = answer]
      BY DEF ServerPulls
    <2>2. Becomes(s, Record("pulled", w.resets, w.since, now, answer, w.push))
      <3> DEFINE w1 == [w EXCEPT !.phase = "pulled"]
                 w2 == [w1 EXCEPT !.stamp = now]
                 w3 == [w2 EXCEPT !.pull = answer]
      <3>1. w1 = Record("pulled", w.resets, w.since, w.stamp, w.pull, w.push)
        BY <1>1, <1>2 DEF Record, Calls
      <3>2. syncs' = [syncs EXCEPT ![s] = w3]
        BY <2>1
      <3> HIDE DEF w1
      <3>3. w2 = Record("pulled", w.resets, w.since, now, w.pull, w.push)
        BY <3>1 DEF Record
      <3> HIDE DEF w2
      <3>4. w3 = Record("pulled", w.resets, w.since, now, answer, w.push)
        BY <3>3 DEF Record
      <3> QED  BY <3>2, <3>4 DEF Becomes
    <2> QED  BY <2>2
  <1>8. Stamp(s) => Becomes(s, Record("ready", w.resets, w.since, w.stamp, NoPull, w.push))
    BY <1>1, <1>2 DEF Stamp, Becomes, Record, Calls
  <1>9. FetchLocal(s) => \/ End(s)
                         \/ Becomes(s, Record("pushing", w.resets, w.since, w.stamp, w.pull, LocalChanges))
    BY <1>1, <1>2 DEF FetchLocal, Becomes, Record, Calls
  <1> QED  BY <1>1, <1>3, <1>4, <1>5, <1>6, <1>7, <1>8, <1>9

\* What they carry has its type.
LEMMA CarriedTyped ==
  ASSUME TypeOK
  PROVE  /\ NoPull \in Pulls /\ NoPush \in Pushes
         /\ \A since : \A answer \in Answers(since) : answer \in Pulls
         /\ LocalChanges \in Pushes
         /\ \A pull \in Pulls : /\ DOMAIN pull.rows \subseteq Ids
                                /\ \A id \in DOMAIN pull.rows : pull.rows[id] \in Value
                                /\ pull.created \subseteq Ids /\ pull.deleted \subseteq Ids
         /\ \A push \in Pushes : /\ DOMAIN push.raws \subseteq Ids
                                 /\ \A id \in DOMAIN push.raws : push.raws[id] \in Raw
                                 /\ push.deleted \subseteq Ids
         /\ \A p \in Phases, r \in 0..MaxFaults, since \in Nat, stamp \in Nat, pull \in Pulls, push \in Pushes :
              Record(p, r, since, stamp, pull, push) \in Calls
PROOF
  <1>1. \A S : <<>> \in Partial(S)
    BY DEF Partial
  <1>2. NoPull \in Pulls /\ NoPush \in Pushes
    BY <1>1 DEF NoPull, NoPush, Pulls, Pushes
  <1>3. \A S : \A D \in SUBSET Ids : \A f \in [D -> S] : f \in Partial(S)
    BY DEF Partial
  <1>4. \A S : \A f \in Partial(S) : DOMAIN f \subseteq Ids /\ \A id \in DOMAIN f : f[id] \in S
    BY DEF Partial
  <1>5. ASSUME NEW since, NEW answer \in Answers(since)
        PROVE  answer \in Pulls
    <2> DEFINE changed == {id \in Ids : server[id] # Nothing /\ server[id].at > since}
               whole == {id \in Ids : LiveOnServer(id)}
    <2>1. \A ids \in SUBSET whole : [id \in ids |-> server[id].value] \in Partial(Value)
      <3>1. ASSUME NEW ids \in SUBSET whole
            PROVE  [id \in ids |-> server[id].value] \in [ids -> Value]
        BY Something DEF LiveOnServer, TypeOK
      <3> QED  BY <1>3, <3>1
    <2>2. PICK ids \in SUBSET whole, created \in SUBSET Ids, replacement \in BOOLEAN :
            answer = [rows |-> [id \in ids |-> server[id].value], created |-> created,
                      deleted |-> changed \ whole, replacement |-> replacement]
      BY <1>5 DEF Answers
    <2>3. changed \ whole \in SUBSET Ids
      OBVIOUS
    <2> HIDE DEF changed, whole
    <2> QED  BY <2>1, <2>2, <2>3 DEF Pulls
  <1>6. LocalChanges \in Pushes
    <2>1. [id \in Unsynced \ LocallyDeleted |-> local[id]] \in [Unsynced \ LocallyDeleted -> Raw]
      BY DEF Unsynced, TypeOK
    <2>2. [id \in Unsynced \ LocallyDeleted |-> local[id]] \in Partial(Raw)
      BY <1>3, <2>1 DEF Unsynced
    <2> QED  BY <2>2 DEF LocalChanges, Pushes, LocallyDeleted
  <1>7. \A p \in Phases, r \in 0..MaxFaults, since \in Nat, stamp \in Nat, pull \in Pulls, push \in Pushes :
          Record(p, r, since, stamp, pull, push) \in Calls
    BY DEF Record, Calls
  <1>8. \A pull \in Pulls : /\ pull.rows \in Partial(Value)
                            /\ pull.created \subseteq Ids /\ pull.deleted \subseteq Ids
    BY DEF Pulls
  <1>9. \A push \in Pushes : push.raws \in Partial(Raw) /\ push.deleted \subseteq Ids
    BY DEF Pushes
  <1> QED  BY <1>2, <1>4, <1>5, <1>6, <1>7, <1>8, <1>9

\* What an accepting server makes of the call.
LEMMA AcceptEffect ==
  ASSUME TypeOK, NEW s \in Syncs, NEW rejected \in SUBSET Ids,
         syncs' = [syncs EXCEPT ![s].phase = "answering", ![s].push.rejected = rejected]
  PROVE  LET w == syncs[s]
             push == [raws |-> w.push.raws, deleted |-> w.push.deleted, rejected |-> rejected]
         IN /\ Becomes(s, Record("answering", w.resets, w.since, w.stamp, w.pull, push))
            /\ push \in Pushes
PROOF
  <1> DEFINE w == syncs[s]
             push == [raws |-> w.push.raws, deleted |-> w.push.deleted, rejected |-> rejected]
             w1 == [w EXCEPT !.phase = "answering"]
             w2 == [w1 EXCEPT !.push = push]
  <1>1. syncs \in [Syncs -> Calls] /\ w \in Calls /\ w.push \in Pushes
    BY DEF TypeOK, Calls
  <1>2. w = Record(w.phase, w.resets, w.since, w.stamp, w.pull, w.push)
    BY <1>1 DEF Calls, Record
  <1>3. push \in Pushes /\ [w.push EXCEPT !.rejected = rejected] = push
    BY <1>1 DEF Pushes
  <1>4. w1 = Record("answering", w.resets, w.since, w.stamp, w.pull, w.push) /\ w1.push = w.push
    BY <1>1, <1>2 DEF Record, Calls
  <1>5. syncs' = [syncs EXCEPT ![s] = [w1 EXCEPT !.push = [w1.push EXCEPT !.rejected = rejected]]]
    OBVIOUS
  <1> HIDE DEF w1, push
  <1>6. syncs' = [syncs EXCEPT ![s] = w2]
    BY <1>3, <1>4, <1>5
  <1>7. w2 = Record("answering", w.resets, w.since, w.stamp, w.pull, push)
    BY <1>4 DEF Record
  <1> QED  BY <1>3, <1>6, <1>7 DEF Becomes, push

-----------------------------------------------------------------------------
LocalTyped(records) ==
  /\ records \in [Ids -> Raw \cup {Nothing}]
  /\ \A id \in Ids : records[id] # Nothing /\ records[id].status = "synced" => records[id].changed = {}
ServerTyped(records, time) ==
  /\ records \in [Ids -> Row \cup {Nothing}]
  /\ \A id \in Ids : records[id] # Nothing => records[id].at \in 2..time
CallsTyped(calls, time, reset) ==
  /\ calls \in [Syncs -> Calls]
  /\ \A s \in Syncs :
       /\ calls[s].phase \in Applying \cup {"forgetting"} => ~reset
       /\ calls[s].since <= time /\ calls[s].stamp <= time
HistoryTyped ==
  /\ edits \in 0..MaxEdits
  /\ mine \in [Ids -> Value]
  /\ received \subseteq 0..MaxEdits
  /\ removed \subseteq Ids
ClocksTyped ==
  /\ now \in Nat \ {0} /\ lastPulledAt \in 0..now
  /\ resetting \in BOOLEAN
  /\ resetCount \in Nat /\ faults \in 0..MaxFaults
  /\ resetCount <= faults /\ (resetting => resetCount < faults)

\* Base in parts, now and after a step.
LEMMA BaseParts ==
  /\ Base => /\ LocalTyped(local) /\ ServerTyped(server, now) /\ CallsTyped(syncs, now, resetting)
             /\ HistoryTyped /\ ClocksTyped
  /\ LocalTyped(local') /\ ServerTyped(server', now') /\ CallsTyped(syncs', now', resetting')
     /\ HistoryTyped' /\ ClocksTyped' => Base'
PROOF
  <1>1. Base => /\ LocalTyped(local) /\ ServerTyped(server, now) /\ CallsTyped(syncs, now, resetting)
                /\ HistoryTyped /\ ClocksTyped
    BY BoundsAssumption DEF Base, TypeOK, BaseShape, LocalTyped, ServerTyped, CallsTyped, HistoryTyped, ClocksTyped
  <1>2. ASSUME LocalTyped(local'), ServerTyped(server', now'), CallsTyped(syncs', now', resetting'),
               HistoryTyped', ClocksTyped'
        PROVE  Base'
    <2>1. resetCount' \in 0..MaxFaults
      <3>1. resetCount' \in Nat /\ resetCount' <= faults' /\ faults' \in 0..MaxFaults
        BY <1>2 DEF ClocksTyped
      <3> QED  BY <3>1, BoundsAssumption
    <2> QED  BY <1>2, <2>1 DEF Base, TypeOK, BaseShape, LocalTyped, ServerTyped, CallsTyped, HistoryTyped, ClocksTyped
  <1> QED  BY <1>1, <1>2

\* A step of one call.
LEMMA OneCallTyped ==
  ASSUME TypeOK, CallsTyped(syncs, now, resetting), NEW s \in Syncs, NEW v \in Calls, Becomes(s, v),
         NEW time \in Nat, now <= time, now \in Nat, v.since <= time, v.stamp <= time,
         v.phase \in Applying \cup {"forgetting"} => ~resetting
  PROVE  CallsTyped(syncs', time, resetting)
PROOF
  <1>1. syncs' \in [Syncs -> Calls] /\ syncs'[s] = v /\ \A t \in Syncs \ {s} : syncs'[t] = syncs[t]
    BY CallEffects
  <1>2. \A t \in Syncs : syncs[t].since \in Nat /\ syncs[t].stamp \in Nat
    BY DEF TypeOK, Calls
  <1> QED  BY <1>1, <1>2 DEF CallsTyped

\* What the steps make of the local database has its type.
LEMMA LocalStep ==
  ASSUME Base
  PROVE  /\ \A id \in Ids, columns \in Drafts : Create(id, columns) => LocalTyped(local') /\ HistoryTyped'
         /\ \A id \in Ids, c \in Columns : Update(id, c) => LocalTyped(local') /\ HistoryTyped'
         /\ \A id \in Ids : MarkAsDeleted(id) => LocalTyped(local') /\ HistoryTyped'
         /\ \A s \in Syncs : StartApply(s) \/ Recreate(s) \/ Batch(s) \/ Mark(s) \/ Forget(s) =>
              LocalTyped(local')
PROOF
  <1>1. LocalTyped(local) /\ HistoryTyped /\ TypeOK /\ MaxEdits \in Nat
    BY BaseParts, BoundsAssumption DEF Base
  <1>2. local \in [Ids -> Raw \cup {Nothing}]
        /\ \A id \in Ids : local[id] # Nothing => local[id] \in Raw
    BY <1>1 DEF LocalTyped
  <1>3. \A id \in Ids : Live(id) => local[id] \in Raw
    BY <1>2 DEF Live
  <1>4. \A s \in Syncs : syncs[s].pull \in Pulls /\ syncs[s].push \in Pushes
    BY <1>1 DEF TypeOK, Calls
  <1>5. ASSUME NEW id \in Ids, NEW columns \in SUBSET Columns, Edit(id, columns)
        PROVE  edits' \in 0..MaxEdits /\ mine' \in [Ids -> Value]
               /\ UNCHANGED <<received, removed>>
    <2>1. edits' = edits + 1 /\ edits' \in 0..MaxEdits
      BY <1>1, <1>5 DEF Edit, HistoryTyped
    <2>2. [c \in Columns |-> IF c \in columns THEN edits' ELSE mine[id][c]] \in Value
      BY <1>1, <2>1 DEF HistoryTyped, Value
    <2>3. mine' = [mine EXCEPT ![id] = [c \in Columns |-> IF c \in columns THEN edits' ELSE mine[id][c]]]
      BY <1>5 DEF Edit
    <2> QED  BY <1>1, <1>5, <2>1, <2>2, <2>3 DEF HistoryTyped, Edit
  <1>6. ASSUME NEW id \in Ids, NEW columns \in Drafts, Create(id, columns)
        PROVE  LocalTyped(local') /\ HistoryTyped'
    <2>1. columns \subseteq Columns
      BY DraftsAssumption
    <2>2. edits' \in 0..MaxEdits /\ mine' \in [Ids -> Value] /\ UNCHANGED <<received, removed>>
      BY <1>5, <1>6, <2>1 DEF Create
    <2> DEFINE new == [status |-> "created", changed |-> columns,
                       value |-> [c \in Columns |-> IF c \in columns THEN edits' ELSE 0]]
    <2>3. new \in Raw
      BY <1>1, <2>1, <2>2 DEF Raw, Statuses, Value
    <2>4. local' = [local EXCEPT ![id] = new] /\ new.status # "synced"
      BY <1>6 DEF Create
    <2> HIDE DEF new
    <2>5. LocalTyped(local')
      BY <1>1, <2>3, <2>4 DEF LocalTyped
    <2> QED  BY <1>1, <2>2, <2>5 DEF HistoryTyped
  <1>7. ASSUME NEW id \in Ids, NEW c \in Columns, Update(id, c)
        PROVE  LocalTyped(local') /\ HistoryTyped'
    <2>1. edits' \in 0..MaxEdits /\ mine' \in [Ids -> Value] /\ UNCHANGED <<received, removed>>
      BY <1>5, <1>7 DEF Update
    <2> DEFINE new == [status |-> IF local[id].status = "created" THEN "created" ELSE "updated",
                       changed |-> local[id].changed \cup {c},
                       value |-> [local[id].value EXCEPT ![c] = edits']]
    <2>2. local' = [local EXCEPT ![id] = new] /\ new.status # "synced"
      BY <1>7 DEF Update
    <2>3. new \in Raw
      <3>1. local[id].value \in Value /\ local[id].changed \subseteq Columns
        BY <1>3, <1>7, Something DEF Update
      <3>2. [local[id].value EXCEPT ![c] = edits'] \in Value
        BY <2>1, <3>1 DEF Value
      <3> QED  BY <3>1, <3>2 DEF Raw, Statuses
    <2> HIDE DEF new
    <2>4. LocalTyped(local')
      BY <1>1, <2>2, <2>3 DEF LocalTyped
    <2> QED  BY <1>1, <2>1, <2>4 DEF HistoryTyped
  <1>8. ASSUME NEW id \in Ids, MarkAsDeleted(id)
        PROVE  LocalTyped(local') /\ HistoryTyped'
    <2> DEFINE new == [local[id] EXCEPT !.status = "deleted"]
    <2>1. new \in Raw /\ new.status = "deleted"
      BY <1>3, <1>8 DEF MarkAsDeleted, Raw, Statuses
    <2>2. local' = [local EXCEPT ![id] = new]
      BY <1>8 DEF MarkAsDeleted
    <2> HIDE DEF new
    <2>3. LocalTyped(local')
      BY <1>1, <2>1, <2>2 DEF LocalTyped
    <2>4. [c \in Columns |-> 0] \in Value
      BY <1>1 DEF Value
    <2>5. HistoryTyped'
      BY <1>1, <1>8, <2>4 DEF HistoryTyped, MarkAsDeleted
    <2> QED  BY <2>3, <2>5
  <1>9. ASSUME NEW s \in Syncs, StartApply(s)
        PROVE  LocalTyped(local')
    BY <1>1, <1>9 DEF StartApply, LocalTyped
  <1>10. ASSUME NEW s \in Syncs, Batch(s)
         PROVE  LocalTyped(local')
    <2> DEFINE pull == syncs[s].pull
    <2>1. local' = Applied(pull) /\ \A id \in DOMAIN pull.rows : pull.rows[id] \in Value
      BY <1>1, <1>4, <1>10, CarriedTyped DEF Batch
    <2> HIDE DEF pull
    <2>2. ASSUME NEW id \in Ids, Live(id), id \in DOMAIN pull.rows
          PROVE  LET new == ResolveConflict(local[id], pull.rows[id]) IN
                 new \in Raw /\ new.status = local[id].status /\ new.changed = local[id].changed
      <3>1. [c \in Columns |-> IF c \in local[id].changed THEN local[id].value[c] ELSE pull.rows[id][c]] \in Value
        BY <1>3, <2>1, <2>2, Something DEF Value
      <3> QED  BY <1>3, <2>2, <3>1 DEF ResolveConflict, Raw
    <2>3. \A value \in Value : Synced(value) \in Raw /\ Synced(value).changed = {}
      BY DEF Synced, Raw, Statuses
    <2>4. ASSUME NEW id \in Ids
          PROVE  /\ local'[id] \in Raw \cup {Nothing}
                 /\ local'[id] # Nothing /\ local'[id].status = "synced" => local'[id].changed = {}
      <3>1. local'[id] = IF id \in DOMAIN pull.rows
                         THEN IF Live(id) THEN ResolveConflict(local[id], pull.rows[id])
                              ELSE IF id \in LocallyDeleted THEN local[id]
                              ELSE Synced(pull.rows[id])
                         ELSE IF id \in Destroyed(pull) THEN Nothing
                         ELSE local[id]
        BY <2>1 DEF Applied
      <3>2. CASE id \in DOMAIN pull.rows /\ Live(id)
        <4>1. local'[id] = ResolveConflict(local[id], pull.rows[id])
          BY <3>1, <3>2
        <4>2. local[id].status = "synced" => local[id].changed = {}
          BY <1>1, <3>2 DEF LocalTyped, Live
        <4> QED  BY <2>2, <3>2, <4>1, <4>2
      <3>3. CASE local'[id] = local[id]
        BY <1>1, <3>3 DEF LocalTyped
      <3>4. CASE id \in DOMAIN pull.rows /\ local'[id] = Synced(pull.rows[id])
        BY <2>1, <2>3, <3>4
      <3>5. CASE local'[id] = Nothing
        BY <3>5
      <3> QED  BY <3>1, <3>2, <3>3, <3>4, <3>5
    <2>5. local' = [id \in Ids |-> local'[id]]
      BY <2>1 DEF Applied
    <2> QED  BY <2>4, <2>5 DEF LocalTyped
  <1>11. ASSUME NEW s \in Syncs, Mark(s)
         PROVE  LocalTyped(local')
    <2> DEFINE push == syncs[s].push
    <2>1. \A id \in Ids : id \in RecordsToMark(push) => local[id] \in Raw
      BY <1>1, <1>4, CarriedTyped DEF RecordsToMark
    <2>2. \A id \in Ids : id \in RecordsToMark(push) =>
            MarkedAsSynced(local[id]) \in Raw /\ MarkedAsSynced(local[id]).changed = {}
      BY <2>1, Something DEF MarkedAsSynced, Synced, Raw, Statuses
    <2>3. local' = [id \in Ids |-> IF id \in RecordsToMark(push) THEN MarkedAsSynced(local[id]) ELSE local[id]]
      BY <1>11 DEF Mark
    <2> HIDE DEF push
    <2> QED  BY <1>1, <2>2, <2>3 DEF LocalTyped
  <1>12. ASSUME NEW s \in Syncs, Forget(s)
         PROVE  LocalTyped(local')
    BY <1>1, <1>12 DEF Forget, LocalTyped
  <1>13. ASSUME NEW s \in Syncs, Recreate(s)
         PROVE  LocalTyped(local')
    BY <1>1, <1>13 DEF Recreate, LocalTyped
  <1> QED  BY <1>6, <1>7, <1>8, <1>9, <1>10, <1>11, <1>12, <1>13

\* A row that is deleted.
LEMMA RowDeleted ==
  ASSUME NEW row \in Row, NEW time \in Nat, NEW v,
         \/ v = [row EXCEPT !.at = time, !.deleted = TRUE]
         \/ v = [row EXCEPT !.deleted = TRUE, !.at = time]
  PROVE  v \in Row /\ v.at = time /\ v.deleted = TRUE
PROOF
  <1>1. CASE v = [row EXCEPT !.at = time, !.deleted = TRUE]
    BY <1>1 DEF Row
  <1>2. CASE v = [row EXCEPT !.deleted = TRUE, !.at = time]
    BY <1>2 DEF Row
  <1> QED  BY <1>1, <1>2

\* What another client leaves on the server.
LEMMA OtherEffect ==
  ASSUME Base, NEW id \in Ids
  PROVE  /\ OtherCreates(id) => \E row \in Row : OtherClient(id, row) /\ row.at = now + 1
         /\ \A c \in Columns : OtherUpdates(id, c) =>
              \E row \in Row : OtherClient(id, row) /\ row.at = now + 1 /\ row.deleted = server[id].deleted
         /\ OtherDeletes(id) => \E row \in Row : OtherClient(id, row) /\ row.at = now + 1 /\ row.deleted = TRUE
PROOF
  <1>1. ServerTyped(server, now) /\ HistoryTyped /\ ClocksTyped /\ TypeOK /\ MaxEdits \in Nat
    BY BaseParts, BoundsAssumption DEF Base
  <1>3. \A i \in Ids : server[i] # Nothing => server[i] \in Row
    BY <1>1 DEF ServerTyped
  <1>5. ASSUME OtherCreates(id)
        PROVE  \E row \in Row : OtherClient(id, row) /\ row.at = now + 1
    <2> DEFINE row == [born |-> now + 1, at |-> now + 1, deleted |-> FALSE,
                       value |-> [c \in Columns |-> edits + 1]]
    <2>1. OtherClient(id, row) /\ edits + 1 \in 0..MaxEdits
      BY <1>1, <1>5 DEF OtherCreates, OtherClient, HistoryTyped
    <2>2. row \in Row /\ row.at = now + 1
      BY <1>1, <2>1 DEF Row, Value, ClocksTyped
    <2> HIDE DEF row
    <2> QED  BY <2>1, <2>2
  <1>6. ASSUME NEW c \in Columns, OtherUpdates(id, c)
        PROVE  \E row \in Row : OtherClient(id, row) /\ row.at = now + 1 /\ row.deleted = server[id].deleted
    <2> DEFINE row == [server[id] EXCEPT !.at = now + 1, !.value[c] = edits + 1]
    <2>1. OtherClient(id, row) /\ edits + 1 \in 0..MaxEdits /\ server[id] \in Row
      BY <1>1, <1>3, <1>6 DEF OtherUpdates, OtherClient, HistoryTyped, LiveOnServer
    <2>2. row \in Row /\ row.at = now + 1 /\ row.deleted = server[id].deleted
      <3>1. [server[id].value EXCEPT ![c] = edits + 1] \in Value
        BY <2>1 DEF Row, Value
      <3>2. now + 1 \in Nat
        BY <1>1 DEF ClocksTyped
      <3>3. row = [server[id] EXCEPT !.at = now + 1,
                                     !.value = [server[id].value EXCEPT ![c] = edits + 1]]
        <4> DEFINE w1 == [server[id] EXCEPT !.at = now + 1]
        <4>1. row = [w1 EXCEPT !.value = [w1.value EXCEPT ![c] = edits + 1]]
          OBVIOUS
        <4>2. w1.value = server[id].value
          BY <2>1 DEF Row
        <4> QED  BY <4>1, <4>2
      <3> DEFINE old == server[id]
                 value == [server[id].value EXCEPT ![c] = edits + 1]
      <3>4. /\ old \in Row /\ value \in Value /\ row = [old EXCEPT !.at = now + 1, !.value = value]
            /\ old.deleted = server[id].deleted
        BY <2>1, <3>1, <3>3
      <3> HIDE DEF row, old, value
      <3> QED  BY <3>2, <3>4 DEF Row
    <2> HIDE DEF row
    <2> QED  BY <2>1, <2>2
  <1>7. ASSUME OtherDeletes(id)
        PROVE  \E row \in Row : OtherClient(id, row) /\ row.at = now + 1 /\ row.deleted = TRUE
    <2> DEFINE row == [server[id] EXCEPT !.at = now + 1, !.deleted = TRUE]
    <2>1. OtherClient(id, row) /\ server[id] \in Row
      BY <1>3, <1>7 DEF OtherDeletes, LiveOnServer
    <2>2. row \in Row /\ row.at = now + 1 /\ row.deleted = TRUE
      <3>1. now + 1 \in Nat
        BY <1>1 DEF ClocksTyped
      <3> QED  BY <2>1, <3>1, RowDeleted
    <2> HIDE DEF row
    <2> QED  BY <2>1, <2>2
  <1> QED  BY <1>5, <1>6, <1>7

\* What the steps make of the server's records has its type.
LEMMA ServerStep ==
  ASSUME Base
  PROVE  /\ \A id \in Ids : OtherCreates(id) \/ OtherDeletes(id) =>
              ServerTyped(server', now + 1) /\ HistoryTyped'
         /\ \A id \in Ids, c \in Columns : OtherUpdates(id, c) =>
              ServerTyped(server', now + 1) /\ HistoryTyped'
         /\ \A s \in Syncs : ServerAccepts(s) => ServerTyped(server', now + 1) /\ HistoryTyped'
PROOF
  <1>1. ServerTyped(server, now) /\ HistoryTyped /\ ClocksTyped /\ TypeOK /\ MaxEdits \in Nat
    BY BaseParts, BoundsAssumption DEF Base
  <1>2. now + 1 \in 2..(now + 1) /\ \A time \in 2..now : time \in 2..(now + 1)
    BY <1>1 DEF ClocksTyped
  <1>3. /\ server \in [Ids -> Row \cup {Nothing}]
        /\ \A id \in Ids : server[id] # Nothing => server[id] \in Row /\ server[id].at \in 2..now
    BY <1>1 DEF ServerTyped
  <1>4. ASSUME NEW id \in Ids, NEW row \in Row, row.at = now + 1, OtherClient(id, row)
        PROVE  ServerTyped(server', now + 1) /\ HistoryTyped'
    <2>1. ServerTyped(server', now + 1)
      BY <1>2, <1>3, <1>4, Something DEF OtherClient, ServerTyped
    <2>2. edits' \in 0..MaxEdits
      BY <1>1, <1>4 DEF OtherClient, HistoryTyped
    <2> QED  BY <1>1, <1>4, <2>1, <2>2 DEF OtherClient, HistoryTyped
  <1>5. ASSUME NEW id \in Ids, OtherCreates(id) \/ (\E c \in Columns : OtherUpdates(id, c)) \/ OtherDeletes(id)
        PROVE  ServerTyped(server', now + 1) /\ HistoryTyped'
    BY <1>4, <1>5, OtherEffect
  <1>8. ASSUME NEW s \in Syncs, ServerAccepts(s)
        PROVE  ServerTyped(server', now + 1) /\ HistoryTyped'
    <2> DEFINE push == syncs[s].push
    <2>1. PICK rejected \in SUBSET (DOMAIN push.raws \cup push.deleted) :
            LET applied == DOMAIN push.raws \ rejected IN
            /\ server' = [id \in Ids |->
                 IF id \in applied
                 THEN [born |-> IF server[id] = Nothing THEN now + 1 ELSE server[id].born,
                       at |-> now + 1, deleted |-> FALSE, value |-> push.raws[id].value]
                 ELSE IF id \in push.deleted \ rejected /\ LiveOnServer(id)
                 THEN [server[id] EXCEPT !.deleted = TRUE, !.at = now + 1]
                 ELSE server[id]]
            /\ received' = received \cup UNION {{push.raws[id].value[c] : c \in Columns} : id \in applied}
      BY <1>8 DEF ServerAccepts
    <2>2. push \in Pushes
      BY <1>1 DEF TypeOK, Calls
    <2> HIDE DEF push
    <2>3. \A id \in DOMAIN push.raws : push.raws[id].value \in Value
      BY <1>1, <2>2, CarriedTyped, Something
    <2>4. ASSUME NEW id \in Ids
          PROVE  server'[id] \in Row \cup {Nothing} /\ (server'[id] # Nothing => server'[id].at \in 2..(now + 1))
      <3>1. CASE id \in DOMAIN push.raws \ rejected
        <4>1. server'[id] = [born |-> IF server[id] = Nothing THEN now + 1 ELSE server[id].born,
                             at |-> now + 1, deleted |-> FALSE, value |-> push.raws[id].value]
          BY <2>1, <3>1
        <4>2. (IF server[id] = Nothing THEN now + 1 ELSE server[id].born) \in Nat
          BY <1>1, <1>3, Something DEF ClocksTyped
        <4> QED  BY <1>1, <1>2, <2>3, <3>1, <4>1, <4>2 DEF Row, ClocksTyped
      <3>2. CASE id \notin DOMAIN push.raws \ rejected /\ id \in push.deleted \ rejected /\ LiveOnServer(id)
        <4>1. server'[id] = [server[id] EXCEPT !.deleted = TRUE, !.at = now + 1]
          BY <2>1, <3>2
        <4>2. server[id] \in Row
          BY <1>3, <3>2 DEF LiveOnServer
        <4>3. now + 1 \in Nat
          BY <1>1 DEF ClocksTyped
        <4>4. server'[id] \in Row /\ server'[id].at = now + 1
          BY <4>1, <4>2, <4>3 DEF Row
        <4> QED  BY <1>2, <4>4
      <3>3. CASE server'[id] = server[id]
        BY <1>2, <1>3, <3>3
      <3> QED  BY <2>1, <3>1, <3>2, <3>3
    <2>5. ServerTyped(server', now + 1)
      BY <2>1, <2>4 DEF ServerTyped
    <2>6. received' \subseteq 0..MaxEdits
      <3>1. \A id \in DOMAIN push.raws : \A c \in Columns : push.raws[id].value[c] \in 0..MaxEdits
        BY <2>3 DEF Value
      <3>2. UNION {{push.raws[id].value[c] : c \in Columns} : id \in DOMAIN push.raws \ rejected} \subseteq 0..MaxEdits
        BY <3>1
      <3> QED  BY <1>1, <2>1, <3>2 DEF HistoryTyped
    <2> QED  BY <1>1, <1>8, <2>5, <2>6 DEF HistoryTyped, ServerAccepts, history
  <1> QED  BY <1>5, <1>8

\* What the steps make of the calls has its type.
LEMMA CallsStep ==
  ASSUME Base, NEW s \in Syncs
  PROVE  /\ Start(s) \/ Batch(s) \/ Stamp(s) \/ FetchLocal(s) \/ ServerRefuses(s) \/ Answered(s)
              \/ StartApply(s) \/ ServerPulls(s) \/ Mark(s) \/ Forget(s) \/ Lose(s) \/ DriverFails(s) =>
              CallsTyped(syncs', now, resetting)
         /\ ServerAccepts(s) => CallsTyped(syncs', now + 1, resetting)
PROOF
  <1> DEFINE w == syncs[s]
  <1>1. TypeOK /\ CallsTyped(syncs, now, resetting) /\ ClocksTyped /\ MaxFaults \in Nat
    BY BaseParts, BoundsAssumption DEF Base
  <1>2. /\ now \in Nat /\ now + 1 \in Nat /\ now <= now + 1 /\ lastPulledAt \in Nat /\ lastPulledAt <= now
        /\ resetCount \in 0..MaxFaults
    BY <1>1 DEF ClocksTyped
  <1>3. /\ w \in Calls /\ w.phase \in Phases /\ w.resets \in 0..MaxFaults /\ w.since \in Nat
        /\ w.stamp \in Nat /\ w.pull \in Pulls /\ w.push \in Pushes
    BY <1>1 DEF TypeOK, Calls
  <1>4. w.since <= now /\ w.stamp <= now /\ (w.phase \in Applying \cup {"forgetting"} => ~resetting)
    BY <1>1 DEF CallsTyped
  <1> HIDE DEF w
  <1>5. ASSUME NEW p \in Phases, NEW r \in 0..MaxFaults, NEW since \in Nat, NEW stamp \in Nat,
               NEW pull \in Pulls, NEW push \in Pushes, NEW time \in Nat, now <= time,
               since <= time, stamp <= time,
               p \in Applying \cup {"forgetting"} => ~resetting,
               Becomes(s, Record(p, r, since, stamp, pull, push))
        PROVE  CallsTyped(syncs', time, resetting)
    <2> DEFINE v == Record(p, r, since, stamp, pull, push)
    <2>1. v \in Calls
      BY <1>1, CarriedTyped
    <2>2. v.since = since /\ v.stamp = stamp /\ v.phase = p
      BY DEF Record
    <2> HIDE DEF v
    <2>3. Becomes(s, v)
      BY <1>5 DEF v
    <2> QED  BY <1>1, <1>2, <1>5, <2>1, <2>2, <2>3, OneCallTyped
  <1>6. NoPull \in Pulls /\ NoPush \in Pushes /\ LocalChanges \in Pushes
        /\ \A answer \in Answers(w.since) : answer \in Pulls
    BY <1>1, CarriedTyped
  <1>7. ASSUME NEW p \in Phases, GoTo(s, p), p \in Applying \cup {"forgetting"} => ~resetting
        PROVE  CallsTyped(syncs', now, resetting)
    <2>1. Becomes(s, Record(p, w.resets, w.since, w.stamp, w.pull, w.push))
      BY <1>1, <1>7, CallEffects DEF w
    <2> QED  BY <1>2, <1>3, <1>4, <1>5, <1>7, <2>1
  <1>8. ASSUME End(s)
        PROVE  CallsTyped(syncs', now, resetting)
    <2>1. Becomes(s, Record("idle", 0, 0, 0, NoPull, NoPush))
      BY <1>1, <1>8, CallEffects
    <2> QED  BY <1>1, <1>2, <1>5, <1>6, <2>1 DEF Phases, Applying
  <1>9. ASSUME Start(s)
        PROVE  CallsTyped(syncs', now, resetting)
    <2>1. Becomes(s, Record("pulling", resetCount, lastPulledAt, w.stamp, w.pull, w.push))
      BY <1>1, <1>9, CallEffects DEF w
    <2> QED  BY <1>2, <1>3, <1>4, <1>5, <2>1 DEF Phases, Applying
  <1>10. ASSUME ServerPulls(s)
         PROVE  CallsTyped(syncs', now, resetting)
    <2>1. PICK answer \in Answers(w.since) :
            Becomes(s, Record("pulled", w.resets, w.since, now, answer, w.push))
      BY <1>1, <1>10, CallEffects DEF w
    <2>2. answer \in Pulls
      BY <1>6
    <2> QED  BY <1>2, <1>3, <1>4, <1>5, <2>1, <2>2 DEF Phases, Applying
  <1>11. ASSUME Stamp(s)
         PROVE  CallsTyped(syncs', now, resetting)
    <2>1. Becomes(s, Record("ready", w.resets, w.since, w.stamp, NoPull, w.push))
      BY <1>1, <1>11, CallEffects DEF w
    <2> QED  BY <1>2, <1>3, <1>4, <1>5, <1>6, <2>1 DEF Phases, Applying
  <1>12. ASSUME FetchLocal(s)
         PROVE  CallsTyped(syncs', now, resetting)
    <2>1. End(s) \/ Becomes(s, Record("pushing", w.resets, w.since, w.stamp, w.pull, LocalChanges))
      BY <1>1, <1>12, CallEffects DEF w
    <2>2. CASE Becomes(s, Record("pushing", w.resets, w.since, w.stamp, w.pull, LocalChanges))
      BY <1>2, <1>3, <1>4, <1>5, <1>6, <2>2 DEF Phases, Applying
    <2> QED  BY <1>8, <2>1, <2>2
  <1>13. ASSUME ServerAccepts(s)
         PROVE  CallsTyped(syncs', now + 1, resetting)
    <2>1. PICK rejected \in SUBSET (DOMAIN w.push.raws \cup w.push.deleted) :
            syncs' = [syncs EXCEPT ![s].phase = "answering", ![s].push.rejected = rejected]
      BY <1>13 DEF ServerAccepts, w
    <2>2. rejected \in SUBSET Ids
      BY <1>1, <1>3, CarriedTyped
    <2> DEFINE push == [raws |-> w.push.raws, deleted |-> w.push.deleted, rejected |-> rejected]
    <2>3. Becomes(s, Record("answering", w.resets, w.since, w.stamp, w.pull, push)) /\ push \in Pushes
      BY <1>1, <2>1, <2>2, AcceptEffect DEF w
    <2> HIDE DEF push
    <2> QED  BY <1>2, <1>3, <1>4, <1>5, <2>3 DEF Phases, Applying
  <1>14. StartApply(s) => End(s) \/ (GoTo(s, "batching") /\ ~resetting)
    BY DEF StartApply, Writing
  <1>15. Batch(s) => GoTo(s, "stamping") /\ ~resetting
    BY <1>4 DEF Batch, In, Applying, w
  <1>16. Mark(s) => GoTo(s, "forgetting") /\ ~resetting
    BY DEF Mark, Writing
  <1>17. Answered(s) => End(s) \/ GoTo(s, "marking")
    BY DEF Answered
  <1>18. ServerRefuses(s) \/ Forget(s) \/ Lose(s) \/ DriverFails(s) => End(s)
    BY DEF ServerRefuses, Forget, Lose, DriverFails
  <1>19. {"batching", "stamping", "forgetting", "marking"} \subseteq Phases
         /\ "marking" \notin Applying \cup {"forgetting"}
    BY DEF Phases, Applying
  <1> QED  BY <1>7, <1>8, <1>9, <1>10, <1>11, <1>12, <1>13, <1>14, <1>15, <1>16, <1>17, <1>18, <1>19

\* Every step keeps Base, however many calls of synchronize() there are.
LEMMA BaseStep == Base /\ [Next]_vars => Base'
PROOF
  <1> SUFFICES ASSUME Base, [Next]_vars
               PROVE  /\ LocalTyped(local') /\ ServerTyped(server', now') /\ CallsTyped(syncs', now', resetting')
                      /\ HistoryTyped' /\ ClocksTyped'
    BY BaseParts
  <1> DEFINE Typed == /\ LocalTyped(local') /\ ServerTyped(server', now') /\ CallsTyped(syncs', now', resetting')
                      /\ HistoryTyped' /\ ClocksTyped'
  <1>1. /\ LocalTyped(local) /\ ServerTyped(server, now) /\ CallsTyped(syncs, now, resetting)
        /\ HistoryTyped /\ ClocksTyped /\ TypeOK /\ MaxFaults \in Nat
    BY BaseParts, BoundsAssumption DEF Base
  <1>2. UNCHANGED history /\ UNCHANGED received => HistoryTyped'
    BY <1>1 DEF HistoryTyped, history
  <1>3. UNCHANGED <<lastPulledAt, resetCount, resetting, now>> /\ (UNCHANGED faults \/ Fault) => ClocksTyped'
    BY <1>1 DEF ClocksTyped, Fault
  <1>4. UNCHANGED <<lastPulledAt, resetCount, resetting>> /\ now' = now + 1 /\ (UNCHANGED faults \/ Fault) => ClocksTyped'
    BY <1>1 DEF ClocksTyped, Fault
  <1>5. \A s \in Syncs : syncs[s] \in Calls /\ syncs[s].since \in Nat /\ syncs[s].stamp \in Nat /\ syncs[s].stamp <= now
    BY <1>1 DEF TypeOK, Calls, CallsTyped
  <1>6. now \in Nat
    BY <1>1 DEF ClocksTyped
  <1>7. CallsTyped(syncs, now + 1, resetting)
    BY <1>1, <1>5, <1>6 DEF CallsTyped
  <1>8. Idle \in Calls /\ Idle.since = 0 /\ Idle.stamp = 0 /\ Idle.phase = "idle"
    <2>1. Idle = Record("idle", 0, 0, 0, NoPull, NoPush)
      BY DEF Idle, Record
    <2> QED  BY <1>1, <2>1, CarriedTyped DEF Phases, Record
  <1>9. ASSUME NEW id \in Ids, NEW columns \in Drafts, Create(id, columns)
        PROVE  Typed
    BY <1>1, <1>3, <1>9, LocalStep DEF Create, Edit
  <1>10. ASSUME NEW id \in Ids, NEW c \in Columns, Update(id, c)
         PROVE  Typed
    BY <1>1, <1>3, <1>10, LocalStep DEF Update, Edit
  <1>11. ASSUME NEW id \in Ids, MarkAsDeleted(id)
         PROVE  Typed
    BY <1>1, <1>3, <1>11, LocalStep DEF MarkAsDeleted
  <1>12. ASSUME NEW id \in Ids, NEW row, OtherClient(id, row)
         PROVE  UNCHANGED <<database, syncs, faults>> /\ now' = now + 1
    BY <1>12 DEF OtherClient
  <1>13. ASSUME NEW id \in Ids, OtherCreates(id)
         PROVE  Typed
    <2>1. UNCHANGED <<database, syncs, faults>> /\ now' = now + 1
      BY <1>12, <1>13 DEF OtherCreates
    <2>2. ServerTyped(server', now + 1) /\ HistoryTyped'
      BY <1>13, ServerStep
    <2> QED  BY <1>1, <1>4, <1>7, <2>1, <2>2 DEF database
  <1>14. ASSUME NEW id \in Ids, NEW c \in Columns, OtherUpdates(id, c)
         PROVE  Typed
    <2>1. UNCHANGED <<database, syncs, faults>> /\ now' = now + 1
      BY <1>12, <1>14 DEF OtherUpdates
    <2>2. ServerTyped(server', now + 1) /\ HistoryTyped'
      BY <1>14, ServerStep
    <2> QED  BY <1>1, <1>4, <1>7, <2>1, <2>2 DEF database
  <1>15. ASSUME NEW id \in Ids, OtherDeletes(id)
         PROVE  Typed
    <2>1. UNCHANGED <<database, syncs, faults>> /\ now' = now + 1
      BY <1>12, <1>15 DEF OtherDeletes
    <2>2. ServerTyped(server', now + 1) /\ HistoryTyped'
      BY <1>15, ServerStep
    <2> QED  BY <1>1, <1>4, <1>7, <2>1, <2>2 DEF database
  <1>16. ASSUME NEW s \in Syncs,
                \/ Start(s) \/ ServerPulls(s) \/ FetchLocal(s) \/ ServerRefuses(s) \/ Answered(s)
                \/ Lose(s) \/ DriverFails(s)
         PROVE  Typed
    <2>1. UNCHANGED <<database, server, now, received, history>> /\ (UNCHANGED faults \/ Fault)
      BY <1>16 DEF Start, ServerPulls, FetchLocal, ServerRefuses, Answered, Lose, DriverFails
    <2>2. CallsTyped(syncs', now, resetting)
      BY <1>16, CallsStep
    <2> QED  BY <1>1, <1>2, <1>3, <2>1, <2>2 DEF database
  <1>17. ASSUME NEW s \in Syncs, StartApply(s) \/ Batch(s) \/ Mark(s) \/ Forget(s)
         PROVE  Typed
    <2>1. UNCHANGED <<lastPulledAt, resetCount, resetting, server, now, faults, received>>
      BY <1>17 DEF StartApply, Batch, Mark, Forget
    <2>2. CallsTyped(syncs', now, resetting) /\ LocalTyped(local')
      BY <1>17, CallsStep, LocalStep
    <2>3. HistoryTyped'
      BY <1>1, <1>17 DEF StartApply, Batch, Mark, Forget, HistoryTyped, history
    <2> QED  BY <1>1, <1>3, <2>1, <2>2, <2>3
  <1>18. ASSUME NEW s \in Syncs, Stamp(s)
         PROVE  Typed
    <2>1. CallsTyped(syncs', now, resetting)
      BY <1>18, CallsStep
    <2>2. ClocksTyped'
      BY <1>1, <1>5, <1>18 DEF Stamp, ClocksTyped
    <2> QED  BY <1>1, <1>2, <1>18, <2>1, <2>2 DEF Stamp
  <1>19. ASSUME NEW s \in Syncs, ServerAccepts(s)
         PROVE  Typed
    <2>1. UNCHANGED <<database, history>> /\ now' = now + 1 /\ (UNCHANGED faults \/ Fault)
      BY <1>19 DEF ServerAccepts
    <2>2. CallsTyped(syncs', now + 1, resetting) /\ ServerTyped(server', now + 1) /\ HistoryTyped'
      BY <1>19, CallsStep, ServerStep
    <2> QED  BY <1>1, <1>4, <2>1, <2>2 DEF database
  <1>20. CASE Crash
    <2>1. CallsTyped(syncs', now, FALSE)
      BY <1>6, <1>8, <1>20 DEF Crash, CallsTyped, Applying
    <2>2. ClocksTyped'
      <3>1. faults' \in 0..MaxFaults /\ 0 <= faults'
        BY <1>1, <1>20 DEF Crash, Fault, ClocksTyped
      <3>2. resetting' = FALSE /\ resetCount' = 0 /\ UNCHANGED <<now, lastPulledAt>>
        BY <1>20 DEF Crash
      <3>3. ~resetting' /\ resetting' \in BOOLEAN
        BY <3>2
      <3> QED  BY <1>1, <3>1, <3>2, <3>3 DEF ClocksTyped
    <2> QED  BY <1>1, <1>2, <1>20, <2>1, <2>2 DEF Crash
  <1>21. CASE StartReset
    <2>1. \A s \in Syncs : syncs'[s] = IF In(s, "marking") THEN Idle ELSE syncs[s]
      BY <1>21 DEF StartReset
    <2>2. \A s \in Syncs : syncs'[s].phase \notin Applying \cup {"forgetting"}
      BY <1>8, <1>21, <2>1 DEF StartReset, Writing, Applying
    <2>3. syncs' \in [Syncs -> Calls]
      BY <1>5, <1>8, <1>21 DEF StartReset
    <2>4. CallsTyped(syncs', now, resetting')
      BY <1>1, <1>6, <1>8, <2>1, <2>2, <2>3 DEF CallsTyped
    <2>5. ClocksTyped'
      BY <1>1, <1>21 DEF StartReset, Fault, ClocksTyped
    <2> QED  BY <1>1, <1>2, <1>21, <2>4, <2>5 DEF StartReset
  <1>22. CASE EndReset
    <2>1. CallsTyped(syncs, now, FALSE)
      BY <1>1 DEF CallsTyped
    <2>2. ClocksTyped'
      <3>1. resetCount + 1 \in Nat /\ resetCount + 1 <= faults
        BY <1>1, <1>22 DEF EndReset, ClocksTyped
      <3>2. /\ resetting' = FALSE /\ resetCount' = resetCount + 1 /\ lastPulledAt' = 0
            /\ UNCHANGED <<now, faults>>
        BY <1>22 DEF EndReset
      <3>3. ~resetting' /\ resetting' \in BOOLEAN
        BY <3>2
      <3> QED  BY <1>1, <3>1, <3>2, <3>3 DEF ClocksTyped
    <2>3. HistoryTyped'
      <3>1. [c \in Columns |-> 0] \in Value
        BY BoundsAssumption DEF Value
      <3> QED  BY <1>1, <1>22, <3>1 DEF EndReset, HistoryTyped
    <2>4. LocalTyped(local')
      BY <1>22 DEF EndReset, LocalTyped
    <2> QED  BY <1>1, <1>22, <2>1, <2>2, <2>3, <2>4 DEF EndReset
  <1>23. CASE UNCHANGED vars
    BY <1>1, <1>2, <1>3, <1>23 DEF vars, database, history
  <1>24. ASSUME NEW s \in Syncs, Recreate(s)
         PROVE  Typed
    <2>1. /\ UNCHANGED <<lastPulledAt, resetCount, resetting, syncs, server, now, faults>>
          /\ LocalTyped(local')
      BY <1>24, LocalStep DEF Recreate
    <2>2. HistoryTyped'
      BY <1>1, <1>24 DEF Recreate, HistoryTyped
    <2> QED  BY <1>1, <1>3, <2>1, <2>2
  <1> HIDE DEF Typed
  <1>25. Typed
    BY <1>9, <1>10, <1>11, <1>13, <1>14, <1>15, <1>16, <1>17, <1>18, <1>19, <1>20, <1>21, <1>22, <1>23,
       <1>24
       DEF Next, Synchronize, Typed
  <1> QED  BY <1>25 DEF Typed

-----------------------------------------------------------------------------
\* What a step of the one call makes of it.
LEMMA NewCall ==
  ASSUME TypeOK, NEW s \in Syncs
  PROVE  LET w == syncs[s] v == syncs'[s] IN
         /\ \A p : GoTo(s, p) => /\ v.phase = p /\ v.resets = w.resets /\ v.since = w.since
                                 /\ v.stamp = w.stamp /\ v.pull = w.pull /\ v.push = w.push
         /\ End(s) => v.phase = "idle" /\ v.push = NoPush
         /\ Start(s) => v.phase = "pulling" /\ v.push = w.push
         /\ ServerPulls(s) => \E answer \in Answers(w.since) :
              /\ v.phase = "pulled" /\ v.since = w.since /\ v.stamp = now
              /\ v.pull = answer /\ v.push = w.push
         /\ Stamp(s) => v.phase = "ready" /\ v.push = w.push
         /\ FetchLocal(s) => End(s) \/ (v.phase = "pushing" /\ v.push = LocalChanges)
PROOF
  <1>1. \A v : Becomes(s, v) => syncs'[s] = v
    BY DEF Becomes, TypeOK
  <1>2. \A p, r, since, stamp, pull, push :
          LET v == Record(p, r, since, stamp, pull, push) IN
          /\ v.phase = p /\ v.resets = r /\ v.since = since /\ v.stamp = stamp
          /\ v.pull = pull /\ v.push = push
    BY DEF Record
  <1>3. \A p, r, since, stamp, pull, push :
          Becomes(s, Record(p, r, since, stamp, pull, push)) =>
          LET v == syncs'[s] IN
          /\ v.phase = p /\ v.resets = r /\ v.since = since /\ v.stamp = stamp
          /\ v.pull = pull /\ v.push = push
    BY <1>1, <1>2
  <1> DEFINE w == syncs[s] v == syncs'[s]
  <1>4. ASSUME NEW p, GoTo(s, p)
        PROVE  /\ v.phase = p /\ v.resets = w.resets /\ v.since = w.since
               /\ v.stamp = w.stamp /\ v.pull = w.pull /\ v.push = w.push
    <2>1. Becomes(s, Record(p, w.resets, w.since, w.stamp, w.pull, w.push))
      BY <1>4, CallEffects
    <2> QED  BY <1>3, <2>1
  <1>5. End(s) => v.phase = "idle" /\ v.push = NoPush
    BY <1>3, CallEffects
  <1>6. Start(s) => v.phase = "pulling" /\ v.push = w.push
    BY <1>3, CallEffects
  <1>7. ASSUME ServerPulls(s)
        PROVE  \E answer \in Answers(w.since) :
                 /\ v.phase = "pulled" /\ v.since = w.since /\ v.stamp = now
                 /\ v.pull = answer /\ v.push = w.push
    <2>1. PICK answer \in Answers(w.since) :
            Becomes(s, Record("pulled", w.resets, w.since, now, answer, w.push))
      BY <1>7, CallEffects
    <2> QED  BY <1>3, <2>1
  <1>8. Stamp(s) => v.phase = "ready" /\ v.push = w.push
    BY <1>3, CallEffects
  <1>9. FetchLocal(s) => End(s) \/ (v.phase = "pushing" /\ v.push = LocalChanges)
    BY <1>3, CallEffects
  <1> QED  BY <1>4, <1>5, <1>6, <1>7, <1>8, <1>9

Rest == Data /\ \A s \in Syncs : CallShape(syncs[s])

DataUnchanged == UNCHANGED <<local, server, mine, received, removed, lastPulledAt>>

\* Nothing of the data changes.
LEMMA DataKept == ASSUME Data, DataUnchanged PROVE Data'
BY DEF Data, DataUnchanged, LocalShape, EditShape, Kept, DeletionsKept, LiveOnServer, Live,
       CurrentUpTo, CurrentAt, Pending

\* A call that ended.
LEMMA CallIdle ==
  ASSUME NEW s \in Syncs, syncs'[s].phase = "idle", syncs'[s].push = NoPush
  PROVE  CallShape(syncs[s])'
PROOF
  <1>1. NoPush.deleted = {}
    BY DEF NoPush
  <1> QED  BY <1>1 DEF CallShape, TimeShape, PullShape, ApplyShape, PushShape, Applying, BeforePush, AfterPush

\* A call where it was.
LEMMA CallKept ==
  ASSUME NEW s \in Syncs, syncs'[s] = syncs[s], CallShape(syncs[s]), DataUnchanged
  PROVE  CallShape(syncs[s])'
BY DEF DataUnchanged, CallShape, TimeShape, PullShape, PulledFrom, ApplyShape, PushShape, Forgotten, LocallyDeleted,
       CurrentUpTo, CurrentAt, Live, LiveOnServer, Unaccepted, Accepted, DeletionPushed

\* An answer in one of its two forms.
LEMMA AnswerShape ==
  ASSUME NEW since, NEW answer \in Answers(since)
  PROVE  LET changed == {id \in Ids : server[id] # Nothing /\ server[id].at > since}
             whole == {id \in Ids : LiveOnServer(id)}
         IN /\ answer.deleted = changed \ whole
            /\ \/ DOMAIN answer.rows = changed \cap whole /\ answer.replacement = FALSE
               \/ DOMAIN answer.rows = whole
            /\ \A i \in DOMAIN answer.rows : answer.rows[i] = server[i].value
            /\ answer.created \subseteq changed
PROOF
  <1> DEFINE changed == {id \in Ids : server[id] # Nothing /\ server[id].at > since}
             whole == {id \in Ids : LiveOnServer(id)}
             rowsOf(ids) == [id \in ids |-> server[id].value]
  <1>1. \/ \E created \in SUBSET changed : answer = [rows |-> rowsOf(changed \cap whole), created |-> created,
                                  deleted |-> changed \ whole, replacement |-> FALSE]
        \/ answer = [rows |-> rowsOf(whole), created |-> {}, deleted |-> changed \ whole,
                     replacement |-> TRUE]
    <2>1. \/ answer \in {[rows |-> rowsOf(changed \cap whole), created |-> created,
                          deleted |-> changed \ whole, replacement |-> FALSE]
                           : created \in SUBSET {id \in changed \cap whole : server[id].born > since}}
          \/ answer \in {[rows |-> rowsOf(whole), created |-> {}, deleted |-> changed \ whole,
                          replacement |-> TRUE]}
      BY Zenon DEF Answers
    <2> HIDE DEF changed, whole, rowsOf
    <2> QED  BY <2>1
  <1>2. CASE \E created \in SUBSET changed : answer = [rows |-> rowsOf(changed \cap whole), created |-> created,
                                    deleted |-> changed \ whole, replacement |-> FALSE]
    <2> HIDE DEF changed, whole
    <2>1. /\ answer.deleted = changed \ whole /\ answer.rows = rowsOf(changed \cap whole)
          /\ answer.replacement = FALSE /\ answer.created \subseteq changed
      BY <1>2
    <2> QED  BY <2>1 DEF changed, whole
  <1>3. CASE answer = [rows |-> rowsOf(whole), created |-> {}, deleted |-> changed \ whole,
                       replacement |-> TRUE]
    <2> HIDE DEF changed, whole
    <2>1. answer.deleted = changed \ whole /\ answer.rows = rowsOf(whole) /\ answer.created = {}
      BY <1>3
    <2> QED  BY <2>1 DEF changed, whole
  <1> HIDE DEF changed, whole, rowsOf
  <1>4. \/ \E created \in SUBSET changed : answer = [rows |-> rowsOf(changed \cap whole), created |-> created,
                                  deleted |-> changed \ whole, replacement |-> FALSE]
        \/ answer = [rows |-> rowsOf(whole), created |-> {}, deleted |-> changed \ whole,
                     replacement |-> TRUE]
    BY <1>1
  <1> QED  BY <1>2, <1>3, <1>4 DEF changed, whole

\* The steps of a call that change nothing but the call.
LEMMA QuietStep ==
  ASSUME OneCall, Base, Rest, NEW s \in Syncs,
         \/ Start(s) \/ ServerPulls(s) \/ FetchLocal(s)
         \/ ServerRefuses(s) \/ Answered(s) \/ Lose(s) \/ DriverFails(s)
  PROVE  Rest'
PROOF
  <1> DEFINE w == syncs[s]
             v == syncs'[s]
  <1>1. TypeOK /\ DataUnchanged /\ Data /\ CallShape(w)
    BY DEF Base, Rest, DataUnchanged, database, history,
           Start, ServerPulls, FetchLocal, ServerRefuses, Answered, Lose, DriverFails
  <1>2. Data'
    BY <1>1, DataKept
  <1>3. SUFFICES CallShape(syncs[s])'
    BY <1>2 DEF Rest, OneCall
  <1>4. CASE End(s)
    BY <1>1, <1>4, NewCall, CallIdle
  <1>5. CASE Start(s)
    <2>1. w.push = NoPush
      BY <1>1, <1>5 DEF Start, In, CallShape, PushShape, BeforePush
    <2>2. v.phase = "pulling" /\ v.push = NoPush
      BY <1>1, <1>5, <2>1, NewCall
    <2>3. NoPush.deleted = {}
      BY DEF NoPush
    <2> QED
      BY <2>2, <2>3 DEF CallShape, TimeShape, PullShape, ApplyShape, PushShape, Applying, BeforePush, AfterPush
  <1>6. CASE ServerPulls(s)
    <2>1. w.push = NoPush
      BY <1>1, <1>6 DEF ServerPulls, In, CallShape, PushShape, BeforePush
    <2>2. PICK answer \in Answers(w.since) :
            /\ v.phase = "pulled" /\ v.since = w.since /\ v.stamp = now
            /\ v.pull = answer /\ v.push = NoPush
      BY <1>1, <1>6, <2>1, NewCall
    <2>3. w.since <= now
      BY DEF Base, BaseShape
    <2>4. ASSUME NEW id \in Ids
          PROVE  PulledFrom(id, syncs[s].pull, syncs[s].since, syncs[s].stamp)'
      <3> DEFINE changed == {i \in Ids : server[i] # Nothing /\ server[i].at > w.since}
                 whole == {i \in Ids : LiveOnServer(i)}
      <3>1. /\ answer.deleted = changed \ whole
            /\ \/ DOMAIN answer.rows = changed \cap whole /\ answer.replacement = FALSE
               \/ DOMAIN answer.rows = whole
            /\ \A i \in DOMAIN answer.rows : answer.rows[i] = server[i].value
            /\ answer.created \subseteq changed
        BY AnswerShape
      <3>2. id \in removed /\ LiveOnServer(id) => local[id] # Nothing
        BY <1>1 DEF Data, DeletionsKept
      <3>3. server[id] # Nothing => server[id].at <= now
        BY DEF Base, TypeOK
      <3> HIDE DEF w
      <3>4. PulledFrom(id, answer, w.since, now)
        BY <3>1, <3>2, <3>3 DEF PulledFrom, LiveOnServer
      <3> QED  BY <1>1, <2>2, <3>4 DEF PulledFrom, LiveOnServer, DataUnchanged
    <2>5. NoPush.deleted = {}
      BY DEF NoPush
    <2> QED
      BY <2>2, <2>3, <2>4, <2>5
         DEF CallShape, TimeShape, PullShape, ApplyShape, PushShape, Applying, BeforePush, AfterPush
  <1>7. CASE FetchLocal(s) /\ ~End(s)
    <2>1. v.phase = "pushing" /\ v.push = LocalChanges
      BY <1>1, <1>7, NewCall
    <2>2. /\ DOMAIN LocalChanges.raws = Unsynced \ LocallyDeleted /\ LocalChanges.deleted = LocallyDeleted
          /\ \A id \in Unsynced \ LocallyDeleted : LocalChanges.raws[id] = local[id]
      BY DEF LocalChanges
    <2>3. \A id \in LocallyDeleted : DeletionPushed(id, LocalChanges)
      BY <1>1, <2>2 DEF DeletionPushed, LocallyDeleted, Data, LocalShape
    <2>4. \A id \in Unsynced \ LocallyDeleted : Unaccepted(id, LocalChanges)
      BY <2>2 DEF Unaccepted, Unsynced, LocallyDeleted
    <2> QED
      BY <1>1, <2>1, <2>2, <2>3, <2>4
         DEF CallShape, TimeShape, PullShape, ApplyShape, PushShape, Applying, BeforePush, AfterPush,
             v, DeletionPushed, Unaccepted, DataUnchanged
  <1>8. CASE Answered(s) /\ ~End(s)
    <2>1. v.phase = "marking" /\ v.push = w.push /\ w.phase = "answering"
      BY <1>1, <1>8, NewCall DEF Answered, In
    <2> QED
      BY <1>1, <2>1 DEF CallShape, TimeShape, PullShape, ApplyShape, PushShape, Applying, BeforePush, AfterPush,
         DeletionPushed, Accepted, LiveOnServer, DataUnchanged
  <1> QED  BY <1>4, <1>5, <1>6, <1>7, <1>8 DEF ServerRefuses, Lose, DriverFails

\* A crash, the beginning of a reset, or nothing.
LEMMA StopStep ==
  ASSUME Base, Rest, Crash \/ StartReset \/ UNCHANGED vars
  PROVE  Rest'
PROOF
  <1>1. DataUnchanged /\ Data
    BY DEF Rest, DataUnchanged, Crash, StartReset, vars, database, history
  <1>2. Data'
    BY <1>1, DataKept
  <1>3. ASSUME NEW s \in Syncs
        PROVE  CallShape(syncs[s])'
    <2>1. Idle.phase = "idle" /\ Idle.push = NoPush
      BY DEF Idle
    <2>2. syncs'[s] = Idle \/ syncs'[s] = syncs[s]
      BY DEF Crash, StartReset, vars
    <2>3. CASE syncs'[s] = Idle
      BY <2>1, <2>3, CallIdle
    <2>4. CASE syncs'[s] = syncs[s]
      BY <1>1, <2>4, CallKept DEF Rest
    <2> QED  BY <2>2, <2>3, <2>4
  <1> QED  BY <1>2, <1>3 DEF Rest

-----------------------------------------------------------------------------
\* The same, one record at a time.
RecordShape(id) ==
  /\ local[id] # Nothing =>
       /\ local[id].status \in {"updated", "synced"} => server[id] # Nothing
       /\ local[id].status = "deleted" => \A c \in Columns : mine[id][c] = 0
  /\ \A c \in Columns : Kept(id, c)
  /\ id \in removed => IF local[id] = Nothing THEN ~LiveOnServer(id) ELSE ~Live(id)
  /\ CurrentAt(id, lastPulledAt)
CarriedShape(id, w) ==
  /\ w.phase \in {"pulled", "batching"} => PulledFrom(id, w.pull, w.since, w.stamp)
  /\ w.phase = "batching" => id \notin Forgotten(w.pull)
  /\ w.phase = "stamping" => CurrentAt(id, w.stamp)
  /\ id \in w.push.deleted => DeletionPushed(id, w.push)
  /\ w.phase = "pushing" /\ id \in DOMAIN w.push.raws => Unaccepted(id, w.push)
  /\ w.phase \in AfterPush =>
       /\ id \in DOMAIN w.push.raws \ w.push.rejected => Accepted(id, w.push)
       /\ id \in w.push.deleted \ w.push.rejected => ~LiveOnServer(id)
OwnShape(w) == TimeShape(w) /\ (w.phase \in BeforePush => w.push = NoPush)
ByRecord ==
  /\ \A id \in Ids : RecordShape(id)
  /\ \A s \in Syncs : OwnShape(syncs[s]) /\ \A id \in Ids : CarriedShape(id, syncs[s])

\* The two forms say the same.
LEMMA RestByRecord ==
  /\ Base /\ Rest => ByRecord
  /\ Base' /\ ByRecord' => Rest'
PROOF
  <1>1. ASSUME Base, Rest
        PROVE  ByRecord
    <2>1. \A id \in Ids : RecordShape(id)
      BY <1>1 DEF Rest, Data, LocalShape, EditShape, DeletionsKept, CurrentUpTo, RecordShape
    <2>2. ASSUME NEW s \in Syncs
          PROVE  OwnShape(syncs[s]) /\ \A id \in Ids : CarriedShape(id, syncs[s])
      BY <1>1 DEF Rest, CallShape, PullShape, ApplyShape, PushShape, OwnShape, CarriedShape, CurrentUpTo
    <2> QED  BY <2>1, <2>2 DEF ByRecord
  <1>2. ASSUME Base', ByRecord'
        PROVE  Rest'
    <2>1. Data'
      <3>1. removed' \subseteq Ids
        BY <1>2 DEF Base, TypeOK
      <3> QED
        BY <1>2, <3>1 DEF ByRecord, Data, LocalShape, EditShape, DeletionsKept, CurrentUpTo, RecordShape
    <2>2. ASSUME NEW s \in Syncs
          PROVE  CallShape(syncs[s])'
      <3> DEFINE v == syncs'[s]
      <3>1. DOMAIN v.push.raws \subseteq Ids /\ v.push.deleted \subseteq Ids
        <4>1. v.push \in Pushes
          BY <1>2 DEF Base, TypeOK, Calls
        <4> QED  BY <4>1 DEF Pushes, Partial
      <3>2. Forgotten(syncs[s].pull)' \subseteq Ids
        BY DEF Forgotten, LocallyDeleted
      <3>3. OwnShape(syncs[s])' /\ \A id \in Ids : CarriedShape(id, syncs[s])'
        BY <1>2 DEF ByRecord
      <3>4. (PullShape(syncs[s]) /\ ApplyShape(syncs[s]))'
        BY <3>2, <3>3 DEF PullShape, ApplyShape, CarriedShape, CurrentUpTo
      <3>5. PushShape(syncs[s])'
        BY <3>1, <3>3 DEF PushShape, OwnShape, CarriedShape
      <3> QED  BY <3>3, <3>4, <3>5 DEF CallShape, OwnShape
    <2> QED  BY <2>1, <2>2 DEF Rest
  <1> QED  BY <1>1, <1>2

Untouched(id) ==
  /\ local'[id] = local[id] /\ server'[id] = server[id] /\ mine'[id] = mine[id]
  /\ id \in removed' <=> id \in removed
  /\ received \subseteq received'
  /\ UNCHANGED lastPulledAt

\* A record that a step leaves alone.
LEMMA RecordUntouched ==
  ASSUME NEW id \in Ids, Untouched(id)
  PROVE  /\ RecordShape(id) => RecordShape(id)'
         /\ \A s \in Syncs : syncs'[s] = syncs[s] /\ CarriedShape(id, syncs[s]) => CarriedShape(id, syncs[s])'
         /\ \A s \in Syncs : syncs'[s] = syncs[s] /\ OwnShape(syncs[s]) => OwnShape(syncs[s])'
PROOF
  <1>1. RecordShape(id) => RecordShape(id)'
    BY DEF Untouched, RecordShape, Kept, Pending, CurrentAt, Live, LiveOnServer
  <1>2. ASSUME NEW s \in Syncs, syncs'[s] = syncs[s], CarriedShape(id, syncs[s])
        PROVE  CarriedShape(id, syncs[s])'
    BY <1>2 DEF Untouched, CarriedShape, PulledFrom, Forgotten, LocallyDeleted, CurrentAt, Live, LiveOnServer,
                DeletionPushed, Unaccepted, Accepted
  <1>3. ASSUME NEW s \in Syncs, syncs'[s] = syncs[s], OwnShape(syncs[s])
        PROVE  OwnShape(syncs[s])'
    BY <1>3 DEF Untouched, OwnShape, TimeShape
  <1> QED  BY <1>1, <1>2, <1>3

\* A step of one record that leaves the calls where they are.
LEMMA OneRecordStep ==
  ASSUME Base, Rest, Base', NEW id \in Ids, UNCHANGED <<syncs, lastPulledAt>>,
         \A i \in Ids \ {id} : Untouched(i),
         RecordShape(id)', \A s \in Syncs : CarriedShape(id, syncs[s])'
  PROVE  Rest'
PROOF
  <1>1. ByRecord
    BY RestByRecord
  <1>2. ASSUME NEW i \in Ids
        PROVE  RecordShape(i)' /\ \A s \in Syncs : CarriedShape(i, syncs[s])'
    <2>1. CASE i = id
      BY <2>1
    <2>2. CASE i # id
      BY <1>1, <2>2, RecordUntouched DEF ByRecord
    <2> QED  BY <2>1, <2>2
  <1>3. \A s \in Syncs : OwnShape(syncs[s])'
    BY <1>1 DEF ByRecord, OwnShape, TimeShape
  <1> QED  BY <1>2, <1>3, RestByRecord DEF ByRecord

\* Steps of the user.
LEMMA UserStep ==
  ASSUME Base, Rest, Base', NEW id \in Ids,
         \/ \E columns \in Drafts : Create(id, columns)
         \/ (\E c \in Columns : Update(id, c)) \/ MarkAsDeleted(id)
  PROVE  Rest'
PROOF
  <1>1. /\ ByRecord /\ TypeOK /\ RecordShape(id)
        /\ \A s \in Syncs : CarriedShape(id, syncs[s]) /\ syncs[s].phase \notin Applying
    BY RestByRecord DEF ByRecord, Base, Create, Update, MarkAsDeleted, Edit, Writing, Applying
  <1>2. UNCHANGED <<syncs, server, lastPulledAt, received>>
    BY DEF Create, Update, MarkAsDeleted, Edit
  <1>3. local[id] \in Raw \cup {Nothing} /\ mine[id] \in Value
    BY <1>1 DEF TypeOK
  <1>4. ASSUME NEW columns \in Drafts, Create(id, columns)
        PROVE  Rest'
    <2> DEFINE new == [status |-> "created", changed |-> columns,
                       value |-> [c \in Columns |-> IF c \in columns THEN edits' ELSE 0]]
    <2>1. /\ local[id] = Nothing /\ server[id] = Nothing /\ id \notin removed
          /\ \A s \in Syncs : id \notin DOMAIN syncs[s].push.raws \cup syncs[s].push.deleted
          /\ local' = [local EXCEPT ![id] = new]
          /\ mine' = [mine EXCEPT ![id] = [c \in Columns |-> IF c \in columns THEN edits' ELSE @[c]]]
          /\ UNCHANGED removed
      BY <1>4 DEF Create, Edit, Fresh
    <2>2. /\ local'[id] = new
          /\ \A c \in Columns : mine'[id][c] = IF c \in columns THEN edits' ELSE mine[id][c]
          /\ \A i \in Ids \ {id} : local'[i] = local[i] /\ mine'[i] = mine[i]
      BY <1>1, <2>1 DEF TypeOK
    <2>3. /\ local'[id] # Nothing /\ local'[id].status = "created" /\ local'[id].changed = columns
          /\ \A c \in columns : local'[id].value[c] = edits'
      <3>1. edits' \in 0..MaxEdits /\ columns \subseteq Columns /\ 0 \in 0..MaxEdits
        BY DraftsAssumption, BoundsAssumption DEF Base, TypeOK
      <3>2. new \in Raw
        BY <3>1 DEF Raw, Statuses, Value
      <3> QED  BY <2>2, <3>1, <3>2, Something
    <2> HIDE DEF new
    <2>4. \A i \in Ids \ {id} : Untouched(i)
      BY <1>2, <2>1, <2>2 DEF Untouched
    <2>5. RecordShape(id)'
      <3>1. ASSUME NEW c \in Columns
            PROVE  Kept(id, c)'
        BY <1>1, <1>2, <2>1, <2>2, <2>3 DEF RecordShape, Kept, Pending
      <3> QED  BY <1>2, <2>1, <2>3, <3>1 DEF RecordShape, CurrentAt
    <2>6. \A s \in Syncs : CarriedShape(id, syncs[s])'
      BY <1>1, <1>2, <2>1 DEF CarriedShape, PulledFrom, LiveOnServer, Applying
    <2> QED  BY <1>2, <2>4, <2>5, <2>6, OneRecordStep
  <1>5. ASSUME NEW c \in Columns, Update(id, c)
        PROVE  Rest'
    <2> DEFINE old == local[id]
               new == [status |-> IF old.status = "created" THEN "created" ELSE "updated",
                       changed |-> old.changed \cup {c},
                       value |-> [old.value EXCEPT ![c] = edits']]
    <2>1. /\ old # Nothing /\ old.status # "deleted"
          /\ local' = [local EXCEPT ![id] = new]
          /\ mine' = [mine EXCEPT ![id] = [d \in Columns |-> IF d \in {c} THEN edits' ELSE @[d]]]
          /\ UNCHANGED removed
      BY <1>5 DEF Update, Edit, Live
    <2>2. /\ local'[id] = new
          /\ mine'[id][c] = edits' /\ \A d \in Columns \ {c} : mine'[id][d] = mine[id][d]
          /\ \A i \in Ids \ {id} : local'[i] = local[i] /\ mine'[i] = mine[i]
      BY <1>1, <2>1 DEF TypeOK
    <2>3. old.status \in Statuses /\ old.value \in Value
      BY <1>3, <2>1, Something
    <2>4. /\ new.status = IF old.status = "created" THEN "created" ELSE "updated"
          /\ new.changed = old.changed \cup {c}
          /\ new.value[c] = edits' /\ \A d \in Columns \ {c} : new.value[d] = old.value[d]
      BY <2>3 DEF Value
    <2>5. old.changed \subseteq Columns /\ edits' \in 0..MaxEdits
      BY <1>3, <2>1, Something DEF Base, TypeOK
    <2>6. new \in Raw /\ new # Nothing
      BY <2>3, <2>5, Something DEF Raw, Statuses, Value
    <2> HIDE DEF new
    <2>7. \A i \in Ids \ {id} : Untouched(i)
      BY <1>2, <2>1, <2>2 DEF Untouched
    <2>8. id \notin removed
      BY <1>1, <2>1 DEF RecordShape, Live
    <2>9. RecordShape(id)'
      <3>1. ASSUME NEW d \in Columns
            PROVE  Kept(id, d)'
        BY <1>1, <1>2, <2>1, <2>2, <2>4, <2>6 DEF RecordShape, Kept, Pending
      <3>2. CurrentAt(id, lastPulledAt)'
        BY <1>1, <1>2, <2>1, <2>2, <2>4, <2>6 DEF RecordShape, CurrentAt, Live
      <3> QED  BY <1>1, <1>2, <2>1, <2>2, <2>3, <2>4, <2>8, <3>1, <3>2 DEF RecordShape, Statuses
    <2>10. ASSUME NEW s \in Syncs
           PROVE  CarriedShape(id, syncs[s])'
      <3>1. CarriedShape(id, syncs[s]) /\ syncs[s].phase \notin Applying /\ UNCHANGED syncs
        BY <1>1, <1>2
      <3>2. id \notin syncs[s].push.deleted
        BY <2>1, <3>1 DEF CarriedShape, DeletionPushed
      <3>3. Unaccepted(id, syncs[s].push) => Unaccepted(id, syncs[s].push)'
        BY <2>1, <2>2, <2>4, <2>6, <2>8, <3>1 DEF Unaccepted
      <3>4. PulledFrom(id, syncs[s].pull, syncs[s].since, syncs[s].stamp) =>
              PulledFrom(id, syncs[s].pull, syncs[s].since, syncs[s].stamp)'
        BY <1>2, <2>1, <2>2, <2>6, <3>1 DEF PulledFrom, LiveOnServer
      <3> QED
        BY <1>2, <3>1, <3>2, <3>3, <3>4 DEF CarriedShape, Applying, Accepted, LiveOnServer
    <2> QED  BY <1>2, <2>7, <2>9, <2>10, OneRecordStep
  <1>6. CASE MarkAsDeleted(id)
    <2>1. /\ local[id] # Nothing
          /\ local' = [local EXCEPT ![id].status = "deleted"]
          /\ mine' = [mine EXCEPT ![id] = [c \in Columns |-> 0]]
          /\ removed' = removed \cup {id}
      BY <1>6 DEF MarkAsDeleted, Live
    <2>2. /\ local'[id] = [local[id] EXCEPT !.status = "deleted"]
          /\ \A c \in Columns : mine'[id][c] = 0
          /\ \A i \in Ids \ {id} : local'[i] = local[i] /\ mine'[i] = mine[i]
      BY <1>1, <2>1 DEF TypeOK
    <2>3. local'[id] # Nothing /\ local'[id].status = "deleted"
      BY <1>3, <2>1, <2>2, Something DEF Raw, Statuses
    <2>4. \A i \in Ids \ {id} : Untouched(i)
      BY <1>2, <2>1, <2>2 DEF Untouched
    <2>5. RecordShape(id)'
      BY <1>1, <1>2, <2>1, <2>2, <2>3 DEF RecordShape, Kept, CurrentAt, Live
    <2>6. \A s \in Syncs : CarriedShape(id, syncs[s])'
      BY <1>1, <1>2, <2>1, <2>2, <2>3
         DEF CarriedShape, PulledFrom, LiveOnServer, Applying, DeletionPushed, Unaccepted, Accepted
    <2> QED  BY <1>2, <2>4, <2>5, <2>6, OneRecordStep
  <1> QED  BY <1>4, <1>5, <1>6

\* Steps of other clients.
LEMMA OtherStep ==
  ASSUME Base, Rest, Base', NEW id \in Ids,
         OtherCreates(id) \/ (\E c \in Columns : OtherUpdates(id, c)) \/ OtherDeletes(id)
  PROVE  Rest'
PROOF
  <1>1. /\ ByRecord /\ TypeOK /\ RecordShape(id)
        /\ \A s \in Syncs : CarriedShape(id, syncs[s])
    BY RestByRecord DEF ByRecord, Base
  <1>2. /\ UNCHANGED <<syncs, local, lastPulledAt, received, mine, removed>>
        /\ \A i \in Ids \ {id} : server'[i] = server[i]
    BY <1>1 DEF OtherCreates, OtherUpdates, OtherDeletes, OtherClient, database, TypeOK
  <1>3. \A i \in Ids \ {id} : Untouched(i)
    BY <1>2 DEF Untouched
  <1>4. /\ server'[id] # Nothing /\ server'[id].at = now + 1
        /\ \/ Fresh(id)
           \/ LiveOnServer(id) /\ server'[id].deleted \in {TRUE, server[id].deleted}
    <2>1. PICK row \in Row : /\ OtherClient(id, row) /\ row.at = now + 1
                             /\ \/ Fresh(id)
                                \/ LiveOnServer(id) /\ row.deleted \in {TRUE, server[id].deleted}
      BY OtherEffect DEF OtherCreates, OtherUpdates, OtherDeletes
    <2>2. server'[id] = row
      BY <1>1, <2>1 DEF OtherClient, TypeOK
    <2> QED  BY <2>1, <2>2, Something
  <1>5. /\ server'[id].at > lastPulledAt /\ ~(server'[id].at <= lastPulledAt)
        /\ \A s \in Syncs : ~(server'[id].at <= syncs[s].stamp) /\ server'[id].at > syncs[s].since
    <2>1. ClocksTyped /\ CallsTyped(syncs, now, resetting)
      BY BaseParts
    <2>2. \A s \in Syncs : /\ syncs[s].stamp \in Nat /\ syncs[s].stamp <= now
                           /\ syncs[s].since \in Nat /\ syncs[s].since <= now
      BY <2>1 DEF CallsTyped, Calls
    <2> QED  BY <1>4, <2>1, <2>2 DEF ClocksTyped
  <1>6. CASE Fresh(id)
    <2>1. RecordShape(id)'
      BY <1>1, <1>2, <1>4, <1>5, <1>6 DEF Fresh, RecordShape, Kept, Pending, CurrentAt
    <2>2. \A s \in Syncs : CarriedShape(id, syncs[s])'
      BY <1>1, <1>2, <1>4, <1>5, <1>6
         DEF Fresh, CarriedShape, PulledFrom, Forgotten, LocallyDeleted, CurrentAt
    <2> QED  BY <1>2, <1>3, <2>1, <2>2, OneRecordStep
  <1>7. CASE LiveOnServer(id) /\ server'[id].deleted \in {TRUE, server[id].deleted}
    <2>1. RecordShape(id)'
      BY <1>1, <1>2, <1>4, <1>5, <1>7 DEF LiveOnServer, RecordShape, Kept, Pending, CurrentAt, Live
    <2>2. ASSUME NEW s \in Syncs
          PROVE  CarriedShape(id, syncs[s])'
      <3>1. CarriedShape(id, syncs[s])
        BY <1>1
      <3>2. PulledFrom(id, syncs[s].pull, syncs[s].since, syncs[s].stamp) =>
              PulledFrom(id, syncs[s].pull, syncs[s].since, syncs[s].stamp)'
        BY <1>2, <1>4, <1>5, <1>7 DEF LiveOnServer, PulledFrom
      <3>3. DeletionPushed(id, syncs[s].push) => DeletionPushed(id, syncs[s].push)'
        BY <1>2 DEF DeletionPushed
      <3>4. Unaccepted(id, syncs[s].push) => Unaccepted(id, syncs[s].push)'
        BY <1>2 DEF Unaccepted
      <3>5. Accepted(id, syncs[s].push) => Accepted(id, syncs[s].push)'
        BY <1>2, <1>4, <1>5 DEF Accepted
      <3>6. ~CurrentAt(id, syncs[s].stamp)' => FALSE
        BY <1>2, <1>4, <1>5 DEF CurrentAt
      <3>7. syncs'[s] = syncs[s] /\ Forgotten(syncs[s].pull)' = Forgotten(syncs[s].pull)
        BY <1>2 DEF Forgotten, LocallyDeleted
      <3> QED
        BY <1>7, <3>1, <3>2, <3>3, <3>4, <3>5, <3>6, <3>7 DEF CarriedShape
    <2> QED  BY <1>2, <1>3, <2>1, <2>2, OneRecordStep
  <1> QED  BY <1>4, <1>6, <1>7

-----------------------------------------------------------------------------
\* A step of the one call.
LEMMA OneCallStep ==
  ASSUME OneCall, Base', NEW s \in Syncs, OwnShape(syncs[s])',
         \A id \in Ids : RecordShape(id)' /\ CarriedShape(id, syncs[s])'
  PROVE  Rest'
BY RestByRecord DEF OneCall, ByRecord

\* What holds of the one call before its step.
LEMMA BeforeStep ==
  ASSUME Base, Rest, NEW s \in Syncs
  PROVE  /\ TypeOK /\ syncs[s] \in Calls /\ OwnShape(syncs[s])
         /\ syncs[s].pull \in Pulls /\ syncs[s].push \in Pushes
         /\ \A id \in Ids :
              /\ RecordShape(id) /\ CarriedShape(id, syncs[s])
              /\ local[id] \in Raw \cup {Nothing} /\ server[id] \in Row \cup {Nothing}
              /\ mine[id] \in Value
PROOF
  <1>1. ByRecord /\ TypeOK /\ syncs[s] \in Calls
    BY RestByRecord DEF Base, TypeOK
  <1> QED  BY <1>1 DEF ByRecord, Calls, TypeOK

LEMMA StampStep ==
  ASSUME OneCall, Base, Rest, Base', NEW s \in Syncs, Stamp(s)
  PROVE  Rest'
PROOF
  <1> DEFINE w == syncs[s] v == syncs'[s]
  <1>1. /\ w.phase = "stamping" /\ lastPulledAt' = w.stamp
        /\ UNCHANGED <<local, server, mine, received, removed>>
        /\ v.phase = "ready" /\ v.push = w.push
    BY BeforeStep, NewCall DEF Stamp, In, history
  <1>2. v.push = NoPush /\ NoPush.deleted = {}
    BY <1>1, BeforeStep DEF OwnShape, BeforePush, NoPush
  <1>3. OwnShape(syncs[s])'
    BY <1>1, <1>2 DEF OwnShape, TimeShape, Applying
  <1>4. ASSUME NEW id \in Ids
        PROVE  RecordShape(id)' /\ CarriedShape(id, syncs[s])'
    <2>1. RecordShape(id) /\ CurrentAt(id, w.stamp)
      BY <1>1, BeforeStep DEF CarriedShape
    <2>2. RecordShape(id)'
      BY <1>1, <2>1 DEF RecordShape, Kept, Pending, CurrentAt, Live, LiveOnServer
    <2>3. CarriedShape(id, syncs[s])'
      BY <1>1, <1>2 DEF CarriedShape, AfterPush
    <2> QED  BY <2>2, <2>3
  <1> QED  BY <1>3, <1>4, OneCallStep

\* Local records that are deleted on the server are gone before the batch.
LEMMA StartApplyStep ==
  ASSUME OneCall, Base, Rest, Base', NEW s \in Syncs, StartApply(s)
  PROVE  Rest'
PROOF
  <1> DEFINE w == syncs[s] v == syncs'[s]
  <1>1. w.phase = "pulled" /\ UNCHANGED <<lastPulledAt, server, mine, received, removed>>
    BY DEF StartApply, In, history
  <1>2. CASE End(s) /\ UNCHANGED local
    <2>1. DataUnchanged /\ Data /\ Data'
      BY <1>1, <1>2, DataKept DEF DataUnchanged, Rest
    <2>2. CallShape(syncs[s])'
      BY <1>2, BeforeStep, NewCall, CallIdle
    <2> QED  BY <2>1, <2>2 DEF Rest, OneCall
  <1>3. CASE ~(End(s) /\ UNCHANGED local)
    <2>1. /\ w.since = lastPulledAt
          /\ local' = [id \in Ids |-> IF id \in Forgotten(w.pull) THEN Nothing ELSE local[id]]
          /\ GoTo(s, "batching")
      BY <1>3 DEF StartApply
    <2>2. /\ v.phase = "batching" /\ v.since = w.since /\ v.stamp = w.stamp
          /\ v.pull = w.pull /\ v.push = w.push
      BY <2>1, BeforeStep, NewCall
    <2>3. w.push = NoPush /\ NoPush.deleted = {} /\ w.since <= w.stamp
      BY <1>1, BeforeStep DEF OwnShape, TimeShape, BeforePush, NoPush
    <2>4. OwnShape(syncs[s])'
      BY <1>1, <2>1, <2>2, <2>3 DEF OwnShape, TimeShape, Applying
    <2>5. ASSUME NEW id \in Ids
          PROVE  RecordShape(id)' /\ CarriedShape(id, syncs[s])'
      <3>1. RecordShape(id) /\ PulledFrom(id, w.pull, w.since, w.stamp)
        BY <1>1, BeforeStep DEF CarriedShape
      <3>2. CASE id \in Forgotten(w.pull)
        <4>1. local[id] # Nothing /\ local[id].status = "deleted" /\ local'[id] = Nothing
          BY <2>1, <3>2 DEF Forgotten, LocallyDeleted
        <4>2. ~LiveOnServer(id) /\ id \notin DOMAIN w.pull.rows
          BY <3>1, <3>2, <4>1 DEF Forgotten, PulledFrom, LiveOnServer
        <4>3. RecordShape(id)'
          BY <1>1, <3>1, <4>1, <4>2 DEF RecordShape, Kept, CurrentAt, LiveOnServer
        <4>4. PulledFrom(id, syncs[s].pull, syncs[s].since, syncs[s].stamp)'
          BY <1>1, <2>2, <3>1, <4>1, <4>2 DEF PulledFrom, LiveOnServer
        <4>5. id \notin Forgotten(syncs[s].pull)'
          BY <4>1 DEF Forgotten, LocallyDeleted
        <4> QED  BY <2>2, <2>3, <4>3, <4>4, <4>5 DEF CarriedShape, AfterPush
      <3>3. CASE id \notin Forgotten(w.pull)
        <4>1. Untouched(id) /\ UNCHANGED server
          BY <1>1, <2>1, <3>3 DEF Untouched
        <4>2. RecordShape(id)'
          BY <3>1, <4>1, RecordUntouched
        <4>3. PulledFrom(id, syncs[s].pull, syncs[s].since, syncs[s].stamp)'
          BY <2>2, <3>1, <4>1 DEF PulledFrom, LiveOnServer, Untouched
        <4>4. id \notin Forgotten(syncs[s].pull)'
          BY <2>2, <3>3, <4>1 DEF Forgotten, LocallyDeleted, Untouched
        <4> QED  BY <2>2, <2>3, <4>2, <4>3, <4>4 DEF CarriedShape, AfterPush
      <3> QED  BY <3>2, <3>3
    <2> QED  BY <2>4, <2>5, OneCallStep
  <1> QED  BY <1>2, <1>3

\* A merged record, and a record as it was pulled.
LEMMA Merged ==
  ASSUME NEW raw \in Raw, NEW remote \in Value
  PROVE  /\ LET m == ResolveConflict(raw, remote) IN
            /\ m # Nothing /\ m.status = raw.status /\ m.changed = raw.changed
            /\ \A c \in Columns : m.value[c] = IF c \in raw.changed THEN raw.value[c] ELSE remote[c]
         /\ LET m == Synced(remote) IN
            m # Nothing /\ m.status = "synced" /\ m.changed = {} /\ m.value = remote
PROOF
  <1>1. [c \in Columns |-> IF c \in raw.changed THEN raw.value[c] ELSE remote[c]] \in Value
    BY DEF Raw, Value
  <1>2. ResolveConflict(raw, remote) \in Raw
    BY <1>1 DEF ResolveConflict, Raw
  <1>3. Synced(remote) \in Raw
    BY DEF Synced, Raw, Statuses
  <1> QED  BY <1>2, <1>3, Something DEF ResolveConflict, Synced, Raw

\* A record that is to be created again is gone, until this pull or the next
\* brings it.
LEMMA RecreateStep ==
  ASSUME OneCall, Base, Rest, Base', NEW s \in Syncs, Recreate(s)
  PROVE  Rest'
PROOF
  <1> DEFINE w == syncs[s] pull == w.pull
  <1>1. /\ w.phase = "batching" /\ UNCHANGED <<lastPulledAt, syncs, server, mine, received>>
        /\ local' = [id \in Ids |-> IF id \in Recreated(pull) THEN Nothing ELSE local[id]]
        /\ removed' = removed \ Recreated(pull)
    BY DEF Recreate, In, Recreated
  <1>2. w.push = NoPush /\ NoPush.deleted = {} /\ w.since = lastPulledAt
    BY <1>1, BeforeStep DEF OwnShape, TimeShape, Applying, BeforePush, NoPush
  <1>3. OwnShape(syncs[s])'
    BY <1>1, BeforeStep DEF OwnShape, TimeShape
  <1>4. ASSUME NEW id \in Ids
        PROVE  RecordShape(id)' /\ CarriedShape(id, syncs[s])'
    <2>1. RecordShape(id) /\ CarriedShape(id, w) /\ PulledFrom(id, pull, w.since, w.stamp)
      BY <1>1, BeforeStep DEF CarriedShape
    <2>2. CASE id \in Recreated(pull)
      <3>1. /\ local[id] # Nothing /\ local[id].status = "deleted" /\ id \in pull.created
            /\ local'[id] = Nothing /\ id \notin removed'
        BY <1>1, <2>2 DEF Recreated, LocallyDeleted
      <3>2. ~(server[id].at <= lastPulledAt)
        <4>1. server[id] # Nothing /\ server[id].at > lastPulledAt
          BY <1>2, <2>1, <3>1 DEF PulledFrom
        <4>2. server[id].at \in Nat /\ lastPulledAt \in Nat
          BY <4>1, BeforeStep, Something DEF TypeOK
        <4> QED  BY <4>1, <4>2
      <3>3. \A c \in Columns : mine[id][c] = 0
        BY <2>1, <3>1 DEF RecordShape
      <3>4. RecordShape(id)'
        BY <1>1, <3>1, <3>2, <3>3 DEF RecordShape, Kept, CurrentAt
      <3>5. PulledFrom(id, syncs[s].pull, syncs[s].since, syncs[s].stamp)'
        BY <1>1, <2>1, <3>1 DEF PulledFrom, LiveOnServer
      <3>6. id \notin Forgotten(syncs[s].pull)'
        BY <3>1 DEF Forgotten, LocallyDeleted
      <3> QED  BY <1>1, <1>2, <3>4, <3>5, <3>6 DEF CarriedShape, AfterPush
    <2>3. CASE id \notin Recreated(pull)
      <3>1. Untouched(id) /\ UNCHANGED syncs
        BY <1>1, <2>3 DEF Untouched
      <3> QED  BY <2>1, <3>1, RecordUntouched
    <2> QED  BY <2>2, <2>3
  <1> QED  BY <1>3, <1>4, OneCallStep

\* After the batch the database is as current as the pull.
LEMMA BatchStep ==
  ASSUME OneCall, Base, Rest, Base', NEW s \in Syncs, Batch(s)
  PROVE  Rest'
PROOF
  <1> DEFINE w == syncs[s] v == syncs'[s] pull == w.pull
  <1>1. /\ w.phase = "batching" /\ UNCHANGED <<lastPulledAt, server, mine, received>>
        /\ local' = Applied(pull) /\ UNCHANGED removed
        /\ v.phase = "stamping" /\ v.since = w.since /\ v.stamp = w.stamp /\ v.push = w.push
    BY BeforeStep, NewCall DEF Batch, In, history
  <1>2. w.push = NoPush /\ NoPush.deleted = {} /\ w.since <= w.stamp /\ w.since = lastPulledAt
    BY <1>1, BeforeStep DEF OwnShape, TimeShape, Applying, BeforePush, NoPush
  <1>3. OwnShape(syncs[s])'
    BY <1>1, <1>2 DEF OwnShape, TimeShape, Applying
  <1>4. ASSUME NEW id \in Ids
        PROVE  RecordShape(id)' /\ CurrentAt(id, w.stamp)'
    <2>1. /\ RecordShape(id) /\ PulledFrom(id, pull, w.since, w.stamp) /\ id \notin Forgotten(pull)
          /\ local[id] # Nothing => local[id] \in Raw
      BY <1>1, BeforeStep DEF CarriedShape
    <2>2. id \in DOMAIN pull.rows => pull.rows[id] \in Value
      BY BeforeStep, CarriedTyped
    <2>3. local'[id] = IF id \in DOMAIN pull.rows
                       THEN IF Live(id) THEN ResolveConflict(local[id], pull.rows[id])
                            ELSE IF id \in LocallyDeleted THEN local[id]
                            ELSE Synced(pull.rows[id])
                       ELSE IF id \in Destroyed(pull) THEN Nothing
                       ELSE local[id]
      BY <1>1 DEF Applied
    <2>4. id \in removed' <=> id \in removed
      BY <1>1
    <2>5. CurrentAt(id, w.stamp)' => CurrentAt(id, lastPulledAt)'
      <3>1. server[id] # Nothing /\ server[id].at <= lastPulledAt => server[id].at <= w.stamp
        <4>1. w.stamp \in Nat /\ lastPulledAt \in Nat
          BY BeforeStep DEF Calls, TypeOK
        <4>2. server[id] # Nothing => server[id].at \in Nat
          BY BeforeStep, Something
        <4> QED  BY <1>2, <4>1, <4>2
      <3> QED  BY <1>1, <3>1 DEF CurrentAt, Live
    <2> HIDE DEF pull
    <2>6. CASE id \in DOMAIN pull.rows /\ Live(id)
      <3>1. local[id] # Nothing /\ id \notin removed /\ server[id] # Nothing
        BY <2>1, <2>6 DEF Live, RecordShape, PulledFrom
      <3>2. /\ local'[id] # Nothing /\ local'[id].status = local[id].status
            /\ local'[id].changed = local[id].changed
            /\ \A c \in Columns : local'[id].value[c] =
                 IF c \in local[id].changed THEN local[id].value[c] ELSE pull.rows[id][c]
        BY <2>1, <2>2, <2>3, <2>6, <3>1, Merged
      <3>3. \A c \in Columns : Kept(id, c)'
        BY <1>1, <2>1, <3>1, <3>2 DEF RecordShape, Kept, Pending
      <3>4. CurrentAt(id, w.stamp)'
        BY <1>1, <2>1, <2>6, <3>2 DEF CurrentAt, PulledFrom
      <3> QED  BY <1>1, <2>1, <2>4, <2>5, <3>1, <3>2, <3>3, <3>4 DEF RecordShape
    <2>7. CASE id \in DOMAIN pull.rows /\ id \in LocallyDeleted
      <3>1. local'[id] = local[id] /\ local[id] # Nothing /\ local[id].status = "deleted"
        BY <2>3, <2>7 DEF Live, LocallyDeleted
      <3>2. CurrentAt(id, w.stamp)'
        BY <1>1, <2>1, <2>7, <3>1 DEF CurrentAt, PulledFrom, Live
      <3> QED  BY <1>1, <2>1, <2>4, <2>5, <3>1, <3>2 DEF RecordShape, Kept, Pending, Live
    <2>8. CASE id \in DOMAIN pull.rows /\ ~Live(id) /\ id \notin LocallyDeleted
      <3>1. /\ local'[id] # Nothing /\ local'[id].status = "synced"
            /\ local'[id].value = pull.rows[id]
        <4>1. local'[id] = Synced(pull.rows[id]) /\ pull.rows[id] \in Value
          BY <2>2, <2>3, <2>8
        <4>2. Synced(pull.rows[id]) \in Raw
          BY <4>1 DEF Synced, Raw, Statuses
        <4>3. local'[id] \in Raw
          BY <4>1, <4>2
        <4>4. local'[id] # Nothing
          BY <4>3, Something
        <4>5. local'[id].status = "synced" /\ local'[id].value = pull.rows[id]
          BY <4>1 DEF Synced
        <4> QED  BY <4>4, <4>5
      <3>2. local[id] = Nothing
        BY <2>8 DEF Live, LocallyDeleted
      <3>3. server[id] # Nothing /\ id \notin removed'
        BY <2>1, <2>4, <2>8, <3>2 DEF PulledFrom
      <3>4. \A c \in Columns : Kept(id, c)'
        BY <1>1, <2>1, <3>2, <3>3 DEF RecordShape, Kept, Pending
      <3>5. CurrentAt(id, w.stamp)'
        BY <1>1, <2>1, <2>8, <3>1 DEF CurrentAt, PulledFrom
      <3> QED  BY <1>1, <2>5, <3>1, <3>3, <3>4, <3>5 DEF RecordShape
    <2>9. CASE id \notin DOMAIN pull.rows /\ id \in Destroyed(pull)
      <3>1. local'[id] = Nothing
        BY <2>3, <2>9
      <3>2. server[id] # Nothing /\ server[id].deleted
        BY <2>1, <2>9, Something DEF Destroyed, Live, PulledFrom, RecordShape, LiveOnServer, Statuses
      <3> QED  BY <1>1, <2>5, <3>1, <3>2 DEF RecordShape, Kept, CurrentAt, LiveOnServer
    <2>10. CASE id \notin DOMAIN pull.rows /\ id \notin Destroyed(pull)
      <3>1. local'[id] = local[id]
        BY <2>3, <2>10
      <3>2. CurrentAt(id, w.stamp)'
        <4>1. SUFFICES ASSUME server[id] # Nothing, server[id].at <= w.stamp
                       PROVE  CurrentAt(id, w.stamp)'
          BY <1>1 DEF CurrentAt
        <4>2. CASE server[id].at <= lastPulledAt
          BY <1>1, <2>1, <3>1, <4>1, <4>2 DEF RecordShape, CurrentAt, Live
        <4>3. CASE server[id].at > w.since
          <5>1. server[id].deleted /\ id \in pull.deleted
            BY <2>1, <2>10, <4>1, <4>3 DEF PulledFrom
          <5>2. local[id] = Nothing
            BY <2>1, <2>10, <5>1 DEF Destroyed, Forgotten, Live, LocallyDeleted
          <5> QED  BY <1>1, <3>1, <5>1, <5>2 DEF CurrentAt
        <4>4. server[id].at <= lastPulledAt \/ server[id].at > w.since
          <5>1. server[id].at \in Nat /\ lastPulledAt \in Nat
            BY <4>1, BeforeStep, Something DEF TypeOK
          <5> QED  BY <1>2, <5>1
        <4> QED  BY <4>2, <4>3, <4>4
      <3> QED  BY <1>1, <2>1, <2>4, <2>5, <3>1, <3>2 DEF RecordShape, Kept, Pending, Live, LiveOnServer
    <2> QED  BY <2>6, <2>7, <2>8, <2>9, <2>10
  <1>5. \A id \in Ids : CarriedShape(id, syncs[s])'
    BY <1>1, <1>2, <1>4 DEF CarriedShape, AfterPush, CurrentAt, Live
  <1> QED  BY <1>3, <1>4, <1>5, OneCallStep

-----------------------------------------------------------------------------
\* The push reaches the server.
LEMMA AcceptStep ==
  ASSUME OneCall, Base, Rest, Base', NEW s \in Syncs, ServerAccepts(s)
  PROVE  Rest'
PROOF
  <1> DEFINE w == syncs[s] v == syncs'[s] push == w.push
  <1>1. PICK rejected \in SUBSET (DOMAIN push.raws \cup push.deleted) :
          LET applied == DOMAIN push.raws \ rejected IN
          /\ Conflicts(push, w.stamp) \subseteq rejected
          /\ server' = [id \in Ids |->
               IF id \in applied
               THEN [born |-> IF server[id] = Nothing THEN now + 1 ELSE server[id].born,
                     at |-> now + 1, deleted |-> FALSE, value |-> push.raws[id].value]
               ELSE IF id \in push.deleted \ rejected /\ LiveOnServer(id)
               THEN [server[id] EXCEPT !.deleted = TRUE, !.at = now + 1]
               ELSE server[id]]
          /\ received' = received \cup UNION {{push.raws[id].value[c] : c \in Columns} : id \in applied}
          /\ syncs' = [syncs EXCEPT ![s].phase = "answering", ![s].push.rejected = rejected]
    BY DEF ServerAccepts
  <1>2. /\ w.phase = "pushing" /\ UNCHANGED <<local, lastPulledAt, mine, removed>>
        /\ TypeOK /\ push \in Pushes
    BY BeforeStep DEF ServerAccepts, In, database, history
  <1>3. DOMAIN push.raws \subseteq Ids /\ push.deleted \subseteq Ids
    BY <1>2, CarriedTyped
  <1>4. /\ v.phase = "answering" /\ v.push.raws = push.raws /\ v.push.deleted = push.deleted
        /\ v.push.rejected = rejected
    <2>1. rejected \in SUBSET Ids
      BY <1>3
    <2> DEFINE pushed == [raws |-> push.raws, deleted |-> push.deleted, rejected |-> rejected]
    <2>2. Becomes(s, Record("answering", w.resets, w.since, w.stamp, w.pull, pushed))
      BY <1>1, <1>2, <2>1, AcceptEffect
    <2>3. v = Record("answering", w.resets, w.since, w.stamp, w.pull, pushed)
      BY <1>2, <2>2 DEF Becomes, TypeOK
    <2>4. v.phase = "answering" /\ v.push = pushed
      BY <2>3 DEF Record
    <2> QED  BY <2>4
  <1>5. OwnShape(syncs[s])'
    BY <1>4 DEF OwnShape, TimeShape, Applying, BeforePush
  <1>6. received \subseteq received'
    BY <1>1
  <1>7. \A time \in {lastPulledAt} : now + 1 > time /\ ~(now + 1 <= time)
    BY <1>2 DEF TypeOK
  <1> HIDE DEF w, push
  <1>8. ASSUME NEW id \in Ids
        PROVE  RecordShape(id)' /\ CarriedShape(id, syncs[s])'
    <2>1. RecordShape(id) /\ CarriedShape(id, w)
      BY BeforeStep DEF w
    <2>2. \A c \in Columns : id \in DOMAIN push.raws \ rejected => push.raws[id].value[c] \in received'
      <3>1. ASSUME NEW c \in Columns, id \in DOMAIN push.raws \ rejected
            PROVE  push.raws[id].value[c] \in UNION {{push.raws[i].value[d] : d \in Columns} : i \in DOMAIN push.raws \ rejected}
        BY <3>1
      <3> QED  BY <1>1, <3>1
    <2>3. DeletionPushed(id, push) => DeletionPushed(id, syncs[s].push)'
      BY <1>2, <1>4 DEF DeletionPushed
    <2>4. SUFFICES /\ RecordShape(id)'
                   /\ id \in DOMAIN push.raws \ rejected => Accepted(id, syncs[s].push)'
                   /\ id \in push.deleted \ rejected => ~LiveOnServer(id)'
      BY <1>2, <1>4, <2>1, <2>3 DEF CarriedShape, AfterPush, w, v, push
    <2>5. CASE id \in DOMAIN push.raws \ rejected
      <3>1. server'[id] = [born |-> IF server[id] = Nothing THEN now + 1 ELSE server[id].born,
                           at |-> now + 1, deleted |-> FALSE, value |-> push.raws[id].value]
        BY <1>1, <2>5
      <3>2. server'[id].at = now + 1 /\ ~server'[id].deleted
        BY <3>1
      <3>3. server'[id] # Nothing
        <4>1. server'[id] \in Row
          <5>1. (IF server[id] = Nothing THEN now + 1 ELSE server[id].born) \in Nat /\ now + 1 \in Nat
            BY <1>2, BeforeStep, Something DEF TypeOK
          <5>2. push.raws[id].value \in Value
            BY <1>2, <2>5, CarriedTyped, Something
          <5> QED  BY <3>1, <5>1, <5>2 DEF Row
        <4> QED  BY <4>1, Something
      <3>4. Unaccepted(id, push) /\ id \notin push.deleted
        BY <1>2, <2>1, <2>5 DEF CarriedShape, DeletionPushed, w, push
      <3>5. server[id] = Nothing \/ ~server[id].deleted
        BY <1>1, <2>5 DEF Conflicts
      <3>6. ASSUME NEW c \in Columns
            PROVE  Kept(id, c)'
        BY <1>2, <1>6, <2>1, <3>5 DEF RecordShape, Kept, Pending
      <3>7. id \in removed => local[id] # Nothing /\ ~Live(id)
        BY <2>1, <3>4 DEF Unaccepted, RecordShape
      <3>8. ~CurrentAt(id, lastPulledAt)' => FALSE
        BY <1>2, <1>7, <3>2 DEF CurrentAt
      <3>9. RecordShape(id)'
        BY <1>2, <2>1, <3>3, <3>6, <3>7, <3>8 DEF RecordShape, Live
      <3>10. Accepted(id, syncs[s].push)'
        BY <1>2, <1>4, <1>7, <2>2, <2>5, <3>2, <3>3, <3>4 DEF Accepted, Unaccepted
      <3> QED  BY <3>4, <3>9, <3>10
    <2>6. CASE id \notin DOMAIN push.raws \ rejected /\ id \in push.deleted \ rejected /\ LiveOnServer(id)
      <3>1. server'[id] = [server[id] EXCEPT !.deleted = TRUE, !.at = now + 1]
        BY <1>1, <2>6
      <3>2. server[id] \in Row /\ now + 1 \in Nat
        BY <1>2, <2>6, BeforeStep DEF LiveOnServer, TypeOK
      <3>3. server'[id] \in Row /\ server'[id].at = now + 1 /\ server'[id].deleted = TRUE
        BY <3>1, <3>2, RowDeleted
      <3>4. server'[id] # Nothing /\ server[id] # Nothing
        BY <2>6, <3>3, Something DEF LiveOnServer
      <3>5. ~CurrentAt(id, lastPulledAt)' => FALSE
        BY <1>2, <1>7, <3>3 DEF CurrentAt
      <3> QED
        BY <1>2, <2>1, <2>6, <3>3, <3>4, <3>5 DEF RecordShape, Kept, Pending, LiveOnServer, Live
    <2>7. CASE /\ id \notin DOMAIN push.raws \ rejected
               /\ ~(id \in push.deleted \ rejected /\ LiveOnServer(id))
      <3>1. server'[id] = server[id]
        BY <1>1, <2>7
      <3>2. Untouched(id)
        BY <1>2, <1>6, <3>1 DEF Untouched
      <3> QED  BY <2>1, <2>7, <3>1, <3>2, RecordUntouched DEF LiveOnServer
    <2> QED  BY <2>5, <2>6, <2>7
  <1> QED  BY <1>5, <1>8, OneCallStep

\* What was pushed and has not changed since is marked.
LEMMA MarkStep ==
  ASSUME OneCall, Base, Rest, Base', NEW s \in Syncs, Mark(s)
  PROVE  Rest'
PROOF
  <1> DEFINE w == syncs[s] v == syncs'[s] push == w.push
  <1>1. /\ w.phase = "marking" /\ UNCHANGED <<lastPulledAt, server, mine, received, removed>>
        /\ local' = [id \in Ids |-> IF id \in RecordsToMark(push) THEN MarkedAsSynced(local[id]) ELSE local[id]]
        /\ v.phase = "forgetting" /\ v.push = push
    BY BeforeStep, NewCall DEF Mark, In, history
  <1>2. OwnShape(syncs[s])'
    BY <1>1 DEF OwnShape, TimeShape, Applying, BeforePush
  <1>3. ASSUME NEW id \in Ids
        PROVE  RecordShape(id)' /\ CarriedShape(id, syncs[s])'
    <2>1. RecordShape(id) /\ CarriedShape(id, w)
      BY BeforeStep
    <2>2. CASE id \in RecordsToMark(push)
      <3>1. id \in DOMAIN push.raws \ push.rejected /\ local[id] = push.raws[id] /\ local[id] \in Raw
        BY <2>2, BeforeStep, CarriedTyped DEF RecordsToMark
      <3>2. Accepted(id, push) /\ id \notin push.deleted
        BY <1>1, <2>1, <3>1 DEF CarriedShape, AfterPush, DeletionPushed
      <3>3. local'[id] = Synced(local[id].value)
        BY <1>1, <2>2 DEF MarkedAsSynced
      <3>4. local'[id] # Nothing /\ local'[id].status = "synced"
        <4>1. local[id].value \in Value
          BY <3>1, Something
        <4>2. Synced(local[id].value) \in Raw
          BY <4>1 DEF Synced, Raw, Statuses
        <4> QED  BY <3>3, <4>2, Something DEF Synced
      <3>5. id \notin removed
        BY <2>1, <3>1, <3>2, Something DEF RecordShape, Accepted, Live
      <3>6. ASSUME NEW c \in Columns
            PROVE  Kept(id, c)'
        BY <1>1, <2>1, <3>1, <3>2, <3>6 DEF RecordShape, Kept, Pending, Accepted
      <3>7. CurrentAt(id, lastPulledAt)'
        <4>1. server[id].at \in Nat /\ lastPulledAt \in Nat
          BY <3>2, BeforeStep, Something DEF TypeOK, Accepted
        <4>2. ~(server[id].at <= lastPulledAt)
          BY <3>2, <4>1 DEF Accepted
        <4> QED  BY <1>1, <4>2 DEF CurrentAt
      <3>8. RecordShape(id)'
        BY <1>1, <3>2, <3>4, <3>5, <3>6, <3>7 DEF RecordShape, Accepted
      <3>9. CarriedShape(id, syncs[s])'
        BY <1>1, <3>2 DEF CarriedShape, AfterPush, Accepted
      <3> QED  BY <3>8, <3>9
    <2>3. CASE id \notin RecordsToMark(push)
      <3>1. Untouched(id) /\ UNCHANGED server
        BY <1>1, <2>3 DEF Untouched
      <3>2. RecordShape(id)'
        BY <2>1, <3>1, RecordUntouched
      <3>3. DeletionPushed(id, push) => DeletionPushed(id, syncs[s].push)'
        BY <1>1, <3>1 DEF DeletionPushed, Untouched
      <3>4. CarriedShape(id, syncs[s])'
        BY <1>1, <2>1, <3>1, <3>3 DEF CarriedShape, AfterPush, Accepted, LiveOnServer
      <3> QED  BY <3>2, <3>4
    <2> QED  BY <2>2, <2>3
  <1> QED  BY <1>2, <1>3, OneCallStep

\* What was pushed as deleted is removed.
LEMMA ForgetStep ==
  ASSUME OneCall, Base, Rest, Base', NEW s \in Syncs, Forget(s)
  PROVE  Rest'
PROOF
  <1> DEFINE w == syncs[s] push == w.push
  <1>1. /\ w.phase = "forgetting" /\ UNCHANGED <<lastPulledAt, server, mine, received, removed>>
        /\ local' = [id \in Ids |-> IF id \in push.deleted \ push.rejected THEN Nothing ELSE local[id]]
        /\ syncs'[s].phase = "idle" /\ syncs'[s].push = NoPush
    BY BeforeStep, NewCall DEF Forget, In, history
  <1>2. NoPush.deleted = {}
    BY DEF NoPush
  <1>3. OwnShape(syncs[s])'
    BY <1>1 DEF OwnShape, TimeShape, Applying
  <1>4. ASSUME NEW id \in Ids
        PROVE  RecordShape(id)' /\ CarriedShape(id, syncs[s])'
    <2>1. RecordShape(id) /\ CarriedShape(id, w)
      BY BeforeStep
    <2>2. CarriedShape(id, syncs[s])'
      BY <1>1, <1>2 DEF CarriedShape, AfterPush
    <2>3. CASE id \in push.deleted \ push.rejected
      <3>1. local'[id] = Nothing /\ ~LiveOnServer(id) /\ \A c \in Columns : mine[id][c] = 0
        BY <1>1, <2>1, <2>3 DEF CarriedShape, AfterPush, DeletionPushed
      <3>2. RecordShape(id)'
        BY <1>1, <3>1 DEF RecordShape, Kept, CurrentAt, LiveOnServer
      <3> QED  BY <2>2, <3>2
    <2>4. CASE id \notin push.deleted \ push.rejected
      <3>1. Untouched(id)
        BY <1>1, <2>4 DEF Untouched
      <3> QED  BY <2>1, <2>2, <3>1, RecordUntouched
    <2> QED  BY <2>3, <2>4
  <1> QED  BY <1>3, <1>4, OneCallStep

\* A reset leaves nothing to keep; a push that is under way finds nothing to mark.
LEMMA EndResetStep ==
  ASSUME Base, Rest, Base', EndReset
  PROVE  Rest'
PROOF
  <1>1. /\ resetting /\ UNCHANGED <<syncs, server, received>>
        /\ \A id \in Ids : local'[id] = Nothing /\ \A c \in Columns : mine'[id][c] = 0
        /\ lastPulledAt' = 0 /\ removed' = {}
    BY DEF EndReset
  <1>2. \A id \in Ids : server[id] # Nothing => server[id].at > 0 /\ ~(server[id].at <= 0)
    BY DEF Base, TypeOK
  <1>3. ByRecord
    BY RestByRecord
  <1>4. \A id \in Ids : RecordShape(id)'
    BY <1>1, <1>2 DEF RecordShape, Kept, CurrentAt
  <1>5. ASSUME NEW s \in Syncs
        PROVE  OwnShape(syncs[s])' /\ \A id \in Ids : CarriedShape(id, syncs[s])'
    <2>1. syncs[s].phase \notin Applying
      BY <1>1 DEF Base, BaseShape
    <2>2. OwnShape(syncs[s])'
      BY <1>1, <1>3, <2>1 DEF ByRecord, OwnShape, TimeShape
    <2>3. ASSUME NEW id \in Ids
          PROVE  CarriedShape(id, syncs[s])'
      <3>1. CarriedShape(id, syncs[s])
        BY <1>3 DEF ByRecord
      <3>2. PulledFrom(id, syncs[s].pull, syncs[s].since, syncs[s].stamp) =>
              PulledFrom(id, syncs[s].pull, syncs[s].since, syncs[s].stamp)'
        BY <1>1 DEF PulledFrom, LiveOnServer
      <3>3. /\ DeletionPushed(id, syncs[s].push) => DeletionPushed(id, syncs[s].push)'
            /\ Unaccepted(id, syncs[s].push) => Unaccepted(id, syncs[s].push)'
            /\ Accepted(id, syncs[s].push) => Accepted(id, syncs[s].push)'
        BY <1>1, <1>2 DEF DeletionPushed, Unaccepted, Accepted
      <3>4. LiveOnServer(id)' <=> LiveOnServer(id)
        BY <1>1 DEF LiveOnServer
      <3> QED  BY <1>1, <2>1, <3>1, <3>2, <3>3, <3>4 DEF CarriedShape, Applying
    <2> QED  BY <2>2, <2>3
  <1> QED  BY <1>4, <1>5, RestByRecord DEF ByRecord

-----------------------------------------------------------------------------
LEMMA FirstState == Init => Base /\ Rest
PROOF
  <1> SUFFICES ASSUME Init
               PROVE  Base /\ Rest
    OBVIOUS
  <1>1. Idle \in Calls /\ Idle.since = 0 /\ Idle.stamp = 0 /\ Idle.phase = "idle" /\ Idle.push = NoPush
    <2>1. \A S : <<>> \in Partial(S)
      BY DEF Partial
    <2>2. NoPull \in Pulls /\ NoPush \in Pushes
      BY <2>1 DEF NoPull, NoPush, Pulls, Pushes
    <2>3. 0 \in 0..MaxFaults
      BY BoundsAssumption
    <2> QED  BY <2>2, <2>3 DEF Idle, Calls, Phases
  <1>2. 0 \in 0..MaxFaults /\ 0 \in 0..MaxEdits /\ [c \in Columns |-> 0] \in Value
    BY BoundsAssumption DEF Value
  <1>3. Base
    <2>1. /\ local \in [Ids -> Raw \cup {Nothing}] /\ server \in [Ids -> Row \cup {Nothing}]
          /\ mine \in [Ids -> Value] /\ syncs \in [Syncs -> Calls]
      BY <1>1, <1>2 DEF Init
    <2>2. /\ now = 1 /\ lastPulledAt = 0 /\ resetCount = 0 /\ edits = 0 /\ faults = 0
          /\ ~resetting /\ resetting \in BOOLEAN /\ received = {} /\ removed = {}
          /\ \A id \in Ids : local[id] = Nothing /\ server[id] = Nothing
          /\ \A s \in Syncs : syncs[s] = Idle
      BY DEF Init
    <2>3. TypeOK
      BY <1>2, <2>1, <2>2 DEF TypeOK
    <2>4. BaseShape
      BY <1>1, <2>2 DEF BaseShape, Applying
    <2> QED  BY <2>3, <2>4 DEF Base
  <1>4. NoPush.deleted = {}
    BY DEF NoPush
  <1>5. Rest
    BY <1>1, <1>4 DEF Init, Rest, Data, LocalShape, EditShape, Kept, DeletionsKept, CurrentUpTo, CurrentAt,
       CallShape, TimeShape, PullShape, ApplyShape, PushShape, Applying, BeforePush, AfterPush
  <1> QED  BY <1>3, <1>5

LEMMA Invariance == ASSUME OneCall PROVE IInv /\ [Next]_vars => IInv'
PROOF
  <1> SUFFICES ASSUME IInv, [Next]_vars
               PROVE  IInv'
    OBVIOUS
  <1>1. Base /\ Rest
    BY DEF IInv, Rest
  <1>2. Base'
    BY <1>1, BaseStep
  <1>3. ASSUME NEW s \in Syncs,
               \/ Start(s) \/ ServerPulls(s) \/ FetchLocal(s) \/ ServerRefuses(s) \/ Answered(s)
               \/ Lose(s) \/ DriverFails(s)
        PROVE  Rest'
    BY <1>1, <1>3, QuietStep
  <1>4. ASSUME NEW s \in Syncs,
               \/ StartApply(s) \/ Recreate(s) \/ Batch(s) \/ Stamp(s) \/ ServerAccepts(s)
               \/ Mark(s) \/ Forget(s)
        PROVE  Rest'
    BY <1>1, <1>2, <1>4, StartApplyStep, RecreateStep, BatchStep, StampStep, AcceptStep, MarkStep, ForgetStep
  <1>5. ASSUME NEW id \in Ids,
               \/ \E columns \in Drafts : Create(id, columns)
               \/ (\E c \in Columns : Update(id, c)) \/ MarkAsDeleted(id)
        PROVE  Rest'
    BY <1>1, <1>2, <1>5, UserStep
  <1>6. ASSUME NEW id \in Ids,
               OtherCreates(id) \/ (\E c \in Columns : OtherUpdates(id, c)) \/ OtherDeletes(id)
        PROVE  Rest'
    BY <1>1, <1>2, <1>6, OtherStep
  <1>7. ASSUME EndReset
        PROVE  Rest'
    BY <1>1, <1>2, <1>7, EndResetStep
  <1>8. ASSUME Crash \/ StartReset \/ UNCHANGED vars
        PROVE  Rest'
    BY <1>1, <1>8, StopStep
  <1>9. Rest'
    BY <1>3, <1>4, <1>5, <1>6, <1>7, <1>8 DEF Next, Synchronize
  <1> QED  BY <1>2, <1>9 DEF IInv, Rest

(* Sync.TypeOK, for any number of calls of synchronize() at a time: the    *)
(* database, the server and what the calls carry keep their types, and a   *)
(* record that is synced has no changed columns.                           *)
THEOREM Typing == Spec => []TypeOK
PROOF
  <1>1. Init => Base
    BY FirstState
  <1>2. Base /\ [Next]_vars => Base'
    BY BaseStep
  <1>3. Base => TypeOK
    BY DEF Base
  <1> QED  BY <1>1, <1>2, <1>3, PTL DEF Spec

(* Sync.EditsKept, when one call runs at a time: whatever pulls merge and  *)
(* whatever is edited while a push is on its way, an edit reaches the      *)
(* server, still is to be pushed as a changed column that wins in a merge, *)
(* or is lost to a deletion on the server.                                 *)
THEOREM KeepsEdits == ASSUME OneCall PROVE Spec => []EditsKept
PROOF
  <1>1. Init => IInv
    BY FirstState DEF IInv, Rest
  <1>2. IInv /\ [Next]_vars => IInv'
    BY Invariance
  <1>3. IInv => EditsKept
    BY DEF IInv, Data, EditShape, Kept, EditsKept
  <1> QED  BY <1>1, <1>2, <1>3, PTL DEF Spec

(* Sync.DeletionsKept, when one call runs at a time: a record deleted here *)
(* does not come back before the server has deleted it, but for one that   *)
(* the server lists as created since the last pull: its deletion is given  *)
(* up when it is removed to be created again.                              *)
THEOREM KeepsDeletions == ASSUME OneCall PROVE Spec => []DeletionsKept
PROOF
  <1>1. Init => IInv
    BY FirstState DEF IInv, Rest
  <1>2. IInv /\ [Next]_vars => IInv'
    BY Invariance
  <1>3. IInv => DeletionsKept
    BY DEF IInv, Data
  <1> QED  BY <1>1, <1>2, <1>3, PTL DEF Spec

(* Sync.Current, when one call runs at a time: lastPulledAt never runs     *)
(* ahead of what was applied, through crashes, resets, lost answers and    *)
(* failed transactions, one between a removal and its re-creation as well. *)
THEOREM StaysCurrent == ASSUME OneCall PROVE Spec => []Current
PROOF
  <1>1. Init => IInv
    BY FirstState DEF IInv, Rest
  <1>2. IInv /\ [Next]_vars => IInv'
    BY Invariance
  <1>3. IInv => Current
    BY DEF IInv, Data, CurrentUpTo, CurrentAt, Current
  <1> QED  BY <1>1, <1>2, <1>3, PTL DEF Spec
=============================================================================
