-------------------------------- MODULE Sync --------------------------------
(***************************************************************************)
(* synchronize() (src/sync/impl) over one table: pull the server's changes *)
(* since lastPulledAt, apply them in one writer, then push what is not     *)
(* synced and mark it as synced, while the user and other clients go on    *)
(* writing, calls fail, the app restarts and the database is reset.        *)
(*                                                                         *)
(* The server is external: it is the one that Sync/Backend.md asks for,    *)
(* with a time that grows with every change.  A value of a column is the   *)
(* number of the edit that wrote it, so that no two edits look the same.   *)
(* The step that a call takes on the server happens before the client sees *)
(* its answer, or not at all.                                              *)
(***************************************************************************)
EXTENDS Naturals, FiniteSets

CONSTANTS
  Ids,        \* the ids of the records
  Columns,    \* the columns of the table
  Drafts,     \* the sets of columns that a new record is built with
  Syncs,      \* the calls of synchronize() that may run at a time
  Nothing,    \* no record
  MaxEdits,   \* edits of the user and of other clients
  MaxFaults   \* lost answers, rejections, crashes and resets

VARIABLES
  local,         \* the records of the local database, with _status and _changed
  lastPulledAt,  \* __watermelon_last_pulled_at; 0 before the first sync
  resetCount,    \* Database._resetCount
  resetting,     \* a writer is inside unsafeResetDatabase()
  syncs,         \* each call of synchronize()
  server,        \* the records of the server, deleted ones included
  now,           \* the server's time
  edits,         \* edits made, by the user or by other clients
  faults,        \* faults so far
  mine,          \* the user's last edit of each column (0: none)
  received,      \* the edits the server got from this client
  removed        \* the records the user deleted

database == <<local, lastPulledAt, resetCount, resetting>>
history == <<edits, mine, removed>>
vars == <<database, syncs, server, now, faults, received, history>>

Value == [Columns -> 0..MaxEdits]
Statuses == {"created", "updated", "deleted", "synced"}
Raw == [status : Statuses, changed : SUBSET Columns, value : Value]
Row == [born : Nat, at : Nat, deleted : BOOLEAN, value : Value]
Phases == {"idle", "pulling", "pulled", "batching", "stamping", "ready",
           "pushing", "answering", "marking", "forgetting"}

NoPull == [rows |-> <<>>, created |-> {}, deleted |-> {}, replacement |-> FALSE]
NoPush == [raws |-> <<>>, deleted |-> {}, rejected |-> {}]
Idle == [phase |-> "idle", resets |-> 0, since |-> 0, stamp |-> 0,
         pull |-> NoPull, push |-> NoPush]

ASSUME DraftsAssumption == Drafts \subseteq SUBSET Columns
ASSUME BoundsAssumption == MaxEdits \in Nat /\ MaxFaults \in Nat
ASSUME NothingAssumption == Nothing \notin Raw \cup Row

Init ==
  /\ local = [id \in Ids |-> Nothing]
  /\ lastPulledAt = 0
  /\ resetCount = 0
  /\ resetting = FALSE
  /\ syncs = [s \in Syncs |-> Idle]
  /\ server = [id \in Ids |-> Nothing]
  /\ now = 1
  /\ edits = 0
  /\ faults = 0
  /\ mine = [id \in Ids |-> [c \in Columns |-> 0]]
  /\ received = {}
  /\ removed = {}

-----------------------------------------------------------------------------
Live(id) == local[id] # Nothing /\ local[id].status # "deleted"
LocallyDeleted == {id \in Ids : local[id] # Nothing /\ local[id].status = "deleted"}
Unsynced == {id \in Ids : local[id] # Nothing /\ local[id].status # "synced"}
LiveOnServer(id) == server[id] # Nothing /\ ~server[id].deleted

In(s, phase) == syncs[s].phase = phase
GoTo(s, phase) == syncs' = [syncs EXCEPT ![s].phase = phase]
End(s) == syncs' = [syncs EXCEPT ![s] = Idle]

\* A writer of a sync or of a reset runs: every other writer or reader waits.
Writing == resetting \/ \E s \in Syncs : syncs[s].phase \in {"batching", "stamping", "forgetting"}

Fault == faults < MaxFaults /\ faults' = faults + 1

\* No record has the id, or had it.
Fresh(id) ==
  /\ local[id] = Nothing /\ server[id] = Nothing /\ id \notin removed
  /\ \A s \in Syncs : id \notin DOMAIN syncs[s].push.raws \cup syncs[s].push.deleted

-----------------------------------------------------------------------------
\* Writers of the user.
Edit(id, columns) ==
  /\ ~Writing /\ edits < MaxEdits
  /\ edits' = edits + 1
  /\ mine' = [mine EXCEPT ![id] = [c \in Columns |-> IF c \in columns THEN edits' ELSE @[c]]]
  /\ UNCHANGED <<lastPulledAt, resetCount, resetting, syncs, server, now, faults,
                 received, removed>>

\* The builder of a new record sets some of its columns, which sync is to take
\* as changed; the others have their defaults.
Create(id, columns) ==
  /\ Fresh(id)
  /\ Edit(id, columns)
  /\ local' = [local EXCEPT ![id] =
       [status |-> "created", changed |-> columns,
        value |-> [c \in Columns |-> IF c \in columns THEN edits' ELSE 0]]]

\* Model._setRaw and setRawColumnChange.
Update(id, c) ==
  /\ Live(id)
  /\ Edit(id, {c})
  /\ local' = [local EXCEPT ![id] =
       [status |-> IF @.status = "created" THEN "created" ELSE "updated",
        changed |-> @.changed \cup {c},
        value |-> [@.value EXCEPT ![c] = edits']]]

MarkAsDeleted(id) ==
  /\ ~Writing /\ Live(id)
  /\ local' = [local EXCEPT ![id].status = "deleted"]
  /\ mine' = [mine EXCEPT ![id] = [c \in Columns |-> 0]]
  /\ removed' = removed \cup {id}
  /\ UNCHANGED <<lastPulledAt, resetCount, resetting, syncs, server, now, edits, faults,
                 received>>

\* Other clients of the server.
OtherClient(id, row) ==
  /\ edits < MaxEdits
  /\ edits' = edits + 1
  /\ now' = now + 1
  /\ server' = [server EXCEPT ![id] = row]
  /\ UNCHANGED <<database, syncs, faults, received, mine, removed>>

OtherCreates(id) ==
  /\ Fresh(id)
  /\ OtherClient(id, [born |-> now + 1, at |-> now + 1, deleted |-> FALSE,
                      value |-> [c \in Columns |-> edits + 1]])
OtherUpdates(id, c) ==
  /\ LiveOnServer(id)
  /\ OtherClient(id, [server[id] EXCEPT !.at = now + 1, !.value[c] = edits + 1])
OtherDeletes(id) ==
  /\ LiveOnServer(id)
  /\ OtherClient(id, [server[id] EXCEPT !.at = now + 1, !.deleted = TRUE])

-----------------------------------------------------------------------------
\* synchronize() up to its call of pullChanges().
Start(s) ==
  /\ In(s, "idle") /\ ~resetting
  /\ syncs' = [syncs EXCEPT ![s].phase = "pulling", ![s].resets = resetCount,
                            ![s].since = lastPulledAt]
  /\ UNCHANGED <<database, server, now, faults, received, history>>

\* The changes since a time, at the choice of the server: with the records it
\* created since then listed as such or not, or the full data ("replacement")
\* together with the ids deleted since then.
Answers(since) ==
  LET changed == {id \in Ids : server[id] # Nothing /\ server[id].at > since}
      whole == {id \in Ids : LiveOnServer(id)}
      rowsOf(ids) == [id \in ids |-> server[id].value]
  IN {[rows |-> rowsOf(changed \cap whole), created |-> created,
       deleted |-> changed \ whole, replacement |-> FALSE]
        : created \in SUBSET {id \in changed \cap whole : server[id].born > since}}
     \cup {[rows |-> rowsOf(whole), created |-> {}, deleted |-> changed \ whole,
              replacement |-> TRUE]}

ServerPulls(s) ==
  /\ In(s, "pulling")
  /\ \E answer \in Answers(syncs[s].since) :
       syncs' = [syncs EXCEPT ![s].phase = "pulled", ![s].stamp = now, ![s].pull = answer]
  /\ UNCHANGED <<database, server, now, faults, received, history>>

\* recordsToDestroy and deletedRecordsToDestroy, of either strategy.
Destroyed(pull) ==
  {id \in Ids :
     /\ Live(id)
     /\ \/ id \in pull.deleted
        \/ pull.replacement /\ id \notin DOMAIN pull.rows /\ local[id].status # "created"}
Forgotten(pull) ==
  {id \in LocallyDeleted :
     id \in pull.deleted \/ (pull.replacement /\ id \notin DOMAIN pull.rows)}

\* The apply writer: the two checks, what applyRemoteChanges reads, and
\* destroyAllDeletedRecords.
StartApply(s) ==
  /\ In(s, "pulled") /\ ~Writing
  /\ IF syncs[s].resets = resetCount /\ syncs[s].since = lastPulledAt
     THEN /\ local' = [id \in Ids |->
                         IF id \in Forgotten(syncs[s].pull) THEN Nothing ELSE local[id]]
          /\ GoTo(s, "batching")
     ELSE End(s) /\ UNCHANGED local
  /\ UNCHANGED <<lastPulledAt, resetCount, resetting, server, now, faults, received, history>>

Synced(value) == [status |-> "synced", changed |-> {}, value |-> value]

\* Fault: a record with local changes keeps all of its local columns.
ResolveWholeRecord(raw, remote) ==
  IF raw.changed = {} THEN [raw EXCEPT !.value = remote] ELSE raw
\* resolveConflict: the columns changed locally win.
ResolveConflict(raw, remote) ==
  [raw EXCEPT !.value = [c \in Columns |-> IF c \in raw.changed THEN @[c] ELSE remote[c]]]

\* Fault: a record deleted locally is created again.
RecreatesDeleted(pull) == LocallyDeleted \cap DOMAIN pull.rows
\* Records deleted locally that the server lists as created: they are recreated.
Recreated(pull) == LocallyDeleted \cap pull.created

\* Their destroyDeletedRecords: not awaited, and a transaction of its own, that
\* the driver commits before the batch.  The user's deletion is given up.
Recreate(s) ==
  /\ In(s, "batching")
  /\ Recreated(syncs[s].pull) # {}
  /\ local' = [id \in Ids |-> IF id \in Recreated(syncs[s].pull) THEN Nothing ELSE local[id]]
  /\ removed' = removed \ (LocallyDeleted \cap syncs[s].pull.created)
  /\ UNCHANGED <<lastPulledAt, resetCount, resetting, syncs, server, now, faults, received,
                 edits, mine>>

\* prepareApplyRemoteChangesToCollection, once what is recreated is gone.
Applied(pull) ==
  [id \in Ids |->
     IF id \in DOMAIN pull.rows
     THEN IF Live(id) THEN ResolveConflict(local[id], pull.rows[id])
          ELSE IF id \in LocallyDeleted THEN local[id]
          ELSE Synced(pull.rows[id])
     ELSE IF id \in Destroyed(pull) THEN Nothing
     ELSE local[id]]

\* The batch of applyAllRemoteChanges, one transaction.
Batch(s) ==
  /\ In(s, "batching")
  /\ Recreated(syncs[s].pull) = {}
  /\ local' = Applied(syncs[s].pull)
  /\ GoTo(s, "stamping")
  /\ UNCHANGED <<lastPulledAt, resetCount, resetting, server, now, faults, received, history>>

\* setLastPulledAt: another transaction.  The writer ends.
Stamp(s) ==
  /\ In(s, "stamping")
  /\ lastPulledAt' = syncs[s].stamp
  /\ syncs' = [syncs EXCEPT ![s].phase = "ready", ![s].pull = NoPull]
  /\ UNCHANGED <<local, resetCount, resetting, server, now, faults, received, history>>

-----------------------------------------------------------------------------
\* Fault: records with status "updated" are not looked for.
OnlyCreated ==
  [raws |-> [id \in {i \in Unsynced : local[i].status = "created"} |-> local[id]],
   deleted |-> LocallyDeleted, rejected |-> {}]
LocalChanges ==
  [raws |-> [id \in Unsynced \ LocallyDeleted |-> local[id]],
   deleted |-> LocallyDeleted, rejected |-> {}]

\* fetchLocalChanges, in a reader, up to the call of pushChanges().
FetchLocal(s) ==
  /\ In(s, "ready") /\ ~Writing
  /\ IF syncs[s].resets = resetCount /\ DOMAIN LocalChanges.raws \cup LocalChanges.deleted # {}
     THEN syncs' = [syncs EXCEPT ![s].phase = "pushing", ![s].push = LocalChanges]
     ELSE End(s)
  /\ UNCHANGED <<database, server, now, faults, received, history>>

\* A record was changed on the server after lastPulledAt, or is deleted there.
Conflicts(push, since) ==
  {id \in DOMAIN push.raws : server[id] # Nothing /\ (server[id].at > since \/ server[id].deleted)}
  \cup {id \in push.deleted : LiveOnServer(id) /\ server[id].at > since}

\* The server applies a push, one transaction, but for what it rejects.
ServerAccepts(s) ==
  /\ In(s, "pushing")
  /\ LET push == syncs[s].push IN
     \E rejected \in SUBSET (DOMAIN push.raws \cup push.deleted) :
       LET applied == DOMAIN push.raws \ rejected IN
       /\ IF rejected = {} THEN UNCHANGED faults ELSE Fault
       /\ Conflicts(push, syncs[s].stamp) \subseteq rejected
       /\ server' = [id \in Ids |->
            IF id \in applied
            THEN [born |-> IF server[id] = Nothing THEN now + 1 ELSE server[id].born,
                  at |-> now + 1, deleted |-> FALSE, value |-> push.raws[id].value]
            ELSE IF id \in push.deleted \ rejected /\ LiveOnServer(id)
            THEN [server[id] EXCEPT !.deleted = TRUE, !.at = now + 1]
            ELSE server[id]]
       /\ received' = received \cup UNION {{push.raws[id].value[c] : c \in Columns} : id \in applied}
       /\ syncs' = [syncs EXCEPT ![s].phase = "answering", ![s].push.rejected = rejected]
  /\ now' = now + 1
  /\ UNCHANGED <<database, history>>

\* It reports an error instead; synchronize() throws.
ServerRefuses(s) ==
  /\ In(s, "pushing")
  /\ Conflicts(syncs[s].push, syncs[s].stamp) # {}
  /\ End(s)
  /\ UNCHANGED <<database, server, now, faults, received, history>>

\* The answer arrives, ensureSameDatabase, and the marking writer is queued.
Answered(s) ==
  /\ In(s, "answering")
  /\ IF syncs[s].resets = resetCount THEN GoTo(s, "marking") ELSE End(s)
  /\ UNCHANGED <<database, server, now, faults, received, history>>

\* Fault: whatever was pushed is marked, changed since then or not.
AllPushed(push) == {id \in DOMAIN push.raws \ push.rejected : Live(id)}
\* recordsToMarkAsSynced: those that still are what was pushed.
RecordsToMark(push) ==
  {id \in DOMAIN push.raws \ push.rejected : local[id] = push.raws[id]}

\* Fault: _changed is not cleared.
KeepChanged(raw) == [raw EXCEPT !.status = "synced"]
MarkedAsSynced(raw) == Synced(raw.value)

\* markLocalChangesAsSynced: the batch, and behind it destroyDeletedRecords.
Mark(s) ==
  /\ In(s, "marking") /\ ~Writing
  /\ local' = [id \in Ids |->
       IF id \in RecordsToMark(syncs[s].push) THEN MarkedAsSynced(local[id]) ELSE local[id]]
  /\ GoTo(s, "forgetting")
  /\ UNCHANGED <<lastPulledAt, resetCount, resetting, server, now, faults, received, history>>

Forget(s) ==
  /\ In(s, "forgetting")
  /\ local' = [id \in Ids |->
       IF id \in syncs[s].push.deleted \ syncs[s].push.rejected THEN Nothing ELSE local[id]]
  /\ End(s)
  /\ UNCHANGED <<lastPulledAt, resetCount, resetting, server, now, faults, received, history>>

-----------------------------------------------------------------------------
\* A call of the server fails, or its answer is lost: synchronize() throws.
Lose(s) ==
  /\ In(s, "pulling") \/ In(s, "answering")
  /\ Fault
  /\ End(s)
  /\ UNCHANGED <<database, server, now, received, history>>

\* A transaction of the apply writer fails (a batch also after the removal of
\* what it was to create again failed): synchronize() throws.  Left out are
\* batches that change Models: these keep values that no row has.
DriverFails(s) ==
  /\ \/ /\ In(s, "batching") /\ Destroyed(syncs[s].pull) = {}
        /\ \A id \in DOMAIN syncs[s].pull.rows : ~Live(id)
     \/ In(s, "stamping")
  /\ Fault
  /\ End(s)
  /\ UNCHANGED <<database, server, now, received, history>>

\* The app is killed and started again: only what is in the database stays.
Crash ==
  /\ Fault
  /\ syncs' = [s \in Syncs |-> Idle]
  /\ resetting' = FALSE
  /\ resetCount' = 0
  /\ UNCHANGED <<local, lastPulledAt, server, now, received, history>>

\* unsafeResetDatabase(): queued writers are rejected; those that come while
\* the adapter is at work run on the new database.
StartReset ==
  /\ ~Writing
  /\ Fault
  /\ resetting' = TRUE
  /\ syncs' = [s \in Syncs |-> IF In(s, "marking") THEN Idle ELSE syncs[s]]
  /\ UNCHANGED <<local, lastPulledAt, resetCount, server, now, received, history>>

EndReset ==
  /\ resetting
  /\ resetting' = FALSE
  /\ resetCount' = resetCount + 1
  /\ local' = [id \in Ids |-> Nothing]
  /\ lastPulledAt' = 0
  /\ mine' = [id \in Ids |-> [c \in Columns |-> 0]]
  /\ removed' = {}
  /\ UNCHANGED <<syncs, server, now, edits, faults, received>>

Synchronize ==
  \/ \E s \in Syncs : Start(s)
  \/ \E s \in Syncs : ServerPulls(s)
  \/ \E s \in Syncs : StartApply(s)
  \/ \E s \in Syncs : Recreate(s)
  \/ \E s \in Syncs : Batch(s)
  \/ \E s \in Syncs : Stamp(s)
  \/ \E s \in Syncs : FetchLocal(s)
  \/ \E s \in Syncs : ServerAccepts(s)
  \/ \E s \in Syncs : ServerRefuses(s)
  \/ \E s \in Syncs : Answered(s)
  \/ \E s \in Syncs : Mark(s)
  \/ \E s \in Syncs : Forget(s)
  \/ EndReset

Next ==
  \/ Synchronize
  \/ \E id \in Ids, columns \in Drafts : Create(id, columns)
  \/ \E id \in Ids, c \in Columns : Update(id, c)
  \/ \E id \in Ids : MarkAsDeleted(id)
  \/ \E id \in Ids : OtherCreates(id)
  \/ \E id \in Ids, c \in Columns : OtherUpdates(id, c)
  \/ \E id \in Ids : OtherDeletes(id)
  \/ \E s \in Syncs : Lose(s)
  \/ \E s \in Syncs : DriverFails(s)
  \/ Crash
  \/ StartReset

Spec == Init /\ [][Next]_vars

\* The app goes on calling synchronize(), and the server goes on answering.
FairSpec == Spec /\ WF_vars(Synchronize)
-----------------------------------------------------------------------------
\* What the calls of synchronize() carry.
Partial(S) == UNION {[D -> S] : D \in SUBSET Ids}
Pulls == [rows : Partial(Value), created : SUBSET Ids, deleted : SUBSET Ids,
          replacement : BOOLEAN]
Pushes == [raws : Partial(Raw), deleted : SUBSET Ids, rejected : SUBSET Ids]
Calls == [phase : Phases, resets : 0..MaxFaults, since : Nat, stamp : Nat,
          pull : Pulls, push : Pushes]

(* The database, the server and the calls of synchronize() keep their      *)
(* types; a record that is synced has no changed columns.                  *)
TypeOK ==
  /\ local \in [Ids -> Raw \cup {Nothing}]
  /\ \A id \in Ids :
       local[id] # Nothing /\ local[id].status = "synced" => local[id].changed = {}
  /\ lastPulledAt \in 0..now
  /\ resetCount \in 0..MaxFaults /\ faults \in 0..MaxFaults
  /\ resetting \in BOOLEAN
  /\ syncs \in [Syncs -> Calls]
  /\ server \in [Ids -> Row \cup {Nothing}]
  /\ \A id \in Ids : server[id] # Nothing => server[id].at \in 2..now
  /\ now \in Nat \ {0} /\ edits \in 0..MaxEdits
  /\ mine \in [Ids -> Value]
  /\ received \subseteq 0..MaxEdits
  /\ removed \subseteq Ids

\* The user's last edit of a column is to be pushed, and wins in a merge.
Pending(id, c) ==
  /\ local[id] # Nothing
  /\ local[id].value[c] = mine[id][c]
  /\ c \in local[id].changed

(* No edit of the user is lost: the server got it, or it still is to be    *)
(* pushed, unless the record was deleted on the server -- whatever the     *)
(* pulls merged, and whatever the user changed while a push was on its way.*)
EditsKept ==
  \A id \in Ids, c \in Columns :
    \/ mine[id][c] = 0
    \/ mine[id][c] \in received
    \/ Pending(id, c)
    \/ server[id] # Nothing /\ server[id].deleted

(* A record the user deleted stays deleted until the server has deleted it *)
(* too, unless the server lists it as created since the last pull, the     *)
(* case Sync/Backend.md tells servers to avoid: then the deletion is given *)
(* up, in a transaction before the one that recreates the record.          *)
DeletionsKept ==
  \A id \in removed : IF local[id] = Nothing THEN ~LiveOnServer(id) ELSE ~Live(id)

(* What the server changed up to lastPulledAt is in the local database,    *)
(* but for the columns the user changed: no pull ever has to bring it      *)
(* again.  So a record whose removal was committed and whose re-creation   *)
(* was not is one that a pull still is to bring.                           *)
Current ==
  \A id \in Ids :
    server[id] # Nothing /\ server[id].at <= lastPulledAt =>
      IF server[id].deleted THEN local[id] = Nothing
      ELSE /\ local[id] # Nothing
           /\ Live(id) => \A c \in Columns \ local[id].changed :
                            local[id].value[c] = server[id].value[c]

(* When nobody edits any more and calls no longer fail, the local database *)
(* becomes and stays what the server has, with nothing left to push.       *)
Converged ==
  \A id \in Ids :
    local[id] = IF LiveOnServer(id) THEN Synced(server[id].value) ELSE Nothing
Converges == <>[]Converged
=============================================================================
