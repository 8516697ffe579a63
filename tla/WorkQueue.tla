------------------------------ MODULE WorkQueue ------------------------------
(***************************************************************************)
(* The reader/writer queue of a Database (Database/WorkQueue.ts): one      *)
(* JavaScript thread runs the asynchronous bodies of the functions given   *)
(* to database.read() and database.write(), one queue item at a time.      *)
(*                                                                         *)
(* A call is one execution of database.read()/write().  It becomes either  *)
(* a queue item, or -- made through callReader()/callWriter() -- a         *)
(* sub-action that runs inside the item whose interface was used.  A flow  *)
(* is the asynchronous body of a call, or None: the code outside any call. *)
(* One step is one synchronous stretch of JavaScript; what happens between *)
(* two awaits of a body is a step of its own.                              *)
(*                                                                         *)
(* Modelled for a development build (the stuck watchdog exists) and, for   *)
(* experimentalDetectNestedWriters, on an engine with AsyncLocalStorage or *)
(* AsyncContext, where the current item of a flow is known exactly.        *)
(***************************************************************************)
EXTENDS Naturals, Sequences, SequencesExt

CONSTANTS
  Calls,       \* the calls of read()/write() that can be made, each once
  Writers,     \* the calls made with write()
  None,        \* no call; as a flow, the code outside every call
  Detect,      \* experimentalDetectNestedWriters
  Disciplined  \* TRUE: a body ends after its batches and sub-actions, and only
               \* bodies of a writer batch or reset

ASSUME WritersAssumption == Writers \subseteq Calls
ASSUME NoneAssumption == None \notin Calls
ASSUME FlagsAssumption == Detect \in BOOLEAN /\ Disciplined \in BOOLEAN

VARIABLES
  queue,     \* WorkQueue._queue
  exec,      \* _executeNext: not due, due by setTimeout, or awaiting its item
  phase,     \* the state of each call's promise and body
  owner,     \* the item whose interface the call's body was given
  caller,    \* the flow that made the call
  waits,     \* the call whose promise a flow awaits
  batches,   \* the flows with a batch on its way through the adapter
  watchdog,  \* the item captured by _stuckWatchdog's timer
  warned     \* the items with _warnedStuck

vars == <<queue, exec, phase, owner, caller, waits, batches, watchdog, warned>>

Flows == Calls \cup {None}
Settled == {"done", "dropped"}   \* dropped: rejected without having run

Init ==
  /\ queue = <<>>
  /\ exec = "idle"
  /\ phase = [c \in Calls |-> "new"]
  /\ owner = [c \in Calls |-> None]
  /\ caller = [c \in Calls |-> None]
  /\ waits = [c \in Calls |-> None]
  /\ batches = {}
  /\ watchdog = None
  /\ warned = {}

-----------------------------------------------------------------------------
isWriterRunning == queue # <<>> /\ Head(queue) \in Writers

Unsettled(c) == phase[c] \notin Settled

\* The body of f is started, not finished and not suspended in an await.
CanRun(f) ==
  f # None =>
    /\ phase[f] = "active"
    /\ waits[f] # None => ~Unsettled(waits[f])
    /\ Disciplined => f \notin batches

\* Fault: captures the whole queue.
ArmedWithQueue(q) ==
  IF watchdog = None /\ Len(q) >= 2 THEN q ELSE watchdog
\* Fault: does not count the running item.
ArmedTooLate(q) ==
  IF watchdog = None /\ Len(q) > 2 /\ Head(q) \notin warned
  THEN Head(q) ELSE watchdog
\* What _stuckWatchdog holds after _armStuckWatchdog() with queue q.
Armed(q) ==
  IF watchdog = None /\ Len(q) >= 2 /\ Head(q) \notin warned
  THEN Head(q) ELSE watchdog

\* Fault: the queue is a stack behind the running item.
PushedSecond(c) == <<Head(queue), c>> \o Tail(queue)
Pushed(c) == Append(queue, c)

MadeBy(f, c, item) ==
  /\ caller' = [caller EXCEPT ![c] = f]
  /\ owner' = [owner EXCEPT ![c] = item]

-----------------------------------------------------------------------------
\* Fault: takes an item that waits for its setTimeout for no item at all.
IdleIfNotRunning == exec # "running"
Idle == queue = <<>>

\* read()/write() when no item is queued: the body starts at once.
EnqueueAndStart(f, c) ==
  /\ CanRun(f) /\ phase[c] = "new"
  /\ Idle
  /\ queue' = Append(queue, c)
  /\ exec' = "running"
  /\ phase' = [phase EXCEPT ![c] = "active"]
  /\ MadeBy(f, c, c)
  /\ watchdog' = Armed(queue')
  /\ UNCHANGED <<waits, batches, warned>>

\* read()/write() behind other items.
EnqueueBehind(f, c) ==
  /\ CanRun(f) /\ phase[c] = "new"
  /\ ~Idle
  /\ queue' = Pushed(c)
  /\ phase' = [phase EXCEPT ![c] = "queued"]
  /\ MadeBy(f, c, c)
  /\ watchdog' = Armed(queue')
  /\ UNCHANGED <<exec, waits, batches, warned>>

\* __validateQueue(): the item whose interface f uses is still the first.
ValidQueue(f) == queue # <<>> /\ Head(queue) = owner[f]

\* A writer block cannot be called from a reader block.
CalledInside(f, c) ==
  IF owner[f] \notin Writers /\ c \in Writers THEN "dropped" ELSE "active"

\* callReader()/callWriter(): the called block runs inside the same item.
SubAction(f, c) ==
  /\ CanRun(f) /\ phase[c] = "new"
  /\ ValidQueue(f)
  /\ phase' = [phase EXCEPT ![c] = CalledInside(f, c)]
  /\ MadeBy(f, c, owner[f])
  /\ UNCHANGED <<queue, exec, waits, batches, watchdog, warned>>

\* Fault: only the item's own body is recognised, not its sub-actions.
GuardsNestedInBody(f, c) ==
  Detect /\ phase[c] = "queued" /\ queue # <<>> /\ Head(queue) = f
\* f runs in the turn of its item and c is queued behind that item.
GuardsNested(f, c) ==
  Detect /\ phase[c] = "queued" /\ queue # <<>> /\ Head(queue) = owner[f]

\* f subscribes to the promise of a call it made.
Await(f, c) ==
  /\ CanRun(f) /\ caller[c] = f /\ Unsettled(c)
  /\ ~GuardsNested(f, c)
  /\ waits' = [waits EXCEPT ![f] = c]
  /\ UNCHANGED <<queue, exec, phase, owner, caller, batches, watchdog, warned>>

\* The same, for a nested call: the guard on `then` takes the call off the
\* queue and rejects it.
AwaitNested(f, c) ==
  /\ CanRun(f) /\ caller[c] = f
  /\ GuardsNested(f, c)
  /\ \E i \in 2..Len(queue) : queue[i] = c /\ queue' = RemoveAt(queue, i)
  /\ phase' = [phase EXCEPT ![c] = "dropped"]
  /\ UNCHANGED <<exec, owner, caller, waits, batches, watchdog, warned>>

\* database.batch() gets past _ensureInWriter and calls the adapter.
Batch(f) ==
  /\ CanRun(f) /\ f \notin batches
  /\ isWriterRunning
  /\ Disciplined => f # None
  /\ batches' = batches \cup {f}
  /\ UNCHANGED <<queue, exec, phase, owner, caller, waits, watchdog, warned>>

\* The adapter answered; the batch is applied to the record caches.
BatchDone(f) ==
  /\ f \in batches
  /\ batches' = batches \ {f}
  /\ UNCHANGED <<queue, exec, phase, owner, caller, waits, watchdog, warned>>

\* Fault: the aborted items are rejected but stay queued.
KeptAll(q) == q
KeptByAbort(q) == SubSeq(q, 1, 1)

\* unsafeResetDatabase() aborts everything behind the first item.
AbortPendingWork(f) ==
  /\ CanRun(f)
  /\ isWriterRunning
  /\ Disciplined => f # None
  /\ Len(queue) > 1
  /\ queue' = KeptByAbort(queue)
  /\ phase' = [c \in Calls |->
                 IF \E i \in 2..Len(queue) : queue[i] = c
                 THEN "dropped" ELSE phase[c]]
  /\ UNCHANGED <<exec, owner, caller, waits, batches, watchdog, warned>>

\* Fault: the work's promise is not awaited.
FinishesEarly(f) == phase[f] = "active"
\* The work's promise settles; if Disciplined, no sub-action it made still runs.
Finishes(f) ==
  /\ CanRun(f)
  /\ Disciplined => \A c \in Calls : caller[c] = f => phase[c] # "active"

\* Fault: the next item is not scheduled when it is the last one.
DueIfMany(q) == IF Len(q) <= 1 THEN "idle" ELSE "scheduled"
Due(q) == IF q = <<>> THEN "idle" ELSE "scheduled"

\* The caller's promise settles, the item is shifted off and the next one
\* becomes due in a later macrotask.  The marks of the item go with it.
FinishItem(f) ==
  /\ Finishes(f) /\ owner[f] = f
  /\ phase' = [phase EXCEPT ![f] = "done"]
  /\ queue' = Tail(queue)
  /\ exec' = Due(queue')
  /\ waits' = [waits EXCEPT ![f] = None]
  /\ watchdog' = None
  /\ warned' = warned \ {f}
  /\ UNCHANGED <<owner, caller, batches>>

FinishSubAction(f) ==
  /\ Finishes(f) /\ owner[f] # f
  /\ phase' = [phase EXCEPT ![f] = "done"]
  /\ waits' = [waits EXCEPT ![f] = None]
  /\ UNCHANGED <<queue, exec, owner, caller, batches, watchdog, warned>>

\* The setTimeout callback: _executeNext() starts the first item.
ExecuteNext ==
  /\ exec = "scheduled"
  /\ exec' = "running"
  /\ phase' = [phase EXCEPT ![Head(queue)] = "active"]
  /\ watchdog' = Armed(queue)
  /\ UNCHANGED <<queue, owner, caller, waits, batches, warned>>

\* Fault: counts the running item among those that wait.
WarnsOfMany == queue # <<>> /\ Head(queue) = watchdog /\ Len(queue) > 2
Warns == queue # <<>> /\ Head(queue) = watchdog /\ Len(queue) >= 2

\* The watchdog's timer: warns only if the same item still blocks others.
WatchdogFires ==
  /\ watchdog # None
  /\ watchdog' = None
  /\ warned' = IF Warns THEN warned \cup {watchdog} ELSE warned
  /\ UNCHANGED <<queue, exec, phase, owner, caller, waits, batches>>

Next ==
  \/ \E f \in Flows, c \in Calls : EnqueueAndStart(f, c)
  \/ \E f \in Flows, c \in Calls : EnqueueBehind(f, c)
  \/ \E f, c \in Calls : SubAction(f, c)
  \/ \E f, c \in Calls : Await(f, c)
  \/ \E f, c \in Calls : AwaitNested(f, c)
  \/ \E f \in Flows : Batch(f)
  \/ \E f \in Flows : BatchDone(f)
  \/ \E f \in Flows : AbortPendingWork(f)
  \/ \E f \in Calls : FinishItem(f)
  \/ \E f \in Calls : FinishSubAction(f)
  \/ ExecuteNext
  \/ WatchdogFires

Spec == Init /\ [][Next]_vars

\* Timers fire, the adapter answers, and bodies end: as long as again and again
\* some body is not suspended in an await, one of them runs to its end.
Fairness ==
  /\ WF_vars(ExecuteNext)
  /\ WF_vars(WatchdogFires)
  /\ \A f \in Flows : WF_vars(BatchDone(f))
  /\ SF_vars(\E f \in Calls : FinishItem(f) \/ FinishSubAction(f))

FairSpec == Spec /\ Fairness
-----------------------------------------------------------------------------
(* Every variable keeps its type. *)
TypeOK ==
  /\ queue \in Seq(Calls)
  /\ exec \in {"idle", "scheduled", "running"}
  /\ phase \in [Calls -> {"new", "queued", "active", "done", "dropped"}]
  /\ owner \in [Calls -> Flows]
  /\ caller \in [Calls -> Flows]
  /\ waits \in [Calls -> Flows]
  /\ batches \subseteq Flows
  /\ watchdog \in Flows
  /\ warned \subseteq Calls

(* The body of a queue item runs exactly while it is first in the queue    *)
(* and _executeNext awaits it: _executeNext is never entered twice, never  *)
(* forgets a queue that is not empty, and no two items overlap.            *)
OneItemAtATime ==
  /\ exec = "idle" <=> queue = <<>>
  /\ \A c \in Calls :
       phase[c] = "active" /\ owner[c] = c
         <=> exec = "running" /\ Head(queue) = c

(* If bodies await what they start: whatever code of a call runs, and any  *)
(* batch on its way to the adapter, belongs to the item whose turn it is,  *)
(* and a batch to a writer.  So a reader sees no write, and a writer only  *)
(* its own.                                                                *)
TurnIsolation ==
  /\ \A c \in Calls : phase[c] = "active" =>
       exec = "running" /\ owner[c] = Head(queue)
  /\ \A f \in batches :
       f \in Calls /\ phase[f] = "active" /\ owner[f] \in Writers

(* With experimentalDetectNestedWriters, no body that runs in the turn of  *)
(* the running item awaits a call queued behind that item: the deadlock    *)
(* the flag is for.                                                        *)
NoSelfWait ==
  Detect => \A f \in Calls :
    /\ phase[f] = "active"
    /\ queue # <<>> /\ owner[f] = Head(queue)
    /\ waits[f] # None
    => phase[waits[f]] # "queued"

(* The watchdog's timer, if set, is set for the first item; and an item    *)
(* that runs with others behind it has its timer set or has been warned    *)
(* about, however the queue grew, shrank by rejected nested calls or was   *)
(* aborted meanwhile.                                                      *)
BacklogIsWatched ==
  /\ watchdog # None => queue # <<>> /\ watchdog = Head(queue)
  /\ exec = "running" /\ Len(queue) >= 2
       => watchdog = Head(queue) \/ Head(queue) \in warned

(* A call whose promise was rejected by a reset or by the nested-call      *)
(* guard never runs afterwards.                                            *)
RejectedNeverRuns ==
  [][\A c \in Calls : phase[c] = "dropped" => phase'[c] = "dropped"]_vars

(* Every queued call is eventually run to its end or rejected. *)
EveryCallSettles ==
  \A c \in Calls : phase[c] = "queued" ~> phase[c] \in Settled

(* An item that keeps others waiting gets a warning, or ends, or is alone. *)
StuckItemIsReported ==
  \A c \in Calls :
    exec = "running" /\ Len(queue) >= 2 /\ Head(queue) = c
      ~> queue = <<>> \/ Head(queue) # c \/ Len(queue) < 2 \/ c \in warned

(* The queue implements the first-come-first-served service: sub-actions   *)
(* are invisible, the running item is the one being served.                *)
Line == IF exec = "running" THEN Tail(queue) ELSE queue
Serving == IF exec = "running" THEN Head(queue) ELSE None
SettledItems == {c \in Calls : owner[c] = c /\ phase[c] \in Settled}

Abstract == INSTANCE SerialQueue WITH
  Requests <- Calls, Nobody <- None,
  line <- Line, serving <- Serving, settled <- SettledItems

ImplementsSerialQueue == Abstract!FairService
=============================================================================
