--------------------------- MODULE WorkQueueProofs ---------------------------
(***************************************************************************)
(* What holds of WorkQueue for any set of calls, with and without nested-  *)
(* call detection and discipline.                                          *)
(***************************************************************************)
EXTENDS WorkQueue, SequenceTheorems, TLAPS

USE WritersAssumption, NoneAssumption, FlagsAssumption DEF Flows, Settled

-----------------------------------------------------------------------------
(* Facts about the sequence operations of the queue.                       *)

(* Pushing an item leaves the others in place.                             *)
LEMMA AppendFacts ==
  ASSUME NEW S, NEW q \in Seq(S), NEW e \in S
  PROVE  /\ Append(q, e) \in Seq(S)
         /\ Append(q, e) # <<>>
         /\ Len(Append(q, e)) = Len(q) + 1
         /\ \A i \in 1..Len(q) : Append(q, e)[i] = q[i]
         /\ Append(q, e)[Len(q) + 1] = e
         /\ Head(Append(q, e)) = IF q = <<>> THEN e ELSE Head(q)
  OBVIOUS

(* Shifting the first item off moves the others up by one. *)
LEMMA TailFacts ==
  ASSUME NEW S, NEW q \in Seq(S), q # <<>>
  PROVE  /\ Tail(q) \in Seq(S)
         /\ Len(q) \in Nat \ {0}
         /\ Head(q) = q[1] /\ Head(q) \in S
         /\ Len(Tail(q)) = Len(q) - 1
         /\ \A i \in 1..Len(Tail(q)) : Tail(q)[i] = q[i + 1]
         /\ (Tail(q) = <<>>) <=> (Len(q) = 1)
         /\ Tail(q) # <<>> => Head(Tail(q)) = q[2]
<1> DEFINE t == Tail(q)
<1>1. /\ Len(q) \in Nat \ {0} /\ Head(q) = q[1] /\ Head(q) \in S
      /\ t \in Seq(S) /\ Len(t) = Len(q) - 1
      /\ \A i \in 1..Len(t) : t[i] = q[i + 1]
  OBVIOUS
<1> HIDE DEF t
<1>2. (t = <<>>) <=> (Len(t) = 0)
  BY <1>1
<1>3. (t = <<>>) <=> (Len(q) = 1)
  BY <1>1, <1>2
<1>4. t # <<>> => Head(t) = t[1] /\ 1 \in 1..Len(t)
  BY <1>1
<1>5. t # <<>> => Head(t) = q[2]
  BY <1>1, <1>4
<1> QED
  BY <1>1, <1>3, <1>5, Zenon DEF t

(* Aborting keeps the first item only. *)
LEMMA FirstOnlyFacts ==
  ASSUME NEW S, NEW q \in Seq(S), q # <<>>
  PROVE  /\ SubSeq(q, 1, 1) \in Seq(S)
         /\ Len(SubSeq(q, 1, 1)) = 1
         /\ SubSeq(q, 1, 1) # <<>>
         /\ SubSeq(q, 1, 1)[1] = q[1]
         /\ Head(SubSeq(q, 1, 1)) = Head(q)
  OBVIOUS

(* Taking an item off the queue keeps the others in order. *)
LEMMA RemoveAtAnyFacts ==
  ASSUME NEW S, NEW q \in Seq(S), NEW i \in 1..Len(q)
  PROVE  /\ RemoveAt(q, i) \in Seq(S)
         /\ Len(RemoveAt(q, i)) = Len(q) - 1
         /\ \A j \in 1..(Len(q) - 1) :
              RemoveAt(q, i)[j] = IF j < i THEN q[j] ELSE q[j + 1]
<1> DEFINE a == SubSeq(q, 1, i - 1)
           b == SubSeq(q, i + 1, Len(q))
           r == a \o b
<1>1. /\ Len(q) \in Nat /\ i \in Nat /\ 1 <= i /\ i <= Len(q)
      /\ a \in Seq(S) /\ Len(a) = i - 1 /\ \A j \in 1..(i - 1) : a[j] = q[j]
  OBVIOUS
<1>2. /\ b \in Seq(S) /\ Len(b) = Len(q) - i
      /\ \A j \in 1..(Len(q) - i) : b[j] = q[i + j]
  OBVIOUS
<1> HIDE DEF a, b
<1>3. /\ r \in Seq(S) /\ Len(r) = Len(a) + Len(b)
      /\ \A j \in 1..(Len(a) + Len(b)) :
           r[j] = IF j <= Len(a) THEN a[j] ELSE b[j - Len(a)]
  BY <1>1, <1>2, ConcatProperties
<1> HIDE DEF r
<1>4. /\ Len(r) = Len(q) - 1
      /\ \A j \in 1..(Len(q) - 1) :
           r[j] = IF j <= i - 1 THEN a[j] ELSE b[j - (i - 1)]
  <2>1. Len(a) + Len(b) = Len(q) - 1 /\ Len(a) = i - 1
    BY <1>1, <1>2
  <2> QED
    BY <1>3, <2>1
<1>5. ASSUME NEW j \in 1..(Len(q) - 1)
      PROVE  r[j] = IF j < i THEN q[j] ELSE q[j + 1]
  <2>1. j \in Int /\ i \in Int /\ 1 <= j /\ j <= Len(q) - 1
    BY <1>1
  <2>2. CASE j < i
    <3>1. r[j] = a[j] /\ j \in 1..(i - 1)
      BY <2>1, <2>2, <1>4
    <3> QED
      BY <2>2, <3>1, <1>1
  <2>3. CASE ~(j < i)
    <3>1. r[j] = b[j - (i - 1)] /\ j - (i - 1) \in 1..(Len(q) - i)
      BY <2>1, <2>3, <1>1, <1>4
    <3>2. b[j - (i - 1)] = q[i + (j - (i - 1))] /\ i + (j - (i - 1)) = j + 1
      BY <3>1, <2>1, <1>2
    <3> QED
      BY <2>3, <3>1, <3>2
  <2> QED
    BY <2>2, <2>3
<1> QED
  BY <1>3, <1>4, <1>5, Zenon DEF RemoveAt, r, a, b

(* Taking a later item off the queue leaves the first one alone. *)
LEMMA RemoveAtFacts ==
  ASSUME NEW S, NEW q \in Seq(S), NEW i \in 2..Len(q)
  PROVE  /\ RemoveAt(q, i) \in Seq(S)
         /\ Len(RemoveAt(q, i)) = Len(q) - 1
         /\ RemoveAt(q, i) # <<>>
         /\ \A j \in 1..(Len(q) - 1) :
              RemoveAt(q, i)[j] = IF j < i THEN q[j] ELSE q[j + 1]
         /\ Head(RemoveAt(q, i)) = Head(q)
<1> DEFINE r == RemoveAt(q, i)
<1>1. /\ r \in Seq(S) /\ Len(r) = Len(q) - 1
      /\ \A j \in 1..(Len(q) - 1) : r[j] = IF j < i THEN q[j] ELSE q[j + 1]
  BY RemoveAtAnyFacts
<1>2. Len(q) \in Nat /\ i \in Nat /\ 2 <= i /\ i <= Len(q)
  OBVIOUS
<1> HIDE DEF r
<1>3. r # <<>> /\ Head(r) = r[1] /\ Head(q) = q[1]
  BY <1>1, <1>2
<1>4. r[1] = q[1]
  BY <1>1, <1>2
<1> QED
  BY <1>1, <1>3, <1>4, Zenon DEF r

(* Removing a later item, seen from behind the first one. *)
LEMMA TailOfRemoveAt ==
  ASSUME NEW S, NEW q \in Seq(S), q # <<>>, NEW i \in 2..Len(q)
  PROVE  Tail(RemoveAt(q, i)) =
           SubSeq(Tail(q), 1, (i - 1) - 1) \o SubSeq(Tail(q), (i - 1) + 1, Len(Tail(q)))
<1> DEFINE t == Tail(q)
           r == RemoveAt(q, i)
           u == RemoveAt(t, i - 1)
<1>1. /\ t \in Seq(S) /\ Len(t) = Len(q) - 1 /\ Len(q) \in Nat
      /\ \A j \in 1..Len(t) : t[j] = q[j + 1]
  BY TailFacts
<1>2. /\ r \in Seq(S) /\ Len(r) = Len(q) - 1 /\ r # <<>>
      /\ \A j \in 1..(Len(q) - 1) : r[j] = IF j < i THEN q[j] ELSE q[j + 1]
  BY RemoveAtFacts
<1>3. /\ u \in Seq(S) /\ Len(u) = Len(t) - 1
      /\ \A j \in 1..(Len(t) - 1) : u[j] = IF j < i - 1 THEN t[j] ELSE t[j + 1]
  <2>1. i - 1 \in 1..Len(t)
    BY <1>1
  <2> HIDE DEF t
  <2> QED
    BY <2>1, <1>1, RemoveAtAnyFacts
<1> HIDE DEF r, t, u
<1> DEFINE s == Tail(r)
<1>4. /\ s \in Seq(S) /\ Len(s) = Len(r) - 1
      /\ \A j \in 1..Len(s) : s[j] = r[j + 1]
  BY <1>2, TailFacts
<1> HIDE DEF s
<1>5. Len(s) = Len(u)
  BY <1>1, <1>2, <1>3, <1>4
<1>6. ASSUME NEW j \in 1..Len(u) PROVE s[j] = u[j]
  <2>1. /\ j \in Int /\ 1 <= j /\ j <= Len(q) - 2 /\ i \in Int
    BY <1>1, <1>3
  <2>2. s[j] = r[j + 1] /\ j + 1 \in 1..(Len(q) - 1)
    BY <2>1, <1>1, <1>2, <1>4, <1>5
  <2>3. t[j] = q[j + 1] /\ t[j + 1] = q[(j + 1) + 1]
    BY <2>1, <1>1
  <2>4. j \in 1..(Len(t) - 1)
    BY <2>1, <1>1
  <2>5. CASE j + 1 < i
    <3>1. r[j + 1] = q[j + 1] /\ u[j] = t[j]
      BY <2>1, <2>2, <2>4, <2>5, <1>2, <1>3
    <3> QED
      BY <2>2, <2>3, <3>1
  <2>6. CASE ~(j + 1 < i)
    <3>1. r[j + 1] = q[(j + 1) + 1] /\ u[j] = t[j + 1]
      BY <2>1, <2>2, <2>4, <2>6, <1>2, <1>3
    <3> QED
      BY <2>2, <2>3, <3>1
  <2> QED
    BY <2>5, <2>6
<1>7. s = u
  BY <1>3, <1>4, <1>5, <1>6, SeqEqual
<1> QED
  BY <1>7 DEF s, r, u, t, RemoveAt

-----------------------------------------------------------------------------
(* The queue and the states of the calls agree: a call is queued if and    *)
(* only if it is in the queue and its body has not been started, and only  *)
(* the first item can have been started.                                   *)
QueueShape ==
  /\ \A i, j \in 1..Len(queue) : queue[i] = queue[j] => i = j
  /\ \A i \in 1..Len(queue) :
       /\ owner[queue[i]] = queue[i]
       /\ phase[queue[i]] =
            IF i = 1 /\ exec = "running" THEN "active" ELSE "queued"
  /\ \A c \in Calls : phase[c] = "queued" =>
       \E i \in 1..Len(queue) : queue[i] = c
  /\ \A c \in Calls : phase[c] = "active" /\ owner[c] = c =>
       exec = "running" /\ queue[1] = c
  /\ (exec = "idle") <=> (queue = <<>>)
  /\ \A c \in Calls : phase[c] = "new" => owner[c] = None /\ caller[c] = None

(* Typing. *)

(* Every step keeps the types; the item that finishes is in the queue. *)
LEMMA TypeStep == TypeOK /\ QueueShape /\ [Next]_vars => TypeOK'
<1> SUFFICES ASSUME TypeOK, QueueShape, [Next]_vars PROVE TypeOK'
  OBVIOUS
<1>a. \A q \in Seq(Calls) : Len(q) >= 2 => Head(q) \in Calls
  OBVIOUS
<1>b. ASSUME NEW q \in Seq(Calls) PROVE Armed(q) \in Flows
  BY <1>a DEF Armed, TypeOK
<1>1. ASSUME NEW f \in Flows, NEW c \in Calls, EnqueueAndStart(f, c)
      PROVE  TypeOK'
  <2>1. queue' \in Seq(Calls)
    BY <1>1, AppendFacts DEF EnqueueAndStart, TypeOK
  <2> QED
    BY <1>1, <1>b, <2>1 DEF EnqueueAndStart, MadeBy, TypeOK
<1>2. ASSUME NEW f \in Flows, NEW c \in Calls, EnqueueBehind(f, c)
      PROVE  TypeOK'
  <2>1. queue' \in Seq(Calls)
    BY <1>2, AppendFacts DEF EnqueueBehind, Pushed, TypeOK
  <2> QED
    BY <1>2, <1>b, <2>1 DEF EnqueueBehind, MadeBy, TypeOK
<1>3. ASSUME NEW f \in Calls, NEW c \in Calls, SubAction(f, c)
      PROVE  TypeOK'
  BY <1>3 DEF SubAction, ValidQueue, CalledInside, MadeBy, TypeOK
<1>4. ASSUME NEW f \in Calls, NEW c \in Calls, Await(f, c)
      PROVE  TypeOK'
  BY <1>4 DEF Await, TypeOK
<1>5. ASSUME NEW f \in Calls, NEW c \in Calls, AwaitNested(f, c)
      PROVE  TypeOK'
  <2>1. queue' \in Seq(Calls)
    BY <1>5, RemoveAtFacts DEF AwaitNested, TypeOK
  <2> QED
    BY <1>5, <2>1 DEF AwaitNested, TypeOK
<1>6. ASSUME NEW f \in Flows, Batch(f) PROVE TypeOK'
  BY <1>6 DEF Batch, TypeOK
<1>7. ASSUME NEW f \in Flows, BatchDone(f) PROVE TypeOK'
  BY <1>7 DEF BatchDone, TypeOK
<1>8. ASSUME NEW f \in Flows, AbortPendingWork(f) PROVE TypeOK'
  <2>1. queue' \in Seq(Calls)
    BY <1>8, FirstOnlyFacts
    DEF AbortPendingWork, KeptByAbort, isWriterRunning, TypeOK
  <2> QED
    BY <1>8, <2>1 DEF AbortPendingWork, TypeOK
<1>9. ASSUME NEW f \in Calls, FinishItem(f) PROVE TypeOK'
  <2>1. exec' \in {"idle", "scheduled", "running"}
    BY <1>9 DEF FinishItem, Due
  <2>2. queue' \in Seq(Calls)
    <3>1. queue # <<>>
      BY <1>9 DEF FinishItem, Finishes, CanRun, QueueShape
    <3> QED
      BY <1>9, <3>1 DEF FinishItem, TypeOK
  <2> QED
    BY <1>9, <2>1, <2>2 DEF FinishItem, TypeOK
<1>10. ASSUME NEW f \in Calls, FinishSubAction(f) PROVE TypeOK'
  BY <1>10 DEF FinishSubAction, TypeOK
<1>11. ASSUME ExecuteNext PROVE TypeOK'
  BY <1>11, <1>b DEF ExecuteNext, TypeOK
<1>12. ASSUME WatchdogFires PROVE TypeOK'
  BY <1>12 DEF WatchdogFires, TypeOK
<1>13. ASSUME UNCHANGED vars PROVE TypeOK'
  BY <1>13 DEF vars, TypeOK
<1> QED
  BY <1>1, <1>2, <1>3, <1>4, <1>5, <1>6, <1>7, <1>8, <1>9, <1>10, <1>11,
     <1>12, <1>13 DEF Next

-----------------------------------------------------------------------------
(* The shape of the queue. *)

(* A started item is the first one; what is in the queue has its own turn. *)
LEMMA ShapeFacts ==
  ASSUME TypeOK, QueueShape
  PROVE  /\ Len(queue) \in Nat
         /\ queue # <<>> => /\ 1 \in 1..Len(queue) /\ Head(queue) = queue[1]
                            /\ Head(queue) \in Calls
         /\ \A i \in 1..Len(queue) : queue[i] \in Calls
  BY DEF TypeOK

(* Every step keeps the queue and the states of the calls in agreement. *)
LEMMA ShapeStep == TypeOK /\ QueueShape /\ [Next]_vars => QueueShape'
<1> SUFFICES ASSUME TypeOK, QueueShape, [Next]_vars PROVE QueueShape'
  OBVIOUS
<1>1. ASSUME NEW f \in Flows, NEW c \in Calls, EnqueueAndStart(f, c)
      PROVE  QueueShape'
  <2>1. Len(queue') = 1 /\ queue'[1] = c /\ queue' # <<>>
    BY <1>1, AppendFacts DEF EnqueueAndStart, Idle, TypeOK
  <2> QED
    BY <1>1, <2>1 DEF EnqueueAndStart, Idle, MadeBy, QueueShape, TypeOK
<1>2. ASSUME NEW f \in Flows, NEW c \in Calls, EnqueueBehind(f, c)
      PROVE  QueueShape'
  <2>1. /\ Len(queue') = Len(queue) + 1 /\ queue' # <<>>
        /\ \A i \in 1..Len(queue) : queue'[i] = queue[i]
        /\ queue'[Len(queue) + 1] = c
    BY <1>2, AppendFacts DEF EnqueueBehind, Pushed, TypeOK
  <2>2. Len(queue) \in Nat /\ Len(queue) >= 1 /\ queue # <<>>
    BY <1>2 DEF EnqueueBehind, Idle, TypeOK
  <2>3. \A i \in 1..Len(queue) : queue[i] # c /\ queue[i] \in Calls
    BY <1>2, ShapeFacts DEF EnqueueBehind, QueueShape
  <2>4. \A i, j \in 1..Len(queue') : queue'[i] = queue'[j] => i = j
    BY <2>1, <2>2, <2>3 DEF QueueShape
  <2>5. \A i \in 1..Len(queue') :
          /\ owner'[queue'[i]] = queue'[i]
          /\ phase'[queue'[i]] =
               IF i = 1 /\ exec' = "running" THEN "active" ELSE "queued"
    <3> SUFFICES ASSUME NEW i \in 1..Len(queue')
                 PROVE  /\ owner'[queue'[i]] = queue'[i]
                        /\ phase'[queue'[i]] =
                             IF i = 1 /\ exec' = "running"
                             THEN "active" ELSE "queued"
      OBVIOUS
    <3>1. CASE i \in 1..Len(queue)
      BY <1>2, <3>1, <2>1, <2>3 DEF EnqueueBehind, MadeBy, QueueShape, TypeOK
    <3>2. CASE i = Len(queue) + 1
      BY <1>2, <3>2, <2>1, <2>2 DEF EnqueueBehind, MadeBy, TypeOK
    <3> QED
      BY <3>1, <3>2, <2>1, <2>2
  <2>6. \A d \in Calls : phase'[d] = "queued" =>
          \E i \in 1..Len(queue') : queue'[i] = d
    <3> SUFFICES ASSUME NEW d \in Calls, phase'[d] = "queued"
                 PROVE  \E i \in 1..Len(queue') : queue'[i] = d
      OBVIOUS
    <3>1. CASE d = c
      BY <3>1, <2>1, <2>2
    <3>2. CASE d # c
      <4>1. PICK i \in 1..Len(queue) : queue[i] = d
        BY <1>2, <3>2 DEF EnqueueBehind, QueueShape, TypeOK
      <4> QED
        BY <4>1, <2>1, <2>2
    <3> QED
      BY <3>1, <3>2
  <2>7. queue'[1] = queue[1]
    BY <2>1, <2>2
  <2>8. \A d \in Calls : phase'[d] \in {"active", "new"} =>
          /\ d # c /\ phase'[d] = phase[d]
          /\ owner'[d] = owner[d] /\ caller'[d] = caller[d]
    BY <1>2 DEF EnqueueBehind, MadeBy, TypeOK
  <2> QED
    BY <1>2, <2>1, <2>2, <2>4, <2>5, <2>6, <2>7, <2>8
    DEF EnqueueBehind, QueueShape
<1>3. ASSUME NEW f \in Calls, NEW c \in Calls, SubAction(f, c)
      PROVE  QueueShape'
  <2>1. \A i \in 1..Len(queue) : queue[i] # c /\ queue[i] \in Calls
    BY <1>3, ShapeFacts DEF SubAction, ValidQueue, CalledInside, QueueShape
  <2>2. owner[f] # c /\ owner[f] \in Calls
    BY <1>3, <2>1, ShapeFacts DEF SubAction, ValidQueue, CalledInside
  <2> QED
    BY <1>3, <2>1, <2>2 DEF SubAction, ValidQueue, CalledInside, MadeBy, QueueShape, TypeOK
<1>4. ASSUME NEW f \in Calls, NEW c \in Calls, Await(f, c)
      PROVE  QueueShape'
  BY <1>4 DEF Await, QueueShape
<1>5. ASSUME NEW f \in Calls, NEW c \in Calls, AwaitNested(f, c)
      PROVE  QueueShape'
  <2>1. PICK i \in 2..Len(queue) :
          queue[i] = c /\ queue' = RemoveAt(queue, i)
    BY <1>5 DEF AwaitNested
  <2>2. /\ Len(queue') = Len(queue) - 1 /\ queue' # <<>>
        /\ \A j \in 1..(Len(queue) - 1) :
             queue'[j] = IF j < i THEN queue[j] ELSE queue[j + 1]
    BY <2>1, RemoveAtFacts DEF TypeOK
  <2>3. Len(queue) \in Nat /\ i \in Nat /\ 2 <= i /\ i <= Len(queue)
    BY ShapeFacts
  <2>4. \A j \in 1..Len(queue') :
          \E k \in 1..Len(queue) : k # i /\ queue'[j] = queue[k] /\ (j = 1 <=> k = 1)
    BY <2>2, <2>3
  <2>5. \A k \in 1..Len(queue) : k # i =>
          \E j \in 1..Len(queue') : queue'[j] = queue[k]
    <3> SUFFICES ASSUME NEW k \in 1..Len(queue), k # i
                 PROVE  \E j \in 1..Len(queue') : queue'[j] = queue[k]
      OBVIOUS
    <3>1. CASE k < i
      BY <3>1, <2>2, <2>3
    <3>2. CASE k > i
      <4>1. k - 1 \in 1..(Len(queue) - 1) /\ ~(k - 1 < i) /\ (k - 1) + 1 = k
        BY <3>2, <2>3
      <4> QED
        BY <4>1, <2>2
    <3> QED
      BY <3>1, <3>2, <2>3
  <2>6. \A j, k \in 1..Len(queue') : queue'[j] = queue'[k] => j = k
    <3> SUFFICES ASSUME NEW j \in 1..Len(queue'), NEW k \in 1..Len(queue'),
                        queue'[j] = queue'[k]
                 PROVE  j = k
      OBVIOUS
    <3>1. PICK u \in 1..Len(queue) :
            u = (IF j < i THEN j ELSE j + 1) /\ queue'[j] = queue[u]
      BY <2>2, <2>3
    <3>2. PICK v \in 1..Len(queue) :
            v = (IF k < i THEN k ELSE k + 1) /\ queue'[k] = queue[v]
      BY <2>2, <2>3
    <3>3. queue[u] = queue[v]
      BY <3>1, <3>2
    <3>4. u = v
      BY <3>3 DEF QueueShape
    <3> QED
      BY <3>1, <3>2, <3>4, <2>2, <2>3
  <2>7. \A k \in 1..Len(queue) : queue[k] = c <=> k = i
    BY <2>1, <2>3 DEF QueueShape
  <2>8. \A j \in 1..Len(queue') :
          /\ owner'[queue'[j]] = queue'[j]
          /\ phase'[queue'[j]] =
               IF j = 1 /\ exec' = "running" THEN "active" ELSE "queued"
    <3> SUFFICES ASSUME NEW j \in 1..Len(queue')
                 PROVE  /\ owner'[queue'[j]] = queue'[j]
                        /\ phase'[queue'[j]] =
                             IF j = 1 /\ exec' = "running"
                             THEN "active" ELSE "queued"
      OBVIOUS
    <3>1. PICK k \in 1..Len(queue) :
            k # i /\ queue'[j] = queue[k] /\ (j = 1 <=> k = 1)
      BY <2>4
    <3>2. queue[k] # c /\ queue[k] \in Calls
      BY <3>1, <2>7, ShapeFacts
    <3> QED
      BY <1>5, <3>1, <3>2 DEF AwaitNested, QueueShape, TypeOK
  <2>9. \A d \in Calls : phase'[d] = "queued" =>
          \E j \in 1..Len(queue') : queue'[j] = d
    <3> SUFFICES ASSUME NEW d \in Calls, phase'[d] = "queued"
                 PROVE  \E j \in 1..Len(queue') : queue'[j] = d
      OBVIOUS
    <3>1. d # c /\ phase[d] = "queued"
      BY <1>5 DEF AwaitNested, TypeOK
    <3>2. PICK k \in 1..Len(queue) : queue[k] = d
      BY <3>1 DEF QueueShape
    <3> QED
      BY <3>1, <3>2, <2>5, <2>7
  <2>10. queue'[1] = queue[1] /\ queue # <<>>
    BY <2>2, <2>3
  <2> QED
    BY <1>5, <2>2, <2>6, <2>8, <2>9, <2>10
    DEF AwaitNested, QueueShape, TypeOK
<1>6. ASSUME NEW f \in Flows, Batch(f) PROVE QueueShape'
  BY <1>6 DEF Batch, QueueShape
<1>7. ASSUME NEW f \in Flows, BatchDone(f) PROVE QueueShape'
  BY <1>7 DEF BatchDone, QueueShape
<1>8. ASSUME NEW f \in Flows, AbortPendingWork(f) PROVE QueueShape'
  <2>1. /\ queue # <<>> /\ queue' # <<>> /\ Len(queue') = 1
        /\ queue'[1] = queue[1]
    BY <1>8, FirstOnlyFacts
    DEF AbortPendingWork, KeptByAbort, isWriterRunning, TypeOK
  <2>2. \A i \in 2..Len(queue) : queue[i] # queue[1]
    BY ShapeFacts DEF QueueShape
  <2>3. phase'[queue[1]] = phase[queue[1]]
    BY <1>8, <2>1, <2>2, ShapeFacts DEF AbortPendingWork
  <2>4. \A c \in Calls : phase'[c] = "queued" => phase[c] = "queued" /\ c = queue[1]
    <3> SUFFICES ASSUME NEW c \in Calls, phase'[c] = "queued"
                 PROVE  phase[c] = "queued" /\ c = queue[1]
      OBVIOUS
    <3>1. phase[c] = "queued" /\ ~\E i \in 2..Len(queue) : queue[i] = c
      BY <1>8 DEF AbortPendingWork
    <3>2. PICK i \in 1..Len(queue) : queue[i] = c
      BY <3>1 DEF QueueShape
    <3> QED
      BY <3>1, <3>2, ShapeFacts
  <2>5. \A c \in Calls : phase'[c] \in {"active", "new"} => phase[c] = phase'[c]
    BY <1>8 DEF AbortPendingWork
  <2> QED
    BY <1>8, <2>1, <2>3, <2>4, <2>5, ShapeFacts DEF AbortPendingWork, QueueShape
<1>9. ASSUME NEW f \in Calls, FinishItem(f) PROVE QueueShape'
  <2>1. queue # <<>> /\ queue[1] = f /\ exec = "running"
    BY <1>9 DEF FinishItem, Finishes, CanRun, QueueShape
  <2>2. /\ Len(queue) \in Nat \ {0} /\ Len(queue') = Len(queue) - 1
        /\ \A i \in 1..Len(queue') : queue'[i] = queue[i + 1]
        /\ queue' = <<>> <=> Len(queue) = 1
    BY <1>9, <2>1, TailFacts DEF FinishItem, TypeOK
  <2>3. \A i \in 1..Len(queue') : i + 1 \in 1..Len(queue) /\ i + 1 # 1
    BY <2>2
  <2>4. \A i \in 1..Len(queue') : queue'[i] # f /\ queue'[i] \in Calls
    BY <2>1, <2>2, <2>3, ShapeFacts DEF QueueShape
  <2>5. \A c \in Calls : phase'[c] = "queued" =>
          \E i \in 1..Len(queue') : queue'[i] = c
    <3> SUFFICES ASSUME NEW c \in Calls, phase'[c] = "queued"
                 PROVE  \E i \in 1..Len(queue') : queue'[i] = c
      OBVIOUS
    <3>1. c # f /\ phase[c] = "queued"
      BY <1>9 DEF FinishItem, TypeOK
    <3>2. PICK k \in 1..Len(queue) : queue[k] = c
      BY <3>1 DEF QueueShape
    <3>3. k - 1 \in 1..Len(queue') /\ (k - 1) + 1 = k
      BY <3>1, <3>2, <2>1, <2>2
    <3> QED
      BY <3>2, <3>3, <2>2
  <2>6. \A i, j \in 1..Len(queue') : queue'[i] = queue'[j] => i = j
    BY <2>2, <2>3 DEF QueueShape
  <2>7. exec' # "running" /\ ((exec' = "idle") <=> (queue' = <<>>))
    BY <1>9 DEF FinishItem, Due
  <2>8. \A i \in 1..Len(queue') :
          owner[queue'[i]] = queue'[i] /\ phase[queue'[i]] = "queued"
    <3> TAKE i \in 1..Len(queue')
    <3>1. queue'[i] = queue[i + 1] /\ i + 1 \in 1..Len(queue) /\ i + 1 # 1
      BY <2>2, <2>3
    <3>2. owner[queue[i + 1]] = queue[i + 1] /\ phase[queue[i + 1]] = "queued"
      BY <3>1 DEF QueueShape
    <3> QED
      BY <3>1, <3>2
  <2>9. \A c \in Calls : phase'[c] = "active" => owner'[c] # c
    BY <1>9, <2>1 DEF FinishItem, QueueShape, TypeOK
  <2>10. \A c \in Calls : phase'[c] = "new" => owner'[c] = None /\ caller'[c] = None
    BY <1>9 DEF FinishItem, QueueShape, TypeOK
  <2>11. \A i \in 1..Len(queue') :
          owner'[queue'[i]] = queue'[i] /\ phase'[queue'[i]] = "queued"
    BY <1>9, <2>4, <2>8 DEF FinishItem, TypeOK
  <2> QED
    BY <2>5, <2>6, <2>7, <2>9, <2>10, <2>11 DEF QueueShape
<1>10. ASSUME NEW f \in Calls, FinishSubAction(f) PROVE QueueShape'
  <2>1. \A i \in 1..Len(queue) : queue[i] # f /\ queue[i] \in Calls
    BY <1>10, ShapeFacts DEF FinishSubAction, QueueShape
  <2> QED
    BY <1>10, <2>1 DEF FinishSubAction, QueueShape, TypeOK
<1>11. ASSUME ExecuteNext PROVE QueueShape'
  <2>1. queue # <<>> /\ Head(queue) = queue[1] /\ queue[1] \in Calls
    BY <1>11, ShapeFacts DEF ExecuteNext, QueueShape
  <2>2. \A i \in 1..Len(queue) : queue[i] = queue[1] <=> i = 1
    BY <2>1, ShapeFacts DEF QueueShape
  <2> QED
    BY <1>11, <2>1, <2>2, ShapeFacts DEF ExecuteNext, QueueShape, TypeOK
<1>12. ASSUME WatchdogFires PROVE QueueShape'
  BY <1>12 DEF WatchdogFires, QueueShape
<1>13. ASSUME UNCHANGED vars PROVE QueueShape'
  BY <1>13 DEF vars, QueueShape
<1> QED
  BY <1>1, <1>2, <1>3, <1>4, <1>5, <1>6, <1>7, <1>8, <1>9, <1>10, <1>11,
     <1>12, <1>13 DEF Next

(* Typing and the shape of the queue hold in every reachable state. *)
THEOREM Typing == Spec => []TypeOK
<1>1. Init => TypeOK /\ QueueShape
  BY DEF Init, TypeOK, QueueShape
<1>2. (TypeOK /\ QueueShape) /\ [Next]_vars => (TypeOK /\ QueueShape)'
  BY TypeStep, ShapeStep
<1> QED
  BY <1>1, <1>2, PTL DEF Spec

THEOREM Shape == Spec => []QueueShape
<1>1. Init => TypeOK /\ QueueShape
  BY DEF Init, TypeOK, QueueShape
<1>2. (TypeOK /\ QueueShape) /\ [Next]_vars => (TypeOK /\ QueueShape)'
  BY TypeStep, ShapeStep
<1> QED
  BY <1>1, <1>2, PTL DEF Spec

(* No two items overlap, _executeNext is never entered twice and never     *)
(* forgets a queue that is not empty.                                      *)
THEOREM Exclusion == Spec => []OneItemAtATime
<1>1. TypeOK /\ QueueShape => OneItemAtATime
  <2> SUFFICES ASSUME TypeOK, QueueShape PROVE OneItemAtATime
    OBVIOUS
  <2>1. exec = "running" => queue # <<>>
    BY DEF QueueShape
  <2> QED
    BY <2>1, ShapeFacts DEF QueueShape, OneItemAtATime
<1> QED
  BY <1>1, Typing, Shape, PTL

(* A rejected call stays rejected. *)
THEOREM Rejection == Spec => RejectedNeverRuns
<1>1. TypeOK /\ QueueShape /\ [Next]_vars
        => [\A c \in Calls : phase[c] = "dropped" => phase'[c] = "dropped"]_vars
  <2> SUFFICES ASSUME TypeOK, QueueShape, Next, NEW c \in Calls,
                      phase[c] = "dropped"
               PROVE  phase'[c] = "dropped"
    BY DEF vars
  <2>1. ASSUME ExecuteNext PROVE phase'[c] = "dropped"
    <3>1. queue # <<>> /\ Head(queue) # c
      BY <2>1, ShapeFacts DEF ExecuteNext, QueueShape
    <3> QED
      BY <2>1, <3>1 DEF ExecuteNext, TypeOK
  <2> QED
    BY <2>1 DEF Next, EnqueueAndStart, EnqueueBehind, SubAction, ValidQueue, CalledInside, Await,
      AwaitNested, Batch, BatchDone, AbortPendingWork, FinishItem,
      FinishSubAction, Finishes, CanRun, WatchdogFires, TypeOK
<1> QED
  BY <1>1, Typing, Shape, PTL DEF Spec, RejectedNeverRuns

-----------------------------------------------------------------------------
(* The stuck watchdog. *)

LEMMA BacklogStep ==
  TypeOK /\ QueueShape /\ BacklogIsWatched /\ [Next]_vars => BacklogIsWatched'
<1> SUFFICES ASSUME TypeOK, QueueShape, BacklogIsWatched, [Next]_vars
             PROVE  BacklogIsWatched'
  OBVIOUS
<1>1. ASSUME NEW f \in Flows, NEW c \in Calls, EnqueueAndStart(f, c)
      PROVE  BacklogIsWatched'
  <2>1. Len(queue') = 1 /\ watchdog = None
    BY <1>1, AppendFacts DEF EnqueueAndStart, Idle, TypeOK, BacklogIsWatched
  <2> QED
    BY <1>1, <2>1 DEF EnqueueAndStart, Armed, BacklogIsWatched
<1>2. ASSUME NEW f \in Flows, NEW c \in Calls, EnqueueBehind(f, c)
      PROVE  BacklogIsWatched'
  <2>1. queue # <<>> /\ queue' # <<>> /\ Head(queue') = Head(queue)
    BY <1>2, AppendFacts DEF EnqueueBehind, Idle, Pushed, TypeOK
  <2> QED
    BY <1>2, <2>1 DEF EnqueueBehind, Armed, BacklogIsWatched
<1>3. ASSUME UNCHANGED <<queue, exec, watchdog, warned>>
      PROVE  BacklogIsWatched'
  BY <1>3 DEF BacklogIsWatched
<1>4. ASSUME NEW f \in Calls, NEW c \in Calls, AwaitNested(f, c)
      PROVE  BacklogIsWatched'
  <2>1. queue' # <<>> /\ Head(queue') = Head(queue)
        /\ Len(queue') = Len(queue) - 1
    BY <1>4, RemoveAtFacts DEF AwaitNested, TypeOK
  <2> QED
    BY <1>4, <2>1, ShapeFacts DEF AwaitNested, BacklogIsWatched
<1>5. ASSUME NEW f \in Flows, AbortPendingWork(f) PROVE BacklogIsWatched'
  <2>1. queue' # <<>> /\ Head(queue') = Head(queue) /\ Len(queue') = 1
    BY <1>5, FirstOnlyFacts
    DEF AbortPendingWork, KeptByAbort, isWriterRunning, TypeOK
  <2> QED
    BY <1>5, <2>1 DEF AbortPendingWork, BacklogIsWatched
<1>6. ASSUME NEW f \in Calls, FinishItem(f) PROVE BacklogIsWatched'
  BY <1>6 DEF FinishItem, Due, BacklogIsWatched
<1>7. ASSUME ExecuteNext PROVE BacklogIsWatched'
  BY <1>7 DEF ExecuteNext, Armed, QueueShape, BacklogIsWatched
<1>8. ASSUME WatchdogFires PROVE BacklogIsWatched'
  BY <1>8 DEF WatchdogFires, Warns, BacklogIsWatched
<1> QED
  BY <1>1, <1>2, <1>3, <1>4, <1>5, <1>6, <1>7, <1>8
  DEF Next, vars, SubAction, ValidQueue, CalledInside, Await, Batch, BatchDone, FinishSubAction

(* The watchdog's timer is set for the first item, and a running item with *)
(* others behind it has its timer set or has been warned about.            *)
THEOREM Watching == Spec => []BacklogIsWatched
<1>1. Init => BacklogIsWatched
  BY DEF Init, BacklogIsWatched
<1> QED
  BY <1>1, BacklogStep, Typing, Shape, PTL DEF Spec

-----------------------------------------------------------------------------
(* Nested-call detection. *)

(* A flow exists only once its item has started, awaits nothing before it  *)
(* has started itself, and then only calls that have been made.            *)
FlowShape ==
  /\ \A f \in Calls : phase[f] = "active" =>
       owner[f] \in Calls /\ phase[owner[f]] \in {"active", "done"}
  /\ \A f \in Calls : waits[f] # None => phase[waits[f]] # "new"
  /\ \A f \in Calls : phase[f] \in {"new", "queued"} => waits[f] = None

LEMMA FlowStep ==
  TypeOK /\ QueueShape /\ FlowShape /\ [Next]_vars => FlowShape'
<1> SUFFICES ASSUME TypeOK, QueueShape, FlowShape, [Next]_vars
             PROVE  FlowShape'
  OBVIOUS
<1>1. ASSUME NEW f \in Flows, NEW c \in Calls,
             EnqueueAndStart(f, c) \/ EnqueueBehind(f, c)
      PROVE  FlowShape'
  BY <1>1 DEF EnqueueAndStart, EnqueueBehind, MadeBy, FlowShape, TypeOK
<1>2. ASSUME NEW f \in Calls, NEW c \in Calls, SubAction(f, c)
      PROVE  FlowShape'
  BY <1>2 DEF SubAction, ValidQueue, CalledInside, MadeBy, CanRun, FlowShape, TypeOK
<1>3. ASSUME NEW f \in Calls, NEW c \in Calls, Await(f, c)
      PROVE  FlowShape'
  <2>1. phase[f] = "active" /\ phase[c] # "new"
    BY <1>3 DEF Await, CanRun, QueueShape
  <2> QED
    BY <1>3, <2>1 DEF Await, FlowShape, TypeOK
<1>4. ASSUME NEW f \in Calls, NEW c \in Calls, AwaitNested(f, c)
      PROVE  FlowShape'
  BY <1>4 DEF AwaitNested, GuardsNested, FlowShape, TypeOK
<1>5. ASSUME NEW f \in Flows, AbortPendingWork(f) PROVE FlowShape'
  <2>1. \A c \in Calls : phase[c] \in {"active", "done"} =>
          ~\E i \in 2..Len(queue) : queue[i] = c
    BY ShapeFacts DEF QueueShape
  <2>2. \A c \in Calls :
          /\ phase[c] \in {"active", "done"} => phase'[c] = phase[c]
          /\ phase'[c] \in {"active", "new", "queued"} => phase'[c] = phase[c]
    BY <1>5, <2>1 DEF AbortPendingWork
  <2> QED
    BY <1>5, <2>2 DEF AbortPendingWork, FlowShape, TypeOK
<1>6. ASSUME NEW f \in Calls, FinishItem(f) \/ FinishSubAction(f)
      PROVE  FlowShape'
  BY <1>6 DEF FinishItem, FinishSubAction, FlowShape, TypeOK
<1>7. ASSUME ExecuteNext PROVE FlowShape'
  <2>1. Head(queue) \in Calls /\ owner[Head(queue)] = Head(queue)
    BY <1>7, ShapeFacts DEF ExecuteNext, QueueShape
  <2> QED
    BY <1>7, <2>1 DEF ExecuteNext, FlowShape, TypeOK
<1>8. ASSUME UNCHANGED <<phase, owner, waits>> PROVE FlowShape'
  BY <1>8 DEF FlowShape
<1> QED
  BY <1>1, <1>2, <1>3, <1>4, <1>5, <1>6, <1>7, <1>8
  DEF Next, vars, Batch, BatchDone, WatchdogFires

LEMMA SelfWaitStep ==
  TypeOK /\ QueueShape /\ FlowShape /\ NoSelfWait /\ [Next]_vars => NoSelfWait'
<1> SUFFICES ASSUME TypeOK, QueueShape, FlowShape, NoSelfWait, [Next]_vars,
                    Detect, NEW g \in Calls, phase'[g] = "active",
                    queue' # <<>>, owner'[g] = Head(queue'), waits'[g] # None
             PROVE  phase'[waits'[g]] # "queued"
  BY DEF NoSelfWait
<1>1. ASSUME NEW f \in Flows, NEW c \in Calls, EnqueueAndStart(f, c)
      PROVE  phase'[waits'[g]] # "queued"
  <2>1. \A d \in Calls : phase[d] # "queued"
    BY <1>1 DEF EnqueueAndStart, Idle, QueueShape
  <2> QED
    BY <1>1, <2>1 DEF EnqueueAndStart, TypeOK
<1>2. ASSUME NEW f \in Flows, NEW c \in Calls, EnqueueBehind(f, c)
      PROVE  phase'[waits'[g]] # "queued"
  <2>1. queue # <<>> /\ Head(queue') = Head(queue)
    BY <1>2, AppendFacts DEF EnqueueBehind, Idle, Pushed, TypeOK
  <2>2. g # c /\ phase[g] = "active" /\ owner[g] = Head(queue) /\ waits[g] # c
    BY <1>2, <2>1 DEF EnqueueBehind, MadeBy, FlowShape, TypeOK
  <2> QED
    BY <1>2, <2>1, <2>2 DEF EnqueueBehind, NoSelfWait, TypeOK
<1>3. ASSUME NEW f \in Calls, NEW c \in Calls, SubAction(f, c)
      PROVE  phase'[waits'[g]] # "queued"
  <2>1. phase'[waits[g]] = "queued" => phase[waits[g]] = "queued"
    BY <1>3 DEF SubAction, ValidQueue, CalledInside, TypeOK
  <2>2. CASE g = c
    BY <1>3, <2>2 DEF SubAction, ValidQueue, CalledInside, TypeOK, FlowShape
  <2> QED
    BY <1>3, <2>1, <2>2 DEF SubAction, ValidQueue, CalledInside, MadeBy, NoSelfWait, TypeOK
<1>4. ASSUME NEW f \in Calls, NEW c \in Calls, Await(f, c)
      PROVE  phase'[waits'[g]] # "queued"
  BY <1>4 DEF Await, GuardsNested, NoSelfWait, TypeOK
<1>5. ASSUME NEW f \in Calls, NEW c \in Calls, AwaitNested(f, c)
      PROVE  phase'[waits'[g]] # "queued"
  <2>1. queue # <<>> /\ Head(queue') = Head(queue)
    BY <1>5, RemoveAtFacts DEF AwaitNested, GuardsNested, TypeOK
  <2> QED
    BY <1>5, <2>1 DEF AwaitNested, NoSelfWait, TypeOK
<1>6. ASSUME NEW f \in Flows, AbortPendingWork(f)
      PROVE  phase'[waits'[g]] # "queued"
  <2>1. queue # <<>> /\ Head(queue') = Head(queue)
    BY <1>6, FirstOnlyFacts
    DEF AbortPendingWork, KeptByAbort, isWriterRunning, TypeOK
  <2>2. phase[g] = "active" /\ waits[g] \in Calls
    BY <1>6 DEF AbortPendingWork, TypeOK
  <2> QED
    BY <1>6, <2>1, <2>2 DEF AbortPendingWork, NoSelfWait
<1>7. ASSUME NEW f \in Calls, FinishItem(f)
      PROVE  phase'[waits'[g]] # "queued"
  <2>1. queue # <<>> /\ exec = "running" /\ queue' = Tail(queue)
    BY <1>7 DEF FinishItem, Finishes, CanRun, QueueShape
  <2>2. Head(queue') = queue[2] /\ 2 \in 1..Len(queue)
    BY <2>1, TailFacts DEF TypeOK
  <2>3. phase[Head(queue')] = "queued"
    BY <2>2 DEF QueueShape
  <2>4. phase[g] = "active" /\ owner[g] = Head(queue')
    BY <1>7 DEF FinishItem, TypeOK
  <2> QED
    BY <2>3, <2>4 DEF FlowShape
<1>8. ASSUME NEW f \in Calls, FinishSubAction(f)
      PROVE  phase'[waits'[g]] # "queued"
  BY <1>8 DEF FinishSubAction, NoSelfWait, TypeOK
<1>9. ASSUME ExecuteNext PROVE phase'[waits'[g]] # "queued"
  <2>1. Head(queue) \in Calls /\ phase[Head(queue)] = "queued"
    BY <1>9, ShapeFacts DEF ExecuteNext, QueueShape
  <2>2. CASE g = Head(queue)
    BY <1>9, <2>1, <2>2 DEF ExecuteNext, FlowShape, TypeOK
  <2>3. CASE g # Head(queue)
    <3>1. phase[g] = "active" /\ owner[g] = Head(queue)
      BY <1>9, <2>3 DEF ExecuteNext, TypeOK
    <3> QED
      BY <3>1, <2>1 DEF FlowShape
  <2> QED
    BY <2>2, <2>3
<1>10. ASSUME UNCHANGED <<queue, phase, owner, waits>>
       PROVE  phase'[waits'[g]] # "queued"
  BY <1>10 DEF NoSelfWait
<1> QED
  BY <1>1, <1>2, <1>3, <1>4, <1>5, <1>6, <1>7, <1>8, <1>9, <1>10
  DEF Next, vars, Batch, BatchDone, WatchdogFires

(* With experimentalDetectNestedWriters no body in the turn of the running *)
(* item awaits a call queued behind that item.                             *)
THEOREM NestedDetection == Spec => []NoSelfWait
<1>1. Init => FlowShape /\ NoSelfWait
  BY DEF Init, FlowShape, NoSelfWait
<1> QED
  BY <1>1, FlowStep, SelfWaitStep, Typing, Shape, PTL DEF Spec

-----------------------------------------------------------------------------
(* Isolation of the turns. *)

SubActions == {c \in Calls : phase[c] = "active" /\ owner[c] # c}

(* A running sub-action was made by a running body of the same item, and   *)
(* following the callers of sub-actions leads out of any set of them: to   *)
(* the item itself.                                                        *)
CallTree ==
  /\ \A c \in SubActions :
       /\ caller[c] \in Calls /\ phase[caller[c]] = "active"
       /\ owner[caller[c]] = owner[c]
  /\ \A S \in SUBSET SubActions : S # {} => \E c \in S : caller[c] \notin S

LEMMA CallTreeStep ==
  ASSUME Disciplined, TypeOK, QueueShape, CallTree, TurnIsolation, [Next]_vars
  PROVE  CallTree'
<1>1. ASSUME NEW T \in SUBSET SubActions, SubActions' \subseteq T,
             \A c \in SubActions' :
               /\ caller'[c] = caller[c] /\ owner'[c] = owner[c]
               /\ owner'[caller[c]] = owner[caller[c]]
               /\ phase'[caller[c]] = "active"
      PROVE  CallTree'
  BY <1>1 DEF CallTree
<1>2. ASSUME NEW f \in Flows, NEW c \in Calls,
             EnqueueAndStart(f, c) \/ EnqueueBehind(f, c)
      PROVE  CallTree'
  <2>1. SubActions' \subseteq SubActions
    BY <1>2
    DEF EnqueueAndStart, EnqueueBehind, MadeBy, SubActions, TypeOK
  <2> QED
    BY <1>1, <1>2, <2>1
    DEF EnqueueAndStart, EnqueueBehind, MadeBy, SubActions, CallTree, TypeOK
<1>3. ASSUME NEW f \in Calls, NEW c \in Calls, SubAction(f, c)
      PROVE  CallTree'
  <2>1. phase[f] = "active" /\ phase[c] = "new" /\ f # c
    BY <1>3 DEF SubAction, ValidQueue, CalledInside, CanRun
  <2>2. SubActions' \subseteq SubActions \cup {c}
    BY <1>3 DEF SubAction, ValidQueue, CalledInside, MadeBy, SubActions, TypeOK
  <2>3. c \notin SubActions
    BY <2>1 DEF SubActions
  <2>4. /\ caller'[c] = f /\ owner'[c] = owner[f] /\ phase'[f] = "active"
        /\ owner'[f] = owner[f]
    BY <1>3, <2>1 DEF SubAction, ValidQueue, CalledInside, MadeBy, TypeOK
  <2>5. \A d \in SubActions : /\ caller'[d] = caller[d] /\ owner'[d] = owner[d]
                              /\ caller[d] # c
    BY <1>3, <2>1, <2>3 DEF SubAction, ValidQueue, CalledInside, MadeBy, SubActions, CallTree, TypeOK
  <2>6. \A d \in SubActions :
          /\ phase'[caller[d]] = "active" /\ owner'[caller[d]] = owner[caller[d]]
    BY <1>3, <2>5 DEF SubAction, ValidQueue, CalledInside, MadeBy, CallTree, TypeOK
  <2>7. ASSUME NEW S \in SUBSET SubActions', S # {}
        PROVE  \E d \in S : caller'[d] \notin S
    <3>1. CASE S = {c}
      BY <3>1, <2>1, <2>4
    <3>2. CASE S # {c}
      <4> DEFINE T == S \ {c}
      <4>1. T \in SUBSET SubActions /\ T # {}
        BY <3>2, <2>2, <2>7
      <4>2. PICK d \in T : caller[d] \notin T
        BY <4>1 DEF CallTree
      <4>3. caller'[d] \notin S
        BY <4>1, <4>2, <2>5
      <4> QED
        BY <4>2, <4>3
    <3> QED
      BY <3>1, <3>2
  <2> QED
    BY <2>2, <2>4, <2>5, <2>6, <2>7 DEF CallTree
<1>4. ASSUME NEW f \in Calls, NEW c \in Calls, AwaitNested(f, c)
      PROVE  CallTree'
  <2>1. SubActions' \subseteq SubActions /\ phase[c] = "queued"
    BY <1>4 DEF AwaitNested, GuardsNested, SubActions, TypeOK
  <2> QED
    BY <1>1, <1>4, <2>1 DEF AwaitNested, CallTree, TypeOK
<1>5. ASSUME NEW f \in Flows, AbortPendingWork(f) PROVE CallTree'
  <2>1. \A c \in Calls :
          /\ phase[c] = "active" => phase'[c] = "active"
          /\ phase'[c] = "active" => phase[c] = "active"
    BY <1>5, ShapeFacts DEF AbortPendingWork, QueueShape
  <2>2. SubActions' \subseteq SubActions
    BY <1>5, <2>1 DEF AbortPendingWork, SubActions
  <2> QED
    BY <1>1, <1>5, <2>1, <2>2 DEF AbortPendingWork, CallTree
<1>6. ASSUME NEW f \in Calls, FinishItem(f) \/ FinishSubAction(f)
      PROVE  CallTree'
  <2>1. SubActions' \subseteq SubActions /\ f \notin SubActions'
    BY <1>6 DEF FinishItem, FinishSubAction, SubActions, TypeOK
  <2>2. \A c \in Calls : phase[c] = "active" => caller[c] # f
    BY <1>6 DEF FinishItem, FinishSubAction, Finishes
  <2>3. \A c \in SubActions' : caller[c] # f
    BY <2>1, <2>2 DEF SubActions
  <2> QED
    BY <1>1, <1>6, <2>1, <2>3
    DEF FinishItem, FinishSubAction, CallTree, TypeOK
<1>7. ASSUME ExecuteNext PROVE CallTree'
  <2>1. Head(queue) \in Calls /\ owner[Head(queue)] = Head(queue)
    BY <1>7, ShapeFacts DEF ExecuteNext, QueueShape
  <2>2. SubActions' \subseteq SubActions
    BY <1>7, <2>1 DEF ExecuteNext, SubActions, TypeOK
  <2> QED
    BY <1>1, <1>7, <2>1, <2>2 DEF ExecuteNext, CallTree, TypeOK
<1>8. ASSUME UNCHANGED <<phase, owner, caller>> PROVE CallTree'
  BY <1>8 DEF CallTree, SubActions
<1> QED
  BY <1>2, <1>3, <1>4, <1>5, <1>6, <1>7, <1>8
  DEF Next, vars, Await, Batch, BatchDone, WatchdogFires

LEMMA IsolationStep ==
  ASSUME Disciplined, TypeOK, QueueShape, CallTree, TurnIsolation, [Next]_vars
  PROVE  TurnIsolation'
<1>1. ASSUME NEW f \in Flows, NEW c \in Calls, EnqueueAndStart(f, c)
      PROVE  TurnIsolation'
  <2>1. \A d \in Calls : phase[d] # "active"
    BY <1>1 DEF EnqueueAndStart, Idle, QueueShape, TurnIsolation
  <2>2. queue' # <<>> /\ Head(queue') = c
    BY <1>1, AppendFacts DEF EnqueueAndStart, Idle, TypeOK
  <2> QED
    BY <1>1, <2>1, <2>2 DEF EnqueueAndStart, MadeBy, TurnIsolation, TypeOK
<1>2. ASSUME NEW f \in Flows, NEW c \in Calls, EnqueueBehind(f, c)
      PROVE  TurnIsolation'
  <2>1. Head(queue') = Head(queue)
    BY <1>2, AppendFacts DEF EnqueueBehind, Idle, Pushed, TypeOK
  <2> QED
    BY <1>2, <2>1 DEF EnqueueBehind, MadeBy, TurnIsolation, TypeOK
<1>3. ASSUME NEW f \in Calls, NEW c \in Calls, SubAction(f, c)
      PROVE  TurnIsolation'
  BY <1>3 DEF SubAction, ValidQueue, CalledInside, CanRun, MadeBy, TurnIsolation, TypeOK
<1>4. ASSUME NEW f \in Calls, NEW c \in Calls, AwaitNested(f, c)
      PROVE  TurnIsolation'
  <2>1. Head(queue') = Head(queue) /\ phase[c] = "queued"
    BY <1>4, RemoveAtFacts DEF AwaitNested, GuardsNested, TypeOK
  <2> QED
    BY <1>4, <2>1 DEF AwaitNested, TurnIsolation, TypeOK
<1>5. ASSUME NEW f \in Flows, Batch(f) PROVE TurnIsolation'
  BY <1>5 DEF Batch, CanRun, isWriterRunning, TurnIsolation, TypeOK
<1>6. ASSUME NEW f \in Flows, BatchDone(f) PROVE TurnIsolation'
  BY <1>6 DEF BatchDone, TurnIsolation, TypeOK
<1>7. ASSUME NEW f \in Flows, AbortPendingWork(f) PROVE TurnIsolation'
  <2>1. Head(queue') = Head(queue)
    BY <1>7, FirstOnlyFacts
    DEF AbortPendingWork, KeptByAbort, isWriterRunning, TypeOK
  <2>2. \A c \in Calls :
          /\ phase[c] = "active" => phase'[c] = "active"
          /\ phase'[c] = "active" => phase[c] = "active"
    BY <1>7, ShapeFacts DEF AbortPendingWork, QueueShape
  <2> QED
    BY <1>7, <2>1, <2>2 DEF AbortPendingWork, TurnIsolation
<1>8. ASSUME NEW f \in Calls, FinishItem(f) PROVE TurnIsolation'
  <2>1. phase[f] = "active" /\ f \notin batches
        /\ \A c \in Calls : caller[c] = f => phase[c] # "active"
    BY <1>8 DEF FinishItem, Finishes, CanRun
  <2>2. \A c \in Calls : phase[c] = "active" /\ owner[c] = c => c = f
    BY <1>8, <2>1 DEF FinishItem, QueueShape
  <2>3. SubActions = {}
    <3> SUFFICES ASSUME SubActions # {} PROVE FALSE
      OBVIOUS
    <3>1. PICK c \in SubActions : caller[c] \notin SubActions
      BY DEF CallTree
    <3>2. caller[c] \in Calls /\ phase[caller[c]] = "active"
      BY DEF CallTree
    <3>3. caller[c] = f
      BY <3>1, <3>2, <2>2 DEF SubActions
    <3> QED
      BY <3>3, <2>1 DEF SubActions
  <2>4. \A c \in Calls : phase[c] = "active" => c = f
    BY <2>2, <2>3 DEF SubActions
  <2>5. batches = {}
    BY <2>1, <2>4 DEF TurnIsolation
  <2> QED
    BY <1>8, <2>4, <2>5 DEF FinishItem, TurnIsolation, TypeOK
<1>9. ASSUME NEW f \in Calls, FinishSubAction(f) PROVE TurnIsolation'
  BY <1>9 DEF FinishSubAction, Finishes, CanRun, TurnIsolation, TypeOK
<1>10. ASSUME ExecuteNext PROVE TurnIsolation'
  <2>1. Head(queue) \in Calls /\ owner[Head(queue)] = Head(queue)
    BY <1>10, ShapeFacts DEF ExecuteNext, QueueShape
  <2>2. \A d \in Calls : phase[d] # "active"
    BY <1>10 DEF ExecuteNext, TurnIsolation
  <2> QED
    BY <1>10, <2>1, <2>2 DEF ExecuteNext, TurnIsolation, TypeOK
<1>11. ASSUME UNCHANGED <<queue, exec, phase, owner, batches>>
       PROVE  TurnIsolation'
  BY <1>11 DEF TurnIsolation
<1> QED
  BY <1>1, <1>2, <1>3, <1>4, <1>5, <1>6, <1>7, <1>8, <1>9, <1>10, <1>11
  DEF Next, vars, Await, WatchdogFires

(* If bodies await what they start, all code that runs and all batches on  *)
(* their way belong to the item whose turn it is, and batches to a writer. *)
THEOREM Isolation == ASSUME Disciplined PROVE Spec => []TurnIsolation
<1>1. Init => CallTree /\ TurnIsolation
  BY DEF Init, CallTree, SubActions, TurnIsolation
<1>2. TypeOK /\ QueueShape /\ CallTree /\ TurnIsolation /\ [Next]_vars
        => CallTree' /\ TurnIsolation'
  BY CallTreeStep, IsolationStep
<1> QED
  BY <1>1, <1>2, Typing, Shape, PTL DEF Spec

-----------------------------------------------------------------------------
(* The queue implements the first-come-first-served service.               *)

(* A call that was never made is fresh to the service. *)
LEMMA NewIsFresh ==
  ASSUME TypeOK, QueueShape, NEW c \in Calls, phase[c] = "new"
  PROVE  Abstract!Fresh(c)
<1>1. \A i \in 1..Len(queue) : queue[i] # c
  BY DEF QueueShape
<1>2. exec = "running" => queue # <<>>
  BY DEF QueueShape
<1>3. c # Serving /\ c \notin SettledItems
  BY <1>1, <1>2, ShapeFacts DEF Serving, SettledItems, QueueShape
<1>4. \A i \in 1..Len(Line) : Line[i] # c
  <2>1. CASE exec = "running"
    BY <2>1, <1>1, <1>2, TailFacts DEF Line, TypeOK
  <2>2. CASE exec # "running"
    BY <2>2, <1>1 DEF Line
  <2> QED
    BY <2>1, <2>2
<1> QED
  BY <1>3, <1>4 DEF Abstract!Fresh, Abstract!InLine

LEMMA ServiceStep ==
  ASSUME TypeOK, TypeOK', QueueShape, QueueShape', FlowShape, [Next]_vars
  PROVE  [Abstract!SNext]_Abstract!svars
<1> USE DEF Abstract!svars
<1>1. ASSUME NEW f \in Flows, NEW c \in Calls, EnqueueAndStart(f, c)
      PROVE  Abstract!ServeAtOnce(c)
  <2>1. Line = <<>> /\ Serving = None
    BY <1>1 DEF EnqueueAndStart, Idle, Line, Serving, QueueShape
  <2>2. Line' = <<>> /\ Serving' = c
    BY <1>1 DEF EnqueueAndStart, Idle, Line, Serving
  <2>3. SettledItems' = SettledItems
    BY <1>1 DEF EnqueueAndStart, MadeBy, SettledItems, TypeOK
  <2> QED
    BY <1>1, <2>1, <2>2, <2>3, NewIsFresh
    DEF EnqueueAndStart, Abstract!ServeAtOnce
<1>2. ASSUME NEW f \in Flows, NEW c \in Calls, EnqueueBehind(f, c)
      PROVE  Abstract!Request(c)
  <2>1. queue # <<>> /\ queue' = Append(queue, c) /\ exec' = exec
    BY <1>2 DEF EnqueueBehind, Idle, Pushed
  <2>2. Line' = Append(Line, c) /\ Serving' = Serving
    BY <2>1 DEF Line, Serving, TypeOK
  <2>3. SettledItems' = SettledItems
    BY <1>2 DEF EnqueueBehind, MadeBy, SettledItems, TypeOK
  <2> QED
    BY <1>2, <2>2, <2>3, NewIsFresh DEF EnqueueBehind, Abstract!Request
<1>3. ASSUME NEW f \in Calls, NEW c \in Calls, SubAction(f, c)
      PROVE  UNCHANGED <<Line, Serving, SettledItems>>
  <2>1. owner[f] # c
    BY <1>3, ShapeFacts DEF SubAction, ValidQueue, CalledInside, QueueShape
  <2> QED
    BY <1>3, <2>1
    DEF SubAction, ValidQueue, CalledInside, MadeBy, Line, Serving, SettledItems, QueueShape, TypeOK
<1>4. ASSUME NEW f \in Calls, NEW c \in Calls, AwaitNested(f, c)
      PROVE  Abstract!WithdrawOne
  <2>1. exec = "running" /\ queue # <<>> /\ exec' = exec
    BY <1>4, ShapeFacts
    DEF AwaitNested, GuardsNested, CanRun, FlowShape, QueueShape
  <2>2. PICK i \in 2..Len(queue) : queue[i] = c /\ queue' = RemoveAt(queue, i)
    BY <1>4 DEF AwaitNested
  <2> DEFINE t == Tail(queue)
             r == SubSeq(t, 1, (i - 1) - 1) \o SubSeq(t, (i - 1) + 1, Len(t))
  <2>3. /\ t \in Seq(Calls) /\ Len(t) = Len(queue) - 1 /\ Len(queue) \in Nat
        /\ \A j \in 1..Len(t) : t[j] = queue[j + 1]
    BY <2>1, TailFacts DEF TypeOK
  <2>4. t[i - 1] = c /\ i - 1 \in 1..Len(t)
    BY <2>2, <2>3
  <2>5. Tail(RemoveAt(queue, i)) = r
    BY <2>1, <2>2, TailOfRemoveAt DEF TypeOK
  <2>6. Line = t /\ Line' = r
    BY <2>1, <2>2, <2>5 DEF Line
  <2>7. Serving' = Serving
    BY <2>1, <2>2, RemoveAtFacts DEF Serving, TypeOK
  <2>8. owner[c] = c
    BY <2>2, ShapeFacts DEF QueueShape
  <2>9. SettledItems' = SettledItems \cup {c}
    BY <1>4, <2>8 DEF AwaitNested, SettledItems, TypeOK
  <2> HIDE DEF t, r
  <2>10. \E j \in 1..Len(Line) :
           /\ Line' = SubSeq(Line, 1, j - 1) \o SubSeq(Line, j + 1, Len(Line))
           /\ SettledItems' = SettledItems \cup {Line[j]}
    BY <2>4, <2>6, <2>9 DEF r
  <2> QED
    BY <2>7, <2>10 DEF Abstract!WithdrawOne
<1>5. ASSUME NEW f \in Flows, AbortPendingWork(f)
      PROVE  \E n \in {0, 1} : Abstract!WithdrawAfter(n)
  <2>1. /\ queue # <<>> /\ queue' = SubSeq(queue, 1, 1) /\ exec' = exec
        /\ Len(queue) > 1 /\ Len(queue) \in Nat
    BY <1>5 DEF AbortPendingWork, KeptByAbort, isWriterRunning, TypeOK
  <2>2. SettledItems' = SettledItems \cup {queue[i] : i \in 2..Len(queue)}
    <3>1. \A i \in 2..Len(queue) : queue[i] \in Calls /\ owner[queue[i]] = queue[i]
      BY ShapeFacts DEF QueueShape
    <3> QED
      BY <1>5, <3>1 DEF AbortPendingWork, SettledItems
  <2>3. CASE exec = "running"
    <3>1. /\ Len(Tail(queue)) = Len(queue) - 1 /\ Tail(queue) \in Seq(Calls)
          /\ \A i \in 1..Len(Tail(queue)) : Tail(queue)[i] = queue[i + 1]
      BY <2>1, TailFacts DEF TypeOK
    <3>2. Line = Tail(queue) /\ Line' = <<>> /\ SubSeq(Line, 1, 0) = <<>>
      BY <2>1, <2>3, <3>1 DEF Line, TypeOK
    <3>3. {queue[i] : i \in 2..Len(queue)} = {Line[i] : i \in (0 + 1)..Len(Line)}
      <4>1. \A i \in 2..Len(queue) :
              i - 1 \in (0 + 1)..Len(Line) /\ queue[i] = Line[i - 1]
        BY <2>1, <3>1, <3>2
      <4>2. \A i \in (0 + 1)..Len(Line) :
              i + 1 \in 2..Len(queue) /\ queue[i + 1] = Line[i]
        BY <2>1, <3>1, <3>2
      <4>3. ASSUME NEW x \in {queue[i] : i \in 2..Len(queue)}
            PROVE  x \in {Line[i] : i \in (0 + 1)..Len(Line)}
        <5>1. PICK i \in 2..Len(queue) : x = queue[i]
          OBVIOUS
        <5> QED
          BY <4>1, <5>1
      <4>4. ASSUME NEW x \in {Line[i] : i \in (0 + 1)..Len(Line)}
            PROVE  x \in {queue[i] : i \in 2..Len(queue)}
        <5>1. PICK i \in (0 + 1)..Len(Line) : x = Line[i]
          OBVIOUS
        <5> QED
          BY <4>2, <5>1
      <4> QED
        BY <4>3, <4>4
    <3>4. Serving' = Serving
      BY <2>1, FirstOnlyFacts DEF Serving, TypeOK
    <3>5. 0 <= Len(Line)
      BY <3>1, <3>2
    <3>6. Abstract!WithdrawAfter(0)
      BY <2>2, <3>2, <3>3, <3>4, <3>5, Zenon DEF Abstract!WithdrawAfter
    <3> QED
      BY <3>6
  <2>4. CASE exec # "running"
    <3>1. Line = queue /\ Line' = SubSeq(Line, 1, 1) /\ Serving' = Serving
      BY <2>1, <2>4 DEF Line, Serving
    <3> QED
      BY <2>1, <2>2, <3>1 DEF Abstract!WithdrawAfter
  <2> QED
    BY <2>3, <2>4
<1>6. ASSUME NEW f \in Calls, FinishItem(f) PROVE Abstract!Complete
  <2>1. queue # <<>> /\ queue[1] = f /\ exec = "running" /\ Head(queue) = f
    BY <1>6, ShapeFacts DEF FinishItem, Finishes, CanRun, QueueShape
  <2>2. queue' = Tail(queue) /\ exec' # "running"
    BY <1>6 DEF FinishItem, Due
  <2>3. Line' = Line /\ Serving = f /\ Serving' = None
    BY <2>1, <2>2 DEF Line, Serving
  <2>4. SettledItems' = SettledItems \cup {f}
    BY <1>6 DEF FinishItem, SettledItems, TypeOK
  <2> QED
    BY <2>3, <2>4 DEF Abstract!Complete
<1>7. ASSUME NEW f \in Calls, FinishSubAction(f)
      PROVE  UNCHANGED <<Line, Serving, SettledItems>>
  BY <1>7 DEF FinishSubAction, Line, Serving, SettledItems, TypeOK
<1>8. ASSUME ExecuteNext PROVE Abstract!ServeFirst
  <2>1. queue # <<>> /\ Head(queue) \in Calls /\ phase[Head(queue)] = "queued"
    BY <1>8, ShapeFacts DEF ExecuteNext, QueueShape
  <2>2. SettledItems' = SettledItems
    BY <1>8, <2>1 DEF ExecuteNext, SettledItems, TypeOK
  <2> QED
    BY <1>8, <2>1, <2>2 DEF ExecuteNext, Line, Serving, Abstract!ServeFirst
<1>9. ASSUME UNCHANGED <<queue, exec, phase, owner>>
      PROVE  UNCHANGED <<Line, Serving, SettledItems>>
  BY <1>9 DEF Line, Serving, SettledItems
<1> QED
  BY <1>1, <1>2, <1>3, <1>4, <1>5, <1>6, <1>7, <1>8, <1>9
  DEF Next, vars, Await, Batch, BatchDone, WatchdogFires, Abstract!SNext

(* Every behaviour of the queue is one of the service: the order of the    *)
(* line, one request at a time, each at most once, none after withdrawal.  *)
THEOREM Refinement == Spec => Abstract!Service
<1>1. Init => Abstract!SInit
  BY DEF Init, Abstract!SInit, Line, Serving, SettledItems
<1>2. Init => FlowShape
  BY DEF Init, FlowShape
<1> QED
  BY <1>1, <1>2, FlowStep, ServiceStep, Typing, Shape, PTL
  DEF Spec, Abstract!Service
=============================================================================
