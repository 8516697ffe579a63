--------------------------- MODULE RecordModelProofs ---------------------------
(***************************************************************************)
(* That a Model shows its row (ModelsAreCurrent), proved of RecordCache    *)
(* over a driver that answers later.                                       *)
(*                                                                         *)
(* The property only speaks of a record nothing is on its way for; what    *)
(* keeps it is said of every record at all times, from the order of what   *)
(* is on its way: Sound.                                                   *)
(***************************************************************************)
EXTENDS RecordCacheProofs

\* What a call or an answer is to record id.
Touches(m, id) == m.op = "batch" /\ id \in DOMAIN m.kinds
Creates(m, id) == m.op = "batch" /\ id \in Of(m, "create")
Updates(m, id) == m.op = "batch" /\ id \in Of(m, "update")
Removes(m, id) ==
  \/ m.op = "batch" /\ id \in Removed(m)
  \/ m.op \in {"destroyMatching", "destroyed"} /\ id \in m.ids
Forgets(m, id) == m.op = "destroyDeleted" /\ id \in m.ids
Founds(a, id) == Creates(a, id) /\ a.ok

\* Message y may follow message x.
Before(x, y, id, again) ==
  /\ x.op # "reset"
  /\ Creates(x, id) => ~Touches(y, id)
  /\ Removes(x, id) /\ Updates(y, id) => id \in again
  /\ Forgets(y, id) => ~Touches(x, id)

Queued(queue, id, again) ==
  \A q \in 1..Len(queue) : \A p \in 1..(q - 1) : Before(queue[p], queue[q], id, again)

\* The answers come before the calls.
Ordered(first, last, id, again) ==
  /\ Queued(first, id, again)
  /\ Queued(last, id, again)
  /\ \A i \in 1..Len(first) : \A k \in 1..Len(last) : Before(first[i], last[k], id, again)

\* A sync only forgets a record whose row is marked as deleted.
Forgotten(id) ==
  \A k \in 1..Len(calls) : Forgets(calls[k], id) => id \notin Live \/ id \in apart

\* A record that is being updated has its Model.
Patched(id) ==
  \A m \in Traffic :
    Updates(m, id) /\ id \notin revived =>
      cache[id] # Nothing /\ (m.raws[id].deleted => cache[id].deleted)

\* A row on its way is the committed one, or a change of it comes after it.
Overtaken(id, i) ==
  \E j \in (i + 1)..Len(answers) :
    Revokes(answers[j], id) \/ Founds(answers[j], id) \/ Updates(answers[j], id)
Fetched(id) ==
  \A i \in 1..Len(answers) :
    answers[i].op = "rows" /\ id \in DOMAIN answers[i].full /\ ~answers[i].full[id].deleted =>
      answers[i].full[id] = rows[id] \/ id \in apart \/ Overtaken(id, i)

\* So is the row of a record that is created.
Founded(id) ==
  \A i \in 1..Len(answers) :
    Founds(answers[i], id) =>
      \/ answers[i].raws[id] = rows[id] \/ id \in apart
      \/ \E j \in (i + 1)..Len(answers) : Revokes(answers[j], id)

\* The Model that is held stays when the answers are acted upon.
Lasting(id) ==
  /\ cache[id] # Nothing /\ ~cache[id].deleted /\ id \notin revived
  /\ \A j \in 1..Len(answers) : ~Revokes(answers[j], id) /\ ~Founds(answers[j], id)

\* Such a Model shows the last update of its record still to be begun, or the
\* row if there is none.
Newest(k, id) ==
  Updates(calls[k], id) /\ \A l \in (k + 1)..Len(calls) : ~Updates(calls[l], id)
Shown(id) ==
  Lasting(id) =>
    /\ \A k \in 1..Len(calls) : Newest(k, id) => calls[k].raws[id] = cache[id]
    /\ (\A k \in 1..Len(calls) : ~Updates(calls[k], id)) => cache[id] = rows[id] \/ id \in apart
    /\ id \in Live \/ id \in apart

Sound(id) ==
  /\ Ordered(answers, calls, id, revived)
  /\ Forgotten(id) /\ Patched(id) /\ Fetched(id) /\ Founded(id) /\ Shown(id)

AllSound == \A id \in Ids : Sound(id)

-----------------------------------------------------------------------------
\* A queue with one message more, or one less.
LEMMA Longer ==
  ASSUME NEW S, NEW queue \in Seq(S), NEW m
  PROVE  /\ Len(queue) \in Nat /\ Len(Append(queue, m)) = Len(queue) + 1
         /\ Append(queue, m)[Len(queue) + 1] = m
         /\ \A i \in 1..Len(queue) : Append(queue, m)[i] = queue[i]
OBVIOUS

LEMMA Shorter ==
  ASSUME NEW S, NEW queue \in Seq(S), queue # <<>>
  PROVE  /\ Len(queue) \in Nat \ {0} /\ Head(queue) = queue[1]
         /\ Len(Tail(queue)) = Len(queue) - 1
         /\ \A i \in 1..(Len(queue) - 1) : Tail(queue)[i] = queue[i + 1]
OBVIOUS

\* The order of a queue with one message more, or one less.
LEMMA QueuedLonger ==
  ASSUME NEW S, NEW queue \in Seq(S), NEW m, NEW id, NEW again, NEW later,
         Queued(queue, id, again), again \subseteq later,
         \A i \in 1..Len(queue) : Before(queue[i], m, id, later)
  PROVE  Queued(Append(queue, m), id, later)
PROOF
  <1> DEFINE n == Len(queue)
             new == Append(queue, m)
  <1>1. n \in Nat /\ Len(new) = n + 1 /\ new[n + 1] = m /\ \A i \in 1..n : new[i] = queue[i]
    BY Longer
  <1> HIDE DEF n, new
  <1>2. ASSUME NEW q \in 1..(n + 1), NEW p \in 1..(q - 1)
        PROVE  Before(new[p], new[q], id, later)
    <2>1. p \in 1..n /\ new[p] = queue[p]
      BY <1>1
    <2>2. CASE q = n + 1
      BY <1>1, <2>1, <2>2 DEF n
    <2>3. CASE q # n + 1
      <3>1. q \in 1..n /\ new[q] = queue[q]
        BY <1>1, <2>3
      <3>2. Before(queue[p], queue[q], id, again)
        BY <3>1 DEF Queued, n
      <3> QED  BY <2>1, <3>1, <3>2 DEF Before
    <2> QED  BY <2>2, <2>3
  <1> QED  BY <1>1, <1>2 DEF Queued, new

LEMMA QueuedShorter ==
  ASSUME NEW S, NEW queue \in Seq(S), queue # <<>>, NEW id, NEW again,
         Queued(queue, id, again)
  PROVE  /\ Queued(Tail(queue), id, again)
         /\ \A k \in 1..Len(Tail(queue)) : Before(Head(queue), Tail(queue)[k], id, again)
PROOF
  <1> DEFINE n == Len(queue)
             rest == Tail(queue)
  <1>1. /\ n \in Nat \ {0} /\ Head(queue) = queue[1] /\ Len(rest) = n - 1
        /\ \A i \in 1..(n - 1) : rest[i] = queue[i + 1]
    BY Shorter
  <1> HIDE DEF n, rest
  <1>2. ASSUME NEW q \in 1..(n - 1), NEW p \in 1..(q - 1)
        PROVE  Before(rest[p], rest[q], id, again)
    <2>1. q + 1 \in 1..n /\ p + 1 \in 1..(q + 1 - 1) /\ p \in 1..(n - 1)
      BY <1>1
    <2> QED  BY <1>1, <2>1 DEF Queued, n
  <1>3. ASSUME NEW k \in 1..(n - 1)
        PROVE  Before(queue[1], rest[k], id, again)
    <2>1. k + 1 \in 1..n /\ 1 \in 1..(k + 1 - 1)
      BY <1>1
    <2> QED  BY <1>1, <2>1 DEF Queued, n
  <1> QED  BY <1>1, <1>2, <1>3 DEF Queued, rest

\* A call is added to the line.
LEMMA OrderedByCall ==
  ASSUME TypeOK, NEW m, NEW id, NEW later, revived \subseteq later,
         Ordered(answers, calls, id, revived),
         \A x \in Traffic : Before(x, m, id, later)
  PROVE  Ordered(answers, Append(calls, m), id, later)
PROOF
  <1>1. calls \in Seq(Calls) /\ answers \in Seq(Answers)
    BY DEF TypeOK
  <1>2. /\ Len(calls) \in Nat /\ Len(Append(calls, m)) = Len(calls) + 1
        /\ Append(calls, m)[Len(calls) + 1] = m
        /\ \A k \in 1..Len(calls) : Append(calls, m)[k] = calls[k]
    BY <1>1, Longer
  <1>3. /\ \A k \in 1..Len(calls) : calls[k] \in Traffic
        /\ \A i \in 1..Len(answers) : answers[i] \in Traffic
    BY DEF Traffic
  <1>4. Queued(Append(calls, m), id, later)
    BY <1>1, <1>3, QueuedLonger DEF Ordered
  <1>5. Queued(answers, id, later)
    BY DEF Ordered, Queued, Before
  <1>6. ASSUME NEW i \in 1..Len(answers), NEW k \in 1..(Len(calls) + 1)
        PROVE  Before(answers[i], Append(calls, m)[k], id, later)
    <2>1. CASE k = Len(calls) + 1
      BY <1>2, <1>3, <2>1
    <2>2. CASE k # Len(calls) + 1
      <3>1. k \in 1..Len(calls)
        BY <1>2, <2>2
      <3>2. Before(answers[i], calls[k], id, revived)
        BY <3>1 DEF Ordered
      <3> QED  BY <1>2, <3>1, <3>2 DEF Before
    <2> QED  BY <2>1, <2>2
  <1> QED  BY <1>2, <1>4, <1>5, <1>6 DEF Ordered

\* The first call is answered; the answer is about what the call was about.
LEMMA OrderedByAnswer ==
  ASSUME TypeOK, calls # <<>>, NEW a, NEW id, Ordered(answers, calls, id, revived),
         \A x : Before(x, Head(calls), id, revived) => Before(x, a, id, revived),
         \A y : Before(Head(calls), y, id, revived) => Before(a, y, id, revived)
  PROVE  Ordered(Append(answers, a), Tail(calls), id, revived)
PROOF
  <1> DEFINE n == Len(answers)
             new == Append(answers, a)
             rest == Tail(calls)
  <1>1. calls \in Seq(Calls) /\ answers \in Seq(Answers)
    BY DEF TypeOK
  <1>2. n \in Nat /\ Len(new) = n + 1 /\ new[n + 1] = a /\ \A i \in 1..n : new[i] = answers[i]
    BY <1>1, Longer
  <1>3. /\ Len(calls) \in Nat \ {0} /\ Head(calls) = calls[1] /\ Len(rest) = Len(calls) - 1
        /\ \A k \in 1..(Len(calls) - 1) : rest[k] = calls[k + 1]
    BY <1>1, Shorter
  <1>4. 1 \in 1..Len(calls) /\ \A k \in 1..(Len(calls) - 1) : k + 1 \in 1..Len(calls)
    BY <1>3
  <1>5. Queued(new, id, revived)
    BY <1>1, <1>3, <1>4, QueuedLonger DEF Ordered
  <1>6. Queued(rest, id, revived) /\ \A k \in 1..Len(rest) : Before(Head(calls), rest[k], id, revived)
    BY <1>1, QueuedShorter DEF Ordered
  <1> HIDE DEF n, new, rest
  <1>7. ASSUME NEW i \in 1..(n + 1), NEW k \in 1..Len(rest)
        PROVE  Before(new[i], rest[k], id, revived)
    <2>1. CASE i = n + 1
      BY <1>2, <1>6, <2>1
    <2>2. CASE i # n + 1
      <3>1. i \in 1..n
        BY <1>2, <2>2
      <3> QED  BY <1>2, <1>3, <1>4, <3>1 DEF Ordered, n
    <2> QED  BY <2>1, <2>2
  <1> QED  BY <1>2, <1>5, <1>6, <1>7 DEF Ordered, new, rest

\* The first call or the first answer leaves the line.
LEMMA OrderedWithout ==
  ASSUME TypeOK, NEW id, Ordered(answers, calls, id, revived)
  PROVE  /\ calls # <<>> => Ordered(answers, Tail(calls), id, revived)
         /\ answers # <<>> => Ordered(Tail(answers), calls, id, revived)
PROOF
  <1>1. calls \in Seq(Calls) /\ answers \in Seq(Answers)
    BY DEF TypeOK
  <1>2. ASSUME calls # <<>>
        PROVE  Ordered(answers, Tail(calls), id, revived)
    <2>1. Queued(Tail(calls), id, revived)
      BY <1>1, <1>2, QueuedShorter DEF Ordered
    <2>2. /\ Len(calls) \in Nat /\ Len(Tail(calls)) = Len(calls) - 1
          /\ \A k \in 1..(Len(calls) - 1) : Tail(calls)[k] = calls[k + 1]
      BY <1>1, <1>2, Shorter
    <2>3. \A k \in 1..(Len(calls) - 1) : k + 1 \in 1..Len(calls)
      BY <2>2
    <2> QED  BY <2>1, <2>2, <2>3 DEF Ordered
  <1>3. ASSUME answers # <<>>
        PROVE  Ordered(Tail(answers), calls, id, revived)
    <2>1. Queued(Tail(answers), id, revived)
      BY <1>1, <1>3, QueuedShorter DEF Ordered
    <2>2. /\ Len(answers) \in Nat /\ Len(Tail(answers)) = Len(answers) - 1
          /\ \A k \in 1..(Len(answers) - 1) : Tail(answers)[k] = answers[k + 1]
      BY <1>1, <1>3, Shorter
    <2>3. \A k \in 1..(Len(answers) - 1) : k + 1 \in 1..Len(answers)
      BY <2>2
    <2> QED  BY <2>1, <2>2, <2>3 DEF Ordered
  <1> QED  BY <1>2, <1>3

-----------------------------------------------------------------------------
\* A call that is no batch.
LEMMA SoundByCall ==
  ASSUME TypeOK, NEW id \in Ids, Sound(id), ~Resetting, NEW m, m.op # "batch",
         calls' = Append(calls, m), UNCHANGED <<rows, cache, answers, apart, revived>>,
         Forgets(m, id) => ~Changing(id) /\ id \notin Live
  PROVE  Sound(id)'
PROOF
  <1> DEFINE n == Len(calls)
  <1>1. /\ n \in Nat /\ Len(calls') = n + 1 /\ calls'[n + 1] = m
        /\ \A k \in 1..n : calls'[k] = calls[k]
    BY Longer DEF TypeOK
  <1> HIDE DEF n
  <1>2. ~Updates(m, id) /\ ~Touches(m, id)
    BY DEF Updates, Touches
  <1>3. \A k \in 1..(n + 1) : k \in 1..n \/ k = n + 1
    BY <1>1
  <1>4. Ordered(answers, calls, id, revived)'
    <2>1. \A x \in Traffic : Before(x, m, id, revived)
      BY <1>2 DEF Before, Resetting, Changing, Touches
    <2> QED  BY <2>1, OrderedByCall DEF Sound
  <1>5. Forgotten(id)'
    BY <1>1, <1>3 DEF Sound, Forgotten, Live, n
  <1>6. Patched(id)'
    <2>1. \A x \in Traffic' : x \in Traffic \/ x = m
      BY <1>1, <1>3 DEF Traffic, n
    <2> QED  BY <1>2, <2>1 DEF Sound, Patched
  <1>7. Fetched(id)' /\ Founded(id)'
    BY DEF Sound, Fetched, Founded, Overtaken, Revokes, Founds, Creates, Updates, Of, Removed
  <1>8. Shown(id)'
    <2> SUFFICES ASSUME Lasting(id)'
                 PROVE  /\ \A k \in 1..Len(calls') : Newest(k, id)' => calls'[k].raws[id] = cache'[id]
                        /\ (\A k \in 1..Len(calls') : ~Updates(calls'[k], id))
                              => cache'[id] = rows'[id] \/ id \in apart'
                        /\ (id \in Live \/ id \in apart)'
      BY DEF Shown, Updates, Of
    <2>1. Lasting(id)
      BY DEF Lasting, Revokes, Founds, Creates, Of, Removed
    <2>2. \A k \in 1..(n + 1) : Newest(k, id)' => k \in 1..n /\ Newest(k, id)
      <3> SUFFICES ASSUME NEW k \in 1..(n + 1), Newest(k, id)'
                   PROVE  k \in 1..n /\ Newest(k, id)
        OBVIOUS
      <3>1. Updates(calls'[k], id) /\ \A l \in (k + 1)..(n + 1) : ~Updates(calls'[l], id)
        BY <1>1 DEF Newest, Updates, Of
      <3>2. k \in 1..n
        BY <1>1, <1>2, <1>3, <3>1
      <3>3. \A l \in (k + 1)..n : l \in (k + 1)..(n + 1) /\ l \in 1..n
        BY <1>1, <3>2
      <3> QED  BY <1>1, <3>1, <3>2, <3>3 DEF Newest, n
    <2>3. \A k \in 1..n : k \in 1..(n + 1)
      BY <1>1
    <2> QED  BY <1>1, <2>1, <2>2, <2>3 DEF Sound, Shown, Live, n
  <1> QED  BY <1>4, <1>5, <1>6, <1>7, <1>8 DEF Sound, Fetched, Founded, Forgotten, Patched, Shown

\* A batch changes the Models it updates or marks as deleted, at once.
LEMMA SoundByBatch ==
  ASSUME TypeOK, NEW id \in Ids, Sound(id),
         NEW ids \in SUBSET Ids, NEW kinds \in [ids -> Kinds], Batch(kinds)
  PROVE  Sound(id)'
PROOF
  <1> DEFINE n == Len(calls)
             m == [op |-> "batch", kinds |-> kinds, raws |-> Raws(kinds)]
  <1>1. /\ n \in Nat /\ Len(calls') = n + 1 /\ calls'[n + 1] = m
        /\ \A k \in 1..n : calls'[k] = calls[k]
    BY Longer DEF TypeOK, Batch, Call
  <1>2. /\ ~Resetting
        /\ id \in ids => id \notin Creating
        /\ cache' = Prepared(kinds) /\ UNCHANGED <<rows, answers, apart>>
        /\ revived' = revived \cup {i \in ids : kinds[i] = "update" /\ Removing(i)}
        /\ \A i \in ids : kinds[i] # "create" => cache[i] # Nothing
    BY DEF Batch, CanCall, Cached
  <1>3. /\ Updates(m, id) <=> id \in ids /\ kinds[id] = "update"
        /\ Touches(m, id) <=> id \in ids
        /\ ~Forgets(m, id)
    BY DEF Updates, Touches, Forgets, Of
  <1>4. Updates(m, id) => m.raws[id].deleted = cache[id].deleted /\ cache'[id] = m.raws[id]
    <2> SUFFICES ASSUME id \in ids, kinds[id] = "update"
                 PROVE  Raws(kinds)[id].deleted = cache[id].deleted /\ cache'[id] = Raws(kinds)[id]
      BY <1>3
    <2>1. Raws(kinds)[id] = [at |-> clock + 1, deleted |-> kinds[id] = "update" /\ cache[id].deleted]
      BY DEF Raws
    <2>2. cache[id] \in Row
      BY <1>2 DEF TypeOK
    <2>3. Raws(kinds)[id].deleted = cache[id].deleted
      <3>1. cache[id].deleted \in BOOLEAN
        BY <2>2 DEF Row
      <3> QED  BY <2>1, <3>1
    <2>4. cache'[id] = Raws(kinds)[id]
      BY <1>2 DEF Prepared
    <2> QED  BY <2>3, <2>4
  <1>5. ~Updates(m, id) => \/ cache'[id] = cache[id]
                           \/ cache[id] # Nothing /\ cache'[id] = [cache[id] EXCEPT !.deleted = TRUE]
    BY <1>2, <1>3 DEF Prepared
  <1>6. cache[id] # Nothing => cache'[id] # Nothing
    BY <1>2, PreparedTyped
  <1>7. cache[id] # Nothing /\ cache[id].deleted => cache'[id].deleted
    <2>1. cache[id] # Nothing => cache[id] \in Row
      BY DEF TypeOK
    <2> QED  BY <1>4, <1>5, <2>1 DEF Row
  <1>8. \A k \in 1..(n + 1) : k \in 1..n \/ k = n + 1
    BY <1>1
  <1> HIDE DEF n, m
  <1>9. \A x \in Traffic : Before(x, m, id, revived')
    <2> SUFFICES ASSUME NEW x \in Traffic
                 PROVE  Before(x, m, id, revived')
      OBVIOUS
    <2>1. x.op # "reset"
      BY <1>2 DEF Resetting
    <2>2. Creates(x, id) => ~Touches(m, id)
      BY <1>2, <1>3 DEF Creates, Creating
    <2>3. Removes(x, id) /\ Updates(m, id) => id \in revived'
      BY <1>2, <1>3 DEF Removes, Removing
    <2> QED  BY <1>3, <2>1, <2>2, <2>3 DEF Before
  <1>10. Ordered(answers, calls, id, revived)'
    <2>1. calls' = Append(calls, m) /\ answers' = answers
      BY <1>2 DEF Batch, Call, m
    <2> QED  BY <1>2, <1>9, <2>1, OrderedByCall DEF Sound
  <1>11. Forgotten(id)'
    BY <1>1, <1>2, <1>3, <1>8 DEF Sound, Forgotten, Live, Forgets, n
  <1>12. Patched(id)'
    <2>1. \A x \in Traffic' : x \in Traffic \/ x = m
      BY <1>1, <1>2, <1>8 DEF Traffic, n
    <2> SUFFICES ASSUME NEW x \in Traffic', Updates(x, id), id \notin revived'
                 PROVE  cache'[id] # Nothing /\ (x.raws[id].deleted => cache'[id].deleted)
      BY DEF Patched, Updates, Of
    <2>2. CASE x = m
      BY <1>2, <1>3, <1>4, <1>6, <2>2
    <2>3. CASE x \in Traffic
      BY <1>2, <1>6, <1>7, <2>3 DEF Sound, Patched
    <2> QED  BY <2>1, <2>2, <2>3
  <1>13. Fetched(id)' /\ Founded(id)'
    BY <1>2 DEF Sound, Fetched, Founded, Overtaken, Revokes, Founds, Creates, Updates, Of, Removed
  <1>14. Shown(id)'
    <2> SUFFICES ASSUME Lasting(id)'
                 PROVE  /\ \A k \in 1..Len(calls') : Newest(k, id)' => calls'[k].raws[id] = cache'[id]
                        /\ (\A k \in 1..Len(calls') : ~Updates(calls'[k], id))
                              => cache'[id] = rows'[id] \/ id \in apart'
                        /\ (id \in Live \/ id \in apart)'
      BY DEF Shown, Updates, Of
    <2>1. cache'[id] # Nothing /\ ~cache'[id].deleted /\ id \notin revived'
      BY DEF Lasting
    <2>2. \A j \in 1..Len(answers) : ~Revokes(answers[j], id) /\ ~Founds(answers[j], id)
      BY <1>2 DEF Lasting, Revokes, Founds, Creates, Of, Removed
    <2>3. cache[id] # Nothing /\ ~cache[id].deleted
      <3>1. CASE Updates(m, id)
        BY <1>2, <1>3, <1>4, <2>1, <3>1
      <3>2. CASE ~Updates(m, id)
        <4>1. cache[id] # Nothing => cache[id] \in Row
          BY DEF TypeOK
        <4> QED  BY <1>5, <2>1, <3>2, <4>1 DEF Row
      <3> QED  BY <3>1, <3>2
    <2>4. Lasting(id)
      BY <1>2, <2>1, <2>2, <2>3 DEF Lasting
    <2>5. (id \in Live \/ id \in apart)'
      BY <1>2, <2>4 DEF Sound, Shown, Live
    <2>6. CASE Updates(m, id)
      <3>1. \A k \in 1..(n + 1) : Newest(k, id)' => k = n + 1
        <4> SUFFICES ASSUME NEW k \in 1..(n + 1), Newest(k, id)', k # n + 1
                     PROVE  FALSE
          OBVIOUS
        <4>1. n + 1 \in (k + 1)..(n + 1)
          BY <1>1
        <4> QED  BY <1>1, <2>6, <4>1 DEF Newest, Updates, Of
      <3>2. n + 1 \in 1..Len(calls')
        BY <1>1
      <3> QED  BY <1>1, <1>4, <2>5, <2>6, <3>1, <3>2
    <2>7. CASE ~Updates(m, id)
      <3>1. cache'[id] = cache[id]
        <4>1. cache[id] # Nothing => cache[id] \in Row
          BY DEF TypeOK
        <4> QED  BY <1>5, <2>1, <2>7, <4>1 DEF Row
      <3>2. \A k \in 1..(n + 1) : Newest(k, id)' => k \in 1..n /\ Newest(k, id)
        <4> SUFFICES ASSUME NEW k \in 1..(n + 1), Newest(k, id)'
                     PROVE  k \in 1..n /\ Newest(k, id)
          OBVIOUS
        <4>1. Updates(calls'[k], id) /\ \A l \in (k + 1)..(n + 1) : ~Updates(calls'[l], id)
          BY <1>1 DEF Newest, Updates, Of
        <4>2. k \in 1..n
          BY <1>1, <1>8, <2>7, <4>1
        <4>3. \A l \in (k + 1)..n : l \in (k + 1)..(n + 1) /\ l \in 1..n
          BY <1>1, <4>2
        <4> QED  BY <1>1, <4>1, <4>2, <4>3 DEF Newest, n
      <3>3. \A k \in 1..n : k \in 1..(n + 1)
        BY <1>1
      <3> QED  BY <1>1, <1>2, <2>4, <2>5, <3>1, <3>2, <3>3 DEF Sound, Shown, n
    <2> QED  BY <2>6, <2>7
  <1> QED  BY <1>10, <1>11, <1>12, <1>13, <1>14 DEF Sound, Fetched, Founded, Forgotten, Patched, Shown

-----------------------------------------------------------------------------
\* Once the first call is gone, the newest update is one place ahead.
LEMMA NewestShifts ==
  ASSUME TypeOK, calls # <<>>, calls' = Tail(calls), NEW id
  PROVE  \A k \in 1..(Len(calls) - 1) : Newest(k, id)' => Newest(k + 1, id)
PROOF
  <1> DEFINE k0 == Len(calls)
  <1>1. /\ k0 \in Nat \ {0} /\ Len(calls') = k0 - 1
        /\ \A k \in 1..(k0 - 1) : calls'[k] = calls[k + 1]
    BY Shorter DEF TypeOK
  <1> HIDE DEF k0
  <1> SUFFICES ASSUME NEW k \in 1..(k0 - 1), Newest(k, id)'
               PROVE  Newest(k + 1, id)
    BY DEF k0
  <1>2. Updates(calls'[k], id) /\ \A l \in (k + 1)..(k0 - 1) : ~Updates(calls'[l], id)
    BY <1>1 DEF Newest, Updates, Of
  <1>3. \A l \in (k + 1 + 1)..k0 : l - 1 \in (k + 1)..(k0 - 1) /\ l - 1 \in 1..(k0 - 1) /\ l - 1 + 1 = l
    BY <1>1
  <1>4. \A l \in (k + 1 + 1)..k0 : calls[l] = calls'[l - 1]
    BY <1>1, <1>3
  <1> QED  BY <1>1, <1>2, <1>3, <1>4 DEF Newest, k0

\* The row of a record is untouched, or another connection's already.
RowStays(id) == rows'[id] = rows[id] /\ (id \in apart => id \in apart')

\* The first call is answered: what becomes of the row of a record is told by
\* the answer, whose raws are the call's.
LEMMA SoundByAnswer ==
  ASSUME TypeOK, NEW id \in Ids, Sound(id), calls # <<>>, NEW a,
         answers' = Append(answers, a), calls' = Tail(calls), UNCHANGED <<cache, revived>>,
         a.op = "reset" => Head(calls).op = "reset",
         ~Forgets(a, id),
         Removes(a, id) => Removes(Head(calls), id),
         Touches(a, id) => /\ Touches(Head(calls), id)
                           /\ Creates(a, id) = Creates(Head(calls), id)
                           /\ Updates(a, id) = Updates(Head(calls), id)
                           /\ a.raws = Head(calls).raws,
         \/ RowStays(id)
         \/ Revokes(a, id)
         \/ Founds(a, id) \/ Updates(a, id),
         Revokes(a, id) => id \notin Live',
         a.op = "rows" /\ id \in DOMAIN a.full => a.full[id] = rows'[id],
         Founds(a, id) => a.raws[id] = rows'[id],
         Updates(Head(calls), id) => Shown(id)'
  PROVE  Sound(id)'
PROOF
  <1> DEFINE h == Head(calls)
             n == Len(answers)
             k0 == Len(calls)
  <1>1. /\ n \in Nat /\ Len(answers') = n + 1 /\ answers'[n + 1] = a
        /\ \A i \in 1..n : answers'[i] = answers[i]
    BY Longer DEF TypeOK
  <1>2. /\ k0 \in Nat \ {0} /\ h = calls[1] /\ Len(calls') = k0 - 1
        /\ \A k \in 1..(k0 - 1) : calls'[k] = calls[k + 1]
    BY Shorter DEF TypeOK
  <1> HIDE DEF h, n, k0
  <1>3. /\ 1 \in 1..k0 /\ \A k \in 1..(k0 - 1) : k + 1 \in 1..k0
        /\ \A i \in 1..(n + 1) : i \in 1..n \/ i = n + 1
        /\ \A i \in 1..n : i \in 1..(n + 1)
    BY <1>1, <1>2
  <1>4. /\ Updates(a, id) => Touches(a, id) /\ Updates(h, id)
        /\ Creates(a, id) => Touches(a, id) /\ Creates(h, id)
        /\ Touches(a, id) => Touches(h, id)
    BY DEF Updates, Creates, Touches, Of, h
  <1>5. Ordered(answers, calls, id, revived)'
    <2>1. \A x : Before(x, h, id, revived) => Before(x, a, id, revived)
      BY <1>4 DEF Before, h
    <2>2. \A y : Before(h, y, id, revived) => Before(a, y, id, revived)
      BY <1>4 DEF Before, h
    <2> QED  BY <2>1, <2>2, OrderedByAnswer DEF Sound, h
  <1>6. Forgotten(id)'
    <2> SUFFICES ASSUME NEW k \in 1..(k0 - 1), Forgets(calls'[k], id)
                 PROVE  id \notin Live' \/ id \in apart'
      BY <1>2 DEF Forgotten, Forgets
    <2>1. Forgets(calls[k + 1], id) /\ k + 1 \in 1..k0 /\ 1 \in 1..(k + 1 - 1)
      BY <1>2, <1>3
    <2>2. id \notin Live \/ id \in apart
      BY <2>1 DEF Sound, Forgotten, k0
    <2>3. ~Touches(h, id)
      BY <1>2, <2>1 DEF Sound, Ordered, Queued, Before, k0
    <2>4. ~Founds(a, id) /\ ~Updates(a, id)
      BY <1>4, <2>3 DEF Founds
    <2> QED  BY <2>2, <2>4 DEF RowStays, Live
  <1>7. Patched(id)'
    <2>1. h \in Traffic
      BY <1>2, <1>3 DEF Traffic, k0
    <2>2. \A x \in Traffic' : x \in Traffic \/ x = a
      BY <1>1, <1>2, <1>3 DEF Traffic, n, k0
    <2>3. \A x \in Traffic' : Updates(x, id) =>
             \E y \in Traffic : Updates(y, id) /\ x.raws = y.raws
      BY <1>4, <2>1, <2>2 DEF h
    <2> QED  BY <2>3 DEF Sound, Patched, Updates, Of
  <1>8. Fetched(id)'
    <2> SUFFICES ASSUME NEW i \in 1..(n + 1), answers'[i].op = "rows",
                        id \in DOMAIN answers'[i].full, ~answers'[i].full[id].deleted
                 PROVE  answers'[i].full[id] = rows'[id] \/ id \in apart' \/ Overtaken(id, i)'
      BY <1>1 DEF Fetched
    <2>1. CASE i = n + 1
      BY <1>1, <2>1
    <2>2. CASE i # n + 1
      <3>1. i \in 1..n /\ answers'[i] = answers[i] /\ n + 1 \in (i + 1)..(n + 1)
        BY <1>1, <1>3, <2>2
      <3>2. answers[i].full[id] = rows[id] \/ id \in apart \/ Overtaken(id, i)
        BY <3>1 DEF Sound, Fetched, n
      <3>3. \A j \in (i + 1)..n : j \in 1..n /\ j \in (i + 1)..(n + 1)
        BY <1>1, <3>1
      <3>4. Overtaken(id, i) => Overtaken(id, i)'
        BY <1>1, <3>3 DEF Overtaken, Revokes, Founds, Creates, Updates, Of, Removed, n
      <3>5. Revokes(a, id) \/ Founds(a, id) \/ Updates(a, id) => Overtaken(id, i)'
        BY <1>1, <3>1 DEF Overtaken, Revokes, Founds, Creates, Updates, Of, Removed, n
      <3> QED  BY <3>1, <3>2, <3>4, <3>5 DEF RowStays
    <2> QED  BY <2>1, <2>2
  <1>9. Founded(id)'
    <2> SUFFICES ASSUME NEW i \in 1..(n + 1), Founds(answers'[i], id)
                 PROVE  \/ answers'[i].raws[id] = rows'[id] \/ id \in apart'
                        \/ \E j \in (i + 1)..(n + 1) : Revokes(answers'[j], id)
      BY <1>1 DEF Founded, Founds, Creates, Of, Revokes, Removed
    <2>1. CASE i = n + 1
      BY <1>1, <2>1
    <2>2. CASE i # n + 1
      <3>1. i \in 1..n /\ answers'[i] = answers[i] /\ n + 1 \in (i + 1)..(n + 1)
        BY <1>1, <1>3, <2>2
      <3>2. \/ answers[i].raws[id] = rows[id] \/ id \in apart
            \/ \E j \in (i + 1)..n : Revokes(answers[j], id)
        BY <3>1 DEF Sound, Founded, n
      <3>3. \A j \in (i + 1)..n : j \in 1..n /\ j \in (i + 1)..(n + 1)
        BY <1>1, <3>1
      <3>4. Before(answers[i], h, id, revived)
        BY <1>2, <1>3, <3>1 DEF Sound, Ordered, n, k0
      <3>5. ~Touches(h, id)
        BY <3>1, <3>4 DEF Before, Founds
      <3>6. ~Founds(a, id) /\ ~Updates(a, id)
        BY <1>4, <3>5 DEF Founds
      <3> QED  BY <1>1, <3>1, <3>2, <3>3, <3>6 DEF RowStays
    <2> QED  BY <2>1, <2>2
  <1>10. Shown(id)'
    <2> SUFFICES ASSUME ~Updates(h, id), Lasting(id)'
                 PROVE  /\ \A k \in 1..(k0 - 1) : Newest(k, id)' => calls'[k].raws[id] = cache'[id]
                        /\ (\A k \in 1..(k0 - 1) : ~Updates(calls'[k], id))
                              => cache'[id] = rows'[id] \/ id \in apart'
                        /\ (id \in Live \/ id \in apart)'
      BY <1>2 DEF Shown, Updates, Of, h
    <2>1. ~Revokes(a, id) /\ ~Founds(a, id)
      BY <1>1, <1>3 DEF Lasting, Revokes, Founds, Creates, Of, Removed
    <2>2. RowStays(id)
      BY <1>4, <2>1
    <2>3. Lasting(id)
      <3>1. \A j \in 1..n : ~Revokes(answers[j], id) /\ ~Founds(answers[j], id)
        BY <1>1, <1>3 DEF Lasting, Revokes, Founds, Creates, Of, Removed
      <3> QED  BY <3>1 DEF Lasting, n
    <2>4. \A k \in 1..(k0 - 1) : Newest(k, id)' => Newest(k + 1, id)
      BY NewestShifts DEF k0
    <2>5. \A k \in 1..k0 : k = 1 \/ (k - 1 \in 1..(k0 - 1) /\ calls[k] = calls'[k - 1])
      <3>1. \A k \in 1..k0 : k # 1 => k - 1 \in 1..(k0 - 1) /\ k - 1 + 1 = k
        BY <1>2
      <3> QED  BY <1>2, <3>1
    <2>6. (\A k \in 1..(k0 - 1) : ~Updates(calls'[k], id)) => \A k \in 1..k0 : ~Updates(calls[k], id)
      BY <1>2, <2>5
    <2>7. /\ \A k \in 1..k0 : Newest(k, id) => calls[k].raws[id] = cache[id]
          /\ (\A k \in 1..k0 : ~Updates(calls[k], id)) => cache[id] = rows[id] \/ id \in apart
          /\ id \in Live \/ id \in apart
      BY <2>3 DEF Sound, Shown, k0
    <2>8. \A k \in 1..(k0 - 1) : Newest(k, id)' => calls'[k].raws[id] = cache'[id]
      BY <1>2, <1>3, <2>4, <2>7
    <2>9. (\A k \in 1..(k0 - 1) : ~Updates(calls'[k], id)) => cache'[id] = rows'[id] \/ id \in apart'
      BY <2>2, <2>6, <2>7 DEF RowStays
    <2>10. (id \in Live \/ id \in apart)'
      BY <2>2, <2>7 DEF RowStays, Live
    <2> QED  BY <2>8, <2>9, <2>10
  <1> QED  BY <1>5, <1>6, <1>7, <1>8, <1>9, <1>10 DEF Sound, Fetched, Founded, Forgotten, Patched, Shown

\* The driver forgets records that are marked as deleted.
LEMMA SoundByForgetting ==
  ASSUME TypeOK, NEW id \in Ids, Sound(id), ServeDestroyDeleted
  PROVE  Sound(id)'
PROOF
  <1> DEFINE h == Head(calls)
             k0 == Len(calls)
  <1>1. /\ calls # <<>> /\ h.op = "destroyDeleted" /\ calls' = Tail(calls)
        /\ rows' = [i \in Ids |-> IF i \in h.ids THEN Nothing ELSE rows[i]]
        /\ UNCHANGED <<cache, answers, apart, revived>>
    BY DEF ServeDestroyDeleted, Serving
  <1>2. /\ k0 \in Nat \ {0} /\ h = calls[1] /\ Len(calls') = k0 - 1
        /\ \A k \in 1..(k0 - 1) : calls'[k] = calls[k + 1]
    BY <1>1, Shorter DEF TypeOK
  <1> HIDE DEF h, k0
  <1>3. 1 \in 1..k0 /\ \A k \in 1..(k0 - 1) : k + 1 \in 1..k0
    BY <1>2
  <1>4. ~Forgets(h, id) => rows'[id] = rows[id]
    BY <1>1 DEF Forgets
  <1>5. Forgets(h, id) => rows'[id] = Nothing /\ (id \notin Live \/ id \in apart)
    BY <1>1, <1>2, <1>3 DEF Forgets, Sound, Forgotten, k0
  <1>6. id \in Live' => id \in Live
    BY <1>4, <1>5 DEF Live
  <1>7. Ordered(answers, calls, id, revived)'
    BY <1>1, OrderedWithout DEF Sound
  <1>8. Forgotten(id)'
    BY <1>1, <1>2, <1>3, <1>6 DEF Sound, Forgotten, Forgets, k0
  <1>9. Patched(id)'
    <2>1. \A x \in Traffic' : x \in Traffic
      BY <1>1, <1>2, <1>3 DEF Traffic, k0
    <2> QED  BY <1>1, <2>1 DEF Sound, Patched, Updates, Of
  <1>10. Fetched(id)'
    <2> SUFFICES ASSUME NEW i \in 1..Len(answers), answers[i].op = "rows",
                        id \in DOMAIN answers[i].full, ~answers[i].full[id].deleted
                 PROVE  answers[i].full[id] = rows'[id] \/ id \in apart \/ Overtaken(id, i)
      BY <1>1 DEF Fetched, Overtaken, Revokes, Founds, Creates, Updates, Of, Removed
    <2>1. answers[i].full[id] = rows[id] \/ id \in apart \/ Overtaken(id, i)
      BY DEF Sound, Fetched
    <2>2. CASE ~Forgets(h, id)
      BY <1>4, <2>1, <2>2
    <2>3. CASE Forgets(h, id) /\ id \notin Live
      <3>1. answers[i] \in Answers
        BY DEF TypeOK
      <3>2. answers[i].full[id] \in Row
        BY <3>1, AnswerShape, PartialShape
      <3>3. answers[i].full[id] # rows[id]
        BY <2>3, <3>2, RowIsSomething DEF Live
      <3> QED  BY <2>1, <3>3
    <2> QED  BY <1>5, <2>2, <2>3
  <1>11. Founded(id)'
    <2> SUFFICES ASSUME NEW i \in 1..Len(answers), Founds(answers[i], id)
                 PROVE  \/ answers[i].raws[id] = rows'[id] \/ id \in apart
                        \/ \E j \in (i + 1)..Len(answers) : Revokes(answers[j], id)
      BY <1>1 DEF Founded, Founds, Creates, Revokes, Of, Removed
    <2>1. Before(answers[i], h, id, revived) /\ Touches(answers[i], id)
      BY <1>2, <1>3 DEF Sound, Ordered, Founds, Creates, Touches, Of, k0
    <2>2. ~Forgets(h, id)
      BY <2>1 DEF Before
    <2> QED  BY <1>4, <2>2 DEF Sound, Founded
  <1>12. Shown(id)'
    <2> SUFFICES ASSUME Lasting(id)'
                 PROVE  /\ \A k \in 1..(k0 - 1) : Newest(k, id)' => calls'[k].raws[id] = cache'[id]
                        /\ (\A k \in 1..(k0 - 1) : ~Updates(calls'[k], id))
                              => cache'[id] = rows'[id] \/ id \in apart'
                        /\ (id \in Live \/ id \in apart)'
      BY <1>2 DEF Shown, Updates, Of
    <2>1. Lasting(id)
      BY <1>1 DEF Lasting, Revokes, Founds, Creates, Of, Removed
    <2>2. /\ \A k \in 1..k0 : Newest(k, id) => calls[k].raws[id] = cache[id]
          /\ (\A k \in 1..k0 : ~Updates(calls[k], id)) => cache[id] = rows[id] \/ id \in apart
          /\ id \in Live \/ id \in apart
      BY <2>1 DEF Sound, Shown, k0
    <2>3. id \in apart \/ rows'[id] = rows[id]
      BY <1>4, <1>5, <2>2
    <2>4. \A k \in 1..(k0 - 1) : Newest(k, id)' => Newest(k + 1, id)
      BY <1>1, NewestShifts DEF k0
    <2>5. \A k \in 1..k0 : k = 1 \/ (k - 1 \in 1..(k0 - 1) /\ calls[k] = calls'[k - 1])
      <3>1. \A k \in 1..k0 : k # 1 => k - 1 \in 1..(k0 - 1) /\ k - 1 + 1 = k
        BY <1>2
      <3> QED  BY <1>2, <3>1
    <2>6. ~Updates(h, id)
      BY <1>1 DEF Updates
    <2>7. (\A k \in 1..(k0 - 1) : ~Updates(calls'[k], id)) => \A k \in 1..k0 : ~Updates(calls[k], id)
      BY <1>2, <2>5, <2>6
    <2>8. \A k \in 1..(k0 - 1) : Newest(k, id)' => calls'[k].raws[id] = cache'[id]
      BY <1>1, <1>2, <1>3, <2>2, <2>4
    <2>9. (\A k \in 1..(k0 - 1) : ~Updates(calls'[k], id)) => cache'[id] = rows'[id] \/ id \in apart'
      BY <1>1, <2>2, <2>3, <2>7
    <2>10. (id \in Live \/ id \in apart)'
      BY <1>1, <2>2, <2>3 DEF Live
    <2> QED  BY <2>8, <2>9, <2>10
  <1> QED  BY <1>7, <1>8, <1>9, <1>10, <1>11, <1>12
             DEF Sound, Fetched, Founded, Forgotten, Patched, Shown

\* The first answer is acted upon: the Model is kept, dropped, replaced by a
\* created one or built from a row.
LEMMA SoundByHandling ==
  ASSUME TypeOK, NEW id \in Ids, Sound(id), answers # <<>>, NEW a, a = answers[1],
         answers' = Tail(answers), UNCHANGED <<rows, calls, apart, revived>>,
         \/ cache'[id] = cache[id] /\ ~Revokes(a, id) /\ ~Founds(a, id)
         \/ cache'[id] = Nothing /\ Revokes(a, id)
         \/ Founds(a, id) /\ cache'[id] = a.raws[id]
         \/ /\ a.op = "rows" /\ id \in DOMAIN a.full
            /\ cache[id] = Nothing /\ cache'[id] = a.full[id]
  PROVE  Sound(id)'
PROOF
  <1> DEFINE n == Len(answers)
  <1>1. /\ n \in Nat \ {0} /\ Len(answers') = n - 1
        /\ \A i \in 1..(n - 1) : answers'[i] = answers[i + 1]
    BY Shorter DEF TypeOK
  <1> HIDE DEF n
  <1>2. 1 \in 1..n /\ \A i \in 1..(n - 1) : i + 1 \in 1..n
    BY <1>1
  <1>3. \A i \in 1..n : i = 1 \/ (i - 1 \in 1..(n - 1) /\ answers[i] = answers'[i - 1])
    <2>1. \A i \in 1..n : i # 1 => i - 1 \in 1..(n - 1) /\ i - 1 + 1 = i
      BY <1>1
    <2> QED  BY <1>1, <2>1
  <1>4. \A i \in 1..(n - 1) : \A j \in (i + 1 + 1)..n :
          j - 1 \in (i + 1)..(n - 1) /\ j \in 1..n /\ answers[j] = answers'[j - 1]
    <2>1. \A i \in 1..(n - 1) : \A j \in (i + 1 + 1)..n :
            j - 1 \in (i + 1)..(n - 1) /\ j \in 1..n /\ j # 1
      BY <1>1
    <2> QED  BY <1>3, <2>1
  <1>5. \A x \in Traffic' : x \in Traffic /\ Before(a, x, id, revived)
    <2> SUFFICES ASSUME NEW x \in Traffic'
                 PROVE  x \in Traffic /\ Before(a, x, id, revived)
      OBVIOUS
    <2>1. CASE \E k \in 1..Len(calls) : x = calls[k]
      BY <1>2, <2>1 DEF Traffic, Sound, Ordered, n
    <2>2. CASE \E i \in 1..(n - 1) : x = answers'[i]
      <3>1. PICK i \in 1..(n - 1) : x = answers[i + 1]
        BY <1>1, <2>2
      <3>2. i + 1 \in 1..n /\ 1 \in 1..(i + 1 - 1)
        BY <1>1
      <3> QED  BY <3>1, <3>2 DEF Traffic, Sound, Ordered, Queued, n
    <2> QED  BY <1>1, <2>1, <2>2 DEF Traffic
  <1>6. Ordered(answers, calls, id, revived)'
    BY OrderedWithout DEF Sound
  <1>7. Forgotten(id)'
    BY DEF Sound, Forgotten, Live, Forgets
  <1>8. Patched(id)'
    <2> SUFFICES ASSUME NEW x \in Traffic', Updates(x, id), id \notin revived
                 PROVE  cache'[id] # Nothing /\ (x.raws[id].deleted => cache'[id].deleted)
      BY DEF Patched, Updates, Of
    <2>1. cache[id] # Nothing /\ (x.raws[id].deleted => cache[id].deleted)
      BY <1>5 DEF Sound, Patched
    <2>2. ~Removes(a, id) /\ ~Creates(a, id) /\ a.op # "reset"
      BY <1>5 DEF Before, Updates, Touches, Of
    <2>3. ~Revokes(a, id) /\ ~Founds(a, id)
      BY <2>2 DEF Revokes, Founds, Removes
    <2> QED  BY <2>1, <2>3
  <1>9. Fetched(id)'
    <2> SUFFICES ASSUME NEW i \in 1..(n - 1), answers'[i].op = "rows",
                        id \in DOMAIN answers'[i].full, ~answers'[i].full[id].deleted
                 PROVE  answers'[i].full[id] = rows[id] \/ id \in apart \/ Overtaken(id, i)'
      BY <1>1 DEF Fetched
    <2>1. answers'[i].full[id] = rows[id] \/ id \in apart \/ Overtaken(id, i + 1)
      BY <1>1, <1>2 DEF Sound, Fetched, n
    <2>2. ASSUME Overtaken(id, i + 1)
          PROVE  Overtaken(id, i)'
      <3>1. PICK j \in (i + 1 + 1)..n :
              Revokes(answers[j], id) \/ Founds(answers[j], id) \/ Updates(answers[j], id)
        BY <2>2 DEF Overtaken, n
      <3>2. j - 1 \in (i + 1)..(n - 1) /\ answers[j] = answers'[j - 1]
        BY <1>4
      <3> DEFINE Overtakes(m) == Revokes(m, id) \/ Founds(m, id) \/ Updates(m, id)
      <3>3. Overtakes(answers'[j - 1])
        BY <3>1, <3>2
      <3>4. \E l \in (i + 1)..Len(answers') : Overtakes(answers'[l])
        <4> HIDE DEF Overtakes
        <4> QED  BY <1>1, <3>2, <3>3
      <3> QED  BY <3>4 DEF Overtaken, Revokes, Founds, Creates, Updates, Of, Removed
    <2> QED  BY <2>1, <2>2
  <1>10. Founded(id)'
    <2> SUFFICES ASSUME NEW i \in 1..(n - 1), Founds(answers'[i], id)
                 PROVE  \/ answers'[i].raws[id] = rows[id] \/ id \in apart
                        \/ \E j \in (i + 1)..(n - 1) : Revokes(answers'[j], id)
      BY <1>1 DEF Founded, Founds, Creates, Of, Revokes, Removed
    <2>1. \/ answers'[i].raws[id] = rows[id] \/ id \in apart
          \/ \E j \in (i + 1 + 1)..n : Revokes(answers[j], id)
      BY <1>1, <1>2 DEF Sound, Founded, n
    <2> QED  BY <1>4, <2>1
  <1>11. Shown(id)'
    <2> SUFFICES ASSUME Lasting(id)'
                 PROVE  /\ \A k \in 1..Len(calls) : Newest(k, id) => calls[k].raws[id] = cache'[id]
                        /\ (\A k \in 1..Len(calls) : ~Updates(calls[k], id))
                              => cache'[id] = rows[id] \/ id \in apart
                        /\ id \in Live \/ id \in apart
      BY DEF Shown, Newest, Live, Updates, Of
    <2>1. cache'[id] # Nothing /\ ~cache'[id].deleted /\ id \notin revived
      BY DEF Lasting
    <2>2. \A i \in 1..(n - 1) : ~Revokes(answers'[i], id) /\ ~Founds(answers'[i], id)
      BY <1>1 DEF Lasting, Revokes, Founds, Creates, Of, Removed
    <2>3. \A i \in 1..n : i = 1 \/ (~Revokes(answers[i], id) /\ ~Founds(answers[i], id))
      BY <1>3, <2>2
    <2>4. \A j \in 2..n : j \in 1..n /\ j # 1
      BY <1>1
    <2>5. CASE cache'[id] = cache[id] /\ ~Revokes(a, id) /\ ~Founds(a, id)
      <3>1. Lasting(id)
        BY <2>1, <2>3, <2>5 DEF Lasting, n
      <3> QED  BY <2>5, <3>1 DEF Sound, Shown
    <2>6. \A k \in 1..Len(calls) : calls[k] \in Traffic'
      BY DEF Traffic
    <2>7. CASE Founds(a, id) /\ cache'[id] = a.raws[id]
      <3>1. \A k \in 1..Len(calls) : ~Updates(calls[k], id)
        BY <1>5, <2>6, <2>7 DEF Before, Founds, Updates, Touches, Of
      <3>2. a.raws[id] = rows[id] \/ id \in apart
        BY <1>2, <2>3, <2>4, <2>7 DEF Sound, Founded, n
      <3>3. id \in Live \/ id \in apart
        BY <2>1, <2>7, <3>2 DEF Live
      <3> QED  BY <2>7, <3>1, <3>2, <3>3 DEF Newest
    <2>8. CASE /\ a.op = "rows" /\ id \in DOMAIN a.full
               /\ cache[id] = Nothing /\ cache'[id] = a.full[id]
      <3>1. \A x \in Traffic : ~Updates(x, id)
        BY <2>1, <2>8 DEF Sound, Patched
      <3>2. \A k \in 1..Len(calls) : ~Updates(calls[k], id)
        BY <3>1 DEF Traffic
      <3>3. \A i \in 1..n : ~Updates(answers[i], id)
        BY <3>1 DEF Traffic, n
      <3>4. ~Overtaken(id, 1)
        BY <2>3, <2>4, <3>3 DEF Overtaken, n
      <3>5. a.full[id] = rows[id] \/ id \in apart
        BY <1>2, <2>1, <2>8, <3>4 DEF Sound, Fetched, n
      <3>6. id \in Live \/ id \in apart
        BY <2>1, <2>8, <3>5 DEF Live
      <3> QED  BY <2>8, <3>2, <3>5, <3>6 DEF Newest
    <2> QED  BY <2>1, <2>5, <2>7, <2>8
  <1> QED  BY <1>6, <1>7, <1>8, <1>9, <1>10, <1>11
             DEF Sound, Fetched, Founded, Forgotten, Patched, Shown

-----------------------------------------------------------------------------
\* A batch is answered; the raws it wrote are the ones the Models show.
LEMMA SoundByBatchServed ==
  ASSUME TypeOK, NEW id \in Ids, Sound(id), ServeBatch
  PROVE  Sound(id)'
PROOF
  <1> DEFINE h == Head(calls)
             k0 == Len(calls)
             answer(ok) == [op |-> "batch", kinds |-> h.kinds, raws |-> h.raws, ok |-> ok]
  <1>1. /\ calls # <<>> /\ h.op = "batch" /\ calls' = Tail(calls) /\ UNCHANGED <<cache, revived>>
    BY DEF ServeBatch, Serving
  <1>2. PICK ok \in BOOLEAN :
          /\ answers' = Append(answers, answer(ok))
          /\ rows' = IF ok THEN Written(h) ELSE rows
          /\ apart' = IF ok THEN apart \ {i \in DOMAIN h.kinds : rows'[i] # Nothing}
                      ELSE apart \cup (DOMAIN h.kinds \ Of(h, "create"))
    BY DEF ServeBatch, Answer
  <1> DEFINE a == answer(ok)
  <1>3. a.op = "batch" /\ a.kinds = h.kinds /\ a.raws = h.raws /\ a.ok = ok
    OBVIOUS
  <1>4. h \in Calls /\ CarriesRaws(h)
    BY <1>1, FirstCall
  <1>5. /\ k0 \in Nat \ {0} /\ h = calls[1] /\ Len(calls') = k0 - 1
        /\ \A k \in 1..(k0 - 1) : calls'[k] = calls[k + 1]
    BY <1>1, Shorter DEF TypeOK
  <1>6. /\ \A i \in DOMAIN h.kinds : /\ h.kinds[i] \in Kinds
                                     /\ h.kinds[i] \in {"create", "update"} => h.raws[i] \in Row
    BY <1>1, <1>4, BatchShape
  <1> HIDE DEF a, answer, h, k0
  <1>7. /\ Touches(a, id) = Touches(h, id) /\ Creates(a, id) = Creates(h, id)
        /\ Updates(a, id) = Updates(h, id) /\ Removes(a, id) = Removes(h, id)
        /\ ~Forgets(a, id)
    BY <1>1, <1>3 DEF Touches, Creates, Updates, Removes, Forgets, Of, Removed
  <1>8. ok => rows'[id] = IF id \notin DOMAIN h.kinds THEN rows[id]
                          ELSE IF h.kinds[id] = "create" THEN h.raws[id]
                          ELSE IF h.kinds[id] = "destroyPermanently" \/ rows[id] = Nothing THEN Nothing
                          ELSE IF h.kinds[id] = "update" THEN h.raws[id]
                          ELSE [rows[id] EXCEPT !.deleted = TRUE]
    BY <1>2 DEF Written
  <1>9. Touches(h, id) <=> id \in DOMAIN h.kinds
    BY <1>1 DEF Touches
  <1>10. \/ RowStays(id)
         \/ Revokes(a, id)
         \/ Founds(a, id) \/ Updates(a, id)
    <2>1. CASE ~ok
      BY <1>2, <2>1 DEF RowStays
    <2>2. CASE ok /\ id \notin DOMAIN h.kinds
      BY <1>2, <1>8, <2>2 DEF RowStays
    <2>3. CASE ok /\ id \in DOMAIN h.kinds
      BY <1>1, <1>3, <1>6, <2>3 DEF Revokes, Founds, Creates, Updates, Removed, Of, Kinds
    <2> QED  BY <2>1, <2>2, <2>3
  <1>11. Revokes(a, id) => id \notin Live'
    <2> SUFFICES ASSUME Revokes(a, id)
                 PROVE  rows'[id] = Nothing \/ rows'[id].deleted
      BY DEF Live
    <2>1. ok /\ id \in DOMAIN h.kinds /\ h.kinds[id] \in {"markAsDeleted", "destroyPermanently"}
      BY <1>3 DEF Revokes, Removed, Of
    <2>2. rows'[id] = Nothing \/ (rows[id] # Nothing /\ rows'[id] = [rows[id] EXCEPT !.deleted = TRUE])
      <3>1. CASE h.kinds[id] = "destroyPermanently" \/ rows[id] = Nothing
        BY <1>8, <2>1, <3>1
      <3>2. CASE h.kinds[id] = "markAsDeleted" /\ rows[id] # Nothing
        BY <1>8, <2>1, <3>2
      <3> QED  BY <2>1, <3>1, <3>2
    <2>3. rows[id] # Nothing => rows[id] \in Row
      BY DEF TypeOK
    <2> QED  BY <2>2, <2>3 DEF Row
  <1>12. Founds(a, id) => a.raws[id] = rows'[id]
    BY <1>3, <1>8 DEF Founds, Creates, Of
  <1>13. Updates(h, id) => Shown(id)'
    <2> SUFFICES ASSUME Updates(h, id), Lasting(id)'
                 PROVE  /\ \A k \in 1..(k0 - 1) : Newest(k, id)' => calls'[k].raws[id] = cache'[id]
                        /\ (\A k \in 1..(k0 - 1) : ~Updates(calls'[k], id))
                              => cache'[id] = rows'[id] \/ id \in apart'
                        /\ (id \in Live \/ id \in apart)'
      BY <1>5 DEF Shown, Updates, Of
    <2>1. cache[id] # Nothing /\ ~cache[id].deleted /\ id \notin revived
      BY <1>1 DEF Lasting
    <2>2. id \in DOMAIN h.kinds /\ h.kinds[id] = "update" /\ h.raws[id] \in Row
      BY <1>6 DEF Updates, Of
    <2>3. Lasting(id)
      <3>1. \A j \in 1..Len(answers) : j \in 1..Len(answers') /\ answers'[j] = answers[j]
        BY <1>2, Longer DEF TypeOK
      <3>2. \A j \in 1..Len(answers) : ~Revokes(answers[j], id) /\ ~Founds(answers[j], id)
        BY <3>1 DEF Lasting, Revokes, Founds, Creates, Of, Removed
      <3> QED  BY <2>1, <3>2 DEF Lasting
    <2>4. /\ \A k \in 1..k0 : Newest(k, id) => calls[k].raws[id] = cache[id]
          /\ id \in Live \/ id \in apart
      BY <2>3 DEF Sound, Shown, k0
    <2>5. \A k \in 1..(k0 - 1) : Newest(k, id)' => Newest(k + 1, id)
      BY <1>1, NewestShifts DEF k0
    <2>6. \A k \in 1..(k0 - 1) : k + 1 \in 1..k0
      BY <1>5
    <2>7. ASSUME \A k \in 1..(k0 - 1) : ~Updates(calls'[k], id)
          PROVE  h.raws[id] = cache[id]
      <3>1. 1 \in 1..k0 /\ \A l \in (1 + 1)..k0 : l - 1 \in 1..(k0 - 1) /\ l - 1 + 1 = l
        BY <1>5
      <3>2. \A l \in (1 + 1)..k0 : ~Updates(calls[l], id)
        BY <1>5, <2>7, <3>1
      <3>3. Newest(1, id)
        BY <1>5, <3>2 DEF Newest, k0
      <3> QED  BY <1>5, <2>4, <3>1, <3>3
    <2>8. ~h.raws[id].deleted
      <3>1. h \in Traffic
        <4>1. 1 \in 1..k0
          BY <1>5
        <4> QED  BY <1>5, <4>1 DEF Traffic, k0
      <3> QED  BY <2>1, <3>1 DEF Sound, Patched
    <2>9. ok /\ rows[id] # Nothing => rows'[id] = h.raws[id] /\ rows'[id] # Nothing
      BY <1>8, <2>2, RowIsSomething
    <2>10. ~ok => id \in apart'
      BY <1>2, <2>2 DEF Of
    <2>11. ok /\ rows[id] = Nothing => id \in apart'
      BY <1>2, <1>8, <2>2, <2>4 DEF Live
    <2>12. (id \in Live \/ id \in apart)'
      BY <2>8, <2>9, <2>10, <2>11 DEF Live
    <2> QED  BY <1>1, <1>5, <2>4, <2>5, <2>6, <2>7, <2>9, <2>10, <2>11, <2>12
  <1>14. answers' = Append(answers, a)
    BY <1>2 DEF a
  <1> QED
    BY <1>1, <1>3, <1>7, <1>10, <1>11, <1>12, <1>13, <1>14, SoundByAnswer DEF h

\* The other calls that are answered.
LEMMA SoundByServing ==
  ASSUME TypeOK, NEW id \in Ids, Sound(id),
         ServeQuery \/ ServeFind \/ ServeDestroyMatching \/ ServeReset
  PROVE  Sound(id)'
PROOF
  <1> DEFINE h == Head(calls)
  <1>1. ASSUME NEW found \in SUBSET Ids, calls # <<>>, h.op \in {"query", "find"},
               answers' = Append(answers, RowsAnswer(found)), calls' = Tail(calls),
               UNCHANGED <<rows, cache, apart, revived>>
        PROVE  Sound(id)'
    <2> DEFINE a == RowsAnswer(found)
    <2>1. a.op = "rows" /\ (id \in DOMAIN a.full => a.full[id] = rows[id])
      BY DEF RowsAnswer
    <2> HIDE DEF a
    <2>2. /\ ~Forgets(a, id) /\ ~Removes(a, id) /\ ~Touches(a, id)
          /\ ~Revokes(a, id) /\ ~Founds(a, id) /\ ~Updates(h, id)
      BY <1>1, <2>1 DEF Forgets, Removes, Touches, Revokes, Founds, Creates, Updates
    <2>3. RowStays(id)
      BY <1>1 DEF RowStays
    <2>4. answers' = Append(answers, a)
      BY <1>1 DEF a
    <2> QED  BY <1>1, <2>1, <2>2, <2>3, <2>4, SoundByAnswer
  <1>2. CASE ServeQuery
    <2> DEFINE found == h.ids \cap Live
    <2>1. found \in SUBSET Ids
      BY DEF Live
    <2>2. /\ calls # <<>> /\ h.op = "query" /\ calls' = Tail(calls)
          /\ answers' = Append(answers, RowsAnswer(found))
          /\ UNCHANGED <<rows, cache, apart, revived>>
      BY <1>2 DEF ServeQuery, Serving, Answer
    <2> HIDE DEF found, h
    <2> QED  BY <1>1, <2>1, <2>2
  <1>3. CASE ServeFind
    <2> DEFINE found == {i \in h.ids : i \in sent \/ rows[i] # Nothing}
    <2>1. found \in SUBSET Ids
      BY <1>3, FirstCall, CallShape DEF ServeFind, Serving
    <2>2. /\ calls # <<>> /\ h.op = "find" /\ calls' = Tail(calls)
          /\ answers' = Append(answers, RowsAnswer(found))
          /\ UNCHANGED <<rows, cache, apart, revived>>
      BY <1>3 DEF ServeFind, Serving, Answer
    <2> HIDE DEF found, h
    <2> QED  BY <1>1, <2>1, <2>2
  <1>4. CASE ServeDestroyMatching
    <2> DEFINE found == h.ids \cap Live
               a == [op |-> "destroyed", ids |-> found]
    <2>1. /\ calls # <<>> /\ h.op = "destroyMatching" /\ calls' = Tail(calls)
          /\ answers' = Append(answers, a) /\ UNCHANGED <<cache, apart, revived>>
          /\ rows' = [i \in Ids |-> IF i \notin found THEN rows[i]
                                    ELSE IF h.permanently THEN Nothing
                                    ELSE [rows[i] EXCEPT !.deleted = TRUE]]
      BY <1>4 DEF ServeDestroyMatching, Serving, Answer
    <2>2. a.op = "destroyed" /\ a.ids = found /\ found \subseteq h.ids
      OBVIOUS
    <2>3. id \in found => rows[id] \in Row
      BY DEF TypeOK, Live
    <2> HIDE DEF a, found, h
    <2>4. /\ ~Forgets(a, id) /\ ~Touches(a, id) /\ ~Founds(a, id) /\ ~Updates(h, id)
          /\ Removes(a, id) => Removes(h, id)
          /\ Revokes(a, id) <=> id \in found
      BY <2>1, <2>2 DEF Forgets, Removes, Touches, Revokes, Founds, Creates, Updates
    <2>5. RowStays(id) \/ Revokes(a, id)
      BY <2>1, <2>4 DEF RowStays
    <2>6. Revokes(a, id) => id \notin Live'
      <3>1. id \in found => rows'[id] = Nothing \/ rows'[id] = [rows[id] EXCEPT !.deleted = TRUE]
        BY <2>1
      <3> QED  BY <2>3, <2>4, <3>1 DEF Live, Row
    <2> QED  BY <2>1, <2>2, <2>4, <2>5, <2>6, SoundByAnswer DEF h
  <1>5. CASE ServeReset
    <2> DEFINE a == [op |-> "reset"]
    <2>1. /\ calls # <<>> /\ h.op = "reset" /\ calls' = Tail(calls)
          /\ answers' = Append(answers, a) /\ UNCHANGED <<cache, apart, revived>>
          /\ rows' = [i \in Ids |-> Nothing]
      BY <1>5 DEF ServeReset, Serving, Answer
    <2>2. a.op = "reset"
      OBVIOUS
    <2> HIDE DEF a, h
    <2>3. /\ ~Forgets(a, id) /\ ~Touches(a, id) /\ ~Founds(a, id) /\ ~Updates(h, id)
          /\ ~Removes(a, id) /\ Revokes(a, id) /\ id \notin Live'
      BY <2>1, <2>2 DEF Forgets, Removes, Touches, Revokes, Founds, Creates, Updates, Live
    <2> QED  BY <2>1, <2>2, <2>3, SoundByAnswer DEF h
  <1> QED  BY <1>2, <1>3, <1>4, <1>5

\* The answers JavaScript acts upon.
LEMMA SoundByHandler ==
  ASSUME TypeOK, ~AtOnce, NEW id \in Ids, Sound(id), NEW i,
         HandleRows(i) \/ HandleBatch(i) \/ HandleDestroyed(i) \/ HandleReset(i)
  PROVE  Sound(id)'
PROOF
  <1> DEFINE a == answers[1]
  <1>1. /\ Due(i) /\ answers' = Without(i) /\ UNCHANGED <<rows, calls, apart, revived>>
    BY DEF HandleRows, HandleBatch, HandleDestroyed, HandleReset
  <1>2. i = 1 /\ answers # <<>> /\ answers' = Tail(answers)
    BY <1>1, FirstAnswer
  <1>3. a \in Answers /\ CarriesRaws(a)
    BY <1>1, <1>2, DueAnswer
  <1> HIDE DEF a
  <1>4. \/ cache'[id] = cache[id] /\ ~Revokes(a, id) /\ ~Founds(a, id)
        \/ cache'[id] = Nothing /\ Revokes(a, id)
        \/ Founds(a, id) /\ cache'[id] = a.raws[id]
        \/ /\ a.op = "rows" /\ id \in DOMAIN a.full
           /\ cache[id] = Nothing /\ cache'[id] = a.full[id]
    <2>1. CASE HandleRows(i)
      <3>1. a.op = "rows"
        BY <1>2, <2>1 DEF HandleRows, a
      <3>2. PICK built \in SUBSET DOMAIN a.full :
              cache' = [j \in Ids |-> IF j \in built /\ cache[j] = Nothing THEN a.full[j] ELSE cache[j]]
        BY <1>2, <2>1 DEF HandleRows, a
      <3> QED  BY <3>1, <3>2 DEF Revokes, Founds, Creates
    <2>2. CASE HandleBatch(i)
      <3>1. a.op = "batch" /\ cache' = IF a.ok THEN Applied(a) ELSE cache
        BY <1>2, <2>2 DEF HandleBatch, a
      <3>2. id \in Of(a, "create") => id \notin Removed(a)
        BY DEF Of, Removed
      <3> QED  BY <3>1, <3>2 DEF Applied, Revokes, Founds, Creates
    <2>3. CASE HandleDestroyed(i)
      BY <1>2, <2>3 DEF HandleDestroyed, Revokes, Founds, Creates, a
    <2>4. CASE HandleReset(i)
      BY <1>2, <2>4 DEF HandleReset, ClearedCache, Revokes, Founds, Creates, a
    <2> QED  BY <2>1, <2>2, <2>3, <2>4
  <1> QED  BY <1>1, <1>2, <1>4, SoundByHandling DEF a

\* Another connection's write sets its record apart.
LEMMA SoundByOthers ==
  ASSUME TypeOK, NEW id \in Ids, Sound(id),
         (\E other \in Ids : OtherCommits(other)) \/ Invalidate \/ UNCHANGED vars
  PROVE  Sound(id)'
PROOF
  <1>1. UNCHANGED <<cache, calls, answers, revived>>
    BY DEF OtherCommits, Invalidate, vars
  <1>2. (rows'[id] = rows[id] /\ (id \in apart => id \in apart')) \/ id \in apart'
    BY DEF OtherCommits, Invalidate, vars, TypeOK
  <1>3. id \in apart' \/ (id \in Live' <=> id \in Live)
    BY <1>2 DEF Live
  <1>4. id \in apart => id \in apart'
    BY <1>2
  <1>5. Ordered(answers, calls, id, revived)' /\ Patched(id)'
    BY <1>1 DEF Sound, Patched, Traffic, Updates, Of
  <1>6. Forgotten(id)'
    BY <1>1, <1>3, <1>4 DEF Sound, Forgotten, Forgets
  <1>7. Fetched(id)' /\ Founded(id)'
    BY <1>1, <1>2 DEF Sound, Fetched, Founded, Overtaken, Revokes, Founds, Creates, Updates, Of, Removed
  <1>8. Shown(id)'
    <2>1. Lasting(id)' => Lasting(id)
      BY <1>1 DEF Lasting, Revokes, Founds, Creates, Of, Removed
    <2>2. \A k \in 1..Len(calls) : Newest(k, id)' => Newest(k, id)
      BY <1>1 DEF Newest, Updates, Of
    <2> QED  BY <1>1, <1>2, <1>3, <1>4, <2>1, <2>2 DEF Sound, Shown, Updates, Of
  <1> QED  BY <1>5, <1>6, <1>7, <1>8 DEF Sound

-----------------------------------------------------------------------------
\* Every step over a driver that answers later keeps every record sound.
LEMMA SoundStep ==
  ASSUME ~AtOnce
  PROVE  TypeOK /\ AllSound /\ [Next]_vars => AllSound'
PROOF
  <1> SUFFICES ASSUME TypeOK, AllSound, [Next]_vars, NEW id \in Ids
               PROVE  Sound(id)'
    BY DEF AllSound
  <1>1. Sound(id)
    BY DEF AllSound
  <1>2. ASSUME NEW ids \in SUBSET Ids, Fetch(ids)
        PROVE  Sound(id)'
    <2> DEFINE m == [op |-> "query", ids |-> ids]
    <2>1. m.op # "batch" /\ ~Forgets(m, id)
      BY DEF Forgets
    <2> HIDE DEF m
    <2> QED  BY <1>1, <1>2, <2>1, SoundByCall DEF Fetch, CanCall, Call, m
  <1>3. ASSUME NEW other \in Ids, Find(other)
        PROVE  Sound(id)'
    <2> DEFINE m == [op |-> "find", ids |-> {other}]
    <2>1. m.op # "batch" /\ ~Forgets(m, id)
      BY DEF Forgets
    <2> HIDE DEF m
    <2> QED  BY <1>1, <1>3, <2>1, SoundByCall DEF Find, CanCall, Call, m
  <1>4. ASSUME NEW ids \in SUBSET Ids, NEW permanently \in BOOLEAN, MassDestroy(ids, permanently)
        PROVE  Sound(id)'
    <2> DEFINE m == [op |-> "destroyMatching", ids |-> ids, permanently |-> permanently]
    <2>1. m.op # "batch" /\ ~Forgets(m, id)
      BY DEF Forgets
    <2> HIDE DEF m
    <2> QED  BY <1>1, <1>4, <2>1, SoundByCall DEF MassDestroy, CanCall, Call, m
  <1>5. ASSUME NEW ids \in SUBSET Ids, DestroyDeleted(ids)
        PROVE  Sound(id)'
    <2> DEFINE m == [op |-> "destroyDeleted", ids |-> ids]
    <2>1. m.op # "batch" /\ (Forgets(m, id) => ~Changing(id) /\ id \notin Live)
      BY <1>5 DEF Forgets, DestroyDeleted, Live
    <2> HIDE DEF m
    <2> QED  BY <1>1, <1>5, <2>1, SoundByCall DEF DestroyDeleted, CanCall, Call, m
  <1>6. CASE Reset
    <2> DEFINE m == [op |-> "reset"]
    <2>1. m.op # "batch" /\ ~Forgets(m, id)
      BY DEF Forgets
    <2> HIDE DEF m
    <2> QED  BY <1>1, <1>6, <2>1, SoundByCall DEF Reset, CanCall, Call, m
  <1>7. ASSUME NEW ids \in SUBSET Ids, NEW kinds \in [ids -> Kinds], Batch(kinds)
        PROVE  Sound(id)'
    BY <1>1, <1>7, SoundByBatch
  <1>8. CASE ServeQuery \/ ServeFind \/ ServeDestroyMatching \/ ServeReset
    BY <1>1, <1>8, SoundByServing
  <1>9. CASE ServeBatch
    BY <1>1, <1>9, SoundByBatchServed
  <1>10. CASE ServeDestroyDeleted
    BY <1>1, <1>10, SoundByForgetting
  <1>11. ASSUME NEW i, HandleRows(i) \/ HandleBatch(i) \/ HandleDestroyed(i) \/ HandleReset(i)
         PROVE  Sound(id)'
    BY <1>1, <1>11, SoundByHandler
  <1>12. CASE (\E other \in Ids : OtherCommits(other)) \/ Invalidate \/ UNCHANGED vars
    BY <1>1, <1>12, SoundByOthers
  <1> QED
    BY <1>2, <1>3, <1>4, <1>5, <1>6, <1>7, <1>8, <1>9, <1>10, <1>11, <1>12 DEF Next

\* With a driver that answers later, whatever fails and is written by another
\* connection, a Model nothing is on its way for shows its committed row, is
\* marked as deleted, or was set apart (Database._performBatch, RecordCache).
THEOREM ModelsCurrent == ASSUME ~AtOnce PROVE Spec => []ModelsAreCurrent
PROOF
  <1>1. Init => TypeOK /\ AllSound
    <2> SUFFICES ASSUME Init
                 PROVE  AllSound
      BY Beginning
    <2>1. Len(calls) = 0 /\ Len(answers) = 0 /\ Traffic = {}
      BY DEF Init, Traffic
    <2>2. \A i \in 1..0 : FALSE
      OBVIOUS
    <2>3. \A id \in Ids : cache[id] = Nothing
      BY DEF Init
    <2> QED  BY <2>1, <2>2, <2>3 DEF AllSound, Sound, Ordered, Queued, Forgotten, Patched,
                                     Fetched, Founded, Shown, Lasting
  <1>2. TypeOK /\ AllSound /\ [Next]_vars => (TypeOK /\ AllSound)'
    BY TypeStep, SoundStep
  <1>3. TypeOK /\ AllSound => ModelsAreCurrent
    <2> SUFFICES ASSUME TypeOK, AllSound, NEW id \in Cached, ~Changing(id),
                        id \notin apart \cup revived, ~cache[id].deleted
                 PROVE  cache[id] = rows[id]
      BY DEF ModelsAreCurrent
    <2>1. id \in Ids /\ Sound(id) /\ cache[id] # Nothing
      BY DEF AllSound, Cached
    <2>2. /\ \A i \in 1..Len(answers) : answers[i] \in Traffic
          /\ \A k \in 1..Len(calls) : calls[k] \in Traffic
      BY DEF Traffic
    <2>3. \A i \in 1..Len(answers) : ~Revokes(answers[i], id) /\ ~Founds(answers[i], id)
      BY <2>2 DEF Changing, Revokes, Founds, Creates, Of, Removed
    <2>4. \A k \in 1..Len(calls) : ~Updates(calls[k], id)
      BY <2>2 DEF Changing, Updates, Of
    <2> QED  BY <2>1, <2>3, <2>4 DEF Sound, Shown, Lasting
  <1> QED  BY <1>1, <1>2, <1>3, PTL DEF Spec
=============================================================================
