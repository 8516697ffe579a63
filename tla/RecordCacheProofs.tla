-------------------------- MODULE RecordCacheProofs --------------------------
(***************************************************************************)
(* Theorems about RecordCache over a driver that answers later, for any    *)
(* records, calls, failing batches and writes of other connections.        *)
(*                                                                         *)
(* An id the driver would send bare has no Model yet when its row or its   *)
(* creation is still on its way.  Held says, of a cache and a queue of     *)
(* answers, that a record has a Model once n of them are acted upon.       *)
(***************************************************************************)
EXTENDS RecordCache, SequenceTheorems, TLAPS

Held(models, queue, n, id) ==
  \/ /\ models[id] # Nothing
     /\ \A i \in 1..n : ~Revokes(queue[i], id)
  \/ \E i \in 1..n :
       /\ Grants(queue[i], id)
       /\ \A j \in (i + 1)..n : ~Revokes(queue[j], id)

\* What is sent, and what was sent bare, will have a Model.
Covered(set, models, queue) ==
  /\ \A id \in set : Held(models, queue, Len(queue), id)
  /\ \A j \in 1..Len(queue) :
       queue[j].op = "rows" => \A id \in queue[j].bare : Held(models, queue, j - 1, id)

IInv == TypeOK /\ Covered(sent, cache, answers) /\ NothingMissing

\* A Model that is kept is found however many answers come.
LEMMA HeldGrows ==
  ASSUME NEW models, NEW later, NEW queue, NEW n \in Nat, NEW id,
         models[id] # Nothing => later[id] # Nothing,
         Held(models, queue, n, id)
  PROVE  Held(later, queue, n, id)
BY DEF Held

\* An answer more does not change what the first ones do.
LEMMA HeldBefore ==
  ASSUME NEW models, NEW queue \in Seq(Answers), NEW a \in Answers, NEW n \in 0..Len(queue), NEW id,
         Held(models, queue, n, id)
  PROVE  Held(models, Append(queue, a), n, id)
PROOF
  <1>1. \A i \in 1..n : Append(queue, a)[i] = queue[i]
    OBVIOUS
  <1>2. \A i \in 1..n : \A j \in (i + 1)..n : j \in 1..n
    OBVIOUS
  <1> QED  BY <1>1, <1>2 DEF Held

\* The last answer takes a record away, leaves it or brings it.
LEMMA HeldAfterwards ==
  ASSUME NEW models, NEW queue \in Seq(Answers), NEW a \in Answers, NEW id,
         \/ Grants(a, id)
         \/ Held(models, queue, Len(queue), id) /\ ~Revokes(a, id)
  PROVE  Held(models, Append(queue, a), Len(queue) + 1, id)
PROOF
  <1> DEFINE n == Len(queue)
             new == Append(queue, a)
  <1>1. n \in Nat /\ new[n + 1] = a /\ \A i \in 1..n : new[i] = queue[i]
    OBVIOUS
  <1> HIDE DEF n, new
  <1>2. CASE Grants(a, id)
    <2>1. n + 1 \in 1..(n + 1) /\ \A j \in (n + 1 + 1)..(n + 1) : FALSE
      BY <1>1
    <2> QED  BY <1>1, <1>2, <2>1 DEF Held, n, new
  <1>3. CASE Held(models, queue, n, id) /\ ~Revokes(a, id)
    <2>1. \A i \in 1..(n + 1) : i \in 1..n \/ i = n + 1
      BY <1>1
    <2>2. CASE models[id] # Nothing /\ \A i \in 1..n : ~Revokes(queue[i], id)
      BY <1>1, <1>3, <2>1, <2>2 DEF Held, n, new
    <2>3. CASE \E i \in 1..n : /\ Grants(queue[i], id)
                               /\ \A j \in (i + 1)..n : ~Revokes(queue[j], id)
      <3>1. PICK i \in 1..n : /\ Grants(queue[i], id)
                              /\ \A j \in (i + 1)..n : ~Revokes(queue[j], id)
        BY <2>3
      <3>2. \A j \in (i + 1)..(n + 1) : (j \in (i + 1)..n /\ j \in 1..n) \/ j = n + 1
        BY <1>1
      <3>3. \A j \in (i + 1)..(n + 1) : ~Revokes(new[j], id)
        BY <1>1, <1>3, <3>1, <3>2
      <3>4. i \in 1..(n + 1) /\ Grants(new[i], id)
        BY <1>1, <3>1
      <3> QED  BY <3>3, <3>4 DEF Held, n, new
    <2> QED  BY <1>3, <2>2, <2>3 DEF Held
  <1> QED  BY <1>2, <1>3 DEF n

\* Acting upon the first answer.
LEMMA HeldAtOnce ==
  ASSUME NEW models, NEW later, NEW queue \in Seq(Answers), queue # <<>>,
         NEW n \in 0..(Len(queue) - 1), NEW id,
         Grants(queue[1], id) => later[id] # Nothing,
         models[id] # Nothing /\ ~Revokes(queue[1], id) => later[id] # Nothing,
         Held(models, queue, n + 1, id)
  PROVE  Held(later, Tail(queue), n, id)
PROOF
  <1> DEFINE rest == Tail(queue)
  <1>1. n \in Nat /\ \A i \in 1..n : rest[i] = queue[i + 1] /\ i + 1 \in 1..(n + 1)
    OBVIOUS
  <1>2. 1 \in 1..(n + 1)
    OBVIOUS
  <1> HIDE DEF rest
  <1>3. CASE models[id] # Nothing /\ \A i \in 1..(n + 1) : ~Revokes(queue[i], id)
    BY <1>1, <1>2, <1>3 DEF Held, rest
  <1>4. CASE \E i \in 1..(n + 1) : /\ Grants(queue[i], id)
                                   /\ \A j \in (i + 1)..(n + 1) : ~Revokes(queue[j], id)
    <2>1. PICK i \in 1..(n + 1) : /\ Grants(queue[i], id)
                                  /\ \A j \in (i + 1)..(n + 1) : ~Revokes(queue[j], id)
      BY <1>4
    <2>2. CASE i = 1
      <3>1. \A j \in 1..n : j + 1 \in (i + 1)..(n + 1)
        BY <1>1, <2>2
      <3>2. \A j \in 1..n : ~Revokes(rest[j], id)
        BY <1>1, <2>1, <3>1
      <3> QED  BY <2>1, <2>2, <3>2 DEF Held, rest
    <2>3. CASE i # 1
      <3>1. i - 1 \in 1..n /\ rest[i - 1] = queue[i]
        BY <1>1, <2>3
      <3>2. \A j \in (i - 1 + 1)..n : j \in 1..n /\ j + 1 \in (i + 1)..(n + 1)
        BY <1>1
      <3>3. \A j \in (i - 1 + 1)..n : ~Revokes(rest[j], id)
        BY <1>1, <2>1, <3>2
      <3> QED  BY <2>1, <3>1, <3>3 DEF Held, rest
    <2> QED  BY <2>2, <2>3
  <1> QED  BY <1>3, <1>4 DEF Held

-----------------------------------------------------------------------------
\* An answer is added that leaves or brings what is sent.
LEMMA CoveredByAnswer ==
  ASSUME NEW set, NEW later, NEW models, NEW queue \in Seq(Answers), NEW a \in Answers,
         Covered(set, models, queue),
         \A id \in later : Grants(a, id) \/ (id \in set /\ ~Revokes(a, id)),
         a.op = "rows" => a.bare \subseteq set
  PROVE  Covered(later, models, Append(queue, a))
PROOF
  <1> DEFINE n == Len(queue)
             new == Append(queue, a)
  <1>1. n \in Nat /\ Len(new) = n + 1 /\ new[n + 1] = a /\ \A i \in 1..n : new[i] = queue[i]
    OBVIOUS
  <1>2. ASSUME NEW id \in later
        PROVE  Held(models, new, n + 1, id)
    BY <1>2, HeldAfterwards DEF Covered
  <1>3. ASSUME NEW j \in 1..(n + 1), new[j].op = "rows", NEW id \in new[j].bare
        PROVE  Held(models, new, j - 1, id)
    <2>1. CASE j = n + 1
      <3>1. Held(models, queue, n, id)
        BY <1>1, <1>3, <2>1 DEF Covered
      <3>2. n \in 0..Len(queue) /\ j - 1 = n
        BY <1>1, <2>1
      <3> QED  BY <3>1, <3>2, HeldBefore
    <2>2. CASE j # n + 1
      <3>1. j \in 1..n /\ j - 1 \in 0..Len(queue)
        BY <1>1, <2>2
      <3>2. Held(models, queue, j - 1, id)
        BY <1>1, <1>3, <3>1 DEF Covered
      <3> QED  BY <3>1, <3>2, HeldBefore
    <2> QED  BY <2>1, <2>2
  <1> HIDE DEF new, n
  <1>4. Covered(later, models, new)
    BY <1>1, <1>2, <1>3 DEF Covered
  <1> QED  BY <1>4 DEF new

\* The records an answer is about.
LEMMA AnswerShape ==
  ASSUME NEW a \in Answers
  PROVE  /\ a.op = "rows" => a.bare \subseteq Ids /\ a.full \in Partial(Row)
         /\ a.op = "destroyed" => a.ids \subseteq Ids
BY DEF Answers

\* The first answer is acted upon; the cache keeps what it should.
LEMMA CoveredByHandling ==
  ASSUME NEW set \in SUBSET Ids, NEW models, NEW later, NEW queue \in Seq(Answers), queue # <<>>,
         Covered(set, models, queue),
         \A id \in Ids : Grants(queue[1], id) \/ (models[id] # Nothing /\ ~Revokes(queue[1], id))
                 => later[id] # Nothing
  PROVE  Covered(set, later, Tail(queue))
PROOF
  <1> DEFINE n == Len(queue)
             rest == Tail(queue)
  <1>1. /\ n \in Nat \ {0} /\ Len(rest) = n - 1
        /\ \A i \in 1..(n - 1) : rest[i] = queue[i + 1] /\ rest[i] \in Answers
    OBVIOUS
  <1>2. ASSUME NEW m \in 0..(n - 1), NEW id \in Ids, Held(models, queue, m + 1, id)
        PROVE  Held(later, rest, m, id)
    BY <1>2, HeldAtOnce
  <1> HIDE DEF n, rest
  <1>3. ASSUME NEW id \in set
        PROVE  Held(later, rest, n - 1, id)
    <2>1. n - 1 \in 0..(n - 1) /\ n - 1 + 1 = n
      BY <1>1
    <2>2. Held(models, queue, n, id)
      BY DEF Covered, n
    <2> QED  BY <1>2, <2>1, <2>2
  <1>4. ASSUME NEW j \in 1..(n - 1), rest[j].op = "rows", NEW id \in rest[j].bare
        PROVE  Held(later, rest, j - 1, id)
    <2>1. j + 1 \in 1..n /\ j - 1 \in 0..(n - 1) /\ j + 1 - 1 = j - 1 + 1 /\ rest[j] = queue[j + 1]
      BY <1>1
    <2>2. Held(models, queue, j + 1 - 1, id)
      BY <1>4, <2>1 DEF Covered, n
    <2>3. id \in Ids
      BY <1>1, <1>4, AnswerShape
    <2> QED  BY <1>2, <2>1, <2>2, <2>3
  <1> QED  BY <1>1, <1>3, <1>4 DEF Covered, rest

-----------------------------------------------------------------------------
\* A function on some of the records.
LEMMA PartialShape ==
  ASSUME NEW S
  PROVE  /\ \A f \in Partial(S) : DOMAIN f \subseteq Ids /\ f \in [DOMAIN f -> S]
         /\ \A D \in SUBSET Ids : \A f \in [D -> S] : f \in Partial(S)
BY DEF Partial

\* A row is something.
LEMMA RowIsSomething == \A row \in Row : row # Nothing
BY NothingAssumption, BoundsAssumption DEF Row

\* The first call and the first answer have their types.
LEMMA FirstCall ==
  ASSUME TypeOK, calls # <<>>
  PROVE  /\ Head(calls) \in Calls /\ CarriesRaws(Head(calls))
         /\ Tail(calls) \in Seq(Calls)
         /\ \A i \in 1..Len(Tail(calls)) : CarriesRaws(Tail(calls)[i])
PROOF
  <1>1. calls \in Seq(Calls) /\ \A i \in 1..Len(calls) : CarriesRaws(calls[i])
    BY DEF TypeOK
  <1>2. /\ Head(calls) = calls[1] /\ 1 \in 1..Len(calls)
        /\ \A i \in 1..Len(Tail(calls)) : Tail(calls)[i] = calls[i + 1] /\ i + 1 \in 1..Len(calls)
    BY <1>1
  <1> QED  BY <1>1, <1>2

\* The answer acted upon, and the ones left.
LEMMA DueAnswer ==
  ASSUME TypeOK, NEW i, Due(i)
  PROVE  /\ i \in 1..Len(answers) /\ answers[i] \in Answers /\ CarriesRaws(answers[i])
         /\ Without(i) \in Seq(Answers)
         /\ \A j \in 1..Len(Without(i)) : CarriesRaws(Without(i)[j])
PROOF
  <1> DEFINE n == Len(answers)
  <1>1. /\ answers \in Seq(Answers) /\ \A j \in 1..n : CarriesRaws(answers[j])
        /\ n \in Nat /\ i \in 1..n
    BY DEF TypeOK, Due
  <1>2. \A j \in 1..n : answers[j] \in Answers
    BY <1>1
  <1> HIDE DEF n
  <1>3. \A j \in 1..(n - 1) : j \in 1..n /\ j + 1 \in 1..n
    BY <1>1
  <1>4. \A j \in 1..(n - 1) : \E k \in 1..n : Without(i)[j] = answers[k]
    BY <1>3 DEF Without, n
  <1>5. Without(i) \in [1..(n - 1) -> Answers]
    BY <1>2, <1>3 DEF Without, n
  <1>6. n - 1 \in Nat /\ Len(Without(i)) = n - 1 /\ Without(i) \in Seq(Answers)
    BY <1>1, <1>5
  <1> QED  BY <1>1, <1>2, <1>4, <1>6 DEF n

\* With a driver that answers later, the first answer is the one acted upon.
LEMMA FirstAnswer ==
  ASSUME TypeOK, ~AtOnce, NEW i, Due(i)
  PROVE  i = 1 /\ answers # <<>> /\ Without(i) = Tail(answers)
PROOF
  <1>1. i = 1 /\ answers \in Seq(Answers) /\ 1 \in 1..Len(answers)
    BY DEF TypeOK, Due
  <1>2. Without(1) \in Seq(Answers)
    BY <1>1, DueAnswer
  <1>3. Tail(answers) \in Seq(Answers) /\ Len(Tail(answers)) = Len(answers) - 1
    BY <1>1
  <1>4. Len(Without(1)) = Len(answers) - 1
    BY <1>1, <1>2 DEF Without
  <1>5. \A j \in 1..(Len(answers) - 1) : Without(1)[j] = Tail(answers)[j]
    BY <1>1 DEF Without
  <1>6. Without(1) = Tail(answers)
    BY <1>2, <1>3, <1>4, <1>5, SeqEqual
  <1> QED  BY <1>1, <1>6

\* The records and the raws of a batch.
LEMMA BatchShape ==
  ASSUME NEW m, m.op = "batch", m \in Calls \/ m \in Answers, CarriesRaws(m)
  PROVE  /\ DOMAIN m.kinds \subseteq Ids
         /\ m.kinds \in Partial(Kinds) /\ m.raws \in Partial(Row)
         /\ \A id \in DOMAIN m.kinds :
              /\ m.kinds[id] \in Kinds
              /\ m.kinds[id] \in {"create", "update"} => m.raws[id] \in Row
         /\ \A k : Of(m, k) \subseteq Ids
         /\ \A id \in Of(m, "create") : m.raws[id] \in Row /\ id \notin Removed(m)
PROOF
  <1>1. m.kinds \in Partial(Kinds) /\ m.raws \in Partial(Row)
    BY DEF Calls, Answers
  <1>2. DOMAIN m.kinds \subseteq Ids /\ m.kinds \in [DOMAIN m.kinds -> Kinds]
    BY <1>1, PartialShape
  <1>3. DOMAIN m.raws \subseteq Ids /\ m.raws \in [DOMAIN m.raws -> Row]
    BY <1>1, PartialShape
  <1>4. DOMAIN m.raws = {id \in DOMAIN m.kinds : m.kinds[id] \in {"create", "update"}}
    BY DEF CarriesRaws
  <1>5. \A id \in DOMAIN m.kinds :
          /\ m.kinds[id] \in Kinds
          /\ m.kinds[id] \in {"create", "update"} => m.raws[id] \in Row
    BY <1>2, <1>3, <1>4
  <1> QED  BY <1>1, <1>2, <1>5 DEF Of, Removed

\* One more call, or one more answer.
LEMMA MessageTyped ==
  ASSUME TypeOK
  PROVE  /\ \A m \in Calls : CarriesRaws(m) =>
              /\ Append(calls, m) \in Seq(Calls)
              /\ \A i \in 1..Len(Append(calls, m)) : CarriesRaws(Append(calls, m)[i])
         /\ \A a \in Answers : CarriesRaws(a) =>
              /\ Append(answers, a) \in Seq(Answers)
              /\ \A i \in 1..Len(Append(answers, a)) : CarriesRaws(Append(answers, a)[i])
PROOF
  <1>1. ASSUME NEW S, NEW q \in Seq(S), NEW m \in S, CarriesRaws(m),
               \A i \in 1..Len(q) : CarriesRaws(q[i])
        PROVE  /\ Append(q, m) \in Seq(S)
               /\ \A i \in 1..Len(Append(q, m)) : CarriesRaws(Append(q, m)[i])
    <2>1. \A i \in 1..Len(Append(q, m)) : Append(q, m)[i] = m \/ (i \in 1..Len(q) /\ Append(q, m)[i] = q[i])
      OBVIOUS
    <2> QED  BY <1>1, <2>1
  <1> QED  BY <1>1 DEF TypeOK

\* What JavaScript's batches make of the Models.
LEMMA PreparedTyped ==
  ASSUME TypeOK, NEW ids \in SUBSET Ids, NEW kinds \in [ids -> Kinds], Batch(kinds)
  PROVE  /\ Raws(kinds) \in Partial(Row)
         /\ Prepared(kinds) \in [Ids -> Row \cup {Nothing}]
         /\ \A id \in Ids : cache[id] # Nothing => Prepared(kinds)[id] # Nothing
PROOF
  <1>1. clock + 1 \in 1..MaxVersion
    BY BoundsAssumption DEF TypeOK, Batch
  <1>2. \A id \in ids : kinds[id] # "create" => cache[id] \in Row
    BY DEF Batch, Cached, TypeOK
  <1>3. \A id \in {i \in ids : kinds[i] \in {"create", "update"}} :
          [at |-> clock + 1, deleted |-> kinds[id] = "update" /\ cache[id].deleted] \in Row
    BY <1>1, <1>2 DEF Row
  <1>4. Raws(kinds) \in [{i \in ids : kinds[i] \in {"create", "update"}} -> Row]
    BY <1>3 DEF Raws
  <1>5. Raws(kinds) \in Partial(Row)
    BY <1>4, PartialShape
  <1>6. ASSUME NEW id \in Ids
        PROVE  /\ Prepared(kinds)[id] \in Row \cup {Nothing}
               /\ cache[id] # Nothing => Prepared(kinds)[id] # Nothing
    <2>1. CASE id \notin ids \/ kinds[id] = "create"
      BY <2>1 DEF Prepared, TypeOK
    <2>2. CASE id \in ids /\ kinds[id] = "update"
      BY <1>4, <2>2, RowIsSomething DEF Prepared
    <2>3. CASE id \in ids /\ kinds[id] \notin {"create", "update"}
      <3>1. [cache[id] EXCEPT !.deleted = TRUE] \in Row
        BY <1>2, <2>3 DEF Row
      <3> QED  BY <2>3, <3>1, RowIsSomething DEF Prepared
    <2> QED  BY <2>1, <2>2, <2>3
  <1> QED  BY <1>5, <1>6 DEF Prepared

\* An answer to a query, or to a find.
LEMMA RowsAnswerTyped ==
  ASSUME TypeOK, NEW found \in SUBSET Ids, \A id \in found \ sent : rows[id] # Nothing
  PROVE  RowsAnswer(found) \in Answers
PROOF
  <1>1. [id \in found \ sent |-> rows[id]] \in [found \ sent -> Row]
    BY DEF TypeOK
  <1>2. [id \in found \ sent |-> rows[id]] \in Partial(Row)
    BY <1>1, PartialShape
  <1> QED  BY <1>2 DEF RowsAnswer, Answers, TypeOK

\* The rows after a batch.
LEMMA WrittenTyped ==
  ASSUME TypeOK, NEW b \in Calls, b.op = "batch", CarriesRaws(b)
  PROVE  Written(b) \in [Ids -> Row \cup {Nothing}]
PROOF
  <1>1. \A id \in DOMAIN b.kinds :
          /\ b.kinds[id] \in Kinds
          /\ b.kinds[id] \in {"create", "update"} => b.raws[id] \in Row
    BY BatchShape
  <1>2. \A id \in Ids : rows[id] # Nothing => [rows[id] EXCEPT !.deleted = TRUE] \in Row
    BY DEF TypeOK, Row
  <1> QED  BY <1>1, <1>2 DEF Written, TypeOK

\* A message of a batch has a place among the calls, and one of it among the
\* answers.
LEMMA BatchMessages ==
  ASSUME NEW kinds \in Partial(Kinds), NEW raws \in Partial(Row), NEW ok \in BOOLEAN
  PROVE  /\ [op |-> "batch", kinds |-> kinds, raws |-> raws] \in Calls
         /\ [op |-> "batch", kinds |-> kinds, raws |-> raws, ok |-> ok] \in Answers
BY DEF Calls, Answers

\* The records a call is about.
LEMMA CallShape ==
  ASSUME NEW m \in Calls
  PROVE  /\ m.op \in {"query", "find", "destroyDeleted", "destroyMatching"} => m.ids \subseteq Ids
         /\ m.op = "destroyMatching" => m.permanently \in BOOLEAN
BY DEF Calls

-----------------------------------------------------------------------------
\* Every step keeps the types, whatever the driver.
LEMMA TypeStep == TypeOK /\ [Next]_vars => TypeOK'
PROOF
  <1> SUFFICES ASSUME TypeOK, [Next]_vars
               PROVE  TypeOK'
    OBVIOUS
  <1> DEFINE AreCalls(q) == q \in Seq(Calls) /\ \A i \in 1..Len(q) : CarriesRaws(q[i])
             AreAnswers(q) == q \in Seq(Answers) /\ \A i \in 1..Len(q) : CarriesRaws(q[i])
             Kept == /\ rows' \in [Ids -> Row \cup {Nothing}]
                     /\ cache' \in [Ids -> Row \cup {Nothing}]
                     /\ sent' \subseteq Ids /\ reported' \subseteq Ids /\ apart' \subseteq Ids
                     /\ revived' \subseteq Ids
                     /\ stale' \in BOOLEAN /\ clock' \in 0..MaxVersion
                     /\ AreCalls(calls') /\ AreAnswers(answers')
  <1>1. /\ rows \in [Ids -> Row \cup {Nothing}] /\ cache \in [Ids -> Row \cup {Nothing}]
        /\ sent \subseteq Ids /\ reported \subseteq Ids /\ apart \subseteq Ids
        /\ revived \subseteq Ids
        /\ stale \in BOOLEAN /\ clock \in 0..MaxVersion
        /\ AreCalls(calls) /\ AreAnswers(answers)
    BY DEF TypeOK
  <1>2. SUFFICES Kept
    BY DEF TypeOK, CarriesRaws, Calls, Answers, Row, Partial
  <1>3. \A m \in Calls : CarriesRaws(m) => AreCalls(Append(calls, m))
    BY MessageTyped
  <1>4. \A a \in Answers : CarriesRaws(a) => AreAnswers(Append(answers, a))
    BY MessageTyped
  <1>5. calls # <<>> => Head(calls) \in Calls /\ CarriesRaws(Head(calls)) /\ AreCalls(Tail(calls))
    BY FirstCall
  <1>6. \A i : Due(i) => answers[i] \in Answers /\ CarriesRaws(answers[i]) /\ AreAnswers(Without(i))
    BY DueAnswer
  <1>7. \A id \in Ids : rows[id] # Nothing => [rows[id] EXCEPT !.deleted = TRUE] \in Row
    BY <1>1 DEF Row
  <1> HIDE DEF AreCalls, AreAnswers
  <1>8. ASSUME NEW ids \in SUBSET Ids, Fetch(ids)
        PROVE  Kept
    <2>1. [op |-> "query", ids |-> ids] \in Calls /\ CarriesRaws([op |-> "query", ids |-> ids])
      BY DEF Calls, CarriesRaws
    <2> QED  BY <1>1, <1>3, <1>8, <2>1 DEF Fetch, Call
  <1>9. ASSUME NEW id \in Ids, Find(id)
        PROVE  Kept
    <2>1. [op |-> "find", ids |-> {id}] \in Calls /\ CarriesRaws([op |-> "find", ids |-> {id}])
      BY DEF Calls, CarriesRaws
    <2> QED  BY <1>1, <1>3, <1>9, <2>1 DEF Find, Call
  <1>10. ASSUME NEW ids \in SUBSET Ids, NEW kinds \in [ids -> Kinds], Batch(kinds)
         PROVE  Kept
    <2> DEFINE m == [op |-> "batch", kinds |-> kinds, raws |-> Raws(kinds)]
    <2>1. Raws(kinds) \in Partial(Row) /\ Prepared(kinds) \in [Ids -> Row \cup {Nothing}]
      BY <1>10, PreparedTyped
    <2>2. m \in Calls
      BY <2>1, PartialShape, BatchMessages
    <2>3. CarriesRaws(m)
      BY DEF CarriesRaws, Raws
    <2>4. clock + 1 \in 0..MaxVersion
      BY <1>1, <1>10, BoundsAssumption DEF Batch
    <2>5. revived' \subseteq Ids
      BY <1>1, <1>10 DEF Batch
    <2> QED  BY <1>1, <1>3, <1>10, <2>1, <2>2, <2>3, <2>4, <2>5 DEF Batch, Call
  <1>11. ASSUME NEW ids \in SUBSET Ids, NEW permanently \in BOOLEAN, MassDestroy(ids, permanently)
         PROVE  Kept
    <2> DEFINE m == [op |-> "destroyMatching", ids |-> ids, permanently |-> permanently]
    <2>1. m \in Calls /\ CarriesRaws(m)
      BY DEF Calls, CarriesRaws
    <2> QED  BY <1>1, <1>3, <1>11, <2>1 DEF MassDestroy, Call
  <1>12. ASSUME NEW ids \in SUBSET Ids, DestroyDeleted(ids)
         PROVE  Kept
    <2> DEFINE m == [op |-> "destroyDeleted", ids |-> ids]
    <2>1. m \in Calls /\ CarriesRaws(m)
      BY DEF Calls, CarriesRaws
    <2> QED  BY <1>1, <1>3, <1>12, <2>1 DEF DestroyDeleted, Call
  <1>13. CASE Reset
    <2>1. [op |-> "reset"] \in Calls /\ CarriesRaws([op |-> "reset"])
      BY DEF Calls, CarriesRaws
    <2> QED  BY <1>1, <1>3, <1>13, <2>1 DEF Reset, Call
  <1>14. CASE ServeQuery
    <2> DEFINE found == Head(calls).ids \cap Live
    <2>1. found \in SUBSET Ids /\ \A id \in found : rows[id] # Nothing
      BY DEF Live
    <2>2. RowsAnswer(found) \in Answers /\ CarriesRaws(RowsAnswer(found))
      <3>1. RowsAnswer(found) \in Answers
        BY <2>1, RowsAnswerTyped
      <3> QED  BY <3>1 DEF CarriesRaws, RowsAnswer
    <2>3. sent \cup found \subseteq Ids
      BY <1>1, <2>1
    <2> QED  BY <1>1, <1>4, <1>5, <1>14, <2>2, <2>3 DEF ServeQuery, Serving, Answer
  <1>15. CASE ServeFind
    <2> DEFINE found == {id \in Head(calls).ids : id \in sent \/ rows[id] # Nothing}
    <2>1. found \in SUBSET Ids /\ \A id \in found \ sent : rows[id] # Nothing
      BY <1>5, <1>15, CallShape DEF ServeFind, Serving
    <2>2. RowsAnswer(found) \in Answers /\ CarriesRaws(RowsAnswer(found))
      <3>1. RowsAnswer(found) \in Answers
        BY <2>1, RowsAnswerTyped
      <3> QED  BY <3>1 DEF CarriesRaws, RowsAnswer
    <2>3. sent \cup found \subseteq Ids
      BY <1>1, <2>1
    <2> QED  BY <1>1, <1>4, <1>5, <1>15, <2>2, <2>3 DEF ServeFind, Serving, Answer
  <1>16. CASE ServeBatch
    <2> DEFINE b == Head(calls)
               a(ok) == [op |-> "batch", kinds |-> b.kinds, raws |-> b.raws, ok |-> ok]
    <2>1. b \in Calls /\ CarriesRaws(b) /\ b.op = "batch" /\ calls' = Tail(calls)
      BY <1>5, <1>16 DEF ServeBatch, Serving
    <2>2. /\ b.kinds \in Partial(Kinds) /\ b.raws \in Partial(Row) /\ DOMAIN b.kinds \subseteq Ids
          /\ \A k : Of(b, k) \subseteq Ids
      BY <2>1, BatchShape
    <2>3. \A ok \in BOOLEAN : a(ok) \in Answers /\ CarriesRaws(a(ok))
      <3>1. \A ok \in BOOLEAN : a(ok) \in Answers
        BY <2>2, BatchMessages
      <3> QED  BY <2>1, <3>1 DEF CarriesRaws
    <2>4. Written(b) \in [Ids -> Row \cup {Nothing}] /\ SentAfter(b) \subseteq Ids
      <3>1. SentAfter(b) \subseteq Ids
        BY <1>1, <2>2 DEF SentAfter
      <3> QED  BY <2>1, <3>1, WrittenTyped
    <2>5. PICK ok \in BOOLEAN :
            /\ answers' = Append(answers, a(ok))
            /\ rows' = IF ok THEN Written(b) ELSE rows
            /\ sent' = IF ok THEN SentAfter(b) ELSE sent
            /\ apart' = IF ok THEN apart \ {id \in DOMAIN b.kinds : rows'[id] # Nothing}
                        ELSE apart \cup (DOMAIN b.kinds \ Of(b, "create"))
      BY <1>16 DEF ServeBatch, Answer
    <2>6. AreAnswers(answers')
      BY <1>4, <2>3, <2>5
    <2>7. AreCalls(calls')
      BY <1>5, <1>16, <2>1 DEF ServeBatch, Serving
    <2>8. rows' \in [Ids -> Row \cup {Nothing}] /\ sent' \subseteq Ids /\ apart' \subseteq Ids
      BY <1>1, <2>2, <2>4, <2>5
    <2> QED  BY <1>1, <1>16, <2>6, <2>7, <2>8 DEF ServeBatch
  <1>17. CASE ServeDestroyMatching
    <2> DEFINE m == Head(calls)
               found == m.ids \cap Live
    <2>1. found \subseteq Ids /\ \A id \in found : rows[id] # Nothing
      BY DEF Live
    <2>2. [op |-> "destroyed", ids |-> found] \in Answers /\ CarriesRaws([op |-> "destroyed", ids |-> found])
      BY <2>1 DEF Answers, CarriesRaws
    <2>3. /\ rows' = [id \in Ids |->
                        IF id \notin found THEN rows[id]
                        ELSE IF m.permanently THEN Nothing
                        ELSE [rows[id] EXCEPT !.deleted = TRUE]]
          /\ answers' = Append(answers, [op |-> "destroyed", ids |-> found])
          /\ sent' = sent \ found /\ calls' = Tail(calls) /\ calls # <<>>
          /\ UNCHANGED <<cache, stale, reported, apart, revived, clock>>
      BY <1>17 DEF ServeDestroyMatching, Serving, Answer
    <2>4. rows' \in [Ids -> Row \cup {Nothing}]
      BY <1>1, <1>7, <2>1, <2>3
    <2> HIDE DEF found
    <2> QED  BY <1>1, <1>4, <1>5, <2>2, <2>3, <2>4
  <1>18. CASE ServeDestroyDeleted
    BY <1>1, <1>5, <1>18 DEF ServeDestroyDeleted, Serving
  <1>19. CASE ServeReset
    <2>1. [op |-> "reset"] \in Answers /\ CarriesRaws([op |-> "reset"])
      BY DEF Answers, CarriesRaws
    <2> QED  BY <1>1, <1>4, <1>5, <1>19, <2>1 DEF ServeReset, Serving, Answer
  <1>20. ASSUME NEW i, HandleRows(i)
         PROVE  Kept
    <2> DEFINE a == answers[i]
    <2>1. a.bare \subseteq Ids /\ DOMAIN a.full \subseteq Ids /\ a.full \in [DOMAIN a.full -> Row]
      BY <1>6, <1>20, AnswerShape, PartialShape DEF HandleRows
    <2>2. PICK built \in SUBSET DOMAIN a.full :
            cache' = [id \in Ids |->
                        IF id \in built /\ cache[id] = Nothing THEN a.full[id] ELSE cache[id]]
      BY <1>20 DEF HandleRows
    <2>3. cache' \in [Ids -> Row \cup {Nothing}]
      BY <1>1, <2>1, <2>2
    <2>4. reported' \subseteq Ids
      BY <1>1, <1>20, <2>1 DEF HandleRows
    <2> QED  BY <1>1, <1>6, <1>20, <2>3, <2>4 DEF HandleRows
  <1>21. ASSUME NEW i, HandleBatch(i)
         PROVE  Kept
    <2> DEFINE a == answers[i]
    <2>1. a \in Answers /\ CarriesRaws(a) /\ a.op = "batch"
      BY <1>6, <1>21 DEF HandleBatch
    <2>2. \A id \in Of(a, "create") : a.raws[id] \in Row
      BY <2>1, BatchShape
    <2>3. cache' \in [Ids -> Row \cup {Nothing}]
      BY <1>1, <1>21, <2>2 DEF HandleBatch, Applied
    <2> QED  BY <1>1, <1>6, <1>21, <2>3 DEF HandleBatch
  <1>22. ASSUME NEW i, HandleDestroyed(i)
         PROVE  Kept
    <2>1. cache' \in [Ids -> Row \cup {Nothing}]
      BY <1>1, <1>22 DEF HandleDestroyed
    <2> QED  BY <1>1, <1>6, <1>22, <2>1 DEF HandleDestroyed
  <1>23. ASSUME NEW i, HandleReset(i)
         PROVE  Kept
    BY <1>1, <1>6, <1>23 DEF HandleReset, ClearedCache
  <1>24. ASSUME NEW id \in Ids, OtherCommits(id)
         PROVE  Kept
    <2>1. clock + 1 \in 1..MaxVersion
      BY <1>1, <1>24, BoundsAssumption DEF OtherCommits
    <2>2. rows' \in [Ids -> Row \cup {Nothing}]
      <3>1. [at : {clock + 1}, deleted : BOOLEAN] \subseteq Row
        BY <2>1 DEF Row
      <3> QED  BY <1>1, <1>24, <3>1 DEF OtherCommits
    <2> QED  BY <1>1, <1>24, <2>1, <2>2 DEF OtherCommits
  <1>25. CASE Invalidate
    BY <1>1, <1>25 DEF Invalidate
  <1>26. CASE UNCHANGED vars
    BY <1>1, <1>26 DEF vars
  <1> HIDE DEF Kept
  <1> QED
    BY <1>8, <1>9, <1>10, <1>11, <1>12, <1>13, <1>14, <1>15, <1>16, <1>17, <1>18, <1>19,
       <1>20, <1>21, <1>22, <1>23, <1>24, <1>25, <1>26 DEF Next

-----------------------------------------------------------------------------
\* What the driver may have said stays covered, and no id comes bare without
\* a Model: the three kinds of steps.
LEMMA CoverAfterCall ==
  ASSUME TypeOK, Covered(sent, cache, answers), NothingMissing,
         \/ \E ids \in SUBSET Ids : Fetch(ids) \/ DestroyDeleted(ids)
         \/ \E id \in Ids : Find(id) \/ OtherCommits(id)
         \/ \E ids \in SUBSET Ids : \E kinds \in [ids -> Kinds] : Batch(kinds)
         \/ \E ids \in SUBSET Ids : \E permanently \in BOOLEAN : MassDestroy(ids, permanently)
         \/ Reset \/ Invalidate \/ UNCHANGED vars
  PROVE  Covered(sent, cache, answers)' /\ NothingMissing'
PROOF
  <1> USE DEF NothingMissing
  <1>1. CASE UNCHANGED <<sent, cache, answers, reported>>
    BY <1>1 DEF Covered, Held, Grants, Revokes, Of, Removed
  <1>2. CASE Invalidate
    <2>1. sent' = {} /\ UNCHANGED <<cache, answers, reported>>
      BY <1>2 DEF Invalidate
    <2>2. Covered({}, cache, answers)
      BY DEF Covered
    <2> QED  BY <2>1, <2>2
  <1>3. ASSUME NEW ids \in SUBSET Ids, NEW kinds \in [ids -> Kinds], Batch(kinds)
        PROVE  Covered(sent, cache, answers)' /\ NothingMissing'
    <2>1. cache' = Prepared(kinds) /\ UNCHANGED <<sent, answers, reported>>
      BY <1>3 DEF Batch
    <2>2. \A id \in Ids : cache[id] # Nothing => cache'[id] # Nothing
      BY <1>3, <2>1, PreparedTyped
    <2>3. sent \subseteq Ids /\ answers \in Seq(Answers)
      BY DEF TypeOK
    <2>4. \A n \in Nat : \A id \in Ids : Held(cache, answers, n, id) => Held(cache', answers, n, id)
      BY <2>2, HeldGrows
    <2>5. Len(answers) \in Nat /\ \A j \in 1..Len(answers) : answers[j] \in Answers /\ j - 1 \in Nat
      BY <2>3
    <2>6. \A j \in 1..Len(answers) : answers[j].op = "rows" => answers[j].bare \subseteq Ids
      BY <2>5, AnswerShape
    <2>7. Covered(sent, cache', answers)
      BY <2>3, <2>4, <2>5, <2>6 DEF Covered
    <2> QED  BY <2>1, <2>7
  <1>4. CASE \/ \E ids \in SUBSET Ids : Fetch(ids) \/ DestroyDeleted(ids)
             \/ \E id \in Ids : Find(id) \/ OtherCommits(id)
             \/ \E ids \in SUBSET Ids : \E permanently \in BOOLEAN : MassDestroy(ids, permanently)
             \/ Reset \/ UNCHANGED vars
    BY <1>1, <1>4 DEF Fetch, DestroyDeleted, Find, OtherCommits, MassDestroy, Reset, vars
  <1> QED  BY <1>2, <1>3, <1>4

\* Each call the driver serves.
LEMMA CoverAfterServe ==
  ASSUME TypeOK, Covered(sent, cache, answers), NothingMissing,
         \/ ServeQuery \/ ServeFind \/ ServeBatch
         \/ ServeDestroyMatching \/ ServeDestroyDeleted \/ ServeReset
  PROVE  Covered(sent, cache, answers)' /\ NothingMissing'
PROOF
  <1> USE DEF NothingMissing
  <1>1. answers \in Seq(Answers)
    BY DEF TypeOK
  <1>2. calls # <<>> => Head(calls) \in Calls /\ CarriesRaws(Head(calls))
    BY FirstCall
  <1>3. ASSUME NEW found \in SUBSET Ids, \A id \in found \ sent : rows[id] # Nothing
        PROVE  Covered(sent \cup found, cache, Append(answers, RowsAnswer(found)))
    <2>1. RowsAnswer(found) \in Answers
      BY <1>3, RowsAnswerTyped
    <2>2. \A id \in sent \cup found :
            Grants(RowsAnswer(found), id) \/ (id \in sent /\ ~Revokes(RowsAnswer(found), id))
      BY DEF Grants, Revokes, RowsAnswer
    <2>3. RowsAnswer(found).bare \subseteq sent
      BY DEF RowsAnswer
    <2> QED  BY <1>1, <2>1, <2>2, <2>3, CoveredByAnswer
  <1>4. CASE ServeQuery
    <2> DEFINE found == Head(calls).ids \cap Live
    <2>1. found \in SUBSET Ids /\ \A id \in found \ sent : rows[id] # Nothing
      BY DEF Live
    <2>2. /\ answers' = Append(answers, RowsAnswer(found)) /\ sent' = sent \cup found
          /\ UNCHANGED <<cache, reported>>
      BY <1>4 DEF ServeQuery, Answer
    <2> HIDE DEF found
    <2>3. Covered(sent \cup found, cache, Append(answers, RowsAnswer(found)))
      BY <1>3, <2>1
    <2> QED  BY <2>2, <2>3
  <1>5. CASE ServeFind
    <2> DEFINE found == {id \in Head(calls).ids : id \in sent \/ rows[id] # Nothing}
    <2>1. found \in SUBSET Ids /\ \A id \in found \ sent : rows[id] # Nothing
      BY <1>2, <1>5, CallShape DEF ServeFind, Serving
    <2>2. /\ answers' = Append(answers, RowsAnswer(found)) /\ sent' = sent \cup found
          /\ UNCHANGED <<cache, reported>>
      BY <1>5 DEF ServeFind, Answer
    <2> HIDE DEF found
    <2>3. Covered(sent \cup found, cache, Append(answers, RowsAnswer(found)))
      BY <1>3, <2>1
    <2> QED  BY <2>2, <2>3
  <1>6. CASE ServeBatch
    <2> DEFINE b == Head(calls)
               a(ok) == [op |-> "batch", kinds |-> b.kinds, raws |-> b.raws, ok |-> ok]
               later(ok) == IF ok THEN SentAfter(b) ELSE sent
    <2>1. b \in Calls /\ CarriesRaws(b) /\ b.op = "batch"
      BY <1>2, <1>6 DEF ServeBatch, Serving
    <2>2. b.kinds \in Partial(Kinds) /\ b.raws \in Partial(Row)
      BY <2>1, BatchShape
    <2>3. PICK ok \in BOOLEAN : answers' = Append(answers, a(ok)) /\ sent' = later(ok)
      BY <1>6 DEF ServeBatch, Answer
    <2>4. a(ok) \in Answers
      BY <2>2, BatchMessages
    <2>5. \A id \in later(ok) : Grants(a(ok), id) \/ (id \in sent /\ ~Revokes(a(ok), id))
      BY DEF Grants, Revokes, SentAfter, Removed, Of
    <2>6. a(ok).op # "rows" /\ UNCHANGED <<cache, reported>>
      BY <1>6 DEF ServeBatch
    <2> HIDE DEF a, later
    <2>7. Covered(later(ok), cache, Append(answers, a(ok)))
      BY <1>1, <2>4, <2>5, <2>6, CoveredByAnswer
    <2> QED  BY <2>3, <2>6, <2>7
  <1>7. CASE ServeDestroyMatching
    <2> DEFINE found == Head(calls).ids \cap Live
               a == [op |-> "destroyed", ids |-> found]
    <2>1. a \in Answers
      BY DEF Answers, Live
    <2>2. \A id \in sent \ found : Grants(a, id) \/ (id \in sent /\ ~Revokes(a, id))
      BY DEF Revokes
    <2>3. a.op # "rows" /\ answers' = Append(answers, a) /\ sent' = sent \ found
          /\ UNCHANGED <<cache, reported>>
      BY <1>7 DEF ServeDestroyMatching, Answer
    <2> HIDE DEF found, a
    <2>4. Covered(sent \ found, cache, Append(answers, a))
      BY <1>1, <2>1, <2>2, <2>3, CoveredByAnswer
    <2> QED  BY <2>3, <2>4
  <1>8. CASE ServeDestroyDeleted
    BY <1>8 DEF ServeDestroyDeleted
  <1>9. CASE ServeReset
    <2> DEFINE a == [op |-> "reset"]
    <2>1. a \in Answers
      BY DEF Answers
    <2>2. a.op # "rows" /\ answers' = Append(answers, a) /\ sent' = {}
          /\ UNCHANGED <<cache, reported>>
      BY <1>9 DEF ServeReset, Answer
    <2> HIDE DEF a
    <2>3. Covered({}, cache, Append(answers, a))
      BY <1>1, <2>1, <2>2, CoveredByAnswer
    <2> QED  BY <2>2, <2>3
  <1> QED  BY <1>4, <1>5, <1>6, <1>7, <1>8, <1>9

\* Each answer JavaScript acts upon; the bare ids of a first answer have
\* their Models already.
LEMMA CoverAfterHandle ==
  ASSUME TypeOK, ~AtOnce, Covered(sent, cache, answers), NothingMissing, NEW i,
         HandleRows(i) \/ HandleBatch(i) \/ HandleDestroyed(i) \/ HandleReset(i)
  PROVE  Covered(sent, cache, answers)' /\ NothingMissing'
PROOF
  <1> USE DEF NothingMissing
  <1> DEFINE a == answers[1]
             Kept == \A id \in Ids : Grants(a, id) \/ (cache[id] # Nothing /\ ~Revokes(a, id))
                                     => cache'[id] # Nothing
  <1>1. Due(i)
    BY DEF HandleRows, HandleBatch, HandleDestroyed, HandleReset
  <1>2. i = 1 /\ answers # <<>> /\ answers' = Tail(answers) /\ UNCHANGED sent
    BY <1>1, FirstAnswer DEF HandleRows, HandleBatch, HandleDestroyed, HandleReset
  <1>3. a \in Answers /\ CarriesRaws(a) /\ 1 \in 1..Len(answers)
    BY <1>1, <1>2, DueAnswer
  <1>4. answers \in Seq(Answers) /\ sent \in SUBSET Ids /\ cache \in [Ids -> Row \cup {Nothing}]
    BY DEF TypeOK
  <1> HIDE DEF a
  <1>5. SUFFICES Kept /\ reported' = {}
    <2>1. ASSUME Kept
          PROVE  Covered(sent, cache', Tail(answers))
      BY <1>2, <1>4, <2>1, CoveredByHandling DEF a
    <2> HIDE DEF Kept
    <2> QED  BY <1>2, <2>1
  <1>6. CASE HandleRows(i)
    <2>1. a.op = "rows"
      BY <1>2, <1>6 DEF HandleRows, a
    <2>2. a.bare \subseteq Ids /\ DOMAIN a.full \subseteq Ids /\ a.full \in [DOMAIN a.full -> Row]
      BY <1>3, <2>1, AnswerShape, PartialShape
    <2>3. \A id \in a.bare : cache[id] # Nothing
      BY <1>3, <2>1 DEF Covered, Held, a
    <2>4. a.bare \ Cached = {}
      BY <2>2, <2>3 DEF Cached
    <2>5. cache' = [id \in Ids |->
                      IF id \in DOMAIN a.full /\ cache[id] = Nothing THEN a.full[id] ELSE cache[id]]
      BY <1>2, <1>6, <2>4 DEF HandleRows, a
    <2>6. reported' = {}
      BY <1>2, <1>6, <2>4 DEF HandleRows, a
    <2>7. \A id \in DOMAIN a.full : a.full[id] # Nothing
      BY <2>2, RowIsSomething
    <2> QED  BY <2>1, <2>5, <2>6, <2>7 DEF Grants
  <1>7. CASE HandleBatch(i)
    <2>1. a.op = "batch" /\ cache' = (IF a.ok THEN Applied(a) ELSE cache) /\ reported' = {}
      BY <1>2, <1>7 DEF HandleBatch, a
    <2>2. \A id \in Of(a, "create") : a.raws[id] # Nothing
      BY <1>3, <2>1, BatchShape, RowIsSomething
    <2> QED  BY <2>1, <2>2 DEF Grants, Revokes, Applied
  <1>8. CASE HandleDestroyed(i)
    BY <1>2, <1>8 DEF HandleDestroyed, Grants, Revokes, a
  <1>9. CASE HandleReset(i)
    BY <1>2, <1>9 DEF HandleReset, Grants, Revokes, a
  <1> QED  BY <1>6, <1>7, <1>8, <1>9

-----------------------------------------------------------------------------
\* Every step over a driver that answers later keeps the invariant.
LEMMA Invariance ==
  ASSUME ~AtOnce
  PROVE  IInv /\ [Next]_vars => IInv'
PROOF
  <1> SUFFICES ASSUME IInv, [Next]_vars
               PROVE  IInv'
    OBVIOUS
  <1>1. TypeOK /\ Covered(sent, cache, answers) /\ NothingMissing
    BY DEF IInv
  <1>2. TypeOK'
    BY <1>1, TypeStep
  <1>3. CASE \/ \E ids \in SUBSET Ids : Fetch(ids) \/ DestroyDeleted(ids)
             \/ \E id \in Ids : Find(id) \/ OtherCommits(id)
             \/ \E ids \in SUBSET Ids : \E kinds \in [ids -> Kinds] : Batch(kinds)
             \/ \E ids \in SUBSET Ids : \E permanently \in BOOLEAN : MassDestroy(ids, permanently)
             \/ Reset \/ Invalidate \/ UNCHANGED vars
    BY <1>1, <1>2, <1>3, CoverAfterCall DEF IInv
  <1>4. CASE \/ ServeQuery \/ ServeFind \/ ServeBatch
             \/ ServeDestroyMatching \/ ServeDestroyDeleted \/ ServeReset
    BY <1>1, <1>2, <1>4, CoverAfterServe DEF IInv
  <1>5. CASE \E i \in 1..Len(answers) :
               HandleRows(i) \/ HandleBatch(i) \/ HandleDestroyed(i) \/ HandleReset(i)
    BY <1>1, <1>2, <1>5, CoverAfterHandle DEF IInv
  <1> QED  BY <1>3, <1>4, <1>5 DEF Next

\* At first nothing is sent and nothing is on its way.
LEMMA Beginning == Init => TypeOK /\ IInv
PROOF
  <1> SUFFICES ASSUME Init
               PROVE  TypeOK /\ Covered(sent, cache, answers) /\ NothingMissing
    BY DEF IInv
  <1>1. TypeOK
    <2>1. calls \in Seq(Calls) /\ Len(calls) = 0 /\ answers \in Seq(Answers) /\ Len(answers) = 0
      BY DEF Init
    <2>2. \A i \in 1..0 : FALSE
      OBVIOUS
    <2>3. clock \in 0..MaxVersion
      BY BoundsAssumption DEF Init
    <2> QED  BY <2>1, <2>2, <2>3 DEF Init, TypeOK
  <1>2. sent = {} /\ Len(answers) = 0 /\ reported = {}
    BY DEF Init
  <1> QED  BY <1>1, <1>2 DEF Covered, NothingMissing

\* With any driver and any bounds, the rows, the caches of JavaScript and of
\* the driver and what is on its way keep their types: only rows that exist
\* are answered (Collection/RecordCache, DatabaseDriver.cachedQuery and find).
THEOREM Typing == Spec => []TypeOK
  <1>1. Init => TypeOK
    BY Beginning
  <1> QED  BY <1>1, TypeStep, PTL DEF Spec

\* The invariant of a driver that answers later.
LEMMA Invariant == ASSUME ~AtOnce PROVE Spec => []IInv
  <1>1. Init => IInv
    BY Beginning
  <1> QED  BY <1>1, Invariance, PTL DEF Spec

\* With a driver that answers later, every id it would send bare, and every
\* id it has sent bare, will have a Model when that answer is acted upon,
\* whatever is on its way, fails or is written by another connection.
THEOREM Covering == ASSUME ~AtOnce PROVE Spec => []SentIsCovered
  <1>1. IInv => SentIsCovered
    BY DEF IInv, Covered, SentIsCovered, Held, HeldAfter
  <1> QED  BY <1>1, Invariant, PTL

\* With a driver that answers later, no query's answer names a record that
\* has no Model: _cachedModelForId always finds it (Collection/RecordCache).
THEOREM NoneMissing == ASSUME ~AtOnce PROVE Spec => []NothingMissing
  <1>1. IInv => NothingMissing
    BY DEF IInv
  <1> QED  BY <1>1, Invariant, PTL
=============================================================================
