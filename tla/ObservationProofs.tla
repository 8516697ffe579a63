------------------------- MODULE ObservationProofs -------------------------
(***************************************************************************)
(* Theorems about Observation, for any records, queries, consumers and     *)
(* kinds of observation, any drivers, batches, subscriptions and faults,   *)
(* while consumers do not leave in the call that gives them a record       *)
(* (~OnceAllowed).  With that, an observer may be skipped and a source be  *)
(* left behind.                                                            *)
(*                                                                         *)
(* Channel says where the one batch awaited is among the requests and      *)
(* answers, Registered which entries the lists of subscribers have and in  *)
(* which order, Aged and Once what can be on its way to which source,      *)
(* Shown what the consumers of a query have in common.  Stored relates the *)
(* rows, the Models, the batch, the answers and the changes still to be    *)
(* announced; Follows what an observer was told, what its consumers saw,   *)
(* and what is still to come to it.                                        *)
(***************************************************************************)
EXTENDS Observation, SequenceTheorems, TLAPS

Entries == [query : Queries, part : {"source", "columns"}]
Obs == [subs : SUBSET Consumers, last : Lists, age : Nat, list : Lists, observed : SUBSET Records,
        first : BOOLEAN, states : [Records -> Values], pending : BOOLEAN, fetching : BOOLEAN,
        missed : BOOLEAN]
Page == [obs : [Queries -> Obs], db : Seq(Entries), col : Seq(Entries), raw : [Records -> Values],
         at : [Consumers -> Queries \cup {None}], saw : [Consumers -> Sights \cup {None}],
         once : {{}}, inSource : {"no", "subscribe", "invalidate"}, failing : BOOLEAN, bad : BOOLEAN]

Distinct(s) == \A i, j \in DOMAIN s : s[i] = s[j] => i = j
In(s, e) == \E i \in DOMAIN s : s[i] = e
Before(s, a, b) == \A i, j \in DOMAIN s : s[i] = a /\ s[j] = b => i < j

\* A list with one entry more.
LEMMA AppendedEntry ==
  ASSUME NEW S, NEW s \in Seq(S), NEW e \in S
  PROVE  /\ Append(s, e) \in Seq(S)
         /\ \A x : In(Append(s, e), x) <=> In(s, x) \/ x = e
         /\ Distinct(s) /\ ~In(s, e) => Distinct(Append(s, e))
         /\ \A a, b : Before(s, a, b) /\ ~(a = e /\ In(s, b)) /\ a # b => Before(Append(s, e), a, b)
<1> DEFINE n == Len(s)
           t == Append(s, e)
<1>1. n \in Nat /\ DOMAIN s = 1..n /\ DOMAIN t = 1..(n + 1) /\ t[n + 1] = e /\ \A i \in 1..n : t[i] = s[i]
  OBVIOUS
<1>2. t \in Seq(S)  OBVIOUS
<1> HIDE DEF n, t
<1>3. \A x : In(t, x) <=> In(s, x) \/ x = e
  <2> TAKE x
  <2>1. ASSUME NEW i \in 1..(n + 1), t[i] = x PROVE In(s, x) \/ x = e
    <3>1. CASE i = n + 1  BY <3>1, <2>1, <1>1
    <3>2. CASE i # n + 1
      <4>1. i \in 1..n  BY <3>2, <1>1
      <4> QED BY <4>1, <2>1, <1>1 DEF In
    <3> QED BY <3>1, <3>2
  <2>2. ASSUME NEW i \in 1..n, s[i] = x PROVE In(t, x)
    <3>1. i \in 1..(n + 1)  BY <1>1
    <3> QED BY <3>1, <2>2, <1>1 DEF In
  <2>3. n + 1 \in 1..(n + 1)  BY <1>1
  <2> QED BY <1>1, <2>1, <2>2, <2>3 DEF In
<1>4. ASSUME Distinct(s), ~In(s, e) PROVE Distinct(t)
  <2> SUFFICES ASSUME NEW i \in 1..(n + 1), NEW j \in 1..(n + 1), t[i] = t[j] PROVE i = j
    BY <1>1 DEF Distinct
  <2>1. \A k \in 1..n : s[k] # e  BY <1>1, <1>4 DEF In
  <2>2. \A k \in 1..(n + 1) : k \in 1..n \/ k = n + 1  BY <1>1
  <2> QED BY <1>1, <1>4, <2>1, <2>2 DEF Distinct
<1>5. ASSUME NEW a, NEW b, Before(s, a, b), ~(a = e /\ In(s, b)), a # b PROVE Before(t, a, b)
  <2> SUFFICES ASSUME NEW i \in 1..(n + 1), NEW j \in 1..(n + 1), t[i] = a, t[j] = b PROVE i < j
    BY <1>1 DEF Before
  <2>1. \A k \in 1..(n + 1) : (k \in 1..n /\ k < n + 1) \/ k = n + 1  BY <1>1
  <2>2. CASE i \in 1..n /\ j \in 1..n  BY <1>1, <1>5, <2>2 DEF Before
  <2>3. CASE i = n + 1
    <3>1. j # n + 1  BY <2>3, <1>5
    <3>2. j \in 1..n  BY <3>1, <2>1
    <3> QED BY <3>2, <2>3, <1>1, <1>5 DEF In
  <2>4. CASE i \in 1..n /\ j = n + 1  BY <2>4, <1>1
  <2> QED BY <2>1, <2>2, <2>3, <2>4
<1> QED BY <1>2, <1>3, <1>4, <1>5 DEF t

\* A list without one entry.
LEMMA RemovedEntry ==
  ASSUME NEW S, NEW s \in Seq(S), NEW k \in 1..Len(s)
  PROVE  /\ RemoveAt(s, k) \in Seq(S)
         /\ DOMAIN RemoveAt(s, k) = 1..(Len(s) - 1)
         /\ \A i \in 1..(Len(s) - 1) : RemoveAt(s, k)[i] = s[IF i < k THEN i ELSE i + 1]
<1> DEFINE a == SubSeq(s, 1, k - 1)
           b == SubSeq(s, k + 1, Len(s))
           r == a \o b
<1>1. /\ Len(s) \in Nat /\ k \in Nat /\ 1 <= k /\ k <= Len(s)
      /\ a \in Seq(S) /\ Len(a) = k - 1 /\ \A j \in 1..(k - 1) : a[j] = s[j]
  OBVIOUS
<1>2. /\ b \in Seq(S) /\ Len(b) = Len(s) - k
      /\ \A j \in 1..(Len(s) - k) : b[j] = s[k + j]
  OBVIOUS
<1> HIDE DEF a, b
<1>3. /\ r \in Seq(S) /\ Len(r) = Len(a) + Len(b)
      /\ \A j \in 1..(Len(a) + Len(b)) :
           r[j] = IF j <= Len(a) THEN a[j] ELSE b[j - Len(a)]
  BY <1>1, <1>2, ConcatProperties
<1> HIDE DEF r
<1>4. /\ Len(r) = Len(s) - 1
      /\ \A j \in 1..(Len(s) - 1) :
           r[j] = IF j <= k - 1 THEN a[j] ELSE b[j - (k - 1)]
  <2>1. Len(a) + Len(b) = Len(s) - 1 /\ Len(a) = k - 1
    BY <1>1, <1>2
  <2> QED
    BY <1>3, <2>1
<1>5. ASSUME NEW j \in 1..(Len(s) - 1)
      PROVE  r[j] = s[IF j < k THEN j ELSE j + 1]
  <2>1. j \in Int /\ k \in Int /\ 1 <= j /\ j <= Len(s) - 1
    BY <1>1
  <2>2. CASE j < k
    <3>1. r[j] = a[j] /\ j \in 1..(k - 1)
      BY <2>1, <2>2, <1>4
    <3> QED
      BY <2>2, <3>1, <1>1
  <2>3. CASE ~(j < k)
    <3>1. r[j] = b[j - (k - 1)] /\ j - (k - 1) \in 1..(Len(s) - k)
      BY <2>1, <2>3, <1>1, <1>4
    <3>2. b[j - (k - 1)] = s[k + (j - (k - 1))] /\ k + (j - (k - 1)) = j + 1
      BY <3>1, <2>1, <1>2
    <3> QED
      BY <2>3, <3>1, <3>2
  <2> QED
    BY <2>2, <2>3
<1>6. DOMAIN r = 1..(Len(s) - 1)  BY <1>3, <1>4
<1> QED
  BY <1>3, <1>5, <1>6, Zenon DEF RemoveAt, r, a, b

\* A list without the first entry that is e.
LEMMA RemoveFirstFacts ==
  ASSUME NEW S, NEW s \in Seq(S), NEW e, Distinct(s)
  PROVE  LET t == RemoveFirst(s, e) IN
         /\ t \in Seq(S)
         /\ \A x : In(t, x) <=> In(s, x) /\ x # e
         /\ Distinct(t)
         /\ \A a, b : Before(s, a, b) => Before(t, a, b)
<1> DEFINE t == RemoveFirst(s, e)
<1>0. Len(s) \in Nat /\ DOMAIN s = 1..Len(s)  OBVIOUS
<1>1. CASE ~In(s, e)
  <2>1. t = s  BY <1>0, <1>1 DEF RemoveFirst, In
  <2> HIDE DEF t
  <2> QED BY <1>1, <2>1 DEF t
<1>2. CASE In(s, e)
  <2>1. PICK k \in 1..Len(s) : s[k] = e  BY <1>0, <1>2 DEF In
  <2>2. {i \in 1..Len(s) : s[i] = e} = {k}  BY <1>0, <2>1 DEF Distinct
  <2>3. SelectInSeq(s, LAMBDA v : v = e) = k
    <3>1. Min({k}) = k
      <4>1. \A x \in {k} : k <= x  BY <1>0, <2>1
      <4> QED BY <4>1 DEF Min
    <3> QED BY <2>2, <3>1 DEF SelectInSeq
  <2>4. t = RemoveAt(s, k)  BY <1>0, <2>1, <2>3 DEF RemoveFirst
  <2> DEFINE n == Len(s) - 1
             f(i) == IF i < k THEN i ELSE i + 1
  <2>5. t \in Seq(S) /\ DOMAIN t = 1..n /\ \A i \in 1..n : t[i] = s[f(i)]
    BY <2>4, RemovedEntry
  <2> HIDE DEF t
  <2>6. \A i \in 1..n : f(i) \in 1..Len(s) /\ f(i) # k
    BY <1>0, <2>1
  <2>7. \A i, j \in 1..n : (f(i) = f(j) => i = j) /\ (f(i) < f(j) => i < j)
    BY <1>0, <2>1
  <2>8. \A m \in 1..Len(s) : m # k => \E i \in 1..n : f(i) = m
    <3> SUFFICES ASSUME NEW m \in 1..Len(s), m # k PROVE \E i \in 1..n : f(i) = m  OBVIOUS
    <3>1. CASE m < k
      <4>1. m \in 1..n /\ f(m) = m  BY <1>0, <2>1, <3>1
      <4> QED BY <4>1
    <3>2. CASE ~(m < k)
      <4>1. m - 1 \in 1..n /\ f(m - 1) = m  BY <1>0, <2>1, <3>2
      <4> QED BY <4>1
    <3> QED BY <3>1, <3>2
  <2> HIDE DEF f, n
  <2>9. \A m \in 1..Len(s) : s[m] = e <=> m = k  BY <1>0, <2>1 DEF Distinct
  <2>10. \A x : In(t, x) <=> In(s, x) /\ x # e
    <3> TAKE x
    <3>1. ASSUME NEW i \in 1..n, t[i] = x PROVE In(s, x) /\ x # e
      BY <1>0, <2>5, <2>6, <2>9, <3>1 DEF In
    <3>2. ASSUME NEW m \in 1..Len(s), s[m] = x, x # e PROVE In(t, x)
      <4>1. PICK i \in 1..n : f(i) = m  BY <2>8, <2>9, <3>2
      <4> QED BY <4>1, <2>5, <3>2 DEF In
    <3> QED BY <1>0, <2>5, <3>1, <3>2 DEF In
  <2>11. Distinct(t)
    BY <1>0, <2>5, <2>6, <2>7 DEF Distinct
  <2>12. \A a, b : Before(s, a, b) => Before(t, a, b)
    BY <1>0, <2>5, <2>6, <2>7 DEF Before
  <2> QED BY <2>5, <2>10, <2>11, <2>12 DEF t
<1> QED BY <1>1, <1>2

\* The lists of subscribers without the entries of a query.
LEMMA OthersFacts ==
  ASSUME NEW s \in Seq(Entries), NEW q \in Queries, Distinct(s)
  PROVE  LET t == Others(s, q) IN
         /\ t \in Seq(Entries)
         /\ \A x : In(t, x) <=> In(s, x) /\ x # Source(q) /\ x # Columns(q)
         /\ Distinct(t)
         /\ \A a, b : Before(s, a, b) => Before(t, a, b)
<1> DEFINE u == RemoveFirst(s, Source(q))
<1>1. /\ u \in Seq(Entries) /\ Distinct(u)
      /\ \A x : In(u, x) <=> In(s, x) /\ x # Source(q)
      /\ \A a, b : Before(s, a, b) => Before(u, a, b)
  BY RemoveFirstFacts
<1> HIDE DEF u
<1>2. LET t == RemoveFirst(u, Columns(q)) IN
      /\ t \in Seq(Entries) /\ Distinct(t)
      /\ \A x : In(t, x) <=> In(u, x) /\ x # Columns(q)
      /\ \A a, b : Before(u, a, b) => Before(t, a, b)
  BY <1>1, RemoveFirstFacts
<1> QED BY <1>1, <1>2 DEF Others, u

\* What consumers are given is a sight.
LEMMA SightType ==
  ASSUME NEW w \in Page, NEW q \in Queries, NEW l \in SUBSET Records
  PROVE  Sight(w, q, l) \in Sights
<1> DEFINE seen == IF HasColumns(q) THEN l ELSE {}
           v == [r \in seen |-> w.raw[r]]
<1>1. seen \in SUBSET Records  OBVIOUS
<1>2. w.raw \in [Records -> Values] BY DEF Page
<1>3. v \in [seen -> Values]  BY <1>1, <1>2
<1>4. {r \in seen : Unannounced(r)} \in SUBSET Records BY <1>1
<1> HIDE DEF seen, v
<1>5. v \in UNION {[s -> Values] : s \in SUBSET Records}  BY <1>1, <1>3
<1> QED BY <1>4, <1>5 DEF Sight, Sights, seen, v

Changed(w, v, q, o, saw) ==
  /\ v \in Page
  /\ v.obs = [w.obs EXCEPT ![q] = o] /\ v.saw = saw
  /\ v.db = w.db /\ v.col = w.col /\ v.raw = w.raw /\ v.at = w.at /\ v.once = w.once
  /\ v.inSource = w.inSource /\ v.failing = w.failing /\ v.bad = w.bad

\* _notify sets what was emitted last, and what every subscriber saw.
LEMMA DeliveredIs ==
  ASSUME NEW w \in Page, NEW q \in Queries, NEW l \in SUBSET Records, w.obs[q].subs # {}
  PROVE  Changed(w, Delivered(w, q, l), q, [w.obs[q] EXCEPT !.last = l],
           [c \in Consumers |-> IF c \in w.obs[q].subs THEN Sight(w, q, l) ELSE w.saw[c]])
<1> DEFINE o == [w.obs[q] EXCEPT !.last = l]
           obs == [w.obs EXCEPT ![q] = o]
           saw == [c \in Consumers |-> IF c \in w.obs[q].subs THEN Sight(w, q, l) ELSE w.saw[c]]
           v == [w EXCEPT !.obs = obs, !.saw = saw]
<1>0. w.obs[q] \in Obs BY DEF Page
<1>a. l \in Lists BY DEF Lists
<1>1. o \in Obs BY <1>0, <1>a DEF Obs
<1>2. obs \in [Queries -> Obs] BY <1>1 DEF Page
<1>3. saw \in [Consumers -> Sights \cup {None}]  BY SightType DEF Page
<1>5. w.obs[q].subs \cap w.once = {} BY DEF Page
<1>6. Delivered(w, q, l) = v BY <1>5 DEF Delivered
<1> HIDE DEF obs, saw, o
<1>4. v \in Page  BY <1>2, <1>3 DEF Page
<1>7. Changed(w, v, q, o, saw) BY <1>4 DEF Page, Changed, obs
<1> HIDE DEF v
<1> QED BY <1>6, <1>7, Zenon DEF o, saw
\* What handling something for query q leaves alone.
Keeps(w, v, q) ==
  /\ v \in Page
  /\ v.db = w.db /\ v.raw = w.raw /\ v.at = w.at
  /\ v.inSource = w.inSource /\ v.failing = w.failing /\ v.bad = w.bad
  /\ \A p \in Queries \ {q} : v.obs[p] = w.obs[p]
  /\ v.obs[q].subs = w.obs[q].subs /\ v.obs[q].age = w.obs[q].age
  /\ \A c \in Consumers \ w.obs[q].subs : v.saw[c] = w.saw[c]

\* The source of q has list l now; whether its consumers are called.
StatesOf(w, q, l) ==
  [r \in Records |-> IF r \notin l THEN None
                     ELSE IF r \in w.obs[q].observed THEN w.obs[q].states[r] ELSE w.raw[r]]
Emission(w, v, q, l) ==
  LET o == w.obs[q] new == v.obs[q] IN
  /\ Keeps(w, v, q)
  /\ new.list = l
  /\ IF HasColumns(q)
     THEN /\ new.observed = l /\ ~new.first /\ ~new.pending /\ ~new.fetching
          /\ new.states = StatesOf(w, q, l)
     ELSE new.observed = o.observed /\ new.first = o.first /\ new.pending = o.pending /\ new.states = o.states
  /\ \/ new.last = l /\ \A c \in o.subs : v.saw[c] = Sight(w, q, l)
     \/ /\ new.last = o.last /\ v.saw = w.saw
        /\ IF HasColumns(q) THEN ~o.first /\ ~o.pending /\ o.observed = l ELSE o.list = l

\* A page with another state for one observer.
LEMMA PageUpdate ==
  ASSUME NEW w \in Page, NEW q \in Queries, NEW o \in Obs
  PROVE  Changed(w, [w EXCEPT !.obs = [w.obs EXCEPT ![q] = o]], q, o, w.saw)
<1> DEFINE obs == [w.obs EXCEPT ![q] = o]
           v == [w EXCEPT !.obs = obs]
<1>1. obs \in [Queries -> Obs]  BY DEF Page
<1> HIDE DEF obs
<1>2. v \in Page  BY <1>1 DEF Page
<1> QED BY <1>2 DEF Changed, Page, obs

\* A change of one observer that keeps its subscribers and its age.
LEMMA ChangedKeeps ==
  ASSUME NEW w \in Page, NEW v, NEW q \in Queries, NEW o, NEW saw, Changed(w, v, q, o, saw),
         o.subs = w.obs[q].subs, o.age = w.obs[q].age,
         \A c \in Consumers \ w.obs[q].subs : saw[c] = w.saw[c]
  PROVE  Keeps(w, v, q) /\ v.obs[q] = o /\ v.saw = saw /\ v.col = w.col
<1>1. w.obs \in [Queries -> Obs]  BY DEF Page
<1>2. v.obs[q] = o /\ \A p \in Queries \ {q} : v.obs[p] = w.obs[p]
  BY <1>1 DEF Changed
<1> QED BY <1>2 DEF Keeps, Changed

\* Emitting the list an observer just took.
LEMMA EmittedIs ==
  ASSUME NEW w \in Page, NEW q \in Queries, NEW l \in SUBSET Records, w.obs[q].subs # {},
         w.obs[q].list = l
  PROVE  Emission(w, Emitted(w, q, l), q, l) /\ Emitted(w, q, l).col = w.col
         /\ Emitted(w, q, l).obs[q].missed = w.obs[q].missed
<1> DEFINE o == w.obs[q]
           saw == [c \in Consumers |-> IF c \in w.obs[q].subs THEN Sight(w, q, l) ELSE w.saw[c]]
<1>o. o \in Obs /\ w.obs \in [Queries -> Obs] /\ w.saw \in [Consumers -> Sights \cup {None}]  BY DEF Page
<1>l. l \in Lists  BY DEF Lists
<1>1. CASE ~HasColumns(q)
  <2> DEFINE new == [o EXCEPT !.last = l]
             v == Delivered(w, q, l)
  <2>1. Changed(w, v, q, new, saw)  BY DeliveredIs
  <2>2. new \in Obs /\ new.last = l /\ new.subs = o.subs /\ new.age = o.age /\ new.list = l /\ new.observed = o.observed
        /\ new.first = o.first /\ new.pending = o.pending /\ new.states = o.states /\ new.missed = o.missed
    BY <1>o, <1>l DEF Obs
  <2>3. Emitted(w, q, l) = v  BY <1>1 DEF Emitted
  <2> HIDE DEF v, new
  <2>4. \A c \in Consumers \ o.subs : saw[c] = w.saw[c]  BY <1>o
  <2>5. Keeps(w, v, q) /\ v.obs[q] = new /\ v.saw = saw /\ v.col = w.col
    BY <2>1, <2>2, <2>4, ChangedKeeps
  <2>6. \A c \in o.subs : saw[c] = Sight(w, q, l)  BY <1>o DEF Obs
  <2> HIDE DEF saw
  <2> QED BY <1>1, <2>2, <2>3, <2>5, <2>6 DEF Emission
<1>2. CASE HasColumns(q)
  <2> DEFINE st == [r \in Records |-> IF r \notin l THEN None ELSE IF r \in o.observed THEN o.states[r] ELSE w.raw[r]]
             new == [o EXCEPT !.fetching = FALSE, !.pending = FALSE, !.first = FALSE, !.observed = l,
                              !.states = st]
             w1 == [w EXCEPT !.obs = [w.obs EXCEPT ![q] = new]]
             shows == o.first \/ o.pending \/ l # o.observed
             v == IF shows THEN Delivered(w1, q, l) ELSE w1
             sent2 == [new EXCEPT !.last = l]
  <2>0. st \in [Records -> Values] /\ st = StatesOf(w, q, l)
    <3>1. w.raw \in [Records -> Values] /\ o.states \in [Records -> Values] /\ None \in Values
      BY <1>o DEF Page, Obs, Values
    <3> QED BY <3>1 DEF StatesOf
  <2> HIDE DEF st
  <2>1. new \in Obs  BY <1>o, <2>0 DEF Obs
  <2>2. /\ new.last = o.last /\ new.subs = o.subs /\ new.age = o.age /\ new.list = l /\ new.observed = l
        /\ ~new.first /\ ~new.pending /\ ~new.fetching /\ new.states = st /\ new.missed = o.missed
    BY <1>o DEF Obs
  <2>3. Emitted(w, q, l) = v  BY <1>2 DEF Emitted, SourceChanged, st
  <2> HIDE DEF new
  <2>4. Changed(w, w1, q, new, w.saw)  BY <2>1, PageUpdate
  <2> HIDE DEF w1
  <2>5. w1 \in Page /\ w1.obs[q] = new /\ w1.raw = w.raw /\ w1.saw = w.saw  BY <2>4, <1>o DEF Changed
  <2>6. CASE ~shows
    <3>1. Keeps(w, w1, q) /\ w1.obs[q] = new /\ w1.saw = w.saw /\ w1.col = w.col
      BY <2>2, <2>4, ChangedKeeps
    <3> QED BY <2>6, <1>2, <2>0, <2>2, <2>3, <3>1 DEF Emission
  <2>7. CASE shows
    <3> DEFINE d == Delivered(w1, q, l)
    <3>1. sent2 \in Obs /\ sent2.last = l /\ sent2.subs = o.subs /\ sent2.age = o.age /\ sent2.list = l
          /\ sent2.observed = l /\ ~sent2.first /\ ~sent2.pending /\ ~sent2.fetching /\ sent2.states = st
          /\ sent2.missed = o.missed
      BY <1>l, <2>1, <2>2 DEF Obs
    <3>2. Changed(w1, d, q, sent2,
             [c \in Consumers |-> IF c \in w1.obs[q].subs THEN Sight(w1, q, l) ELSE w1.saw[c]])
      BY <2>2, <2>5, DeliveredIs
    <3>3. Sight(w1, q, l) = Sight(w, q, l)  BY <2>5 DEF Sight
    <3>4. Changed(w1, d, q, sent2, saw)
      BY <3>2, <3>3, <2>5, <2>2
    <3>5. Emitted(w, q, l) = d  BY <2>3, <2>7
    <3> HIDE DEF d, sent2
    <3>6. Changed(w, d, q, sent2, saw)
      BY <2>4, <3>4, <1>o DEF Changed
    <3>7. \A c \in Consumers \ o.subs : saw[c] = w.saw[c]  BY <1>o
    <3>8. Keeps(w, d, q) /\ d.obs[q] = sent2 /\ d.saw = saw /\ d.col = w.col
      BY <3>1, <3>6, <3>7, ChangedKeeps
    <3>9. \A c \in o.subs : saw[c] = Sight(w, q, l)  BY <1>o DEF Obs
    <3> HIDE DEF saw
    <3> QED BY <1>2, <2>0, <3>1, <3>5, <3>8, <3>9 DEF Emission
  <2> QED BY <2>6, <2>7
<1> QED BY <1>1, <1>2

\* A query's list of subscribers of the collection grows with its first answer.
Grown(w, q) == IF IsSimple(q) THEN Append(w.col, Source(q)) ELSE w.col
Known(w, l) == \A r \in l : w.raw[r] # None
Idles(w, v, q) ==
  LET o == w.obs[q] new == v.obs[q] IN
  /\ Keeps(w, v, q) /\ v.col = w.col /\ v.saw = w.saw
  /\ new.last = o.last /\ new.list = o.list /\ new.observed = o.observed /\ new.first = o.first
  /\ new.states = o.states /\ new.pending = o.pending
  /\ o.fetching => new.fetching

\* Emitting after the list and `missed` were set.
LEMMA EmissionFrom ==
  ASSUME NEW w \in Page, NEW q \in Queries, NEW l \in SUBSET Records, w.obs[q].subs # {},
         NEW o \in Obs, NEW w1, Changed(w, w1, q, o, w.saw),
         o.list = l, o.last = w.obs[q].last, o.subs = w.obs[q].subs, o.age = w.obs[q].age,
         o.observed = w.obs[q].observed, o.first = w.obs[q].first, o.pending = w.obs[q].pending,
         o.states = w.obs[q].states
  PROVE  LET v == Emitted(w1, q, l) IN
         Emission(w, v, q, l) /\ v.col = w.col /\ v.obs[q].missed = o.missed
<1> DEFINE v == Emitted(w1, q, l)
<1>0. w.obs \in [Queries -> Obs]  BY DEF Page
<1>1. /\ w1 \in Page /\ w1.obs[q] = o /\ w1.raw = w.raw /\ w1.saw = w.saw /\ w1.col = w.col
      /\ \A p \in Queries \ {q} : w1.obs[p] = w.obs[p]
      /\ w1.db = w.db /\ w1.at = w.at /\ w1.inSource = w.inSource /\ w1.failing = w.failing /\ w1.bad = w.bad
  BY <1>0 DEF Changed
<1>2. Emission(w1, v, q, l) /\ v.col = w1.col /\ v.obs[q].missed = w1.obs[q].missed
  BY <1>1, EmittedIs
<1> HIDE DEF v
<1>3. Keeps(w, v, q)  BY <1>1, <1>2 DEF Emission, Keeps
<1>4. StatesOf(w1, q, l) = StatesOf(w, q, l) /\ Sight(w1, q, l) = Sight(w, q, l)
  BY <1>1 DEF StatesOf, Sight
<1>5. v.obs[q].list = l
      /\ IF HasColumns(q)
         THEN /\ v.obs[q].observed = l /\ ~v.obs[q].first /\ ~v.obs[q].pending /\ ~v.obs[q].fetching
              /\ v.obs[q].states = StatesOf(w, q, l)
         ELSE v.obs[q].observed = o.observed /\ v.obs[q].first = o.first /\ v.obs[q].pending = o.pending /\ v.obs[q].states = o.states
  BY <1>1, <1>2, <1>4 DEF Emission
<1>6. \/ v.obs[q].last = l /\ \A c \in o.subs : v.saw[c] = Sight(w, q, l)
      \/ /\ v.obs[q].last = o.last /\ v.saw = w.saw
         /\ IF HasColumns(q) THEN ~o.first /\ ~o.pending /\ o.observed = l ELSE TRUE
  BY <1>1, <1>2, <1>4 DEF Emission
<1>7. ~HasColumns(q) => v.obs[q].last = l /\ \A c \in o.subs : v.saw[c] = Sight(w, q, l)
  <2> SUFFICES ASSUME ~HasColumns(q) PROVE v.obs[q].last = l /\ \A c \in o.subs : v.saw[c] = Sight(w, q, l)
    OBVIOUS
  <2>1. v = Delivered(w1, q, l)  BY DEF Emitted, v
  <2>2. Changed(w1, v, q, [o EXCEPT !.last = l],
             [c \in Consumers |-> IF c \in o.subs THEN Sight(w1, q, l) ELSE w1.saw[c]])
    BY <1>1, <2>1, DeliveredIs
  <2>3. w1.obs \in [Queries -> Obs] /\ o.subs \subseteq Consumers  BY <1>1 DEF Page, Obs
  <2>4. v.obs[q] = [o EXCEPT !.last = l]
    BY <2>2, <2>3 DEF Changed
  <2>5. v.obs[q].last = l  BY <2>4 DEF Obs
  <2>6. \A c \in o.subs : v.saw[c] = Sight(w1, q, l)  BY <2>2, <2>3 DEF Changed
  <2> QED  BY <2>5, <2>6, <1>4
<1>8. v.col = w.col /\ v.obs[q].missed = o.missed  BY <1>1, <1>2
<1>9. Emission(w, v, q, l)
  <2>1. CASE HasColumns(q)  BY <2>1, <1>3, <1>5, <1>6 DEF Emission
  <2>2. CASE ~HasColumns(q)  BY <2>2, <1>3, <1>5, <1>7 DEF Emission
  <2> QED BY <2>1, <2>2
<1> QED BY <1>8, <1>9 DEF v

\* The first answer of a simple observer: it emits, then listens.
LEMMA FirstAnswerIs ==
  ASSUME NEW w \in Page, NEW q \in Queries, NEW l \in SUBSET Records, w.obs[q].subs # {}
  PROVE  LET v == FirstAnswer(w, q, l) IN
         Emission(w, v, q, l) /\ v.col = Append(w.col, Source(q)) /\ ~v.obs[q].missed
<1> DEFINE o == [w.obs[q] EXCEPT !.list = l, !.missed = FALSE]
           w1 == [w EXCEPT !.obs = [w.obs EXCEPT ![q] = o]]
           e == Emitted(w1, q, l)
           col == Append(w.col, Source(q))
           v == [e EXCEPT !.col = col]
<1>1. /\ o \in Obs /\ o.list = l /\ o.last = w.obs[q].last /\ o.subs = w.obs[q].subs /\ o.age = w.obs[q].age
      /\ o.observed = w.obs[q].observed /\ o.first = w.obs[q].first /\ o.pending = w.obs[q].pending
      /\ o.states = w.obs[q].states /\ ~o.missed
  <2>1. w.obs[q] \in Obs /\ l \in Lists  BY DEF Page, Lists
  <2> QED BY <2>1 DEF Obs
<1> HIDE DEF o
<1>2. Changed(w, w1, q, o, w.saw)  BY <1>1, PageUpdate
<1>3. Emission(w, e, q, l) /\ e.col = w.col /\ e.obs[q].missed = o.missed
  <2> HIDE DEF w1
  <2> QED BY <1>1, <1>2, EmissionFrom
<1>4. FirstAnswer(w, q, l) = IF e.obs[q].age # w.obs[q].age THEN e ELSE [e EXCEPT !.col = Append(e.col, Source(q))]
  BY DEF FirstAnswer, o
<1> HIDE DEF e
<1>5. e.obs[q].age = w.obs[q].age /\ e \in Page  BY <1>3 DEF Emission, Keeps
<1>6. FirstAnswer(w, q, l) = v  BY <1>3, <1>4, <1>5
<1>7. col \in Seq(Entries)
  <2>1. w.col \in Seq(Entries)  BY DEF Page
  <2>2. Source(q) \in Entries  BY DEF Source, Entries
  <2> QED  BY <2>1, <2>2
<1> HIDE DEF col
<1>8. v \in Page /\ v.col = col /\ v.obs = e.obs /\ v.db = e.db /\ v.raw = e.raw /\ v.at = e.at /\ v.saw = e.saw
      /\ v.inSource = e.inSource /\ v.failing = e.failing /\ v.bad = e.bad
  BY <1>5, <1>7 DEF Page
<1> HIDE DEF v
<1>9. Emission(w, v, q, l)
  <2>1. Keeps(w, v, q)  BY <1>3, <1>8 DEF Emission, Keeps
  <2> QED BY <2>1, <1>3, <1>8 DEF Emission
<1> QED BY <1>1, <1>3, <1>6, <1>8, <1>9 DEF col

\* An answer of a reloading observer.
LEMMA ReloadingAnswerIs ==
  ASSUME NEW w \in Page, NEW q \in Queries, NEW l \in SUBSET Records, w.obs[q].subs # {}
  PROVE  LET v == ReloadingAnswer(w, q, l) IN
         Emission(w, v, q, l) /\ v.col = w.col /\ ~v.obs[q].missed
<1> DEFINE o == [w.obs[q] EXCEPT !.list = l, !.missed = FALSE]
           w1 == [w EXCEPT !.obs = [w.obs EXCEPT ![q] = o]]
           e == Emitted(w1, q, l)
<1>1. /\ o \in Obs /\ o.list = l /\ o.last = w.obs[q].last /\ o.subs = w.obs[q].subs /\ o.age = w.obs[q].age
      /\ o.observed = w.obs[q].observed /\ o.first = w.obs[q].first /\ o.pending = w.obs[q].pending
      /\ o.states = w.obs[q].states /\ ~o.missed
  <2>1. w.obs[q] \in Obs /\ l \in Lists  BY DEF Page, Lists
  <2> QED BY <2>1 DEF Obs
<1> HIDE DEF o
<1>2. Changed(w, w1, q, o, w.saw)  BY <1>1, PageUpdate
<1>4. ReloadingAnswer(w, q, l) = IF HasColumns(q) \/ l # w.obs[q].list THEN e ELSE w1
  BY DEF ReloadingAnswer, o
<1> HIDE DEF w1
<1>5. CASE HasColumns(q) \/ l # w.obs[q].list
  <2>1. Emission(w, e, q, l) /\ e.col = w.col /\ e.obs[q].missed = o.missed
    BY <1>1, <1>2, EmissionFrom
  <2> HIDE DEF e
  <2> QED BY <2>1, <1>1, <1>4, <1>5
<1>6. CASE ~HasColumns(q) /\ l = w.obs[q].list
  <2>1. Keeps(w, w1, q) /\ w1.obs[q] = o /\ w1.saw = w.saw /\ w1.col = w.col
    BY <1>1, <1>2, ChangedKeeps
  <2>2. ReloadingAnswer(w, q, l) = w1  BY <1>4, <1>6
  <2> QED BY <2>1, <2>2, <1>1, <1>6 DEF Emission
<1> QED BY <1>5, <1>6

\* A change of one observer that shows nothing.
LEMMA PageObs ==
  ASSUME NEW w \in Page, NEW q \in Queries, NEW o \in Obs, NEW v, Changed(w, v, q, o, w.saw),
         o.subs = w.obs[q].subs, o.age = w.obs[q].age, o.last = w.obs[q].last, o.list = w.obs[q].list,
         o.observed = w.obs[q].observed, o.first = w.obs[q].first, o.states = w.obs[q].states,
         o.pending = w.obs[q].pending, w.obs[q].fetching => o.fetching
  PROVE  Idles(w, v, q) /\ v.obs[q] = o
<1>1. Keeps(w, v, q) /\ v.obs[q] = o /\ v.saw = w.saw /\ v.col = w.col
  BY ChangedKeeps
<1> QED BY <1>1 DEF Idles

\* What an answer does.
Answering(w, v, q, l) ==
  \/ Idles(w, v, q) /\ v.obs[q].missed
  \/ Emission(w, v, q, l) /\ ~v.obs[q].missed /\ Known(w, l) /\ v.col = Grown(w, q)

\* An answer is an emission, or is missed.
LEMMA AnsweredIs ==
  ASSUME NEW w \in Page, NEW q \in Queries, NEW l \in SUBSET Records, w.obs[q].subs # {}, NEW failed
  PROVE  Answering(w, Answered(w, q, l, failed), q, l)
<1>1. CASE failed \/ \E r \in l : w.raw[r] = None
  <2> DEFINE o == [w.obs[q] EXCEPT !.missed = TRUE]
             v == [w EXCEPT !.obs = [w.obs EXCEPT ![q] = o]]
  <2>1. /\ o \in Obs /\ o.list = w.obs[q].list /\ o.last = w.obs[q].last /\ o.subs = w.obs[q].subs /\ o.age = w.obs[q].age
        /\ o.observed = w.obs[q].observed /\ o.first = w.obs[q].first /\ o.pending = w.obs[q].pending
        /\ o.states = w.obs[q].states /\ o.fetching = w.obs[q].fetching /\ o.missed
    <3>1. w.obs[q] \in Obs  BY DEF Page
    <3> QED BY <3>1 DEF Obs
  <2>2. Answered(w, q, l, failed) = v  BY <1>1 DEF Answered
  <2> HIDE DEF o
  <2>3. Changed(w, v, q, o, w.saw)  BY <2>1, PageUpdate
  <2> HIDE DEF v
  <2>4. Idles(w, v, q) /\ v.obs[q] = o  BY <2>1, <2>3, PageObs
  <2> QED BY <2>1, <2>2, <2>4 DEF Answering
<1>2. CASE ~(failed \/ \E r \in l : w.raw[r] = None) /\ IsSimple(q)
  <2>1. Answered(w, q, l, failed) = FirstAnswer(w, q, l)  BY <1>2 DEF Answered
  <2> QED BY <1>2, <2>1, FirstAnswerIs DEF Answering, Grown, Known
<1>3. CASE ~(failed \/ \E r \in l : w.raw[r] = None) /\ ~IsSimple(q)
  <2>1. Answered(w, q, l, failed) = ReloadingAnswer(w, q, l)  BY <1>3 DEF Answered
  <2> QED BY <1>3, <2>1, ReloadingAnswerIs DEF Answering, Grown, Known
<1> QED BY <1>1, <1>2, <1>3

\* What fetching does, now or with the answer.
Fetching(w, v, q) ==
  \/ ~sync /\ Idles(w, v, q) /\ v.obs[q].missed = w.obs[q].missed
     /\ v.obs[q].fetching = (IF IsSimple(q) THEN w.obs[q].fetching ELSE TRUE)
  \/ sync /\ Answering(w, v, q, Result)

\* _fetchQuery, of a driver that answers at once or later.
LEMMA FetchesIs ==
  ASSUME NEW w \in Page, NEW q \in Queries, w.obs[q].subs # {}
  PROVE  Fetching(w, Fetches(w, q), q)
<1> DEFINE o == [w.obs[q] EXCEPT !.fetching = IF IsSimple(q) THEN w.obs[q].fetching ELSE TRUE]
           w1 == IF IsSimple(q) THEN w ELSE [w EXCEPT !.obs[q].fetching = TRUE]
           v == Answered(w1, q, Result, w.failing)
<1>0. w.obs[q] \in Obs /\ w.obs \in [Queries -> Obs]  BY DEF Page
<1>1. /\ o \in Obs /\ o.list = w.obs[q].list /\ o.last = w.obs[q].last /\ o.subs = w.obs[q].subs /\ o.age = w.obs[q].age
      /\ o.observed = w.obs[q].observed /\ o.first = w.obs[q].first /\ o.pending = w.obs[q].pending
      /\ o.states = w.obs[q].states /\ o.missed = w.obs[q].missed
      /\ o.fetching = (IF IsSimple(q) THEN w.obs[q].fetching ELSE TRUE)
  BY <1>0 DEF Obs
<1>a. w.obs[q].fetching => o.fetching  BY <1>0 DEF Obs
<1>2. Changed(w, w1, q, o, w.saw)
  <2>1. CASE IsSimple(q)
    <3>1. o = w.obs[q]  BY <2>1, <1>0 DEF Obs
    <3>2. w1 = w /\ [w.obs EXCEPT ![q] = o] = w.obs  BY <2>1, <3>1, <1>0
    <3> QED BY <3>2 DEF Changed
  <2>2. CASE ~IsSimple(q)
    <3>1. w1 = [w EXCEPT !.obs = [w.obs EXCEPT ![q] = o]]  BY <2>2
    <3> HIDE DEF w1, o
    <3> QED BY <1>1, <3>1, PageUpdate
  <2> QED BY <2>1, <2>2
<1> HIDE DEF o
<1>3. Fetches(w, q) = IF sync THEN v ELSE w1  BY DEF Fetches
<1> HIDE DEF w1
<1>4. Idles(w, w1, q) /\ w1.obs[q] = o
  <2>1. Keeps(w, w1, q) /\ w1.obs[q] = o /\ w1.saw = w.saw /\ w1.col = w.col  BY <1>1, <1>2, ChangedKeeps
  <2> QED BY <1>1, <1>a, <2>1 DEF Idles
<1>5. CASE ~sync
  BY <1>1, <1>3, <1>4, <1>5 DEF Fetching
<1>6. CASE sync
  <2>0. Result \in SUBSET Records  BY DEF Result
  <2>1. Answering(w1, v, q, Result)
    BY <1>1, <1>2, <1>4, <2>0, AnsweredIs DEF Changed
  <2> HIDE DEF v
  <2>2. w1.raw = w.raw /\ w1.col = w.col /\ w1.saw = w.saw  BY <1>2 DEF Changed
  <2>3. Keeps(w1, v, q) => Keeps(w, v, q)  BY <1>4 DEF Idles, Keeps
  <2>4. StatesOf(w1, q, Result) = StatesOf(w, q, Result) /\ Sight(w1, q, Result) = Sight(w, q, Result)
    BY <1>1, <1>4, <2>2 DEF StatesOf, Sight
  <2>5. Idles(w1, v, q) => Idles(w, v, q)
    BY <1>1, <1>4, <2>2, <2>3 DEF Idles
  <2>6. Emission(w1, v, q, Result) => Emission(w, v, q, Result)
    BY <1>1, <1>4, <2>2, <2>3, <2>4 DEF Emission
  <2>7. Answering(w, v, q, Result)
    BY <2>1, <2>2, <2>5, <2>6 DEF Answering, Known, Grown
  <2> QED BY <1>3, <1>6, <2>7 DEF Fetching
<1> QED BY <1>5, <1>6

\* A simple observer hears of changes.
LEMMA CollectionChangedIs ==
  ASSUME NEW w \in Page, NEW q \in Queries, NEW changes, w.obs[q].subs # {}, w.obs[q].list # None
  PROVE  LET v == CollectionChanged(w, q, changes) IN
         /\ Emission(w, v, q, Processed(w.obs[q].list, w, changes))
         /\ v.col = w.col /\ v.obs[q].missed = w.obs[q].missed
<1> DEFINE l == Processed(w.obs[q].list, w, changes)
           o == [w.obs[q] EXCEPT !.list = l]
           w1 == [w EXCEPT !.obs = [w.obs EXCEPT ![q] = o]]
           e == Emitted(w1, q, l)
<1>0. w.obs[q] \in Obs /\ w.obs \in [Queries -> Obs] /\ l \in SUBSET Records /\ l \in Lists
  BY DEF Page, Lists, Processed
<1>1. CollectionChanged(w, q, changes) = IF l # w.obs[q].list \/ HasColumns(q) THEN e ELSE w
  BY DEF CollectionChanged
<1> HIDE DEF l
<1>2. /\ o \in Obs /\ o.list = l /\ o.last = w.obs[q].last /\ o.subs = w.obs[q].subs /\ o.age = w.obs[q].age
      /\ o.observed = w.obs[q].observed /\ o.first = w.obs[q].first /\ o.pending = w.obs[q].pending
      /\ o.states = w.obs[q].states /\ o.missed = w.obs[q].missed
  BY <1>0 DEF Obs
<1> HIDE DEF o
<1>3. Changed(w, w1, q, o, w.saw)  BY <1>2, PageUpdate
<1> HIDE DEF w1
<1>4. CASE l # w.obs[q].list \/ HasColumns(q)
  <2>1. Emission(w, e, q, l) /\ e.col = w.col /\ e.obs[q].missed = o.missed
    BY <1>0, <1>2, <1>3, EmissionFrom
  <2> HIDE DEF e
  <2> QED BY <2>1, <1>2, <1>1, <1>4 DEF l
<1>5. CASE ~(l # w.obs[q].list \/ HasColumns(q))
  <2>1. Emission(w, w, q, l)  BY <1>5 DEF Emission, Keeps
  <2> QED BY <2>1, <1>1, <1>5 DEF l
<1> QED BY <1>4, <1>5

\* What hearing of changes does to the observer of columns.
StatesChanged(w, q, changes) ==
  {r \in Records : Updates(changes, r) /\ w.obs[q].states[r] \notin {None, w.raw[r]}}
ColumnsHear(w, v, q, changes) ==
  LET o == w.obs[q] new == v.obs[q] IN
  /\ Keeps(w, v, q) /\ v.col = w.col
  /\ new.list = o.list /\ new.observed = o.observed /\ new.first = o.first
  /\ new.fetching = o.fetching /\ new.missed = o.missed
  /\ new.states = [r \in Records |-> IF r \in StatesChanged(w, q, changes) THEN w.raw[r] ELSE o.states[r]]
  /\ \/ /\ StatesChanged(w, q, changes) = {} /\ new.pending = o.pending /\ new.last = o.last /\ v.saw = w.saw
     \/ /\ o.fetching \/ IsSimple(q)
        /\ StatesChanged(w, q, changes) # {} /\ new.pending /\ new.last = o.last /\ v.saw = w.saw
     \/ /\ ~o.fetching /\ ~IsSimple(q)
        /\ StatesChanged(w, q, changes) # {} /\ new.pending = o.pending /\ new.last = o.observed
        /\ \A c \in o.subs : v.saw[c] = Sight(w, q, o.observed)

\* An observer of columns hears of changes.
LEMMA ColumnsChangedIs ==
  ASSUME NEW w \in Page, NEW q \in Queries, NEW changes, w.obs[q].subs # {}
  PROVE  ColumnsHear(w, ColumnsChanged(w, q, changes), q, changes)
<1> DEFINE o == w.obs[q]
           changed == StatesChanged(w, q, changes)
           st == [r \in Records |-> IF r \in changed THEN w.raw[r] ELSE o.states[r]]
           o1 == [o EXCEPT !.states = st]
           w1 == [w EXCEPT !.obs = [w.obs EXCEPT ![q] = o1]]
           o2 == [o1 EXCEPT !.pending = TRUE]
           w2 == [w1 EXCEPT !.obs = [w1.obs EXCEPT ![q] = o2]]
           d == Delivered(w1, q, o.observed)
           v == ColumnsChanged(w, q, changes)
<1>0. o \in Obs /\ w.obs \in [Queries -> Obs] /\ o.states \in [Records -> Values] /\ w.raw \in [Records -> Values]
      /\ w.saw \in [Consumers -> Sights \cup {None}] /\ o.observed \in SUBSET Records
  BY DEF Page, Obs
<1>1. st \in [Records -> Values]  BY <1>0
<1>2. CASE changed = {}
  <2>1. v = w  BY <1>2 DEF ColumnsChanged, StatesChanged
  <2>2. st = o.states  BY <1>0, <1>2
  <2> HIDE DEF changed, v
  <2>3. ColumnsHear(w, w, q, changes)  BY <2>2, <1>2 DEF ColumnsHear, Keeps, changed
  <2> QED BY <2>1, <2>3, Zenon DEF v
<1>3. CASE changed # {}
  <2>1. v = IF o.fetching \/ IsSimple(q) THEN ColumnsPending(w1, q) ELSE d
    BY <1>3 DEF ColumnsChanged, StatesChanged
  <2> HIDE DEF st
  <2>2. /\ o1 \in Obs /\ o1.list = o.list /\ o1.last = o.last /\ o1.subs = o.subs /\ o1.age = o.age
        /\ o1.observed = o.observed /\ o1.first = o.first /\ o1.pending = o.pending
        /\ o1.states = st /\ o1.missed = o.missed /\ o1.fetching = o.fetching
    BY <1>0, <1>1 DEF Obs
  <2> HIDE DEF o1
  <2>3. Changed(w, w1, q, o1, w.saw)  BY <2>2, PageUpdate
  <2> HIDE DEF w1
  <2>4. w1 \in Page /\ w1.obs[q] = o1 /\ w1.raw = w.raw /\ w1.saw = w.saw /\ Keeps(w, w1, q) /\ w1.col = w.col
    BY <2>2, <2>3, ChangedKeeps DEF Changed
  <2>5. CASE o.fetching \/ IsSimple(q)
    <3>1. /\ o2 \in Obs /\ o2.list = o.list /\ o2.last = o.last /\ o2.subs = o.subs /\ o2.age = o.age
          /\ o2.observed = o.observed /\ o2.first = o.first /\ o2.pending
          /\ o2.states = st /\ o2.missed = o.missed /\ o2.fetching = o.fetching
      BY <2>2 DEF Obs
    <3>2. v = w2  BY <2>1, <2>4, <2>5 DEF ColumnsPending
    <3> HIDE DEF o2, v
    <3>3. Changed(w1, w2, q, o2, w1.saw)  BY <2>4, <3>1, PageUpdate
    <3> HIDE DEF w2
    <3>4. Changed(w, w2, q, o2, w.saw)
      <4>1. [w1.obs EXCEPT ![q] = o2] = [w.obs EXCEPT ![q] = o2]  BY <1>0, <2>3 DEF Changed
      <4> QED BY <4>1, <3>3, <2>3 DEF Changed
    <3>5. Keeps(w, w2, q) /\ w2.obs[q] = o2 /\ w2.saw = w.saw /\ w2.col = w.col
      BY <3>1, <3>4, ChangedKeeps
    <3>6. ColumnsHear(w, w2, q, changes)  BY <1>3, <2>5, <3>1, <3>5 DEF ColumnsHear, st
    <3> QED BY <3>2, <3>6, Zenon DEF v
  <2>6. CASE ~(o.fetching \/ IsSimple(q))
    <3> DEFINE o3 == [o1 EXCEPT !.last = o.observed]
               saw == [c \in Consumers |-> IF c \in o.subs THEN Sight(w, q, o.observed) ELSE w.saw[c]]
    <3>0. o.observed \in Lists  BY <1>0 DEF Lists
    <3>1. /\ o3 \in Obs /\ o3.list = o.list /\ o3.last = o.observed /\ o3.subs = o.subs /\ o3.age = o.age
          /\ o3.observed = o.observed /\ o3.first = o.first /\ o3.pending = o.pending
          /\ o3.states = st /\ o3.missed = o.missed /\ o3.fetching = o.fetching
      BY <2>2, <3>0 DEF Obs
    <3>2. v = d  BY <2>1, <2>6
    <3>3. Sight(w1, q, o.observed) = Sight(w, q, o.observed)  BY <2>4 DEF Sight
    <3>4. Changed(w1, d, q, o3,
             [c \in Consumers |-> IF c \in w1.obs[q].subs THEN Sight(w1, q, o.observed) ELSE w1.saw[c]])
      BY <1>0, <2>2, <2>4, DeliveredIs
    <3> HIDE DEF d, o3, v
    <3>5. Changed(w1, d, q, o3, saw)  BY <3>3, <3>4, <2>2, <2>4
    <3>6. Changed(w, d, q, o3, saw)
      <4>1. [w1.obs EXCEPT ![q] = o3] = [w.obs EXCEPT ![q] = o3]  BY <1>0, <2>3 DEF Changed
      <4> QED BY <4>1, <3>5, <2>3 DEF Changed
    <3>7. (\A c \in Consumers \ o.subs : saw[c] = w.saw[c]) /\ \A c \in o.subs : saw[c] = Sight(w, q, o.observed)
      BY <1>0 DEF Obs
    <3> HIDE DEF saw
    <3>8. Keeps(w, d, q) /\ d.obs[q] = o3 /\ d.saw = saw /\ d.col = w.col
      BY <3>1, <3>6, <3>7, ChangedKeeps
    <3>9. ColumnsHear(w, d, q, changes)  BY <1>3, <2>6, <3>1, <3>7, <3>8 DEF ColumnsHear, st
    <3> QED BY <3>2, <3>9, Zenon DEF v
  <2> QED BY <2>5, <2>6
<1> QED BY <1>2, <1>3

\* A page between two steps.
Calmed(w) == [w EXCEPT !.failing = FALSE, !.inSource = "no"]
\* The end of a step changes nothing an observer holds.
LEMMA CalmedPage ==
  ASSUME NEW w \in Page
  PROVE  LET v == Calmed(w) IN
         /\ v \in Page /\ v.obs = w.obs /\ v.db = w.db /\ v.col = w.col /\ v.raw = w.raw /\ v.at = w.at
         /\ v.saw = w.saw /\ v.bad = w.bad /\ v.failing = FALSE /\ v.inSource = "no"
BY DEF Calmed, Page

\* Fetching is the same whether the flags of the step are set or not.
LEMMA CalmedFetching ==
  ASSUME NEW w \in Page, NEW v \in Page, NEW q \in Queries, Fetching(w, v, q)
  PROVE  Fetching(Calmed(w), Calmed(v), q)
<1> DEFINE x == Calmed(w)
           y == Calmed(v)
<1>1. /\ x \in Page /\ x.obs = w.obs /\ x.db = w.db /\ x.col = w.col /\ x.raw = w.raw /\ x.at = w.at
      /\ x.saw = w.saw /\ x.bad = w.bad /\ x.failing = FALSE /\ x.inSource = "no"
      /\ y \in Page /\ y.obs = v.obs /\ y.db = v.db /\ y.col = v.col /\ y.raw = v.raw /\ y.at = v.at
      /\ y.saw = v.saw /\ y.bad = v.bad /\ y.failing = FALSE /\ y.inSource = "no"
  BY CalmedPage
<1> HIDE DEF x, y
<1>2. Keeps(w, v, q) => Keeps(x, y, q)  BY <1>1 DEF Keeps
<1>3. Idles(w, v, q) => Idles(x, y, q)  BY <1>1, <1>2 DEF Idles
<1>4. StatesOf(x, q, Result) = StatesOf(w, q, Result) /\ Sight(x, q, Result) = Sight(w, q, Result)
      /\ Grown(x, q) = Grown(w, q) /\ (Known(w, Result) <=> Known(x, Result))
  BY <1>1 DEF StatesOf, Sight, Grown, Known
<1>5. Emission(w, v, q, Result) => Emission(x, y, q, Result)  BY <1>1, <1>2, <1>4 DEF Emission
<1>6. Answering(w, v, q, Result) => Answering(x, y, q, Result)  BY <1>1, <1>3, <1>4, <1>5 DEF Answering
<1>7. Fetching(x, y, q)  BY <1>1, <1>3, <1>6 DEF Fetching
<1> QED BY <1>7 DEF x, y

\* _subscribeToSource: who listens, then the fetch.
Beginning(w, v, q) ==
  /\ v \in Page
  /\ v.obs = w.obs /\ v.raw = w.raw /\ v.at = w.at /\ v.saw = w.saw
  /\ v.inSource = w.inSource /\ v.failing = w.failing /\ v.bad = w.bad
  /\ v.db = IF IsSimple(q) THEN w.db ELSE Append(w.db, Source(q))
  /\ v.col = IF HasColumns(q) THEN Append(w.col, Columns(q)) ELSE w.col

\* _subscribeToSource registers the entries, then fetches.
LEMMA StartedIs ==
  ASSUME NEW w \in Page, NEW q \in Queries, w.obs[q].subs # {}
  PROVE  \E w2 \in Page : Beginning(w, w2, q) /\ Fetching(w2, Started(w, q), q)
<1> DEFINE w1 == IF HasColumns(q) THEN [w EXCEPT !.col = Append(w.col, Columns(q))] ELSE w
           w2 == IF IsSimple(q) THEN w1 ELSE [w1 EXCEPT !.db = Append(w1.db, Source(q))]
<1>0. w.db \in Seq(Entries) /\ w.col \in Seq(Entries) /\ Source(q) \in Entries /\ Columns(q) \in Entries
  BY DEF Page, Source, Columns, Entries
<1>1. Append(w.db, Source(q)) \in Seq(Entries) /\ Append(w.col, Columns(q)) \in Seq(Entries)
  BY <1>0
<1>2. /\ w1 \in Page /\ w1.obs = w.obs /\ w1.raw = w.raw /\ w1.at = w.at /\ w1.saw = w.saw
      /\ w1.inSource = w.inSource /\ w1.failing = w.failing /\ w1.bad = w.bad /\ w1.db = w.db
      /\ w1.col = IF HasColumns(q) THEN Append(w.col, Columns(q)) ELSE w.col
  BY <1>1 DEF Page
<1>3. Started(w, q) = Fetches(w2, q)  BY DEF Started
<1> HIDE DEF w1
<1>4. Beginning(w, w2, q)  BY <1>1, <1>2 DEF Page, Beginning
<1>5. w2 \in Page /\ w2.obs[q].subs # {}  BY <1>4 DEF Beginning
<1> HIDE DEF w2
<1>6. Fetching(w2, Fetches(w2, q), q)  BY <1>5, FetchesIs
<1> QED BY <1>3, <1>4, <1>5, <1>6

-----------------------------------------------------------------------------
\* Requests on their way: the answers first, then what the driver has to do.
Requests == [do : {"batch"}] \cup [do : {"fetch"}, query : Queries, age : Nat]
Answers ==
  [do : {"batch"}]
  \cup [do : {"fetch"}, query : Queries, age : Nat, list : SUBSET Records, failed : BOOLEAN]
Notices ==
  [phase : {"none", "db", "collection", "invalidate"}, changes : Seq(Changes),
   next : Nat \ {0}, length : Nat, todo : SUBSET Queries]

Typed ==
  /\ sync \in BOOLEAN /\ kind \in [Queries -> Kinds]
  /\ rows \in [Records -> Values]
  /\ batch \in Batches \cup {None}
  /\ notify \in Notices
  /\ deferred \in Seq(Changes) \cup {None}
  /\ sent \in Seq(Requests) /\ answers \in Seq(Answers)
  /\ js \in Page /\ js.inSource = "no" /\ js.failing = FALSE /\ js.bad = FALSE
  /\ spoiled \in SUBSET Records

Ways == Len(answers) + Len(sent)
Item(i) == IF i <= Len(answers) THEN answers[i] ELSE sent[i - Len(answers)]

Channel ==
  /\ batch = None => \A i \in 1..Ways : Item(i).do = "fetch"
  /\ batch # None =>
       \E i \in 1..Ways : /\ \A j \in 1..Ways : Item(j).do = "batch" <=> j = i
                          /\ batch.state = "sent" <=> i > Len(answers)

Active(q) == js.obs[q].subs # {}
Current(q, i) == Item(i).do = "fetch" /\ Item(i).query = q /\ Item(i).age = js.obs[q].age
OnWay(q) == \E i \in 1..Ways : Current(q, i)

\* Nothing is on its way to a source of later, or to one that is not subscribed to.
Aged(q) ==
  /\ \A i \in 1..Ways : Item(i).do = "fetch" /\ Item(i).query = q => Item(i).age <= js.obs[q].age
  /\ ~Active(q) => ~OnWay(q) /\ js.obs[q] = Idle(js.obs[q].age)
\* A simple observer fetches once.
Once(q) ==
  IsSimple(q) =>
    /\ js.obs[q].list # None \/ js.obs[q].missed => ~OnWay(q)
    /\ js.obs[q].list # None => ~js.obs[q].missed
    /\ \A i, j \in 1..Ways : Current(q, i) /\ Current(q, j) => i = j

MoveShape ==
  /\ Ways' = Ways /\ Len(answers') = Len(answers) + 1
  /\ \A i \in 1..Ways :
       /\ (Item(i).do)' = Item(i).do
       /\ Item(i).do = "fetch" => (Item(i).query)' = Item(i).query /\ (Item(i).age)' = Item(i).age
TailShape ==
  /\ Ways' = Ways - 1 /\ Len(answers') = Len(answers) - 1
  /\ \A i \in 1..(Ways - 1) : Item(i)' = Item(i + 1)
AppendShape(m) ==
  /\ Ways' = Ways + 1 /\ Len(answers') = Len(answers)
  /\ \A i \in 1..Ways : Item(i)' = Item(i)
  /\ Item(Ways)' = m

\* The items on their way are requests and answers.
LEMMA WaysType ==
  ASSUME Typed
  PROVE  /\ Len(answers) \in Nat /\ Len(sent) \in Nat /\ Ways \in Nat
         /\ \A i \in 1..Ways : /\ Item(i) \in Answers \cup Requests
                               /\ Item(i).do \in {"batch", "fetch"}
                               /\ Item(i).do = "fetch" => Item(i).query \in Queries /\ Item(i).age \in Nat
<1>1. Len(answers) \in Nat /\ Len(sent) \in Nat /\ answers \in Seq(Answers) /\ sent \in Seq(Requests)
  BY DEF Typed
<1>2. Ways \in Nat  BY <1>1 DEF Ways
<1>3. ASSUME NEW i \in 1..Ways PROVE Item(i) \in Answers \cup Requests
  <2>1. CASE i <= Len(answers)  BY <1>1, <2>1 DEF Item, Ways
  <2>2. CASE ~(i <= Len(answers))
    <3>1. i - Len(answers) \in 1..Len(sent)  BY <1>1, <2>2 DEF Ways
    <3> QED BY <1>1, <2>2, <3>1 DEF Item
  <2> QED BY <2>1, <2>2
<1>4. \A m \in Answers \cup Requests :
        m.do \in {"batch", "fetch"} /\ (m.do = "fetch" => m.query \in Queries /\ m.age \in Nat)
  BY DEF Answers, Requests
<1> QED BY <1>1, <1>2, <1>3, <1>4

\* The driver executes a request.
LEMMA Moves ==
  ASSUME Typed, sent # <<>>, sent' = Tail(sent), NEW m \in Answers, answers' = Append(answers, m),
         m.do = Head(sent).do,
         m.do = "fetch" => m.query = Head(sent).query /\ m.age = Head(sent).age
  PROVE  MoveShape /\ sent' \in Seq(Requests) /\ answers' \in Seq(Answers)
         /\ (\A i \in 1..Len(answers) : answers'[i] = answers[i]) /\ answers'[Len(answers')] = m
<1> DEFINE a == Len(answers)
           b == Len(sent)
<1>1. /\ a \in Nat /\ b \in Nat \ {0} /\ Len(answers') = a + 1 /\ Len(sent') = b - 1
      /\ Head(sent) = sent[1]
      /\ answers' \in Seq(Answers) /\ sent' \in Seq(Requests)
      /\ (\A i \in 1..a : answers'[i] = answers[i]) /\ answers'[a + 1] = m
      /\ \A i \in 1..(b - 1) : sent'[i] = sent[i + 1]
  BY DEF Typed
<1> HIDE DEF a, b
<1>2. Ways = a + b /\ Ways' = Ways  BY <1>1 DEF Ways, a, b
<1>3. ASSUME NEW i \in 1..Ways
      PROVE  /\ (Item(i).do)' = Item(i).do
             /\ Item(i).do = "fetch" => (Item(i).query)' = Item(i).query /\ (Item(i).age)' = Item(i).age
  <2>1. i \in Nat /\ 1 <= i /\ i <= a + b  BY <1>1, <1>2
  <2>2. CASE i <= a
    <3>1. Item(i)' = Item(i)  BY <1>1, <2>1, <2>2 DEF Item, a
    <3> QED BY <3>1
  <2>3. CASE i = a + 1
    <3>1. Item(i)' = m  BY <1>1, <2>3 DEF Item
    <3>2. Item(i) = sent[1]  BY <1>1, <2>3 DEF Item, a
    <3> QED BY <1>1, <3>1, <3>2
  <2>4. CASE i > a + 1
    <3>1. Item(i)' = sent'[i - (a + 1)]  BY <1>1, <2>1, <2>4 DEF Item
    <3>2. Item(i) = sent[i - a]  BY <1>1, <2>1, <2>4 DEF Item, a
    <3>3. i - (a + 1) \in 1..(b - 1) /\ (i - (a + 1)) + 1 = i - a  BY <1>1, <2>1, <2>4
    <3>4. Item(i)' = Item(i)  BY <1>1, <3>1, <3>2, <3>3
    <3> QED BY <3>4
  <2> QED BY <1>1, <2>1, <2>2, <2>3, <2>4
<1> QED BY <1>1, <1>2, <1>3 DEF MoveShape, a

\* JavaScript handles an answer.
LEMMA Tails ==
  ASSUME Typed, answers # <<>>, answers' = Tail(answers), sent' = sent
  PROVE  TailShape /\ answers' \in Seq(Answers) /\ Item(1) = Head(answers) /\ 1 \in 1..Ways
         /\ Head(answers) \in Answers /\ \A i \in 1..(Len(answers) - 1) : answers'[i] = answers[i + 1]
<1> DEFINE a == Len(answers)
           b == Len(sent)
<1>1. /\ a \in Nat \ {0} /\ b \in Nat /\ Len(answers') = a - 1 /\ Len(sent') = b
      /\ Head(answers) = answers[1] /\ Head(answers) \in Answers
      /\ answers' \in Seq(Answers)
      /\ \A i \in 1..(a - 1) : answers'[i] = answers[i + 1]
  BY DEF Typed
<1> HIDE DEF a, b
<1>2. Ways = a + b /\ Ways' = Ways - 1  BY <1>1 DEF Ways, a, b
<1>3. Item(1) = answers[1] /\ 1 \in 1..Ways  BY <1>1, <1>2 DEF Item, a
<1>4. ASSUME NEW i \in 1..(Ways - 1) PROVE Item(i)' = Item(i + 1)
  <2>1. i \in Nat /\ 1 <= i /\ i <= a + b - 1  BY <1>1, <1>2
  <2>2. CASE i <= a - 1  BY <1>1, <2>1, <2>2 DEF Item, a
  <2>3. CASE ~(i <= a - 1)
    <3>1. Item(i)' = sent'[i - (a - 1)]  BY <1>1, <2>1, <2>3 DEF Item
    <3>2. Item(i + 1) = sent[(i + 1) - a]  BY <1>1, <2>1, <2>3 DEF Item, a
    <3>3. (i + 1) - a = i - (a - 1)  BY <1>1, <2>1
    <3> QED BY <3>1, <3>2, <3>3
  <2> QED BY <2>2, <2>3
<1> QED BY <1>1, <1>2, <1>3, <1>4 DEF TailShape, a

\* JavaScript sends a request.
LEMMA Appends ==
  ASSUME Typed, NEW m \in Requests, sent' = Append(sent, m), answers' = answers
  PROVE  AppendShape(m) /\ sent' \in Seq(Requests)
<1> DEFINE a == Len(answers)
           b == Len(sent)
<1>1. /\ a \in Nat /\ b \in Nat /\ Len(sent') = b + 1 /\ sent' \in Seq(Requests)
      /\ (\A i \in 1..b : sent'[i] = sent[i]) /\ sent'[b + 1] = m
  BY DEF Typed
<1> HIDE DEF a, b
<1>2. Ways = a + b /\ Ways' = a + b + 1  BY <1>1 DEF Ways, a, b
<1>3. Len(answers') = a /\ Len(answers) = a  BY DEF a
<1>4. Item(Ways)' = sent'[(a + b + 1) - a]  BY <1>1, <1>2, <1>3 DEF Item
<1>5. (a + b + 1) - a = b + 1  BY <1>1
<1>6. ASSUME NEW i \in 1..Ways PROVE Item(i)' = Item(i)
  <2>1. i \in Nat /\ 1 <= i /\ i <= a + b  BY <1>1, <1>2
  <2>2. CASE i <= a  BY <1>3, <2>2 DEF Item
  <2>3. CASE ~(i <= a)
    <3>1. i - a \in 1..b  BY <1>1, <2>1, <2>3
    <3> QED BY <1>1, <1>3, <2>1, <2>3, <3>1 DEF Item
  <2> QED BY <2>2, <2>3
<1> QED BY <1>1, <1>2, <1>3, <1>4, <1>5, <1>6 DEF AppendShape

\* What is on its way to a query is the same when no request or answer moved.
LEMMA AgedUnmoved ==
  ASSUME NEW q, Typed, sent' = sent, answers' = answers, js.obs[q].age' = js.obs[q].age
  PROVE  (\A i \in 1..Ways : Current(q, i)' <=> Current(q, i)) /\ Ways' = Ways /\ (OnWay(q)' <=> OnWay(q))
<1>1. Ways' = Ways  BY DEF Ways
<1>2. \A i \in 1..Ways : Current(q, i)' <=> Current(q, i)  BY DEF Current, Item
<1> QED BY <1>1, <1>2 DEF OnWay

\* What is on its way to a query stays when the driver executed a request.
LEMMA AgedMoved ==
  ASSUME NEW q, Typed, MoveShape, js.obs[q].age' = js.obs[q].age
  PROVE  (\A i \in 1..Ways : Current(q, i)' <=> Current(q, i)) /\ Ways' = Ways /\ (OnWay(q)' <=> OnWay(q))
<1>1. Ways' = Ways  BY DEF MoveShape
<1>2. \A i \in 1..Ways : Current(q, i)' <=> Current(q, i)
  BY DEF Current, MoveShape
<1> QED BY <1>1, <1>2 DEF OnWay

\* What is on its way to a query is one less when JavaScript handled an answer.
LEMMA AgedTailed ==
  ASSUME NEW q, Typed, TailShape, js.obs[q].age' = js.obs[q].age
  PROVE  /\ \A i \in 1..(Ways - 1) : Current(q, i)' <=> Current(q, i + 1)
         /\ Ways' = Ways - 1
         /\ OnWay(q)' <=> \E i \in 2..Ways : Current(q, i)
<1>0. Ways \in Nat /\ Ways' = Ways - 1 BY WaysType DEF TailShape
<1>1. \A i \in 1..(Ways - 1) : Current(q, i)' <=> Current(q, i + 1)
  BY DEF Current, TailShape
<1>2. \A i \in 2..Ways : i - 1 \in 1..(Ways - 1) /\ (i - 1) + 1 = i  BY <1>0
<1>3. \A i \in 1..(Ways - 1) : i + 1 \in 2..Ways  BY <1>0
<1>4. OnWay(q)' => \E i \in 2..Ways : Current(q, i)
  BY <1>0, <1>1, <1>3 DEF OnWay
<1>5. ASSUME NEW i \in 2..Ways, Current(q, i) PROVE OnWay(q)'
  <2>1. Current(q, i - 1)'  BY <1>1, <1>2, <1>5
  <2> QED BY <1>0, <1>2, <2>1 DEF OnWay
<1> QED BY <1>0, <1>1, <1>4, <1>5

\* What is on its way to a query may be one more when JavaScript sent a request.
LEMMA AgedAppended ==
  ASSUME NEW q, NEW m, Typed, AppendShape(m), js.obs[q].age' = js.obs[q].age
  PROVE  /\ \A i \in 1..Ways : Current(q, i)' <=> Current(q, i)
         /\ Ways' = Ways + 1
         /\ Current(q, Ways)' <=> m.do = "fetch" /\ m.query = q /\ m.age = js.obs[q].age
         /\ OnWay(q)' <=> OnWay(q) \/ (m.do = "fetch" /\ m.query = q /\ m.age = js.obs[q].age)
<1>0. Ways \in Nat /\ Ways' = Ways + 1 BY WaysType DEF AppendShape
<1>1. \A i \in 1..Ways : Current(q, i)' <=> Current(q, i)
  BY DEF Current, AppendShape
<1>2. Current(q, Ways)' <=> m.do = "fetch" /\ m.query = q /\ m.age = js.obs[q].age
  BY DEF Current, AppendShape
<1>3. \A i \in 1..(Ways + 1) : i \in 1..Ways \/ i = Ways + 1  BY <1>0
<1>4. Ways + 1 \in 1..(Ways + 1) /\ \A i \in 1..Ways : i \in 1..(Ways + 1)  BY <1>0
<1>5. \A i : i = Ways + 1 => (Current(q, i)' <=> Current(q, Ways)')
  BY <1>0 DEF Current, Item
<1> QED BY <1>0, <1>1, <1>2, <1>3, <1>4, <1>5 DEF OnWay

-----------------------------------------------------------------------------
\* The entries of a query, and what its observer holds.
Listed(q) ==
  /\ In(js.db, Source(q)) <=> Active(q) /\ ~IsSimple(q)
  /\ ~In(js.db, Columns(q))
  /\ In(js.col, Columns(q)) <=> Active(q) /\ HasColumns(q)
  /\ In(js.col, Source(q)) <=> Active(q) /\ IsSimple(q) /\ js.obs[q].list # None
  /\ Before(js.col, Columns(q), Source(q))
Registered ==
  /\ Distinct(js.db) /\ Distinct(js.col)
  /\ \A q \in Queries : Listed(q) /\ js.obs[q].subs = {c \in Consumers : js.at[c] = q}
Shown(w, q) ==
  LET o == w.obs[q] IN
  /\ o.observed = {r \in Records : o.states[r] # None}
  /\ Known(w, o.observed)
  /\ o.list # None => Known(w, o.list)
Wired ==
  /\ Typed /\ Channel /\ Registered
  /\ \A q \in Queries : Aged(q) /\ Once(q) /\ Shown(js, q)

\* Entries of different queries and parts are different.
LEMMA EntryFacts ==
  \A p, q : /\ Source(p) # Columns(q)
            /\ (Source(p) = Source(q) => p = q) /\ (Columns(p) = Columns(q) => p = q)
            /\ (p \in Queries => Source(p) \in Entries /\ Columns(p) \in Entries)
<1> TAKE p, q
<1>1. Source(p).part = "source" /\ Columns(q).part = "columns"  BY DEF Source, Columns
<1>2. Source(p).query = p /\ Source(q).query = q /\ Columns(p).query = p /\ Columns(q).query = q
  BY DEF Source, Columns
<1>3. p \in Queries => Source(p) \in Entries /\ Columns(p) \in Entries
  BY DEF Source, Columns, Entries
<1>4. Source(p) # Columns(q)  BY <1>1
<1>5. (Source(p) = Source(q) => p = q) /\ (Columns(p) = Columns(q) => p = q)
  BY <1>2
<1> QED BY <1>3, <1>4, <1>5

\* An entry is the source or the columns of its query.
LEMMA EntryIs ==
  ASSUME NEW e \in Entries
  PROVE  /\ e.query \in Queries
         /\ (e.part = "source" /\ e = Source(e.query)) \/ (e.part = "columns" /\ e = Columns(e.query))
BY DEF Entries, Source, Columns

\* A list of entries the observer of a query adds to, or leaves.
LEMMA RegisteredKeeps ==
  ASSUME Typed, Registered, NEW q \in Queries, Active(q), Keeps(js, js', q), kind' = kind,
         \/ js'.col = js.col /\ (IsSimple(q) => (js'.obs[q].list = None <=> js.obs[q].list = None))
         \/ IsSimple(q) /\ js.obs[q].list = None /\ js'.obs[q].list # None /\ js'.col = Append(js.col, Source(q))
  PROVE  Registered'
<1>1. /\ js \in Page /\ js.db \in Seq(Entries) /\ js.col \in Seq(Entries)
      /\ js'.db = js.db /\ js'.at = js.at
      /\ (\A p \in Queries \ {q} : js'.obs[p] = js.obs[p]) /\ js'.obs[q].subs = js.obs[q].subs
  BY DEF Typed, Page, Keeps
<1>2. \A p \in Queries : (IsSimple(p)' <=> IsSimple(p)) /\ (HasColumns(p)' <=> HasColumns(p)) /\ (Active(p)' <=> Active(p))
                         /\ js'.obs[p].subs = js.obs[p].subs
  BY <1>1 DEF IsSimple, HasColumns, Active
<1>3. CASE js'.col = js.col /\ (IsSimple(q) => (js'.obs[q].list = None <=> js.obs[q].list = None))
  BY <1>1, <1>2, <1>3 DEF Registered, Listed
<1>4. CASE IsSimple(q) /\ js.obs[q].list = None /\ js'.obs[q].list # None /\ js'.col = Append(js.col, Source(q))
  <2>0. ~In(js.col, Source(q)) /\ Source(q) \in Entries /\ Listed(q)  BY <1>4, EntryFacts DEF Registered, Listed
  <2>1. /\ \A x : In(js'.col, x) <=> In(js.col, x) \/ x = Source(q)
        /\ Distinct(js.col) /\ ~In(js.col, Source(q)) => Distinct(js'.col)
        /\ \A a, b : Before(js.col, a, b) /\ ~(a = Source(q) /\ In(js.col, b)) /\ a # b => Before(js'.col, a, b)
    BY <1>1, <1>4, <2>0, AppendedEntry
  <2>2. Distinct(js'.col)  BY <2>0, <2>1 DEF Registered
  <2>3. \A p \in Queries : Before(js'.col, Columns(p), Source(p))
    BY <2>1, EntryFacts DEF Registered, Listed
  <2>4. \A p \in Queries : Listed(p)'
    <3> SUFFICES ASSUME NEW p \in Queries PROVE Listed(p)'  OBVIOUS
    <3>1. In(js'.col, Columns(p)) <=> In(js.col, Columns(p))  BY <2>1, EntryFacts
    <3>2. CASE p = q
      <4>1. In(js'.col, Source(p))  BY <2>1, <3>2
      <4> QED BY <1>1, <1>2, <1>4, <2>0, <2>3, <3>1, <3>2, <4>1 DEF Listed, Active
    <3>3. CASE p # q
      <4>1. In(js'.col, Source(p)) <=> In(js.col, Source(p))  BY <2>1, <3>3, EntryFacts
      <4> QED BY <1>1, <1>2, <2>3, <3>1, <3>3, <4>1 DEF Listed, Registered, Active
    <3> QED BY <3>2, <3>3
  <2> QED BY <1>1, <1>2, <2>2, <2>4 DEF Registered
<1> QED BY <1>3, <1>4

\* What is shown after an emission, a change of columns, or neither.
LEMMA ShownKeeps ==
  ASSUME NEW w \in Page, NEW v, NEW q \in Queries, NEW p \in Queries, Keeps(w, v, q), Shown(v, q), Shown(w, p)
  PROVE  Shown(v, p)
<1>1. v.raw = w.raw /\ (p # q => v.obs[p] = w.obs[p])  BY DEF Keeps
<1> QED BY <1>1 DEF Shown, Known

\* Models that only gain values.
LEMMA ShownRaw ==
  ASSUME NEW w, NEW v, NEW p \in Queries, Shown(w, p), v.obs[p] = w.obs[p],
         w.obs[p].observed \subseteq Records, w.obs[p].list \in Lists,
         \A r \in Records : w.raw[r] # None => v.raw[r] # None
  PROVE  Shown(v, p)
BY DEF Shown, Known, Lists

\* Observed and listed records have Models after an emission of records with Models.
LEMMA ShownEmission ==
  ASSUME NEW w \in Page, NEW v, NEW q \in Queries, Shown(w, q), NEW l \in SUBSET Records, Known(w, l),
         Emission(w, v, q, l)
  PROVE  Shown(v, q)
<1> DEFINE o == w.obs[q]
           new == v.obs[q]
<1>1. v.raw = w.raw /\ new.list = l  BY DEF Emission, Keeps
<1>2. o.states \in [Records -> Values] /\ o.observed \subseteq Records  BY DEF Page, Obs
<1>3. Known(v, l)  BY <1>1 DEF Known
<1>4. CASE HasColumns(q)
  <2>1. new.observed = l /\ new.states = StatesOf(w, q, l)  BY <1>4 DEF Emission
  <2>2. \A r \in Records : new.states[r] # None <=> r \in l
    BY <1>2, <2>1 DEF StatesOf, Shown, Known
  <2>3. new.observed = {r \in Records : new.states[r] # None}  BY <2>1, <2>2
  <2> QED BY <1>1, <1>3, <2>1, <2>3 DEF Shown
<1>5. CASE ~HasColumns(q)
  <2>1. new.observed = o.observed /\ new.states = o.states  BY <1>5 DEF Emission
  <2> QED BY <1>1, <1>3, <2>1 DEF Shown, Known
<1> QED BY <1>4, <1>5

\* Observed and listed records have Models when nothing was shown.
LEMMA ShownIdles ==
  ASSUME NEW w \in Page, NEW v, NEW q \in Queries, Shown(w, q), Idles(w, v, q)
  PROVE  Shown(v, q)
<1>1. v.raw = w.raw  BY DEF Idles, Keeps
<1>2. v.obs[q].list = w.obs[q].list /\ v.obs[q].observed = w.obs[q].observed /\ v.obs[q].states = w.obs[q].states
  BY DEF Idles
<1> QED BY <1>1, <1>2 DEF Shown, Known

\* Observed and listed records have Models when the columns were compared.
LEMMA ShownHear ==
  ASSUME NEW w \in Page, NEW v, NEW q \in Queries, Shown(w, q), NEW changes, ColumnsHear(w, v, q, changes)
  PROVE  Shown(v, q)
<1> DEFINE o == w.obs[q]
           new == v.obs[q]
<1>1. v.raw = w.raw /\ new.list = o.list /\ new.observed = o.observed
      /\ new.states = [r \in Records |-> IF r \in StatesChanged(w, q, changes) THEN w.raw[r] ELSE o.states[r]]
  BY DEF ColumnsHear, Keeps
<1>2. \A r \in Records : new.states[r] # None <=> o.states[r] # None
  BY <1>1 DEF StatesChanged, Shown, Known
<1> HIDE DEF new, o
<1>3. new.observed = {r \in Records : new.states[r] # None}  BY <1>1, <1>2 DEF Shown, o
<1> QED BY <1>1, <1>3 DEF Shown, Known, new, o

\* Observed and listed records have Models after a fetch.
LEMMA ShownFetching ==
  ASSUME NEW w \in Page, NEW v, NEW q \in Queries, Shown(w, q), Fetching(w, v, q)
  PROVE  Shown(v, q)
<1>1. Result \in SUBSET Records  BY DEF Result
<1>2. Idles(w, v, q) \/ (Emission(w, v, q, Result) /\ Known(w, Result))  BY DEF Fetching, Answering
<1> QED BY <1>1, <1>2, ShownIdles, ShownEmission

-----------------------------------------------------------------------------

\* Fetching for a query leaves alone what is not that query's.
LEMMA FetchingKeeps ==
  ASSUME NEW w, NEW v, NEW q, Fetching(w, v, q)
  PROVE  Keeps(w, v, q)
BY DEF Fetching, Answering, Idles, Emission

\* The subscriber that is called is in the list.
LEMMA HeardEntry ==
  ASSUME Wired, NEW list \in {js.db, js.col}, Heard(list)
  PROVE  /\ notify.next \in DOMAIN list /\ list[notify.next] \in Entries
         /\ In(list, list[notify.next])
<1>1. list \in Seq(Entries) /\ notify.next \in Nat \ {0}
  BY DEF Wired, Typed, Page, Notices
<1>2. notify.next \in 1..Len(list)  BY <1>1 DEF Heard
<1> QED BY <1>1, <1>2 DEF In

\* An answer counts only for the source that asked.
LEMMA FetchAnsweredIs ==
  ASSUME Wired, FetchAnswered
  PROVE  LET a == Head(answers) q == a.query IN
         /\ q \in Queries /\ a \in Answers /\ a.do = "fetch" /\ a.list \in SUBSET Records
         /\ TailShape /\ answers' \in Seq(Answers) /\ Item(1) = a /\ 1 \in 1..Ways
         /\ \/ Current(q, 1) /\ Active(q) /\ Answering(js, js', q, a.list)
            \/ ~Current(q, 1) /\ js' = js
<1> DEFINE a == Head(answers)
           q == a.query
<1>1. TailShape /\ answers' \in Seq(Answers) /\ Item(1) = a /\ 1 \in 1..Ways /\ a \in Answers
  BY Tails DEF FetchAnswered, Wired
<1>2. a.do = "fetch"  BY DEF FetchAnswered
<1>3. q \in Queries /\ a.list \in SUBSET Records  BY <1>1, <1>2 DEF Answers
<1>4. js' = IF a.age = js.obs[q].age THEN Answered(js, q, a.list, a.failed) ELSE js
  BY DEF FetchAnswered
<1> HIDE DEF a, q
<1>5. Current(q, 1) <=> a.age = js.obs[q].age
  BY <1>1, <1>2 DEF Current, q
<1>6. ASSUME Current(q, 1) PROVE Active(q)
  BY <1>1, <1>3, <1>6 DEF Wired, Aged, OnWay
<1>7. ASSUME Current(q, 1) PROVE Answering(js, js', q, a.list)
  <2>1. js \in Page /\ js.obs[q].subs # {}  BY <1>6, <1>7 DEF Wired, Typed, Active
  <2>2. js' = Answered(js, q, a.list, a.failed)  BY <1>4, <1>5, <1>7
  <2> QED BY <2>1, <2>2, <1>3, AnsweredIs
<1> QED BY <1>1, <1>2, <1>3, <1>4, <1>5, <1>6, <1>7 DEF a, q

\* Who hears in the first round: a reloading observer, which fetches.
LEMMA DatabaseHears ==
  ASSUME Wired, NotifyDatabase, Heard(js.db)
  PROVE  LET q == js.db[notify.next].query IN
         /\ q \in Queries /\ Active(q) /\ ~IsSimple(q)
         /\ notify.next \in DOMAIN js.db /\ js.db[notify.next] = Source(q)
         /\ Fetching(js, js', q) /\ Asks(q, js.obs[q].age)
         /\ notify' = [notify EXCEPT !.next = @ + 1]
<1> DEFINE e == js.db[notify.next]
           q == e.query
<1>1. notify.next \in DOMAIN js.db /\ e \in Entries /\ In(js.db, e)  BY HeardEntry
<1>2. q \in Queries /\ ((e.part = "source" /\ e = Source(q)) \/ (e.part = "columns" /\ e = Columns(q)))
  BY <1>1, EntryIs
<1>3. PICK fails \in BOOLEAN :
        js' = [Fetches([js EXCEPT !.failing = fails], q) EXCEPT !.failing = FALSE, !.inSource = "no"]
  BY DEF NotifyDatabase, Runs
<1>4. Asks(q, js.obs[q].age) /\ notify' = [notify EXCEPT !.next = @ + 1]
  BY DEF NotifyDatabase, Runs
<1> HIDE DEF e, q
<1>5. e = Source(q) /\ Active(q) /\ ~IsSimple(q)  BY <1>1, <1>2 DEF Wired, Registered, Listed
<1>6. Fetching(js, js', q)
  <2> DEFINE w == [js EXCEPT !.failing = fails]
             v == Fetches(w, q)
  <2>1. js \in Page /\ js.failing = FALSE /\ js.inSource = "no"  BY DEF Wired, Typed
  <2>2. w \in Page /\ w.obs = js.obs /\ Calmed(w) = js  BY <2>1 DEF Page, Calmed
  <2>3. js' = Calmed(v)  BY <1>3 DEF Calmed
  <2> HIDE DEF w
  <2>4. Fetching(w, v, q)  BY <1>2, <1>5, <2>2, FetchesIs DEF Active
  <2> HIDE DEF v
  <2>5. v \in Page  BY <2>4, FetchingKeeps DEF Keeps
  <2>6. Fetching(Calmed(w), Calmed(v), q)  BY <1>2, <2>2, <2>4, <2>5, CalmedFetching
  <2> QED BY <2>2, <2>3, <2>6
<1> QED BY <1>1, <1>2, <1>4, <1>5, <1>6 DEF e, q

\* Who hears in the second: columns, or a simple observer that has its list.
LEMMA CollectionHears ==
  ASSUME Wired, NotifyCollection, Heard(js.col)
  PROVE  LET e == js.col[notify.next] q == e.query IN
         /\ q \in Queries /\ Active(q) /\ notify.next \in DOMAIN js.col
         /\ notify' = [notify EXCEPT !.next = @ + 1]
         /\ \/ e = Columns(q) /\ HasColumns(q) /\ ColumnsHear(js, js', q, notify.changes)
            \/ /\ e = Source(q) /\ IsSimple(q) /\ js.obs[q].list # None
               /\ Emission(js, js', q, Processed(js.obs[q].list, js, notify.changes))
               /\ js'.col = js.col /\ js'.obs[q].missed = js.obs[q].missed
<1> DEFINE e == js.col[notify.next]
           q == e.query
<1>1. notify.next \in DOMAIN js.col /\ e \in Entries /\ In(js.col, e)  BY HeardEntry
<1>2. q \in Queries /\ ((e.part = "source" /\ e = Source(q)) \/ (e.part = "columns" /\ e = Columns(q)))
  BY <1>1, EntryIs
<1>3. js' = IF e.part = "columns" THEN ColumnsChanged(js, q, notify.changes)
            ELSE CollectionChanged(js, q, notify.changes)
  BY DEF NotifyCollection
<1>4. notify' = [notify EXCEPT !.next = @ + 1]  BY DEF NotifyCollection
<1> HIDE DEF e, q
<1>5. js \in Page  BY DEF Wired, Typed
<1>6. CASE e.part = "columns"
  <2>1. e = Columns(q) /\ Active(q) /\ HasColumns(q)  BY <1>1, <1>2, <1>6 DEF Wired, Registered, Listed
  <2>2. ColumnsHear(js, js', q, notify.changes)
    BY <1>2, <1>3, <1>5, <1>6, <2>1, ColumnsChangedIs DEF Active
  <2> QED BY <1>1, <1>2, <1>4, <2>1, <2>2 DEF e, q
<1>7. CASE e.part # "columns"
  <2>1. e = Source(q) /\ Active(q) /\ IsSimple(q) /\ js.obs[q].list # None
    BY <1>1, <1>2, <1>7 DEF Wired, Registered, Listed
  <2>2. Emission(js, js', q, Processed(js.obs[q].list, js, notify.changes))
        /\ js'.col = js.col /\ js'.obs[q].missed = js.obs[q].missed
    BY <1>2, <1>3, <1>5, <1>7, <2>1, CollectionChangedIs DEF Active
  <2> QED BY <1>1, <1>2, <1>4, <2>1, <2>2 DEF e, q
<1> QED BY <1>6, <1>7

\* A consumer joins, or leaves; the source is subscribed to again.
Alike(w, v) ==
  v \in Page /\ v.raw = w.raw /\ v.inSource = w.inSource /\ v.failing = w.failing /\ v.bad = w.bad
Joins(w, v, c, q) ==
  /\ Alike(w, v) /\ v.db = w.db /\ v.col = w.col
  /\ v.obs = [w.obs EXCEPT ![q] = [w.obs[q] EXCEPT !.subs = w.obs[q].subs \cup {c}]]
  /\ v.at = [w.at EXCEPT ![c] = q]
  /\ v.saw = [w.saw EXCEPT ![c] = IF w.obs[q].last # None THEN Sight(w, q, w.obs[q].last) ELSE None]
Leaves(w, v, c, q) ==
  /\ Alike(w, v)
  /\ v.at = [x \in Consumers |-> IF x \in {c} THEN None ELSE w.at[x]]
  /\ v.saw = [x \in Consumers |-> IF x \in {c} THEN None ELSE w.saw[x]]
  /\ IF w.obs[q].subs \ {c} = {}
     THEN /\ v.obs = [w.obs EXCEPT ![q] = Idle(w.obs[q].age + 1)]
          /\ v.db = Others(w.db, q) /\ v.col = Others(w.col, q)
     ELSE /\ v.obs = [w.obs EXCEPT ![q] = [w.obs[q] EXCEPT !.subs = w.obs[q].subs \ {c}]]
          /\ v.db = w.db /\ v.col = w.col
Restarts(w, v, q) ==
  /\ Alike(w, v) /\ v.at = w.at /\ v.saw = w.saw
  /\ v.obs = [w.obs EXCEPT ![q] = [Idle(w.obs[q].age + 1) EXCEPT !.subs = w.obs[q].subs]]
  /\ v.db = Others(w.db, q) /\ v.col = Others(w.col, q)

\* The state of a source that is not subscribed to is a state.
LEMMA IdleType ==
  ASSUME NEW age \in Nat
  PROVE  Idle(age) \in Obs
<1> DEFINE st == [r \in Records |-> None]
<1>1. st \in [Records -> Values] /\ None \in Lists  BY DEF Values, Lists
<1>2. {} \in SUBSET Consumers /\ {} \in SUBSET Records  OBVIOUS
<1>3. Idle(age) = [subs |-> {}, last |-> None, age |-> age, list |-> None, observed |-> {}, first |-> TRUE,
                   states |-> st, pending |-> FALSE, fetching |-> TRUE, missed |-> FALSE]
  BY DEF Idle
<1> HIDE DEF st
<1> QED BY <1>1, <1>2, <1>3 DEF Obs

\* A consumer is added, and given the last emission.
LEMMA JoinsIs ==
  ASSUME NEW w \in Page, NEW q \in Queries, NEW c \in Consumers,
         w.obs[q].last \in (SUBSET Records) \cup {None}
  PROVE  Joins(w, [w EXCEPT !.obs[q].subs = @ \cup {c}, !.at[c] = q, !.once = @,
                            !.saw[c] = IF w.obs[q].last # None THEN Sight(w, q, w.obs[q].last) ELSE None], c, q)
<1> DEFINE o == [w.obs[q] EXCEPT !.subs = w.obs[q].subs \cup {c}]
           obs == [w.obs EXCEPT ![q] = o]
           at == [w.at EXCEPT ![c] = q]
           sight == IF w.obs[q].last # None THEN Sight(w, q, w.obs[q].last) ELSE None
           saw == [w.saw EXCEPT ![c] = sight]
           v == [w EXCEPT !.obs = obs, !.at = at, !.once = w.once, !.saw = saw]
           u == [w EXCEPT !.obs[q].subs = @ \cup {c}, !.at[c] = q, !.once = @, !.saw[c] = sight]
<1>0. w.obs[q] \in Obs /\ w.obs \in [Queries -> Obs] /\ w.at \in [Consumers -> Queries \cup {None}]
      /\ w.saw \in [Consumers -> Sights \cup {None}]
  BY DEF Page
<1>1. o \in Obs  BY <1>0 DEF Obs
<1>2. sight \in Sights \cup {None}
  <2>1. CASE w.obs[q].last = None  BY <2>1
  <2>2. CASE w.obs[q].last # None
    <3>1. Sight(w, q, w.obs[q].last) \in Sights  BY <2>2, SightType
    <3> QED BY <2>2, <3>1
  <2> QED BY <2>1, <2>2
<1> HIDE DEF sight
<1>u. u = v  OBVIOUS
<1> HIDE DEF o
<1>3. obs \in [Queries -> Obs] /\ at \in [Consumers -> Queries \cup {None}] /\ saw \in [Consumers -> Sights \cup {None}]
  BY <1>0, <1>1, <1>2
<1> HIDE DEF obs, at, saw, u
<1>4. v \in Page /\ v.obs = obs /\ v.at = at /\ v.saw = saw /\ v.db = w.db /\ v.col = w.col /\ v.raw = w.raw
      /\ v.inSource = w.inSource /\ v.failing = w.failing /\ v.bad = w.bad
  BY <1>3 DEF Page
<1> HIDE DEF v
<1>5. Joins(w, u, c, q)  BY <1>u, <1>4 DEF Joins, Alike, obs, at, saw, sight, o
<1> QED BY <1>5, Zenon DEF u, sight

\* invalidate() forgets all but the subscribers.
LEMMA RestartsIs ==
  ASSUME NEW w \in Page, NEW q \in Queries, Distinct(w.db), Distinct(w.col)
  PROVE  Restarts(w, [w EXCEPT !.obs = [w.obs EXCEPT ![q] = [Idle(w.obs[q].age + 1) EXCEPT !.subs = w.obs[q].subs]],
                               !.db = Others(w.db, q), !.col = Others(w.col, q)], q)
<1> DEFINE idle == Idle(w.obs[q].age + 1)
           o == [idle EXCEPT !.subs = w.obs[q].subs]
           obs == [w.obs EXCEPT ![q] = o]
           db == Others(w.db, q)
           col == Others(w.col, q)
           v == [w EXCEPT !.obs = obs, !.db = db, !.col = col]
<1>0. w.obs[q] \in Obs /\ w.obs \in [Queries -> Obs] /\ w.db \in Seq(Entries) /\ w.col \in Seq(Entries)
  BY DEF Page
<1>1. db \in Seq(Entries) /\ col \in Seq(Entries)  BY <1>0, OthersFacts
<1>2. idle \in Obs
  <2>1. w.obs[q].age + 1 \in Nat  BY <1>0 DEF Obs
  <2> QED BY <2>1, IdleType
<1> HIDE DEF idle
<1>3. o \in Obs  BY <1>0, <1>2 DEF Obs
<1> HIDE DEF o, db, col
<1>4. obs \in [Queries -> Obs]  BY <1>0, <1>3
<1> HIDE DEF obs
<1>5. v \in Page /\ v.obs = obs /\ v.at = w.at /\ v.saw = w.saw /\ v.db = db /\ v.col = col /\ v.raw = w.raw
      /\ v.inSource = w.inSource /\ v.failing = w.failing /\ v.bad = w.bad
  BY <1>1, <1>4 DEF Page
<1> HIDE DEF v
<1>6. Restarts(w, v, q)  BY <1>5 DEF Restarts, Alike, obs, o, idle, db, col
<1> QED BY <1>6, Zenon DEF v, obs, o, idle, db, col

\* A consumer leaves; with the last one the source ends.
LEMMA LeavesIs ==
  ASSUME NEW w \in Page, NEW q \in Queries, NEW c \in Consumers, w.inSource = "no",
         Distinct(w.db), Distinct(w.col)
  PROVE  Leaves(w, Left(w, q, {c}), c, q)
<1> DEFINE o == [w.obs[q] EXCEPT !.subs = w.obs[q].subs \ {c}]
           obs == [w.obs EXCEPT ![q] = o]
           at == [x \in Consumers |-> IF x \in {c} THEN None ELSE w.at[x]]
           saw == [x \in Consumers |-> IF x \in {c} THEN None ELSE w.saw[x]]
           once == w.once \ {c}
           w1 == [w EXCEPT !.obs = obs, !.once = once, !.at = at, !.saw = saw]
           idle == Idle(w.obs[q].age + 1)
           db == Others(w.db, q)
           col == Others(w.col, q)
           obs2 == [w1.obs EXCEPT ![q] = Idle(w1.obs[q].age + 1)]
           w2 == [w1 EXCEPT !.obs = obs2, !.db = Others(w1.db, q), !.col = Others(w1.col, q)]
           v == Left(w, q, {c})
<1>0. w.obs[q] \in Obs /\ w.obs \in [Queries -> Obs] /\ w.at \in [Consumers -> Queries \cup {None}]
      /\ w.saw \in [Consumers -> Sights \cup {None}] /\ w.db \in Seq(Entries) /\ w.col \in Seq(Entries)
  BY DEF Page
<1>1. o \in Obs /\ o.subs = w.obs[q].subs \ {c} /\ o.age = w.obs[q].age  BY <1>0 DEF Obs
<1>2. v = IF w1.obs[q].subs = {} THEN Deactivated(w1, q) ELSE w1
  BY DEF Left
<1> HIDE DEF o
<1>3. obs \in [Queries -> Obs] /\ at \in [Consumers -> Queries \cup {None}] /\ saw \in [Consumers -> Sights \cup {None}]
      /\ once = {}
  BY <1>0, <1>1 DEF Page
<1> HIDE DEF obs, at, saw, once
<1>4. w1 \in Page /\ w1.obs = obs /\ w1.at = at /\ w1.saw = saw /\ w1.db = w.db /\ w1.col = w.col /\ w1.raw = w.raw
      /\ w1.inSource = w.inSource /\ w1.failing = w.failing /\ w1.bad = w.bad
  BY <1>3 DEF Page
<1>5. obs[q] = o  BY <1>0 DEF obs
<1>6. Deactivated(w1, q) = w2  BY <1>4 DEF Deactivated
<1> HIDE DEF w1, v
<1>7. CASE w.obs[q].subs \ {c} # {}
  <2>1. v = w1  BY <1>1, <1>2, <1>4, <1>5, <1>7
  <2>2. Leaves(w, w1, c, q)  BY <1>4, <1>7 DEF Leaves, Alike, obs, at, saw, o
  <2> QED BY <2>1, <2>2, Zenon DEF v
<1>8. CASE w.obs[q].subs \ {c} = {}
  <2>1. v = w2  BY <1>1, <1>2, <1>4, <1>5, <1>6, <1>8
  <2>2. obs2 = [w.obs EXCEPT ![q] = idle]  BY <1>0, <1>1, <1>4, <1>5 DEF obs
  <2>3. idle \in Obs
    <3>1. w.obs[q].age + 1 \in Nat  BY <1>0 DEF Obs
    <3> QED BY <3>1, IdleType
  <2>4. obs2 \in [Queries -> Obs]  BY <1>0, <2>2, <2>3
  <2>5. db \in Seq(Entries) /\ col \in Seq(Entries)  BY <1>0, OthersFacts
  <2>6. Others(w1.db, q) = db /\ Others(w1.col, q) = col  BY <1>4
  <2> HIDE DEF obs2, db, col, idle
  <2>7. w2 \in Page /\ w2.obs = obs2 /\ w2.at = at /\ w2.saw = saw /\ w2.db = db /\ w2.col = col /\ w2.raw = w.raw
        /\ w2.inSource = w.inSource /\ w2.failing = w.failing /\ w2.bad = w.bad
    BY <1>4, <2>4, <2>5, <2>6 DEF Page
  <2> HIDE DEF w2
  <2>8. Leaves(w, w2, c, q)  BY <1>8, <2>2, <2>7 DEF Leaves, Alike, at, saw, db, col, idle
  <2> QED BY <2>1, <2>8, Zenon DEF v
<1> QED BY <1>7, <1>8

\* Somebody subscribes: the source is subscribed to for the first.
LEMMA SubscribeIs ==
  ASSUME Wired, ~OnceAllowed, NEW c \in Consumers, NEW q \in Queries, NEW once \in BOOLEAN, Subscribe(c, q, once)
  PROVE  /\ js.at[c] = None
         /\ Active(q) => Joins(js, js', c, q) /\ sent' = sent
         /\ ~Active(q) => /\ Asks(q, js.obs[q].age)
                          /\ \E w1, w2 \in Page : Joins(js, w1, c, q) /\ Beginning(w1, w2, q) /\ Fetching(w2, js', q)
<1>0. js \in Page /\ js.failing = FALSE /\ js.inSource = "no" /\ ~once /\ js.at[c] = None
  BY DEF Wired, Typed, Subscribe
<1>1. PICK fails \in BOOLEAN :
        LET w == [js EXCEPT !.failing = fails]
            w1 == [w EXCEPT !.obs[q].subs = @ \cup {c}, !.at[c] = q, !.once = @,
                            !.saw[c] = IF js.obs[q].last # None THEN Sight(w, q, js.obs[q].last) ELSE None]
            w2 == IF js.obs[q].subs = {} THEN Started([w1 EXCEPT !.inSource = "subscribe"], q) ELSE w1
        IN js' = [w2 EXCEPT !.failing = FALSE, !.inSource = "no"]
  <2>1. PICK fails \in BOOLEAN :
          LET w == [js EXCEPT !.failing = fails]
              w1 == [w EXCEPT !.obs[q].subs = @ \cup {c}, !.at[c] = q,
                              !.once = IF once THEN @ \cup {c} ELSE @,
                              !.saw[c] = IF js.obs[q].last # None THEN Sight(w, q, js.obs[q].last) ELSE None]
              w2 == IF js.obs[q].subs = {} THEN Started([w1 EXCEPT !.inSource = "subscribe"], q) ELSE w1
              w3 == IF once /\ w2.saw[c] # None /\ w2.saw[c].list # {}
                    THEN Left([w2 EXCEPT !.inSource = "no"], q, {c}) ELSE w2
          IN js' = [w3 EXCEPT !.failing = FALSE, !.inSource = "no"]
    BY Zenon DEF Subscribe, Runs
  <2> DEFINE w == [js EXCEPT !.failing = fails]
             sight == IF js.obs[q].last # None THEN Sight(w, q, js.obs[q].last) ELSE None
             a(n) == [w EXCEPT !.obs[q].subs = @ \cup {c}, !.at[c] = q, !.once = n, !.saw[c] = sight]
             b(n) == IF js.obs[q].subs = {} THEN Started([a(n) EXCEPT !.inSource = "subscribe"], q) ELSE a(n)
  <2>2. (IF once THEN w.once \cup {c} ELSE w.once) = w.once  BY <1>0
  <2> DEFINE full(n) == [(IF once /\ b(n).saw[c] # None /\ b(n).saw[c].list # {}
                          THEN Left([b(n) EXCEPT !.inSource = "no"], q, {c}) ELSE b(n))
                           EXCEPT !.failing = FALSE, !.inSource = "no"]
  <2>3. js' = full(IF once THEN w.once \cup {c} ELSE w.once)  BY <2>1, Zenon
  <2>5. js' = full(w.once)
    <3> HIDE DEF full, w
    <3> QED BY <2>2, <2>3
  <2>4. js' = [b(w.once) EXCEPT !.failing = FALSE, !.inSource = "no"]
    <3> HIDE DEF b
    <3> QED BY <1>0, <2>5
  <2> QED BY <2>4, Zenon
<1> DEFINE w == [js EXCEPT !.failing = fails]
           w1 == [w EXCEPT !.obs[q].subs = @ \cup {c}, !.at[c] = q, !.once = @,
                           !.saw[c] = IF js.obs[q].last # None THEN Sight(w, q, js.obs[q].last) ELSE None]
           w2 == [w1 EXCEPT !.inSource = "subscribe"]
           v == Started(w2, q)
<1>2. js' = Calmed(IF js.obs[q].subs = {} THEN v ELSE w1)  BY <1>1 DEF Calmed
<1>3. w \in Page /\ w.obs = js.obs /\ w.db = js.db /\ w.col = js.col /\ w.raw = js.raw /\ w.at = js.at
      /\ w.saw = js.saw /\ w.bad = js.bad
  BY <1>0 DEF Page
<1>4. Joins(w, w1, c, q)
  <2> HIDE DEF w
  <2>1. w.obs[q].last \in (SUBSET Records) \cup {None}  BY <1>3 DEF Page, Obs, Lists
  <2> QED BY <1>3, <2>1, JoinsIs
<1> HIDE DEF w, w1
<1>5. w1 \in Page  BY <1>4 DEF Joins, Alike
<1> DEFINE u == Calmed(w1)
<1>6. u \in Page /\ u.obs = w1.obs /\ u.db = w1.db /\ u.col = w1.col /\ u.raw = w1.raw /\ u.at = w1.at
      /\ u.saw = w1.saw /\ u.bad = w1.bad /\ u.failing = FALSE /\ u.inSource = "no"
  BY <1>5, CalmedPage
<1> HIDE DEF u
<1>7. Joins(js, u, c, q)
  <2>1. \A l : Sight(w, q, l) = Sight(js, q, l)  BY <1>3 DEF Sight
  <2>2. Alike(js, u) /\ u.db = js.db /\ u.col = js.col  BY <1>0, <1>3, <1>4, <1>6 DEF Joins, Alike
  <2>3. u.obs = [js.obs EXCEPT ![q] = [js.obs[q] EXCEPT !.subs = js.obs[q].subs \cup {c}]]
    BY <1>3, <1>4, <1>6 DEF Joins
  <2>4. u.at = [js.at EXCEPT ![c] = q]  BY <1>3, <1>4, <1>6 DEF Joins
  <2>5. u.saw = [js.saw EXCEPT ![c] = IF js.obs[q].last # None THEN Sight(js, q, js.obs[q].last) ELSE None]
    BY <1>3, <1>4, <1>6, <2>1 DEF Joins
  <2> QED BY <2>2, <2>3, <2>4, <2>5 DEF Joins
<1>8. CASE Active(q)
  <2>1. js' = u  BY <1>2, <1>8 DEF Active, u
  <2>2. sent' = sent  BY <1>8 DEF Subscribe, Runs, Active
  <2> QED BY <1>0, <1>7, <1>8, <2>1, <2>2
<1>9. CASE ~Active(q)
  <2>1. js' = Calmed(v)  BY <1>2, <1>9 DEF Active
  <2>2. /\ w2 \in Page /\ w2.obs = w1.obs /\ w2.db = w1.db /\ w2.col = w1.col /\ w2.raw = w1.raw /\ w2.at = w1.at
        /\ w2.saw = w1.saw /\ w2.bad = w1.bad
    BY <1>5 DEF Page
  <2>3. w2.obs[q].subs # {}
    <3>1. w1.obs[q].subs = js.obs[q].subs \cup {c}  BY <1>0, <1>3, <1>4 DEF Joins, Page, Obs
    <3> QED BY <2>2, <3>1
  <2> HIDE DEF w2
  <2>4. PICK w3 \in Page : Beginning(w2, w3, q) /\ Fetching(w3, v, q)  BY <2>2, <2>3, StartedIs
  <2> HIDE DEF v
  <2>5. v \in Page  BY <2>4, FetchingKeeps DEF Keeps
  <2> DEFINE x == Calmed(w3)
  <2>6. x \in Page /\ x.obs = w3.obs /\ x.db = w3.db /\ x.col = w3.col /\ x.raw = w3.raw /\ x.at = w3.at
        /\ x.saw = w3.saw /\ x.bad = w3.bad /\ x.failing = FALSE /\ x.inSource = "no"
    BY <2>4, CalmedPage
  <2>7. Fetching(x, js', q)  BY <2>1, <2>4, <2>5, CalmedFetching
  <2> HIDE DEF x
  <2>8. Beginning(u, x, q)  BY <1>6, <2>2, <2>4, <2>6 DEF Beginning
  <2>9. Asks(q, js.obs[q].age)  BY <1>9 DEF Subscribe, Runs, Active
  <2> QED BY <1>0, <1>6, <1>7, <1>9, <2>6, <2>7, <2>8, <2>9
<1> QED BY <1>8, <1>9

\* Somebody unsubscribes.
LEMMA UnsubscribeIs ==
  ASSUME Wired, NEW c \in Consumers, Unsubscribe(c)
  PROVE  js.at[c] \in Queries /\ c \in js.obs[js.at[c]].subs /\ Leaves(js, js', c, js.at[c])
<1>1. js.at[c] \in Queries /\ js \in Page /\ js.inSource = "no" /\ Distinct(js.db) /\ Distinct(js.col)
  BY DEF Wired, Typed, Page, Unsubscribe, Registered
<1>2. c \in js.obs[js.at[c]].subs  BY <1>1 DEF Wired, Registered
<1>3. js' = Left(js, js.at[c], {c})  BY DEF Unsubscribe
<1> QED BY <1>1, <1>2, <1>3, LeavesIs

\* One of the queries is subscribed to again.
LEMMA ResetIs ==
  ASSUME Wired, ResetObservables
  PROVE  \E q \in notify.todo :
           /\ q \in Queries
           /\ notify' = IF notify.todo = {q} THEN Silent ELSE [notify EXCEPT !.todo = @ \ {q}]
           /\ ~Active(q) => js' = js /\ sent' = sent
           /\ Active(q) => /\ Asks(q, js.obs[q].age + 1)
                           /\ \E w1, w2 \in Page : Restarts(js, w1, q) /\ Beginning(w1, w2, q) /\ Fetching(w2, js', q)
<1>0. js \in Page /\ js.failing = FALSE /\ js.inSource = "no" /\ notify.todo \subseteq Queries
      /\ Distinct(js.db) /\ Distinct(js.col)
  BY DEF Wired, Typed, Notices, Registered
<1>1. PICK q \in notify.todo :
        /\ notify' = IF notify.todo = {q} THEN Silent ELSE [notify EXCEPT !.todo = @ \ {q}]
        /\ IF js.obs[q].subs = {} THEN UNCHANGED <<js, sent, faults>>
           ELSE /\ \E fails \in BOOLEAN :
                     js' = [Invalidated([js EXCEPT !.failing = fails], q)
                                EXCEPT !.failing = FALSE, !.inSource = "no"]
                /\ Asks(q, js.obs[q].age + 1)
  BY DEF ResetObservables
<1>q. q \in Queries  BY <1>0
<1>2. CASE ~Active(q)  BY <1>1, <1>2, <1>q DEF Active
<1>3. CASE Active(q)
  <2>1. PICK fails \in BOOLEAN :
          js' = [Invalidated([js EXCEPT !.failing = fails], q) EXCEPT !.failing = FALSE, !.inSource = "no"]
    BY <1>1, <1>3 DEF Active
  <2> DEFINE w == [js EXCEPT !.failing = fails]
             w1 == [w EXCEPT !.obs = [w.obs EXCEPT ![q] = [Idle(w.obs[q].age + 1) EXCEPT !.subs = w.obs[q].subs]],
                             !.db = Others(w.db, q), !.col = Others(w.col, q)]
             w2 == [w1 EXCEPT !.inSource = "invalidate"]
             v == Started(w2, q)
  <2>2. js' = Calmed(v)  BY <2>1 DEF Invalidated, Calmed
  <2>3. w \in Page /\ w.obs = js.obs /\ w.db = js.db /\ w.col = js.col /\ w.raw = js.raw /\ w.at = js.at
        /\ w.saw = js.saw /\ w.bad = js.bad
    BY <1>0 DEF Page
  <2> HIDE DEF w
  <2>4. Restarts(w, w1, q)  BY <1>0, <1>q, <2>3, RestartsIs
  <2> HIDE DEF w1
  <2>5. w1 \in Page  BY <2>4 DEF Restarts, Alike
  <2> DEFINE u == Calmed(w1)
  <2>6. u \in Page /\ u.obs = w1.obs /\ u.db = w1.db /\ u.col = w1.col /\ u.raw = w1.raw /\ u.at = w1.at
        /\ u.saw = w1.saw /\ u.bad = w1.bad /\ u.failing = FALSE /\ u.inSource = "no"
    BY <2>5, CalmedPage
  <2> HIDE DEF u
  <2>7. Restarts(js, u, q)  BY <1>0, <2>3, <2>4, <2>6 DEF Restarts, Alike
  <2>8. /\ w2 \in Page /\ w2.obs = w1.obs /\ w2.db = w1.db /\ w2.col = w1.col /\ w2.raw = w1.raw /\ w2.at = w1.at
        /\ w2.saw = w1.saw /\ w2.bad = w1.bad
    BY <2>5 DEF Page
  <2>9. w2.obs[q].subs # {}
    <3> DEFINE i == Idle(w.obs[q].age + 1)
    <3>1. w.obs[q] \in Obs /\ w.obs \in [Queries -> Obs]  BY <1>q, <2>3 DEF Page
    <3>2. i \in Obs
      <4>1. w.obs[q].age + 1 \in Nat  BY <3>1 DEF Obs
      <4> QED BY <4>1, IdleType
    <3> HIDE DEF i
    <3>3. w1.obs[q] = [i EXCEPT !.subs = w.obs[q].subs]  BY <1>q, <2>4, <3>1 DEF Restarts, i
    <3>4. w1.obs[q].subs = js.obs[q].subs  BY <2>3, <3>2, <3>3 DEF Obs
    <3> QED BY <1>3, <2>8, <3>4 DEF Active
  <2> HIDE DEF w2
  <2>10. PICK w3 \in Page : Beginning(w2, w3, q) /\ Fetching(w3, v, q)  BY <1>q, <2>8, <2>9, StartedIs
  <2> HIDE DEF v
  <2>11. v \in Page  BY <2>10, FetchingKeeps DEF Keeps
  <2> DEFINE x == Calmed(w3)
  <2>12. x \in Page /\ x.obs = w3.obs /\ x.db = w3.db /\ x.col = w3.col /\ x.raw = w3.raw /\ x.at = w3.at
        /\ x.saw = w3.saw /\ x.bad = w3.bad /\ x.failing = FALSE /\ x.inSource = "no"
    BY <2>10, CalmedPage
  <2>13. Fetching(x, js', q)  BY <1>q, <2>2, <2>10, <2>11, CalmedFetching
  <2> HIDE DEF x
  <2>14. Beginning(u, x, q)  BY <2>6, <2>8, <2>10, <2>12 DEF Beginning
  <2>15. \E y, z \in Page : Restarts(js, y, q) /\ Beginning(y, z, q) /\ Fetching(z, js', q)
    BY <2>6, <2>7, <2>12, <2>13, <2>14
  <2> QED BY <1>1, <1>3, <1>q, <2>15 DEF Active
<1> QED BY <1>2, <1>3

-----------------------------------------------------------------------------
\* What is on its way after each step.
LEMMA ChannelStays ==
  ASSUME Typed, Channel, batch' = batch,
         \/ sent' = sent /\ answers' = answers
         \/ MoveShape /\ Item(Len(answers) + 1).do = "fetch"
         \/ TailShape /\ Item(1).do = "fetch"
         \/ \E m \in Requests : AppendShape(m) /\ m.do = "fetch"
  PROVE  Channel'
<1>0. Len(answers) \in Nat /\ Len(sent) \in Nat /\ Ways \in Nat /\ Ways = Len(answers) + Len(sent)
  BY WaysType DEF Ways
<1>1. CASE sent' = sent /\ answers' = answers
  BY <1>1 DEF Channel, Ways, Item
<1>2. CASE MoveShape /\ Item(Len(answers) + 1).do = "fetch"
  <2>1. Ways' = Ways /\ Len(answers') = Len(answers) + 1 /\ \A i \in 1..Ways : (Item(i).do)' = Item(i).do
    BY <1>2 DEF MoveShape
  <2>2. ASSUME batch = None PROVE \A i \in 1..Ways' : Item(i)'.do = "fetch"
    BY <2>1, <2>2 DEF Channel
  <2>3. ASSUME batch # None
        PROVE  \E i \in 1..Ways' : /\ \A j \in 1..Ways' : Item(j)'.do = "batch" <=> j = i
                                   /\ batch.state = "sent" <=> i > Len(answers')
    <3>1. PICK i \in 1..Ways : /\ \A j \in 1..Ways : Item(j).do = "batch" <=> j = i
                               /\ batch.state = "sent" <=> i > Len(answers)
      BY <2>3 DEF Channel
    <3>2. i # Len(answers) + 1  BY <1>2, <3>1
    <3>3. i > Len(answers) <=> i > Len(answers')  BY <1>0, <2>1, <3>2
    <3>4. \A j \in 1..Ways' : Item(j)'.do = "batch" <=> j = i  BY <2>1, <3>1
    <3> QED BY <2>1, <3>1, <3>3, <3>4
  <2> QED BY <2>2, <2>3 DEF Channel
<1>3. CASE TailShape /\ Item(1).do = "fetch"
  <2>1. Ways' = Ways - 1 /\ Len(answers') = Len(answers) - 1 /\ \A i \in 1..(Ways - 1) : Item(i)' = Item(i + 1)
    BY <1>3 DEF TailShape
  <2>2. \A i \in 1..(Ways - 1) : i + 1 \in 1..Ways  BY <1>0
  <2>3. ASSUME batch = None PROVE \A i \in 1..Ways' : Item(i)'.do = "fetch"
    BY <2>1, <2>2, <2>3 DEF Channel
  <2>4. ASSUME batch # None
        PROVE  \E i \in 1..Ways' : /\ \A j \in 1..Ways' : Item(j)'.do = "batch" <=> j = i
                                   /\ batch.state = "sent" <=> i > Len(answers')
    <3>1. PICK i \in 1..Ways : /\ \A j \in 1..Ways : Item(j).do = "batch" <=> j = i
                               /\ batch.state = "sent" <=> i > Len(answers)
      BY <2>4 DEF Channel
    <3>2. i # 1  BY <1>3, <3>1
    <3>3. i - 1 \in 1..(Ways - 1) /\ (i > Len(answers) <=> i - 1 > Len(answers'))  BY <1>0, <2>1, <3>2
    <3>4. ASSUME NEW j \in 1..(Ways - 1) PROVE Item(j)'.do = "batch" <=> j = i - 1
      <4>1. j + 1 \in 1..Ways /\ (j + 1 = i <=> j = i - 1)  BY <1>0
      <4> QED BY <2>1, <3>1, <4>1
    <3> QED BY <2>1, <3>1, <3>3, <3>4
  <2> QED BY <2>3, <2>4 DEF Channel
<1>4. ASSUME NEW m \in Requests, AppendShape(m), m.do = "fetch" PROVE Channel'
  <2>1. Ways' = Ways + 1 /\ Len(answers') = Len(answers) /\ \A i \in 1..Ways : Item(i)' = Item(i)
    BY <1>4 DEF AppendShape
  <2>2. \A i \in 1..(Ways + 1) : i \in 1..Ways \/ i = Ways + 1  BY <1>0
  <2>3. \A i : i = Ways + 1 => Item(i)' = m  BY <1>4, <2>1 DEF AppendShape, Item
  <2>4. ASSUME batch = None PROVE \A i \in 1..Ways' : Item(i)'.do = "fetch"
    BY <2>1, <2>2, <2>3, <2>4, <1>4 DEF Channel
  <2>5. ASSUME batch # None
        PROVE  \E i \in 1..Ways' : /\ \A j \in 1..Ways' : Item(j)'.do = "batch" <=> j = i
                                   /\ batch.state = "sent" <=> i > Len(answers')
    <3>1. PICK i \in 1..Ways : /\ \A j \in 1..Ways : Item(j).do = "batch" <=> j = i
                               /\ batch.state = "sent" <=> i > Len(answers)
      BY <2>5 DEF Channel
    <3>2. i \in 1..(Ways + 1) /\ i # Ways + 1  BY <1>0
    <3>3. \A j \in 1..(Ways + 1) : Item(j)'.do = "batch" <=> j = i
      BY <1>4, <2>1, <2>2, <2>3, <3>1, <3>2
    <3> QED BY <2>1, <3>1, <3>2, <3>3
  <2> QED BY <2>4, <2>5 DEF Channel
<1> QED BY <1>1, <1>2, <1>3, <1>4

\* Observers of other queries wait for what they waited for.
LEMMA AgedStays ==
  ASSUME Typed, NEW p \in Queries, Aged(p), Once(p), kind' = kind,
         js'.obs[p].age = js.obs[p].age, js'.obs[p] = js.obs[p] \/ (Active(p) /\ Active(p)'),
         js'.obs[p].list = None <=> js.obs[p].list = None, js'.obs[p].missed = js.obs[p].missed,
         \/ sent' = sent /\ answers' = answers
         \/ MoveShape
         \/ TailShape
         \/ \E m \in Requests : AppendShape(m) /\ (m.do = "fetch" => m.query # p)
  PROVE  Aged(p)' /\ Once(p)'
<1> DEFINE age == js.obs[p].age
           Old(i) == Item(i).do = "fetch" /\ Item(i).query = p => Item(i).age <= age
<1>0. Ways \in Nat /\ (IsSimple(p)' <=> IsSimple(p)) /\ \A i \in 1..Ways : Old(i)
  BY WaysType DEF IsSimple, Aged
<1>a. ASSUME (\A i \in 1..Ways' : Old(i)'), OnWay(p)' => OnWay(p),
             \A i, j \in 1..Ways' : Current(p, i)' /\ Current(p, j)' /\ i # j =>
               \E x, y \in 1..Ways : x # y /\ Current(p, x) /\ Current(p, y)
      PROVE  Aged(p)' /\ Once(p)'
  <2>1. ASSUME ~Active(p)' PROVE ~OnWay(p)' /\ js'.obs[p] = Idle(js'.obs[p].age)
    <3>1. js'.obs[p] = js.obs[p]  BY <2>1
    <3>2. ~Active(p)  BY <2>1, <3>1 DEF Active
    <3> QED BY <1>a, <3>1, <3>2 DEF Aged
  <2>2. Aged(p)'  BY <1>a, <2>1 DEF Aged
  <2>3. Once(p)'  BY <1>0, <1>a DEF Once
  <2> QED BY <2>2, <2>3
<1>1. CASE sent' = sent /\ answers' = answers
  <2>1. (\A i \in 1..Ways : Current(p, i)' <=> Current(p, i)) /\ Ways' = Ways /\ (OnWay(p)' <=> OnWay(p))
    BY <1>1, AgedUnmoved
  <2>2. \A i \in 1..Ways : Old(i)'  BY <1>0, <1>1 DEF Item
  <2> HIDE DEF Old
  <2> QED BY <1>a, <2>1, <2>2
<1>2. CASE MoveShape
  <2>1. (\A i \in 1..Ways : Current(p, i)' <=> Current(p, i)) /\ Ways' = Ways /\ (OnWay(p)' <=> OnWay(p))
    BY <1>2, AgedMoved
  <2>2. \A i \in 1..Ways : Old(i)'  BY <1>0, <1>2 DEF MoveShape
  <2> HIDE DEF Old
  <2> QED BY <1>a, <2>1, <2>2
<1>3. CASE TailShape
  <2>1. /\ \A i \in 1..(Ways - 1) : Current(p, i)' <=> Current(p, i + 1)
        /\ Ways' = Ways - 1
        /\ OnWay(p)' <=> \E i \in 2..Ways : Current(p, i)
    BY <1>3, AgedTailed
  <2>2. \A i \in 1..(Ways - 1) : i + 1 \in 1..Ways  BY <1>0
  <2>3. \A i \in 1..(Ways - 1) : Old(i)'  BY <1>0, <1>3, <2>2 DEF TailShape
  <2>4. OnWay(p)' => OnWay(p)
    <3>1. \A i \in 2..Ways : i \in 1..Ways  BY <1>0
    <3> QED BY <2>1, <3>1 DEF OnWay
  <2>5. ASSUME NEW i \in 1..(Ways - 1), NEW j \in 1..(Ways - 1), Current(p, i)', Current(p, j)', i # j
        PROVE  \E x, y \in 1..Ways : x # y /\ Current(p, x) /\ Current(p, y)
    <3>1. i + 1 # j + 1  BY <2>5
    <3> QED BY <2>1, <2>2, <2>5, <3>1
  <2> HIDE DEF Old
  <2> QED BY <1>a, <2>1, <2>3, <2>4, <2>5
<1>4. ASSUME NEW m \in Requests, AppendShape(m), m.do = "fetch" => m.query # p
      PROVE  Aged(p)' /\ Once(p)'
  <2>1. /\ \A i \in 1..Ways : Current(p, i)' <=> Current(p, i)
        /\ Ways' = Ways + 1 /\ ~Current(p, Ways)' /\ (OnWay(p)' <=> OnWay(p))
    BY <1>4, AgedAppended
  <2>2. \A i \in 1..(Ways + 1) : i \in 1..Ways \/ i = Ways'  BY <1>0, <2>1
  <2>3. \A i : i = Ways' => (Current(p, i)' <=> Current(p, Ways)')  BY DEF Current, Item
  <2>4. \A i \in 1..(Ways + 1) : Old(i)'
    <3>1. \A i \in 1..Ways : Old(i)'  BY <1>0, <1>4 DEF AppendShape
    <3>2. \A i : i = Ways' => Item(i)' = m  BY <1>4 DEF AppendShape, Item
    <3> QED BY <1>4, <2>2, <3>1, <3>2
  <2>5. ASSUME NEW i \in 1..Ways', NEW j \in 1..Ways', Current(p, i)', Current(p, j)', i # j
        PROVE  \E x, y \in 1..Ways : x # y /\ Current(p, x) /\ Current(p, y)
    <3>1. i \in 1..Ways /\ j \in 1..Ways  BY <2>1, <2>2, <2>3, <2>5
    <3> QED BY <2>1, <2>5, <3>1
  <2> HIDE DEF Old
  <2> QED BY <1>a, <2>1, <2>4, <2>5
<1> QED BY <1>1, <1>2, <1>3, <1>4

\* The source of q asked, or fetched at once.
LEMMA AgedAsked ==
  ASSUME Typed, NEW q \in Queries, kind' = kind, answers' = answers, Active(q)',
         js'.obs[q].age \in Nat, Asks(q, js'.obs[q].age),
         \A i \in 1..Ways : Item(i).do = "fetch" /\ Item(i).query = q =>
           Item(i).age <= js'.obs[q].age /\ (IsSimple(q) => Item(i).age # js'.obs[q].age),
         IsSimple(q) => /\ js'.obs[q].list # None => ~js'.obs[q].missed
                        /\ ~sync => js'.obs[q].list = None /\ ~js'.obs[q].missed
  PROVE  /\ Aged(q)' /\ Once(q)'
         /\ \/ sent' = sent
            \/ \E m \in Requests : AppendShape(m) /\ m.do = "fetch" /\ m.query = q
         /\ sent' \in Seq(Requests)
<1> DEFINE age == js'.obs[q].age
           m == [do |-> "fetch", query |-> q, age |-> age]
<1>0. Ways \in Nat /\ (IsSimple(q)' <=> IsSimple(q))  BY WaysType DEF IsSimple
<1>1. CASE sync
  <2>1. sent' = sent  BY <1>1 DEF Asks
  <2>2. Ways' = Ways /\ \A i \in 1..Ways : Item(i)' = Item(i)  BY <2>1 DEF Ways, Item
  <2>3. IsSimple(q) => ~OnWay(q)'  BY <2>2 DEF OnWay, Current
  <2>4. Aged(q)'  BY <2>2 DEF Aged
  <2>5. Once(q)'
    <3> SUFFICES ASSUME IsSimple(q) PROVE Once(q)'  BY <1>0 DEF Once
    <3>1. \A i \in 1..Ways' : ~Current(q, i)'  BY <2>3 DEF OnWay
    <3> QED BY <2>3, <3>1 DEF Once
  <2> QED BY <2>1, <2>4, <2>5 DEF Typed
<1>2. CASE ~sync
  <2>1. m \in Requests /\ m.do = "fetch" /\ m.query = q  BY DEF Requests
  <2>2. sent' = Append(sent, m)  BY <1>2 DEF Asks
  <2> HIDE DEF m
  <2>3. AppendShape(m) /\ sent' \in Seq(Requests)  BY <2>1, <2>2, Appends
  <2>4. Ways' = Ways + 1 /\ (\A i \in 1..Ways : Item(i)' = Item(i)) /\ \A i : i = Ways' => Item(i)' = m
    BY <2>3 DEF AppendShape, Item
  <2>5. \A i \in 1..(Ways + 1) : i \in 1..Ways \/ i = Ways'  BY <1>0, <2>4
  <2>6. \A i \in 1..Ways' : Item(i)'.do = "fetch" /\ Item(i)'.query = q => Item(i)'.age <= age
    BY <2>4, <2>5 DEF m
  <2>7. Aged(q)'  BY <2>6 DEF Aged
  <2>8. Once(q)'
    <3> SUFFICES ASSUME IsSimple(q) PROVE Once(q)'  BY <1>0 DEF Once
    <3>1. \A i \in 1..Ways' : Current(q, i)' => i = Ways'  BY <2>4, <2>5 DEF Current
    <3> QED BY <1>2, <3>1 DEF Once
  <2> QED BY <2>1, <2>3, <2>7, <2>8
<1> QED BY <1>1, <1>2

-----------------------------------------------------------------------------
\* The lists of subscribers after each step.
LEMMA RegisteredSame ==
  ASSUME Registered, kind' = kind, js'.db = js.db, js'.col = js.col, js'.obs = js.obs, js'.at = js.at
  PROVE  Registered'
BY DEF Registered, Listed, Active, IsSimple, HasColumns

\* The entries are registered when a consumer joins others.
LEMMA RegisteredJoins ==
  ASSUME Typed, Registered, kind' = kind, NEW c \in Consumers, NEW q \in Queries, js.at[c] = None,
         Active(q), Joins(js, js', c, q)
  PROVE  Registered'
<1>1. js.obs \in [Queries -> Obs] /\ js.at \in [Consumers -> Queries \cup {None}]  BY DEF Typed, Page
<1>2. js.obs[q] \in Obs  BY <1>1
<1>3. js'.obs[q] = [js.obs[q] EXCEPT !.subs = js.obs[q].subs \cup {c}] /\ \A p \in Queries \ {q} : js'.obs[p] = js.obs[p]
  BY <1>1 DEF Joins
<1>4. js'.obs[q].subs = js.obs[q].subs \cup {c} /\ js'.obs[q].list = js.obs[q].list  BY <1>2, <1>3 DEF Obs
<1>5. \A x \in Consumers : js'.at[x] = IF x = c THEN q ELSE js.at[x]  BY <1>1 DEF Joins
<1>6. \A p \in Queries : js'.obs[p].subs = {x \in Consumers : js'.at[x] = p}
  <2>1. None \notin Queries /\ \A p \in Queries : js.obs[p].subs = {x \in Consumers : js.at[x] = p}
    BY NoneAssumption DEF Registered
  <2>2. js'.obs[q].subs = {x \in Consumers : js'.at[x] = q}  BY <1>4, <1>5, <2>1
  <2>3. ASSUME NEW p \in Queries, p # q PROVE js'.obs[p].subs = {x \in Consumers : js'.at[x] = p}
    <3>1. js'.obs[p].subs = {x \in Consumers : js.at[x] = p}  BY <1>3, <2>1, <2>3
    <3>2. \A x \in Consumers : js'.at[x] = p <=> js.at[x] = p  BY <1>5, <2>1, <2>3
    <3> QED BY <3>1, <3>2
  <2> QED BY <2>2, <2>3
<1>7. \A p \in Queries : (Active(p)' <=> Active(p)) /\ js'.obs[p].list = js.obs[p].list
                         /\ (IsSimple(p)' <=> IsSimple(p)) /\ (HasColumns(p)' <=> HasColumns(p))
  BY <1>3, <1>4 DEF Active, IsSimple, HasColumns
<1>8. js'.db = js.db /\ js'.col = js.col  BY DEF Joins
<1> QED BY <1>6, <1>7, <1>8 DEF Registered, Listed

\* The source of q is subscribed to, again or for the first; `db` and `col` are
\* the lists without it.
LEMMA RegisteredBegins ==
  ASSUME Typed, Registered, kind' = kind, NEW q \in Queries, NEW db \in Seq(Entries), NEW col \in Seq(Entries),
         Distinct(db), Distinct(col),
         \A x : In(db, x) <=> In(js.db, x) /\ x # Source(q) /\ x # Columns(q),
         \A x : In(col, x) <=> In(js.col, x) /\ x # Source(q) /\ x # Columns(q),
         \A a, b : Before(js.col, a, b) => Before(col, a, b),
         js'.db = IF IsSimple(q) THEN db ELSE Append(db, Source(q)),
         NEW c1, c1 = IF HasColumns(q) THEN Append(col, Columns(q)) ELSE col,
         \/ js'.col = c1 /\ (IsSimple(q) => js'.obs[q].list = None)
         \/ js'.col = Append(c1, Source(q)) /\ IsSimple(q) /\ js'.obs[q].list # None,
         Active(q)', \A p \in Queries \ {q} : js'.obs[p] = js.obs[p],
         \A p \in Queries : js'.obs[p].subs = {x \in Consumers : js'.at[x] = p}
  PROVE  Registered'
<1>0. Source(q) \in Entries /\ Columns(q) \in Entries /\ Source(q) # Columns(q)  BY EntryFacts
<1>1. \A p \in Queries : (IsSimple(p)' <=> IsSimple(p)) /\ (HasColumns(p)' <=> HasColumns(p))
                         /\ (p # q => (Active(p)' <=> Active(p)))
  BY DEF IsSimple, HasColumns, Active
<1>2. /\ Distinct(js'.db)
      /\ \A x : In(js'.db, x) <=> In(db, x) \/ (x = Source(q) /\ ~IsSimple(q))
  <2>1. CASE IsSimple(q)  BY <2>1
  <2>2. CASE ~IsSimple(q)
    <3>1. ~In(db, Source(q)) /\ js'.db = Append(db, Source(q))  BY <2>2
    <3> QED BY <1>0, <2>2, <3>1, AppendedEntry
  <2> QED BY <2>1, <2>2
<1>3. /\ c1 \in Seq(Entries) /\ Distinct(c1)
      /\ \A x : In(c1, x) <=> In(col, x) \/ (x = Columns(q) /\ HasColumns(q))
      /\ \A p \in Queries : Before(c1, Columns(p), Source(p))
  <2>0. \A p \in Queries : Before(col, Columns(p), Source(p))  BY DEF Registered, Listed
  <2>1. CASE ~HasColumns(q)  BY <2>0, <2>1
  <2>2. CASE HasColumns(q)
    <3>1. ~In(col, Columns(q)) /\ ~In(col, Source(q)) /\ c1 = Append(col, Columns(q))  BY <2>2
    <3>2. /\ c1 \in Seq(Entries)
          /\ \A x : In(c1, x) <=> In(col, x) \/ x = Columns(q)
          /\ Distinct(c1)
          /\ \A a, b : Before(col, a, b) /\ ~(a = Columns(q) /\ In(col, b)) /\ a # b => Before(c1, a, b)
      BY <1>0, <3>1, AppendedEntry
    <3>3. \A p \in Queries : ~(Columns(p) = Columns(q) /\ In(col, Source(p))) /\ Columns(p) # Source(p)
      BY <3>1, EntryFacts
    <3> QED BY <2>0, <2>2, <3>2, <3>3
  <2> QED BY <2>1, <2>2
<1>4. /\ Distinct(js'.col)
      /\ \A x : In(js'.col, x) <=> \/ In(col, x) \/ (x = Columns(q) /\ HasColumns(q))
                                   \/ (x = Source(q) /\ IsSimple(q) /\ js'.obs[q].list # None)
      /\ \A p \in Queries : Before(js'.col, Columns(p), Source(p))
  <2>1. CASE js'.col = c1 /\ (IsSimple(q) => js'.obs[q].list = None)  BY <1>3, <2>1
  <2>2. CASE js'.col = Append(c1, Source(q)) /\ IsSimple(q) /\ js'.obs[q].list # None
    <3>1. ~In(c1, Source(q))  BY <1>0, <1>3
    <3> DEFINE c2 == Append(c1, Source(q))
    <3>a. /\ \A x : In(c2, x) <=> In(c1, x) \/ x = Source(q)
          /\ Distinct(c1) /\ ~In(c1, Source(q)) => Distinct(c2)
          /\ \A a, b : Before(c1, a, b) /\ ~(a = Source(q) /\ In(c1, b)) /\ a # b => Before(c2, a, b)
      <4>1. c1 \in Seq(Entries) /\ Source(q) \in Entries  BY <1>0, <1>3
      <4> QED BY ONLY <4>1, AppendedEntry, Zenon
    <3>2. /\ \A x : In(js'.col, x) <=> In(c1, x) \/ x = Source(q)
          /\ Distinct(js'.col)
          /\ \A a, b : Before(c1, a, b) /\ ~(a = Source(q) /\ In(c1, b)) /\ a # b => Before(js'.col, a, b)
      <4> HIDE DEF c2
      <4>1. js'.col = c2  BY <2>2 DEF c2
      <4> QED BY <1>3, <3>1, <3>a, <4>1
    <3>3. \A p \in Queries : Columns(p) # Source(q) /\ Columns(p) # Source(p)  BY EntryFacts
    <3> QED BY <1>3, <2>2, <3>2, <3>3
  <2> QED BY <2>1, <2>2
<1>5. ASSUME NEW p \in Queries PROVE Listed(p)'
  <2>1. CASE p = q
    <3>1. /\ In(js'.db, Source(q)) <=> ~IsSimple(q)
          /\ ~In(js'.db, Columns(q))
          /\ In(js'.col, Columns(q)) <=> HasColumns(q)
          /\ In(js'.col, Source(q)) <=> IsSimple(q) /\ js'.obs[q].list # None
      BY <1>0, <1>2, <1>4
    <3> QED BY <1>1, <1>4, <2>1, <3>1 DEF Listed
  <2>2. CASE p # q
    <3>1. Source(p) # Source(q) /\ Source(p) # Columns(q) /\ Columns(p) # Source(q) /\ Columns(p) # Columns(q)
      BY <2>2, EntryFacts
    <3>2. /\ In(js'.db, Source(p)) <=> In(js.db, Source(p))
          /\ In(js'.db, Columns(p)) <=> In(js.db, Columns(p))
          /\ In(js'.col, Columns(p)) <=> In(js.col, Columns(p))
          /\ In(js'.col, Source(p)) <=> In(js.col, Source(p))
      BY <1>2, <1>4, <3>1
    <3>3. Listed(p) /\ js'.obs[p] = js.obs[p]  BY <2>2 DEF Registered
    <3> QED BY <1>1, <1>4, <2>2, <3>2, <3>3 DEF Listed
  <2> QED BY <2>1, <2>2
<1> QED BY <1>2, <1>4, <1>5 DEF Registered

\* The entries are registered when a consumer leaves.
LEMMA RegisteredLeaves ==
  ASSUME Typed, Registered, kind' = kind, NEW c \in Consumers, NEW q \in Queries, js.at[c] = q, Leaves(js, js', c, q)
  PROVE  Registered'
<1>1. js.obs \in [Queries -> Obs] /\ js.at \in [Consumers -> Queries \cup {None}]
      /\ js.db \in Seq(Entries) /\ js.col \in Seq(Entries)
  BY DEF Typed, Page
<1>2. js.obs[q] \in Obs  BY <1>1
<1>3. \A x \in Consumers : js'.at[x] = IF x = c THEN None ELSE js.at[x]  BY <1>1 DEF Leaves
<1>4. \A p \in Queries \ {q} : js'.obs[p] = js.obs[p]  BY <1>1 DEF Leaves
<1>5. None \notin Queries  BY NoneAssumption
<1>6. js.obs[q].subs \ {c} = {x \in Consumers : js'.at[x] = q}  BY <1>3, <1>5 DEF Registered
<1>7. \A p \in Queries : (IsSimple(p)' <=> IsSimple(p)) /\ (HasColumns(p)' <=> HasColumns(p))
                         /\ (p # q => (Active(p)' <=> Active(p)) /\ js'.obs[p].subs = {x \in Consumers : js'.at[x] = p})
  BY <1>3, <1>4, <1>5 DEF IsSimple, HasColumns, Active, Registered
<1>8. CASE js.obs[q].subs \ {c} # {}
  <2>1. js'.obs[q] = [js.obs[q] EXCEPT !.subs = js.obs[q].subs \ {c}] /\ js'.db = js.db /\ js'.col = js.col
    BY <1>1, <1>8 DEF Leaves
  <2>2. js'.obs[q].subs = js.obs[q].subs \ {c} /\ js'.obs[q].list = js.obs[q].list  BY <1>2, <2>1 DEF Obs
  <2>3. Active(q) /\ Active(q)'  BY <1>8, <2>2 DEF Active
  <2>4. \A p \in Queries : js'.obs[p].list = js.obs[p].list  BY <1>4, <2>2
  <2> QED BY <1>6, <1>7, <2>1, <2>2, <2>3, <2>4 DEF Registered, Listed
<1>9. CASE js.obs[q].subs \ {c} = {}
  <2>1. js'.obs[q] = Idle(js.obs[q].age + 1) /\ js'.db = Others(js.db, q) /\ js'.col = Others(js.col, q)
    BY <1>1, <1>9 DEF Leaves
  <2>2. js'.obs[q].subs = {} /\ js'.obs[q].list = None  BY <2>1 DEF Idle
  <2>3. /\ \A x : In(js'.db, x) <=> In(js.db, x) /\ x # Source(q) /\ x # Columns(q)
        /\ Distinct(js'.db)
    BY <1>1, <2>1, OthersFacts DEF Registered
  <2>4. /\ \A x : In(js'.col, x) <=> In(js.col, x) /\ x # Source(q) /\ x # Columns(q)
        /\ Distinct(js'.col)
        /\ \A a, b : Before(js.col, a, b) => Before(js'.col, a, b)
    BY <1>1, <2>1, OthersFacts DEF Registered
  <2>5. ASSUME NEW p \in Queries PROVE Listed(p)'
    <3>0. Listed(p)  BY DEF Registered
    <3>1. CASE p = q  BY <2>2, <2>3, <2>4, <3>0, <3>1 DEF Listed, Active
    <3>2. CASE p # q
      <4>1. Source(p) # Source(q) /\ Source(p) # Columns(q) /\ Columns(p) # Source(q) /\ Columns(p) # Columns(q)
        BY <3>2, EntryFacts
      <4>2. js'.obs[p] = js.obs[p]  BY <1>4, <3>2
      <4>3. /\ In(js'.db, Source(p)) <=> In(js.db, Source(p))
            /\ In(js'.db, Columns(p)) <=> In(js.db, Columns(p))
            /\ In(js'.col, Columns(p)) <=> In(js.col, Columns(p))
            /\ In(js'.col, Source(p)) <=> In(js.col, Source(p))
        BY <2>3, <2>4, <4>1
      <4> QED BY <1>7, <2>4, <3>0, <3>2, <4>2, <4>3 DEF Listed
    <3> QED BY <3>1, <3>2
  <2> QED BY <1>6, <1>7, <1>9, <2>2, <2>3, <2>4, <2>5 DEF Registered
<1> QED BY <1>8, <1>9

-----------------------------------------------------------------------------
\* Every step keeps what is wired together.

\* The fields of a change.
LEMMA ChangeType ==
  \A change \in Changes : /\ change.record \in Records /\ change.value \in Values
                          /\ change.type \in {"created", "updated", "destroyed", "raw"}
                          /\ change.type \in {"created", "updated"} => change.value # None
<1>1. None \notin {"out", "a", "b"}  BY NoneAssumption
<1> QED BY <1>1 DEF Changes, Values, Matching

\* Models get a value.
RawOnly(w, v) ==
  /\ v \in Page /\ v.obs = w.obs /\ v.db = w.db /\ v.col = w.col /\ v.at = w.at /\ v.saw = w.saw
  /\ v.inSource = w.inSource /\ v.failing = w.failing /\ v.bad = w.bad
  /\ \A r \in Records : w.raw[r] # None => v.raw[r] # None
\* One Model gets a value.
LEMMA RawSet ==
  ASSUME NEW w \in Page, NEW r \in Records, NEW x \in Values, x # None
  PROVE  /\ RawOnly(w, [w EXCEPT !.raw[r] = x])
         /\ [w EXCEPT !.raw[r] = x].raw = [w.raw EXCEPT ![r] = x]
<1> DEFINE raw == [w.raw EXCEPT ![r] = x]
           v == [w EXCEPT !.raw = raw]
<1>1. w.raw \in [Records -> Values]  BY DEF Page
<1>2. raw \in [Records -> Values] /\ \A s \in Records : w.raw[s] # None => raw[s] # None  BY <1>1
<1> HIDE DEF raw
<1>3. RawOnly(w, v) /\ v.raw = raw  BY <1>2 DEF Page, RawOnly
<1> QED BY <1>3 DEF raw

\* No Model does.
LEMMA RawOnlySelf ==
  ASSUME NEW w \in Page
  PROVE  RawOnly(w, w)
BY DEF RawOnly

\* A step that leaves the observers alone.
LEMMA WiredRaw ==
  ASSUME Wired, RawOnly(js, js'), kind' = kind, Channel',
         sync' = sync, rows' \in [Records -> Values], batch' \in Batches \cup {None}, notify' \in Notices,
         deferred' \in Seq(Changes) \cup {None}, sent' \in Seq(Requests), answers' \in Seq(Answers),
         spoiled' \in SUBSET Records,
         \/ sent' = sent /\ answers' = answers
         \/ MoveShape
         \/ TailShape
         \/ \E m \in Requests : AppendShape(m) /\ m.do = "batch"
  PROVE  Wired'
<1>0. Typed /\ js \in Page /\ js'.obs = js.obs  BY DEF Wired, Typed, RawOnly
<1>1. Typed'  BY DEF Wired, Typed, RawOnly
<1>2. Registered'  BY RegisteredSame DEF Wired, RawOnly
<1>3. ASSUME NEW p \in Queries PROVE Aged(p)' /\ Once(p)'
  <2>1. Aged(p) /\ Once(p)  BY DEF Wired
  <2>2. \/ sent' = sent /\ answers' = answers
        \/ MoveShape
        \/ TailShape
        \/ \E m \in Requests : AppendShape(m) /\ (m.do = "fetch" => m.query # p)
    OBVIOUS
  <2> QED BY <1>0, <2>1, <2>2, AgedStays
<1>4. ASSUME NEW p \in Queries PROVE Shown(js, p)'
  <2>1. js.obs[p].observed \subseteq Records /\ js.obs[p].list \in Lists /\ Shown(js, p)
    BY <1>0 DEF Page, Obs, Wired
  <2> QED BY <1>0, <2>1, ShownRaw DEF RawOnly
<1> QED BY <1>1, <1>2, <1>3, <1>4 DEF Wired

\* A batch is sent.
LEMMA WiredBatch ==
  ASSUME Wired, NEW change \in Changes, Batch(change)
  PROVE  Wired'
<1> DEFINE m == [do |-> "batch"]
<1>0. Typed /\ js \in Page /\ Channel  BY DEF Wired, Typed
<1>1. m \in Requests /\ m.do = "batch"  BY DEF Requests
<1>2. AppendShape(m) /\ sent' \in Seq(Requests)  BY <1>0, <1>1, Appends DEF Batch
<1> HIDE DEF m
<1>3. batch = None /\ batch' = [change |-> change, state |-> "sent"] /\ answers' = answers  BY DEF Batch
<1>4. batch' \in Batches /\ batch'.state = "sent"  BY <1>3 DEF Batches
<1>5. RawOnly(js, js')
  <2>1. CASE change.type = "updated"
    <3>1. js' = [js EXCEPT !.raw[change.record] = change.value]  BY <2>1 DEF Batch
    <3> QED BY <1>0, <2>1, <3>1, ChangeType, RawSet
  <2>2. CASE change.type # "updated"
    <3>1. js' = js  BY <2>2 DEF Batch
    <3> QED BY <1>0, <3>1, RawOnlySelf
  <2> QED BY <2>1, <2>2
<1>6. Channel'
  <2>0. Ways \in Nat /\ Len(answers) \in Nat /\ Len(sent) \in Nat /\ Ways = Len(answers) + Len(sent)
    BY <1>0, WaysType DEF Ways
  <2>1. /\ Ways' = Ways + 1 /\ Len(answers') = Len(answers) /\ \A i \in 1..Ways : Item(i)' = Item(i)
        /\ \A i : i = Ways + 1 => Item(i)' = m
    BY <1>2 DEF AppendShape, Item
  <2>2. \A i \in 1..(Ways + 1) : i \in 1..Ways \/ i = Ways + 1  BY <2>0
  <2>3. \A i \in 1..Ways : Item(i).do = "fetch"  BY <1>0, <1>3 DEF Channel
  <2>4. Ways + 1 \in 1..(Ways + 1) /\ Ways + 1 > Len(answers)  BY <2>0
  <2>5. \A j \in 1..(Ways + 1) : Item(j)'.do = "batch" <=> j = Ways + 1
    <3>1. \A j \in 1..Ways : j # Ways + 1  BY <2>0
    <3> QED BY <1>1, <2>1, <2>2, <2>3, <3>1
  <2>6. batch' # None  BY <1>4, NoneAssumption
  <2> QED BY <1>4, <2>1, <2>4, <2>5, <2>6 DEF Channel
<1>7. notify' \in Notices /\ deferred' \in Seq(Changes) \cup {None} /\ answers' \in Seq(Answers)
      /\ spoiled' \in SUBSET Records /\ rows' \in [Records -> Values] /\ sync' = sync /\ kind' = kind
  BY <1>0 DEF Batch, Typed
<1> QED BY <1>1, <1>2, <1>4, <1>5, <1>6, <1>7, WiredRaw

\* What the driver executes is the first request.
LEMMA FirstRequest ==
  ASSUME Wired, sent # <<>>
  PROVE  LET m == Head(sent) IN
         /\ m \in Requests /\ Item(Len(answers) + 1) = m /\ Len(answers) + 1 \in 1..Ways
         /\ m.do \in {"batch", "fetch"} /\ (m.do = "fetch" => m.query \in Queries /\ m.age \in Nat)
         /\ m.do = "batch" => batch # None /\ batch \in Batches /\ batch.state = "sent"
<1>1. Typed /\ sent \in Seq(Requests) /\ Len(answers) \in Nat  BY DEF Wired, Typed
<1>2. Head(sent) = sent[1] /\ Head(sent) \in Requests /\ Len(sent) \in Nat \ {0}  BY <1>1
<1>3. Len(answers) + 1 \in 1..Ways /\ Item(Len(answers) + 1) = Head(sent)
  BY <1>1, <1>2 DEF Ways, Item
<1>4. \A m \in Requests : m.do \in {"batch", "fetch"} /\ (m.do = "fetch" => m.query \in Queries /\ m.age \in Nat)
  BY DEF Requests
<1>5. ASSUME Head(sent).do = "batch" PROVE batch # None /\ batch \in Batches /\ batch.state = "sent"
  <2>1. Channel /\ batch \in Batches \cup {None}  BY DEF Wired, Typed
  <2>2. batch # None  BY <1>3, <1>5, <2>1 DEF Channel
  <2>3. Len(answers) + 1 > Len(answers)  BY <1>1
  <2> QED BY <1>3, <1>5, <2>1, <2>2, <2>3 DEF Channel
<1> QED BY <1>2, <1>3, <1>4, <1>5

\* What executing does to the channel, whether it fails or not.
LEMMA ExecutesChannel ==
  ASSUME Wired, sent # <<>>, MoveShape,
         Head(sent).do = "fetch" => batch' = batch,
         Head(sent).do = "batch" => batch' \in Batches /\ batch'.state # "sent"
  PROVE  Channel'
<1>0. Typed /\ Channel /\ Len(answers) \in Nat /\ Len(sent) \in Nat /\ Ways \in Nat /\ Ways = Len(answers) + Len(sent)
  BY WaysType DEF Wired, Ways
<1>1. Item(Len(answers) + 1) = Head(sent) /\ Len(answers) + 1 \in 1..Ways /\ Head(sent).do \in {"batch", "fetch"}
  BY FirstRequest
<1>2. CASE Head(sent).do = "fetch"  BY <1>0, <1>1, <1>2, ChannelStays
<1>3. CASE Head(sent).do = "batch"
  <2>1. batch # None  BY <1>3, FirstRequest
  <2>2. Ways' = Ways /\ Len(answers') = Len(answers) + 1 /\ \A i \in 1..Ways : (Item(i).do)' = Item(i).do
    BY DEF MoveShape
  <2>3. \A j \in 1..Ways : Item(j).do = "batch" <=> j = Len(answers) + 1
    BY <1>0, <1>1, <1>3, <2>1 DEF Channel
  <2>4. batch' # None  BY <1>3, NoneAssumption
  <2>5. ~(Len(answers) + 1 > Len(answers'))  BY <1>0, <2>2
  <2>6. \A j \in 1..Ways : Item(j)'.do = "batch" <=> j = Len(answers) + 1  BY <2>2, <2>3
  <2> QED BY <1>1, <1>3, <2>2, <2>4, <2>5, <2>6 DEF Channel
<1> QED BY <1>1, <1>2, <1>3

\* The driver executes a request.
LEMMA WiredExecute ==
  ASSUME Wired, Execute
  PROVE  Wired'
<1> DEFINE request == Head(sent)
<1>0. Typed /\ js \in Page /\ js' = js /\ sent # <<>>  BY DEF Wired, Typed, Execute
<1>1. /\ request \in Requests /\ request.do \in {"batch", "fetch"}
      /\ request.do = "fetch" => request.query \in Queries /\ request.age \in Nat
      /\ request.do = "batch" => batch # None /\ batch \in Batches /\ batch.state = "sent"
  BY <1>0, FirstRequest
<1>2. RawOnly(js, js')  BY <1>0, RawOnlySelf
<1>3. kind' = kind /\ sync' = sync /\ notify' \in Notices /\ deferred' \in Seq(Changes) \cup {None}
      /\ spoiled' \in SUBSET Records
  BY <1>0 DEF Execute, Typed
<1>4. CASE request.do = "fetch"
  <2> DEFINE m == [do |-> "fetch", query |-> request.query, age |-> request.age, list |-> Result, failed |-> FALSE]
  <2>1. answers' = Append(answers, m) /\ sent' = Tail(sent) /\ rows' = rows /\ batch' = batch  BY <1>4 DEF Execute
  <2>2. m \in Answers /\ m.do = "fetch" /\ m.query = request.query /\ m.age = request.age
    <3>1. Result \in SUBSET Records  BY DEF Result
    <3> QED BY <1>1, <1>4, <3>1 DEF Answers
  <2> HIDE DEF m
  <2>3. MoveShape /\ sent' \in Seq(Requests) /\ answers' \in Seq(Answers)
    BY <1>0, <1>4, <2>1, <2>2, Moves
  <2>4. Channel'  BY <1>0, <1>4, <2>1, <2>3, ExecutesChannel
  <2> QED BY <1>0, <1>2, <1>3, <2>1, <2>3, <2>4, WiredRaw DEF Typed
<1>5. CASE request.do = "batch"
  <2> DEFINE m == [do |-> "batch"]
  <2>1. /\ answers' = Append(answers, m) /\ sent' = Tail(sent)
        /\ rows' = [rows EXCEPT ![batch.change.record] = batch.change.value]
        /\ batch' = [batch EXCEPT !.state = "done"]
    BY <1>5 DEF Execute
  <2>2. m \in Answers /\ m.do = "batch"  BY DEF Answers
  <2> HIDE DEF m
  <2>3. MoveShape /\ sent' \in Seq(Requests) /\ answers' \in Seq(Answers)
    BY <1>0, <1>5, <2>1, <2>2, Moves
  <2>4. batch \in Batches  BY <1>1, <1>5
  <2>5. batch' \in Batches /\ batch'.state # "sent" /\ batch.change \in Changes  BY <2>1, <2>4 DEF Batches
  <2>6. rows' \in [Records -> Values]  BY <1>0, <2>1, <2>5, ChangeType DEF Typed
  <2>7. Channel'  BY <1>0, <1>5, <2>3, <2>5, ExecutesChannel
  <2> QED BY <1>2, <1>3, <2>3, <2>5, <2>6, <2>7, WiredRaw
<1> QED BY <1>1, <1>4, <1>5

\* Wired is kept when the driver fails to execute a request.
LEMMA WiredExecuteFails ==
  ASSUME Wired, ExecuteFails
  PROVE  Wired'
<1> DEFINE request == Head(sent)
<1>0. Typed /\ js \in Page /\ js' = js /\ sent # <<>>  BY DEF Wired, Typed, ExecuteFails
<1>1. /\ request \in Requests /\ request.do \in {"batch", "fetch"}
      /\ request.do = "fetch" => request.query \in Queries /\ request.age \in Nat
      /\ request.do = "batch" => batch # None /\ batch \in Batches /\ batch.state = "sent"
  BY <1>0, FirstRequest
<1>2. RawOnly(js, js')  BY <1>0, RawOnlySelf
<1>3. kind' = kind /\ sync' = sync /\ notify' \in Notices /\ deferred' \in Seq(Changes) \cup {None}
      /\ rows' \in [Records -> Values]
  BY <1>0 DEF ExecuteFails, Typed
<1>4. CASE request.do = "fetch"
  <2> DEFINE m == [do |-> "fetch", query |-> request.query, age |-> request.age, list |-> {}, failed |-> TRUE]
  <2>1. answers' = Append(answers, m) /\ sent' = Tail(sent) /\ spoiled' = spoiled /\ batch' = batch
    BY <1>4 DEF ExecuteFails
  <2>2. m \in Answers /\ m.do = "fetch" /\ m.query = request.query /\ m.age = request.age
    <3>1. {} \in SUBSET Records  OBVIOUS
    <3> QED BY <1>1, <1>4, <3>1 DEF Answers
  <2> HIDE DEF m
  <2>3. MoveShape /\ sent' \in Seq(Requests) /\ answers' \in Seq(Answers)
    BY <1>0, <1>4, <2>1, <2>2, Moves
  <2>4. Channel'  BY <1>0, <1>4, <2>1, <2>3, ExecutesChannel
  <2> QED BY <1>0, <1>2, <1>3, <2>1, <2>3, <2>4, WiredRaw DEF Typed
<1>5. CASE request.do = "batch"
  <2> DEFINE m == [do |-> "batch"]
  <2>1. /\ answers' = Append(answers, m) /\ sent' = Tail(sent)
        /\ spoiled' = (IF batch.change.type = "updated" THEN spoiled \cup {batch.change.record} ELSE spoiled)
        /\ batch' = [batch EXCEPT !.state = "failed"]
    BY <1>5 DEF ExecuteFails
  <2>2. m \in Answers /\ m.do = "batch"  BY DEF Answers
  <2> HIDE DEF m
  <2>3. MoveShape /\ sent' \in Seq(Requests) /\ answers' \in Seq(Answers)
    BY <1>0, <1>5, <2>1, <2>2, Moves
  <2>4. batch \in Batches  BY <1>1, <1>5
  <2>5. batch' \in Batches /\ batch'.state # "sent" /\ batch.change \in Changes  BY <2>1, <2>4 DEF Batches
  <2>6. spoiled' \in SUBSET Records  BY <1>0, <2>1, <2>5, ChangeType DEF Typed
  <2>7. Channel'  BY <1>0, <1>5, <2>3, <2>5, ExecutesChannel
  <2> QED BY <1>2, <1>3, <2>3, <2>5, <2>6, <2>7, WiredRaw
<1> QED BY <1>1, <1>4, <1>5

\* No notification is a notification.
LEMMA SilentType == Silent \in Notices
<1>1. <<>> \in Seq(Changes) /\ {} \in SUBSET Queries  OBVIOUS
<1> QED BY <1>1 DEF Silent, Notices

\* A notification begins.
LEMMA NotifiesType ==
  ASSUME Typed, NEW changes \in Seq(Changes), Notifies(changes)
  PROVE  notify' \in Notices /\ notify' = [phase |-> "db", changes |-> changes, next |-> 1, length |-> Len(js.db), todo |-> {}]
<1>1. notify' = [phase |-> "db", changes |-> changes, next |-> 1, length |-> Len(js.db), todo |-> {}]
  BY DEF Notifies, Silent
<1>2. Len(js.db) \in Nat /\ {} \in SUBSET Queries  BY DEF Typed, Page
<1> QED BY <1>1, <1>2 DEF Notices

\* A batch is answered.
LEMMA WiredBatchAnswered ==
  ASSUME Wired, BatchAnswered
  PROVE  Wired'
<1>0. Typed /\ js \in Page /\ Channel /\ Ways \in Nat /\ Len(answers) \in Nat
  BY WaysType DEF Wired, Typed
<1>1. answers # <<>> /\ answers' = Tail(answers) /\ sent' = sent /\ Head(answers).do = "batch" /\ batch' = None
  BY DEF BatchAnswered
<1>2. TailShape /\ answers' \in Seq(Answers) /\ Item(1) = Head(answers) /\ 1 \in 1..Ways
  BY <1>0, <1>1, Tails
<1>3. batch # None  BY <1>0, <1>1, <1>2 DEF Channel
<1>4. batch \in Batches /\ batch.change \in Changes /\ batch.state \in {"sent", "done", "failed"}
  BY <1>0, <1>3 DEF Typed, Batches
<1>5. Channel'
  <2>1. Ways' = Ways - 1 /\ \A i \in 1..(Ways - 1) : Item(i)' = Item(i + 1)  BY <1>2 DEF TailShape
  <2>2. PICK b \in 1..Ways : \A j \in 1..Ways : Item(j).do = "batch" <=> j = b
    BY <1>0, <1>3 DEF Channel
  <2>3. b = 1  BY <1>1, <1>2, <2>2
  <2>4. \A i \in 1..(Ways - 1) : i + 1 \in 1..Ways /\ i + 1 # 1  BY <1>0
  <2>5. \A i \in 1..Ways : Item(i).do \in {"batch", "fetch"}  BY <1>0, WaysType
  <2>6. \A i \in 1..(Ways - 1) : Item(i)'.do = "fetch"  BY <2>1, <2>2, <2>3, <2>4, <2>5
  <2> QED BY <1>1, <2>1, <2>6 DEF Channel
<1>6. RawOnly(js, js')
  <2>1. CASE batch.state = "done" /\ batch.change.type = "created"
    <3>1. js' = [js EXCEPT !.raw[batch.change.record] = batch.change.value]  BY <2>1 DEF BatchAnswered
    <3>2. batch.change.record \in Records /\ batch.change.value \in Values /\ batch.change.value # None
      BY <1>4, <2>1, ChangeType
    <3> QED BY <1>0, <3>1, <3>2, RawSet
  <2>2. CASE ~(batch.state = "done" /\ batch.change.type = "created")
    <3>1. js' = js  BY <2>2 DEF BatchAnswered
    <3> QED BY <1>0, <3>1, RawOnlySelf
  <2> QED BY <2>1, <2>2
<1>7. spoiled' \in SUBSET Records  BY <1>0 DEF BatchAnswered, Typed
<1>8. rows' \in [Records -> Values] /\ sync' = sync /\ kind' = kind /\ sent' \in Seq(Requests)
  BY <1>0 DEF BatchAnswered, Typed
<1>9. notify' \in Notices /\ deferred' \in Seq(Changes) \cup {None}
  <2>0. notify \in Notices /\ deferred \in Seq(Changes) \cup {None}  BY <1>0 DEF Typed
  <2>1. CASE batch.state = "failed"
    <3>1. notify' = notify /\ deferred' = deferred  BY <2>1 DEF BatchAnswered
    <3> QED BY <2>0, <3>1
  <2>2. CASE batch.state = "done" /\ batch.change.type = "raw"
    <3>1. notify' = [Silent EXCEPT !.phase = "invalidate", !.todo = Queries] /\ deferred' = deferred
      BY <2>2 DEF BatchAnswered
    <3>2. [Silent EXCEPT !.phase = "invalidate", !.todo = Queries] \in Notices  BY SilentType DEF Notices
    <3> QED BY <2>0, <3>1, <3>2
  <2>3. CASE batch.state = "done" /\ batch.change.type # "raw" /\ deferred # None
    <3>1. deferred' = Append(deferred, batch.change) /\ notify' = notify  BY <2>3 DEF BatchAnswered
    <3>2. Append(deferred, batch.change) \in Seq(Changes)  BY <1>4, <2>0, <2>3
    <3> QED BY <2>0, <3>1, <3>2
  <2>4. CASE /\ batch.state # "failed" /\ ~(batch.state = "done" /\ batch.change.type = "raw")
             /\ ~(batch.state = "done" /\ batch.change.type # "raw" /\ deferred # None)
    <3>1. Notifies(<<batch.change>>) /\ deferred' = deferred  BY <2>4 DEF BatchAnswered
    <3>2. <<batch.change>> \in Seq(Changes)  BY <1>4
    <3> QED BY <1>0, <2>0, <3>1, <3>2, NotifiesType
  <2> QED BY <2>1, <2>2, <2>3, <2>4
<1> QED BY <1>1, <1>2, <1>5, <1>6, <1>7, <1>8, <1>9, WiredRaw

\* A batching scope begins or ends.
LEMMA WiredBatching ==
  ASSUME Wired, BeginBatching \/ EndBatching
  PROVE  Wired'
<1>0. Typed /\ js \in Page /\ Channel /\ js' = js /\ batch' = batch /\ sent' = sent /\ answers' = answers
  BY DEF Wired, Typed, BeginBatching, EndBatching, channel
<1>1. RawOnly(js, js')  BY <1>0, RawOnlySelf
<1>2. Channel'  BY <1>0, ChannelStays
<1>3. sync' = sync /\ kind' = kind /\ rows' = rows /\ spoiled' = spoiled
  BY DEF BeginBatching, EndBatching
<1>4. notify' \in Notices /\ deferred' \in Seq(Changes) \cup {None}
  <2>0. notify \in Notices /\ deferred \in Seq(Changes) \cup {None} /\ <<>> \in Seq(Changes)  BY <1>0 DEF Typed
  <2>1. CASE BeginBatching  BY <2>0, <2>1 DEF BeginBatching
  <2>2. CASE EndBatching
    <3>1. deferred' = None /\ (notify' = notify \/ Notifies(deferred)) /\ deferred # None
      BY <2>2 DEF EndBatching
    <3>2. deferred \in Seq(Changes)  BY <2>0, <3>1
    <3> QED BY <1>0, <2>0, <3>1, <3>2, NotifiesType
  <2> QED BY <2>1, <2>2
<1> QED BY <1>0, <1>1, <1>2, <1>3, <1>4, WiredRaw DEF Typed

\* A step about query q, which is active.
LEMMA WiredKeeps ==
  ASSUME Wired, NEW q \in Queries, Active(q), Keeps(js, js', q), kind' = kind, Channel',
         sync' = sync, rows' = rows, batch' = batch, deferred' = deferred, spoiled' = spoiled,
         notify' \in Notices, sent' \in Seq(Requests), answers' \in Seq(Answers),
         \/ sent' = sent /\ answers' = answers
         \/ TailShape
         \/ \E m \in Requests : AppendShape(m) /\ m.do = "fetch" /\ m.query = q,
         \/ js'.col = js.col /\ (IsSimple(q) => (js'.obs[q].list = None <=> js.obs[q].list = None))
         \/ IsSimple(q) /\ js.obs[q].list = None /\ js'.obs[q].list # None /\ js'.col = Append(js.col, Source(q)),
         Aged(q)', Once(q)', Shown(js, q)'
  PROVE  Wired'
<1>0. Typed /\ js \in Page /\ Registered  BY DEF Wired, Typed
<1>1. Typed'  BY <1>0 DEF Typed, Keeps
<1>2. Registered'  BY <1>0, RegisteredKeeps
<1>3. ASSUME NEW p \in Queries, p # q PROVE Aged(p)' /\ Once(p)'
  <2>1. Aged(p) /\ Once(p) /\ js'.obs[p] = js.obs[p]  BY <1>3 DEF Wired, Keeps
  <2>2. \/ sent' = sent /\ answers' = answers
        \/ TailShape
        \/ \E m \in Requests : AppendShape(m) /\ (m.do = "fetch" => m.query # p)
    BY <1>3
  <2> QED BY <1>0, <2>1, <2>2, AgedStays
<1>4. ASSUME NEW p \in Queries PROVE Shown(js, p)'
  BY <1>0, ShownKeeps DEF Wired
<1> QED BY <1>1, <1>2, <1>3, <1>4 DEF Wired

\* A fetch is answered.
LEMMA WiredFetchAnswered ==
  ASSUME Wired, FetchAnswered
  PROVE  Wired'
<1>p. PICK a, q : a = Head(answers) /\ q = a.query  OBVIOUS
<1>0. Typed /\ js \in Page /\ Channel  BY DEF Wired, Typed
<1>1. /\ q \in Queries /\ a \in Answers /\ a.do = "fetch" /\ a.list \in SUBSET Records
      /\ TailShape /\ answers' \in Seq(Answers) /\ Item(1) = a /\ 1 \in 1..Ways
      /\ \/ Current(q, 1) /\ Active(q) /\ Answering(js, js', q, a.list)
         \/ ~Current(q, 1) /\ js' = js
  BY <1>p, FetchAnsweredIs
<1>2. kind' = kind /\ sync' = sync /\ rows' = rows /\ batch' = batch /\ deferred' = deferred /\ spoiled' = spoiled
      /\ notify' = notify /\ sent' = sent
  BY DEF FetchAnswered, work
<1>3. Channel'  BY <1>0, <1>1, <1>2, ChannelStays
<1>4. CASE js' = js
  <2>1. RawOnly(js, js')  BY <1>0, <1>4, RawOnlySelf
  <2> QED BY <1>0, <1>1, <1>2, <1>3, <2>1, WiredRaw DEF Typed
<1>5. CASE Current(q, 1) /\ Active(q) /\ Answering(js, js', q, a.list)
  <2>1. Keeps(js, js', q)  BY <1>5 DEF Answering, Idles, Emission
  <2>2. Shown(js, q)'
    <3>1. Shown(js, q)  BY <1>1 DEF Wired
    <3> QED BY <1>0, <1>1, <1>5, <3>1, ShownIdles, ShownEmission DEF Answering
  <2>3. js'.obs[q].age = js.obs[q].age /\ Active(q)'  BY <1>5, <2>1 DEF Keeps, Active
  <2>4. /\ \A i \in 1..(Ways - 1) : Current(q, i)' <=> Current(q, i + 1)
        /\ Ways' = Ways - 1 /\ (OnWay(q)' <=> \E i \in 2..Ways : Current(q, i)) /\ Ways \in Nat
    BY <1>0, <1>1, <2>3, AgedTailed, WaysType
  <2>5. Aged(q)'
    <3>1. \A i \in 1..(Ways - 1) : Item(i)' = Item(i + 1) /\ i + 1 \in 1..Ways  BY <1>1, <2>4 DEF TailShape
    <3> QED BY <1>1, <2>3, <2>4, <3>1 DEF Aged, Wired
  <2>6. IsSimple(q) => js.obs[q].list = None /\ ~OnWay(q)'
    <3> SUFFICES ASSUME IsSimple(q) PROVE js.obs[q].list = None /\ ~OnWay(q)'  OBVIOUS
    <3>1. OnWay(q) /\ Once(q)  BY <1>1, <1>5 DEF OnWay, Wired
    <3>2. js.obs[q].list = None  BY <3>1 DEF Once
    <3>3. \A i \in 2..Ways : i \in 1..Ways /\ i # 1  BY <2>4
    <3>4. ~OnWay(q)'  BY <1>1, <1>5, <2>4, <3>1, <3>3 DEF Once
    <3> QED BY <3>2, <3>4
  <2>7. Once(q)'
    <3>1. CASE ~IsSimple(q)  BY <1>2, <3>1 DEF Once, IsSimple
    <3>2. CASE IsSimple(q)
      <4>1. \A i \in 1..Ways' : ~Current(q, i)'  BY <2>6, <3>2 DEF OnWay
      <4>2. js'.obs[q].list # None => ~js'.obs[q].missed
        BY <1>5, <2>6, <3>2 DEF Answering, Idles
      <4> QED BY <2>6, <3>2, <4>1, <4>2 DEF Once
    <3> QED BY <3>1, <3>2
  <2>8. \/ js'.col = js.col /\ (IsSimple(q) => (js'.obs[q].list = None <=> js.obs[q].list = None))
        \/ IsSimple(q) /\ js.obs[q].list = None /\ js'.obs[q].list # None /\ js'.col = Append(js.col, Source(q))
    <3>1. None \notin SUBSET Records  BY NoneAssumption
    <3> QED BY <1>1, <1>5, <2>6, <3>1 DEF Answering, Idles, Emission, Grown
  <2> QED BY <1>0, <1>1, <1>2, <1>3, <1>5, <2>1, <2>2, <2>5, <2>7, <2>8, WiredKeeps DEF Typed
<1> QED BY <1>1, <1>4, <1>5

\* The notification goes on.
LEMMA RingsType ==
  ASSUME Typed
  PROVE  /\ [notify EXCEPT !.next = @ + 1] \in Notices
         /\ \A phase \in {"none", "db", "collection", "invalidate"}, length \in Nat :
              Rings(phase, length) => notify' \in Notices
         /\ \A q : [notify EXCEPT !.todo = @ \ {q}] \in Notices
<1>1. notify \in Notices  BY DEF Typed
<1>2. [notify EXCEPT !.next = @ + 1] \in Notices
  <2>1. notify.next + 1 \in Nat \ {0}  BY <1>1 DEF Notices
  <2> QED BY <1>1, <2>1 DEF Notices
<1>3. ASSUME NEW phase \in {"none", "db", "collection", "invalidate"}, NEW length \in Nat, Rings(phase, length)
      PROVE  notify' \in Notices
  <2>1. notify' = [notify EXCEPT !.phase = phase, !.next = 1, !.length = length]  BY <1>3 DEF Rings
  <2>2. 1 \in Nat \ {0}  OBVIOUS
  <2> QED BY <1>1, <2>1, <2>2 DEF Notices
<1>4. \A q : [notify EXCEPT !.todo = @ \ {q}] \in Notices
  <2> TAKE q
  <2>1. notify.todo \ {q} \in SUBSET Queries  BY <1>1 DEF Notices
  <2> QED BY <1>1, <2>1 DEF Notices
<1> QED BY <1>2, <1>3, <1>4

\* The next subscriber of the database is called.
LEMMA WiredNotifyDatabase ==
  ASSUME Wired, NotifyDatabase
  PROVE  Wired'
<1>0. Typed /\ js \in Page /\ Channel  BY DEF Wired, Typed
<1>1. kind' = kind /\ sync' = sync /\ rows' = rows /\ batch' = batch /\ deferred' = deferred /\ spoiled' = spoiled
      /\ answers' = answers
  BY DEF NotifyDatabase
<1>2. CASE ~Heard(js.db)
  <2>1. Rings("collection", Len(js.col)) /\ js' = js /\ sent' = sent  BY <1>2 DEF NotifyDatabase
  <2>2. Len(js.col) \in Nat  BY <1>0 DEF Page
  <2>3. notify' \in Notices  BY <1>0, <2>1, <2>2, RingsType
  <2>4. RawOnly(js, js') /\ Channel'  BY <1>0, <1>1, <2>1, RawOnlySelf, ChannelStays
  <2> QED BY <1>0, <1>1, <2>1, <2>3, <2>4, WiredRaw DEF Typed
<1>3. CASE Heard(js.db)
  <2>p. PICK q : q = js.db[notify.next].query  OBVIOUS
  <2>1. /\ q \in Queries /\ Active(q) /\ ~IsSimple(q)
        /\ Fetching(js, js', q) /\ Asks(q, js.obs[q].age)
        /\ notify' = [notify EXCEPT !.next = @ + 1]
    BY <1>3, <2>p, DatabaseHears
  <2>2. notify' \in Notices  BY <1>0, <2>1, RingsType
  <2>3. Keeps(js, js', q)  BY <2>1, FetchingKeeps
  <2>4. Shown(js, q)'  BY <1>0, <2>1, ShownFetching DEF Wired
  <2>5. js'.obs[q].age = js.obs[q].age /\ Active(q)'  BY <2>1, <2>3 DEF Keeps, Active
  <2>6. js.obs[q].age \in Nat  BY <1>0, <2>1 DEF Page, Obs
  <2>7. Aged(q)  BY <2>1 DEF Wired
  <2>8. /\ Aged(q)' /\ Once(q)'
        /\ \/ sent' = sent
           \/ \E m \in Requests : AppendShape(m) /\ m.do = "fetch" /\ m.query = q
        /\ sent' \in Seq(Requests)
    BY <1>0, <1>1, <2>1, <2>5, <2>6, <2>7, AgedAsked DEF Aged
  <2>9. js'.col = js.col  BY <2>1 DEF Fetching, Idles, Answering, Grown
  <2>10. Channel'  BY <1>0, <1>1, <2>8, ChannelStays
  <2> QED BY <1>0, <1>1, <2>1, <2>2, <2>3, <2>4, <2>8, <2>9, <2>10, WiredKeeps DEF Typed
<1> QED BY <1>2, <1>3

\* The next subscriber of the collection is called.
LEMMA WiredNotifyCollection ==
  ASSUME Wired, NotifyCollection
  PROVE  Wired'
<1>0. Typed /\ js \in Page /\ Channel  BY DEF Wired, Typed
<1>1. kind' = kind /\ sync' = sync /\ rows' = rows /\ batch' = batch /\ deferred' = deferred /\ spoiled' = spoiled
      /\ answers' = answers /\ sent' = sent
  BY DEF NotifyCollection, channel
<1>2. Channel'  BY <1>0, <1>1, ChannelStays
<1>3. CASE ~Heard(js.col)
  <2>1. notify' = Silent /\ js' = js  BY <1>3 DEF NotifyCollection
  <2>2. RawOnly(js, js')  BY <1>0, <2>1, RawOnlySelf
  <2> QED BY <1>0, <1>1, <1>2, <2>1, <2>2, SilentType, WiredRaw DEF Typed
<1>4. CASE Heard(js.col)
  <2>p. PICK e, q : e = js.col[notify.next] /\ q = e.query  OBVIOUS
  <2>1. /\ q \in Queries /\ Active(q)
        /\ notify' = [notify EXCEPT !.next = @ + 1]
        /\ \/ HasColumns(q) /\ ColumnsHear(js, js', q, notify.changes)
           \/ /\ IsSimple(q) /\ js.obs[q].list # None
              /\ Emission(js, js', q, Processed(js.obs[q].list, js, notify.changes))
              /\ js'.col = js.col /\ js'.obs[q].missed = js.obs[q].missed
    BY <1>4, <2>p, CollectionHears
  <2>2. notify' \in Notices  BY <1>0, <2>1, RingsType
  <2>3. Keeps(js, js', q)  BY <2>1 DEF ColumnsHear, Emission
  <2>4. Shown(js, q) /\ Aged(q) /\ Once(q)  BY <2>1 DEF Wired
  <2> DEFINE l == Processed(js.obs[q].list, js, notify.changes)
  <2>5. l \in SUBSET Records  BY DEF Processed
  <2>6. js.obs[q].list # None => Known(js, l)
    <3> SUFFICES ASSUME js.obs[q].list # None PROVE Known(js, l)  OBVIOUS
    <3>1. Known(js, js.obs[q].list)  BY <2>4 DEF Shown
    <3>2. None \notin Matching  BY NoneAssumption DEF Matching
    <3>3. \A r \in l : r \in js.obs[q].list \/ js.raw[r] \in Matching  BY DEF Processed
    <3> QED BY <3>1, <3>2, <3>3 DEF Known
  <2> HIDE DEF l
  <2>7. Shown(js, q)'
    <3>1. CASE ColumnsHear(js, js', q, notify.changes)  BY <1>0, <2>1, <2>4, <3>1, ShownHear
    <3>2. CASE js.obs[q].list # None /\ Emission(js, js', q, l)  BY <1>0, <2>1, <2>4, <2>5, <2>6, <3>2, ShownEmission
    <3> QED BY <2>1, <3>1, <3>2 DEF l
  <2>8. /\ js'.obs[q].age = js.obs[q].age /\ Active(q)' /\ js'.col = js.col
        /\ (js'.obs[q].list = None <=> js.obs[q].list = None) /\ js'.obs[q].missed = js.obs[q].missed
    <3>0. js'.obs[q].age = js.obs[q].age /\ Active(q)'  BY <2>1, <2>3 DEF Keeps, Active
    <3>1. CASE ColumnsHear(js, js', q, notify.changes)  BY <3>0, <3>1 DEF ColumnsHear
    <3>2. CASE js.obs[q].list # None /\ Emission(js, js', q, l) /\ js'.col = js.col /\ js'.obs[q].missed = js.obs[q].missed
      <4>1. js'.obs[q].list # None  BY <2>5, <3>2, NoneAssumption DEF Emission
      <4> QED BY <3>0, <3>2, <4>1
    <3> QED BY <2>1, <3>1, <3>2 DEF l
  <2>9. Aged(q)' /\ Once(q)'  BY <1>0, <1>1, <2>1, <2>4, <2>8, AgedStays
  <2> QED BY <1>0, <1>1, <1>2, <2>1, <2>2, <2>3, <2>7, <2>8, <2>9, WiredKeeps DEF Typed
<1> QED BY <1>3, <1>4

\* The source of q is subscribed to.
LEMMA WiredBegins ==
  ASSUME Wired, NEW q \in Queries, NEW w1 \in Page, NEW w2 \in Page, NEW age \in Nat, NEW subs \in SUBSET Consumers,
         Alike(js, w1), Beginning(w1, w2, q), Fetching(w2, js', q),
         w1.obs = [js.obs EXCEPT ![q] = [Idle(age) EXCEPT !.subs = subs]], subs # {}, Asks(q, age),
         \A p \in Queries : w1.obs[p].subs = {x \in Consumers : w1.at[x] = p},
         \A i \in 1..Ways : Item(i).do = "fetch" /\ Item(i).query = q => Item(i).age < age \/ (Item(i).age <= age /\ ~OnWay(q) /\ js.obs[q].age = age),
         Distinct(w1.db), Distinct(w1.col),
         \A x : In(w1.db, x) <=> In(js.db, x) /\ x # Source(q) /\ x # Columns(q),
         \A x : In(w1.col, x) <=> In(js.col, x) /\ x # Source(q) /\ x # Columns(q),
         \A a, b : Before(js.col, a, b) => Before(w1.col, a, b),
         kind' = kind, sync' = sync, rows' = rows, batch' = batch, deferred' = deferred, spoiled' = spoiled,
         answers' = answers, notify' \in Notices
  PROVE  Wired'
<1>0. Typed /\ js \in Page /\ Channel /\ Registered /\ js.obs \in [Queries -> Obs] /\ js.bad = FALSE
      /\ js.failing = FALSE /\ js.inSource = "no" /\ Ways \in Nat
  BY WaysType DEF Wired, Typed, Page
<1> DEFINE i == Idle(age)
<1>1. i \in Obs /\ i.list = None /\ ~i.missed /\ i.age = age /\ i.observed = {} /\ i.states = [r \in Records |-> None]
  BY IdleType DEF Idle
<1> HIDE DEF i
<1>2. w2.obs[q] = [i EXCEPT !.subs = subs] /\ \A p \in Queries \ {q} : w2.obs[p] = js.obs[p]
  BY <1>0 DEF Beginning, i
<1>3. w2.obs[q].list = None /\ ~w2.obs[q].missed /\ w2.obs[q].age = age /\ w2.obs[q].subs = subs
      /\ w2.obs[q].observed = {} /\ w2.obs[q].states = [r \in Records |-> None]
  BY <1>1, <1>2 DEF Obs
<1>4. Shown(w2, q)  BY <1>3 DEF Shown, Known
<1>5. Shown(js, q)'  BY <1>4, ShownFetching
<1>6. Keeps(w2, js', q)  BY FetchingKeeps
<1>7. js'.obs[q].age = age /\ js'.obs[q].subs = subs /\ Active(q)' /\ (\A p \in Queries \ {q} : js'.obs[p] = js.obs[p])
      /\ js' \in Page /\ js'.db = w2.db /\ js'.raw = js.raw /\ js'.at = w1.at
      /\ js'.inSource = "no" /\ js'.failing = FALSE /\ js'.bad = FALSE
  BY <1>0, <1>2, <1>3, <1>6 DEF Keeps, Active, Beginning, Alike
<1>8. /\ js'.obs[q].list # None => ~js'.obs[q].missed
      /\ ~sync => js'.obs[q].list = None /\ ~js'.obs[q].missed
      /\ \/ js'.col = w2.col /\ (IsSimple(q) => js'.obs[q].list = None)
         \/ js'.col = Append(w2.col, Source(q)) /\ IsSimple(q) /\ js'.obs[q].list # None
  <2>1. CASE Idles(w2, js', q)  BY <1>0, <1>3, <2>1 DEF Idles, Fetching, Typed, Answering
  <2>2. CASE sync /\ Emission(w2, js', q, Result) /\ ~js'.obs[q].missed /\ js'.col = Grown(w2, q)
    <3>1. Result \in SUBSET Records  BY DEF Result
    <3>2. js'.obs[q].list # None  BY <2>2, <3>1, NoneAssumption DEF Emission
    <3> QED BY <2>2, <3>2 DEF Grown
  <2> QED BY <2>1, <2>2 DEF Fetching, Answering
<1>9. /\ Aged(q)' /\ Once(q)'
      /\ \/ sent' = sent
         \/ \E m \in Requests : AppendShape(m) /\ m.do = "fetch" /\ m.query = q
      /\ sent' \in Seq(Requests)
  <2>1. ASSUME NEW k \in 1..Ways, Item(k).do = "fetch", Item(k).query = q
        PROVE  Item(k).age <= age /\ Item(k).age # age
    <3>1. Item(k).age \in Nat  BY <1>0, <2>1, WaysType
    <3>2. CASE Item(k).age < age  BY <3>1, <3>2
    <3>3. CASE Item(k).age <= age /\ ~OnWay(q) /\ js.obs[q].age = age
      BY <2>1, <3>3 DEF OnWay, Current
    <3> QED BY <2>1, <3>2, <3>3
  <2> QED BY <1>0, <1>7, <1>8, <2>1, AgedAsked
<1>10. Channel'  BY <1>0, <1>9, ChannelStays
<1>11. Typed'  BY <1>0, <1>7, <1>9 DEF Typed
<1>12. Registered'
  <2>1. w1.db \in Seq(Entries) /\ w1.col \in Seq(Entries)  BY DEF Page
  <2>2. js'.db = IF IsSimple(q) THEN w1.db ELSE Append(w1.db, Source(q))  BY <1>7 DEF Beginning
  <2>3. w2.col = IF HasColumns(q) THEN Append(w1.col, Columns(q)) ELSE w1.col  BY DEF Beginning
  <2>4. \A p \in Queries : js'.obs[p].subs = {x \in Consumers : js'.at[x] = p}
    <3>1. w2.obs = w1.obs  BY DEF Beginning
    <3>2. \A p \in Queries : js'.obs[p].subs = w1.obs[p].subs  BY <1>2, <1>3, <1>7, <3>1
    <3> QED BY <1>7, <3>2
  <2>5. /\ Distinct(w1.db) /\ Distinct(w1.col) /\ kind' = kind
        /\ \A x : In(w1.db, x) <=> In(js.db, x) /\ x # Source(q) /\ x # Columns(q)
        /\ \A x : In(w1.col, x) <=> In(js.col, x) /\ x # Source(q) /\ x # Columns(q)
        /\ \A a, b : Before(js.col, a, b) => Before(w1.col, a, b)
    OBVIOUS
  <2>6. Active(q)' /\ \A p \in Queries \ {q} : js'.obs[p] = js.obs[p]  BY <1>7
  <2>7. Typed /\ Registered /\ q \in Queries  BY <1>0
  <2> QED BY ONLY <1>8, <2>1, <2>2, <2>3, <2>4, <2>5, <2>6, <2>7, RegisteredBegins
<1>13. ASSUME NEW p \in Queries, p # q PROVE Aged(p)' /\ Once(p)' /\ Shown(js, p)'
  <2>1. Aged(p) /\ Once(p) /\ Shown(js, p) /\ js'.obs[p] = js.obs[p]  BY <1>7, <1>13 DEF Wired
  <2>2. \/ sent' = sent /\ answers' = answers
        \/ MoveShape
        \/ TailShape
        \/ \E m \in Requests : AppendShape(m) /\ (m.do = "fetch" => m.query # p)
    BY <1>9, <1>13
  <2>3. Aged(p)' /\ Once(p)'  BY <1>0, <2>1, <2>2, AgedStays
  <2>4. Shown(js, p)'  BY <1>7, <2>1 DEF Shown, Known
  <2> QED BY <2>3, <2>4
<1> QED BY <1>5, <1>9, <1>10, <1>11, <1>12, <1>13 DEF Wired

\* Somebody subscribes.
LEMMA WiredSubscribe ==
  ASSUME Wired, ~OnceAllowed, NEW c \in Consumers, NEW q \in Queries, NEW once \in BOOLEAN, Subscribe(c, q, once)
  PROVE  Wired'
<1>0. Typed /\ js \in Page /\ Channel /\ Registered /\ js.obs \in [Queries -> Obs] /\ js.obs[q] \in Obs
      /\ js.at \in [Consumers -> Queries \cup {None}] /\ Aged(q) /\ Once(q) /\ Shown(js, q)
  BY DEF Wired, Typed, Page
<1>1. js.at[c] = None  BY SubscribeIs
<1>2. kind' = kind /\ sync' = sync /\ rows' = rows /\ batch' = batch /\ deferred' = deferred /\ spoiled' = spoiled
      /\ answers' = answers /\ notify' = notify
  BY DEF Subscribe, work
<1>3. CASE Active(q)
  <2>1. Joins(js, js', c, q) /\ sent' = sent  BY <1>3, SubscribeIs
  <2>2. js'.obs[q] = [js.obs[q] EXCEPT !.subs = js.obs[q].subs \cup {c}] /\ \A p \in Queries \ {q} : js'.obs[p] = js.obs[p]
    BY <1>0, <2>1 DEF Joins
  <2>3. /\ js'.obs[q].age = js.obs[q].age /\ js'.obs[q].list = js.obs[q].list /\ js'.obs[q].missed = js.obs[q].missed
        /\ js'.obs[q].subs = js.obs[q].subs \cup {c}
        /\ js'.obs[q].observed = js.obs[q].observed /\ js'.obs[q].states = js.obs[q].states
    BY <1>0, <2>2 DEF Obs
  <2>4. Active(q)'  BY <2>3 DEF Active
  <2>5. Channel'  BY <1>0, <1>2, <2>1, ChannelStays
  <2>6. Registered'  BY <1>0, <1>1, <1>2, <1>3, <2>1, RegisteredJoins
  <2>7. Typed'  BY <1>0, <1>2, <2>1 DEF Typed, Joins, Alike
  <2>8. ASSUME NEW p \in Queries PROVE Aged(p)' /\ Once(p)' /\ Shown(js, p)'
    <3>1. Aged(p) /\ Once(p) /\ Shown(js, p)  BY DEF Wired
    <3>2. js'.obs[p].age = js.obs[p].age /\ (js'.obs[p] = js.obs[p] \/ (Active(p) /\ Active(p)'))
          /\ js'.obs[p].list = js.obs[p].list /\ js'.obs[p].missed = js.obs[p].missed
          /\ js'.obs[p].observed = js.obs[p].observed /\ js'.obs[p].states = js.obs[p].states
      BY <1>3, <2>2, <2>3, <2>4
    <3>3. Aged(p)' /\ Once(p)'  BY <1>0, <1>2, <2>1, <3>1, <3>2, AgedStays
    <3>4. Shown(js, p)'  BY <2>1, <3>1, <3>2 DEF Shown, Known, Joins, Alike
    <3> QED BY <3>3, <3>4
  <2> QED BY <2>5, <2>6, <2>7, <2>8 DEF Wired
<1>4. CASE ~Active(q)
  <2> DEFINE age == js.obs[q].age
             subs == {c}
  <2>1. Asks(q, age) /\ \E w1, w2 \in Page : Joins(js, w1, c, q) /\ Beginning(w1, w2, q) /\ Fetching(w2, js', q)
    BY <1>4, SubscribeIs
  <2>2. PICK w1, w2 \in Page : Joins(js, w1, c, q) /\ Beginning(w1, w2, q) /\ Fetching(w2, js', q)
    BY <2>1
  <2>3. js.obs[q] = Idle(age) /\ ~OnWay(q) /\ age \in Nat /\ js.obs[q].subs = {}
    BY <1>0, <1>4 DEF Aged, Obs, Active
  <2>4. w1.obs = [js.obs EXCEPT ![q] = [Idle(age) EXCEPT !.subs = subs]] /\ subs # {} /\ subs \in SUBSET Consumers
    <3>1. js.obs[q].subs \cup {c} = subs  BY <2>3
    <3> QED BY <2>2, <2>3, <3>1 DEF Joins
  <2>5. w1.db = js.db /\ w1.col = js.col /\ Alike(js, w1)  BY <2>2 DEF Joins
  <2>6. \A p \in Queries : w1.obs[p].subs = {x \in Consumers : w1.at[x] = p}
    <3>1. \A x \in Consumers : w1.at[x] = IF x = c THEN q ELSE js.at[x]  BY <1>0, <2>2 DEF Joins
    <3>2. None \notin Queries /\ \A p \in Queries : js.obs[p].subs = {x \in Consumers : js.at[x] = p}
      BY <1>0, NoneAssumption DEF Registered
    <3>3. w1.obs[q].subs = {c}
      <4>1. Idle(age) \in Obs  BY <2>3, IdleType
      <4>2. w1.obs[q] = [Idle(age) EXCEPT !.subs = subs]  BY <1>0, <2>4
      <4> QED BY <4>1, <4>2 DEF Obs
    <3>4. {x \in Consumers : w1.at[x] = q} = {c}  BY <2>3, <3>1, <3>2
    <3>5. ASSUME NEW p \in Queries, p # q PROVE w1.obs[p].subs = {x \in Consumers : w1.at[x] = p}
      <4>1. w1.obs[p].subs = {x \in Consumers : js.at[x] = p}  BY <1>0, <2>4, <3>2, <3>5
      <4>2. \A x \in Consumers : w1.at[x] = p <=> js.at[x] = p  BY <1>1, <3>1, <3>2, <3>5
      <4> QED BY <4>1, <4>2
    <3> QED BY <3>3, <3>4, <3>5
  <2>7. /\ \A x : In(w1.db, x) <=> In(js.db, x) /\ x # Source(q) /\ x # Columns(q)
        /\ \A x : In(w1.col, x) <=> In(js.col, x) /\ x # Source(q) /\ x # Columns(q)
        /\ Distinct(w1.db) /\ Distinct(w1.col)
    BY <1>0, <1>4, <2>5 DEF Registered, Listed
  <2>8. \A i \in 1..Ways : Item(i).do = "fetch" /\ Item(i).query = q =>
          Item(i).age < age \/ (Item(i).age <= age /\ ~OnWay(q) /\ js.obs[q].age = age)
    BY <1>0, <2>3 DEF Aged
  <2>9. \A a, b : Before(js.col, a, b) => Before(w1.col, a, b)  BY <2>5
  <2>10. notify' \in Notices  BY <1>0, <1>2 DEF Typed
  <2> HIDE DEF age, subs
  <2>a. age \in Nat  BY <2>3
  <2>b. Wired /\ q \in Queries /\ w1 \in Page /\ w2 \in Page  OBVIOUS
  <2> QED BY ONLY <1>2, <2>1, <2>2, <2>a, <2>b, <2>4, <2>5, <2>6, <2>7, <2>8, <2>9, <2>10, WiredBegins
<1> QED BY <1>3, <1>4

\* Somebody unsubscribes.
LEMMA WiredUnsubscribe ==
  ASSUME Wired, NEW c \in Consumers, Unsubscribe(c)
  PROVE  Wired'
<1>p. PICK q : q = js.at[c]  OBVIOUS
<1>1. q \in Queries /\ c \in js.obs[q].subs /\ Leaves(js, js', c, q)  BY <1>p, UnsubscribeIs
<1>0. Typed /\ js \in Page /\ Channel /\ Registered /\ js.obs \in [Queries -> Obs] /\ js.obs[q] \in Obs
      /\ Aged(q) /\ Once(q) /\ Shown(js, q) /\ Ways \in Nat
  BY <1>1, WaysType DEF Wired, Typed, Page
<1>2. kind' = kind /\ sync' = sync /\ rows' = rows /\ batch' = batch /\ deferred' = deferred /\ spoiled' = spoiled
      /\ answers' = answers /\ notify' = notify /\ sent' = sent
  BY DEF Unsubscribe, work, channel
<1>3. Typed'  BY <1>0, <1>1, <1>2 DEF Typed, Leaves, Alike
<1>4. Channel'  BY <1>0, <1>2, ChannelStays
<1>5. Registered'  BY <1>0, <1>1, <1>2, <1>p, RegisteredLeaves
<1>6. \A p \in Queries \ {q} : js'.obs[p] = js.obs[p]  BY <1>0, <1>1 DEF Leaves
<1>7. js'.raw = js.raw  BY <1>1 DEF Leaves, Alike
<1>8. ASSUME NEW p \in Queries, p # q PROVE Aged(p)' /\ Once(p)' /\ Shown(js, p)'
  <2>1. Aged(p) /\ Once(p) /\ Shown(js, p) /\ js'.obs[p] = js.obs[p]  BY <1>6, <1>8 DEF Wired
  <2>2. Aged(p)' /\ Once(p)'  BY <1>0, <1>2, <2>1, AgedStays
  <2> QED BY <1>7, <2>1, <2>2 DEF Shown, Known
<1>9. Aged(q)' /\ Once(q)' /\ Shown(js, q)'
  <2>1. CASE js.obs[q].subs \ {c} # {}
    <3>1. js'.obs[q] = [js.obs[q] EXCEPT !.subs = js.obs[q].subs \ {c}]  BY <1>0, <1>1, <2>1 DEF Leaves
    <3>2. /\ js'.obs[q].age = js.obs[q].age /\ js'.obs[q].list = js.obs[q].list /\ js'.obs[q].missed = js.obs[q].missed
          /\ js'.obs[q].subs = js.obs[q].subs \ {c}
          /\ js'.obs[q].observed = js.obs[q].observed /\ js'.obs[q].states = js.obs[q].states
      BY <1>0, <3>1 DEF Obs
    <3>3. Active(q) /\ Active(q)'  BY <2>1, <3>2 DEF Active
    <3>4. Aged(q)' /\ Once(q)'  BY <1>0, <1>1, <1>2, <3>2, <3>3, AgedStays
    <3> QED BY <1>0, <1>7, <3>2, <3>4 DEF Shown, Known
  <2>2. CASE js.obs[q].subs \ {c} = {}
    <3> DEFINE age == js.obs[q].age
    <3>1. js'.obs[q] = Idle(age + 1) /\ age \in Nat  BY <1>0, <1>1, <2>2 DEF Leaves, Obs
    <3>2. js'.obs[q].age = age + 1 /\ js'.obs[q].list = None /\ ~js'.obs[q].missed /\ js'.obs[q].subs = {}
          /\ js'.obs[q].observed = {} /\ js'.obs[q].states = [r \in Records |-> None]
      BY <3>1 DEF Idle
    <3>3. Ways' = Ways /\ \A i \in 1..Ways : Item(i)' = Item(i)  BY <1>2 DEF Ways, Item
    <3>4. \A i \in 1..Ways : Item(i).do = "fetch" /\ Item(i).query = q => Item(i).age <= age /\ Item(i).age \in Nat
      BY <1>0, WaysType DEF Aged
    <3>5. \A i \in 1..Ways' : ~Current(q, i)'  BY <3>1, <3>2, <3>3, <3>4 DEF Current
    <3>6. ~OnWay(q)'  BY <3>5 DEF OnWay
    <3>7. Aged(q)'
      <4>1. \A i \in 1..Ways' : Item(i)'.do = "fetch" /\ Item(i)'.query = q => Item(i)'.age <= js'.obs[q].age
        BY <3>1, <3>2, <3>3, <3>4
      <4>2. js'.obs[q] = Idle(js'.obs[q].age)  BY <3>1, <3>2
      <4> QED BY <3>6, <4>1, <4>2 DEF Aged
    <3>8. Once(q)'  BY <3>2, <3>5, <3>6 DEF Once
    <3>9. Shown(js, q)'  BY <3>2 DEF Shown, Known
    <3> QED BY <3>7, <3>8, <3>9
  <2> QED BY <2>1, <2>2
<1> QED BY <1>3, <1>4, <1>5, <1>8, <1>9 DEF Wired

\* A query is subscribed to again after raw SQL.
LEMMA WiredReset ==
  ASSUME Wired, ResetObservables
  PROVE  Wired'
<1>0. Typed /\ js \in Page /\ Channel /\ Registered /\ js.obs \in [Queries -> Obs] /\ js.bad = FALSE
  BY DEF Wired, Typed, Page
<1>1. PICK q \in notify.todo :
        /\ q \in Queries
        /\ notify' = IF notify.todo = {q} THEN Silent ELSE [notify EXCEPT !.todo = @ \ {q}]
        /\ ~Active(q) => js' = js /\ sent' = sent
        /\ Active(q) => /\ Asks(q, js.obs[q].age + 1)
                        /\ \E w1, w2 \in Page : Restarts(js, w1, q) /\ Beginning(w1, w2, q) /\ Fetching(w2, js', q)
  BY ResetIs
<1>2. kind' = kind /\ sync' = sync /\ rows' = rows /\ batch' = batch /\ deferred' = deferred /\ spoiled' = spoiled
      /\ answers' = answers
  BY DEF ResetObservables
<1>3. notify' \in Notices  BY <1>0, <1>1, SilentType, RingsType
<1>4. CASE ~Active(q)
  <2>1. js' = js /\ sent' = sent  BY <1>1, <1>4
  <2>2. RawOnly(js, js') /\ Channel'  BY <1>0, <1>2, <2>1, RawOnlySelf, ChannelStays
  <2> QED BY <1>0, <1>2, <1>3, <2>1, <2>2, WiredRaw DEF Typed
<1>5. CASE Active(q)
  <2> DEFINE age == js.obs[q].age + 1
             subs == js.obs[q].subs
  <2>1. Asks(q, age)  BY <1>1, <1>5
  <2>2. PICK w1, w2 \in Page : Restarts(js, w1, q) /\ Beginning(w1, w2, q) /\ Fetching(w2, js', q)
    BY <1>1, <1>5
  <2>3. js.obs[q] \in Obs /\ Aged(q)  BY <1>0, <1>1 DEF Wired
  <2>4. age \in Nat /\ subs # {} /\ subs \in SUBSET Consumers  BY <1>5, <2>3 DEF Obs, Active
  <2>5. w1.obs = [js.obs EXCEPT ![q] = [Idle(age) EXCEPT !.subs = subs]] /\ Alike(js, w1)
    BY <2>2 DEF Restarts
  <2>6. \A p \in Queries : w1.obs[p].subs = {x \in Consumers : w1.at[x] = p}
    <3>1. w1.at = js.at  BY <2>2 DEF Restarts
    <3>2. w1.obs[q].subs = subs
      <4>1. Idle(age) \in Obs  BY <2>4, IdleType
      <4> HIDE DEF age, subs
      <4>2. w1.obs[q] = [Idle(age) EXCEPT !.subs = subs]  BY <1>0, <1>1, <2>5
      <4> QED BY <4>1, <4>2 DEF Obs
    <3>3. \A p \in Queries : w1.obs[p].subs = js.obs[p].subs  BY <1>0, <2>5, <3>2
    <3> QED BY <1>0, <3>1, <3>3 DEF Registered
  <2>7. js.db \in Seq(Entries) /\ js.col \in Seq(Entries) /\ Distinct(js.db) /\ Distinct(js.col)
        /\ w1.db = Others(js.db, q) /\ w1.col = Others(js.col, q)
    BY <1>0, <2>2 DEF Page, Registered, Restarts
  <2>8. /\ \A x : In(w1.db, x) <=> In(js.db, x) /\ x # Source(q) /\ x # Columns(q)
        /\ Distinct(w1.db)
    BY <1>1, <2>7, OthersFacts
  <2>9. /\ \A x : In(w1.col, x) <=> In(js.col, x) /\ x # Source(q) /\ x # Columns(q)
        /\ Distinct(w1.col)
        /\ \A a, b : Before(js.col, a, b) => Before(w1.col, a, b)
    BY <1>1, <2>7, OthersFacts
  <2>10. \A i \in 1..Ways : Item(i).do = "fetch" /\ Item(i).query = q =>
          Item(i).age < age \/ (Item(i).age <= age /\ ~OnWay(q) /\ js.obs[q].age = age)
    <3>1. \A i \in 1..Ways : Item(i).do = "fetch" /\ Item(i).query = q => Item(i).age <= js.obs[q].age /\ Item(i).age \in Nat
      BY <1>0, <1>1, <2>3, WaysType DEF Aged
    <3>2. js.obs[q].age \in Nat  BY <2>3 DEF Obs
    <3> QED BY <3>1, <3>2
  <2>b. Wired /\ q \in Queries /\ w1 \in Page /\ w2 \in Page /\ age \in Nat /\ subs # {} /\ subs \in SUBSET Consumers
    BY <1>1, <2>4
  <2> HIDE DEF age, subs
  <2> QED BY ONLY <1>2, <1>3, <2>1, <2>2, <2>b, <2>5, <2>6, <2>8, <2>9, <2>10, WiredBegins
<1> QED BY <1>4, <1>5

\* At the start nobody observes.
LEMMA WiredInit ==
  ASSUME Init
  PROVE  Wired
<1>1. None \in Values /\ "a" \in Values  BY DEF Values, Matching
<1>2. rows \in [Records -> Values] /\ {} \in SUBSET Records  BY <1>1 DEF Init
<1>3. \A q \in Queries : Idle(0) \in Obs  BY IdleType
<1>4. js \in Page /\ js.inSource = "no" /\ js.failing = FALSE /\ js.bad = FALSE
  <2> DEFINE obs == [q \in Queries |-> Idle(0)]
             at == [c \in Consumers |-> None]
  <2>1. obs \in [Queries -> Obs] /\ at \in [Consumers -> Queries \cup {None}] /\ at \in [Consumers -> Sights \cup {None}]
    BY <1>3
  <2>2. <<>> \in Seq(Entries)  OBVIOUS
  <2>3. js = [obs |-> obs, db |-> <<>>, col |-> <<>>, raw |-> rows, at |-> at, saw |-> at, once |-> {},
              inSource |-> "no", failing |-> FALSE, bad |-> FALSE]
    BY DEF Init
  <2> HIDE DEF obs, at
  <2> QED BY <1>2, <2>1, <2>2, <2>3 DEF Page
<1>5. Typed
  <2>1. kind \in [Queries -> Kinds]  BY KindsAssumption DEF Init
  <2>2. sent \in Seq(Requests) /\ answers \in Seq(Answers)  BY DEF Init
  <2> QED BY <1>2, <1>4, <2>1, <2>2, SilentType DEF Init, Typed
<1>6. Ways = 0 /\ batch = None  BY DEF Init, Ways
<1>7. Channel  BY <1>6 DEF Channel
<1>8. \A q \in Queries : js.obs[q] = Idle(0) /\ js.at = [c \in Consumers |-> None] /\ js.db = <<>> /\ js.col = <<>>
  BY DEF Init
<1>9. \A q \in Queries : /\ js.obs[q].subs = {} /\ js.obs[q].list = None /\ js.obs[q].age = 0 /\ ~js.obs[q].missed
                         /\ js.obs[q].observed = {} /\ js.obs[q].states = [r \in Records |-> None]
  BY <1>8 DEF Idle
<1>10. Registered
  <2>1. js.db = <<>> /\ js.col = <<>>  BY DEF Init
  <2>2. Distinct(js.db) /\ Distinct(js.col) /\ (\A x : ~In(js.db, x) /\ ~In(js.col, x))
        /\ \A a, b : Before(js.col, a, b)
    BY <2>1 DEF Distinct, In, Before
  <2>3. None \notin Queries  BY NoneAssumption
  <2> QED BY <1>8, <1>9, <2>2, <2>3 DEF Registered, Listed, Active
<1>11. \A q \in Queries : Aged(q) /\ Once(q) /\ Shown(js, q)
  BY <1>6, <1>8, <1>9 DEF Aged, Once, Shown, Known, OnWay, Active
<1> QED BY <1>5, <1>7, <1>10, <1>11 DEF Wired

\* Every step keeps the wiring.
LEMMA WiredStep ==
  ASSUME Wired, ~OnceAllowed, [Next]_vars
  PROVE  Wired'
<1>1. CASE UNCHANGED vars
  <2>1. UNCHANGED <<sync, kind, rows, batch, notify, deferred, sent, answers, js, spoiled>>
    BY <1>1 DEF vars, work, channel
  <2>2. RawOnly(js, js') /\ Channel'  BY <2>1, RawOnlySelf, ChannelStays DEF Wired, Typed
  <2> QED BY <2>1, <2>2, WiredRaw DEF Wired, Typed
<1>2. CASE Next
  <2>1. ASSUME NEW c \in Consumers, NEW q \in Queries, NEW once \in BOOLEAN, Subscribe(c, q, once) PROVE Wired'
    BY <2>1, WiredSubscribe
  <2>2. ASSUME NEW c \in Consumers, Unsubscribe(c) PROVE Wired'  BY <2>2, WiredUnsubscribe
  <2>3. ASSUME NEW change \in Changes, Batch(change) PROVE Wired'  BY <2>3, WiredBatch
  <2>4. CASE BeginBatching \/ EndBatching  BY <2>4, WiredBatching
  <2>5. CASE Execute  BY <2>5, WiredExecute
  <2>6. CASE ExecuteFails  BY <2>6, WiredExecuteFails
  <2>7. CASE FetchAnswered  BY <2>7, WiredFetchAnswered
  <2>8. CASE BatchAnswered  BY <2>8, WiredBatchAnswered
  <2>9. CASE NotifyDatabase  BY <2>9, WiredNotifyDatabase
  <2>10. CASE NotifyCollection  BY <2>10, WiredNotifyCollection
  <2>11. CASE ResetObservables  BY <2>11, WiredReset
  <2> QED BY <1>2, <2>1, <2>2, <2>3, <2>4, <2>5, <2>6, <2>7, <2>8, <2>9, <2>10, <2>11 DEF Next
<1> QED BY <1>1, <1>2

\* The wiring holds in every reachable state.
LEMMA AlwaysWired ==
  ASSUME ~OnceAllowed
  PROVE  Spec => []Wired
<1>1. Init => Wired  BY WiredInit
<1>2. Wired /\ [Next]_vars => Wired'  BY WiredStep
<1> QED BY <1>1, <1>2, PTL DEF Spec

\* Every variable of the observers has a value the code can give it.
THEOREM Typing ==
  ASSUME ~OnceAllowed
  PROVE  Spec => []TypeOK
<1>1. Wired => TypeOK
  <2> SUFFICES ASSUME Wired PROVE TypeOK  OBVIOUS
  <2>1. Typed /\ js \in Page  BY DEF Wired, Typed
  <2>2. batch # None => batch.change \in Changes /\ batch.state \in {"sent", "done", "failed"}
    BY <2>1 DEF Typed, Batches
  <2>3. ASSUME NEW q \in Queries
        PROVE  /\ js.obs[q].subs \subseteq Consumers
               /\ js.obs[q].last \in Lists /\ js.obs[q].list \in Lists
               /\ js.obs[q].observed = {r \in Records : js.obs[q].states[r] # None}
               /\ js.obs[q].states \in [Records -> Values]
    <3>1. js.obs[q] \in Obs /\ Shown(js, q)  BY <2>1 DEF Page, Wired
    <3> QED BY <3>1 DEF Obs, Shown
  <2>4. js.at \in [Consumers -> Queries \cup {None}] /\ js.once \subseteq Consumers  BY <2>1 DEF Page
  <2> QED BY <2>1, <2>2, <2>3, <2>4 DEF TypeOK, Typed
<1> QED BY <1>1, AlwaysWired, PTL

\* The entries in the lists of subscribers are those of the queries somebody
\* observes, each once.
THEOREM EntriesAreOwned ==
  ASSUME ~OnceAllowed
  PROVE  Spec => []NoEntryLeaks
<1>1. Wired => NoEntryLeaks
  <2> SUFFICES ASSUME Wired PROVE NoEntryLeaks  OBVIOUS
  <2>1. js.db \in Seq(Entries) /\ js.col \in Seq(Entries) /\ Registered  BY DEF Wired, Typed, Page
  <2>2. ASSUME NEW entries \in {js.db, js.col}, NEW i \in DOMAIN entries
        PROVE  js.obs[entries[i].query].subs # {}
    <3>1. entries[i] \in Entries /\ In(entries, entries[i])  BY <2>1 DEF In
    <3>2. PICK e, q : e = entries[i] /\ q = e.query  OBVIOUS
    <3>3. q \in Queries /\ (e = Source(q) \/ e = Columns(q))  BY <3>1, <3>2, EntryIs
    <3>4. Active(q)  BY <2>1, <3>1, <3>2, <3>3 DEF Registered, Listed
    <3> QED BY <3>2, <3>4 DEF Active
  <2>3. \A entries \in {js.db, js.col} : \A i, j \in DOMAIN entries : entries[i] = entries[j] => i = j
    BY <2>1 DEF Registered, Distinct
  <2>4. ASSUME NEW i \in DOMAIN js.db, NEW j \in DOMAIN js.col PROVE js.db[i] # js.col[j]
    <3>1. PICK e : e = js.db[i]  OBVIOUS
    <3>2. e \in Entries /\ In(js.db, e)  BY <2>1, <3>1 DEF In
    <3>3. PICK q : q \in Queries /\ (e = Source(q) \/ e = Columns(q))  BY <3>2, EntryIs
    <3>4. e = Source(q) /\ ~IsSimple(q)  BY <2>1, <3>2, <3>3 DEF Registered, Listed
    <3>5. ~In(js.col, e)  BY <2>1, <3>3, <3>4 DEF Registered, Listed
    <3> QED BY <3>1, <3>5 DEF In
  <2> QED BY <2>1, <2>2, <2>3, <2>4 DEF NoEntryLeaks, Registered
<1> QED BY <1>1, AlwaysWired, PTL

\* The invariant of _notify is never broken.
THEOREM SourcesEndSilently ==
  ASSUME ~OnceAllowed
  PROVE  Spec => []NoEmissionAfterEnd
<1>1. Wired => NoEmissionAfterEnd  BY DEF Wired, Typed, NoEmissionAfterEnd
<1> QED BY <1>1, AlwaysWired, PTL

-----------------------------------------------------------------------------
\* Rows, Models, the batch, and what is still to be announced.
Under(r) == batch # None /\ batch.change.record = r
Committed(r) == Under(r) /\ batch.state = "done"
Matches(r) == rows[r] \in Matching
About(changes, r) == \E i \in DOMAIN changes : changes[i].record = r

\* A Model shows its row, but for an update that is awaited or has failed.
Models ==
  \A r \in Records : rows[r] # None =>
    /\ js.raw[r] # None \/ (Committed(r) /\ batch.change.type = "created")
    /\ js.raw[r] # None /\ r \notin spoiled =>
         js.raw[r] = rows[r] \/ (Under(r) /\ batch.change.type = "updated")
\* What the change of the batch awaited means for its record.
Awaited ==
  batch # None =>
    LET r == batch.change.record type == batch.change.type IN
    /\ type = "created" => js.raw[r] = None /\ (batch.state # "done" => rows[r] = None)
    /\ type = "updated" => /\ js.raw[r] = batch.change.value /\ rows[r] # None
                           /\ batch.state = "failed" => r \in spoiled
    /\ batch.state = "done" => rows[r] = batch.change.value
    /\ type = "raw" => deferred = None
\* Nothing is written during a notification, and nobody joins the list it is at.
Phases ==
  /\ notify.phase # "none" => batch = None /\ deferred = None
  /\ notify.phase = "none" => notify = Silent
  /\ notify.phase = "db" => notify.length = Len(js.db)
  /\ notify.phase = "collection" => notify.length = Len(js.col)
\* An answer tells the rows, unless the batch was executed after it.
Accurate ==
  \A i \in 1..Len(answers) : answers[i].do = "fetch" /\ ~answers[i].failed =>
    \A r \in Records : \/ r \in answers[i].list <=> Matches(r)
                       \/ Committed(r) /\ \E j \in 1..Len(answers) : j > i /\ answers[j].do = "batch"
\* The last change about a record tells whether it has a row.
Settled(changes) ==
  \A r \in Records : About(changes, r) /\ ~Committed(r) =>
    \E i \in DOMAIN changes :
       /\ changes[i].record = r
       /\ \A j \in DOMAIN changes : changes[j].record = r => j <= i
       /\ changes[i].type = "destroyed" <=> rows[r] = None
Settles == (deferred # None => Settled(deferred)) /\ Settled(notify.changes)
Stored == Models /\ Awaited /\ Phases /\ Accurate /\ Settles

\* The head of a sequence is gone.
LEMMA AnswersShift ==
  ASSUME Typed, answers # <<>>, answers' = Tail(answers)
  PROVE  /\ Len(answers) \in Nat \ {0} /\ Len(answers') = Len(answers) - 1
         /\ \A i \in 1..Len(answers') : i + 1 \in 1..Len(answers) /\ answers'[i] = answers[i + 1]
         /\ Head(answers) = answers[1] /\ 1 \in 1..Len(answers)
<1>1. answers \in Seq(Answers)  BY DEF Typed
<1> QED BY <1>1

\* A change of a record that a sequence is not about, or has not.
LEMMA NoChanges ==
  /\ \A r : ~About(<<>>, r) /\ ~Updates(<<>>, r)
  /\ Settled(<<>>) /\ Settled(<<>>)'
<1>1. DOMAIN <<>> = {}  OBVIOUS
<1> QED BY <1>1 DEF About, Updates, Settled

\* Steps that write nothing and announce nothing new.
LEMMA StoredSame ==
  ASSUME Wired, Stored, rows' = rows, batch' = batch, deferred' = deferred, spoiled' = spoiled,
         js'.raw = js.raw,
         answers' = answers \/ (answers # <<>> /\ answers' = Tail(answers) /\ Head(answers).do = "fetch"),
         notify'.changes = notify.changes \/ notify'.changes = <<>>, Phases'
  PROVE  Stored'
<1>0. Typed  BY DEF Wired
<1>c. \A r : (Under(r)' <=> Under(r)) /\ (Committed(r)' <=> Committed(r)) /\ (Matches(r)' <=> Matches(r))
  BY DEF Under, Committed, Matches
<1>1. Models'  BY <1>c DEF Stored, Models
<1>2. Awaited'  BY DEF Stored, Awaited
<1>3. Accurate'
  <2>1. CASE answers' = answers  BY <1>c, <2>1 DEF Stored, Accurate
  <2>2. CASE answers # <<>> /\ answers' = Tail(answers) /\ Head(answers).do = "fetch"
    <3>1. /\ Len(answers) \in Nat \ {0} /\ Len(answers') = Len(answers) - 1
          /\ \A i \in 1..Len(answers') : i + 1 \in 1..Len(answers) /\ answers'[i] = answers[i + 1]
      BY <1>0, <2>2, AnswersShift
    <3> SUFFICES ASSUME NEW i \in 1..Len(answers'), answers'[i].do = "fetch", ~answers'[i].failed, NEW r \in Records,
                        ~(r \in answers'[i].list <=> Matches(r))
                 PROVE  Committed(r) /\ \E j \in 1..Len(answers') : j > i /\ answers'[j].do = "batch"
      BY <1>c DEF Accurate
    <3>2. i + 1 \in 1..Len(answers) /\ answers[i + 1] = answers'[i]  BY <3>1
    <3>3. Committed(r) /\ \E j \in 1..Len(answers) : j > i + 1 /\ answers[j].do = "batch"
      BY <3>2 DEF Stored, Accurate
    <3>4. PICK j \in 1..Len(answers) : j > i + 1 /\ answers[j].do = "batch"  BY <3>3
    <3>5. j - 1 \in 1..Len(answers') /\ j - 1 > i /\ (j - 1) + 1 = j  BY <3>1, <3>4
    <3> QED BY <3>1, <3>3, <3>4, <3>5
  <2> QED BY <2>1, <2>2
<1>4. Settles'
  <2>1. \A changes : Settled(changes) => Settled(changes)'
    BY <1>c DEF Settled, About
  <2>2. ASSUME deferred' # None PROVE Settled(deferred)'
    BY <2>1, <2>2 DEF Stored, Settles
  <2>3. Settled(notify.changes)'
    BY <2>1, NoChanges DEF Stored, Settles
  <2> QED BY <2>2, <2>3 DEF Settles
<1> QED BY <1>1, <1>2, <1>3, <1>4 DEF Stored

\* What writes nothing leaves the Models alone.
LEMMA RawStays ==
  /\ \A w, v, q : Fetching(w, v, q) => v.raw = w.raw
  /\ \A w, v, q, l : Answering(w, v, q, l) => v.raw = w.raw
<1>1. \A w, v, q, l : Answering(w, v, q, l) => v.raw = w.raw
  <2> TAKE w, v, q, l
  <2> QED BY Zenon DEF Answering, Idles, Emission, Keeps
<1>2. \A w, v, q : Fetching(w, v, q) => v.raw = w.raw
  <2> TAKE w, v, q
  <2>1. CASE Answering(w, v, q, Result)  BY <1>1, <2>1
  <2>2. CASE Idles(w, v, q)  BY <2>2, Zenon DEF Idles, Keeps
  <2> QED BY <2>1, <2>2, Zenon DEF Fetching
<1> QED BY <1>1, <1>2

\* A fetch is answered: nothing is written.
LEMMA StoredFetchAnswered ==
  ASSUME Wired, Stored, FetchAnswered
  PROVE  Stored'
<1>1. /\ rows' = rows /\ batch' = batch /\ deferred' = deferred /\ spoiled' = spoiled /\ notify' = notify
      /\ answers # <<>> /\ answers' = Tail(answers) /\ Head(answers).do = "fetch" /\ Calm
  BY DEF FetchAnswered, work
<1>2. js'.raw = js.raw  BY FetchAnsweredIs, RawStays
<1>3. Phases'  BY <1>1 DEF Calm, Stored, Phases, Silent
<1> QED BY <1>1, <1>2, <1>3, StoredSame

\* The first round of a notification.
LEMMA StoredNotifyDatabase ==
  ASSUME Wired, Stored, NotifyDatabase
  PROVE  Stored'
<1>0. Typed /\ js \in Page /\ notify \in Notices  BY DEF Wired, Typed
<1>1. /\ rows' = rows /\ batch' = batch /\ deferred' = deferred /\ spoiled' = spoiled /\ answers' = answers
      /\ notify.phase = "db" /\ batch = None /\ deferred = None
  BY DEF NotifyDatabase, Stored, Phases
<1>2. CASE ~Heard(js.db)
  <2>1. js' = js /\ notify' = [notify EXCEPT !.phase = "collection", !.next = 1, !.length = Len(js.col)]
    BY <1>2 DEF NotifyDatabase, Rings
  <2>2. notify'.phase = "collection" /\ notify'.length = Len(js.col) /\ notify'.changes = notify.changes
    BY <1>0, <2>1 DEF Notices
  <2>3. Phases'  BY <1>1, <2>1, <2>2 DEF Phases
  <2> QED BY <1>1, <2>1, <2>2, <2>3, StoredSame
<1>3. CASE Heard(js.db)
  <2>p. PICK q : q = js.db[notify.next].query  OBVIOUS
  <2>1. Fetching(js, js', q) /\ notify' = [notify EXCEPT !.next = @ + 1]
    BY <1>3, <2>p, DatabaseHears
  <2>2. js'.raw = js.raw /\ js'.db = js.db  BY <2>1, FetchingKeeps DEF Keeps
  <2>3. notify'.phase = "db" /\ notify'.length = notify.length /\ notify'.changes = notify.changes
    BY <1>0, <1>1, <2>1 DEF Notices
  <2>4. Phases'  BY <1>1, <2>2, <2>3 DEF Phases, Stored
  <2> QED BY <1>1, <2>2, <2>3, <2>4, StoredSame
<1> QED BY <1>2, <1>3

\* The second round.
LEMMA StoredNotifyCollection ==
  ASSUME Wired, Stored, NotifyCollection
  PROVE  Stored'
<1>0. Typed /\ js \in Page /\ notify \in Notices  BY DEF Wired, Typed
<1>1. /\ rows' = rows /\ batch' = batch /\ deferred' = deferred /\ spoiled' = spoiled /\ answers' = answers
      /\ notify.phase = "collection" /\ batch = None /\ deferred = None
  BY DEF NotifyCollection, Stored, Phases, channel
<1>2. CASE ~Heard(js.col)
  <2>1. js' = js /\ notify' = Silent  BY <1>2 DEF NotifyCollection
  <2>2. notify'.phase = "none" /\ notify'.changes = <<>>  BY <2>1 DEF Silent
  <2>3. Silent' = Silent  BY DEF Silent
  <2>4. Phases'  BY <2>1, <2>2, <2>3 DEF Phases
  <2> QED BY <1>1, <2>1, <2>2, <2>4, StoredSame
<1>3. CASE Heard(js.col)
  <2>p. PICK e, q : e = js.col[notify.next] /\ q = e.query  OBVIOUS
  <2>1. /\ notify' = [notify EXCEPT !.next = @ + 1]
        /\ \/ ColumnsHear(js, js', q, notify.changes)
           \/ /\ Emission(js, js', q, Processed(js.obs[q].list, js, notify.changes))
              /\ js'.col = js.col
    BY <1>3, <2>p, CollectionHears
  <2>2. js'.raw = js.raw /\ js'.col = js.col  BY <2>1 DEF ColumnsHear, Emission, Keeps
  <2>3. notify'.phase = "collection" /\ notify'.length = notify.length /\ notify'.changes = notify.changes
    BY <1>0, <1>1, <2>1 DEF Notices
  <2>4. Phases'  BY <1>1, <2>2, <2>3 DEF Phases, Stored
  <2> QED BY <1>1, <2>2, <2>3, <2>4, StoredSame
<1> QED BY <1>2, <1>3

\* Consumers join and leave between steps.
LEMMA StoredSubscribe ==
  ASSUME Wired, ~OnceAllowed, Stored, NEW c \in Consumers, NEW q \in Queries, NEW once \in BOOLEAN, Subscribe(c, q, once)
  PROVE  Stored'
<1>1. /\ rows' = rows /\ batch' = batch /\ deferred' = deferred /\ spoiled' = spoiled /\ notify' = notify
      /\ answers' = answers /\ Calm
  BY DEF Subscribe, work
<1>2. js'.raw = js.raw
  <2>1. CASE Active(q)  BY <2>1, SubscribeIs DEF Joins, Alike
  <2>2. CASE ~Active(q)
    <3>1. PICK w1, w2 \in Page : Joins(js, w1, c, q) /\ Beginning(w1, w2, q) /\ Fetching(w2, js', q)
      BY <2>2, SubscribeIs
    <3> QED BY <3>1, RawStays DEF Joins, Alike, Beginning
  <2> QED BY <2>1, <2>2
<1>3. Phases'  BY <1>1 DEF Calm, Stored, Phases, Silent
<1> QED BY <1>1, <1>2, <1>3, StoredSame

\* A consumer leaves: no row, Model or answer changes.
LEMMA StoredUnsubscribe ==
  ASSUME Wired, Stored, NEW c \in Consumers, Unsubscribe(c)
  PROVE  Stored'
<1>1. /\ rows' = rows /\ batch' = batch /\ deferred' = deferred /\ spoiled' = spoiled /\ notify' = notify
      /\ answers' = answers /\ Calm
  BY DEF Unsubscribe, work, channel
<1>2. js'.raw = js.raw  BY UnsubscribeIs DEF Leaves, Alike
<1>3. Phases'  BY <1>1 DEF Calm, Stored, Phases, Silent
<1> QED BY <1>1, <1>2, <1>3, StoredSame

\* A source is subscribed to again: no row, Model or answer changes.
LEMMA StoredReset ==
  ASSUME Wired, Stored, ResetObservables
  PROVE  Stored'
<1>0. Typed /\ js \in Page /\ notify \in Notices  BY DEF Wired, Typed
<1>1. /\ rows' = rows /\ batch' = batch /\ deferred' = deferred /\ spoiled' = spoiled /\ answers' = answers
      /\ notify.phase = "invalidate" /\ batch = None /\ deferred = None
  BY DEF ResetObservables, Stored, Phases
<1>2. PICK q \in notify.todo :
           /\ q \in Queries
           /\ notify' = IF notify.todo = {q} THEN Silent ELSE [notify EXCEPT !.todo = @ \ {q}]
           /\ ~Active(q) => js' = js /\ sent' = sent
           /\ Active(q) => /\ Asks(q, js.obs[q].age + 1)
                           /\ \E w1, w2 \in Page : Restarts(js, w1, q) /\ Beginning(w1, w2, q) /\ Fetching(w2, js', q)
  BY ResetIs
<1>3. js'.raw = js.raw
  <2>1. CASE ~Active(q)  BY <1>2, <2>1
  <2>2. CASE Active(q)
    <3>1. PICK w1, w2 \in Page : Restarts(js, w1, q) /\ Beginning(w1, w2, q) /\ Fetching(w2, js', q)
      BY <1>2, <2>2
    <3> QED BY <3>1, RawStays DEF Restarts, Alike, Beginning
  <2> QED BY <2>1, <2>2
<1>4. Silent' = Silent /\ Silent.phase = "none" /\ Silent.changes = <<>>  BY DEF Silent
<1>5. CASE notify' = Silent
  <2>1. Phases'  BY <1>4, <1>5 DEF Phases
  <2> QED BY <1>1, <1>3, <1>4, <1>5, <2>1, StoredSame
<1>6. CASE notify' = [notify EXCEPT !.todo = @ \ {q}]
  <2>1. notify'.phase = "invalidate" /\ notify'.changes = notify.changes  BY <1>0, <1>1, <1>6 DEF Notices
  <2>2. Phases'  BY <1>1, <2>1 DEF Phases
  <2> QED BY <1>1, <1>3, <2>1, <2>2, StoredSame
<1> QED BY <1>2, <1>5, <1>6

\* Where the batch is in its life: sent, or executed with its answer last or
\* before later answers.
LEMMA BatchIs ==
  ASSUME Wired, batch # None
  PROVE  /\ batch \in Batches /\ batch.change \in Changes /\ batch.state \in {"sent", "done", "failed"}
         /\ batch.change.record \in Records /\ batch.change.value \in Values
         /\ batch.change.type \in {"created", "updated", "destroyed", "raw"}
         /\ batch.change.value = None <=> batch.change.type \in {"destroyed", "raw"}
<1>1. batch \in Batches  BY DEF Wired, Typed
<1>2. batch.change \in Changes /\ batch.state \in {"sent", "done", "failed"}  BY <1>1 DEF Batches
<1>3. \A change \in Changes : change.type \in {"destroyed", "raw"} => change.value = None
  BY NoneAssumption DEF Changes
<1> QED BY <1>1, <1>2, <1>3, ChangeType

\* Where its answer is, none comes before it is executed.
LEMMA BatchAnswers ==
  ASSUME Wired
  PROVE  \A i \in 1..Len(answers) : answers[i].do = "batch" =>
           /\ batch # None /\ batch.state # "sent"
           /\ \A j \in 1..Len(answers) : answers[j].do = "batch" <=> j = i
<1>0. Typed /\ Channel /\ Len(answers) \in Nat /\ Len(sent) \in Nat /\ Ways = Len(answers) + Len(sent)
  BY WaysType DEF Wired, Typed, Ways
<1>1. \A i \in 1..Len(answers) : i \in 1..Ways /\ Item(i) = answers[i]  BY <1>0 DEF Item
<1> SUFFICES ASSUME NEW i \in 1..Len(answers), answers[i].do = "batch"
             PROVE  /\ batch # None /\ batch.state # "sent"
                    /\ \A j \in 1..Len(answers) : answers[j].do = "batch" <=> j = i
  OBVIOUS
<1>2. i \in 1..Ways /\ Item(i).do = "batch"  BY <1>1
<1>3. batch # None  BY <1>0, <1>2 DEF Channel
<1>4. PICK b \in 1..Ways : /\ \A j \in 1..Ways : Item(j).do = "batch" <=> j = b
                           /\ batch.state = "sent" <=> b > Len(answers)
  BY <1>0, <1>3 DEF Channel
<1>5. b = i  BY <1>2, <1>4
<1>6. batch.state # "sent"  BY <1>0, <1>4, <1>5
<1>7. \A j \in 1..Len(answers) : answers[j].do = "batch" <=> j = i  BY <1>1, <1>4, <1>5
<1> QED BY <1>3, <1>6, <1>7

\* A batch is sent.
LEMMA StoredBatch ==
  ASSUME Wired, Stored, NEW change \in Changes, Batch(change)
  PROVE  Stored'
<1>0. Typed /\ js \in Page /\ js.raw \in [Records -> Values] /\ spoiled \subseteq Records  BY DEF Wired, Typed, Page
<1>1. /\ rows' = rows /\ deferred' = deferred /\ spoiled' = spoiled /\ notify' = notify /\ answers' = answers
      /\ Calm /\ batch = None /\ Possible(change) /\ batch' = [change |-> change, state |-> "sent"]
      /\ change.type = "raw" => deferred = None
  BY DEF Batch
<1>2. batch' # None /\ batch'.change = change /\ batch'.state = "sent"
  <2>1. batch' \in Batches  BY <1>1 DEF Batches
  <2> QED BY <1>1, <2>1, NoneAssumption
<1>3. \A r : /\ Under(r)' <=> change.record = r
             /\ ~Under(r) /\ ~Committed(r) /\ ~Committed(r)' /\ (Matches(r)' <=> Matches(r))
  BY <1>1, <1>2 DEF Under, Committed, Matches
<1>4. change.record \in Records /\ change.value \in Values /\ change.type \in {"created", "updated", "destroyed", "raw"}
  BY ChangeType
<1>5. js'.raw = IF change.type = "updated" THEN [js.raw EXCEPT ![change.record] = change.value] ELSE js.raw
  <2>1. CASE change.type = "updated"
    <3>1. js' = [js EXCEPT !.raw[change.record] = change.value]  BY <2>1 DEF Batch
    <3>2. change.value # None  BY <2>1, ChangeType
    <3> QED BY <1>0, <1>4, <2>1, <3>1, <3>2, RawSet
  <2>2. CASE change.type # "updated"  BY <2>2 DEF Batch
  <2> QED BY <2>1, <2>2
<1>6. Models'
  <2> SUFFICES ASSUME NEW r \in Records, rows[r] # None
               PROVE  /\ js'.raw[r] # None
                      /\ r \notin spoiled => js'.raw[r] = rows[r] \/ (change.record = r /\ change.type = "updated")
    BY <1>1, <1>2, <1>3 DEF Models
  <2>1. js.raw[r] # None /\ (r \notin spoiled => js.raw[r] = rows[r])  BY <1>3 DEF Stored, Models
  <2>2. CASE change.record = r /\ change.type = "updated"
    <3>1. change.value # None  BY <2>2, ChangeType
    <3> QED BY <1>0, <1>5, <2>2, <3>1
  <2>3. CASE ~(change.record = r /\ change.type = "updated")
    <3>1. js'.raw[r] = js.raw[r]  BY <1>0, <1>5, <2>3
    <3> QED BY <2>1, <3>1
  <2> QED BY <2>2, <2>3
<1>7. Awaited'
  <2>1. ASSUME change.type = "created" PROVE js'.raw[change.record] = None /\ rows[change.record] = None
    <3>1. js'.raw[change.record] = None  BY <1>1, <1>5, <2>1 DEF Possible
    <3>2. js.raw[change.record] = None  BY <1>1, <2>1 DEF Possible
    <3>3. rows[change.record] = None  BY <1>3, <1>4, <3>2 DEF Stored, Models
    <3> QED BY <3>1, <3>3
  <2>2. ASSUME change.type = "updated" PROVE js'.raw[change.record] = change.value /\ rows[change.record] # None
    BY <1>0, <1>1, <1>4, <1>5, <2>2 DEF Possible
  <2> QED BY <1>1, <1>2, <2>1, <2>2 DEF Awaited
<1>8. Phases'
  <2>1. notify.phase = "none" /\ notify = Silent  BY <1>1 DEF Calm, Stored, Phases
  <2> QED BY <1>1, <2>1 DEF Phases, Silent
<1>9. Accurate'
  BY <1>1, <1>3 DEF Stored, Accurate
<1>10. Settles'
  <2>1. \A changes : Settled(changes) => Settled(changes)'
    BY <1>1, <1>3 DEF Settled, About
  <2>2. ASSUME deferred' # None PROVE Settled(deferred)'
    BY <1>1, <2>1, <2>2 DEF Stored, Settles
  <2>3. Settled(notify.changes)'
    BY <1>1, <2>1 DEF Stored, Settles
  <2> QED BY <2>2, <2>3 DEF Settles
<1> QED BY <1>6, <1>7, <1>8, <1>9, <1>10 DEF Stored

\* Accurate answers stay so while the rows and the batch do.
LEMMA AccurateAppended ==
  ASSUME Wired, Accurate, NEW m, answers' = Append(answers, m),
         \A r \in Records : /\ Committed(r) => Committed(r)'
                            /\ (Matches(r)' <=> Matches(r)) \/ (m.do = "batch" /\ Committed(r)'),
         m.do = "fetch" /\ ~m.failed => \A r \in Records : r \in m.list <=> Matches(r)'
  PROVE  Accurate'
<1>0. answers \in Seq(Answers)  BY DEF Wired, Typed
<1>1. PICK n \in Nat : n = Len(answers)  BY <1>0
<1>2. Len(answers') = n + 1 /\ answers'[n + 1] = m /\ \A i \in 1..n : answers'[i] = answers[i]
  BY <1>0, <1>1
<1> SUFFICES ASSUME NEW i \in 1..(n + 1), answers'[i].do = "fetch", ~answers'[i].failed, NEW r \in Records,
                    ~(r \in answers'[i].list <=> Matches(r)')
             PROVE  Committed(r)' /\ \E j \in 1..(n + 1) : j > i /\ answers'[j].do = "batch"
  BY <1>2 DEF Accurate
<1>3. i # n + 1  BY <1>2
<1>4. i \in 1..n /\ answers'[i] = answers[i]  BY <1>2, <1>3
<1>5. CASE r \in answers[i].list <=> Matches(r)
  <2>1. m.do = "batch" /\ Committed(r)'  BY <1>4, <1>5
  <2>2. n + 1 \in 1..(n + 1) /\ n + 1 > i  BY <1>4
  <2> QED BY <1>2, <2>1, <2>2
<1>6. CASE ~(r \in answers[i].list <=> Matches(r))
  <2>1. Committed(r) /\ \E j \in 1..n : j > i /\ answers[j].do = "batch"  BY <1>1, <1>4, <1>6 DEF Accurate
  <2>2. PICK j \in 1..n : j > i /\ answers[j].do = "batch"  BY <2>1
  <2>3. j \in 1..(n + 1) /\ answers'[j].do = "batch"  BY <1>2, <2>2
  <2> QED BY <2>1, <2>2, <2>3
<1> QED BY <1>5, <1>6

\* What matches is the result of a query.
LEMMA ResultMatches == \A r \in Records : r \in Result <=> Matches(r)
BY DEF Result, Matches

\* What was settled is, unless the batch is executed.
LEMMA SettledStays ==
  ASSUME NEW changes, Settled(changes),
         \A r \in Records : Committed(r) \/ Committed(r)' => Committed(r)',
         \A r \in Records : ~Committed(r)' => rows'[r] = rows[r]
  PROVE  Settled(changes)'
BY DEF Settled, About

\* The driver executes a request.
LEMMA StoredExecute ==
  ASSUME Wired, Stored, Execute
  PROVE  Stored'
<1>0. Typed /\ rows \in [Records -> Values] /\ js' = js /\ sent # <<>> /\ deferred' = deferred /\ notify' = notify
      /\ spoiled' = spoiled
  BY DEF Wired, Typed, Execute
<1>p. PICK m : m = Head(sent)  OBVIOUS
<1>1. m.do \in {"batch", "fetch"} /\ (m.do = "batch" => batch # None /\ batch.state = "sent")
  BY <1>0, <1>p, FirstRequest
<1>2. CASE m.do = "fetch"
  <2>1. answers' = Append(answers, [do |-> "fetch", query |-> m.query, age |-> m.age, list |-> Result, failed |-> FALSE])
        /\ rows' = rows /\ batch' = batch
    BY <1>p, <1>2 DEF Execute
  <2>2. \A r : (Under(r)' <=> Under(r)) /\ (Committed(r)' <=> Committed(r)) /\ (Matches(r)' <=> Matches(r))
    BY <2>1 DEF Under, Committed, Matches
  <2>3. Models'  BY <1>0, <2>1, <2>2 DEF Stored, Models
  <2>4. Awaited'  BY <1>0, <2>1 DEF Stored, Awaited
  <2>5. Phases'  BY <1>0, <2>1 DEF Stored, Phases, Silent
  <2>6. Accurate'
    <3>1. \A r \in Records : r \in Result <=> Matches(r)'  BY <2>2, ResultMatches
    <3> QED BY <2>1, <2>2, <3>1, AccurateAppended DEF Stored
  <2>7. Settles'
    <3>1. \A changes : Settled(changes) => Settled(changes)'  BY <2>1, <2>2, SettledStays
    <3>2. ASSUME deferred' # None PROVE Settled(deferred)'  BY <1>0, <3>1, <3>2 DEF Stored, Settles
    <3>3. Settled(notify.changes)'  BY <1>0, <3>1 DEF Stored, Settles
    <3> QED BY <3>2, <3>3 DEF Settles
  <2> QED BY <2>3, <2>4, <2>5, <2>6, <2>7 DEF Stored
<1>3. CASE m.do = "batch"
  <2>1. /\ rows' = [rows EXCEPT ![batch.change.record] = batch.change.value]
        /\ batch' = [batch EXCEPT !.state = "done"]
        /\ answers' = Append(answers, [do |-> "batch"])
    BY <1>p, <1>3 DEF Execute
  <2>p. PICK r, change : change = batch.change /\ r = change.record  OBVIOUS
  <2>2. /\ batch # None /\ batch.state = "sent" /\ batch \in Batches
        /\ r \in Records /\ change.value \in Values /\ change.type \in {"created", "updated", "destroyed", "raw"}
        /\ (change.value = None <=> change.type \in {"destroyed", "raw"})
    BY <1>1, <1>3, <2>p, BatchIs
  <2>3. batch' # None /\ batch'.change = change /\ batch'.state = "done"
    <3>1. batch' \in Batches /\ batch'.change = change /\ batch'.state = "done"  BY <2>1, <2>2, <2>p DEF Batches
    <3> QED BY <3>1, NoneAssumption
  <2>4. \A x : /\ Under(x) <=> x = r
               /\ Under(x)' <=> x = r
               /\ ~Committed(x) /\ (Committed(x)' <=> x = r)
    BY <2>2, <2>3, <2>p DEF Under, Committed
  <2>5. rows'[r] = change.value /\ \A x \in Records \ {r} : rows'[x] = rows[x]  BY <1>0, <2>1, <2>2, <2>p
  <2>6. /\ change.type = "created" => js.raw[r] = None
        /\ change.type = "updated" => js.raw[r] = change.value /\ rows[r] # None
        /\ change.type = "raw" => deferred = None
    BY <2>2, <2>p DEF Stored, Awaited
  <2>7. Models'
    <3> SUFFICES ASSUME NEW x \in Records, rows'[x] # None
                 PROVE  /\ js.raw[x] # None \/ (x = r /\ change.type = "created")
                        /\ js.raw[x] # None /\ x \notin spoiled => js.raw[x] = rows'[x] \/ (x = r /\ change.type = "updated")
      BY <1>0, <2>3, <2>4 DEF Models
    <3>1. CASE x = r
      <4>1. change.type \in {"created", "updated"}  BY <2>2, <2>5, <3>1
      <4> QED BY <2>2, <2>6, <3>1, <4>1
    <3>2. CASE x # r
      <4>1. rows[x] # None /\ rows'[x] = rows[x]  BY <2>5, <3>2
      <4> QED BY <2>4, <3>2, <4>1 DEF Stored, Models
    <3> QED BY <3>1, <3>2
  <2>8. Awaited'
    BY <1>0, <2>3, <2>p, <2>5, <2>6, <2>2 DEF Awaited
  <2>9. Phases'
    BY <1>0, <2>2 DEF Phases, Silent, Stored
  <2>10. Accurate'
    <3>1. \A x \in Records : (Matches(x)' <=> Matches(x)) \/ x = r  BY <2>5 DEF Matches
    <3> QED BY <2>1, <2>4, <3>1, AccurateAppended DEF Stored
  <2>11. Settles'
    <3>1. \A changes : Settled(changes) => Settled(changes)'  BY <2>4, <2>5, SettledStays
    <3>2. ASSUME deferred' # None PROVE Settled(deferred)'  BY <1>0, <3>1, <3>2 DEF Stored, Settles
    <3>3. Settled(notify.changes)'  BY <1>0, <3>1 DEF Stored, Settles
    <3> QED BY <3>2, <3>3 DEF Settles
  <2> QED BY <2>7, <2>8, <2>9, <2>10, <2>11 DEF Stored
<1> QED BY <1>1, <1>2, <1>3

\* Stored is kept when the driver fails to execute a request.
LEMMA StoredExecuteFails ==
  ASSUME Wired, Stored, ExecuteFails
  PROVE  Stored'
<1>0. Typed /\ rows' = rows /\ js' = js /\ sent # <<>> /\ deferred' = deferred /\ notify' = notify
  BY DEF Wired, Typed, ExecuteFails
<1>p. PICK m : m = Head(sent)  OBVIOUS
<1>1. m.do \in {"batch", "fetch"} /\ (m.do = "batch" => batch # None /\ batch.state = "sent")
  BY <1>0, <1>p, FirstRequest
<1>2. CASE m.do = "fetch"
  <2>1. answers' = Append(answers, [do |-> "fetch", query |-> m.query, age |-> m.age, list |-> {}, failed |-> TRUE])
        /\ batch' = batch /\ spoiled' = spoiled
    BY <1>p, <1>2 DEF ExecuteFails
  <2>2. \A r : (Under(r)' <=> Under(r)) /\ (Committed(r)' <=> Committed(r)) /\ (Matches(r)' <=> Matches(r))
    BY <1>0, <2>1 DEF Under, Committed, Matches
  <2>3. Models'  BY <1>0, <2>1, <2>2 DEF Stored, Models
  <2>4. Awaited'  BY <1>0, <2>1 DEF Stored, Awaited
  <2>5. Phases'  BY <1>0, <2>1 DEF Stored, Phases, Silent
  <2>6. Accurate'
    BY <2>1, <2>2, AccurateAppended DEF Stored
  <2>7. Settles'
    <3>1. \A changes : Settled(changes) => Settled(changes)'  BY <1>0, <2>2, SettledStays
    <3>2. ASSUME deferred' # None PROVE Settled(deferred)'  BY <1>0, <3>1, <3>2 DEF Stored, Settles
    <3>3. Settled(notify.changes)'  BY <1>0, <3>1 DEF Stored, Settles
    <3> QED BY <3>2, <3>3 DEF Settles
  <2> QED BY <2>3, <2>4, <2>5, <2>6, <2>7 DEF Stored
<1>3. CASE m.do = "batch"
  <2>1. /\ batch' = [batch EXCEPT !.state = "failed"]
        /\ spoiled' = (IF batch.change.type = "updated" THEN spoiled \cup {batch.change.record} ELSE spoiled)
        /\ answers' = Append(answers, [do |-> "batch"])
    BY <1>p, <1>3 DEF ExecuteFails
  <2>p. PICK r, change : change = batch.change /\ r = change.record  OBVIOUS
  <2>2. batch # None /\ batch.state = "sent" /\ batch \in Batches  BY <1>1, <1>3, <2>p, BatchIs
  <2>3. batch' # None /\ batch'.change = change /\ batch'.state = "failed"
    <3>1. batch' \in Batches /\ batch'.change = change /\ batch'.state = "failed"  BY <2>1, <2>2, <2>p DEF Batches
    <3> QED BY <3>1, NoneAssumption
  <2>4. \A x : (Under(x)' <=> Under(x)) /\ ~Committed(x) /\ ~Committed(x)' /\ (Matches(x)' <=> Matches(x))
    BY <1>0, <2>2, <2>3, <2>p DEF Under, Committed, Matches
  <2>5. \A x : x \in spoiled => x \in spoiled'  BY <2>1
  <2>6. change.type = "updated" => r \in spoiled'  BY <2>1, <2>p
  <2>7. Models'  BY <1>0, <2>3, <2>4, <2>5, <2>p DEF Stored, Models
  <2>8. Awaited'  BY <1>0, <2>2, <2>3, <2>p, <2>6 DEF Stored, Awaited
  <2>9. Phases'  BY <1>0, <2>2 DEF Phases, Silent, Stored
  <2>10. Accurate'  BY <2>1, <2>4, AccurateAppended DEF Stored
  <2>11. Settles'
    <3>1. \A changes : Settled(changes) => Settled(changes)'  BY <1>0, <2>4, SettledStays
    <3>2. ASSUME deferred' # None PROVE Settled(deferred)'  BY <1>0, <3>1, <3>2 DEF Stored, Settles
    <3>3. Settled(notify.changes)'  BY <1>0, <3>1 DEF Stored, Settles
    <3> QED BY <3>2, <3>3 DEF Settles
  <2> QED BY <2>7, <2>8, <2>9, <2>10, <2>11 DEF Stored
<1> QED BY <1>1, <1>2, <1>3

\* A sequence of changes with the one just committed: its record is settled.
LEMMA SettledAppended ==
  ASSUME NEW changes \in Seq(Changes), Settled(changes), NEW change \in Changes,
         \A r \in Records : Committed(r) => r = change.record,
         change.type = "destroyed" <=> rows[change.record] = None
  PROVE  Settled(Append(changes, change))
<1> DEFINE t == Append(changes, change)
<1>1. PICK n \in Nat : n = Len(changes)  OBVIOUS
<1>2. DOMAIN changes = 1..n /\ DOMAIN t = 1..(n + 1) /\ t[n + 1] = change /\ \A i \in 1..n : t[i] = changes[i]
  BY <1>1
<1> HIDE DEF t
<1> SUFFICES ASSUME NEW r \in Records, About(t, r), ~Committed(r)
             PROVE  \E i \in 1..(n + 1) : /\ t[i].record = r
                                          /\ \A j \in 1..(n + 1) : t[j].record = r => j <= i
                                          /\ t[i].type = "destroyed" <=> rows[r] = None
  BY <1>2 DEF Settled, t
<1>3. CASE change.record = r
  <2>1. n + 1 \in 1..(n + 1) /\ \A j \in 1..(n + 1) : j <= n + 1  OBVIOUS
  <2> QED BY <1>2, <1>3, <2>1
<1>4. CASE change.record # r
  <2>0. \A i \in 1..(n + 1) : t[i].record = r => i \in 1..n /\ changes[i].record = r
    <3> TAKE i \in 1..(n + 1)
    <3>1. i = n + 1 \/ i \in 1..n  OBVIOUS
    <3> QED BY <1>2, <1>4, <3>1
  <2>1. About(changes, r)  BY <1>2, <2>0 DEF About
  <2>2. PICK i \in 1..n : /\ changes[i].record = r
                          /\ \A j \in 1..n : changes[j].record = r => j <= i
                          /\ changes[i].type = "destroyed" <=> rows[r] = None
    BY <1>2, <2>1 DEF Settled
  <2>3. i \in 1..(n + 1) /\ t[i] = changes[i]  BY <1>2
  <2> QED BY <2>0, <2>2, <2>3
<1> QED BY <1>3, <1>4

\* Changes settled before the answer of the batch are after it, but for those
\* about its record.
LEMMA SettledAnswered ==
  ASSUME NEW changes, rows' = rows, Settled(changes), \A r \in Records : About(changes, r) => ~Committed(r)
  PROVE  Settled(changes)'
BY DEF Settled, About

\* A batch is answered.
LEMMA StoredBatchAnswered ==
  ASSUME Wired, Stored, BatchAnswered
  PROVE  Stored'
<1>0. Typed /\ js \in Page /\ js.raw \in [Records -> Values] /\ spoiled \subseteq Records
  BY DEF Wired, Typed, Page
<1>1. /\ rows' = rows /\ batch' = None /\ Calm /\ sent' = sent
      /\ answers # <<>> /\ answers' = Tail(answers) /\ Head(answers).do = "batch"
      /\ spoiled' = IF batch.state = "done" THEN spoiled \ {batch.change.record} ELSE spoiled
  BY DEF BatchAnswered
<1>2. /\ Len(answers) \in Nat \ {0} /\ Len(answers') = Len(answers) - 1
      /\ \A i \in 1..Len(answers') : i + 1 \in 1..Len(answers) /\ answers'[i] = answers[i + 1]
      /\ answers[1].do = "batch" /\ 1 \in 1..Len(answers)
  BY <1>0, <1>1, AnswersShift
<1>p. PICK r, change : change = batch.change /\ r = change.record  OBVIOUS
<1>3. /\ batch # None /\ batch.state \in {"done", "failed"}
      /\ \A j \in 1..Len(answers) : answers[j].do = "batch" <=> j = 1
  <2>1. batch # None /\ batch.state # "sent" /\ \A j \in 1..Len(answers) : answers[j].do = "batch" <=> j = 1
    BY <1>2, BatchAnswers
  <2> QED BY <2>1, BatchIs
<1>4. /\ batch \in Batches /\ r \in Records /\ change.value \in Values /\ change \in Changes
      /\ change.type \in {"created", "updated", "destroyed", "raw"}
      /\ (change.value = None <=> change.type \in {"destroyed", "raw"})
  BY <1>3, <1>p, BatchIs
<1>5. \A x : /\ Under(x) <=> x = r
             /\ Committed(x) <=> x = r /\ batch.state = "done"
             /\ ~Under(x)' /\ ~Committed(x)' /\ (Matches(x)' <=> Matches(x))
  BY <1>1, <1>3, <1>p DEF Under, Committed, Matches
<1>6. /\ change.type = "created" => js.raw[r] = None /\ (batch.state # "done" => rows[r] = None)
      /\ change.type = "updated" => /\ js.raw[r] = change.value /\ rows[r] # None
                                    /\ batch.state = "failed" => r \in spoiled
      /\ batch.state = "done" => rows[r] = change.value
      /\ change.type = "raw" => deferred = None
  BY <1>3, <1>p DEF Stored, Awaited
<1>7. js'.raw = IF batch.state = "done" /\ change.type = "created" THEN [js.raw EXCEPT ![r] = change.value] ELSE js.raw
  <2>1. CASE batch.state = "done" /\ change.type = "created"
    <3>1. js' = [js EXCEPT !.raw[r] = change.value]  BY <1>p, <2>1 DEF BatchAnswered
    <3> QED BY <1>0, <1>4, <2>1, <3>1, RawSet
  <2>2. CASE ~(batch.state = "done" /\ change.type = "created")  BY <1>p, <2>2 DEF BatchAnswered
  <2> QED BY <2>1, <2>2
<1>8. Models'
  <2> SUFFICES ASSUME NEW x \in Records, rows[x] # None
               PROVE  js'.raw[x] # None /\ (x \notin spoiled' => js'.raw[x] = rows[x])
    BY <1>1, <1>5 DEF Models
  <2>1. CASE x # r
    <3>1. js'.raw[x] = js.raw[x] /\ (x \notin spoiled' => x \notin spoiled)  BY <1>0, <1>1, <1>7, <1>p, <2>1
    <3> QED BY <1>5, <2>1, <3>1 DEF Stored, Models
  <2>2. CASE x = r /\ batch.state = "done"
    <3>1. rows[r] = change.value /\ change.type \in {"created", "updated"}  BY <1>4, <1>6, <2>2
    <3>2. js'.raw[r] = change.value  BY <1>0, <1>4, <1>6, <1>7, <2>2, <3>1
    <3> QED BY <2>2, <3>1, <3>2
  <2>3. CASE x = r /\ batch.state = "failed"
    <3>1. js'.raw = js.raw /\ spoiled' = spoiled /\ change.type # "created"  BY <1>1, <1>6, <1>7, <2>3
    <3>2. js.raw[r] # None /\ (r \notin spoiled => js.raw[r] = rows[r] \/ change.type = "updated")
      BY <1>5, <1>p, <2>3, <3>1 DEF Stored, Models
    <3> QED BY <1>6, <2>3, <3>1, <3>2
  <2> QED BY <1>3, <2>1, <2>2, <2>3
<1>9. Awaited'  BY <1>1 DEF Awaited
<1>10. Accurate'
  <2> SUFFICES ASSUME NEW i \in 1..Len(answers'), answers'[i].do = "fetch", ~answers'[i].failed, NEW x \in Records
               PROVE  x \in answers'[i].list <=> Matches(x)
    BY <1>5 DEF Accurate
  <2>1. i + 1 \in 1..Len(answers) /\ answers[i + 1] = answers'[i]  BY <1>2
  <2>2. \A j \in 1..Len(answers) : j > i + 1 => answers[j].do # "batch"
    <3>1. \A j \in 1..Len(answers) : j > i + 1 => j # 1  BY <1>2
    <3> QED BY <1>3, <3>1
  <2> QED BY <2>1, <2>2 DEF Stored, Accurate
<1>11. Phases' /\ Settles'
  <2>1. notify.phase = "none" /\ notify = Silent  BY <1>1 DEF Calm, Stored, Phases
  <2>2. Silent.changes = <<>> /\ Silent' = Silent /\ Silent.phase = "none"  BY DEF Silent
  <2>3. Settled(<<>>)'  BY NoChanges
  <2>4. deferred # None => Settled(deferred) /\ deferred \in Seq(Changes)  BY <1>0 DEF Stored, Settles, Typed
  <2>5. CASE batch.state = "failed"
    <3>1. notify' = notify /\ deferred' = deferred  BY <2>5 DEF BatchAnswered
    <3>2. Phases'  BY <2>1, <2>2, <3>1 DEF Phases
    <3>3. ASSUME deferred # None PROVE Settled(deferred)'
      BY <1>1, <1>5, <2>4, <2>5, <3>1, <3>3, SettledAnswered
    <3> QED BY <2>1, <2>2, <2>3, <3>1, <3>2, <3>3 DEF Settles
  <2>6. CASE batch.state = "done" /\ change.type = "raw"
    <3>1. notify' = [Silent EXCEPT !.phase = "invalidate", !.todo = Queries] /\ deferred' = deferred /\ deferred = None
      BY <1>6, <1>p, <2>6 DEF BatchAnswered
    <3>2. notify'.phase = "invalidate" /\ notify'.changes = <<>>  BY <3>1 DEF Silent
    <3>3. Phases'  BY <1>1, <3>1, <3>2 DEF Phases
    <3> QED BY <2>3, <3>1, <3>2, <3>3 DEF Settles
  <2>7. CASE batch.state = "done" /\ change.type # "raw"
    <3>0. change.type = "destroyed" <=> rows[r] = None  BY <1>4, <1>6, <2>7
    <3>1. CASE deferred # None
      <4>1. deferred' = Append(deferred, change) /\ notify' = notify  BY <1>p, <2>7, <3>1 DEF BatchAnswered
      <4>2. Phases'  BY <2>1, <2>2, <4>1 DEF Phases
      <4>3. Settled(Append(deferred, change))  BY <1>4, <1>5, <1>p, <2>4, <3>0, <3>1, SettledAppended
      <4>4. \A x \in Records : Committed(x) => x = r  BY <1>5
      <4>5. Settled(deferred)'
        <5> DEFINE t == Append(deferred, change)
        <5>1. PICK n \in Nat : n = Len(deferred) /\ DOMAIN t = 1..(n + 1) /\ t[n + 1] = change
          BY <1>4, <2>4, <3>1
        <5> HIDE DEF t
        <5> SUFFICES ASSUME NEW x \in Records, About(t, x)
                     PROVE  \E i \in DOMAIN t :
                              /\ t[i].record = x
                              /\ \A j \in DOMAIN t : t[j].record = x => j <= i
                              /\ t[i].type = "destroyed" <=> rows[x] = None
          BY <1>1, <4>1 DEF Settled, About, t
        <5>2. CASE x = r
          <6>1. n + 1 \in 1..(n + 1) /\ \A j \in 1..(n + 1) : j <= n + 1  OBVIOUS
          <6> QED BY <1>p, <3>0, <5>1, <5>2, <6>1
        <5>3. CASE x # r  BY <4>3, <4>4, <5>3 DEF Settled, About, t
        <5> QED BY <5>2, <5>3
      <4> QED BY <2>1, <2>2, <2>3, <4>1, <4>2, <4>5 DEF Settles
    <3>2. CASE deferred = None
      <4>1. Notifies(<<change>>) /\ deferred' = deferred  BY <1>p, <2>7, <3>2 DEF BatchAnswered
      <4>0. <<change>> \in Seq(Changes)  BY <1>4
      <4>2. notify' = [phase |-> "db", changes |-> <<change>>, next |-> 1, length |-> Len(js.db), todo |-> {}]
        BY <1>0, <4>0, <4>1, NotifiesType
      <4>3. js'.db = js.db
        <5>1. CASE js' = js  BY <5>1
        <5>2. CASE js' = [js EXCEPT !.raw[r] = change.value]  BY <1>0, <5>2 DEF Page
        <5> QED BY <1>p, <5>1, <5>2 DEF BatchAnswered
      <4>4. Phases'  BY <1>1, <3>2, <4>1, <4>2, <4>3 DEF Phases
      <4>5. Settled(<<change>>)'
        <5>1. DOMAIN <<change>> = {1} /\ <<change>>[1] = change  OBVIOUS
        <5> QED BY <1>1, <1>p, <3>0, <5>1 DEF Settled, About
      <4> QED BY <3>2, <4>1, <4>2, <4>4, <4>5 DEF Settles
    <3> QED BY <3>1, <3>2
  <2> QED BY <1>3, <2>5, <2>6, <2>7
<1> QED BY <1>8, <1>9, <1>10, <1>11 DEF Stored

\* A batching scope begins or ends.
LEMMA StoredBatching ==
  ASSUME Wired, Stored, BeginBatching \/ EndBatching
  PROVE  Stored'
<1>0. /\ Typed /\ js' = js /\ rows' = rows /\ batch' = batch /\ batch = None /\ spoiled' = spoiled
      /\ sent' = sent /\ answers' = answers /\ Calm
  BY DEF Wired, Typed, BeginBatching, EndBatching, channel
<1>1. \A x : /\ ~Under(x) /\ ~Committed(x) /\ ~Under(x)' /\ ~Committed(x)' /\ (Matches(x)' <=> Matches(x))
  BY <1>0 DEF Under, Committed, Matches
<1>2. Models' /\ Awaited' /\ Accurate'
  BY <1>0, <1>1 DEF Stored, Models, Awaited, Accurate
<1>3. notify.phase = "none" /\ notify = Silent /\ Silent.changes = <<>> /\ Silent' = Silent /\ Silent.phase = "none"
  BY <1>0 DEF Calm, Stored, Phases, Silent
<1>4. Settled(<<>>)'  BY NoChanges
<1>5. CASE notify' = notify /\ (deferred' # None => deferred' = <<>>)
  <2>1. Phases'  BY <1>3, <1>5 DEF Phases
  <2> QED BY <1>2, <1>3, <1>4, <1>5, <2>1 DEF Stored, Settles
<1>6. CASE EndBatching /\ Notifies(deferred)
  <2>1. deferred # None /\ deferred' = None /\ Settled(deferred)
    BY <1>6 DEF EndBatching, Stored, Settles
  <2>2. deferred \in Seq(Changes)  BY <1>0, <2>1 DEF Typed
  <2>3. notify' = [phase |-> "db", changes |-> deferred, next |-> 1, length |-> Len(js.db), todo |-> {}]
    BY <1>0, <1>6, <2>2, NotifiesType
  <2>4. Phases'  BY <1>0, <2>1, <2>3 DEF Phases
  <2>5. \A changes : Settled(changes) => Settled(changes)'  BY <1>0, <1>1, SettledStays
  <2>6. Settles'  BY <2>1, <2>3, <2>5 DEF Settles
  <2> QED BY <1>2, <2>4, <2>6 DEF Stored
<1> QED BY <1>5, <1>6 DEF BeginBatching, EndBatching

\* At the start the Models equal their rows and nothing is under way: Stored holds.
LEMMA StoredInit ==
  ASSUME Init
  PROVE  Stored
<1>1. /\ batch = None /\ notify = Silent /\ deferred = None /\ answers = <<>> /\ js.raw = rows
  BY DEF Init
<1>2. Silent.phase = "none" /\ Silent.changes = <<>>  BY DEF Silent
<1>3. Len(<<>>) = 0 /\ 1..0 = {}  OBVIOUS
<1> QED BY <1>1, <1>2, <1>3, NoChanges DEF Stored, Models, Awaited, Phases, Accurate, Settles

\* Every step keeps what is stored and announced in order.
LEMMA StoredStep ==
  ASSUME Wired, ~OnceAllowed, Stored, [Next]_vars
  PROVE  Stored'
<1>1. CASE UNCHANGED vars
  <2>1. /\ rows' = rows /\ batch' = batch /\ deferred' = deferred /\ spoiled' = spoiled /\ notify' = notify
        /\ answers' = answers /\ js' = js
    BY <1>1 DEF vars, work, channel
  <2>2. Phases'  BY <2>1 DEF Stored, Phases, Silent
  <2> QED BY <2>1, <2>2, StoredSame
<1>2. CASE Next
  BY <1>2, StoredSubscribe, StoredUnsubscribe, StoredBatch, StoredBatching, StoredExecute, StoredExecuteFails,
     StoredFetchAnswered, StoredBatchAnswered, StoredNotifyDatabase, StoredNotifyCollection, StoredReset
  DEF Next
<1> QED BY <1>1, <1>2

-----------------------------------------------------------------------------
\* What the consumers of a query were given last, and what is still to come.

\* They were given the list the observer has.
Emits(w, q) ==
  LET o == w.obs[q] IN
  /\ o.last = o.list
  /\ o.list = None => o.first /\ o.observed = {} /\ ~o.pending
  /\ ~HasColumns(q) => o.observed = {} /\ ~o.pending
  /\ o.list # None =>
       /\ HasColumns(q) => o.observed = o.list /\ ~o.first
       /\ \A c \in o.subs : /\ w.saw[c] # None /\ w.saw[c].list = o.list
                            /\ HasColumns(q) => DOMAIN w.saw[c].values = o.list

\* Whether the notification is still to call an observer.
Unheard(list, e) == \E i \in DOMAIN list : i >= notify.next /\ list[i] = e
SourceUnheard(q) ==
  \/ notify.phase = "db" /\ (IsSimple(q) \/ Unheard(js.db, Source(q)))
  \/ notify.phase = "collection" /\ IsSimple(q) /\ Unheard(js.col, Source(q))
ColumnsUnheard(q) ==
  notify.phase = "db" \/ (notify.phase = "collection" /\ Unheard(js.col, Columns(q)))

\* An emission that was put off comes, with the source.
Pends(q) ==
  /\ js.obs[q].pending => IF IsSimple(q) THEN SourceUnheard(q) /\ ~ColumnsUnheard(q) ELSE js.obs[q].fetching
  /\ ~IsSimple(q) /\ HasColumns(q) /\ Active(q) /\ js.obs[q].fetching => OnWay(q) \/ js.obs[q].missed

\* The list has the records that match, but for those still to be announced.
Pending(q, r) ==
  \/ Committed(r)
  \/ deferred # None /\ About(deferred, r)
  \/ About(notify.changes, r) /\ SourceUnheard(q)
ToReset(q) == notify.phase = "invalidate" /\ q \in notify.todo
Fresh(q) ==
  Active(q) /\ ~ToReset(q) /\ ~js.obs[q].missed /\ ~OnWay(q) =>
    /\ js.obs[q].list # None
    /\ \A r \in Records : ~Pending(q, r) /\ r \notin spoiled => (r \in js.obs[q].list <=> Matches(r))

\* The values remembered are those of the Models, but for updates that are
\* still to be announced, or never are.
Announced(q, r) == Updates(notify.changes, r) /\ ColumnsUnheard(q)
States(w, q) ==
  HasColumns(q) =>
    \A r \in Records : rows[r] # None /\ ~Unannounced(r) /\ ~Announced(q, r) =>
      w.obs[q].states[r] \in {None, w.raw[r]}
\* The consumers have seen the values remembered, or those to be announced.
Seen(w, q) ==
  HasColumns(q) /\ ~w.obs[q].pending /\ w.obs[q].list # None =>
    \A c \in w.obs[q].subs : \A r \in w.obs[q].list :
       rows[r] # None /\ r \notin w.saw[c].early =>
         \/ w.saw[c].values[r] = w.obs[q].states[r]
         \/ w.saw[c].values[r] = w.raw[r] /\ Announced(q, r)

Follows(q) == Emits(js, q) /\ Pends(q) /\ Fresh(q) /\ States(js, q) /\ Seen(js, q)

\* Consumers have the observer's list after an emission.
LEMMA EmitsEmission ==
  ASSUME NEW w \in Page, NEW v, NEW q \in Queries, NEW l \in SUBSET Records, Emission(w, v, q, l),
         Emits(w, q)
  PROVE  Emits(v, q)
<1> DEFINE o == w.obs[q]
           new == v.obs[q]
<1>0. l # None /\ o.subs \subseteq Consumers /\ o \in Obs
  <2>1. None \notin SUBSET Records  BY NoneAssumption
  <2>2. o \in Obs  BY DEF Page
  <2> QED BY <2>1, <2>2 DEF Obs
<1>1. new.list = l /\ new.subs = o.subs  BY DEF Emission, Keeps
<1>s. Sight(w, q, l) # None /\ Sight(w, q, l).list = l /\ (HasColumns(q) => DOMAIN Sight(w, q, l).values = l)
  <2>1. Sight(w, q, l) # None  BY SightType, NoneAssumption
  <2> QED BY <2>1 DEF Sight
<1>2. ~HasColumns(q) => new.observed = {} /\ ~new.pending
  BY DEF Emission, Emits
<1>3. HasColumns(q) => new.observed = l /\ ~new.first
  BY DEF Emission
<1>4. CASE new.last = l /\ \A c \in o.subs : v.saw[c] = Sight(w, q, l)
  BY <1>0, <1>1, <1>s, <1>2, <1>3, <1>4 DEF Emits
<1>5. CASE /\ new.last = o.last /\ v.saw = w.saw
           /\ IF HasColumns(q) THEN ~o.first /\ ~o.pending /\ o.observed = l ELSE o.list = l
  <2>1. o.list = l  BY <1>0, <1>5 DEF Emits
  <2>2. new.last = l  BY <1>5, <2>1 DEF Emits
  <2>3. \A c \in new.subs : v.saw[c] # None /\ v.saw[c].list = l /\ (HasColumns(q) => DOMAIN v.saw[c].values = l)
    BY <1>0, <1>1, <1>5, <2>1 DEF Emits
  <2> QED BY <1>0, <1>1, <1>2, <1>3, <2>2, <2>3 DEF Emits
<1> QED BY <1>4, <1>5 DEF Emission

\* Consumers have the observer's list when nothing was shown.
LEMMA EmitsIdles ==
  ASSUME NEW w \in Page, NEW v, NEW q \in Queries, Emits(w, q), Idles(w, v, q)
  PROVE  Emits(v, q)
BY DEF Emits, Idles, Keeps

\* Consumers have the observer's list when the columns were compared.
LEMMA EmitsHear ==
  ASSUME NEW w \in Page, NEW v, NEW q \in Queries, NEW changes, HasColumns(q), Shown(w, q), Emits(w, q),
         ColumnsHear(w, v, q, changes)
  PROVE  Emits(v, q)
<1> DEFINE o == w.obs[q]
           new == v.obs[q]
<1>0. o \in Obs /\ new.subs = o.subs /\ new.list = o.list /\ new.observed = o.observed /\ new.first = o.first
  BY DEF Page, ColumnsHear, Keeps
<1>1. StatesChanged(w, q, changes) # {} => o.list # None /\ o.observed = o.list /\ o.observed \in SUBSET Records
  BY <1>0 DEF StatesChanged, Shown, Emits, Obs
<1>2. CASE StatesChanged(w, q, changes) = {}
  BY <1>0, <1>2 DEF ColumnsHear, Emits
<1>3. CASE StatesChanged(w, q, changes) # {} /\ new.pending /\ new.last = o.last /\ v.saw = w.saw
  BY <1>0, <1>1, <1>3 DEF Emits
<1>4. CASE /\ StatesChanged(w, q, changes) # {} /\ new.pending = o.pending /\ new.last = o.observed
           /\ \A c \in o.subs : v.saw[c] = Sight(w, q, o.observed)
  <2> DEFINE s == Sight(w, q, o.observed)
  <2>1. s # None /\ s.list = o.observed /\ DOMAIN s.values = o.observed
    <3>1. s # None  BY <1>1, <1>4, SightType, NoneAssumption
    <3> QED BY <3>1 DEF Sight
  <2> HIDE DEF s
  <2>2. \A c \in o.subs : v.saw[c] = s  BY <1>4 DEF s
  <2> QED BY <1>0, <1>1, <1>4, <2>1, <2>2 DEF Emits
<1> QED BY <1>2, <1>3, <1>4 DEF ColumnsHear

\* A fetch, whose answer is emitted at once or comes later, keeps what the consumers were given (Emits).
LEMMA EmitsFetching ==
  ASSUME NEW w \in Page, NEW v, NEW q \in Queries, Emits(w, q), Fetching(w, v, q)
  PROVE  Emits(v, q)
<1>1. Result \in SUBSET Records  BY DEF Result
<1>2. CASE Idles(w, v, q)  BY <1>2, EmitsIdles
<1>3. CASE Emission(w, v, q, Result)  BY <1>1, <1>3, EmitsEmission
<1> QED BY <1>2, <1>3 DEF Fetching, Answering

\* A step that is not about query p, nor about the rows.
Elsewhere(p) ==
  /\ js'.obs[p] = js.obs[p] /\ js'.raw = js.raw /\ \A c \in js.obs[p].subs : js'.saw[c] = js.saw[c]
  /\ kind' = kind /\ rows' = rows /\ batch' = batch /\ deferred' = deferred /\ spoiled' = spoiled
  /\ OnWay(p)' <=> OnWay(p)
  /\ SourceUnheard(p)' <=> SourceUnheard(p)
  /\ ColumnsUnheard(p)' <=> ColumnsUnheard(p)
  /\ notify'.changes = notify.changes \/ (~SourceUnheard(p) /\ ~ColumnsUnheard(p))
  /\ ToReset(p)' <=> ToReset(p)

\* What a query watches follows from its kind, which stays.
LEMMA SameKinds ==
  ASSUME kind' = kind
  PROVE  \A q : (HasColumns(q)' <=> HasColumns(q)) /\ (IsSimple(q)' <=> IsSimple(q))
BY DEF HasColumns, IsSimple

\* A step that leaves query p's observer, its fetches and what its consumers saw alone keeps Follows(p).
LEMMA FollowsElsewhere ==
  ASSUME NEW p \in Queries, Elsewhere(p), Follows(p)
  PROVE  Follows(p)'
<1>0. /\ js'.obs[p] = js.obs[p] /\ js'.raw = js.raw /\ \A c \in js.obs[p].subs : js'.saw[c] = js.saw[c]
      /\ kind' = kind /\ rows' = rows /\ batch' = batch /\ deferred' = deferred /\ spoiled' = spoiled
      /\ OnWay(p)' <=> OnWay(p)
      /\ SourceUnheard(p)' <=> SourceUnheard(p)
      /\ ColumnsUnheard(p)' <=> ColumnsUnheard(p)
      /\ notify'.changes = notify.changes \/ (~SourceUnheard(p) /\ ~ColumnsUnheard(p))
      /\ ToReset(p)' <=> ToReset(p)
  BY DEF Elsewhere
<1>1. (HasColumns(p)' <=> HasColumns(p)) /\ (IsSimple(p)' <=> IsSimple(p)) /\ (Active(p)' <=> Active(p))
  BY <1>0, SameKinds DEF Active
<1>2. \A r : /\ Announced(p, r)' <=> Announced(p, r)
             /\ Unannounced(r)' <=> Unannounced(r)
             /\ Pending(p, r)' <=> Pending(p, r)
             /\ Matches(r)' <=> Matches(r)
  <2> TAKE r
  <2>1. Announced(p, r)' <=> Announced(p, r)  BY <1>0 DEF Announced, Updates
  <2>2. Unannounced(r)' <=> Unannounced(r)  BY <1>0 DEF Unannounced, Updates
  <2>3. Committed(r)' <=> Committed(r)  BY <1>0 DEF Committed, Under
  <2>4. Pending(p, r)' <=> Pending(p, r)  BY <1>0, <2>3 DEF Pending, About
  <2>5. Matches(r)' <=> Matches(r)  BY <1>0 DEF Matches
  <2> QED BY <2>1, <2>2, <2>4, <2>5
<1>3. Emits(js, p)'  BY <1>0, <1>1 DEF Follows, Emits
<1>4. Pends(p)'  BY <1>0, <1>1 DEF Follows, Pends
<1>5. Fresh(p)'  BY <1>0, <1>1, <1>2 DEF Follows, Fresh
<1>6. States(js, p)'  BY <1>0, <1>1, <1>2 DEF Follows, States
<1>7. Seen(js, p)'  BY <1>0, <1>1, <1>2 DEF Follows, Seen
<1> QED BY <1>3, <1>4, <1>5, <1>6, <1>7 DEF Follows

\* The rows, and what is on its way to them, stay.
LEMMA SameRows ==
  ASSUME rows' = rows, batch' = batch, deferred' = deferred, spoiled' = spoiled
  PROVE  \A r : /\ Unannounced(r)' <=> Unannounced(r)
                /\ Committed(r)' <=> Committed(r)
                /\ Matches(r)' <=> Matches(r)
BY DEF Unannounced, Updates, Committed, Under, Matches

\* An observer whose source emitted.
LEMMA FollowsEmission ==
  ASSUME NEW w \in Page, NEW q \in Queries, NEW l \in SUBSET Records, Emission(w, js', q, l),
         Shown(w, q), Emits(w, q), States(w, q), Seen(w, q),
         kind' = kind, rows' = rows, batch' = batch, deferred' = deferred, spoiled' = spoiled,
         \A r : Announced(q, r) => Announced(q, r)'
  PROVE  Emits(js, q)' /\ Pends(q)' /\ States(js, q)' /\ Seen(js, q)'
<1>p. PICK v : v = js'  OBVIOUS
<1> DEFINE o == w.obs[q]
           new == v.obs[q]
<1>0. o \in Obs /\ w.raw \in [Records -> Values]  BY DEF Page
<1>k. (HasColumns(q)' <=> HasColumns(q)) /\ (IsSimple(q)' <=> IsSimple(q))  BY SameKinds
<1>e. Emission(w, v, q, l) /\ v.raw = w.raw /\ new.subs = o.subs /\ new.list = l
  BY <1>p DEF Emission, Keeps
<1>1. Emits(js, q)'
  <2>1. Emits(v, q)  BY <1>e, EmitsEmission
  <2> QED BY <1>p, <1>k, <2>1 DEF Emits
<1>c. ASSUME HasColumns(q)
      PROVE  /\ new.observed = l /\ ~new.first /\ ~new.pending /\ ~new.fetching /\ new.states = StatesOf(w, q, l)
             /\ \A r \in Records : new.states[r] = (IF r \notin l THEN None ELSE IF r \in o.observed THEN o.states[r] ELSE w.raw[r])
  <2>1. new.observed = l /\ ~new.first /\ ~new.pending /\ ~new.fetching /\ new.states = StatesOf(w, q, l)
    BY <1>e, <1>c DEF Emission
  <2> QED BY <2>1 DEF StatesOf
<1>2. Pends(q)'
  <2>1. CASE HasColumns(q)  BY <1>p, <1>k, <1>c, <2>1 DEF Pends
  <2>2. CASE ~HasColumns(q)
    <3>1. ~new.pending  BY <1>e, <2>2 DEF Emission, Emits
    <3> QED BY <1>p, <1>k, <2>2, <3>1 DEF Pends
  <2> QED BY <2>1, <2>2
<1>u. \A r : Unannounced(r)' <=> Unannounced(r)  BY SameRows
<1>3. States(js, q)'
  <2> SUFFICES ASSUME HasColumns(q), NEW r \in Records, rows[r] # None, ~Unannounced(r), ~Announced(q, r)'
               PROVE  new.states[r] \in {None, v.raw[r]}
    BY <1>p, <1>k, <1>u DEF States
  <2>1. o.states[r] \in {None, w.raw[r]}  BY DEF States
  <2> QED BY <1>e, <1>c, <2>1
<1>4. Seen(js, q)'
  <2> SUFFICES ASSUME HasColumns(q), NEW c \in o.subs, NEW r \in l, rows[r] # None, r \notin v.saw[c].early
               PROVE  \/ v.saw[c].values[r] = new.states[r]
                      \/ v.saw[c].values[r] = v.raw[r] /\ Announced(q, r)'
    BY <1>p, <1>k, <1>e DEF Seen
  <2>0. r \in Records /\ new.states[r] = (IF r \in o.observed THEN o.states[r] ELSE w.raw[r])  BY <1>c
  <2>1. CASE v.saw[c] = Sight(w, q, l)
    <3>1. v.saw[c].values[r] = w.raw[r] /\ ~Unannounced(r)  BY <2>1 DEF Sight
    <3>2. CASE r \notin o.observed  BY <2>0, <3>1, <3>2
    <3>3. CASE Announced(q, r)  BY <1>e, <3>1, <3>3
    <3>4. CASE r \in o.observed /\ ~Announced(q, r)
      <4>1. o.states[r] \in {None, w.raw[r]}  BY <2>0, <3>1, <3>4 DEF States
      <4>2. o.states[r] # None  BY <3>4 DEF Shown
      <4> QED BY <2>0, <3>1, <3>4, <4>1, <4>2
    <3> QED BY <3>2, <3>3, <3>4
  <2>2. CASE v.saw = w.saw /\ ~o.first /\ ~o.pending /\ o.observed = l
    <3>1. o.list # None /\ o.list = l  BY <2>2 DEF Emits
    <3>2. new.states[r] = o.states[r]  BY <2>0, <2>2
    <3>3. \/ w.saw[c].values[r] = o.states[r]
          \/ w.saw[c].values[r] = w.raw[r] /\ Announced(q, r)
      BY <2>2, <3>1 DEF Seen
    <3> QED BY <1>e, <2>2, <3>2, <3>3
  <2> QED BY <1>e, <2>1, <2>2 DEF Emission
<1> QED BY <1>1, <1>2, <1>3, <1>4

\* An observer that showed nothing.
LEMMA FollowsIdles ==
  ASSUME NEW w \in Page, NEW q \in Queries, Idles(w, js', q),
         Emits(w, q), States(w, q), Seen(w, q),
         kind' = kind, rows' = rows, batch' = batch, deferred' = deferred, spoiled' = spoiled,
         \A r : Announced(q, r) => Announced(q, r)'
  PROVE  Emits(js, q)' /\ States(js, q)' /\ Seen(js, q)'
<1>p. PICK v : v = js'  OBVIOUS
<1>k. (HasColumns(q)' <=> HasColumns(q)) /\ (IsSimple(q)' <=> IsSimple(q))  BY SameKinds
<1>e. /\ v.raw = w.raw /\ v.saw = w.saw /\ v.obs[q].subs = w.obs[q].subs /\ v.obs[q].list = w.obs[q].list
      /\ v.obs[q].states = w.obs[q].states /\ v.obs[q].pending = w.obs[q].pending
  BY <1>p DEF Idles, Keeps
<1>1. Emits(js, q)'
  <2>1. Emits(v, q)  BY <1>p, EmitsIdles
  <2> QED BY <1>p, <1>k, <2>1 DEF Emits
<1>u. \A r : Unannounced(r)' <=> Unannounced(r)  BY SameRows
<1>2. States(js, q)'  BY <1>p, <1>k, <1>e, <1>u DEF States
<1>3. Seen(js, q)'  BY <1>p, <1>k, <1>e DEF Seen
<1> QED BY <1>1, <1>2, <1>3

\* An observer fetches, at once or later.
LEMMA FollowsFetching ==
  ASSUME NEW w \in Page, NEW q \in Queries, Fetching(w, js', q),
         Shown(w, q), Emits(w, q), States(w, q), Seen(w, q),
         w.obs[q].pending => ~IsSimple(q) /\ w.obs[q].fetching,
         kind' = kind, rows' = rows, batch' = batch, deferred' = deferred, spoiled' = spoiled,
         \A r : Announced(q, r) => Announced(q, r)',
         ~sync => OnWay(q)'
  PROVE  Follows(q)'
<1>k. (HasColumns(q)' <=> HasColumns(q)) /\ (IsSimple(q)' <=> IsSimple(q))  BY SameKinds
<1>1. CASE Idles(w, js', q) /\ (js'.obs[q].missed \/ OnWay(q)')
  <2>1. Idles(w, js', q)  BY <1>1
  <2>2. Emits(js, q)' /\ States(js, q)' /\ Seen(js, q)'  BY <2>1, FollowsIdles
  <2>3. Fresh(q)'  BY <1>1 DEF Fresh
  <2>4. Pends(q)'
    <3>1. js'.obs[q].pending = w.obs[q].pending /\ (w.obs[q].fetching => js'.obs[q].fetching)
      BY <2>1 DEF Idles
    <3> QED BY <1>1, <1>k, <3>1 DEF Pends
  <2> QED BY <2>2, <2>3, <2>4 DEF Follows
<1>2. CASE Emission(w, js', q, Result)
  <2>0. Result \in SUBSET Records /\ \A r \in Records : r \in Result <=> Matches(r)
    BY ResultMatches DEF Result
  <2>p. PICK l : l = Result  OBVIOUS
  <2>1. Emission(w, js', q, l)  BY <2>p, <1>2
  <2>2. Emits(js, q)' /\ Pends(q)' /\ States(js, q)' /\ Seen(js, q)'
    BY <2>0, <2>p, <2>1, FollowsEmission
  <2>3. js'.obs[q].list = l /\ l # None
    <3>1. None \notin SUBSET Records  BY NoneAssumption
    <3> QED BY <2>0, <2>p, <2>1, <3>1 DEF Emission
  <2>4. Fresh(q)'  BY <2>0, <2>p, <2>3, SameRows DEF Fresh
  <2> QED BY <2>2, <2>4 DEF Follows
<1> QED BY <1>1, <1>2 DEF Fetching, Answering

\* A consumer observes one query.
LEMMA SubsDisjoint ==
  ASSUME Wired, NEW p \in Queries, NEW q \in Queries, p # q
  PROVE  /\ \A c \in js.obs[p].subs : c \in Consumers \ js.obs[q].subs
         /\ js.obs[p].subs \subseteq Consumers
BY DEF Wired, Registered

\* While nobody is called, nothing is unheard.
LEMMA CalmHears ==
  ASSUME notify.phase \notin {"db", "collection"}
  PROVE  \A q : ~SourceUnheard(q) /\ ~ColumnsUnheard(q) /\ \A r : ~Announced(q, r)
BY DEF SourceUnheard, ColumnsUnheard, Announced

\* A failed query is only logged.
LEMMA FailedIsMissed ==
  ASSUME NEW w \in Page, NEW q \in Queries, NEW l
  PROVE  Answered(w, q, l, TRUE).obs[q].missed
<1>1. Answered(w, q, l, TRUE) = [w EXCEPT !.obs = [w.obs EXCEPT ![q] = [w.obs[q] EXCEPT !.missed = TRUE]]]
  BY DEF Answered
<1>2. w.obs[q] \in Obs /\ w.obs \in [Queries -> Obs]  BY DEF Page
<1>3. [w EXCEPT !.obs = [w.obs EXCEPT ![q] = [w.obs[q] EXCEPT !.missed = TRUE]]].obs
      = [w.obs EXCEPT ![q] = [w.obs[q] EXCEPT !.missed = TRUE]]
  BY DEF Page
<1>4. [w.obs EXCEPT ![q] = [w.obs[q] EXCEPT !.missed = TRUE]][q] = [w.obs[q] EXCEPT !.missed = TRUE]
  BY <1>2
<1>5. [w.obs[q] EXCEPT !.missed = TRUE].missed  BY <1>2 DEF Obs
<1> QED BY <1>1, <1>3, <1>4, <1>5

\* The first answer is the head.
LEMMA AnswersHead ==
  ASSUME Typed, answers # <<>>
  PROVE  1 \in 1..Len(answers) /\ answers[1] = Head(answers)
<1>1. answers \in Seq(Answers)  BY DEF Typed
<1> QED BY <1>1

\* A fetch is answered.
LEMMA FollowsFetchAnswered ==
  ASSUME Wired, Stored, \A q \in Queries : Follows(q), FetchAnswered
  PROVE  \A q \in Queries : Follows(q)'
<1>p. PICK a, q : a = Head(answers) /\ q = a.query  OBVIOUS
<1>w. PICK w : w = js  OBVIOUS
<1>0. Typed /\ js \in Page /\ Ways \in Nat  BY WaysType DEF Wired, Typed
<1>1. /\ q \in Queries /\ a \in Answers /\ a.do = "fetch" /\ a.list \in SUBSET Records
      /\ TailShape /\ answers' \in Seq(Answers) /\ Item(1) = a /\ 1 \in 1..Ways
      /\ \/ Current(q, 1) /\ Active(q) /\ Answering(js, js', q, a.list)
         \/ ~Current(q, 1) /\ js' = js
  BY <1>p, FetchAnsweredIs
<1>2. /\ kind' = kind /\ rows' = rows /\ batch' = batch /\ deferred' = deferred /\ spoiled' = spoiled
      /\ notify' = notify /\ Calm /\ answers # <<>>
      /\ (a.age = js.obs[q].age => js' = Answered(js, q, a.list, a.failed))
  BY <1>p DEF FetchAnswered, work
<1>3. notify.phase = "none" /\ notify'.phase = "none"  BY <1>2 DEF Calm
<1>4. \A p : ~SourceUnheard(p) /\ ~ColumnsUnheard(p) /\ \A r : ~Announced(p, r)  BY <1>3, CalmHears
<1>5. \A p : ~SourceUnheard(p)' /\ ~ColumnsUnheard(p)'  BY <1>3 DEF SourceUnheard, ColumnsUnheard
<1>6. \A p : ToReset(p)' <=> ToReset(p)  BY <1>3 DEF ToReset
<1>7. ASSUME NEW p \in Queries, js'.obs[p] = js.obs[p], js'.raw = js.raw,
             \A c \in js.obs[p].subs : js'.saw[c] = js.saw[c], ~Current(p, 1)
      PROVE  Follows(p)'
  <2>1. js'.obs[p].age = js.obs[p].age  BY <1>7
  <2>2. OnWay(p)' <=> \E i \in 2..Ways : Current(p, i)  BY <1>0, <1>1, <2>1, AgedTailed
  <2>3. \A i \in 1..Ways : i = 1 \/ i \in 2..Ways  BY <1>0
  <2>4. \A i \in 2..Ways : i \in 1..Ways  BY <1>0
  <2>5. OnWay(p)' <=> OnWay(p)  BY <1>7, <2>2, <2>3, <2>4 DEF OnWay
  <2>6. Elsewhere(p)  BY <1>2, <1>4, <1>5, <1>6, <1>7, <2>5 DEF Elsewhere
  <2> QED BY <2>6, FollowsElsewhere
<1>8. CASE ~Current(q, 1) /\ js' = js
  <2>1. \A p \in Queries : ~Current(p, 1)  BY <1>1, <1>p, <1>8 DEF Current
  <2> QED BY <1>7, <1>8, <2>1
<1>9. CASE Current(q, 1) /\ Active(q) /\ Answering(js, js', q, a.list)
  <2>k. Keeps(js, js', q)  BY <1>9 DEF Answering, Idles, Emission
  <2>1. ASSUME NEW p \in Queries, p # q PROVE Follows(p)'
    <3>1. ~Current(p, 1)  BY <1>1, <1>p, <2>1 DEF Current
    <3>2. js'.obs[p] = js.obs[p] /\ js'.raw = js.raw /\ \A c \in js.obs[p].subs : js'.saw[c] = js.saw[c]
      BY <1>1, <2>k, <2>1, SubsDisjoint DEF Keeps
    <3> QED BY <1>7, <3>1, <3>2
  <2>2. Follows(q)'
    <3>f. Emits(w, q) /\ States(w, q) /\ Seen(w, q) /\ Shown(w, q) /\ w \in Page
      BY <1>0, <1>1, <1>w DEF Follows, Wired
    <3>a. \A r : Announced(q, r) => Announced(q, r)'  BY <1>4
    <3>k. (HasColumns(q)' <=> HasColumns(q)) /\ (IsSimple(q)' <=> IsSimple(q))  BY <1>2, SameKinds
    <3>1. CASE Idles(js, js', q) /\ js'.obs[q].missed
      <4>1. Idles(w, js', q)  BY <1>w, <3>1
      <4>2. Emits(js, q)' /\ States(js, q)' /\ Seen(js, q)'
        BY <1>1, <1>2, <3>f, <3>a, <4>1, FollowsIdles
      <4>3. Fresh(q)'  BY <3>1 DEF Fresh
      <4>4. Pends(q)'
        <5>1. js'.obs[q].pending = js.obs[q].pending  BY <3>1 DEF Idles
        <5>2. ASSUME js.obs[q].pending PROVE ~IsSimple(q) /\ HasColumns(q)
          BY <1>1, <1>4, <5>2 DEF Follows, Pends, Emits
        <5>3. js.obs[q].pending => js'.obs[q].fetching
          <6> SUFFICES ASSUME js.obs[q].pending PROVE js'.obs[q].fetching  OBVIOUS
          <6>1. js.obs[q].fetching  BY <1>1, <5>2 DEF Follows, Pends
          <6> QED BY <6>1, <3>1 DEF Idles
        <5> QED BY <3>1, <3>k, <5>1, <5>2, <5>3 DEF Pends
      <4> QED BY <4>2, <4>3, <4>4 DEF Follows
    <3>2. CASE Emission(js, js', q, a.list) /\ ~js'.obs[q].missed
      <4>1. Emission(w, js', q, a.list)  BY <1>w, <3>2
      <4>2. Emits(js, q)' /\ Pends(q)' /\ States(js, q)' /\ Seen(js, q)'
        BY <1>1, <1>2, <3>f, <3>a, <4>1, FollowsEmission
      <4>3. Fresh(q)'
        <5>1. js'.obs[q].list = a.list /\ a.list # None
          <6>1. None \notin SUBSET Records  BY NoneAssumption
          <6> QED BY <1>1, <3>2, <6>1 DEF Emission
        <5>2. ~a.failed
          <6>1. a.age = js.obs[q].age  BY <1>1, <1>9 DEF Current
          <6>2. js' = Answered(js, q, a.list, a.failed)  BY <1>2, <6>1
          <6>3. a.failed \in BOOLEAN  BY <1>1 DEF Answers
          <6> QED BY <1>0, <1>1, <3>2, <6>2, <6>3, FailedIsMissed
        <5>3. ASSUME NEW r \in Records, ~Pending(q, r)' PROVE r \in a.list <=> Matches(r)
          <6>1. ~Committed(r)  BY <1>2, <5>3, SameRows DEF Pending
          <6>2. 1 \in 1..Len(answers) /\ answers[1] = a  BY <1>0, <1>2, <1>p, AnswersHead
          <6> QED BY <1>1, <5>2, <6>1, <6>2 DEF Stored, Accurate
        <5> QED BY <1>2, <5>1, <5>3, SameRows DEF Fresh
      <4> QED BY <4>2, <4>3 DEF Follows
    <3> QED BY <1>9, <3>1, <3>2 DEF Answering
  <2> QED BY <2>1, <2>2
<1> QED BY <1>1, <1>8, <1>9

\* Steps about the rows and the notification: what must be said of each query.
LEMMA FollowsAround ==
  ASSUME Wired, NEW p \in Queries, Follows(p), kind' = kind, js'.obs[p] = js.obs[p],
         \A c \in js.obs[p].subs : js'.saw[c] = js.saw[c],
         OnWay(p)' <=> OnWay(p), IsSimple(p) => ~js.obs[p].pending,
         ToReset(p) => ToReset(p)',
         Active(p) /\ ~ToReset(p)' /\ js.obs[p].list # None =>
           \A r \in Records : ~Pending(p, r)' /\ r \notin spoiled' =>
             ~Pending(p, r) /\ r \notin spoiled /\ (Matches(r)' <=> Matches(r)),
         Active(p) /\ HasColumns(p) =>
           \A r \in Records : js.obs[p].states[r] # None /\ rows'[r] # None =>
             /\ rows[r] # None
             /\ Announced(p, r) => Announced(p, r)' /\ js'.raw[r] = js.raw[r]
             /\ ~Unannounced(r)' /\ ~Announced(p, r)' => ~Unannounced(r) /\ ~Announced(p, r) /\ js'.raw[r] = js.raw[r]
  PROVE  Follows(p)'
<1>0. js \in Page /\ js.obs[p] \in Obs  BY DEF Wired, Typed, Page
<1>k. (HasColumns(p)' <=> HasColumns(p)) /\ (IsSimple(p)' <=> IsSimple(p)) /\ (Active(p)' <=> Active(p))
  BY SameKinds DEF Active
<1>1. Emits(js, p)'  BY <1>k DEF Follows, Emits
<1>2. Pends(p)'  BY <1>k DEF Follows, Pends
<1>3. Fresh(p)'
  <2> SUFFICES ASSUME Active(p), ~ToReset(p)', ~js.obs[p].missed, ~OnWay(p)
               PROVE  /\ js.obs[p].list # None
                      /\ \A r \in Records : ~Pending(p, r)' /\ r \notin spoiled' => (r \in js.obs[p].list <=> Matches(r)')
    BY <1>k DEF Fresh
  <2> QED BY DEF Follows, Fresh
<1>4. States(js, p)'
  <2> SUFFICES ASSUME HasColumns(p), NEW r \in Records, rows'[r] # None, ~Unannounced(r)', ~Announced(p, r)'
               PROVE  js.obs[p].states[r] \in {None, js'.raw[r]}
    BY <1>k DEF States
  <2>1. CASE Active(p)
    <3>1. CASE js.obs[p].states[r] = None  BY <3>1
    <3>2. CASE js.obs[p].states[r] # None
      <4>1. rows[r] # None /\ ~Unannounced(r) /\ ~Announced(p, r) /\ js'.raw[r] = js.raw[r]
        BY <2>1, <3>2
      <4> QED BY <4>1 DEF Follows, States
    <3> QED BY <3>1, <3>2
  <2>2. CASE ~Active(p)
    <3>1. js.obs[p] = Idle(js.obs[p].age)  BY <2>2 DEF Wired, Aged
    <3>2. js.obs[p].states = [x \in Records |-> None]  BY <3>1 DEF Idle
    <3> QED BY <3>2
  <2> QED BY <2>1, <2>2
<1>5. Seen(js, p)'
  <2> SUFFICES ASSUME HasColumns(p), ~js.obs[p].pending, js.obs[p].list # None,
                      NEW c \in js.obs[p].subs, NEW r \in js.obs[p].list, rows'[r] # None, r \notin js.saw[c].early
               PROVE  \/ js.saw[c].values[r] = js.obs[p].states[r]
                      \/ js.saw[c].values[r] = js'.raw[r] /\ Announced(p, r)'
    BY <1>k DEF Seen
  <2>1. Active(p)  BY DEF Active
  <2>2. r \in Records /\ js.obs[p].states[r] # None
    <3>1. js.obs[p].observed = js.obs[p].list  BY DEF Follows, Emits
    <3>2. js.obs[p].observed = {x \in Records : js.obs[p].states[x] # None}  BY DEF Wired, Shown
    <3> QED BY <3>1, <3>2
  <2>3. rows[r] # None /\ (Announced(p, r) => Announced(p, r)' /\ js'.raw[r] = js.raw[r])
    BY <2>1, <2>2
  <2> QED BY <2>3 DEF Follows, Seen
<1> QED BY <1>1, <1>2, <1>3, <1>4, <1>5 DEF Follows

\* A simple observer puts emissions off only until its source is called.
LEMMA SimpleSettles ==
  ASSUME NEW p \in Queries, Follows(p), IsSimple(p), ~SourceUnheard(p) \/ ColumnsUnheard(p)
  PROVE  ~js.obs[p].pending
BY DEF Follows, Pends

\* What is on its way to p, when q asks; q itself waits.
LEMMA AskedElsewhere ==
  ASSUME Typed, NEW q \in Queries, NEW age \in Nat, Asks(q, age), answers' = answers
  PROVE  /\ \A p \in Queries : p # q /\ js'.obs[p].age = js.obs[p].age => (OnWay(p)' <=> OnWay(p))
         /\ ~sync /\ js'.obs[q].age = age => OnWay(q)'
<1>1. CASE sync
  <2>1. sent' = sent  BY <1>1 DEF Asks
  <2> QED BY <1>1, <2>1, AgedUnmoved
<1>2. CASE ~sync
  <2> DEFINE m == [do |-> "fetch", query |-> q, age |-> age]
  <2>1. m \in Requests /\ m.do = "fetch" /\ m.query = q /\ m.age = age  BY DEF Requests
  <2>2. sent' = Append(sent, m)  BY <1>2 DEF Asks
  <2> HIDE DEF m
  <2>3. AppendShape(m)  BY <2>1, <2>2, Appends
  <2>4. \A p \in Queries : p # q /\ js'.obs[p].age = js.obs[p].age => (OnWay(p)' <=> OnWay(p))
    BY <2>1, <2>3, AgedAppended
  <2>5. ASSUME js'.obs[q].age = age PROVE OnWay(q)'
    <3>1. Ways \in Nat  BY WaysType
    <3>2. Ways' = Ways + 1 /\ \A i : i = Ways' => Item(i)' = m  BY <2>3 DEF AppendShape
    <3>3. Ways' \in 1..Ways'  BY <3>1, <3>2
    <3>4. \E i \in 1..Ways' : Item(i)' = m  BY <3>2, <3>3
    <3> QED BY <2>1, <2>5, <3>4 DEF OnWay, Current
  <2> QED BY <2>4, <2>5
<1> QED BY <1>1, <1>2

\* The next entry is called, or all are.
LEMMA Hearing ==
  ASSUME NEW list, NEW S, list \in Seq(S), notify.next \in Nat \ {0}
  PROVE  /\ notify.length = Len(list) /\ ~Heard(list) => \A e : ~Unheard(list, e)
         /\ notify'.next = notify.next + 1 /\ Heard(list) =>
              \A e : e # list[notify.next] =>
                ((\E i \in DOMAIN list : i >= notify'.next /\ list[i] = e) <=> Unheard(list, e))
         /\ notify'.next = notify.next + 1 /\ Heard(list) /\ Distinct(list) =>
              ~\E i \in DOMAIN list : i >= notify'.next /\ list[i] = list[notify.next]
         /\ Heard(list) => Unheard(list, list[notify.next])
<1>p. PICK n, len : n = notify.next /\ len = Len(list)  OBVIOUS
<1>0. n \in Nat \ {0} /\ len \in Nat /\ DOMAIN list = 1..len  BY <1>p
<1>1. ASSUME notify.length = len, ~Heard(list) PROVE \A e : ~Unheard(list, e)
  <2>1. n > len  BY <1>0, <1>1, <1>p DEF Heard
  <2> QED BY <1>0, <1>p, <2>1 DEF Unheard
<1>2. ASSUME notify'.next = n + 1, NEW e, e # list[n]
      PROVE (\E i \in DOMAIN list : i >= notify'.next /\ list[i] = e) <=> Unheard(list, e)
  <2>1. \A i \in 1..len : i >= n /\ list[i] = e => i >= n + 1
    <3> TAKE i \in 1..len
    <3>1. i = n => list[i] # e  BY <1>2
    <3> QED BY <1>0, <3>1
  <2>2. \A i \in 1..len : i >= n + 1 => i >= n  BY <1>0
  <2> QED BY <1>0, <1>2, <1>p, <2>1, <2>2 DEF Unheard
<1>3. ASSUME notify'.next = n + 1, Heard(list), Distinct(list), NEW i \in DOMAIN list, i >= notify'.next, list[i] = list[n]
      PROVE FALSE
  <2>1. n \in Nat /\ i \in Nat /\ i # n  BY <1>0, <1>3
  <2>2. n \in DOMAIN list  BY <1>0, <1>3, <2>1
  <2> QED BY <1>3, <2>1, <2>2 DEF Distinct
<1>4. ASSUME Heard(list), n # 0 PROVE Unheard(list, list[n])
  <2>1. n \in 1..len  BY <1>0, <1>4, <1>p DEF Heard
  <2> QED BY <1>0, <1>p, <2>1 DEF Unheard
<1> QED BY <1>1, <1>2, <1>3, <1>4, <1>p

\* The first round is over: the second begins with every entry.
LEMMA FollowsDatabaseEnds ==
  ASSUME Wired, Stored, \A q \in Queries : Follows(q), NotifyDatabase, ~Heard(js.db)
  PROVE  \A q \in Queries : Follows(q)'
<1>0. Typed /\ js \in Page /\ notify \in Notices /\ js.db \in Seq(Entries) /\ js.col \in Seq(Entries)
  BY DEF Wired, Typed, Page
<1>1. /\ kind' = kind /\ rows' = rows /\ batch' = batch /\ deferred' = deferred /\ spoiled' = spoiled
      /\ notify.phase = "db" /\ js' = js /\ sent' = sent /\ answers' = answers
      /\ notify' = [notify EXCEPT !.phase = "collection", !.next = 1, !.length = Len(js.col)]
  BY DEF NotifyDatabase, Rings
<1>2. notify'.phase = "collection" /\ notify'.next = 1 /\ notify'.changes = notify.changes
  BY <1>0, <1>1 DEF Notices
<1>3. \A e : ~Unheard(js.db, e)
  <2>1. notify.length = Len(js.db)  BY <1>1 DEF Stored, Phases
  <2>2. notify.next \in Nat \ {0}  BY <1>0 DEF Notices
  <2> QED BY <1>0, <2>1, <2>2, Hearing
<1>4. \A e : In(js.col, e) => Unheard(js.col, e)'
  <2>1. \A i \in DOMAIN js.col : i >= 1  BY <1>0
  <2> QED BY <1>1, <1>2, <2>1 DEF In, Unheard
<1> SUFFICES ASSUME NEW p \in Queries PROVE Follows(p)'  OBVIOUS
<1>5. Follows(p) /\ Listed(p)  BY DEF Wired, Registered
<1>6. (HasColumns(p)' <=> HasColumns(p)) /\ (IsSimple(p)' <=> IsSimple(p))  BY <1>1, SameKinds
<1>7. OnWay(p)' <=> OnWay(p)  BY <1>0, <1>1, AgedUnmoved
<1>8. ~ToReset(p) /\ ~ToReset(p)'  BY <1>1, <1>2 DEF ToReset
<1>9. IsSimple(p) => ~js.obs[p].pending  BY <1>1, <1>5, SimpleSettles DEF ColumnsUnheard
<1>10. \A r : /\ Unannounced(r)' <=> Unannounced(r)
              /\ Committed(r)' <=> Committed(r)
              /\ Matches(r)' <=> Matches(r)
  BY <1>1, SameRows
<1>11. ASSUME Active(p), js.obs[p].list # None, NEW r \in Records, ~Pending(p, r)' PROVE ~Pending(p, r)
  <2>1. SourceUnheard(p) => SourceUnheard(p)'
    <3>1. SourceUnheard(p) => IsSimple(p)  BY <1>1, <1>3 DEF SourceUnheard
    <3>2. IsSimple(p) => In(js.col, Source(p))  BY <1>5, <1>11 DEF Listed
    <3>3. Source(p)' = Source(p)  BY DEF Source
    <3> QED BY <1>2, <1>4, <1>6, <3>1, <3>2, <3>3 DEF SourceUnheard
  <2> QED BY <1>1, <1>2, <1>10, <1>11, <2>1 DEF Pending, About
<1>12. ASSUME Active(p), HasColumns(p), NEW r \in Records, Announced(p, r) PROVE Announced(p, r)'
  <2>1. In(js.col, Columns(p))  BY <1>5, <1>12 DEF Listed
  <2>2. ColumnsUnheard(p)'  BY <1>2, <1>4, <2>1 DEF ColumnsUnheard
  <2> QED BY <1>2, <1>12, <2>2 DEF Announced, Updates
<1> QED BY <1>1, <1>5, <1>7, <1>8, <1>9, <1>10, <1>11, <1>12, FollowsAround

\* The second round is over: all have heard.
LEMMA FollowsCollectionEnds ==
  ASSUME Wired, Stored, \A q \in Queries : Follows(q), NotifyCollection, ~Heard(js.col)
  PROVE  \A q \in Queries : Follows(q)'
<1>0. Typed /\ js \in Page /\ notify \in Notices /\ js.col \in Seq(Entries)
  BY DEF Wired, Typed, Page
<1>1. /\ kind' = kind /\ rows' = rows /\ batch' = batch /\ deferred' = deferred /\ spoiled' = spoiled
      /\ notify.phase = "collection" /\ js' = js /\ sent' = sent /\ answers' = answers
      /\ notify' = Silent
  BY DEF NotifyCollection, channel
<1>2. notify'.phase = "none" /\ notify'.changes = <<>>  BY <1>1 DEF Silent
<1>3. \A e : ~Unheard(js.col, e)
  <2>1. notify.length = Len(js.col)  BY <1>1 DEF Stored, Phases
  <2>2. notify.next \in Nat \ {0}  BY <1>0 DEF Notices
  <2> QED BY <1>0, <2>1, <2>2, Hearing
<1>4. \A p : ~SourceUnheard(p) /\ ~ColumnsUnheard(p)  BY <1>1, <1>3 DEF SourceUnheard, ColumnsUnheard
<1>5. \A p : ~SourceUnheard(p)' /\ ~ColumnsUnheard(p)'  BY <1>2 DEF SourceUnheard, ColumnsUnheard
<1> SUFFICES ASSUME NEW p \in Queries PROVE Follows(p)'  OBVIOUS
<1>6. OnWay(p)' <=> OnWay(p)  BY <1>0, <1>1, AgedUnmoved
<1>7. ~ToReset(p) /\ ~ToReset(p)'  BY <1>1, <1>2 DEF ToReset
<1>8. Elsewhere(p)  BY <1>1, <1>4, <1>5, <1>6, <1>7 DEF Elsewhere
<1> QED BY <1>8, FollowsElsewhere

\* A reloading observer hears.
LEMMA FollowsDatabaseHeard ==
  ASSUME Wired, Stored, \A q \in Queries : Follows(q), NotifyDatabase, Heard(js.db)
  PROVE  \A q \in Queries : Follows(q)'
<1>0. Typed /\ js \in Page /\ notify \in Notices /\ js.db \in Seq(Entries)  BY DEF Wired, Typed, Page
<1>p. PICK q : q = js.db[notify.next].query  OBVIOUS
<1>w. PICK w : w = js  OBVIOUS
<1>1. /\ kind' = kind /\ rows' = rows /\ batch' = batch /\ deferred' = deferred /\ spoiled' = spoiled
      /\ notify.phase = "db" /\ answers' = answers /\ sync' = sync
  BY DEF NotifyDatabase
<1>2. /\ q \in Queries /\ Active(q) /\ ~IsSimple(q)
      /\ notify.next \in DOMAIN js.db /\ js.db[notify.next] = Source(q)
      /\ Fetching(js, js', q) /\ Asks(q, js.obs[q].age)
      /\ notify' = [notify EXCEPT !.next = @ + 1]
  BY <1>p, DatabaseHears
<1>3. notify'.phase = "db" /\ notify'.next = notify.next + 1 /\ notify'.changes = notify.changes
      /\ notify.next \in Nat \ {0}
  BY <1>0, <1>1, <1>2 DEF Notices
<1>4. Keeps(js, js', q) /\ js'.db = js.db  BY <1>2, FetchingKeeps DEF Keeps
<1>5. js.obs[q].age \in Nat  BY <1>0, <1>2 DEF Page, Obs
<1>6. \A e : e # Source(q) => (Unheard(js.db, e)' <=> Unheard(js.db, e))
  <2>1. \A e : e # Source(q) => ((\E i \in DOMAIN js.db : i >= notify'.next /\ js.db[i] = e) <=> Unheard(js.db, e))
    BY <1>0, <1>2, <1>3, Hearing
  <2> QED BY <1>4, <2>1 DEF Unheard
<1>7. \A p : ~ToReset(p) /\ ~ToReset(p)'  BY <1>1, <1>3 DEF ToReset
<1>8. \A p : ColumnsUnheard(p) /\ ColumnsUnheard(p)'  BY <1>1, <1>3 DEF ColumnsUnheard
<1>9. ASSUME NEW p \in Queries, p # q PROVE Follows(p)'
  <2>1. js'.obs[p] = js.obs[p] /\ js'.raw = js.raw /\ \A c \in js.obs[p].subs : js'.saw[c] = js.saw[c]
    BY <1>2, <1>4, <1>9, SubsDisjoint DEF Keeps
  <2>2. OnWay(p)' <=> OnWay(p)  BY <1>0, <1>1, <1>2, <1>5, <1>9, <2>1, AskedElsewhere
  <2>3. SourceUnheard(p)' <=> SourceUnheard(p)
    <3>1. Source(p) # Source(q) /\ Source(p)' = Source(p)  BY <1>9, EntryFacts DEF Source
    <3>2. IsSimple(p)' <=> IsSimple(p)  BY <1>1, SameKinds
    <3> QED BY <1>1, <1>3, <1>6, <3>1, <3>2 DEF SourceUnheard
  <2>4. Elsewhere(p)  BY <1>1, <1>3, <1>7, <1>8, <2>1, <2>2, <2>3 DEF Elsewhere
  <2> QED BY <2>4, FollowsElsewhere
<1>10. Follows(q)'
  <2>1. /\ Emits(w, q) /\ States(w, q) /\ Seen(w, q) /\ Shown(w, q) /\ w \in Page
        /\ w.obs[q].pending => ~IsSimple(q) /\ w.obs[q].fetching
    BY <1>0, <1>2, <1>w DEF Follows, Wired, Pends
  <2>2. \A r : Announced(q, r) => Announced(q, r)'  BY <1>3, <1>8 DEF Announced, Updates
  <2>3. ~sync => OnWay(q)'  BY <1>0, <1>1, <1>2, <1>4, <1>5, AskedElsewhere DEF Keeps
  <2>4. Fetching(w, js', q)  BY <1>2, <1>w
  <2> QED BY <1>1, <1>2, <2>1, <2>2, <2>3, <2>4, FollowsFetching
<1> QED BY <1>9, <1>10

\* The second round goes on.
LEMMA CollectionNext ==
  ASSUME Wired, NotifyCollection, Heard(js.col), NEW e, e = js.col[notify.next]
  PROVE  /\ kind' = kind /\ rows' = rows /\ batch' = batch /\ deferred' = deferred /\ spoiled' = spoiled
         /\ sent' = sent /\ answers' = answers /\ js'.col = js.col
         /\ notify.phase = "collection" /\ notify'.phase = "collection" /\ notify'.changes = notify.changes
         /\ Unheard(js.col, e) /\ ~Unheard(js.col, e)'
         /\ \A f : f # e => (Unheard(js.col, f)' <=> Unheard(js.col, f))
         /\ \A p : ~ToReset(p) /\ ~ToReset(p)'
<1>0. Typed /\ js \in Page /\ notify \in Notices /\ js.col \in Seq(Entries) /\ Distinct(js.col)
  BY DEF Wired, Typed, Page, Registered
<1>1. /\ kind' = kind /\ rows' = rows /\ batch' = batch /\ deferred' = deferred /\ spoiled' = spoiled
      /\ sent' = sent /\ answers' = answers /\ notify.phase = "collection"
  BY DEF NotifyCollection, channel
<1>2. notify' = [notify EXCEPT !.next = @ + 1]  BY CollectionHears
<1>3. notify'.phase = "collection" /\ notify'.next = notify.next + 1 /\ notify'.changes = notify.changes
      /\ notify.next \in Nat \ {0}
  BY <1>0, <1>1, <1>2 DEF Notices
<1>4. js'.col = js.col  BY CollectionHears DEF ColumnsHear
<1>5. /\ \A f : f # e => ((\E i \in DOMAIN js.col : i >= notify'.next /\ js.col[i] = f) <=> Unheard(js.col, f))
      /\ ~\E i \in DOMAIN js.col : i >= notify'.next /\ js.col[i] = e
      /\ Unheard(js.col, e)
  BY <1>0, <1>3, Hearing
<1>6. \A f : Unheard(js.col, f)' <=> \E i \in DOMAIN js.col : i >= notify'.next /\ js.col[i] = f
  BY <1>4 DEF Unheard
<1>7. \A p : ~ToReset(p) /\ ~ToReset(p)'  BY <1>1, <1>3 DEF ToReset
<1> QED BY <1>1, <1>3, <1>4, <1>5, <1>6, <1>7

\* A notification leaves the queries it does not call as they were: they still follow.
LEMMA FollowsNotCalled ==
  ASSUME Wired, NotifyCollection, Heard(js.col), NEW p \in Queries, Follows(p), p # js.col[notify.next].query
  PROVE  Follows(p)'
<1>p. PICK e, q : e = js.col[notify.next] /\ q = e.query  OBVIOUS
<1>0. Typed /\ js \in Page  BY DEF Wired, Typed
<1>1. /\ kind' = kind /\ rows' = rows /\ batch' = batch /\ deferred' = deferred /\ spoiled' = spoiled
      /\ sent' = sent /\ answers' = answers /\ js'.col = js.col
      /\ notify.phase = "collection" /\ notify'.phase = "collection" /\ notify'.changes = notify.changes
      /\ \A f : f # e => (Unheard(js.col, f)' <=> Unheard(js.col, f))
      /\ ~ToReset(p) /\ ~ToReset(p)'
  BY <1>p, CollectionNext
<1>2. q \in Queries /\ Keeps(js, js', q) /\ (e = Source(q) \/ e = Columns(q))
  BY <1>p, CollectionHears DEF ColumnsHear, Emission
<1>3. js'.obs[p] = js.obs[p] /\ js'.raw = js.raw /\ \A c \in js.obs[p].subs : js'.saw[c] = js.saw[c]
  BY <1>p, <1>2, SubsDisjoint DEF Keeps
<1>4. OnWay(p)' <=> OnWay(p)  BY <1>0, <1>1, <1>3, AgedUnmoved
<1>5. e # Source(p) /\ e # Columns(p)  BY <1>p, <1>2, EntryFacts
<1>6. Source(p)' = Source(p) /\ Columns(p)' = Columns(p)  BY DEF Source, Columns
<1>7. IsSimple(p)' <=> IsSimple(p)  BY <1>1, SameKinds
<1>8. (SourceUnheard(p)' <=> SourceUnheard(p)) /\ (ColumnsUnheard(p)' <=> ColumnsUnheard(p))
  BY <1>1, <1>5, <1>6, <1>7 DEF SourceUnheard, ColumnsUnheard
<1>9. Elsewhere(p)  BY <1>1, <1>3, <1>4, <1>8 DEF Elsewhere
<1> QED BY <1>9, FollowsElsewhere

\* The observer of columns is called.
LEMMA FollowsColumnsHear ==
  ASSUME Wired, NEW q \in Queries, Follows(q), NotifyCollection, Heard(js.col), js.col[notify.next] = Columns(q),
         Active(q), HasColumns(q), ColumnsHear(js, js', q, notify.changes)
  PROVE  Follows(q)'
<1>p. PICK v, w, changes : v = js' /\ w = js /\ changes = notify.changes  OBVIOUS
<1> DEFINE o == w.obs[q]
           new == v.obs[q]
           changed == StatesChanged(w, q, changes)
<1>0. Typed /\ w \in Page /\ o \in Obs /\ w.raw \in [Records -> Values] /\ Listed(q) /\ Shown(w, q)
  BY <1>p DEF Wired, Typed, Page, Registered
<1>1. /\ kind' = kind /\ rows' = rows /\ batch' = batch /\ deferred' = deferred /\ spoiled' = spoiled
      /\ sent' = sent /\ answers' = answers /\ js'.col = js.col
      /\ notify.phase = "collection" /\ notify'.phase = "collection" /\ notify'.changes = changes
      /\ Unheard(js.col, Columns(q)) /\ ~Unheard(js.col, Columns(q))'
      /\ \A f : f # Columns(q) => (Unheard(js.col, f)' <=> Unheard(js.col, f))
      /\ ~ToReset(q) /\ ~ToReset(q)'
  BY <1>p, CollectionNext
<1>2. /\ Keeps(w, v, q) /\ v.raw = w.raw /\ new.subs = o.subs /\ new.age = o.age
      /\ new.list = o.list /\ new.observed = o.observed /\ new.fetching = o.fetching /\ new.missed = o.missed
      /\ \A r \in Records : new.states[r] = IF r \in changed THEN w.raw[r] ELSE o.states[r]
  BY <1>p DEF ColumnsHear, Keeps
<1>3. /\ \/ changed = {} /\ new.pending = o.pending /\ v.saw = w.saw
         \/ (o.fetching \/ IsSimple(q)) /\ changed # {} /\ new.pending
         \/ /\ ~o.fetching /\ ~IsSimple(q) /\ new.pending = o.pending
            /\ \A c \in o.subs : v.saw[c] = Sight(w, q, o.observed)
  BY <1>p DEF ColumnsHear
<1>f. Emits(w, q) /\ Pends(q) /\ Fresh(q) /\ States(w, q) /\ Seen(w, q)  BY <1>p DEF Follows
<1>k. (HasColumns(q)' <=> HasColumns(q)) /\ (IsSimple(q)' <=> IsSimple(q)) /\ (Active(q)' <=> Active(q))
  BY <1>p, <1>1, <1>2, SameKinds DEF Active
<1>4. ColumnsUnheard(q) /\ ~ColumnsUnheard(q)' /\ (SourceUnheard(q)' <=> SourceUnheard(q))
  <2>1. Source(q)' = Source(q) /\ Columns(q)' = Columns(q) /\ Source(q) # Columns(q)
    BY EntryFacts DEF Source, Columns
  <2> QED BY <1>1, <1>k, <2>1 DEF SourceUnheard, ColumnsUnheard
<1>5. OnWay(q)' <=> OnWay(q)  BY <1>p, <1>0, <1>1, <1>2, AgedUnmoved
<1>6. \A r : /\ Unannounced(r)' <=> Unannounced(r)
             /\ Committed(r)' <=> Committed(r)
             /\ Matches(r)' <=> Matches(r)
             /\ ~Announced(q, r)' /\ (Announced(q, r) <=> Updates(changes, r))
  BY <1>p, <1>1, <1>4, SameRows DEF Announced
<1>7. Emits(js, q)'
  <2>1. ColumnsHear(w, v, q, changes)  BY <1>p
  <2>2. Emits(v, q)  BY <1>0, <1>f, <2>1, EmitsHear
  <2> QED BY <1>p, <1>k, <2>2 DEF Emits
<1>8. IsSimple(q) /\ changed # {} => SourceUnheard(q)
  <2> SUFFICES ASSUME IsSimple(q), changed # {} PROVE SourceUnheard(q)  OBVIOUS
  <2>1. o.observed # {}
    <3>1. PICK r \in Records : o.states[r] # None  BY DEF StatesChanged
    <3> QED BY <1>0, <3>1 DEF Shown
  <2>2. js.obs[q].list # None  BY <1>p, <1>f, <2>1 DEF Emits
  <2>3. In(js.col, Source(q))  BY <1>0, <2>2 DEF Listed
  <2>4. PICK j \in DOMAIN js.col : js.col[j] = Source(q)  BY <2>3 DEF In
  <2>5. js.col \in Seq(Entries) /\ notify.next \in Nat \ {0} /\ notify.next \in DOMAIN js.col
    BY HeardEntry DEF Wired, Typed, Page, Notices
  <2>6. notify.next < j  BY <1>0, <2>4, <2>5 DEF Listed, Before
  <2>7. j >= notify.next  BY <2>4, <2>5, <2>6
  <2> QED BY <1>1, <2>4, <2>7 DEF SourceUnheard, Unheard
<1>9. Pends(q)'
  <2>1. IsSimple(q) => ~o.pending  BY <1>p, <1>4, SimpleSettles
  <2>2. new.pending => IF IsSimple(q) THEN SourceUnheard(q) ELSE o.fetching
    <3>1. ~IsSimple(q) /\ o.pending => o.fetching  BY <1>p, <1>f DEF Pends
    <3> QED BY <1>3, <1>8, <2>1, <3>1
  <2> QED BY <1>p, <1>2, <1>4, <1>5, <1>f, <1>k, <2>2 DEF Pends
<1>10. Fresh(q)'  BY <1>p, <1>1, <1>2, <1>4, <1>5, <1>6, <1>f, <1>k DEF Fresh, Pending
<1>11. \A r \in Records : rows[r] # None /\ ~Unannounced(r) => new.states[r] \in {None, w.raw[r]}
  <2> SUFFICES ASSUME NEW r \in Records, rows[r] # None, ~Unannounced(r)
               PROVE  new.states[r] \in {None, w.raw[r]}
    OBVIOUS
  <2>1. CASE Updates(changes, r)  BY <1>2, <2>1 DEF StatesChanged
  <2>2. CASE ~Updates(changes, r)
    <3>1. o.states[r] \in {None, w.raw[r]}  BY <1>6, <1>f, <2>2 DEF States
    <3> QED BY <1>2, <3>1
  <2> QED BY <2>1, <2>2
<1>12. States(js, q)'  BY <1>p, <1>1, <1>2, <1>6, <1>k, <1>11 DEF States
<1>13. Seen(js, q)'
  <2> SUFFICES ASSUME ~new.pending, o.list # None, NEW c \in o.subs, NEW r \in o.list, rows[r] # None,
                      r \notin v.saw[c].early
               PROVE  v.saw[c].values[r] = new.states[r]
    BY <1>p, <1>1, <1>2, <1>k DEF Seen
  <2>1. o.observed = o.list /\ o.observed \subseteq Records  BY <1>0, <1>f DEF Emits, Obs
  <2>2. r \in Records /\ o.states[r] # None  BY <1>0, <2>1 DEF Shown
  <2>3. new.states[r] # None  BY <1>0, <1>2, <2>1, <2>2 DEF Shown, Known
  <2>4. CASE changed = {} /\ new.pending = o.pending /\ v.saw = w.saw
    <3>1. \/ w.saw[c].values[r] = o.states[r]
          \/ w.saw[c].values[r] = w.raw[r] /\ Announced(q, r)
      BY <1>f, <2>4 DEF Seen
    <3>2. Announced(q, r) => o.states[r] = w.raw[r]  BY <1>6, <2>2, <2>4 DEF StatesChanged
    <3>3. new.states[r] = o.states[r]  BY <1>2, <2>2, <2>4
    <3> QED BY <2>4, <3>1, <3>2, <3>3
  <2>5. CASE v.saw[c] = Sight(w, q, o.observed)
    <3>1. v.saw[c].values[r] = w.raw[r] /\ ~Unannounced(r)  BY <2>1, <2>5 DEF Sight
    <3> QED BY <1>11, <2>2, <2>3, <3>1
  <2> QED BY <1>3, <2>4, <2>5
<1> QED BY <1>7, <1>9, <1>10, <1>12, <1>13 DEF Follows

\* The last change about a record, and its Model, tell whether it matches.
LEMMA ProcessedMatches ==
  ASSUME Wired, Stored, notify.phase = "collection", NEW list, NEW r \in Records, r \notin spoiled,
         ~About(notify.changes, r) => (r \in list <=> Matches(r))
  PROVE  r \in Processed(list, js, notify.changes) <=> Matches(r)
<1>p. PICK changes : changes = notify.changes  OBVIOUS
<1>0. batch = None /\ changes \in Seq(Changes)  BY <1>p DEF Wired, Typed, Notices, Stored, Phases
<1>1. ~Committed(r) /\ ~Under(r)  BY <1>0 DEF Committed, Under
<1>2. rows[r] # None => js.raw[r] = rows[r]  BY <1>1 DEF Stored, Models
<1>3. ~Matches(r) \/ rows[r] # None  BY NoneAssumption DEF Matches, Matching
<1>4. r \in Processed(list, js, changes) <=>
        LET about == {i \in DOMAIN changes : changes[i].record = r} IN
        IF about = {} THEN r \in list
        ELSE /\ js.raw[r] \in Matching
             /\ \E i \in about : changes[i].type # "destroyed" /\ \A j \in about : j <= i
  BY DEF Processed
<1>5. CASE ~About(changes, r)
  <2>1. {i \in DOMAIN changes : changes[i].record = r} = {}  BY <1>5 DEF About
  <2> QED BY <1>p, <1>4, <1>5, <2>1
<1>6. CASE About(changes, r)
  <2>1. PICK i \in DOMAIN changes : /\ changes[i].record = r
                                    /\ \A j \in DOMAIN changes : changes[j].record = r => j <= i
                                    /\ changes[i].type = "destroyed" <=> rows[r] = None
    BY <1>p, <1>1, <1>6 DEF Stored, Settles, Settled
  <2>2. r \in Processed(list, js, changes) <=>
          /\ js.raw[r] \in Matching
          /\ \E k \in DOMAIN changes : /\ changes[k].record = r /\ changes[k].type # "destroyed"
                                       /\ \A j \in DOMAIN changes : changes[j].record = r => j <= k
    BY <1>4, <2>1
  <2>3. DOMAIN changes \subseteq Nat  BY <1>0
  <2>4. \A k \in DOMAIN changes :
           changes[k].record = r /\ (\A j \in DOMAIN changes : changes[j].record = r => j <= k) => k = i
    BY <2>1, <2>3
  <2>5. r \in Processed(list, js, changes) <=> js.raw[r] \in Matching /\ changes[i].type # "destroyed"
    BY <2>1, <2>2, <2>4
  <2> QED BY <1>p, <1>2, <1>3, <2>1, <2>5 DEF Matches
<1> QED BY <1>5, <1>6

\* A simple observer is called.
LEMMA FollowsSourceHears ==
  ASSUME Wired, Stored, NEW q \in Queries, Follows(q), NotifyCollection, Heard(js.col),
         js.col[notify.next] = Source(q), Active(q), IsSimple(q), js.obs[q].list # None,
         Emission(js, js', q, Processed(js.obs[q].list, js, notify.changes)), js'.obs[q].missed = js.obs[q].missed
  PROVE  Follows(q)'
<1>p. PICK w, l : w = js /\ l = Processed(js.obs[q].list, js, notify.changes)  OBVIOUS
<1>0. Typed /\ w \in Page /\ Listed(q) /\ Shown(w, q) /\ l \in SUBSET Records
  BY <1>p DEF Wired, Typed, Registered, Processed
<1>1. /\ kind' = kind /\ rows' = rows /\ batch' = batch /\ deferred' = deferred /\ spoiled' = spoiled
      /\ sent' = sent /\ answers' = answers /\ notify.phase = "collection" /\ ~ToReset(q)
  BY CollectionNext
<1>2. Emission(w, js', q, l) /\ js'.obs[q].age = js.obs[q].age /\ js'.obs[q].list = l
      /\ js'.obs[q].subs = js.obs[q].subs
  BY <1>p DEF Emission, Keeps
<1>3. ~ColumnsUnheard(q)
  <2>1. js.col \in Seq(Entries) /\ notify.next \in Nat \ {0} /\ notify.next \in DOMAIN js.col
    BY HeardEntry DEF Wired, Typed, Page, Notices
  <2>2. \A i \in DOMAIN js.col : js.col[i] = Columns(q) => i < notify.next
    BY <1>0, <2>1 DEF Listed, Before
  <2>3. \A i \in DOMAIN js.col : i \in Nat /\ (i < notify.next => ~(i >= notify.next))
    BY <2>1
  <2> QED BY <1>1, <2>2, <2>3 DEF ColumnsUnheard, Unheard
<1>4. \A r : Announced(q, r) => Announced(q, r)'  BY <1>3 DEF Announced
<1>5. Emits(js, q)' /\ Pends(q)' /\ States(js, q)' /\ Seen(js, q)'
  <2>1. Emits(w, q) /\ States(w, q) /\ Seen(w, q)  BY <1>p DEF Follows
  <2> QED BY <1>0, <1>1, <1>2, <1>4, <2>1, FollowsEmission
<1>6. OnWay(q)' <=> OnWay(q)  BY <1>0, <1>1, <1>2, AgedUnmoved
<1>7. Fresh(q)'
  <2> SUFFICES ASSUME ~js.obs[q].missed, ~OnWay(q)
               PROVE  /\ l # None
                      /\ \A r \in Records : r \notin spoiled => (r \in l <=> Matches(r))
    BY <1>1, <1>2, <1>6, SameRows DEF Fresh
  <2>1. l # None  BY <1>0, NoneAssumption
  <2>2. ASSUME NEW r \in Records, r \notin spoiled PROVE r \in l <=> Matches(r)
    <3>1. batch = None /\ deferred = None  BY <1>1 DEF Stored, Phases
    <3>2. ~About(notify.changes, r) => ~Pending(q, r)  BY <3>1 DEF Pending, Committed, Under
    <3>3. ~About(notify.changes, r) => (r \in js.obs[q].list <=> Matches(r))
      BY <1>1, <2>2, <3>2 DEF Follows, Fresh
    <3> QED BY <1>p, <1>1, <2>2, <3>3, ProcessedMatches
  <2> QED BY <2>1, <2>2
<1> QED BY <1>5, <1>7 DEF Follows

\* Somebody is called in the second round.
LEMMA FollowsCollectionHeard ==
  ASSUME Wired, Stored, \A q \in Queries : Follows(q), NotifyCollection, Heard(js.col)
  PROVE  \A q \in Queries : Follows(q)'
<1>p. PICK e, q : e = js.col[notify.next] /\ q = e.query  OBVIOUS
<1>1. /\ q \in Queries /\ Active(q)
      /\ \/ e = Columns(q) /\ HasColumns(q) /\ ColumnsHear(js, js', q, notify.changes)
         \/ /\ e = Source(q) /\ IsSimple(q) /\ js.obs[q].list # None
            /\ Emission(js, js', q, Processed(js.obs[q].list, js, notify.changes))
            /\ js'.obs[q].missed = js.obs[q].missed
  BY <1>p, CollectionHears
<1>2. Follows(q)'
  <2>1. CASE e = Columns(q) /\ HasColumns(q) /\ ColumnsHear(js, js', q, notify.changes)
    BY <1>p, <1>1, <2>1, FollowsColumnsHear
  <2>2. CASE /\ e = Source(q) /\ IsSimple(q) /\ js.obs[q].list # None
             /\ Emission(js, js', q, Processed(js.obs[q].list, js, notify.changes))
             /\ js'.obs[q].missed = js.obs[q].missed
    BY <1>p, <1>1, <2>2, FollowsSourceHears
  <2> QED BY <1>1, <2>1, <2>2
<1>3. ASSUME NEW p \in Queries, p # q PROVE Follows(p)'
  BY <1>p, <1>3, FollowsNotCalled
<1> QED BY <1>2, <1>3

-----------------------------------------------------------------------------
\* The steps of the database and of its subscribers.

\* Steps about the rows and what is to be announced, while nobody is called.
LEMMA FollowsCalm ==
  ASSUME Wired, NEW p \in Queries, Follows(p), kind' = kind, RawOnly(js, js'), OnWay(p)' <=> OnWay(p),
         notify.phase = "none",
         Active(p) /\ ~ToReset(p)' =>
           \A r \in Records : ~Pending(p, r)' /\ r \notin spoiled' =>
             /\ ~Committed(r) /\ (deferred # None => ~About(deferred, r))
             /\ r \notin spoiled /\ (Matches(r)' <=> Matches(r)),
         \A r \in Records : js.raw[r] # None /\ rows'[r] # None =>
           /\ rows[r] # None
           /\ ~Unannounced(r)' /\ ~Announced(p, r)' => ~Unannounced(r) /\ js'.raw[r] = js.raw[r]
  PROVE  Follows(p)'
<1>1. ~SourceUnheard(p) /\ ~ColumnsUnheard(p) /\ ~ToReset(p) /\ \A r : ~Announced(p, r)
  <2>1. \A q : ~SourceUnheard(q) /\ ~ColumnsUnheard(q) /\ \A r : ~Announced(q, r)  BY CalmHears
  <2> QED BY <2>1 DEF ToReset
<1>2. IsSimple(p) => ~js.obs[p].pending  BY <1>1, SimpleSettles
<1>3. js'.obs[p] = js.obs[p] /\ \A c \in js.obs[p].subs : js'.saw[c] = js.saw[c]  BY DEF RawOnly
<1>4. \A r \in Records : js.obs[p].states[r] # None => js.raw[r] # None
  BY DEF Wired, Shown, Known
<1>5. \A r : ~Committed(r) /\ (deferred # None => ~About(deferred, r)) => ~Pending(p, r)
  BY <1>1 DEF Pending
<1> QED BY <1>1, <1>2, <1>3, <1>4, <1>5, FollowsAround

\* A batch is sent.
LEMMA FollowsBatch ==
  ASSUME Wired, Stored, \A q \in Queries : Follows(q), NEW change \in Changes, Batch(change)
  PROVE  \A q \in Queries : Follows(q)'
<1> DEFINE m == [do |-> "batch"]
<1>0. Typed /\ js \in Page /\ js.raw \in [Records -> Values]  BY DEF Wired, Typed, Page
<1>1. /\ rows' = rows /\ deferred' = deferred /\ spoiled' = spoiled /\ notify' = notify /\ kind' = kind
      /\ Calm /\ batch = None /\ batch' = [change |-> change, state |-> "sent"] /\ answers' = answers
  BY DEF Batch
<1>2. batch' # None /\ batch'.change = change /\ batch'.state = "sent"
  <2>1. batch' \in Batches  BY <1>1 DEF Batches
  <2> QED BY <1>1, <2>1, NoneAssumption
<1>3. AppendShape(m) /\ m.do = "batch"
  <2>1. m \in Requests /\ m.do = "batch"  BY DEF Requests
  <2>2. sent' = Append(sent, m)  BY DEF Batch
  <2> QED BY <1>0, <1>1, <2>1, <2>2, Appends
<1> HIDE DEF m
<1>4. RawOnly(js, js') /\ \A r \in Records : js'.raw[r] = js.raw[r] \/ (change.type = "updated" /\ change.record = r)
  <2>1. CASE change.type = "updated"
    <3>1. js' = [js EXCEPT !.raw[change.record] = change.value]  BY <2>1 DEF Batch
    <3>2. change.record \in Records /\ change.value \in Values /\ change.value # None  BY <2>1, ChangeType
    <3>3. RawOnly(js, js') /\ js'.raw = [js.raw EXCEPT ![change.record] = change.value]
      BY <1>0, <3>1, <3>2, RawSet
    <3> QED BY <1>0, <2>1, <3>3
  <2>2. CASE change.type # "updated"
    <3>1. js' = js  BY <2>2 DEF Batch
    <3> QED BY <1>0, <3>1, RawOnlySelf
  <2> QED BY <2>1, <2>2
<1> SUFFICES ASSUME NEW p \in Queries PROVE Follows(p)'  OBVIOUS
<1>5. notify.phase = "none"  BY <1>1 DEF Calm
<1>6. OnWay(p)' <=> OnWay(p)
  <2>1. js'.obs[p].age = js.obs[p].age  BY <1>4 DEF RawOnly
  <2> QED BY <1>0, <1>3, <2>1, AgedAppended
<1>7. \A r \in Records : ~Pending(p, r)' =>
        ~Committed(r) /\ (deferred # None => ~About(deferred, r)) /\ (Matches(r)' <=> Matches(r))
  BY <1>1 DEF Pending, Committed, Under, About, Matches
<1>8. ASSUME NEW r \in Records, ~Unannounced(r)' PROVE ~Unannounced(r) /\ js'.raw[r] = js.raw[r]
  <2>1. ~Unannounced(r)  BY <1>1, <1>8 DEF Unannounced, Updates
  <2>2. ~Updates(<<change>>, r)  BY <1>2, <1>8 DEF Unannounced, Updates
  <2>3. ~(change.type = "updated" /\ change.record = r)
    <3>1. DOMAIN <<change>> = {1} /\ <<change>>[1] = change  OBVIOUS
    <3> QED BY <2>2, <3>1 DEF Updates
  <2> QED BY <1>4, <2>1, <2>3
<1> QED BY <1>1, <1>4, <1>5, <1>6, <1>7, <1>8, FollowsCalm

\* The driver executes a request, or fails to.
LEMMA ExecutesMove ==
  ASSUME Wired, Execute \/ ExecuteFails
  PROVE  MoveShape
<1> DEFINE request == Head(sent)
           m == IF request.do = "fetch"
                THEN [do |-> "fetch", query |-> request.query, age |-> request.age,
                      list |-> IF Execute THEN Result ELSE {}, failed |-> IF Execute THEN FALSE ELSE TRUE]
                ELSE [do |-> "batch"]
<1>0. Typed /\ sent # <<>> /\ sent' = Tail(sent)  BY DEF Wired, Execute, ExecuteFails
<1>1. /\ request.do \in {"batch", "fetch"}
      /\ request.do = "fetch" => request.query \in Queries /\ request.age \in Nat
  BY <1>0, FirstRequest
<1>2. answers' = Append(answers, m)  BY DEF Execute, ExecuteFails
<1>3. CASE request.do = "fetch"
  <2>1. Result \in SUBSET Records /\ {} \in SUBSET Records  BY DEF Result
  <2>2. m \in Answers /\ m.do = request.do /\ m.query = request.query /\ m.age = request.age
    BY <1>1, <1>3, <2>1 DEF Answers
  <2> HIDE DEF m
  <2> QED BY <1>0, <1>2, <2>2, Moves
<1>4. CASE request.do = "batch"
  <2>1. m = [do |-> "batch"]  BY <1>4
  <2>2. m \in Answers /\ m.do = request.do /\ m.do # "fetch"  BY <1>4, <2>1 DEF Answers
  <2> HIDE DEF m
  <2> QED BY <1>0, <1>2, <2>2, Moves
<1> QED BY <1>1, <1>3, <1>4

\* The driver executes a query, or fails to: observers stay where they were.
LEMMA FollowsExecuteFetch ==
  ASSUME Wired, \A q \in Queries : Follows(q), Execute \/ ExecuteFails, Head(sent).do = "fetch"
  PROVE  \A q \in Queries : Follows(q)'
<1>1. /\ kind' = kind /\ rows' = rows /\ batch' = batch /\ deferred' = deferred /\ spoiled' = spoiled
      /\ notify' = notify /\ js' = js
  BY DEF Execute, ExecuteFails
<1> SUFFICES ASSUME NEW p \in Queries PROVE Follows(p)'  OBVIOUS
<1>2. OnWay(p)' <=> OnWay(p)
  <2>1. js'.obs[p].age = js.obs[p].age  BY <1>1
  <2> QED BY <2>1, ExecutesMove, AgedMoved DEF Wired
<1>3. (SourceUnheard(p)' <=> SourceUnheard(p)) /\ (ColumnsUnheard(p)' <=> ColumnsUnheard(p))
      /\ (ToReset(p)' <=> ToReset(p))
  <2>1. Source(p)' = Source(p) /\ Columns(p)' = Columns(p)  BY DEF Source, Columns
  <2>2. IsSimple(p)' <=> IsSimple(p)  BY <1>1, SameKinds
  <2> QED BY <1>1, <2>1, <2>2 DEF SourceUnheard, ColumnsUnheard, ToReset, Unheard
<1>4. Elsewhere(p)  BY <1>1, <1>2, <1>3 DEF Elsewhere
<1> QED BY <1>4, FollowsElsewhere

\* The driver executes the batch, which nobody is told of yet.
LEMMA FollowsExecuteBatch ==
  ASSUME Wired, Stored, \A q \in Queries : Follows(q), Execute, Head(sent).do = "batch"
  PROVE  \A q \in Queries : Follows(q)'
<1>p. PICK r, change : change = batch.change /\ r = change.record  OBVIOUS
<1>0. Typed /\ js \in Page /\ rows \in [Records -> Values] /\ sent # <<>>  BY DEF Wired, Typed, Execute
<1>1. /\ rows' = [rows EXCEPT ![r] = change.value] /\ batch' = [batch EXCEPT !.state = "done"]
      /\ kind' = kind /\ deferred' = deferred /\ spoiled' = spoiled /\ notify' = notify /\ js' = js
  BY <1>p DEF Execute
<1>2. /\ batch # None /\ batch.state = "sent" /\ batch \in Batches /\ r \in Records
      /\ change.type \in {"created", "updated", "destroyed", "raw"}
      /\ change.value = None <=> change.type \in {"destroyed", "raw"}
  BY <1>0, <1>p, FirstRequest, BatchIs
<1>3. batch' # None /\ batch'.change = change /\ batch'.state = "done"
  <2>1. batch' \in Batches /\ batch'.change = change /\ batch'.state = "done"  BY <1>1, <1>2, <1>p DEF Batches
  <2> QED BY <2>1, NoneAssumption
<1>4. \A x : ~Committed(x) /\ (Committed(x)' <=> x = r)
  BY <1>2, <1>3, <1>p DEF Under, Committed
<1>5. rows'[r] = change.value /\ \A x \in Records \ {r} : rows'[x] = rows[x]  BY <1>0, <1>1, <1>2
<1>6. /\ change.type = "created" => js.raw[r] = None
      /\ change.type = "updated" => rows[r] # None
  BY <1>2, <1>p DEF Stored, Awaited
<1>7. notify.phase = "none" /\ RawOnly(js, js')
  BY <1>0, <1>1, <1>2, RawOnlySelf DEF Stored, Phases
<1> SUFFICES ASSUME NEW p \in Queries PROVE Follows(p)'  OBVIOUS
<1>8. OnWay(p)' <=> OnWay(p)
  <2>1. js'.obs[p].age = js.obs[p].age  BY <1>1
  <2> QED BY <1>0, <2>1, ExecutesMove, AgedMoved
<1>9. \A x \in Records : ~Pending(p, x)' =>
        ~Committed(x) /\ (deferred # None => ~About(deferred, x)) /\ (Matches(x)' <=> Matches(x))
  BY <1>1, <1>4, <1>5 DEF Pending, About, Matches
<1>10. ASSUME NEW x \in Records, js.raw[x] # None, rows'[x] # None
       PROVE  rows[x] # None /\ (~Unannounced(x)' => ~Unannounced(x))
  <2>1. rows[x] # None  BY <1>2, <1>5, <1>6, <1>10
  <2>2. ~Unannounced(x)' => ~Unannounced(x)  BY <1>1, <1>2, <1>3, <1>p DEF Unannounced, Updates
  <2> QED BY <2>1, <2>2
<1> QED BY <1>1, <1>7, <1>8, <1>9, <1>10, FollowsCalm

\* The batch fails: its update stays in the Model.
LEMMA FollowsExecuteBatchFails ==
  ASSUME Wired, Stored, \A q \in Queries : Follows(q), ExecuteFails, Head(sent).do = "batch"
  PROVE  \A q \in Queries : Follows(q)'
<1>p. PICK change : change = batch.change  OBVIOUS
<1>0. Typed /\ js \in Page /\ sent # <<>>  BY DEF Wired, Typed, ExecuteFails
<1>1. /\ rows' = rows /\ batch' = [batch EXCEPT !.state = "failed"] /\ spoiled \subseteq spoiled'
      /\ kind' = kind /\ deferred' = deferred /\ notify' = notify /\ js' = js
  BY DEF ExecuteFails
<1>2. batch # None /\ batch.state = "sent" /\ batch \in Batches  BY <1>0, FirstRequest
<1>3. batch' # None /\ batch'.change = change /\ batch'.state = "failed"
  <2>1. batch' \in Batches /\ batch'.change = change /\ batch'.state = "failed"  BY <1>1, <1>2, <1>p DEF Batches
  <2> QED BY <2>1, NoneAssumption
<1>4. notify.phase = "none" /\ RawOnly(js, js')
  BY <1>0, <1>1, <1>2, RawOnlySelf DEF Stored, Phases
<1>5. \A x : ~Committed(x)  BY <1>2 DEF Under, Committed
<1> SUFFICES ASSUME NEW p \in Queries PROVE Follows(p)'  OBVIOUS
<1>6. OnWay(p)' <=> OnWay(p)
  <2>1. js'.obs[p].age = js.obs[p].age  BY <1>1
  <2> QED BY <1>0, <2>1, ExecutesMove, AgedMoved
<1>7. \A x \in Records : ~Pending(p, x)' =>
        ~Committed(x) /\ (deferred # None => ~About(deferred, x)) /\ (Matches(x)' <=> Matches(x))
  BY <1>1, <1>5 DEF Pending, About, Matches
<1>8. \A x : ~Unannounced(x)' => ~Unannounced(x)
  BY <1>1, <1>2, <1>3, <1>p DEF Unannounced, Updates
<1> QED BY <1>1, <1>4, <1>6, <1>7, <1>8, FollowsCalm

\* A notification that begins is heard by every observer.
LEMMA NotifiesUnheard ==
  ASSUME Wired, NEW changes \in Seq(Changes), Notifies(changes), js'.db = js.db, kind' = kind,
         NEW p \in Queries, Active(p)
  PROVE  /\ SourceUnheard(p)' /\ ColumnsUnheard(p)' /\ notify'.changes = changes
<1>0. Typed /\ js.db \in Seq(Entries) /\ Listed(p)  BY DEF Wired, Typed, Page, Registered
<1>1. notify'.phase = "db" /\ notify'.next = 1 /\ notify'.changes = changes  BY <1>0, NotifiesType
<1>2. ColumnsUnheard(p)'  BY <1>1 DEF ColumnsUnheard
<1>3. IsSimple(p)' <=> IsSimple(p)  BY SameKinds
<1>4. ~IsSimple(p) => Unheard(js.db, Source(p))'
  <2> SUFFICES ASSUME ~IsSimple(p) PROVE Unheard(js.db, Source(p))'  OBVIOUS
  <2>1. In(js.db, Source(p))  BY <1>0 DEF Listed
  <2>2. PICK i \in DOMAIN js.db : js.db[i] = Source(p)  BY <2>1 DEF In
  <2>3. i >= 1  BY <1>0, <2>2
  <2>4. Source(p)' = Source(p)  BY DEF Source
  <2> QED BY <1>1, <2>2, <2>3, <2>4 DEF Unheard
<1> QED BY <1>1, <1>2, <1>3, <1>4 DEF SourceUnheard

\* A change that is deferred.
LEMMA AppendedChange ==
  ASSUME NEW changes \in Seq(Changes), NEW change \in Changes
  PROVE  \A x : /\ About(Append(changes, change), x) <=> About(changes, x) \/ change.record = x
                /\ Updates(Append(changes, change), x)
                     <=> Updates(changes, x) \/ (change.record = x /\ change.type = "updated")
<1> DEFINE t == Append(changes, change)
           n == Len(changes)
<1>1. n \in Nat /\ DOMAIN changes = 1..n /\ DOMAIN t = 1..(n + 1) /\ t[n + 1] = change /\ \A i \in 1..n : t[i] = changes[i]
  OBVIOUS
<1> HIDE DEF t, n
<1>2. n + 1 \in 1..(n + 1) /\ (\A i \in 1..n : i \in 1..(n + 1)) /\ \A i \in 1..(n + 1) : i \in 1..n \/ i = n + 1
  BY <1>1
<1> TAKE x
<1>3. About(t, x) <=> About(changes, x) \/ change.record = x  BY <1>1, <1>2 DEF About
<1>4. Updates(t, x) <=> Updates(changes, x) \/ (change.record = x /\ change.type = "updated")
  BY <1>1, <1>2 DEF Updates
<1> QED BY <1>3, <1>4 DEF t
\* A change alone.
LEMMA OneChange ==
  \A change, x : /\ About(<<change>>, x) <=> change.record = x
                 /\ Updates(<<change>>, x) <=> change.record = x /\ change.type = "updated"
<1> TAKE change, x
<1>1. DOMAIN <<change>> = {1} /\ <<change>>[1] = change  OBVIOUS
<1> QED BY <1>1 DEF About, Updates

\* What the answer of a batch leaves unannounced, or announces.
LEMMA BatchAnsweredIs ==
  ASSUME Wired, Stored, BatchAnswered, NEW r, NEW change, change = batch.change, r = change.record
  PROVE  /\ batch # None /\ batch.state \in {"done", "failed"} /\ r \in Records /\ change \in Changes
         /\ batch' = None /\ rows' = rows /\ kind' = kind
         /\ notify.phase = "none" /\ TailShape /\ Head(answers).do = "batch" /\ answers # <<>>
         /\ RawOnly(js, js')
         /\ \A x \in Records : js.raw[x] # None => js'.raw[x] = js.raw[x]
         /\ (\A x : Committed(x) <=> x = r /\ batch.state = "done")
         /\ spoiled' = IF batch.state = "done" THEN spoiled \ {r} ELSE spoiled
         /\ \/ batch.state = "failed" /\ notify' = notify /\ deferred' = deferred
               /\ (change.type = "updated" => r \in spoiled)
            \/ /\ batch.state = "done" /\ change.type = "raw" /\ rows[r] = None
               /\ notify' = [Silent EXCEPT !.phase = "invalidate", !.todo = Queries]
            \/ /\ batch.state = "done" /\ change.type # "raw" /\ deferred # None /\ deferred' # None
               /\ deferred \in Seq(Changes) /\ deferred' = Append(deferred, change)
            \/ batch.state = "done" /\ change.type # "raw" /\ deferred = None /\ deferred' = None
               /\ Notifies(<<change>>)
         /\ batch.state = "done" /\ change.type # "updated" => js.raw[r] = None \/ rows[r] = None
<1>0. Typed /\ js \in Page /\ js.raw \in [Records -> Values]  BY DEF Wired, Typed, Page
<1>1. /\ rows' = rows /\ kind' = kind /\ batch' = None /\ Calm /\ sent' = sent
      /\ answers # <<>> /\ answers' = Tail(answers) /\ Head(answers).do = "batch"
      /\ spoiled' = IF batch.state = "done" THEN spoiled \ {r} ELSE spoiled
      /\ js' = IF batch.state = "done" /\ change.type = "created"
               THEN [js EXCEPT !.raw[r] = change.value] ELSE js
  BY DEF BatchAnswered
<1>2. answers[1].do = "batch" /\ 1 \in 1..Len(answers)  BY <1>0, <1>1, AnswersShift
<1>3. batch # None /\ batch.state \in {"done", "failed"}
  <2>1. batch # None /\ batch.state # "sent"  BY <1>2, BatchAnswers
  <2> QED BY <2>1, BatchIs
<1>4. /\ r \in Records /\ change \in Changes /\ change.value \in Values
      /\ change.type \in {"created", "updated", "destroyed", "raw"}
      /\ (change.value = None <=> change.type \in {"destroyed", "raw"})
  BY <1>3, BatchIs
<1>5. \A x : Committed(x) <=> x = r /\ batch.state = "done"  BY <1>3 DEF Under, Committed
<1>6. /\ change.type = "created" => js.raw[r] = None
      /\ change.type = "updated" => (batch.state = "failed" => r \in spoiled)
      /\ batch.state = "done" => rows[r] = change.value
  BY <1>3 DEF Stored, Awaited
<1>7. TailShape  BY <1>0, <1>1, Tails
<1>8. RawOnly(js, js') /\ \A x \in Records : js.raw[x] # None => js'.raw[x] = js.raw[x]
  <2>1. CASE batch.state = "done" /\ change.type = "created"
    <3>1. js' = [js EXCEPT !.raw[r] = change.value]  BY <1>1, <2>1
    <3>2. RawOnly(js, js') /\ js'.raw = [js.raw EXCEPT ![r] = change.value]
      BY <1>0, <1>4, <2>1, <3>1, RawSet
    <3> QED BY <1>0, <1>6, <2>1, <3>2
  <2>2. CASE ~(batch.state = "done" /\ change.type = "created")
    <3>1. js' = js  BY <1>1, <2>2
    <3> QED BY <1>0, <3>1, RawOnlySelf
  <2> QED BY <2>1, <2>2
<1>9. \/ batch.state = "failed" /\ notify' = notify /\ deferred' = deferred
         /\ (change.type = "updated" => r \in spoiled)
      \/ /\ batch.state = "done" /\ change.type = "raw" /\ rows[r] = None
         /\ notify' = [Silent EXCEPT !.phase = "invalidate", !.todo = Queries]
      \/ /\ batch.state = "done" /\ change.type # "raw" /\ deferred # None /\ deferred' # None
         /\ deferred \in Seq(Changes) /\ deferred' = Append(deferred, change)
      \/ batch.state = "done" /\ change.type # "raw" /\ deferred = None /\ deferred' = None
         /\ Notifies(<<change>>)
  <2>1. CASE batch.state = "failed"
    <3>1. notify' = notify /\ deferred' = deferred  BY <2>1 DEF BatchAnswered
    <3> QED BY <1>6, <2>1, <3>1
  <2>2. CASE batch.state = "done" /\ change.type = "raw"
    <3>1. notify' = [Silent EXCEPT !.phase = "invalidate", !.todo = Queries]  BY <2>2 DEF BatchAnswered
    <3> QED BY <1>4, <1>6, <2>2, <3>1
  <2>3. CASE batch.state = "done" /\ change.type # "raw" /\ deferred # None
    <3>1. deferred' = Append(deferred, change)  BY <2>3 DEF BatchAnswered
    <3>2. deferred \in Seq(Changes)  BY <1>0, <2>3 DEF Typed
    <3>3. deferred' \in Seq(Changes)  BY <1>4, <3>1, <3>2
    <3>4. deferred' # None  BY <3>3, NoneAssumption
    <3> QED BY <2>3, <3>1, <3>2, <3>4
  <2>4. CASE batch.state = "done" /\ change.type # "raw" /\ deferred = None
    <3>1. Notifies(<<change>>) /\ deferred' = deferred  BY <2>4 DEF BatchAnswered
    <3> QED BY <2>4, <3>1
  <2> QED BY <1>3, <2>1, <2>2, <2>3, <2>4
<1>10. batch.state = "done" /\ change.type # "updated" => js.raw[r] = None \/ rows[r] = None
  BY <1>4, <1>6
<1>11. notify.phase = "none"  BY <1>1 DEF Calm
<1> QED BY <1>1, <1>3, <1>4, <1>5, <1>7, <1>8, <1>9, <1>10, <1>11

\* A batch is answered.
LEMMA FollowsBatchAnswered ==
  ASSUME Wired, Stored, \A q \in Queries : Follows(q), BatchAnswered
  PROVE  \A q \in Queries : Follows(q)'
<1>p. PICK r, change, state : change = batch.change /\ r = change.record /\ state = batch.state  OBVIOUS
<1>0. Typed /\ js \in Page /\ Ways \in Nat  BY WaysType DEF Wired, Typed
<1>1. /\ batch # None /\ r \in Records /\ change \in Changes
      /\ batch' = None /\ rows' = rows /\ kind' = kind
      /\ notify.phase = "none" /\ TailShape /\ Head(answers).do = "batch" /\ answers # <<>>
      /\ RawOnly(js, js')
      /\ \A x \in Records : js.raw[x] # None => js'.raw[x] = js.raw[x]
      /\ (\A x : Committed(x) <=> x = r /\ state = "done")
      /\ spoiled' = IF state = "done" THEN spoiled \ {r} ELSE spoiled
      /\ state = "done" /\ change.type # "updated" => js.raw[r] = None \/ rows[r] = None
  BY <1>p, BatchAnsweredIs
<1>2. \/ state = "failed" /\ notify' = notify /\ deferred' = deferred /\ (change.type = "updated" => r \in spoiled)
      \/ /\ state = "done" /\ change.type = "raw" /\ rows[r] = None
         /\ notify' = [Silent EXCEPT !.phase = "invalidate", !.todo = Queries]
      \/ /\ state = "done" /\ change.type # "raw" /\ deferred # None /\ deferred' # None
         /\ deferred \in Seq(Changes) /\ deferred' = Append(deferred, change)
      \/ state = "done" /\ change.type # "raw" /\ deferred = None /\ deferred' = None /\ Notifies(<<change>>)
  BY <1>p, BatchAnsweredIs
<1>3. \A x : Unannounced(x) => \/ x \in spoiled
                               \/ x = r /\ change.type = "updated"
                               \/ deferred # None /\ Updates(deferred, x)
  BY <1>p, OneChange DEF Unannounced
<1>4. \A x : x \in spoiled' \/ (deferred' # None /\ Updates(deferred', x)) => Unannounced(x)'
  BY DEF Unannounced, Updates
<1>5. (\A x : Matches(x)' <=> Matches(x))  BY <1>1 DEF Matches
<1>6. \A x : deferred' # None /\ About(deferred', x) => \A q : Pending(q, x)'
  BY DEF Pending, About
<1> SUFFICES ASSUME NEW p \in Queries PROVE Follows(p)'  OBVIOUS
<1>7. OnWay(p)' <=> OnWay(p)
  <2>1. js'.obs[p].age = js.obs[p].age  BY <1>1 DEF RawOnly
  <2>2. OnWay(p)' <=> \E i \in 2..Ways : Current(p, i)  BY <1>0, <1>1, <2>1, AgedTailed
  <2>3. Item(1).do = "batch"  BY <1>0, <1>1, Tails DEF BatchAnswered
  <2>4. \A i \in 1..Ways : i = 1 \/ i \in 2..Ways  BY <1>0
  <2>5. \A i \in 2..Ways : i \in 1..Ways  BY <1>0
  <2> QED BY <2>2, <2>3, <2>4, <2>5 DEF OnWay, Current
<1>8. ASSUME Active(p), ~ToReset(p)', NEW x \in Records, ~Pending(p, x)', x \notin spoiled'
      PROVE  ~Committed(x) /\ (deferred # None => ~About(deferred, x)) /\ x \notin spoiled
  <2>1. CASE state = "failed" /\ deferred' = deferred  BY <1>1, <1>6, <1>8, <2>1
  <2>2. CASE notify' = [Silent EXCEPT !.phase = "invalidate", !.todo = Queries]
    <3>1. ToReset(p)'  BY <2>2 DEF ToReset, Silent
    <3> QED BY <1>8, <3>1
  <2>3. CASE /\ state = "done" /\ deferred # None /\ deferred' # None
             /\ deferred \in Seq(Changes) /\ deferred' = Append(deferred, change)
    <3>1. ~About(deferred, x) /\ x # r  BY <1>p, <1>1, <1>6, <1>8, <2>3, AppendedChange
    <3> QED BY <1>1, <1>8, <3>1
  <2>4. CASE state = "done" /\ deferred = None /\ Notifies(<<change>>)
    <3>0. <<change>> \in Seq(Changes)  BY <1>1
    <3>1. SourceUnheard(p)' /\ notify'.changes = <<change>>
      BY <1>1, <1>8, <2>4, <3>0, NotifiesUnheard DEF RawOnly
    <3>2. ~About(<<change>>, x)  BY <1>8, <3>1 DEF Pending, About
    <3>3. x # r  BY <1>p, <3>2, OneChange
    <3> QED BY <1>1, <1>8, <2>4, <3>3
  <2> QED BY <1>2, <2>1, <2>2, <2>3, <2>4
<1>9. ASSUME NEW x \in Records, js.raw[x] # None, rows[x] # None, ~Unannounced(x)', ~Announced(p, x)'
      PROVE  ~Unannounced(x)
  <2>0. x \notin spoiled' /\ (deferred' # None => ~Updates(deferred', x))  BY <1>4, <1>9
  <2>1. CASE state = "failed" /\ deferred' = deferred /\ (change.type = "updated" => r \in spoiled)
    BY <1>1, <1>3, <2>0, <2>1
  <2>2. CASE state = "done" /\ change.type = "raw" /\ rows[r] = None
    <3>1. x # r  BY <1>9, <2>2
    <3>2. deferred = None  BY <1>p, <1>1, <2>2 DEF Stored, Awaited
    <3> QED BY <1>1, <1>3, <2>0, <2>2, <3>1, <3>2
  <2>3. CASE /\ state = "done" /\ deferred # None /\ deferred' # None
             /\ deferred \in Seq(Changes) /\ deferred' = Append(deferred, change)
    <3>1. ~Updates(deferred, x) /\ ~(x = r /\ change.type = "updated")
      BY <1>p, <1>1, <2>0, <2>3, AppendedChange
    <3>2. x # r  BY <1>1, <1>9, <2>3, <3>1
    <3> QED BY <1>1, <1>3, <2>0, <2>3, <3>1, <3>2
  <2>4. CASE state = "done" /\ deferred = None /\ Notifies(<<change>>)
    <3>0. <<change>> \in Seq(Changes)  BY <1>1
    <3>1. notify'.changes = <<change>> /\ notify'.phase = "db"
      BY <1>0, <2>4, <3>0, NotifiesType
    <3>2. ~Updates(<<change>>, x)  BY <1>9, <3>1 DEF Announced, ColumnsUnheard, Updates
    <3>3. ~(x = r /\ change.type = "updated")  BY <1>p, <3>2, OneChange
    <3>4. x # r  BY <1>1, <1>9, <2>4, <3>3
    <3> QED BY <1>1, <1>3, <2>0, <2>4, <3>4
  <2> QED BY <1>2, <2>1, <2>2, <2>3, <2>4
<1> QED BY <1>1, <1>5, <1>7, <1>8, <1>9, FollowsCalm

\* A batching scope begins or ends.
LEMMA FollowsBatching ==
  ASSUME Wired, Stored, \A q \in Queries : Follows(q), BeginBatching \/ EndBatching
  PROVE  \A q \in Queries : Follows(q)'
<1>0. Typed /\ js \in Page  BY DEF Wired, Typed
<1>1. /\ kind' = kind /\ rows' = rows /\ batch' = batch /\ spoiled' = spoiled /\ js' = js
      /\ sent' = sent /\ answers' = answers /\ batch = None /\ Calm
      /\ \/ deferred = None /\ deferred' = <<>>
         \/ deferred = <<>> /\ deferred' = None
         \/ deferred # None /\ Notifies(deferred)
  BY DEF BeginBatching, EndBatching, channel
<1>2. notify.phase = "none" /\ RawOnly(js, js')  BY <1>0, <1>1, RawOnlySelf DEF Calm
<1>3. \A x : ~Committed(x) /\ (Matches(x)' <=> Matches(x))  BY <1>1 DEF Committed, Under, Matches
<1>4. \A x : Unannounced(x) <=> x \in spoiled \/ (deferred # None /\ Updates(deferred, x))
  BY <1>1 DEF Unannounced
<1>5. \A x : x \in spoiled => Unannounced(x)'  BY <1>1 DEF Unannounced
<1> SUFFICES ASSUME NEW p \in Queries PROVE Follows(p)'  OBVIOUS
<1>6. OnWay(p)' <=> OnWay(p)  BY <1>0, <1>1, AgedUnmoved
<1>7. CASE deferred = None \/ deferred = <<>>
  BY <1>1, <1>2, <1>3, <1>4, <1>5, <1>6, <1>7, NoChanges, FollowsCalm
<1>8. CASE deferred # None /\ Notifies(deferred)
  <2>0. deferred \in Seq(Changes)  BY <1>0, <1>8 DEF Typed
  <2>1. notify'.changes = deferred /\ notify'.phase = "db"  BY <1>0, <1>8, <2>0, NotifiesType
  <2>2. Active(p) => SourceUnheard(p)'  BY <1>1, <1>8, <2>0, NotifiesUnheard
  <2>3. Active(p) => \A x : ~Pending(p, x)' => ~About(deferred, x)
    BY <2>1, <2>2 DEF Pending, About
  <2>4. \A x : ~Announced(p, x)' => ~Updates(deferred, x)
    BY <2>1 DEF Announced, ColumnsUnheard, Updates
  <2> QED BY <1>1, <1>2, <1>3, <1>4, <1>5, <1>6, <2>3, <2>4, FollowsCalm
<1> QED BY <1>1, <1>7, <1>8

\* Nobody observes: nothing to follow.
LEMMA FollowsIdle ==
  ASSUME NEW q \in Queries, NEW age, js'.obs[q] = Idle(age)
  PROVE  Follows(q)'
<1>1. /\ js'.obs[q].subs = {} /\ js'.obs[q].last = None /\ js'.obs[q].list = None
      /\ js'.obs[q].observed = {} /\ js'.obs[q].first /\ ~js'.obs[q].pending
      /\ \A r \in Records : js'.obs[q].states[r] = None
  BY DEF Idle
<1>2. ~Active(q)'  BY <1>1 DEF Active
<1>3. Emits(js, q)'  BY <1>1 DEF Emits
<1>4. Pends(q)'  BY <1>1, <1>2 DEF Pends
<1>5. Fresh(q)'  BY <1>2 DEF Fresh
<1>6. States(js, q)'  BY <1>1 DEF States
<1>7. Seen(js, q)'  BY <1>1 DEF Seen
<1> QED BY <1>3, <1>4, <1>5, <1>6, <1>7 DEF Follows

\* An observer that begins holds nothing.
Begun(age, S) == [Idle(age) EXCEPT !.subs = S]
\* An observer that begins follows, as it holds nothing.
LEMMA IdleShows ==
  ASSUME NEW w \in Page, NEW q \in Queries, NEW S, NEW age, w.obs[q] = Begun(age, S)
  PROVE  Shown(w, q) /\ Emits(w, q) /\ States(w, q) /\ Seen(w, q) /\ ~w.obs[q].pending
         /\ w.obs[q].subs = S /\ w.obs[q].age = age
<1>1. /\ w.obs[q].subs = S /\ w.obs[q].last = None /\ w.obs[q].list = None
      /\ w.obs[q].observed = {} /\ w.obs[q].first /\ ~w.obs[q].pending /\ w.obs[q].age = age
      /\ \A r \in Records : w.obs[q].states[r] = None
  BY DEF Begun, Idle
<1>2. Shown(w, q)
  <2>1. {r \in Records : w.obs[q].states[r] # None} = {}  BY <1>1
  <2> QED BY <1>1, <2>1 DEF Shown, Known
<1>3. Emits(w, q)  BY <1>1 DEF Emits
<1>4. States(w, q)  BY <1>1 DEF States
<1>5. Seen(w, q)  BY <1>1 DEF Seen
<1> QED BY <1>1, <1>2, <1>3, <1>4, <1>5

\* A source is subscribed to.
LEMMA FollowsBegins ==
  ASSUME Wired, \A p \in Queries : Follows(p), NEW q \in Queries, NEW w1 \in Page, NEW w2 \in Page,
         NEW S, NEW age \in Nat, w1.obs[q] = Begun(age, S), w1.raw = js.raw,
         \A p \in Queries : p # q =>
           /\ w1.obs[p] = js.obs[p] /\ (ToReset(p)' <=> ToReset(p))
           /\ \A c \in js.obs[p].subs : c \in Consumers \ S /\ w1.saw[c] = js.saw[c],
         Beginning(w1, w2, q), Fetching(w2, js', q), Asks(q, age), answers' = answers,
         kind' = kind, rows' = rows, batch' = batch, deferred' = deferred, spoiled' = spoiled,
         notify.phase \notin {"db", "collection"}, notify'.phase \notin {"db", "collection"}
  PROVE  \A p \in Queries : Follows(p)'
<1>1. w2.obs = w1.obs /\ w2.raw = w1.raw /\ w2.saw = w1.saw  BY DEF Beginning
<1>2. Keeps(w2, js', q)  BY FetchingKeeps
<1>3. Shown(w2, q) /\ Emits(w2, q) /\ States(w2, q) /\ Seen(w2, q) /\ ~w2.obs[q].pending
      /\ w2.obs[q].subs = S /\ w2.obs[q].age = age
  <2>1. w2.obs[q] = Begun(age, S)  BY <1>1
  <2> QED BY <2>1, IdleShows
<1>4. \A p : ~SourceUnheard(p) /\ ~ColumnsUnheard(p) /\ \A r : ~Announced(p, r)  BY CalmHears
<1>5. \A p : ~SourceUnheard(p)' /\ ~ColumnsUnheard(p)'  BY DEF SourceUnheard, ColumnsUnheard
<1>6. js'.obs[q].age = age  BY <1>2, <1>3 DEF Keeps
<1>7. /\ \A p \in Queries : p # q /\ js'.obs[p].age = js.obs[p].age => (OnWay(p)' <=> OnWay(p))
      /\ ~sync => OnWay(q)'
  <2>1. Typed  BY DEF Wired
  <2> QED BY <1>6, <2>1, AskedElsewhere
<1>8. Follows(q)'
  BY <1>3, <1>4, <1>7, FollowsFetching
<1>9. ASSUME NEW p \in Queries, p # q PROVE Follows(p)'
  <2>1. js'.obs[p] = js.obs[p] /\ js'.raw = js.raw /\ \A c \in js.obs[p].subs : js'.saw[c] = js.saw[c]
    BY <1>1, <1>2, <1>3, <1>9 DEF Keeps
  <2>2. OnWay(p)' <=> OnWay(p)  BY <1>7, <1>9, <2>1
  <2>3. Elsewhere(p)  BY <1>4, <1>5, <1>9, <2>1, <2>2 DEF Elsewhere
  <2> QED BY <2>3, FollowsElsewhere
<1> QED BY <1>8, <1>9

\* A consumer joins others.
LEMMA FollowsJoins ==
  ASSUME Wired, NEW q \in Queries, Follows(q), Active(q), NEW c \in Consumers, Joins(js, js', c, q),
         sent' = sent, answers' = answers, notify' = notify, notify.phase = "none",
         kind' = kind, rows' = rows, batch' = batch, deferred' = deferred, spoiled' = spoiled
  PROVE  Follows(q)'
<1>p. PICK v, w : v = js' /\ w = js  OBVIOUS
<1> DEFINE o == w.obs[q]
           new == v.obs[q]
<1>0. Typed /\ w \in Page /\ o \in Obs /\ w.obs \in [Queries -> Obs] /\ w.saw \in [Consumers -> Sights \cup {None}]
      /\ Shown(w, q) /\ o.subs \subseteq Consumers
  BY <1>p DEF Wired, Typed, Page, Obs
<1>1. /\ v.raw = w.raw /\ v.obs = [w.obs EXCEPT ![q] = [o EXCEPT !.subs = o.subs \cup {c}]]
      /\ v.saw = [w.saw EXCEPT ![c] = IF o.last # None THEN Sight(w, q, o.last) ELSE None]
  BY <1>p DEF Joins, Alike
<1>2. new = [o EXCEPT !.subs = o.subs \cup {c}]  BY <1>0, <1>1
<1>3. /\ new.subs = o.subs \cup {c} /\ new.last = o.last /\ new.list = o.list /\ new.observed = o.observed
      /\ new.first = o.first /\ new.pending = o.pending /\ new.fetching = o.fetching /\ new.missed = o.missed
      /\ new.states = o.states /\ new.age = o.age
  BY <1>0, <1>2 DEF Obs
<1>4. \A x \in o.subs : x # c => v.saw[x] = w.saw[x]  BY <1>0, <1>1
<1>f. Emits(w, q) /\ Pends(q) /\ Fresh(q) /\ States(w, q) /\ Seen(w, q)  BY <1>p DEF Follows
<1>5. o.list # None => v.saw[c] = Sight(w, q, o.list) /\ o.list \in SUBSET Records
  BY <1>0, <1>1, <1>f DEF Emits, Obs, Lists
<1>s. o.list # None => Sight(w, q, o.list) # None /\ Sight(w, q, o.list).list = o.list
                       /\ (HasColumns(q) => DOMAIN Sight(w, q, o.list).values = o.list)
  <2> SUFFICES ASSUME o.list # None
               PROVE  Sight(w, q, o.list) # None /\ Sight(w, q, o.list).list = o.list
                      /\ (HasColumns(q) => DOMAIN Sight(w, q, o.list).values = o.list)
    OBVIOUS
  <2>1. Sight(w, q, o.list) # None  BY <1>0, <1>5, SightType, NoneAssumption
  <2> QED BY <2>1 DEF Sight
<1>k. (HasColumns(q)' <=> HasColumns(q)) /\ (IsSimple(q)' <=> IsSimple(q))  BY SameKinds
<1>6. ~SourceUnheard(q) /\ ~ColumnsUnheard(q) /\ (\A r : ~Announced(q, r)) /\ ~ToReset(q)
  <2>1. \A p : ~SourceUnheard(p) /\ ~ColumnsUnheard(p) /\ \A r : ~Announced(p, r)  BY CalmHears
  <2> QED BY <2>1 DEF ToReset
<1>7. ~SourceUnheard(q)' /\ ~ColumnsUnheard(q)' /\ ~ToReset(q)'
  BY DEF SourceUnheard, ColumnsUnheard, ToReset
<1>8. OnWay(q)' <=> OnWay(q)  BY <1>p, <1>0, <1>3, AgedUnmoved
<1>9. Emits(js, q)'
  <2>1. \A x \in new.subs : x = c \/ x \in o.subs  BY <1>3
  <2>2. o.list # None => \A x \in new.subs : /\ v.saw[x] # None /\ v.saw[x].list = o.list
                                             /\ HasColumns(q) => DOMAIN v.saw[x].values = o.list
    BY <1>4, <1>5, <1>f, <1>s, <2>1 DEF Emits
  <2> QED BY <1>p, <1>3, <1>f, <1>k, <2>2 DEF Emits
<1>10. Pends(q)'  BY <1>p, <1>3, <1>6, <1>8, <1>f, <1>k DEF Pends
<1>11. Fresh(q)'
  BY <1>p, <1>3, <1>6, <1>7, <1>8, <1>f, SameRows DEF Fresh, Pending
<1>12. States(js, q)'  BY <1>p, <1>1, <1>3, <1>6, <1>f, <1>k, SameRows DEF States
<1>13. Seen(js, q)'
  <2> SUFFICES ASSUME HasColumns(q), ~o.pending, o.list # None, NEW x \in new.subs, NEW r \in o.list,
                      rows[r] # None, r \notin v.saw[x].early
               PROVE  v.saw[x].values[r] = o.states[r]
    BY <1>p, <1>3, <1>k DEF Seen
  <2>1. CASE x = c
    <3>1. v.saw[x].values[r] = w.raw[r] /\ ~Unannounced(r) /\ r \in Records  BY <1>5, <2>1 DEF Sight
    <3>2. o.states[r] \in {None, w.raw[r]}  BY <1>6, <1>f, <3>1 DEF States
    <3>3. o.states[r] # None  BY <1>0, <1>f, <3>1 DEF Shown, Emits
    <3> QED BY <3>1, <3>2, <3>3
  <2>2. CASE x # c
    <3>1. x \in o.subs /\ v.saw[x] = w.saw[x]  BY <1>3, <1>4, <2>2
    <3> QED BY <1>6, <1>f, <3>1 DEF Seen
  <2> QED BY <2>1, <2>2
<1> QED BY <1>9, <1>10, <1>11, <1>12, <1>13 DEF Follows

\* A consumer subscribes.
LEMMA FollowsSubscribe ==
  ASSUME Wired, ~OnceAllowed, Stored, \A q \in Queries : Follows(q),
         NEW c \in Consumers, NEW q \in Queries, NEW once \in BOOLEAN, Subscribe(c, q, once)
  PROVE  \A p \in Queries : Follows(p)'
<1>0. Typed /\ js \in Page /\ js.obs \in [Queries -> Obs] /\ js.saw \in [Consumers -> Sights \cup {None}]
      /\ \A p \in Queries : js.obs[p] \in Obs
  BY DEF Wired, Typed, Page
<1>1. /\ kind' = kind /\ rows' = rows /\ batch' = batch /\ deferred' = deferred /\ spoiled' = spoiled
      /\ notify' = notify /\ answers' = answers /\ notify.phase = "none"
  BY DEF Subscribe, work, Calm
<1>2. /\ js.at[c] = None
      /\ Active(q) => Joins(js, js', c, q) /\ sent' = sent
      /\ ~Active(q) => /\ Asks(q, js.obs[q].age)
                       /\ \E w1, w2 \in Page : Joins(js, w1, c, q) /\ Beginning(w1, w2, q) /\ Fetching(w2, js', q)
  BY SubscribeIs
<1>3. \A p \in Queries : c \notin js.obs[p].subs /\ js.obs[p].subs \subseteq Consumers
  BY <1>2, NoneAssumption DEF Wired, Registered
<1>4. CASE Active(q)
  <2>1. ASSUME NEW p \in Queries, p # q PROVE Follows(p)'
    <3>1. js'.obs[p] = js.obs[p] /\ js'.raw = js.raw /\ \A x \in js.obs[p].subs : js'.saw[x] = js.saw[x]
      BY <1>0, <1>2, <1>3, <1>4, <2>1 DEF Joins, Alike
    <3>2. OnWay(p)' <=> OnWay(p)
      <4>1. js'.obs[p].age = js.obs[p].age  BY <3>1
      <4> QED BY <1>0, <1>1, <1>2, <1>4, <4>1, AgedUnmoved
    <3>3. ~SourceUnheard(p) /\ ~ColumnsUnheard(p) /\ ~SourceUnheard(p)' /\ ~ColumnsUnheard(p)'
          /\ ~ToReset(p) /\ ~ToReset(p)'
      BY <1>1 DEF SourceUnheard, ColumnsUnheard, ToReset
    <3>4. Elsewhere(p)  BY <1>1, <3>1, <3>2, <3>3 DEF Elsewhere
    <3> QED BY <3>4, FollowsElsewhere
  <2>2. Follows(q)'  BY <1>1, <1>2, <1>4, FollowsJoins
  <2> QED BY <2>1, <2>2
<1>5. CASE ~Active(q)
  <2>p. PICK age, S : age = js.obs[q].age /\ S = {c}  OBVIOUS
  <2>1. PICK w1, w2 \in Page : Joins(js, w1, c, q) /\ Beginning(w1, w2, q) /\ Fetching(w2, js', q)
    BY <1>2, <1>5
  <2>2. js.obs[q] = Idle(age) /\ age \in Nat  BY <1>0, <1>5, <2>p DEF Wired, Aged, Obs
  <2>3. w1.obs[q] = Begun(age, S)
    <3>1. w1.obs[q] = [js.obs[q] EXCEPT !.subs = js.obs[q].subs \cup {c}]  BY <1>0, <2>1 DEF Joins
    <3>2. js.obs[q].subs \cup {c} = S  BY <1>5, <2>p DEF Active
    <3> QED BY <2>2, <3>1, <3>2 DEF Begun
  <2>4. \A p \in Queries : p # q =>
          /\ w1.obs[p] = js.obs[p] /\ (ToReset(p)' <=> ToReset(p))
          /\ \A x \in js.obs[p].subs : x \in Consumers \ S /\ w1.saw[x] = js.saw[x]
    <3>1. \A p \in Queries : ToReset(p)' <=> ToReset(p)  BY <1>1 DEF ToReset
    <3>2. \A p \in Queries : p # q => w1.obs[p] = js.obs[p]  BY <1>0, <2>1 DEF Joins
    <3>3. \A x \in Consumers : x # c => w1.saw[x] = js.saw[x]  BY <1>0, <2>1 DEF Joins
    <3> QED BY <1>3, <2>p, <3>1, <3>2, <3>3
  <2>5. w1.raw = js.raw  BY <2>1 DEF Joins, Alike
  <2>6. Asks(q, age)  BY <1>2, <1>5, <2>p
  <2> QED BY <1>1, <2>1, <2>2, <2>3, <2>4, <2>5, <2>6, FollowsBegins
<1> QED BY <1>4, <1>5

\* A consumer leaves.
LEMMA FollowsUnsubscribe ==
  ASSUME Wired, Stored, \A q \in Queries : Follows(q), NEW c \in Consumers, Unsubscribe(c)
  PROVE  \A p \in Queries : Follows(p)'
<1>p. PICK v, w, q : v = js' /\ w = js /\ q = js.at[c]  OBVIOUS
<1>0. Typed /\ js \in Page /\ w.obs \in [Queries -> Obs] /\ w.saw \in [Consumers -> Sights \cup {None}]
      /\ \A p \in Queries : w.obs[p] \in Obs /\ w.obs[p].age \in Nat
  BY <1>p DEF Wired, Typed, Page, Obs
<1>1. /\ kind' = kind /\ rows' = rows /\ batch' = batch /\ deferred' = deferred /\ spoiled' = spoiled
      /\ notify' = notify /\ sent' = sent /\ answers' = answers /\ notify.phase = "none"
  BY DEF Unsubscribe, work, channel, Calm
<1>2. q \in Queries /\ c \in w.obs[q].subs /\ Leaves(w, v, c, q)  BY <1>p, UnsubscribeIs
<1>3. v.raw = w.raw /\ (\A x \in Consumers : x # c => v.saw[x] = w.saw[x])
      /\ \A p \in Queries : p # q => v.obs[p] = w.obs[p]
  BY <1>0, <1>2 DEF Leaves, Alike
<1>4. \A p \in Queries : ~SourceUnheard(p) /\ ~ColumnsUnheard(p) /\ ~SourceUnheard(p)' /\ ~ColumnsUnheard(p)'
        /\ ~ToReset(p) /\ ~ToReset(p)'
  BY <1>1 DEF SourceUnheard, ColumnsUnheard, ToReset
<1>5. \A p \in Queries : v.obs[p].age = w.obs[p].age => (OnWay(p)' <=> OnWay(p))
  BY <1>p, <1>0, <1>1, AgedUnmoved
<1>6. ASSUME NEW p \in Queries, p # q PROVE Follows(p)'
  <2>1. \A x \in w.obs[p].subs : x \in Consumers /\ x # c  BY <1>p, <1>2, <1>6, SubsDisjoint
  <2>2. v.obs[p] = w.obs[p] /\ \A x \in w.obs[p].subs : v.saw[x] = w.saw[x]  BY <1>3, <1>6, <2>1
  <2>3. Elsewhere(p)  BY <1>p, <1>1, <1>3, <1>4, <1>5, <2>2 DEF Elsewhere
  <2> QED BY <2>3, FollowsElsewhere
<1>7. Follows(q)'
  <2>1. CASE w.obs[q].subs \ {c} = {}
    <3>1. v.obs[q] = Idle(w.obs[q].age + 1)  BY <1>0, <1>2, <2>1 DEF Leaves
    <3> QED BY <1>p, <1>2, <3>1, FollowsIdle
  <2>2. CASE w.obs[q].subs \ {c} # {}
    <3> DEFINE o == w.obs[q]
               new == v.obs[q]
    <3>1. new = [o EXCEPT !.subs = o.subs \ {c}]  BY <1>0, <1>2, <2>2 DEF Leaves
    <3>2. /\ new.subs = o.subs \ {c} /\ new.last = o.last /\ new.list = o.list /\ new.observed = o.observed
          /\ new.first = o.first /\ new.pending = o.pending /\ new.fetching = o.fetching /\ new.missed = o.missed
          /\ new.states = o.states /\ new.age = o.age /\ o.subs \subseteq Consumers
      BY <1>0, <1>2, <3>1 DEF Obs
    <3>3. \A x \in new.subs : x \in o.subs /\ v.saw[x] = w.saw[x]  BY <1>3, <3>2
    <3>k. (HasColumns(q)' <=> HasColumns(q)) /\ (IsSimple(q)' <=> IsSimple(q)) /\ Active(q)
      BY <1>p, <1>1, <1>2, SameKinds DEF Active
    <3>f. Emits(w, q) /\ Pends(q) /\ Fresh(q) /\ States(w, q) /\ Seen(w, q)  BY <1>p, <1>2 DEF Follows
    <3>w. OnWay(q)' <=> OnWay(q)  BY <1>2, <1>5, <3>2
    <3>a. \A r : ~Announced(q, r) /\ ~Announced(q, r)'  BY <1>2, <1>4 DEF Announced
    <3>4. Emits(js, q)'
      <4>1. o.list # None => \A x \in new.subs : /\ v.saw[x] # None /\ v.saw[x].list = o.list
                                                 /\ HasColumns(q) => DOMAIN v.saw[x].values = o.list
        BY <3>3, <3>f DEF Emits
      <4> QED BY <1>p, <3>2, <3>k, <3>f, <4>1 DEF Emits
    <3>5. Pends(q)'  BY <1>p, <1>2, <1>4, <3>2, <3>k, <3>f, <3>w DEF Pends
    <3>6. Fresh(q)'
      BY <1>p, <1>1, <1>2, <1>4, <3>2, <3>k, <3>f, <3>w, SameRows DEF Fresh, Pending
    <3>7. States(js, q)'  BY <1>p, <1>1, <1>3, <3>2, <3>k, <3>f, <3>a, SameRows DEF States
    <3>8. Seen(js, q)'
      <4> SUFFICES ASSUME HasColumns(q), ~o.pending, o.list # None, NEW x \in new.subs, NEW r \in o.list,
                          rows[r] # None, r \notin v.saw[x].early
                   PROVE  v.saw[x].values[r] = o.states[r]
        BY <1>p, <1>1, <3>2, <3>k DEF Seen
      <4> QED BY <3>3, <3>a, <3>f DEF Seen
    <3> QED BY <3>4, <3>5, <3>6, <3>7, <3>8 DEF Follows
  <2> QED BY <2>1, <2>2
<1> QED BY <1>6, <1>7

\* Raw SQL: the next query is subscribed to again.
LEMMA FollowsReset ==
  ASSUME Wired, Stored, \A q \in Queries : Follows(q), ResetObservables
  PROVE  \A p \in Queries : Follows(p)'
<1>0. Typed /\ js \in Page /\ js.obs \in [Queries -> Obs] /\ notify \in Notices
      /\ \A p \in Queries : js.obs[p] \in Obs /\ js.obs[p].age \in Nat
  BY DEF Wired, Typed, Page, Obs
<1>1. /\ kind' = kind /\ rows' = rows /\ batch' = batch /\ deferred' = deferred /\ spoiled' = spoiled
      /\ answers' = answers /\ notify.phase = "invalidate"
  BY DEF ResetObservables
<1>2. PICK q \in notify.todo :
        /\ q \in Queries
        /\ notify' = IF notify.todo = {q} THEN Silent ELSE [notify EXCEPT !.todo = @ \ {q}]
        /\ ~Active(q) => js' = js /\ sent' = sent
        /\ Active(q) => /\ Asks(q, js.obs[q].age + 1)
                        /\ \E w1, w2 \in Page : Restarts(js, w1, q) /\ Beginning(w1, w2, q) /\ Fetching(w2, js', q)
  BY ResetIs
<1>3. notify'.phase \in {"none", "invalidate"} /\ \A p \in Queries : p # q => (ToReset(p)' <=> ToReset(p))
  <2>1. CASE notify.todo = {q}
    <3>1. notify'.phase = "none"  BY <1>2, <2>1 DEF Silent
    <3> QED BY <2>1, <3>1 DEF ToReset
  <2>2. CASE notify.todo # {q}
    <3>1. notify'.phase = "invalidate" /\ notify'.todo = notify.todo \ {q}  BY <1>0, <1>1, <1>2, <2>2 DEF Notices
    <3> QED BY <1>1, <3>1 DEF ToReset
  <2> QED BY <2>1, <2>2
<1>4. CASE ~Active(q)
  <2>1. js' = js /\ sent' = sent  BY <1>2, <1>4
  <2>2. js'.obs[q] = Idle(js.obs[q].age)  BY <1>2, <1>4, <2>1 DEF Wired, Aged
  <2>3. Follows(q)'  BY <1>2, <2>2, FollowsIdle
  <2>4. ASSUME NEW p \in Queries, p # q PROVE Follows(p)'
    <3>1. ~SourceUnheard(p) /\ ~ColumnsUnheard(p) /\ ~SourceUnheard(p)' /\ ~ColumnsUnheard(p)'
      BY <1>1, <1>3 DEF SourceUnheard, ColumnsUnheard
    <3>2. OnWay(p)' <=> OnWay(p)  BY <1>0, <1>1, <2>1, AgedUnmoved
    <3>3. Elsewhere(p)  BY <1>1, <1>3, <2>1, <2>4, <3>1, <3>2 DEF Elsewhere
    <3> QED BY <3>3, FollowsElsewhere
  <2> QED BY <2>3, <2>4
<1>5. CASE Active(q)
  <2>p. PICK age, S : age = js.obs[q].age + 1 /\ S = js.obs[q].subs  OBVIOUS
  <2>1. PICK w1, w2 \in Page : Restarts(js, w1, q) /\ Beginning(w1, w2, q) /\ Fetching(w2, js', q)
    BY <1>2, <1>5
  <2>2. w1.obs[q] = Begun(age, S)  BY <1>0, <1>2, <2>1, <2>p DEF Restarts, Begun
  <2>3. \A p \in Queries : p # q =>
          /\ w1.obs[p] = js.obs[p] /\ (ToReset(p)' <=> ToReset(p))
          /\ \A x \in js.obs[p].subs : x \in Consumers \ S /\ w1.saw[x] = js.saw[x]
    <3>1. \A p \in Queries : p # q => w1.obs[p] = js.obs[p]  BY <1>0, <2>1 DEF Restarts
    <3>2. w1.saw = js.saw  BY <2>1 DEF Restarts
    <3>3. \A p \in Queries : p # q => \A x \in js.obs[p].subs : x \in Consumers \ S
      BY <1>2, <2>p, SubsDisjoint
    <3> QED BY <1>3, <3>1, <3>2, <3>3
  <2>4. w1.raw = js.raw  BY <2>1 DEF Restarts, Alike
  <2>5. Asks(q, age) /\ age \in Nat  BY <1>0, <1>2, <1>5, <2>p
  <2>6. notify.phase \notin {"db", "collection"} /\ notify'.phase \notin {"db", "collection"}  BY <1>1, <1>3
  <2> QED BY <1>1, <1>2, <2>1, <2>2, <2>3, <2>4, <2>5, <2>6, FollowsBegins
<1> QED BY <1>4, <1>5

\* At the start nobody follows anything.
LEMMA FollowsInit ==
  ASSUME Init
  PROVE  \A q \in Queries : Follows(q)
<1> SUFFICES ASSUME NEW q \in Queries PROVE Follows(q)  OBVIOUS
<1>1. js.obs[q] = Idle(0)  BY DEF Init
<1>2. /\ js.obs[q].subs = {} /\ js.obs[q].last = None /\ js.obs[q].list = None
      /\ js.obs[q].observed = {} /\ js.obs[q].first /\ ~js.obs[q].pending
      /\ \A r \in Records : js.obs[q].states[r] = None
  BY <1>1 DEF Idle
<1>3. ~Active(q)  BY <1>2 DEF Active
<1>4. Emits(js, q)  BY <1>2 DEF Emits
<1>5. Pends(q)  BY <1>2, <1>3 DEF Pends
<1>6. Fresh(q)  BY <1>3 DEF Fresh
<1>7. States(js, q) /\ Seen(js, q)  BY <1>2 DEF States, Seen
<1> QED BY <1>4, <1>5, <1>6, <1>7 DEF Follows

\* Every step keeps the observers with the database.
LEMMA FollowsStep ==
  ASSUME Wired, ~OnceAllowed, Stored, \A q \in Queries : Follows(q), [Next]_vars
  PROVE  \A q \in Queries : Follows(q)'
<1>1. CASE UNCHANGED vars
  <2>1. UNCHANGED <<kind, rows, batch, notify, deferred, sent, answers, js, spoiled>>
    BY <1>1 DEF vars, work, channel
  <2> SUFFICES ASSUME NEW p \in Queries PROVE Follows(p)'  OBVIOUS
  <2>2. OnWay(p)' <=> OnWay(p)  BY <2>1, AgedUnmoved DEF Wired
  <2>3. (SourceUnheard(p)' <=> SourceUnheard(p)) /\ (ColumnsUnheard(p)' <=> ColumnsUnheard(p))
        /\ (ToReset(p)' <=> ToReset(p))
    <3>1. Source(p)' = Source(p) /\ Columns(p)' = Columns(p)  BY DEF Source, Columns
    <3>2. IsSimple(p)' <=> IsSimple(p)  BY <2>1, SameKinds
    <3> QED BY <2>1, <3>1, <3>2 DEF SourceUnheard, ColumnsUnheard, ToReset, Unheard
  <2>4. Elsewhere(p)  BY <2>1, <2>2, <2>3 DEF Elsewhere
  <2> QED BY <2>4, FollowsElsewhere
<1>2. ASSUME NEW c \in Consumers, NEW q \in Queries, NEW once \in BOOLEAN, Subscribe(c, q, once)
      PROVE  \A p \in Queries : Follows(p)'
  BY <1>2, FollowsSubscribe
<1>3. ASSUME NEW c \in Consumers, Unsubscribe(c) PROVE \A p \in Queries : Follows(p)'  BY <1>3, FollowsUnsubscribe
<1>4. ASSUME NEW change \in Changes, Batch(change) PROVE \A p \in Queries : Follows(p)'  BY <1>4, FollowsBatch
<1>5. CASE BeginBatching \/ EndBatching  BY <1>5, FollowsBatching
<1>6. CASE Execute \/ ExecuteFails
  <2>1. sent # <<>>  BY <1>6 DEF Execute, ExecuteFails
  <2>2. Head(sent).do \in {"batch", "fetch"}  BY <2>1, FirstRequest
  <2> QED BY <1>6, <2>2, FollowsExecuteFetch, FollowsExecuteBatch, FollowsExecuteBatchFails
<1>7. CASE FetchAnswered  BY <1>7, FollowsFetchAnswered
<1>8. CASE BatchAnswered  BY <1>8, FollowsBatchAnswered
<1>9. CASE NotifyDatabase  BY <1>9, FollowsDatabaseEnds, FollowsDatabaseHeard
<1>10. CASE NotifyCollection  BY <1>10, FollowsCollectionEnds, FollowsCollectionHeard
<1>11. CASE ResetObservables  BY <1>11, FollowsReset
<1> QED BY <1>1, <1>2, <1>3, <1>4, <1>5, <1>6, <1>7, <1>8, <1>9, <1>10, <1>11 DEF Next

Followed == \A q \in Queries : Follows(q)
\* What the observers are told is in order in every reachable state.
LEMMA AlwaysFollowed ==
  ASSUME ~OnceAllowed
  PROVE  Spec => [](Wired /\ Stored /\ Followed)
<1>1. Init => Wired /\ Stored /\ Followed  BY WiredInit, StoredInit, FollowsInit DEF Followed
<1>2. Wired /\ Stored /\ Followed /\ [Next]_vars => (Wired /\ Stored /\ Followed)'
  <2> SUFFICES ASSUME Wired, Stored, Followed, [Next]_vars PROVE Wired' /\ Stored' /\ Followed'  OBVIOUS
  <2>1. Wired'  BY WiredStep
  <2>2. Stored'  BY StoredStep
  <2>3. \A q \in Queries : Follows(q)'  BY FollowsStep DEF Followed
  <2> QED BY <2>1, <2>2, <2>3 DEF Followed
<1> QED BY <1>1, <1>2, PTL DEF Spec

\* When nothing is under way, consumers have the records that match, and have
\* seen their values, in whichever order changes were committed and announced,
\* queries answered, consumers subscribed, and raw SQL executed.
THEOREM ObserversAreCurrent ==
  ASSUME ~OnceAllowed
  PROVE  Spec => []ConsumersAreCurrent
<1>1. Wired /\ Stored /\ Followed => ConsumersAreCurrent
  <2> SUFFICES ASSUME Wired, Stored, Followed, Quiet, NEW c \in Consumers, NEW q \in Queries,
                      js.at[c] = q, ~js.obs[q].missed
               PROVE  /\ js.saw[c] # None
                      /\ js.saw[c].list \ spoiled = Result \ spoiled
                      /\ HasColumns(q) =>
                           \A r \in (Result \ spoiled) \ js.saw[c].early : js.saw[c].values[r] = rows[r]
    BY DEF ConsumersAreCurrent
  <2>0. batch = None /\ notify.phase = "none" /\ deferred = None /\ sent = <<>> /\ answers = <<>>
    BY DEF Quiet
  <2>1. js.obs[q] \in Obs /\ Shown(js, q) /\ Follows(q)  BY DEF Wired, Typed, Page, Followed
  <2>2. c \in js.obs[q].subs /\ Active(q)  BY DEF Wired, Registered, Active
  <2>3. ~OnWay(q)
    <3>1. Ways = 0  BY <2>0 DEF Ways
    <3> QED BY <3>1 DEF OnWay
  <2>4. ~SourceUnheard(q) /\ ~ToReset(q) /\ \A r : ~Announced(q, r)
    BY <2>0 DEF SourceUnheard, ColumnsUnheard, ToReset, Announced
  <2>5. \A r : ~Under(r) /\ ~Committed(r) /\ ~Pending(q, r) /\ (Unannounced(r) => r \in spoiled)
    BY <2>0, <2>4 DEF Under, Committed, Pending, Unannounced
  <2>6. js.obs[q].list # None /\ \A r \in Records : r \notin spoiled => (r \in js.obs[q].list <=> Matches(r))
    BY <2>1, <2>2, <2>3, <2>4, <2>5 DEF Follows, Fresh
  <2>7. js.saw[c] # None /\ js.saw[c].list = js.obs[q].list  BY <2>1, <2>2, <2>6 DEF Follows, Emits
  <2>8. js.obs[q].list \in SUBSET Records  BY <2>1, <2>6 DEF Obs, Lists
  <2>9. js.obs[q].list \ spoiled = Result \ spoiled  BY <2>6, <2>8 DEF Result, Matches
  <2>10. ASSUME HasColumns(q), NEW r \in (Result \ spoiled) \ js.saw[c].early
         PROVE  js.saw[c].values[r] = rows[r]
    <3>1. r \in Records /\ r \in js.obs[q].list /\ rows[r] # None
      BY <2>9, NoneAssumption DEF Result, Matching
    <3>2. ~js.obs[q].pending  BY <2>1, <2>2, <2>3, <2>4, <2>10 DEF Follows, Pends
    <3>3. js.saw[c].values[r] = js.obs[q].states[r]  BY <2>1, <2>2, <2>4, <2>6, <2>10, <3>1, <3>2 DEF Follows, Seen
    <3>4. js.obs[q].states[r] # None  BY <2>1, <2>6, <2>10, <3>1 DEF Follows, Emits, Shown
    <3>5. js.obs[q].states[r] = js.raw[r]  BY <2>1, <2>4, <2>5, <2>10, <3>1, <3>4 DEF Follows, States
    <3>6. js.raw[r] = rows[r]  BY <2>5, <2>10, <3>1 DEF Stored, Models
    <3> QED BY <3>3, <3>5, <3>6
  <2> QED BY <2>7, <2>9, <2>10
<1> QED BY <1>1, AlwaysFollowed, PTL
=============================================================================
