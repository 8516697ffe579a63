------------------------ MODULE StatementCacheProofs ------------------------
(***************************************************************************)
(* What the operators of StatementCache compute, for caches of any size.   *)
(***************************************************************************)
EXTENDS StatementCache, SequenceTheorems, TLAPS

\* No statement is listed twice.
NoDuplicates(lru) == \A i, j \in 1..Len(lru) : lru[i] = lru[j] => i = j

\* The capacity stays within its bounds, whatever the number of tables.
LEMMA CapacityBounds ==
  ASSUME NEW tables \in Nat
  PROVE  CapacityForTables(tables) \in kBaseCapacity..kMaxCapacity
PROOF
  <1>1. kPerTableCapacity * tables \in Nat
    BY CapacityAssumption
  <1> QED  BY <1>1, CapacityAssumption DEF CapacityForTables

\* The elements of a list of statements are statements.
LEMMA ElementsOfSeq ==
  ASSUME NEW Sqls, NEW lru \in Seq(Sqls)
  PROVE  Elements(lru) \subseteq Sqls
BY DEF Elements

\* A hit moves one entry to the front and loses none.
LEMMA SplicedCache ==
  ASSUME NEW Sqls, NEW lru \in Seq(Sqls), NoDuplicates(lru), NEW p \in 1..Len(lru)
  PROVE  /\ Spliced(lru, p) \in Seq(Sqls)
         /\ Len(Spliced(lru, p)) = Len(lru)
         /\ Spliced(lru, p)[1] = lru[p]
         /\ p > 1 => Spliced(lru, p)[2] = lru[1]
         /\ Elements(Spliced(lru, p)) = Elements(lru)
         /\ NoDuplicates(Spliced(lru, p))
PROOF
  <1> DEFINE new == Spliced(lru, p)
             Before(i) == IF i = 1 THEN p ELSE IF i <= p THEN i - 1 ELSE i
  <1>1. \A i \in 1..Len(lru) : Before(i) \in 1..Len(lru) /\ new[i] = lru[Before(i)]
    BY DEF Spliced
  <1>2. new \in Seq(Sqls) /\ Len(new) = Len(lru)
    <2>1. new = [i \in 1..Len(lru) |-> lru[Before(i)]]
      BY DEF Spliced
    <2>2. \A i \in 1..Len(lru) : lru[Before(i)] \in Sqls
      BY <1>1
    <2>3. Len(lru) \in Nat
      OBVIOUS
    <2> QED  BY <2>1, <2>2, <2>3
  <1>3. \A i \in 1..Len(lru) : \E j \in 1..Len(lru) : Before(j) = i
    <2>1. ASSUME NEW i \in 1..Len(lru)
          PROVE  \E j \in 1..Len(lru) : Before(j) = i
      <3>1. CASE i = p
        BY <3>1
      <3>2. CASE i < p
        <4>1. i + 1 \in 1..Len(lru) /\ Before(i + 1) = i
          BY <3>2
        <4> QED  BY <4>1
      <3>3. CASE i > p
        <4>1. i \in 1..Len(lru) /\ Before(i) = i
          BY <3>3
        <4> QED  BY <4>1
      <3> QED  BY <3>1, <3>2, <3>3
    <2> QED  BY <2>1
  <1>4. \A i, j \in 1..Len(lru) : Before(i) = Before(j) => i = j
    OBVIOUS
  <1>5. Before(1) = p /\ (p > 1 => Before(2) = 1) /\ 1 \in 1..Len(lru) /\ (p > 1 => 2 \in 1..Len(lru))
    OBVIOUS
  <1> HIDE DEF Before, new
  <1>6. Elements(new) = Elements(lru)
    <2>1. ASSUME NEW sql
          PROVE  sql \in Elements(new) => sql \in Elements(lru)
      BY <1>1, <1>2 DEF Elements
    <2>2. ASSUME NEW sql, sql \in Elements(lru)
          PROVE  sql \in Elements(new)
      <3>1. PICK i \in 1..Len(lru) : lru[i] = sql
        BY <2>2 DEF Elements
      <3>2. PICK j \in 1..Len(lru) : Before(j) = i
        BY <1>3
      <3> QED  BY <1>1, <1>2, <3>1, <3>2 DEF Elements
    <2> QED  BY <2>1, <2>2
  <1>7. NoDuplicates(new)
    BY <1>1, <1>2, <1>4 DEF NoDuplicates
  <1> QED  BY <1>1, <1>2, <1>5, <1>6, <1>7 DEF new

\* evictDownTo keeps the most recently used entries.
LEMMA KeptCache ==
  ASSUME NEW Sqls, NEW lru \in Seq(Sqls), NoDuplicates(lru), NEW size \in Nat \ {0}
  PROVE  /\ Kept(lru, size) \in Seq(Sqls)
         /\ Len(Kept(lru, size)) <= size
         /\ Len(Kept(lru, size)) = IF Len(lru) <= size THEN Len(lru) ELSE size
         /\ \A i \in 1..Len(Kept(lru, size)) : Kept(lru, size)[i] = lru[i]
         /\ Elements(Kept(lru, size)) = Elements(lru) \ Evicted(lru, size)
         /\ NoDuplicates(Kept(lru, size))
PROOF
  <1> DEFINE new == Kept(lru, size)
             length == IF Len(lru) <= size THEN Len(lru) ELSE size
  <1>1. new \in Seq(Sqls) /\ Len(new) = length /\ \A i \in 1..length : new[i] = lru[i]
    <2>1. CASE Len(lru) <= size
      BY <2>1 DEF Kept
    <2>2. CASE ~(Len(lru) <= size)
      <3>1. new = SubSeq(lru, 1, size) /\ size \in 1..Len(lru)
        BY <2>2 DEF Kept
      <3> QED  BY <2>2, <3>1
    <2> QED  BY <2>1, <2>2
  <1>2. length \in Nat /\ length <= Len(lru) /\ length <= size
        /\ \A i \in 1..Len(lru) : i <= length \/ i \in size + 1..Len(lru)
    OBVIOUS
  <1>3. \A i \in 1..length : i \notin size + 1..Len(lru)
    BY <1>2
  <1> HIDE DEF new, length
  <1>4. ASSUME NEW sql \in Elements(new)
        PROVE  sql \in Elements(lru) /\ sql \notin Evicted(lru, size)
    <2>1. PICK i \in 1..length : lru[i] = sql
      BY <1>1 DEF Elements
    <2>2. i \in 1..Len(lru)
      BY <1>2
    <2>3. \A j \in size + 1..Len(lru) : lru[j] # sql
      <3>1. ASSUME NEW j \in size + 1..Len(lru), lru[j] = sql
            PROVE  FALSE
        <4>1. j \in 1..Len(lru)
          OBVIOUS
        <4>2. i = j
          BY <2>1, <2>2, <3>1, <4>1 DEF NoDuplicates
        <4> QED  BY <1>3, <4>2
      <3> QED  BY <3>1
    <2> QED  BY <2>1, <2>2, <2>3 DEF Elements, Evicted
  <1>5. ASSUME NEW sql \in Elements(lru), sql \notin Evicted(lru, size)
        PROVE  sql \in Elements(new)
    <2>1. PICK i \in 1..Len(lru) : lru[i] = sql
      BY DEF Elements
    <2>2. i <= length
      BY <1>2, <1>5, <2>1 DEF Evicted
    <2>3. i \in 1..length
      BY <1>2, <2>2
    <2> QED  BY <1>1, <2>1, <2>3 DEF Elements
  <1>6. NoDuplicates(new)
    BY <1>1, <1>2 DEF NoDuplicates
  <1>7. Elements(new) = Elements(lru) \ Evicted(lru, size)
    BY <1>4, <1>5
  <1> QED  BY <1>1, <1>2, <1>6, <1>7 DEF new, length

\* Preparing a statement puts it first, keeps the one before it next to it,
\* lists nothing twice, and finalizes just what it no longer lists.
LEMMA UsedCache ==
  ASSUME NEW Sqls, NEW lru \in Seq(Sqls), NoDuplicates(lru),
         NEW size \in Nat, 2 <= size, Len(lru) <= size, NEW sql \in Sqls
  PROVE  /\ Used(lru, sql, size) \in Seq(Sqls)
         /\ NoDuplicates(Used(lru, sql, size))
         /\ 1 <= Len(Used(lru, sql, size)) /\ Len(Used(lru, sql, size)) <= size
         /\ Used(lru, sql, size)[1] = sql
         /\ lru # <<>> /\ lru[1] # sql => /\ 2 <= Len(Used(lru, sql, size))
                                          /\ Used(lru, sql, size)[2] = lru[1]
         /\ Elements(Used(lru, sql, size)) = (Elements(lru) \cup {sql}) \ Dropped(lru, sql, size)
PROOF
  <1>1. CASE sql \in Elements(lru)
    <2> DEFINE p == CHOOSE i \in 1..Len(lru) : lru[i] = sql
    <2>1. p \in 1..Len(lru) /\ lru[p] = sql
      BY <1>1 DEF Elements
    <2>2. Used(lru, sql, size) = Spliced(lru, p) /\ Dropped(lru, sql, size) = {}
      BY <1>1 DEF Used, Dropped
    <2>3. lru[1] # sql => p > 1
      BY <2>1
    <2> HIDE DEF p
    <2> DEFINE new == Spliced(lru, p)
    <2>4. /\ new \in Seq(Sqls) /\ NoDuplicates(new) /\ Len(new) = Len(lru) /\ new[1] = sql
          /\ p > 1 => new[2] = lru[1]
          /\ Elements(new) = Elements(lru)
      BY <2>1, SplicedCache
    <2> HIDE DEF new
    <2>5. Elements(new) = (Elements(lru) \cup {sql}) \ {}
      BY <1>1, <2>4
    <2>6. Used(lru, sql, size) = new /\ Dropped(lru, sql, size) = {}
      BY <2>2 DEF new
    <2>7. 1 <= Len(lru) /\ (p > 1 => 2 <= Len(lru)) /\ Len(lru) \in Nat
      BY <2>1
    <2> QED  BY <2>3, <2>4, <2>5, <2>6, <2>7
  <1>2. CASE sql \notin Elements(lru)
    <2> DEFINE new == <<sql>> \o lru
    <2>1. /\ new \in Seq(Sqls) /\ Len(new) = Len(lru) + 1 /\ new[1] = sql
          /\ \A i \in 2..Len(new) : new[i] = lru[i - 1]
      <3>1. <<sql>> \in Seq(Sqls) /\ Len(<<sql>>) = 1 /\ <<sql>>[1] = sql
        OBVIOUS
      <3> QED  BY <3>1, ConcatProperties
    <2>2. Used(lru, sql, size) = Kept(new, size) /\ Dropped(lru, sql, size) = Evicted(new, size)
      BY <1>2 DEF Used, Dropped
    <2>3. \A i \in 1..Len(lru) : lru[i] # sql
      BY <1>2 DEF Elements
    <2> HIDE DEF new
    <2>4. NoDuplicates(new)
      <3>1. ASSUME NEW i \in 1..Len(new), NEW j \in 1..Len(new), new[i] = new[j], i # j
            PROVE  FALSE
        <4>1. CASE i = 1
          BY <2>1, <2>3, <3>1, <4>1
        <4>2. CASE j = 1
          BY <2>1, <2>3, <3>1, <4>2
        <4>3. CASE i # 1 /\ j # 1
          <5>1. i - 1 \in 1..Len(lru) /\ j - 1 \in 1..Len(lru) /\ lru[i - 1] = lru[j - 1]
            BY <2>1, <3>1, <4>3
          <5> QED  BY <3>1, <5>1 DEF NoDuplicates
        <4> QED  BY <4>1, <4>2, <4>3
      <3> QED  BY <3>1 DEF NoDuplicates
    <2>5. Elements(new) = Elements(lru) \cup {sql}
      <3>1. ASSUME NEW s \in Elements(new)
            PROVE  s \in Elements(lru) \cup {sql}
        <4>1. PICK i \in 1..Len(new) : new[i] = s
          BY DEF Elements
        <4>2. i # 1 => i - 1 \in 1..Len(lru) /\ lru[i - 1] = s
          BY <2>1, <4>1
        <4> QED  BY <2>1, <4>1, <4>2 DEF Elements
      <3>2. ASSUME NEW s \in Elements(lru) \cup {sql}
            PROVE  s \in Elements(new)
        <4>1. CASE s = sql
          <5>1. 1 \in 1..Len(new) /\ new[1] = s
            BY <2>1, <4>1
          <5> QED  BY <5>1 DEF Elements
        <4>2. CASE s # sql
          <5>1. PICK i \in 1..Len(lru) : lru[i] = s
            BY <4>2 DEF Elements
          <5>2. i + 1 \in 1..Len(new) /\ new[i + 1] = s
            BY <2>1, <5>1
          <5> QED  BY <5>2 DEF Elements
        <4> QED  BY <4>1, <4>2
      <3> QED  BY <3>1, <3>2
    <2>6. size \in Nat \ {0}
      OBVIOUS
    <2>7. lru # <<>> => Len(lru) >= 1
      OBVIOUS
    <2>8. /\ Len(Kept(new, size)) >= 1 /\ (lru # <<>> => Len(Kept(new, size)) >= 2)
          /\ \A i \in 1..Len(Kept(new, size)) : Kept(new, size)[i] = new[i]
      BY <2>1, <2>4, <2>6, <2>7, KeptCache
    <2>9. lru # <<>> => Kept(new, size)[2] = lru[1]
      BY <2>1, <2>7, <2>8
    <2>10. Kept(new, size)[1] = sql
      BY <2>1, <2>8
    <2> QED  BY <2>1, <2>2, <2>4, <2>5, <2>6, <2>8, <2>9, <2>10, KeptCache
  <1> QED  BY <1>1, <1>2
=============================================================================
