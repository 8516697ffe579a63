--------------------------- MODULE StatementCache ---------------------------
(***************************************************************************)
(* native/shared/StatementCache.h: the prepared statements of a connection,*)
(* at most `capacity` of them, the most recently used first.  A statement  *)
(* is named by its SQL.  The list lru_ is the sequence `lru`; the keys of  *)
(* map_ are the elements of the list.                                      *)
(***************************************************************************)
EXTENDS Naturals, Sequences

CONSTANTS
  kBaseCapacity,      \* before the schema is known; also headroom for the app
  kPerTableCapacity,  \* the library's own statements for a table
  kMaxCapacity

\* 100, 10 and 2000 in the code.  Mass destroys hold a statement while they
\* prepare two others.
ASSUME CapacityAssumption ==
  /\ kBaseCapacity \in Nat /\ kPerTableCapacity \in Nat /\ kMaxCapacity \in Nat
  /\ 3 <= kBaseCapacity /\ kBaseCapacity <= kMaxCapacity

CapacityForTables(tables) ==
  IF kBaseCapacity + kPerTableCapacity * tables < kMaxCapacity
  THEN kBaseCapacity + kPerTableCapacity * tables
  ELSE kMaxCapacity

Elements(lru) == {lru[i] : i \in 1..Len(lru)}

\* A hit: the entry at position p is spliced to the front.
Spliced(lru, p) ==
  [i \in 1..Len(lru) |->
     IF i = 1 THEN lru[p] ELSE IF i <= p THEN lru[i - 1] ELSE lru[i]]

\* evictDownTo: the entries that stay, and those finalized.
Kept(lru, size) == IF Len(lru) <= size THEN lru ELSE SubSeq(lru, 1, size)
Evicted(lru, size) == {lru[i] : i \in size + 1..Len(lru)}

\* The list after get(sql) and, on a miss, insert(sql).
Used(lru, sql, size) ==
  IF sql \in Elements(lru)
  THEN Spliced(lru, CHOOSE p \in 1..Len(lru) : lru[p] = sql)
  ELSE Kept(<<sql>> \o lru, size)

\* Fault: entries are evicted and not finalized.
DroppedNone(lru, sql, size) == {}
\* What that finalizes.
Dropped(lru, sql, size) ==
  IF sql \in Elements(lru) THEN {} ELSE Evicted(<<sql>> \o lru, size)
=============================================================================
