--------------------------- MODULE MCObservation ---------------------------
(* Observation with one query of any kind, or with two of different kinds. *)
EXTENDS Observation, TLC

CONSTANTS q1, q2

OneQuery == {q1}
EachKind == [OneQuery -> Kinds]

Symmetric == Permutations(Records) \cup Permutations(Consumers)

TwoQueries == {q1, q2}
TwoKinds == {[q \in TwoQueries |-> IF q = q1 THEN "simple" ELSE "simpleColumns"]}
=============================================================================
