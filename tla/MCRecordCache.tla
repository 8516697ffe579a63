---------------------------- MODULE MCRecordCache ----------------------------
(***************************************************************************)
(* Instances of RecordCache for TLC: two records, interchangeable.         *)
(***************************************************************************)
EXTENDS RecordCache, TLC

CONSTANTS rec1, rec2

TwoRecords == {rec1, rec2}
Interchangeable == Permutations(TwoRecords)
=============================================================================
