------------------------------- MODULE MCSync -------------------------------
(***************************************************************************)
(* Instances of Sync for TLC.                                              *)
(***************************************************************************)
EXTENDS Sync, TLC

CONSTANTS a, b, title, body, first, second

OneRecord == {a}
TwoRecords == {a, b}
OneColumn == {title}
TwoColumns == {title, body}
SomeOrAll == SUBSET TwoColumns
OneOrAll == {{title}, {body}, TwoColumns}
AllOfOne == {OneColumn}
OneSync == {first}
TwoSyncs == {first, second}

\* For the runs that check no liveness.
Interchangeable == Permutations(TwoRecords) \cup Permutations(TwoColumns)
=============================================================================
