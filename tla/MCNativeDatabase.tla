-------------------------- MODULE MCNativeDatabase --------------------------
(***************************************************************************)
(* Instances of NativeDatabase for TLC: two records, a cache of three or   *)
(* four statements.                                                        *)
(***************************************************************************)
EXTENDS NativeDatabase

CONSTANTS rec1, rec2

TwoRecords == {rec1, rec2}

Do(kind, id) == [do |-> kind, id |-> id]
\* One record created; two; one replaced, then another removed; created and
\* removed at once; changed and removed.
SomeBatches ==
  UNION {{<<Do("create", i)>>,
          <<Do("create", i), Do("create", j)>>,
          <<Do("create", i), Do("destroy", i)>>,
          <<Do("destroy", i), Do("create", i)>>,
          <<Do("update", i), Do("destroy", j)>>} :
         i \in TwoRecords, j \in TwoRecords} \ {<<Do("create", i), Do("create", i)>> : i \in TwoRecords}

Rec(id, value) == [id |-> id, value |-> value]
SomeJsons ==
  {<<Rec(i, v), Rec(j, w)>> : i \in TwoRecords, j \in TwoRecords,
                              v \in {"right", "wrong"}, w \in {"missing"}}
=============================================================================
