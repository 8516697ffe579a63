----------------------------- MODULE MCWorkQueue -----------------------------
(***************************************************************************)
(* Instances of WorkQueue for TLC: one reader and two or three writers.    *)
(***************************************************************************)
EXTENDS WorkQueue, TLC, FiniteSets

CONSTANTS r1, w1, w2, w3

OneAndTwo == {r1, w1, w2}
WritersOfTwo == {w1, w2}
OneAndThree == {r1, w1, w2, w3}
WritersOfThree == {w1, w2, w3}
=============================================================================
