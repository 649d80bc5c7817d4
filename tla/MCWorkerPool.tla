---------------------------- MODULE MCWorkerPool ----------------------------
(* Instances of WorkerPool for TLC: small sets of tasks in identifier order. *)
EXTENDS WorkerPool

TwoTasks       == {1, 2}
FourTasks      == {1, 2, 3, 4}
Independent    == [t \in TwoTasks |-> {}]
Chain          == [t \in TwoTasks |-> IF t = 2 THEN {1} ELSE {}]
ChainAndTwo    == [t \in FourTasks |-> IF t = 2 THEN {1} ELSE {}]

\* Work that does not merge with each other.
OneAndTwo   == {<<1, 2>>}
OneAndThree == {<<1, 3>>}
TwoWithSibling == {<<1, 2>>, <<2, 11>>}
=============================================================================
