--------------------------- MODULE MCPhaseDriver ---------------------------
(* Instances of PhaseDriver for TLC. *)
EXTENDS PhaseDriver

TwoTasks    == {1, 2}
Chain       == [t \in TwoTasks |-> IF t = 2 THEN {1} ELSE {}]
OneAndTwo   == {<<1, 2>>}
\* Work of a sibling pool that does not merge with that of task 1.
WithSibling == {<<1, 11>>}
=============================================================================
