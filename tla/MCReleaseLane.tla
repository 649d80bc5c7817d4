--------------------------- MODULE MCReleaseLane ---------------------------
(***************************************************************************)
(* Instances of ReleaseLane for TLC.                                       *)
(***************************************************************************)
EXTENDS ReleaseLane, TLC

CONSTANTS r1, r2, d1, p1

OrderOfFirst == [r \in {r1, r2} |-> IF r = r1 THEN 2 ELSE NoOrder]
SomeEdits == {<<"order", r2>>, <<"delete", r1>>}
OneRework == [r \in {r1, r2} |-> 1]
SecondOnlyEnters ==
    [r \in {r1, r2} |-> IF r = r1 THEN Status
                        ELSE {"development", "cancelled"}]
SecondOrNone == {{}, {<<r2, r1>>}}
=============================================================================
