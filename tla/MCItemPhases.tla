---------------------------- MODULE MCItemPhases ----------------------------
(* One task of Design and of Test, two of Develop. *)
EXTENDS ItemPhases, TLC
CONSTANTS d, v, w, t
Phases == d :> "Design" @@ v :> "Develop" @@ w :> "Develop" @@ t :> "Test"
=============================================================================
