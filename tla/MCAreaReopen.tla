---------------------------- MODULE MCAreaReopen ----------------------------
(* A spine of three areas; two tasks of the last and a specialist's third. *)
EXTENDS AreaReopen, TLC
CONSTANTS storage, access, ui, t1, t2, t3, c1, c2, x, y, k1, k2
Spine == storage :> 1 @@ access :> 2 @@ ui :> 3
Areas == t1 :> ui @@ t2 :> ui @@ t3 :> ui
Alike == Permutations({c1, c2}) \cup Permutations({x, y}) \cup Permutations({t1, t2})
    \cup Permutations({k1, k2})
=============================================================================
