--------------------------- MODULE MCProjectBuild ---------------------------
(* Two "pm" of one Project, each in its own clone, and one item driver.    *)
EXTENDS ProjectBuild, TLC
CONSTANTS p, q, a, here, there
TwoAndOne == p :> "pm" @@ q :> "pm" @@ a :> "ado"
Clones == p :> here @@ q :> there @@ a :> there
OneFirst == 1 :> {} @@ 2 :> {1}
=============================================================================
