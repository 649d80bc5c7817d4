----------------------------- MODULE LaneClaims -----------------------------
(***************************************************************************)
(* What the repository says of the release lane and the code does not do.  *)
(***************************************************************************)
EXTENDS MCReleaseLane

\* "A rework bounce-back to development invalidates the release-level QA/test
\* passes - re-QA and re-test are required on the way back up" (releases.py,
\* transition): what ships was judged by both after its last rework.  The gate
\* runner of the scheduler judges outside any session, and stamps whatever is in
\* the stage when it has finished.
ReworkIsRejudged ==
    overwrites = 0 =>
        \A r \in Release :
            status[r] = "shipped" => qa[r] = work[r] /\ test[r] = work[r]
=============================================================================
