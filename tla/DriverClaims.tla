---------------------------- MODULE DriverClaims ----------------------------
(***************************************************************************)
(* What comments and docstrings of the repository say of resuming a phase  *)
(* and the code, as PhaseDriver models it, does not do.  No run checks     *)
(* them: the README tells the stories.                                     *)
(***************************************************************************)
EXTENDS MCPhaseDriver

\* "Remove a stale branch of the same name so re-runs are clean"
\* (Worktree.create): no task is queued behind a leftover of an earlier run.
RerunIsClean ==
    dpc = "pool" => \A t \in Task : wpc[t] = "queued" => t \notin wtree

\* "A Complete task with no commits and no explicit no-op marker is suspect and
\* held" (verify_result): it does not pass into a completed phase.
EmptyCompleteHeld ==
    phase = "Complete" => \A t \in Task : t \in base \cup noted

\* "RESUME must not override human judgment" (_resume_phase): a task a person
\* parked stays parked while the recovery pass is on.
ResumeKeepsDecisions ==
    [][dpc = "resume" =>
        \A t \in Task : status[t] = "Blocked" => status'[t] = "Blocked"]_<<vars, driverVars>>

\* "a claim observed at resume time is stale by definition: [...] agents are
\* synchronous children of the dead run" (_resume_phase).
ClaimsAreStale ==
    dpc = "resume" =>
        \A t \in todo : seen[t] \in {"Claimed", "InProgress"} => t \notin orphans
=============================================================================
