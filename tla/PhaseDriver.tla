----------------------------- MODULE PhaseDriver -----------------------------
(***************************************************************************)
(* One phase of a Planning Item under AdoScheduler                         *)
(* (scheduler/ado_scheduler.py): it is started, its Work Tasks are run by  *)
(* a pool (WorkerPool, a new one each time), and it is completed; when the *)
(* run dies or pauses somebody launches it again and RESUME recovers it    *)
(* from the recorded states of its tasks and the branches of the           *)
(* repository.                                                             *)
(*                                                                         *)
(* A crash loses the process: the pool's queue, threads and report.  The   *)
(* database, the branches and the registered worktrees survive it, and so  *)
(* may the agents, which are processes of their own.                       *)
(***************************************************************************)
EXTENDS WorkerPool

CONSTANTS
    MaxLaunches,   \* bound: runs of the driver
    MaxCrashes,    \* bound: crashes
    OrphansLive    \* agents may survive a crash

ASSUME DriverAssumption ==
    /\ MaxLaunches \in Nat /\ MaxCrashes \in Nat
    /\ OrphansLive \in BOOLEAN

VARIABLES
    phase,     \* workstream_status
    dpc,       \* where AdoScheduler.run() is; "stopped" when no run is on
    todo,      \* rest of the recovery pass of _resume_phase
    seen,      \* the task rows it read
    residue,   \* Complete tasks whose branch it found unmerged
    orphans,   \* tasks whose agent outlived its run
    launches, crashes

driverVars == <<phase, dpc, todo, seen, residue, orphans, launches, crashes>>

\* Types.
DriverTypeOK ==
    /\ TypeOK
    /\ phase \in {"Ready", "InProgress", "Complete"}
    /\ dpc \in {"stopped", "decide", "resume", "pool", "done"}
    /\ todo \subseteq Task /\ seen \in [Task -> Statuses] /\ residue \subseteq Task
    /\ orphans \subseteq Task
    /\ launches \in 0..MaxLaunches /\ crashes \in 0..MaxCrashes

DriverInit ==
    /\ Init
    /\ phase = "Ready" /\ dpc = "stopped"
    /\ todo = {} /\ seen = status /\ residue = {} /\ orphans = {}
    /\ launches = 0 /\ crashes = 0

\* run_pool_for_workstream: a new scheduler, a new executor, an empty queue.
NewPool ==
    /\ dpc' = "pool"
    /\ mpc' = "fill" /\ chosen' = {} /\ cur' = NoTask /\ active' = {}
    /\ paused' = FALSE /\ aborted' = FALSE
    /\ green' = {} /\ outcome' = [t \in Task |-> "none"]
    /\ wpc' = [t \in Task |-> "idle"] /\ exit' = [t \in Task |-> "none"]
    /\ verdict' = [t \in Task |-> "none"] /\ completed' = <<>>
    /\ window' = "open"
    /\ UNCHANGED <<noted, flagged, revoked, gitVars, requests>>

PoolUnchanged == UNCHANGED <<gitVars, windowVars, mainVars, workVars>>

Stop == dpc' = "stopped"

Launch ==
    /\ dpc = "stopped" /\ launches < MaxLaunches
    /\ dpc' = "decide" /\ launches' = launches + 1
    /\ UNCHANGED <<dbVars, phase, todo, seen, residue, orphans, crashes>>
    /\ PoolUnchanged

\* decide_next: a needs_attention flag stops everything; then the phase.
Decide ==
    /\ dpc = "decide"
    /\ UNCHANGED <<status, orphans, launches, crashes>>
    /\ \/ /\ flagged # {} /\ Stop
          /\ UNCHANGED <<dbVars, phase, todo, seen, residue>> /\ PoolUnchanged
       \/ /\ flagged = {} /\ phase = "Ready"
          /\ phase' = "InProgress" /\ NewPool
          /\ UNCHANGED <<todo, seen, residue>>
       \/ /\ flagged = {} /\ phase = "InProgress"
          /\ dpc' = "resume" /\ todo' = Task /\ seen' = status /\ residue' = {}
          /\ UNCHANGED <<dbVars, phase>> /\ PoolUnchanged
       \/ /\ flagged = {} /\ phase = "Complete" /\ dpc' = "done"
          /\ UNCHANGED <<dbVars, phase, todo, seen, residue>> /\ PoolUnchanged

-----------------------------------------------------------------------------
(* RESUME                                                                  *)

\* WORK_TASK_STATUS_TRANSITIONS, for the two targets RESUME patches to.
MoveFreely(from, to) == TRUE
MayMove(from, to) ==
    \/ from = to
    \/ to = "Ready"  /\ from \in {"Claimed", "Blocked", "Failed"}
    \/ to = "Failed" /\ from \in {"Ready", "Claimed", "InProgress"}

\* task_branch_unmerged: the branch carries a commit the base does not.
NeverUnmerged(t) == FALSE
Unmerged(t) == t \in tree[t] /\ t \notin base

\* PATCH t to `to`; a refused transition raises out of run().
Patch(t, to, rest) ==
    IF MayMove(status[t], to)
    THEN status' = [status EXCEPT ![t] = to] /\ rest
    ELSE Stop /\ UNCHANGED <<status, todo, seen, residue>>

\* One row of the recovery pass.  A row read In Progress takes two requests,
\* to Failed and then to Ready: in between it is a Failed row.
Recover(t) ==
    /\ dpc = "resume" /\ t \in todo /\ \A u \in todo : t <= u
    /\ LET next == todo' = todo \ {t} /\ UNCHANGED <<seen, dpc>> IN
       \/ /\ seen[t] = "Complete" /\ next
          /\ residue' = IF Unmerged(t) THEN residue \cup {t} ELSE residue
          /\ UNCHANGED status
       \/ seen[t] \in {"Blocked", "Ready"} /\ next /\ UNCHANGED <<status, residue>>
       \/ /\ seen[t] = "InProgress"
          /\ Patch(t, "Failed", /\ seen' = [seen EXCEPT ![t] = "Failed"]
                                /\ UNCHANGED <<todo, residue, dpc>>)
       \/ /\ seen[t] \in {"Claimed", "Failed"}
          /\ Patch(t, "Ready", next /\ UNCHANGED residue)
    /\ UNCHANGED <<noted, flagged, revoked, phase, orphans, launches, crashes>>
    /\ PoolUnchanged

ResumeDecides ==
    /\ dpc = "resume" /\ todo = {}
    /\ \/ /\ residue # {} \/ \E t \in Task : seen[t] = "Blocked"
          /\ Stop /\ UNCHANGED <<dbVars, phase>> /\ PoolUnchanged
       \/ /\ residue = {} /\ \A t \in Task : seen[t] = "Complete"
          /\ phase' = "Complete" /\ dpc' = "decide"
          /\ UNCHANGED dbVars /\ PoolUnchanged
       \/ /\ residue = {} /\ \A t \in Task : seen[t] # "Blocked"
          /\ \E t \in Task : seen[t] # "Complete"
          /\ NewPool /\ UNCHANGED <<status, phase>>
    /\ UNCHANGED <<todo, seen, residue, orphans, launches, crashes>>

-----------------------------------------------------------------------------
(* The pool of the phase and what follows it                               *)

PoolStep ==
    /\ dpc = "pool" /\ mpc # "done"
    /\ Next
    /\ UNCHANGED driverVars

\* Mutation of PoolReturns.
CompleteWithoutCheck ==
    /\ dpc = "pool" /\ mpc = "done"
    /\ IF paused \/ aborted
       THEN Stop /\ UNCHANGED phase
       ELSE phase' = "Complete" /\ dpc' = "decide"
    /\ UNCHANGED <<dbVars, todo, seen, residue, orphans, launches, crashes>>
    /\ PoolUnchanged

\* A paused or dead pool stops the driver; otherwise complete-phase, which is
\* refused (409) unless every task is Complete.
PoolReturns ==
    /\ dpc = "pool" /\ mpc = "done"
    /\ IF ~paused /\ ~aborted /\ phase = "InProgress"
              /\ \A t \in Task : status[t] = "Complete"
       THEN phase' = "Complete" /\ dpc' = "decide"
       ELSE Stop /\ UNCHANGED phase
    /\ UNCHANGED <<dbVars, todo, seen, residue, orphans, launches, crashes>>
    /\ PoolUnchanged

-----------------------------------------------------------------------------
(* The rest of the world                                                   *)

\* The process is gone.  What it had registered with git stays registered.
Crash ==
    /\ dpc \in {"decide", "resume", "pool"} /\ crashes < MaxCrashes
    /\ Stop /\ crashes' = crashes + 1
    /\ orphans' = IF OrphansLive /\ dpc = "pool"
                  THEN orphans \cup {t \in Task : Live(t) /\ exit[t] = "none"}
                  ELSE orphans
    /\ mpc' = "done" /\ wpc' = [t \in Task |-> "idle"]
    /\ exit' = [t \in Task |-> "none"]
    /\ UNCHANGED <<dbVars, gitVars, windowVars, chosen, cur, active, paused, aborted,
                   green, outcome, verdict, completed, phase, todo, seen, residue,
                   launches>>

OrphanActs(t) ==
    /\ t \in orphans
    /\ Advance(t) \/ Commit(t)
    /\ UNCHANGED driverVars

OrphanEnds(t) ==
    /\ t \in orphans /\ orphans' = orphans \ {t}
    /\ UNCHANGED <<dbVars, phase, dpc, todo, seen, residue, launches, crashes>>
    /\ PoolUnchanged

\* A person parks a task, also while the recovery pass is under way.
Park(t) ==
    /\ "withdraw" \in Faults /\ dpc # "pool" /\ phase = "InProgress"
    /\ status[t] \in {"Ready", "Claimed", "InProgress"}
    /\ status' = [status EXCEPT ![t] = "Blocked"]
    /\ UNCHANGED <<noted, flagged, revoked, driverVars>>
    /\ PoolUnchanged

\* Between two launches a person looks at what was flagged and clears the flag...
HumanClears ==
    /\ dpc = "stopped" /\ flagged # {} /\ flagged' = {}
    /\ UNCHANGED <<status, noted, revoked, driverVars>>
    /\ PoolUnchanged

\* ... and unparks a task, removes a dead agent's worktree or merges a branch.
HumanTidies ==
    /\ dpc = "stopped" /\ phase = "InProgress" /\ launches \in 1..(MaxLaunches - 1)
    /\ UNCHANGED <<noted, flagged, revoked, tree, incoming, windowVars, mainVars,
                   workVars, driverVars>>
    /\ \E t \in Task :
          \/ /\ status[t] = "Blocked" /\ status' = [status EXCEPT ![t] = "Ready"]
             /\ UNCHANGED <<base, wtree>>
          \/ /\ t \in wtree \ orphans /\ wtree' = wtree \ {t}
             /\ UNCHANGED <<base, status>>
          \/ /\ status[t] = "Complete" /\ Unmerged(t) /\ base' = base \cup tree[t]
             /\ UNCHANGED <<wtree, status>>

\* Nobody launches the driver again.
Rest ==
    /\ dpc = "done" \/ (dpc = "stopped" /\ launches = MaxLaunches)
    /\ UNCHANGED <<vars, driverVars>>

DriverNext ==
    \/ Launch \/ Decide \/ ResumeDecides \/ PoolStep \/ PoolReturns
    \/ Crash \/ Rest
    \/ \E t \in Task : Recover(t) \/ OrphanActs(t) \/ OrphanEnds(t) \/ Park(t)
    \/ HumanClears \/ HumanTidies

DriverSpec == DriverInit /\ [][DriverNext]_<<vars, driverVars>>

-----------------------------------------------------------------------------
(* What a phase promises across its runs                                   *)

\* A phase is Complete only over finished tasks whose commits are all on the
\* base, however often it crashed and was resumed: RESUME's residue guard and
\* the pool's own accounting leave no committed work behind.
NoCommittedWorkLost ==
    phase = "Complete" =>
        \A t \in Task : status[t] = "Complete" /\ ~(t \in tree[t] /\ t \notin base)

\* An agent starts from a base that has everything its blockers committed, in
\* the first run and in every later one.
ForksHaveBlockersWork ==
    dpc = "pool" =>
        \A t \in Task : Live(t) =>
            \A b \in BlockedBy[t] : b \in tree[b] => b \in tree[t]

\* A task never has two agents at work at once, the one an earlier run left
\* behind included: the worktree that agent sits in keeps its branch from being
\* taken again.
OneAgentPerTask ==
    dpc = "pool" => \A t \in orphans : ~Live(t)

\* A task that is Complete stays Complete: neither the recovery pass, which
\* rewinds rows by what it read of them, nor an agent left over from a dead run
\* takes the completion back.
CompleteIsFinal ==
    [][\A t \in Task : status[t] = "Complete" => status'[t] = "Complete"]_<<vars, driverVars>>

-----------------------------------------------------------------------------
(* Why the phase keeps its promises: what PhaseDriver_proofs proves        *)

\* A run's own bookkeeping is right while its pool is on; a crash leaves it as
\* it was, and a new pool starts it afresh.
DriverInv == DriverTypeOK /\ (dpc = "pool" => IInv)

\* An agent sits in a registered worktree, in this run and after its death, and
\* a worker that runs into one it has not made itself reports an error.
Held ==
    /\ orphans \subseteq wtree
    /\ dpc = "pool" =>
        /\ \A t \in Task : Live(t) => t \in wtree
        /\ \A t \in orphans :
              \/ wpc[t] \in {"idle", "queued"}
              \/ wpc[t] \in {"revoke", "ended"} /\ verdict[t] = "error"
        /\ mpc \in Integrating \ {"refuse"} => cur \notin orphans

\* Complete work nothing in this run will touch again: it was so before the
\* run, or the run has landed it.
Settled(t) == status[t] = "Complete" /\ (wpc[t] = "idle" \/ outcome[t] = "succeeded")

\* Settled work is on the base, and nothing is chosen, dispatched or forked
\* before its blockers are settled.
SettledFirst ==
    /\ \A t \in Task : outcome[t] = "succeeded" => wpc[t] \in {"revoke", "ended"}
    /\ \A t \in Task : Settled(t) => ~Unmerged(t)
    /\ \A t \in Task : t \in chosen \/ wpc[t] # "idle" => \A b \in BlockedBy[t] : Settled(b)
    /\ \A t \in Task : Live(t) => \A b \in BlockedBy[t] : b \in tree[b] => b \in tree[t]

\* If agents die with their run: RESUME's guard sees every branch a dead run
\* left unmerged, so a pool starts on work that is settled, and so does the end
\* of the phase.
Resumed ==
    /\ orphans = {}
    /\ dpc \in {"resume", "pool"} => phase = "InProgress"
    /\ phase = "Ready" => \A t \in Task : tree[t] = {}
    /\ NoCommittedWorkLost
    /\ dpc = "resume" => \A t \in Task :
          /\ seen[t] = "Complete" <=> status[t] = "Complete"
          /\ seen[t] = "Complete" => t \in todo \cup residue \/ ~Unmerged(t)
    /\ dpc = "pool" => Verified /\ Reported /\ SettledFirst
=============================================================================
