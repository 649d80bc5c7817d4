----------------------------- MODULE WorkerPool -----------------------------
(***************************************************************************)
(* One ParallelScheduler.run() (scheduler/parallel_scheduler.py): the main *)
(* thread that fills slots, integrates results and lands branches, the     *)
(* executor's worker threads, the agents they spawn, the exclusive         *)
(* migration window (scheduler/migration_lock.py) that another thread may  *)
(* request at any moment, and what all of them share: the Work Tasks in    *)
(* the database and the branches and worktrees of one git repository.      *)
(*                                                                         *)
(* A region under _repo_lock is one action.  So is a run of main-thread    *)
(* code whose intermediate states no other thread can see.  A branch is    *)
(* the set of tasks whose work it contains.                                *)
(***************************************************************************)
EXTENDS Naturals, Sequences, FiniteSets

CONSTANTS
    Task,           \* Work Tasks of the phase, in identifier order
    BlockedBy,      \* [Task -> SUBSET Task], the blocked_by references
    Conflict,       \* pairs of units of work that do not merge textually
    Foreign,        \* work that sibling pools land on the same base branch
    MaxConcurrent,  \* ParallelSchedulerConfig.max_concurrent
    MaxRequests,    \* bound: how many migrations are requested
    AuthEnabled,    \* principal_auth_enabled: agents carry a one-time token
    Watchdog,       \* phase_no_progress_grace is set
    Faults,         \* which of AllFaults may happen
    FlagFails,      \* tasks for which raising needs_attention may fail
    Exits,          \* which of the protocol's step-0 exits agents take
    NoTask          \* no result is being integrated

AllFaults == {"worker",    \* worktree add or the read-back raises in a worker
              "main",      \* an unprotected read raises in the main thread
              "gate_read", \* the reconciliation gate cannot be read (fails closed)
              "withdraw"}  \* somebody else moves a Ready task to Blocked

ASSUME PoolAssumption ==
    /\ Task \subseteq Nat /\ IsFiniteSet(Task)
    /\ BlockedBy \in [Task -> SUBSET Task]
    /\ MaxConcurrent \in Nat \ {0}
    /\ MaxRequests \in Nat
    /\ AuthEnabled \in BOOLEAN /\ Watchdog \in BOOLEAN
    /\ Faults \subseteq AllFaults /\ FlagFails \subseteq Task
    /\ Exits \subseteq {"noop", "halt"}
    /\ NoTask \notin Task
    /\ Foreign \cap Task = {}

VARIABLES
    \* the database
    status,     \* work_task_status
    noted,      \* tasks whose notes carry the [NO-OP] marker
    flagged,    \* tasks a needs_attention flag was raised for
    revoked,    \* tasks whose agent token is revoked
    \* the repository
    base,       \* the work on the base branch
    tree,       \* tree[t]: the work on the branch of t
    incoming,   \* MERGE_HEAD of a conflicted refresh: the base it folds in
    wtree,      \* tasks with a registered worktree
    \* the migration lock
    window,     \* ExclusiveMigrationLock._phase
    requests,   \* migrations requested so far
    \* the main thread
    mpc,        \* where run() is
    chosen,     \* rest of `for tid in chosen` in _fill_slots
    cur,        \* the result _integrate works on
    active,     \* the `active` set of run()
    paused,     \* no new dispatch: a task did not succeed
    aborted,    \* an exception left run()
    green,      \* the tree the affected-test gate last passed for cur
    outcome,    \* report.task_reports
    \* the worker threads and their agents
    wpc,        \* where the worker of t is
    exit,       \* the step-0 exit the agent of t took
    verdict,    \* verify_result on what was read back for t
    completed   \* the completion queue

dbVars     == <<status, noted, flagged, revoked>>
gitVars    == <<base, tree, incoming, wtree>>
windowVars == <<window, requests>>
mainVars   == <<mpc, chosen, cur, active, paused, aborted, green, outcome>>
workVars   == <<wpc, exit, verdict, completed>>
vars       == <<dbVars, gitVars, windowVars, mainVars, workVars>>

Work == Task \cup Foreign

Statuses  == {"Ready", "Claimed", "InProgress", "Complete", "Blocked", "Failed"}
Verdicts  == {"none", "ok", "no_op", "no_commits", "not_complete", "error"}
Outcomes  == {"none", "succeeded", "failed", "needs_human"}
Failing   == {"failed", "needs_human"}
MainSteps == {"fill", "dispatch", "loop", "migrate", "retry", "retrying",
              "gate", "refresh", "regate", "resolve", "reresolved", "land",
              "refuse", "hold", "shutdown", "done"}
WorkSteps == {"idle", "queued", "agent", "revoke", "ended"}

TypeOK ==
    /\ status \in [Task -> Statuses]
    /\ noted \subseteq Task /\ flagged \subseteq Task /\ revoked \subseteq Task
    /\ base \subseteq Work /\ tree \in [Task -> SUBSET Work]
    /\ incoming \subseteq Work /\ wtree \subseteq Task
    /\ window \in {"open", "pending", "exclusive"} /\ requests \in 0..MaxRequests
    /\ mpc \in MainSteps /\ chosen \subseteq Task
    /\ cur \in Task \cup {NoTask} /\ active \subseteq Task
    /\ paused \in BOOLEAN /\ aborted \in BOOLEAN
    /\ green \subseteq Work /\ outcome \in [Task -> Outcomes]
    /\ wpc \in [Task -> WorkSteps] /\ exit \in [Task -> {"none", "noop", "halt"}]
    /\ verdict \in [Task -> Verdicts] /\ completed \in Seq(Task)

\* A pool starts on a store it can trust: whatever is Complete is on the base.
Init ==
    /\ status \in [Task -> {"Ready", "Complete"}]
    /\ noted = {} /\ flagged = {} /\ revoked = {}
    /\ base = {t \in Task : status[t] = "Complete"}
    /\ tree = [t \in Task |-> {}] /\ incoming = {} /\ wtree = {}
    /\ window = "open" /\ requests = 0
    /\ mpc = "fill" /\ chosen = {} /\ cur = NoTask /\ active = {}
    /\ paused = FALSE /\ aborted = FALSE
    /\ green = {} /\ outcome = [t \in Task |-> "none"]
    /\ wpc = [t \in Task |-> "idle"] /\ exit = [t \in Task |-> "none"]
    /\ verdict = [t \in Task |-> "none"] /\ completed = <<>>

-----------------------------------------------------------------------------
(* What the code reads and decides                                         *)

\* Mutations, here and below, are plausible bugs of the definition that follows
\* them; the properties are checked against them.
EnterOnPause(w, busy) == w = "pending"

VerifyStatusOnly(t) == IF status[t] = "Complete" THEN "ok" ELSE "not_complete"

DispatchAllowed(w) == w = "open"

CanEnterExclusive(w, busy) == w = "pending" /\ busy = {}

Eligible(t) ==
    /\ status[t] = "Ready"
    /\ \A b \in BlockedBy[t] : status[b] = "Complete"

VerifyResult(t) ==
    IF status[t] # "Complete" THEN "not_complete"
    ELSE IF t \in tree[t] THEN "ok"
    ELSE IF t \in noted THEN "no_op"
    ELSE "no_commits"

\* select_to_dispatch walks the candidates in identifier order; c joins if a
\* slot is left after the earlier ones and no blocker of c is in the pool.
SelectIgnoringBlockers(candidates, S) ==
    S = {c \in candidates \ active :
            Cardinality({d \in S : d < c}) < MaxConcurrent - Cardinality(active)}
SelectPastCap(candidates, S) ==
    S = {c \in candidates \ active : BlockedBy[c] \cap (active \cup S) = {}}

SelectToDispatch(candidates, S) ==
    S = {c \in candidates \ active :
            LET earlier == {d \in S : d < c}
            IN  /\ Cardinality(active) + Cardinality(earlier) < MaxConcurrent
                /\ BlockedBy[c] \cap (active \cup earlier) = {}}

\* git merge of `incoming work` into a branch of t: textual conflicts only.
Clashes(t, new) == \E u \in new : <<t, u>> \in Conflict \/ <<u, t>> \in Conflict

Live(t) == wpc[t] = "agent" \/ (mpc = "retrying" /\ cur = t)

\* The resolution agent of a conflicted refresh works on a branch as well.
AgentAt(t) == Live(t) \/ (mpc = "resolve" /\ cur = t)

\* _flag_needs_attention is best effort: it swallows a failed request, and does
\* nothing when no workstream owns the task.  The outcome is reported anyway.
Raised(S) == {flagged \cup R : R \in {Q \in SUBSET S : S \ Q \subseteq FlagFails}}

Authorised(t) == ~(AuthEnabled /\ t \in revoked)

-----------------------------------------------------------------------------
(* The main thread: filling slots                                          *)

Fill ==
    /\ mpc = "fill"
    /\ IF ~DispatchAllowed(window)
       THEN mpc' = "loop" /\ UNCHANGED chosen
       ELSE \E held \in IF "gate_read" \in Faults THEN SUBSET Task ELSE {{}},
               S \in SUBSET Task :
              /\ SelectToDispatch({t \in Task \ held : Eligible(t)}, S)
              /\ chosen' = S
              /\ mpc' = IF S = {} THEN "loop" ELSE "dispatch"
    /\ UNCHANGED <<dbVars, gitVars, windowVars, cur, active, paused, aborted,
                   green, outcome, workVars>>

NextChosen(t) == t \in chosen /\ \A u \in chosen : t <= u

AfterDispatch(t) ==
    /\ chosen' = chosen \ {t}
    /\ mpc' = IF chosen' = {} THEN "loop" ELSE "dispatch"
    /\ UNCHANGED <<dbVars, gitVars, windowVars, cur, paused, aborted, green,
                   outcome, exit, verdict, completed>>

Dispatch(t) ==
    /\ mpc = "dispatch" /\ NextChosen(t) /\ Eligible(t)
    /\ active' = active \cup {t}
    /\ wpc' = [wpc EXCEPT ![t] = "queued"]
    /\ AfterDispatch(t)

SkipLost(t) ==
    /\ mpc = "dispatch" /\ NextChosen(t) /\ ~Eligible(t)
    /\ AfterDispatch(t)
    /\ UNCHANGED <<active, wpc>>

\* An HTTP read or a token mint of _fill_slots, or the git diff that opens the
\* affected-test gate, raises: nothing in run() catches it.
Abort ==
    /\ "main" \in Faults
    /\ mpc \in {"fill", "dispatch", "gate", "regate", "reresolved"}
    /\ mpc' = "shutdown" /\ aborted' = TRUE /\ chosen' = {}
    /\ UNCHANGED <<dbVars, gitVars, windowVars, cur, active, paused, green,
                   outcome, workVars>>

-----------------------------------------------------------------------------
(* The main thread: the loop                                               *)

OpenWindow ==
    /\ mpc = "loop" /\ CanEnterExclusive(window, active)
    /\ window' = "exclusive" /\ mpc' = "migrate"
    /\ UNCHANGED <<dbVars, gitVars, requests, chosen, cur, active, paused,
                   aborted, green, outcome, workVars>>

\* Mutation of CloseWindow.
CloseWithoutRefill ==
    /\ mpc = "migrate"
    /\ window' = "open" /\ mpc' = "loop"
    /\ UNCHANGED <<dbVars, gitVars, requests, chosen, cur, active, paused,
                   aborted, green, outcome, workVars>>

\* Whether or not the migration raised, dispatch resumes.
CloseWindow ==
    /\ mpc = "migrate"
    /\ window' = "open" /\ mpc' = IF paused THEN "loop" ELSE "fill"
    /\ UNCHANGED <<dbVars, gitVars, requests, chosen, cur, active, paused,
                   aborted, green, outcome, workVars>>

AfterVerify(v) ==
    CASE v \in {"ok", "no_op"}                -> "gate"
      [] v \in {"not_complete", "no_commits"} -> "retry"
      [] OTHER                                -> "refuse"

\* The next result leaves the queue; an incomplete one loses its worktree
\* before its agent is spawned once more.
Collect ==
    /\ mpc = "loop" /\ ~CanEnterExclusive(window, active)
    /\ active # {} /\ completed # <<>>
    /\ cur' = Head(completed) /\ completed' = Tail(completed)
    /\ mpc' = AfterVerify(verdict[cur'])
    /\ wtree' = IF mpc' = "retry" THEN wtree \ {cur'} ELSE wtree
    /\ green' = {}
    /\ UNCHANGED <<dbVars, base, tree, incoming, windowVars, chosen, active,
                   paused, aborted, outcome, wpc, exit, verdict>>

\* Mutation of WatchdogHalt.
WatchdogForgets ==
    /\ Watchdog
    /\ mpc = "loop" /\ active # {} /\ completed = <<>> /\ ~paused
    /\ active' = {} /\ paused' = TRUE /\ mpc' = "shutdown"
    /\ UNCHANGED <<dbVars, gitVars, windowVars, chosen, cur, aborted, green,
                   outcome, workVars>>

\* No result for agent_timeout plus grace: every task in flight is reported
\* failed and the loop is left.
WatchdogHalt ==
    /\ Watchdog
    /\ mpc = "loop" /\ active # {} /\ completed = <<>> /\ ~paused
    /\ outcome' = [t \in Task |-> IF t \in active THEN "failed" ELSE outcome[t]]
    /\ flagged' \in Raised(active)
    /\ active' = {} /\ paused' = TRUE /\ mpc' = "shutdown"
    /\ UNCHANGED <<status, noted, revoked, gitVars, windowVars, chosen, cur,
                   aborted, green, workVars>>

\* Mutation of LeaveLoop.
LeaveWhenDrained ==
    /\ mpc = "loop" /\ active = {}
    /\ mpc' = "shutdown"
    /\ UNCHANGED <<dbVars, gitVars, windowVars, chosen, cur, active, paused,
                   aborted, green, outcome, workVars>>

LeaveLoop ==
    /\ mpc = "loop" /\ active = {} /\ window = "open"
    /\ mpc' = "shutdown"
    /\ UNCHANGED <<dbVars, gitVars, windowVars, chosen, cur, active, paused,
                   aborted, green, outcome, workVars>>

\* executor.shutdown(wait=True): queued work still starts, all of it ends.
Shutdown ==
    /\ mpc = "shutdown" /\ \A t \in Task : wpc[t] \in {"idle", "ended"}
    /\ mpc' = "done"
    /\ UNCHANGED <<dbVars, gitVars, windowVars, chosen, cur, active, paused,
                   aborted, green, outcome, workVars>>

-----------------------------------------------------------------------------
(* The main thread: integrating cur                                        *)

\* Worktree.create for the one retry: the old branch is deleted, the new one
\* forks from the base as it is now.  The assignment, and so the agent's
\* token, is the one of the first spawn.
RetrySpawn ==
    /\ mpc = "retry" /\ cur \notin wtree
    /\ tree' = [tree EXCEPT ![cur] = base] /\ wtree' = wtree \cup {cur}
    /\ exit' = [exit EXCEPT ![cur] = "none"]
    /\ mpc' = "retrying"
    /\ UNCHANGED <<dbVars, base, incoming, windowVars, chosen, cur, active,
                   paused, aborted, green, outcome, wpc, verdict, completed>>

RetryEnds ==
    /\ mpc = "retrying"
    /\ verdict' = [verdict EXCEPT ![cur] = VerifyResult(cur)]
    /\ mpc' = IF verdict'[cur] \in {"ok", "no_op"} THEN "gate" ELSE "refuse"
    /\ UNCHANGED <<dbVars, gitVars, windowVars, chosen, cur, active, paused,
                   aborted, green, outcome, wpc, exit, completed>>

RetryFails ==
    /\ "worker" \in Faults \/ (mpc = "retry" /\ cur \in wtree)
    /\ mpc \in {"retry", "retrying"}
    /\ verdict' = [verdict EXCEPT ![cur] = "error"]
    /\ wtree' \in {wtree, wtree \cup {cur}}
    /\ mpc' = "refuse"
    /\ UNCHANGED <<dbVars, base, tree, incoming, windowVars, chosen, cur, active, paused,
                   aborted, green, outcome, wpc, exit, completed>>

\* The affected-test gate, before the refresh and after a conflict-free one.
Gate ==
    /\ mpc \in {"gate", "regate"}
    /\ \/ /\ green' = tree[cur]
          /\ mpc' = IF mpc = "gate" THEN "refresh" ELSE "land"
       \/ mpc' = "refuse" /\ UNCHANGED green
    /\ UNCHANGED <<dbVars, gitVars, windowVars, chosen, cur, active, paused,
                   aborted, outcome, workVars>>

\* Mutation of Refresh.
RefreshWithoutRegate ==
    /\ mpc = "refresh"
    /\ tree' = [tree EXCEPT ![cur] = @ \cup base] /\ mpc' = "land"
    /\ UNCHANGED <<dbVars, base, incoming, wtree, windowVars, chosen, cur,
                   active, paused, aborted, green, outcome, workVars>>

\* refresh_from runs outside _repo_lock: siblings may land right after it.
Refresh ==
    /\ mpc = "refresh"
    /\ LET new == base \ tree[cur] IN
       \/ new = {} /\ mpc' = "land" /\ UNCHANGED <<tree, incoming>>
       \/ /\ new # {} /\ ~Clashes(cur, new)
          /\ tree' = [tree EXCEPT ![cur] = @ \cup base]
          /\ mpc' = "regate" /\ UNCHANGED incoming
       \/ /\ Clashes(cur, new)
          /\ incoming' = base /\ mpc' = "resolve" /\ UNCHANGED tree
    /\ UNCHANGED <<dbVars, base, wtree, windowVars, chosen, cur, active, paused,
                   aborted, green, outcome, workVars>>

\* The resolution agent concludes the merge, or drops it and leaves no trace
\* of it (which passes for a resolution), or leaves markers behind.
Resolve ==
    /\ mpc = "resolve"
    /\ \/ tree' = [tree EXCEPT ![cur] = @ \cup incoming] /\ mpc' = "reresolved"
       \/ mpc' = "reresolved" /\ UNCHANGED tree
       \/ mpc' = "hold" /\ UNCHANGED tree
    /\ incoming' = {}
    /\ UNCHANGED <<dbVars, base, wtree, windowVars, chosen, cur, active, paused,
                   aborted, green, outcome, workVars>>

\* A red gate after a resolution leaves the conflict to a human.
RegateResolved ==
    /\ mpc = "reresolved"
    /\ \/ green' = tree[cur] /\ mpc' = "land"
       \/ mpc' = "hold" /\ UNCHANGED green
    /\ UNCHANGED <<dbVars, gitVars, windowVars, chosen, cur, active, paused,
                   aborted, outcome, workVars>>

\* Mutation of Report.
ReportWithoutPause(result) ==
    /\ outcome' = [outcome EXCEPT ![cur] = result]
    /\ active' = active \ {cur} /\ cur' = NoTask
    /\ flagged' \in IF result = "succeeded" THEN {flagged} ELSE Raised({cur})
    /\ mpc' = "fill"
    /\ UNCHANGED <<status, noted, revoked, tree, incoming, windowVars, chosen,
                   paused, aborted, green, workVars>>

\* The report of cur: the task leaves `active`, the first that did not
\* succeed pauses dispatch, and a pool that is not paused fills its slots.
Report(result) ==
    /\ outcome' = [outcome EXCEPT ![cur] = result]
    /\ active' = active \ {cur} /\ cur' = NoTask
    /\ paused' = (paused \/ result # "succeeded")
    /\ flagged' \in IF result = "succeeded" THEN {flagged} ELSE Raised({cur})
    /\ mpc' = IF paused' THEN "loop" ELSE "fill"
    /\ UNCHANGED <<status, noted, revoked, tree, incoming, windowVars, chosen,
                   aborted, green, workVars>>

\* The landing merge, under _repo_lock; a conflict aborts it and leaves the
\* base as it was.
Land ==
    /\ mpc = "land"
    /\ wtree' = wtree \ {cur}
    /\ IF Clashes(cur, base \ tree[cur])
       THEN UNCHANGED base /\ Report("needs_human")
       ELSE base' = base \cup tree[cur] /\ Report("succeeded")

\* Mutation of Refuse.
RefuseQuietly ==
    /\ mpc = "refuse"
    /\ outcome' = [outcome EXCEPT ![cur] = "failed"]
    /\ active' = active \ {cur} /\ cur' = NoTask
    /\ paused' = TRUE /\ mpc' = "loop"
    /\ UNCHANGED <<dbVars, gitVars, windowVars, chosen, aborted, green, workVars>>
\* Verification or tests failed.  A worker that died has no worktree to hand
\* over, and whatever it had registered stays behind.
Refuse ==
    /\ mpc = "refuse"
    /\ wtree' = IF verdict[cur] = "error" THEN wtree ELSE wtree \ {cur}
    /\ UNCHANGED base
    /\ Report("failed")

Hold ==
    /\ mpc = "hold"
    /\ wtree' = wtree \ {cur}
    /\ UNCHANGED base
    /\ Report("needs_human")

-----------------------------------------------------------------------------
(* The workers and their agents                                            *)

MainUnchanged == UNCHANGED <<windowVars, mainVars>>

FreeThread == Cardinality({t \in Task : wpc[t] \in {"agent", "revoke"}}) < MaxConcurrent

\* Mutation of SpawnAgent: the branch is taken by force.
SpawnForced(t) ==
    /\ wpc[t] = "queued" /\ FreeThread
    /\ tree' = [tree EXCEPT ![t] = base] /\ wtree' = wtree \cup {t}
    /\ wpc' = [wpc EXCEPT ![t] = "agent"]
    /\ UNCHANGED <<dbVars, base, incoming, exit, verdict, completed>>
    /\ MainUnchanged

\* Worktree.create, then the agent.  A branch that is checked out in a
\* registered worktree is neither deleted nor created anew.
SpawnAgent(t) ==
    /\ wpc[t] = "queued" /\ FreeThread /\ t \notin wtree
    /\ tree' = [tree EXCEPT ![t] = base] /\ wtree' = wtree \cup {t}
    /\ wpc' = [wpc EXCEPT ![t] = "agent"]
    /\ UNCHANGED <<dbVars, base, incoming, exit, verdict, completed>>
    /\ MainUnchanged

\* The result goes on the queue before anything else can fail.
PutResult(t, v) ==
    /\ verdict' = [verdict EXCEPT ![t] = v]
    /\ completed' = Append(completed, t)
    /\ wpc' = [wpc EXCEPT ![t] = "revoke"]
    /\ UNCHANGED <<dbVars, base, tree, incoming, exit>>
    /\ MainUnchanged

\* Mutation of WorkerReports.
DieSilently(t) ==
    /\ wpc[t] = "agent"
    /\ wpc' = [wpc EXCEPT ![t] = "ended"]
    /\ UNCHANGED <<dbVars, gitVars, exit, verdict, completed>>
    /\ MainUnchanged

\* The agent exits or is killed at its deadline; what it did is read back.
WorkerReports(t) ==
    /\ wpc[t] = "agent"
    /\ UNCHANGED wtree
    /\ PutResult(t, VerifyResult(t))

\* Worktree.create raises (with or without a registered worktree), or the
\* read-back does.
WorkerErrors(t) ==
    /\ "worker" \in Faults \/ (wpc[t] = "queued" /\ t \in wtree)
    /\ \/ wpc[t] = "queued" /\ FreeThread
       \/ wpc[t] = "agent"
    /\ wtree' \in {wtree, wtree \cup {t}}
    /\ PutResult(t, "error")

\* After the put; best effort.
Revoke(t) ==
    /\ wpc[t] = "revoke"
    /\ wpc' = [wpc EXCEPT ![t] = "ended"]
    /\ \/ revoked' = IF AuthEnabled THEN revoked \cup {t} ELSE revoked
       \/ "worker" \in Faults /\ UNCHANGED revoked
    /\ UNCHANGED <<status, noted, flagged, gitVars, exit, verdict, completed>>
    /\ MainUnchanged

Worker(t) == SpawnAgent(t) \/ WorkerReports(t) \/ WorkerErrors(t) \/ Revoke(t)

AgentUnchanged == UNCHANGED <<revoked, base, incoming, wtree, wpc, verdict, completed>>

\* Claim, In Progress, Complete: each a request the API authenticates.
Advance(t) ==
    /\ exit[t] = "none" /\ Authorised(t) /\ status[t] \notin {"Complete", "Failed"}
    /\ status' = [status EXCEPT ![t] = CASE @ = "Ready"      -> "Claimed"
                                         [] @ = "InProgress" -> "Complete"
                                         [] OTHER            -> "InProgress"]
    /\ UNCHANGED <<noted, flagged, tree, exit>>
    /\ AgentUnchanged /\ MainUnchanged

Commit(t) ==
    /\ exit[t] = "none" /\ t \notin tree[t]
    /\ tree' = [tree EXCEPT ![t] = @ \cup {t}]
    /\ UNCHANGED <<status, noted, flagged, exit>>
    /\ AgentUnchanged /\ MainUnchanged

\* PATCH {notes: [NO-OP], status: Complete}: one transaction, refused as a
\* whole unless the status may move to Complete.
ExitNoOp(t) ==
    /\ "noop" \in Exits /\ exit[t] = "none"
    /\ exit' = [exit EXCEPT ![t] = "noop"]
    /\ IF Authorised(t) /\ status[t] \in {"InProgress", "Complete"}
       THEN noted' = noted \cup {t} /\ status' = [status EXCEPT ![t] = "Complete"]
       ELSE UNCHANGED <<noted, status>>
    /\ UNCHANGED <<flagged, tree>>
    /\ AgentUnchanged /\ MainUnchanged

\* PATCH {workstream_needs_attention: true} and exit, the task not Complete.
ExitHalt(t) ==
    /\ "halt" \in Exits /\ exit[t] = "none"
    /\ exit' = [exit EXCEPT ![t] = "halt"]
    /\ flagged' = IF Authorised(t) THEN flagged \cup {t} ELSE flagged
    /\ UNCHANGED <<status, noted, tree>>
    /\ AgentUnchanged /\ MainUnchanged

Agent(t) == Live(t) /\ (Advance(t) \/ Commit(t) \/ ExitNoOp(t) \/ ExitHalt(t))

-----------------------------------------------------------------------------
(* The rest of the world                                                   *)

\* request_migration, from another thread.
Request ==
    /\ window = "open" /\ mpc # "done" /\ requests < MaxRequests
    /\ window' = "pending" /\ requests' = requests + 1
    /\ UNCHANGED <<dbVars, gitVars, mainVars, workVars>>

\* A sibling pool of the same project lands a branch, under the same lock.
ForeignLands(u) ==
    /\ u \in Foreign \ base /\ mpc # "done"
    /\ base' = base \cup {u}
    /\ UNCHANGED <<dbVars, tree, incoming, wtree, windowVars, mainVars, workVars>>

Withdraw(t) ==
    /\ "withdraw" \in Faults /\ status[t] = "Ready"
    /\ status' = [status EXCEPT ![t] = "Blocked"]
    /\ UNCHANGED <<noted, flagged, revoked, gitVars, windowVars, mainVars, workVars>>

-----------------------------------------------------------------------------
Main ==
    \/ Fill \/ (\E t \in Task : Dispatch(t) \/ SkipLost(t)) \/ Abort
    \/ OpenWindow \/ CloseWindow \/ Collect \/ LeaveLoop \/ Shutdown
    \/ RetrySpawn \/ RetryEnds \/ RetryFails
    \/ Gate \/ Refresh \/ Resolve \/ RegateResolved \/ Land \/ Refuse \/ Hold

\* run() has returned; whatever else stops is a deadlock.
Returned == mpc = "done" /\ UNCHANGED vars

Next ==
    \/ Main \/ WatchdogHalt
    \/ \E t \in Task : Worker(t) \/ Agent(t) \/ Withdraw(t)
    \/ Request \/ \E u \in Foreign : ForeignLands(u)
    \/ Returned

Spec == Init /\ [][Next]_vars

\* The threads of the process are scheduled, and every agent ends: its
\* subprocess is killed at agent_timeout.
FairSpec == Spec /\ WF_vars(Main) /\ \A t \in Task : WF_vars(Worker(t))

-----------------------------------------------------------------------------
(* What the pool promises                                                  *)

\* The tasks whose dispatch is not yet over: queued or at work, waiting on the
\* queue, or under integration.
Inflight ==
    {t \in Task : wpc[t] \in {"queued", "agent"}}
        \cup {completed[i] : i \in 1..Len(completed)} \cup ({cur} \ {NoTask})

\* The pool and its window do what MigrationWindow promises.
Exclusion == INSTANCE MigrationWindow WITH inflight <- Inflight

PausesDrainsAndRuns == Exclusion!Spec

\* While a migration runs no agent lives, none can start, no result waits and
\* none is being integrated ("provably no concurrent writer",
\* migration_lock.py): the window tests `active`, a set the main thread keeps
\* by hand, not the threads themselves.
ExclusiveWindow ==
    window = "exclusive" =>
        /\ active = {} /\ chosen = {} /\ Inflight = {}
        /\ \A t \in Task : ~Live(t)

\* Never more agents at once than max_concurrent, the retry and the resolution
\* agent that the main thread runs itself included (the slot of the task they
\* work for is still occupied).
AgentCap == Cardinality({t \in Task : AgentAt(t)}) <= MaxConcurrent

\* An agent's branch holds the work of every blocker of its task, unless that
\* blocker was a no-op: select_to_dispatch keeps a dependent out while its
\* blocker is Complete in the database but not yet landed.
DependentsForkAfterBlockers ==
    \A t \in Task : Live(t) =>
        \A b \in BlockedBy[t] : b \in tree[t] \/ b \in noted

\* Work reported as not succeeded never reaches the base, and what is reported
\* as succeeded is there unless it was a no-op ("the base carries only whole,
\* verified merges", the end of run()).
OnlySucceededLands ==
    \A t \in Task :
        /\ outcome[t] \in {"failed", "needs_human"} => t \notin base
        /\ outcome[t] = "succeeded" => t \in base \/ t \in noted

\* A run that was not cut short reports every task it dispatched and nothing
\* else ("every dispatched task produces EXACTLY ONE result", _worker).
EveryDispatchReported ==
    mpc = "done" /\ ~aborted =>
        \A t \in Task : wpc[t] # "idle" <=> outcome[t] # "none"

\* A task is reported once in a run: neither a retry, nor the watchdog, nor a
\* second dispatch of a failed task reports it again.
ReportIsFinal ==
    [][\A t \in Task : outcome[t] # "none" => outcome'[t] = outcome[t]]_vars

\* When run() returns, a task that is Complete is on the base, or a no-op, or a
\* human was asked to look at it: work is never silently Complete and lost.
\* Where asking failed, the report that the run returns, and stops on, still
\* names the task as one that did not succeed.
CompleteIsAccounted ==
    mpc = "done" /\ ~aborted =>
        \A t \in Task : status[t] = "Complete" =>
            \/ t \in base \cup noted \cup flagged
            \/ t \in FlagFails /\ outcome[t] \in Failing /\ paused

\* A run that neither paused nor died leaves no eligible task behind, whatever
\* was held back while a migration was pending ("until no eligible work
\* remains and nothing is in flight", run()).
DrainLeavesNothing ==
    mpc = "done" /\ ~paused /\ ~aborted => \A t \in Task : ~Eligible(t)

\* What a landing merge puts on the base is, as a whole, what the affected-test
\* gate last passed ("the affected-test gate must hold again before landing",
\* _refresh_before_landing).
LandsOnlyTested ==
    [][mpc = "land" /\ mpc' # "land" /\ base' # base => base' = green]_vars

\* run() returns (the DEC-645 and REL-038 hangs).
RunEnds == <>(mpc = "done")

\* A migration requested while the loop runs gets its window: the loop stays
\* alive while one is outstanding (run(), PI-133).
MigrationRuns ==
    window = "pending" /\ mpc \notin {"shutdown", "done"} ~> window = "open"

-----------------------------------------------------------------------------
(* Why the window is exclusive: the invariant WorkerPool_proofs proves     *)

Integrating == {"retry", "retrying", "gate", "refresh", "regate", "resolve",
                "reresolved", "land", "refuse", "hold"}

\* What the main thread holds, by where it is.
Control ==
    /\ mpc \in Integrating => cur \in Task
    /\ mpc \in {"fill", "dispatch", "loop", "migrate"} => cur = NoTask
    /\ window = "exclusive" <=> mpc = "migrate"
    /\ mpc = "migrate" => active = {}
    /\ mpc # "dispatch" => chosen = {}
    /\ chosen \cap active = {}

\* The `active` set of run() covers the threads, the queue and the result in
\* hand as long as the loop runs, and a task is in one of these places only.
Slots ==
    /\ mpc \notin {"shutdown", "done"} => Inflight \subseteq active
    /\ cur # NoTask => wpc[cur] \in {"revoke", "ended"}
    /\ \A i \in 1..Len(completed) :
          /\ wpc[completed[i]] \in {"revoke", "ended"}
          /\ completed[i] # cur
          /\ \A j \in 1..Len(completed) : completed[i] = completed[j] => i = j

\* The bookkeeping of run() by hand agrees with what its threads do: types, the
\* main thread's position and the places a task can be in.
IInv == TypeOK /\ Control /\ Slots

-----------------------------------------------------------------------------
(* Why the reports can be believed: the invariant PoolLedger_proofs proves *)

Passed == {"ok", "no_op"}

\* What is read back before a landing is still so at the landing: Complete is
\* final in a run, and nobody takes a branch away whose result is in hand.
Verified ==
    /\ \A t \in Task : verdict[t] \in Passed =>
          status[t] = "Complete" /\ (t \in tree[t] \/ t \in noted)
    /\ \A t \in Task : wpc[t] = "queued" => verdict[t] \notin Passed
    /\ mpc \in {"gate", "refresh", "regate", "resolve", "reresolved", "land"} =>
          verdict[cur] \in Passed
    /\ mpc \in {"retry", "retrying"} => verdict[cur] \notin Passed

\* `active`, the threads and the report agree: what was dispatched is active
\* or reported, and what is reported is over.
Reported ==
    /\ \A t \in active : wpc[t] # "idle" /\ outcome[t] = "none"
    /\ \A t \in Task : outcome[t] # "none" => wpc[t] # "idle"
    /\ ~aborted => \A t \in Task : wpc[t] # "idle" => t \in active \/ outcome[t] # "none"
    /\ \A t \in Task : outcome[t] \in Failing => paused /\ t \in flagged \cup FlagFails
    /\ \A t \in Task : outcome[t] = "succeeded" =>
          status[t] = "Complete" /\ (t \in base \/ t \in noted)
    /\ mpc \in {"fill", "dispatch"} => ~paused
    /\ aborted => mpc \in {"shutdown", "done"}
    /\ mpc \in {"shutdown", "done"} /\ ~aborted => active = {}

\* A branch carries its own task's work and what the base has had, so a landing
\* adds to the base the one task it reports.
Landed ==
    /\ \A t \in Task : tree[t] \subseteq base \cup {t}
    /\ incoming \subseteq base
    /\ \A t \in base \cap Task :
          outcome[t] = "succeeded" \/ (wpc[t] = "idle" /\ status[t] = "Complete")

\* Complete work that this run did not dispatch is on the base, or was a no-op.
Accounted ==
    \A t \in Task : wpc[t] = "idle" /\ status[t] = "Complete" => t \in base \cup noted

\* What is chosen or dispatched has all its blockers' work on the base it
\* forks from.
Forked ==
    /\ \A t \in Task : t \in chosen \/ wpc[t] # "idle" => BlockedBy[t] \subseteq base \cup noted
    /\ \A t \in Task : Live(t) => BlockedBy[t] \subseteq tree[t] \cup noted

\* From the dispatch of what was chosen to the last landing no more than
\* max_concurrent tasks are active, and no more threads are busy.
Capped ==
    /\ Cardinality(active \cup chosen) <= MaxConcurrent
    /\ Cardinality({t \in Task : wpc[t] \in {"agent", "revoke"}}) <= MaxConcurrent

\* The bookkeeping of a run by hand agrees with the database and the branches.
Ledger == Verified /\ Reported /\ Landed /\ Accounted /\ Forked /\ Capped

\* Without sibling pools: what the gate passed is the branch, and the branch
\* has the whole base in it or will not merge.
Tested ==
    /\ mpc \in {"refresh", "land"} => green = tree[cur]
    /\ mpc = "regate" => base \subseteq tree[cur]
    /\ mpc = "resolve" => incoming = base /\ Clashes(cur, base \ tree[cur])
    /\ mpc \in {"reresolved", "land"} =>
          base \subseteq tree[cur] \/ Clashes(cur, base \ tree[cur])

\* Without withdrawn tasks and unreadable gates: a loop with nothing in flight
\* and nothing to wait for has looked at every task.
Drained ==
    /\ \A t \in chosen : Eligible(t)
    /\ mpc = "dispatch" => chosen # {}
    /\ mpc = "loop" /\ ~paused /\ active = {} /\ window = "open" =>
          \A t \in Task : ~Eligible(t)
    /\ mpc \in {"shutdown", "done"} /\ ~paused /\ ~aborted =>
          Inflight = {} /\ \A t \in Task : ~Eligible(t)
=============================================================================
