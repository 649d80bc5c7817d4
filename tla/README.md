# CRM Builder: a verification project for its runtimes

CRM Builder keeps the design of a CRM system as records, plans its own development as records too, and drives that
development with agents: the *ADO runtime* takes a Planning Item, splits it into phases, runs the Work Tasks of each
phase in parallel git worktrees, verifies what the agents did and merges it. Projects are driven item by item under a
lease, and releases of several Projects go through an exclusive development lane. Those runtimes are concurrent, long
running and crash prone, and they decide what reaches the base branch and what ships. Another runtime builds the CRM
systems themselves: deploy workers claim queued runs and take them through checkpointed phases. These are the core
logic modelled here. Paths below are relative to `src/crmbuilder-v2/src/crmbuilder_v2/` unless they start with `src/`.

## 1. Inventory

| Component | State it keeps | Operations | What is hard | What makes it correct |
|---|---|---|---|---|
| Parallel pool `scheduler/parallel_scheduler.py` | `active` set, completion queue, `paused`, thread pool, one report per task | fill slots, spawn, collect, retry once, gate, refresh, resolve conflict, land, pause, watchdog, shut down | threads against the main loop; stale eligibility; a Complete task not yet landed; dying workers | one result and one report per dispatch; nothing unverified lands; dependents fork after their blockers; the run ends |
| Migration lock `scheduler/migration_lock.py` | phase open / pending / exclusive | request (any thread), maybe_run (main thread) | request races dispatch and drain | the migration runs alone, and does run |
| Per-task runtime `scheduler/coordinating_scheduler.py` | branches, worktrees, the merge in progress | create / remove worktree, verify_result, affected-test gate, merge, flag | partial git failures, leftovers of dead runs | verified by result only; base untouched by a failed merge |
| Agents (operating protocol, same file) | none of their own; write task rows, notes, commits | no-op exit, halt exit, claim, commit, Complete | killed at any point, exits at step 0 | exits are honoured |
| Agent tokens `scheduler/agent_identity.py` | minted / revoked tokens | mint, revoke | revoked by another thread than the one that respawns | a live agent can authenticate |
| Phase driver `scheduler/ado_scheduler.py` | none in memory that survives; phase and task rows | decide_next, start, resume, complete, reconcile | crash anywhere; rows read, then patched later; agents that outlive the run | a completed phase lost no commit |
| Project scheduler and lease `scheduler/ado_scheduler.py`, `access/repositories/projects.py` | claimant and lease time | claim, heartbeat, release; parallel Planning Items | expiry against a slow runtime; errors swallowed | one runtime per project |
| Working-copy lock `scheduler/repo_build_lock.py` | OS file lock | acquire, release | process death | one driver per checkout |
| Task store `access/repositories/work_tasks.py`, `lead.py`, `access/vocab.py` | status, claimant, notes | patch, claim, release, start / complete phase | two writers of a row | only legal transitions |
| Items `access/repositories/pm.py`, `decomposition.py`, `scoping.py`, `planning_items.py`, `workstreams.py` | item, phase and task rows | backlog, dispatch, decompose, scope, approve, park, resume | people act between any two requests of a driver | an item goes to review whole, and does |
| Reconciliation `scheduler/reconciliation.py` | findings | develop_gate | unreadable gate, finding raised late | no Develop work over an open blocking finding |
| Resource locks `access/locks.py`, `scheduler/sub_agent_locks.py` | active lock rows | acquire_many, verify, reclaim | read-then-insert, all or nothing | one holder per resource |
| Release lane `access/repositories/releases.py`, `scheduler/release_scheduler.py`, `release_monitor.py`, `release_gate.py` | release rows, stamps, sign-offs, run records | transition, abandon, stamp, sign off, order, delete; the scheduler's loop; arbitration | transactions that read before another's commit; verdicts that arrive late; two ways to retire | one release in the lane; what ships was judged and approved as it is |
| Planning half of a release `access/release_orchestration.py`, `freeze.py` | plans, area designs | freeze, author demands, plan | resume after failure of a stage | stages in order, gated |
| Reopen and dev lane `access/reopen.py`, `coordination.py` | reopened areas, area owners | reopen, refreeze, revalidate, claim guard | a sequence of reopen and claim; a reopen beside a ship | no work on thawing ground; one owner per area |
| Deploy runs `deploy/worker.py`, `segments/operate/repositories/deploy_runs.py`, `deploy/runner.py` | status, worker, heartbeat, checkpoint | create, claim, heartbeat, phases, cancel, retry with a corrected address | workers that die, reclaim, checkpoints against remote effects, address changes over retries | one worker and one server per run; succeeded means built at this address; every run lands |
| Publishing `publish/run.py`, `publish/service.py` | the live CRM | ordered steps | failure midway | the report matches what was applied |
| Record repositories, API, UI, MCP | design and governance rows | one transaction per request | little | validated writes |
| Legacy tools `src/automation`, `src/espo_impl` | work-item graph, live CRM | graph functions, configuration deploys | little | superseded |

How they interact. The project scheduler takes the Project's lease and runs one phase driver per Planning Item, several
at a time on threads that share one repository lock; a person may run a driver on one item, and so does the release
scheduler for the items of the release in the lane. The driver runs one pool per phase, synchronously. The pool's
threads create worktrees under the repository lock and block on agent subprocesses; agents write to the store over HTTP
and commit in their worktree; each thread puts one result on a queue; the pool's main thread takes them one at a time
and is the only one that lands a branch. A migration is requested from any thread and run by the main thread. Nothing of
the drivers or the pool is persisted: after a crash only the store, the branches and the registered worktrees are left.
The store is PostgreSQL at its default isolation; requests read rows and write them back without locking them, so a
check may be overtaken by another's commit. `ReleaseLane`, `AreaReopen`, the lease of `ProjectBuild` and the requests
and checkpoints of `DeployRuns` model that.

## 2. Plan

In order of importance. Done:

1. `MigrationWindow`: abstract pause, drain, run, resume; `WorkerPool` implements it; proofs.
2. `PhaseDriver` (contains the pool): start, crash, resume and completion of one phase.
3. `ItemPhases`: the three phases of an item, the gate, reconciliation, both lanes, people; proofs.
4. `ProjectBuild`: the lease, the working-copy lock and who drives which item; proofs.
5. `ReleaseLane`: the development lane, its gates, schedulers and monitor; proofs.
6. `AreaReopen`: area ownership, reopen and revalidation; proofs.
7. `DeployRuns`: claims, heartbeats, checkpointed phases, cancel and retry, with requests and checkpoints that
   interleave between their read and their write; proofs.

Left, in order:

8. `PoolWatchdog`: the pool's loop with a clock; `last_progress` is taken before a long integration.
9. The planning half of a release (freeze, demands, plan, area designs) in front of `ReleaseLane`.
10. `ResourceLocks`, once something acquires them; `PublishRun`; the graph functions of `src/automation/workflow` as
    operators against a reference definition.

Every safety invariant and action property of the runs that pass is proved (section 5). Theorems left: abstract
specifications of the lane (one slot, entered and left), of a phase over its runs and of a deploy run (queued, building,
landed), with the proof that `ReleaseLane`, `PhaseDriver` and `DeployRuns` implement them.

## 3. The models

### MigrationWindow

Two variables: the window and the set of tasks in flight. `Start` and `Integrate` change the set unless the window is
exclusive; `Request`, `Enter` (only with nothing in flight) and `Leave` move the window. Work may start while the
window is merely pending, because the code tests the window before it reads its candidates.

### WorkerPool

One `ParallelCoordinatingScheduler.run()`.

| State | Code |
|---|---|
| `status`, `noted`, `flagged`, `revoked` | task rows, `[NO-OP]` notes, `needs_attention` raised for a task, revoked tokens |
| `base`, `tree`, `incoming`, `wtree` | the base branch, the branch of each task, MERGE_HEAD of a conflicted refresh, registered worktrees |
| `window`, `requests` | `ExclusiveMigrationLock._phase`; the bound on requests |
| `mpc`, `chosen`, `cur`, `active`, `paused`, `aborted`, `green`, `outcome` | the main thread: where it is, its loop variables, the tree its gate last passed, the report |
| `wpc`, `exit`, `verdict`, `completed` | each worker thread, the exit its agent took, `verify_result` of what was read back, the queue |

A branch is the set of tasks whose work it contains, so a merge is a union and a textual conflict a relation
`Conflict`. What runs under `_repo_lock` is one action, and so is main-thread code nothing else can observe. Reading
the window, choosing, and dispatching each chosen task are separate, because agents and requests come in between; so
are gate, refresh and landing. Workers put their result and revoke their token in two steps. Agents may do any part of
their protocol in any order that the store accepts, and may be killed after any part. `Faults` names what may fail:
workers, unprotected main-thread reads, the reading of the reconciliation gate, a person withdrawing a task. Raising
`needs_attention` is best effort (`_flag_needs_attention` swallows an error and a missing Workstream): for the tasks in
`FlagFails` it may fail (`Raised`), and then only the report and the paused run say that the task did not land.

Left out: the optional resource-lock calls, findings and events (written, never read here), supervision of the API
process, the content lane, cost capture. The affected-test gate is a free choice between green and red.

### PhaseDriver

`AdoScheduler` on one phase, extending the pool: `phase`, where the driver is (`dpc`), the rows and remaining work of a
recovery pass (`seen`, `todo`, `residue`) and agents that outlived a run (`orphans`). `Decide` is `decide_next`;
`Recover` takes one row with its one or two PATCHes as separate steps; `ResumeDecides` is the end of `_resume_phase`;
`PoolStep` is any step of the pool; `Crash` can happen at any step and wipes what was in memory. Between launches
people clear flags, unpark tasks, remove worktrees, merge branches; they may park a task at any time. A Develop gate
that holds stops the driver without a change and is not distinguished from not launching it.

### ItemPhases

One Planning Item from dispatch to In Review, over the records; a pool is what it does to the rows.

| State | Code |
|---|---|
| `item`, `mode`, `content` | its status, `execution_mode` with `dispatch_approved`, the content or software lane |
| `phase`, `parked`, `flag` | Workstream status, Blocked (and where it goes back to), `workstream_needs_attention` |
| `task`, `unmerged` | Work Task status, Complete tasks whose branch is not on the base |
| `finding` | the blocking finding of the item: none, open, referred or resolved |
| `pc`, `ws`, `opening`, `tries` | `AdoScheduler.run`: where it is, the phase in hand, START or RESUME, scoping attempts |
| `cleared`, `working`, `paused` | the pool: tasks the gate let through, agents at work, paused by a failure |
| `stale`, `reviewed`, `skipped` | history: cleared before a finding was raised; Design was reconciled; or passed over without |

`Decide` is `decide_next`; `Scope`/`Scoped` the Architect and the check of its result; `Gate`, `Start`, `Resume` and
`CompletePhase` the driver's requests; `AskGate`, `Hand`, `AgentEnds` and `PoolReturns` the pool. `Intervene` is what
people do unasked (park, add a task, raise a finding, take the item back, shelve, cancel), `People` what they are asked
for (clear, merge, unpark, settle, approve).

Abstractions: Claimed and In Progress are one status; the recovery pass is one action, since `PhaseDriver` has it
request by request; there is one blocking finding at a time; tasks are not added to terminal phases. The release's
`assert_developable`, the phase budget and agents that outlive a crash are left out.

### ProjectBuild

The processes that build one Project. `"pm"` is `ProjectScheduler`, `"ado"` the command line for one item, `"lane"` the
release lane's runner.

| State | Code |
|---|---|
| `holder`, `fresh` | `project_claimed_by`, whether `project_claimed_at` is younger than `stale_seconds`; `Gone` is a dead holder |
| `item` | status of the Planning Items |
| `rpc`, `batch`, `attempted` | where each driver is in `run()`, the batch in hand, the items of this run |
| `work` | the item drivers on its threads |
| `beat` | a heartbeat has read the row and not written it yet |
| `late` | history: open claims and releases beside which another's claim was committed, or that found a lapsed lease |
| `overtaken` | history: drivers whose claim was replaced or cleared under them |

A claim is `ClaimReads`, then `ClaimCommits`; a release `Leave`, then `ReleaseCommits`; a heartbeat `HeartbeatReads`,
then `HeartbeatCommits`. None locks the row, so a commit writes its columns whoever has claimed since. A request of a
process that dies is carried out before that, or never; only a heartbeat may outlive its run, and one is open at a time.
A forced release, which clears whatever claim there is, is one step. A copy's lock is held while the process is not
idle. An item driver is dispatched, works and ends well, paused or with an exception: `ItemPhases` has the inside.
`Lapse` is time passing without a heartbeat: free for a dead holder, a fault for a live one. People resolve what is in
review, or what is theirs to do, and cancel anything; release gates on dispatch are left out.

### ReleaseLane

Releases from ready to shipped or retired, the schedulers that drive them and the people who call the same operations.

| State | Code |
|---|---|
| `status`, `deleted`, `order`, `blockedBy`, `qa`, `test` | the release row, its `blocked_by` edges, its two pass stamps |
| `approval`, `items`, `runs`, `plans` | the fresh ship sign-off, its Planning Items, its `release_run` record, its decomposition |
| `txn` | the transaction each client has open: what it read and will write |
| `drives`, `step`, `look` | `ReleaseScheduler`: its release, its place in the loop, what its gate runner is judging |
| `work`, `ran`, `overtaken`, `overwrites` | history: reworks, releases that ran, verdicts overtaken, writes over others' changes |

A stamp keeps which rework it judged, which is how `JudgedWork` can tell an old pass from a new one. `Open` is the
checks of a request and `Commit` its writes: the columns it read with a value, the unique index refusing a second
release in the lane (`IndexRefuses`). Any scheduler may die anywhere.

Abstractions: a release starts ready; the planning items of a release move together; correction releases are a constant;
`_complete_delivered_projects` is left out (it changes no release); people leave deleted releases alone. `overwrites`
counts commits over a row that changed since it was read; properties about one row's history are stated for histories
without any, since a lost update can defeat any check (single occupancy is not: the index holds there too).

### AreaReopen

The areas of the release in the lane: `claimant` of each Work Task, the rows of `area_reopens` (`reopens`) and the
transactions in between, as in `ReleaseLane`. `Begin` is the checks of a claim, a reopen, a revalidation or a ship,
`Do...` the commit. Four variables remember checks that another commit overtook, and which: `crossed` an open claim
beside which another of its area was committed, `raced` the task it then claimed, `thawed` an open claim and the very
row of a reopen committed beside it, `missed` a reopen that a ship's check could not see; `passed` is every validation
that was committed. Left out: task statuses, edits of a claimed task's area or stamp, and the approval tier
of a reopen, which is an input.

### DeployRuns

The rows of the deploy-run table, the workers and the world they change.

| State | Code |
|---|---|
| `status`, `holder`, `beat`, `domain`, `ckpt` | `deploy_run_status`, `_worker_id`, `_heartbeat_at` (none, fresh or stale), the address in `_spec`, `_state` |
| `asked` | the address a create request found free before it inserts |
| `req` | the open request of each connection to cancel or retry a run, with the row as it read it |
| `read` | the checkpoint that a worker's open `set_phase` has read |
| `wrun`, `wpc`, `at`, `spec`, `mem`, `upd`, `out`, `end` | a worker inside `run_deploy`: its run, where it is, the phase, the address it read, `run.state`, what the phase returned and its outcome, the status it will land |
| `beating` | its heartbeat thread |
| `servers`, `site`, `cert`, `wiped` | servers with the run's tag, the addresses the CRM and its certificate are for, an installer run over a recorded CRM |
| `registered`, `instUrl`, `instItems` | instances the run registered, the address and open items of the last |

One action is one transaction or one remote operation: `Check`, `Mark`, a phase body, `Save` and again `Check`, so that
requests, crashes and other workers come between any two. `_mark` merges into the row and reads it back into
`run.state`; skipping uses that copy, cancelling reads the row. The claim is one
conditional UPDATE. `request_cancel`, `requeue` and `set_phase` read the row and write it back later, and nothing locks
it in between: each is a read (`AskCancel`, `AskRetry`, `ReadRow`) and a commit (`Cancel`, `Requeue`, `Mark` or `Save`)
of what it computed from that read. `overwritten` remembers a commit over a change it had not read. The heartbeat, the
log and `finish` are one step, because they write a time or a status that does not depend on what they read; creation
is `AskCreate`, then `Create`. Phases are
modelled by what they read from and leave in the checkpoint and the world. DNS, remote failures, verification gaps and
the certificate job's outcome are free choices. `Drop` stands for a worker that dies and for an exception outside a
phase, which the worker loop logs, leaving the run `running`; a log append that fails outside a phase is such an
exception, one inside it fails the phase. `Requeue` with another address models a retry with a
body; a body that does not change the address only adds a refusal. Each run has a deployment of its own.

## 4. What is checked

Pool, driver, item and area runs check deadlock: a run that returned stutters in `Returned` (pool) or `Rest` (driver),
anything else that stops is an error. Deploy runs, releases and Projects do come to rest, when everything has landed.

| Run | Instance | Shows |
|---|---|---|
| `pool_safety` | tasks 1, 2 blocked by 1, 3 in conflict with 1, 4 free; two threads; one migration | `ExclusiveWindow`, `DependentsForkAfterBlockers`, `CompleteIsAccounted`, `DrainLeavesNothing`, `AgentCap`, `LandsOnlyTested`, and `PausesDrainsAndRuns`: the pool implements MigrationWindow |
| `pool_faults` | two conflicting tasks and a sibling pool's in conflict with one, one migration, tokens, watchdog, failing workers, main-thread reads, gate reads and flags | `IInv` (the proofs' invariant), `OnlySucceededLands`, `EveryDispatchReported`, `ReportIsFinal` |
| `pool_liveness` | a chain of two, two migrations, failing workers, withdrawn tasks, halting agents | `RunEnds`, `MigrationRuns` |
| `phase_resume` | a chain of two and a conflicting sibling, three launches, two crashes, flags that fail | `NoCommittedWorkLost`, `ForksHaveBlockersWork` |
| `phase_orphans` | the same with agents that survive a crash | `OneAgentPerTask`, `CompleteIsFinal` |
| `item_phases` | one task of Design and of Test, two of Develop; two faults or interventions | `DesignIsReviewed`, `DevelopIsGated`, `DeliveredWhole`, `ItemIsDelivered` |
| `project_build` | two `"pm"` in two clones, an `"ado"` in one of them, a chain of two items, batches of two, two faults | `LeaseInv` (the proofs' invariant), `OneRuntime`, `StartedAfterBlockers`, `EligibleIsDriven` |
| `release_lane` | two releases, one possibly blocked by the other, a scheduler, a person, one rework each, one overwrite, an edit | `OneInLane`, `JudgedWork`, `EvidenceKept`, `BlockersFirst`, `MonitorAgreesWithGate` |
| `area_reopen` | three areas, two tasks of the last and a specialist's, two agents, two connections whose transactions interleave, two reopens | `OneOwnerPerArea`, `ShippedRevalidated`, `ClaimsOnFirmGround` |
| `deploy_runs` | one run for a deployment, two workers, two addresses, seven phases, three requests to cancel or retry, one crash; no commit overwrites | `OneHolder`, `OneServer`, `SucceededIsBuilt`, `OpenItemsTold`, `LandedIsFinal` |
| `deploy_lapses` | the heartbeat of a live worker lapses once, beside a crash and two requests; commits overwrite; one phase | `CancelSurvives`, `EveryRunLands` |
| `claim_rejudged` | as `release_lane` | a counterexample to `ReworkIsRejudged` (below) |

Types. `TypeOK` and `ProjectTypeOK` are parts of the invariants `IInv` and `LeaseInv`; `LaneTypeOK`, `AreaTypeOK` and
`PhasesTypeOK` are proved; `DriverTypeOK` and `DeployTypeOK` are parts of `DriverInv` and `DeployShape`, proved
too.

The other inductive invariants of the proofs (`Ledger`, `Resumed`, `StageInv`, `BuildInv`) hold in the same instances,
named as invariants in `pool_faults`, `phase_resume`, `release_lane` and `deploy_runs`; no run keeps them, since they
are proved and imply nothing to a reader that the properties of the runs do not.

Bounds. Two threads are the least that overlap; four tasks give a dependent, its blocker and, at once, more independent
tasks than threads. Conflicts are pairwise, so one pair is enough for every path of the merge code. One migration meets
every point of the loop; two, in the liveness run, meet each other. Two crashes allow a crash of the recovery of a
crash, and the third launch a run after it. `MaxRequests`, `MaxLaunches` and `MaxCrashes` are the pool's and the
driver's only bounds. `MaxTrouble = 2` gives `ItemPhases` a crash of the recovery of a crash, or an intervention in it
(the properties also hold with 3). `project_build`: the overlaps are of two claimants, and an item driver beside them;
`MaxFaults = 2` lets a stalled runtime be overtaken and its successor die. `release_lane`: the lane is a matter of two
releases; the second only enters and is cancelled (`Reach`), the first is taken everywhere; `MaxRework` of one shows
every stamp from before a rework, `MaxOverwrites = 1` the transaction that writes over another's change, `Driven`,
`Edits` and `MaxEdits` what else happens to whom. `area_reopen`: three ranks distinguish the next area from all later
ones, two rows two reopens of one area, one after the other. Deploy runs: claims of different runs only meet in the
order of rows, so one run and two workers show every reclaim; two addresses and three requests allow a correction that
is cancelled and corrected back; the phases are those whose effects differ, in the program's order. `MaxRequests`,
`MaxCrashes` and `MaxLapses` bound its counters. `Overwriting = FALSE` keeps a row still while a transaction on it is
open: the invariants of `deploy_runs` and `LandedIsFinal` are stated for histories in which no commit overwrites, and
this spares TLC the others (the proofs are for either value). `deploy_lapses` has `Overwriting = TRUE`; its one
connection meets both workers' checkpoints and claims, and its one phase is one whose completion a later worker honours.
Symmetry is used in `deploy_runs` and `area_reopen`, which check no liveness.

Fairness (`FairSpec`, liveness only). Pool: the main thread takes steps (it is a running thread, and its waits time
out), and so does every worker (its agent is a subprocess that is killed at `agent_timeout`, its HTTP calls and git
commands end). Agents, people, requests, sibling pools and faults are never assumed to act. `pool_liveness` runs with
the watchdog off, since with it `MigrationRuns` fails (below). `LandsOnlyTested` is checked without siblings for the
same reason. Deploy runs: every worker polls for ever (`_loop`), every phase ends (each wait in them has a deadline),
and a heartbeat that nobody renews grows stale; cancellations, retries, crashes and lapses are never assumed.
`ItemPhases`: a driver that is launched goes on, and people do launch it again and do what they are asked (clear flags,
merge branches, unpark, unblock, settle findings, approve): the code waits for them at each of these, so
`ItemIsDelivered` says that nothing else can hold an item up; faults and interventions are bounded. `ProjectBuild`: time
passes, a run goes on (its requests end), and somebody launches each `"pm"` again and again, strongly fair because
the working copy may be taken at any moment (`EligibleIsDriven`: a dead runtime's lease is reclaimed).

### Where code and text disagree

`claim_rejudged` is a run that ends in a counterexample: the scheduler's gate runner judges a release outside any
session (`release_scheduler.py:494`), and the pass is stamped on whatever is in the stage when the verdict arrives. A
release that was sent back to development, reworked and promoted meanwhile ships on the QA pass of the work before,
while `releases.py` says that a bounce requires "re-QA and re-test". `JudgedWork` holds but for such releases
(`overtaken`).

The models show more of the kind. These are stated in `PoolClaims`, `DriverClaims` and `DeployClaims`, or are
properties of section 4 in another configuration; no run of the project checks them, and changing a configuration as
named here shows each.

Pool and driver:

* The protocol tells an agent to take the no-op exit at step 0, before it claims the task. The exit patches notes and
  `Complete` together, `Ready` may not move to `Complete`, and the PATCH is refused as a whole. The pool reads
  `not_complete` and spawns the agent again: `NoOpIsNotRetried` with `Exits = {"noop"}`.
* The halt exit is retried as well ("rather than retrying"): `HaltIsNotRetried` with `Exits = {"halt"}`.
* A worker can still be about to revoke a token when the migration window opens ("provably no concurrent writer"):
  `NoWriterDuringMigration`, tokens on.
* A migration requested during slot filling does not stop that filling ("pauses new dispatch immediately"):
  `NoDispatchWhilePending`.
* A sibling pool may land between the refresh gate and the landing merge, so that the base gets a combination no gate
  has seen: `LandsOnlyTested` with `Foreign = {11}`.
* A gate read that fails while nothing is in flight ends the run as drained with an eligible task left:
  `DrainLeavesNothing` with `"gate_read"` in `Faults`.
* A chosen task that a person withdraws before its dispatch is skipped and its slot not filled again. With one slot and
  nothing in flight the run then ends as drained beside another eligible task: `DrainLeavesNothing` with
  `Faults = {"withdraw"}`, `MaxConcurrent = 1` and two independent tasks.
* The watchdog leaves the loop with a migration pending: `MigrationRuns` with `Watchdog = TRUE`.
* The retry agent is spawned with the first agent's assignment and token. The first worker revokes that token right
  after its put, so the retry agent is rejected when authentication is on: `LiveAgentIsAuthorised`, `AuthEnabled =
  TRUE`.
* A crash leaves the task's branch checked out in a registered worktree. `git branch -D` is refused, unchecked, and
  `worktree add -b` fails because the branch exists: the re-run "after removing a stale branch" fails until somebody
  removes the worktree by hand: `RerunIsClean`.
* After a crash, a task that is Complete with an empty branch, which a live run would have held, passes into a
  completed phase: `EmptyCompleteHeld`.
* With agents that survive a crash, a claim that RESUME releases as stale may belong to a live agent: `ClaimsAreStale`
  with `OrphansLive = TRUE`. `NoCommittedWorkLost` then fails too, when such an agent commits after its task was
  checked for residue.
* The recovery pass patches by the rows it read at its start and without `expected_updated_at`, and
  `Blocked` may move to `Ready`. A task a person parks meanwhile is unparked: `ResumeKeepsDecisions`.

Deploy runs:

* A run is installed for address A, retried with B, cancelled or failed before the install step, and retried with A
  again. The step is still to be redone, the recorded address is already the one asked for, so the "point the installed
  CRM at the new address" branch is not taken and `install.sh -y --clean` runs over the CRM: `NeverReinstalled` with
  `PhaseOrder <- InstallOnly`.
* The check that no other run is active for an address is one transaction, the insert another; and a retry without a
  body does not check at all (cancel a run, queue its replacement, retry the first): `OneRunPerAddress` with two runs.
* A worker that dies between registering the instance and saving that leaves the resumed run to register a
  second one ("each idempotent"), or, for a deployment, to fail at that phase for ever: `OneInstance`, `MaxCrashes = 1`.
* After the heartbeat of a live worker lapsed, its heartbeat thread stops but its run goes on beside the new worker's
  ("no two workers ever hold the same run", "the caller must stop"): `OneBuilder` with `MaxLapses = 1`. From then on
  the run may have two servers and its landed status may be overwritten, which is why `OneHolder`, `OneServer`,
  `SucceededIsBuilt`, `OpenItemsTold` and `LandedIsFinal` are stated for the time before (`Trusted`).
* The same properties end with the first commit that overwrites a change it had not read, and for a reason. Each of the
  following needs no lapse: `MaxLapses = 0`, `Overwriting = TRUE`, `PhaseOrder <- OneStep`.
  * A request to cancel finds the run queued and writes `cancelled` over a claim committed in between ("a `queued` run
    cancels at once"): the worker goes on and lands its own status over it (`CancelledIsLeftAlone`); retried meanwhile,
    the run goes to a second worker beside the first (`OneBuilder`).
  * `set_phase` reads the checkpoint before a request to cancel is committed and writes it back after: the request is
    gone ("ask the worker to stop between phases"): `CancelIsKept`. `CancelSurvives` says that this is the only way.
  * A request to cancel a running run writes back the checkpoint it read, over one saved in between: a phase that was
    done is to be done again ("so a resumed run can tell which phases already completed"): `DoneIsKept`. Committed after
    the run landed, or after another retry, it or a racing retry overwrites those as well.

Items and Projects:

* "Complete (reconciliation ran over real design work)" (`reconciliation.py`): a Design that a resume completes on the
  spot, whose run dies after complete-phase, or whose reviewing agent fails to start or runs out of time
  (`reconcile_phase_agent` verifies nothing) is never reconciled. `DesignIsReviewed` says that these three (`skipped`)
  are the only ways.
* "ADO-invisible at every tier" (`pm.py`): the driver asks for the execution mode once, at launch. An item that becomes
  interactive, deferred or cancelled meanwhile is still driven until a request happens to refuse.
* The content lane asks the Develop gate once per phase, not per task, so a finding raised then does not hold the rest
  of the phase (`stale` in `DevelopIsGated`).
* A claim is "exclusive" (`claim_project`), but two requests that both find it free are both granted, and the later
  writer holds it. A heartbeat that is refused means the runtime "learns it must stop driving", and the swallowed
  error's comment says that "the run's own writes will surface a genuine loss": nothing tells it and no write checks the
  claim. `OneRuntime` without `overtaken` fails for each of these reasons.
* A release of a claim "held by a different claimant" is refused (`release_project`), but it reads the holder and
  writes later: a runtime that finds its own lapsed claim, and is overtaken before its commit, clears its successor's,
  and a third runtime enters beside that one. `LeaseInv` and `OneRuntime` count the successor as overtaken. A heartbeat
  that read its claim before it was lost makes the next one's lease younger, nothing worse.
* The build lock's docstring counts the dev lane among its takers (`repo_build_lock.py:13-16`); only `main` and
  `project_main` of `ado_scheduler.py` take it.
* An item left In Progress by a crash, a pause or another item's exception is not eligible again and waits for an item
  driver; one that is blocked by a cancelled item waits for ever. So `EligibleIsDriven` is about eligible items only.

Releases:

* "Every claimed Work Task of one area must share one owner" (`coordination.py:6-8`): the check reads the claims and the
  claim is written later, so two agents that claim two free tasks of an area at once both get one. `OneOwnerPerArea`
  leaves out the task whose claim came second (`raced`), and only it.
* "Never build on thawing ground" (`reopen.py`): only new claims are gated. A task claimed before its area's upstream is
  reopened goes on, and so does one whose claim was checked before the reopen and committed after (`thawed`).
* Two revalidations that read the same list write it back one after the other and one is lost, possibly after the ship
  read both. The ship check counts every row; a revalidation is accepted before the area re-froze.
* `delete_release` frees the lane, but `transition` goes on working on a deleted row and a scheduler that reads one
  ends with an exception. An abandoned or deleted release is noticed by its scheduler only after the item it builds.
* After a bounce its items are still delivered, so the scheduler takes the release to QA again at once.
* A `blocked_by` release must be shipped: one that is superseded blocks for ever. A release that is first in the lane
  order and blocked holds up the ones behind it, and the monitor goes on choosing it.
* A sign-off is accepted in any stage of any release; only its fingerprint makes it fresh or not.
* "Acquire before editing" (resource locks): no program acquires any, and their "atomic BEGIN IMMEDIATE acquire" is
  SQLite's, while the store is PostgreSQL.

## 5. What is proved

`WorkerPool_proofs` proves, for every set of tasks and blockers, every cap, every conflict relation and every choice of
faults, from `PoolAssumption` alone:

* `TypeCorrect`: `Spec => []TypeOK`.
* `Invariance`: `Spec => []IInv`.
* `Exclusive`: `Spec => []ExclusiveWindow`.
* `Refinement`: `Spec => PausesDrainsAndRuns`, that is, the pool implements `MigrationWindow`.

The argument. `maybe_run` tests `len(active)`, not the threads, so exclusivity is only as good as the bookkeeping of
`active`. `ExclusiveWindow` is not inductive: in a state where some thread is at work on a task outside `active`, the
next step may open the window. `Slots` says that cannot be: as long as the loop runs, a task that is queued, at work,
on the queue or in the main thread's hand is in `active`. To keep it, a report, which takes one task out of `active`,
must know that the task is nowhere else: so `Slots` also says that a task on the queue or in hand has finished its
thread, and is on the queue once. `Control` says where the main thread is when it holds a task, a chosen set or the
window (in particular that `exclusive` means `mpc = "migrate"` and that nothing is in flight then). `IInv` is types,
`Control` and `Slots`; types and control are proved first, on their own, and `Slots` with their help, one step per
action. The sequence lemmas (`PutResultSlots`, `CollectSlots`) carry the queue. Refinement maps `inflight` to
`Inflight`: putting and collecting leave it alone, dispatch adds, a report removes, and the window's moves are the
abstract ones.

`PoolLedger_proofs` goes on from `IInv` to what a run reports, lands and forks from, under the same assumption:

* `LedgerInvariance` (`Ledger`), and from it `NeverTooManyAgents` (`AgentCap`), `SucceededLands` (`OnlySucceededLands`),
  `DispatchedIsReported` (`EveryDispatchReported`), `ReportedOnce` (`ReportIsFinal`), `NothingCompleteLost`
  (`CompleteIsAccounted`) and `ForksAfterBlockers` (`DependentsForkAfterBlockers`), for every choice of faults.
* `LandingIsTested` (`LandsOnlyTested`) for `Foreign = {}`, and `DrainIsComplete` (`DrainLeavesNothing`) without the
  faults `"withdraw"` and `"gate_read"`. Without these conditions both fail, as TLC shows (section 4): they are not for
  the prover's sake.

The argument. The code keeps the row, the branch and the report of a task apart, and writes them in different threads
and processes. `Ledger` is what relates them. `Verified`: a passing verdict belongs to a Complete row whose branch has
its commits, or which has a note, and Complete is final in a run. `Reported`: what was dispatched is in `active` or has
a report, never both; failure pauses and flags; success is on the base. `Landed`: a branch is its task's work and what
the base has had, so that a landing adds the one task it reports. `Accounted`: a Complete task this run never dispatched
is on the base or has a note. Where raising the flag may fail (`FlagFails`), a failure still has its report and pauses.
`Forked`: what is chosen or dispatched has its blockers' work on the base, and a live agent has it in its branch.
`Capped`: `active` with the chosen set, and the busy threads, are each within the cap. Every conjunct has a lemma of its
own, stated over what a step may do to each variable (`OnlyGrows`, `OutcomeMoves`). `Tested` and `Drained` are the
strengthenings of the last two: where the main thread is, what the passed tree has to do with the base; and that an idle
loop has looked at every task.

`PhaseDriver_proofs` proves, for any tasks, launches and crashes, `DriverInvariance` (the pool's invariant in every run
of a driver), `CompletionIsFinal` (`CompleteIsFinal`) and `NeverTwoAgents` (`OneAgentPerTask`), with agents that outlive
their run or without; and, with `OrphansLive = FALSE`, `NothingCommittedLost` (`NoCommittedWorkLost`) and
`ForksHaveWork` (`ForksHaveBlockersWork`). That condition is needed (section 4). The argument. `Held` rests exclusion on
the worktree: an agent, also one whose run died, sits in a registered one, and a worker that runs into a worktree it has
not made reports an error. A task is `Settled` if it is Complete and this run will not touch it again; settled work is
on the base, and nothing is chosen or forks before its blockers are settled (`SettledFirst`). `Resumed` carries that
over crashes, which may fall between the two requests that rewind a task: whatever is Complete and unmerged is among the
rows the recovery pass has still to take, or among the residue it has found, so a pool starts on settled work.

`ItemPhases_proofs` proves, for any tasks and any number of faults and interventions, from `PhaseAssumption`:
`PhasesTypes`, `GatedDevelop` (`DevelopIsGated`), `DesignReviewed` (`DesignIsReviewed`) and `WholeDelivery`
(`DeliveredWhole`). The argument. The driver reads in one step and acts in a later one, with people in between, so none
of the three is inductive. `Landed` is what delivery rests on: the tasks of a phase that is terminal are Complete and on
the base, and those of one that is about to be completed are on the base. `Place` ties the driver to its phase: what it
resumes, runs or completes is in progress, agents work only in its pool and on that phase, and no task comes before its
phase is scoped. `Gated` says that a task the gate let through, and not stale, still has a settled Design and no open
finding; `Reviewed` that a Complete Design was reconciled, or is about to be, or was skipped, and that a Develop that
has begun stands on one. One lemma per kind of move (`PhaseStep`, `TaskStep`, `DriverStep`, ...) says what the invariant
asks of it, and every action is one of those.

`ProjectBuild_proofs` proves `LeaseSafety` (`LeaseInv`), `RuntimeExclusion` (`OneRuntime`) and `StartsAfterBlockers`
(`StartedAfterBlockers`), for any runtimes, copies, items and faults, from `ProjectAssumption`. `OneRuntime` compares
two drivers that never meet: `LeaseInv` ties each of them to the row. Its holder is a `"pm"` at work or about to
release, and whoever is at work and not the holder has been overtaken. A claim or a release that is open and not `late`
finds the row free or its own, because only the commit of a claim puts another into it, which makes every open one late;
so a commit displaces nobody unless it is late, and then its victim is overtaken. For the third, `ItemMoves` lists how
an item's status can move: a resolved item stays resolved, and an item comes to be in progress only by a dispatch that
finds it startable.

`ReleaseLane_proofs` proves `LaneTypes`, `TerminalStays`, `SingleOccupancy` (`OneInLane`), `BlockedWait`
(`BlockersFirst`), `MonitorAgrees` (`MonitorAgreesWithGate`), `StageInvariance` (`StageInv`), `ShipsJudged`
(`JudgedWork`) and `RetiredRecorded` (`EvidenceKept`), for any releases, drivers and people, from `LaneAssumption`.
Occupancy rests on the unique index alone: a commit into the lane finds it free of others, and no other step enters it.
Blockers need the transactions: one that takes a release from ready into the lane was opened with every blocker shipped,
and shipped is final, so they still are when it commits, unless a transaction wrote over a change; `TxnMoves` says so of
every open transaction. What ships was judged as it is because every stage stands on the one before: `OnVerdicts` says,
stage by stage, which stamps and sign-offs there are, and that each is of the present work. A transaction may have read
all this before another's commit: `LetIn` is what it was let in with, and `Since` that nothing comes back to deployment
but through a rework, so that a sign-off it found is there if its row is as it was; if not, `overwrites` counts its
commit. `OnPresent` is about the verdict a gate runner will stamp, `Recorded` about the run record and the
decomposition.

`AreaReopen_proofs` proves `SingleOwner`, `ReopensRevalidated` and `FirmGround`, for any clients, agents, tasks and
spine, from `AreaAssumption`. The invariant is what an open transaction still knows: a claim that no other of its area
crossed finds the area with no other owner, and the area is paused only by reopens committed beside the claim; once a
ship has passed its check, every row but those it missed is settled, that is, all downstream of it were validated again;
and what a row records is part of what was ever validated.

`DeployRuns_proofs` proves, for any runs, workers and addresses and any number of crashes, retries and lapses, from
`DeployAssumption`:

* `TrustKept`: whoever is trusted was trusted before, so each result below is about a history up to the first lapse or
  the first commit that overwrites a change it had not read (`Trusted`).
* `HolderIsUnique` (`OneHolder`), `LandedStays` (`LandedIsFinal`), `ServerOnce` (`OneServer`), `DeployTypes`
  (`DeployShape`) and `CancelKept` (`CancelSurvives`), for any list of phases.
* `BuildInvariance` (`BuildInv`), `SucceededBuilds` (`SucceededIsBuilt`) and `OpenItemsShown` (`OpenItemsTold`), for any
  list that has the parts of a CRM, with the certificate after the installation and its verification after both
  (`BuildOrder`). `CodeOrderBuilds` proves that of `DeployRunPhaseOrder`, the list in `vocab.py`.

The argument. `OneHolder` compares workers, but a claim reads only the row. `HolderInv` ties the two: while trusted, a
worker at work on a run is the one its row names, the row is `running`, its heartbeat fresh and the thread that renews
it alive. A claimable row is queued or stale, so nobody works on it; a heartbeat grows stale only if nobody renews it;
and a worker that lands a run is the only one on it, so nobody is left whose row has landed. A request commits what it
read, which is the row as it is unless the commit overwrites (`OverwroteNothing`). `QuietStep` covers every step inside
`run_deploy`; claims, lapses, the end of a run, the reads and the commits of requests have a lemma each. A second server
would need a worker that goes to create one although one exists: `ServerInv` says the tag look-up and the creation have
no other worker between them. `CancelKept` needs none of this: an update never mentions the cancel request, and a
checkpoint is written by merging the update into the row as `set_phase` read it; a request to cancel writes one.

`BuildInv` relates four copies of the same facts, while trusted: the row's checkpoint, the worker's memory, the phases
behind it and the world. `RowTrue` is what a row alone guarantees to whoever claims it next, `CopiesAgree` that memory
and row differ at most in the cancel request, `Achieved` what the phases already passed have made true in this run,
whether they ran or were skipped as done. The installation is what an address is corrected against: a retry clears the
phases that depend on it, so a row never has `install_espocrm` done for another address. A certificate or its
verification need not succeed, but then an open item or a failed verification is on record, and the run does not land as
`succeeded`.

Only model-checked: liveness (`RunEnds`, `MigrationRuns`, `ItemIsDelivered`, `EligibleIsDriven`, `EveryRunLands`), since
fairness and ENABLED are beyond the prover.

## 6. What is not modelled

Clocks: the watchdog may fire whenever its other conditions hold, and leases are fresh or stale. The HTTP layer's
retries of writes on a 5xx. The operator's "Check DNS now" (`deploy/dns_followup.py`), which closes open items on the
instance of a run that has landed: `OpenItemsTold` is about the run's own last word. Findings and events that are only
written. The planning half of a release, resource locks (which nothing acquires) and publishing are left to the plan.
Server upgrades, hosting and EspoCRM are I/O against a live system; the record repositories, the API, the UI and the
introspection and configuration tools, which are most of the repository's lines, are validated record keeping and
presentation, one transaction at a time, without the interleavings this project is about.
