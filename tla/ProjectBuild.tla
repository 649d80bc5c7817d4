---------------------------- MODULE ProjectBuild ----------------------------
(***************************************************************************)
(* Who builds what, across processes.  A Project's Planning Items are      *)
(* built by drivers of three kinds:                                        *)
(*   "pm"    ProjectScheduler.run (ado_scheduler.py), which drives the     *)
(*           eligible items of the Project in batches;                     *)
(*   "ado"   the command line for one item;                                *)
(*   "lane"  the release lane's runner (ado_pi_runner), also for one item. *)
(* A "pm" takes the Project's lease (projects.py: claimed_by, claimed_at); *)
(* a "pm" and an "ado" take the flock of their working copy                *)
(* (repo_build_lock.py).  What a driver does inside an item is PhaseDriver *)
(* and WorkerPool: here it is dispatched, worked on and left.              *)
(*                                                                         *)
(* A claim, a heartbeat and a release are each a read and a later commit,  *)
(* and the store (PostgreSQL at its default isolation, no row lock) lets   *)
(* them interleave.  A request of a process that dies is carried out       *)
(* before that, or never.                                                  *)
(***************************************************************************)
EXTENDS Integers, FiniteSets

CONSTANTS
    Runtime,       \* processes that drive builds
    Kind,          \* [Runtime -> {"pm", "ado", "lane"}]
    CopyOf,        \* [Runtime -> working copies]
    Item,          \* the Planning Items of the Project, numbered in backlog order
    BlockedBy,     \* [Item -> SUBSET Item], blocked_by
    ByHand,        \* items whose execution_mode keeps the ADO out
    MaxParallel,   \* max_parallel_pis
    Closures,      \* what closes a finished item: {}, {"resolve"} or {"review"}
    NoOne, Gone,   \* the lease is free; its holder has died
    MaxFaults      \* bound: crashes, stalls and forced releases

ASSUME ProjectAssumption ==
    /\ Kind \in [Runtime -> {"pm", "ado", "lane"}]
    /\ Item \subseteq Nat /\ IsFiniteSet(Item)
    /\ BlockedBy \in [Item -> SUBSET Item] /\ ByHand \subseteq Item
    /\ MaxParallel \in Nat \ {0} /\ Closures \subseteq {"resolve", "review"}
    /\ NoOne \notin Runtime /\ Gone \notin Runtime /\ NoOne # Gone
    /\ MaxFaults \in Nat

VARIABLES
    holder, fresh,     \* project_claimed_by; project_claimed_at is recent
    item,              \* status of every Planning Item
    rpc,               \* where each driver is
    batch,             \* items it has in hand
    attempted,         \* items it has tried in this run
    work,              \* [Runtime -> [Item -> what its item driver is at]]
    beat,              \* a heartbeat has read its claim and not committed
    late,              \* open claims and releases another's claim has crossed
    overtaken,         \* drivers whose claim was replaced or cleared by another
    faults

leaseVars == <<holder, fresh, beat, late, overtaken>>
runVars == <<rpc, batch, attempted, work>>
vars == <<leaseVars, item, runVars, faults>>

ItemStatus == {"Ready", "InProgress", "InReview", "Resolved", "Cancelled"}
RunState == {"idle", "claim", "granted", "loop", "drive", "close", "leave", "release"}
WorkState == {"none", "start", "dispatch", "work", "ok", "paused", "raised"}

ProjectTypeOK ==
    /\ holder \in Runtime \cup {NoOne, Gone} /\ fresh \in BOOLEAN
    /\ item \in [Item -> ItemStatus]
    /\ rpc \in [Runtime -> RunState]
    /\ batch \in [Runtime -> SUBSET Item] /\ attempted \in [Runtime -> SUBSET Item]
    /\ work \in [Runtime -> [Item -> WorkState]]
    /\ beat \in BOOLEAN /\ late \subseteq Runtime /\ overtaken \subseteq Runtime
    /\ faults \in 0..MaxFaults

NoWork == [i \in Item |-> "none"]

Init ==
    /\ holder = NoOne /\ fresh = FALSE
    /\ item = [i \in Item |-> "Ready"]
    /\ rpc = [r \in Runtime |-> "idle"]
    /\ batch = [r \in Runtime |-> {}] /\ attempted = [r \in Runtime |-> {}]
    /\ work = [r \in Runtime |-> NoWork]
    /\ beat = FALSE /\ late = {} /\ overtaken = {} /\ faults = 0

-----------------------------------------------------------------------------
(* Eligibility                                                             *)

\* Mutation of Unresolved: a cancelled blocker counts as well.
TerminalIsEnough(i) == {b \in BlockedBy[i] : item[b] \notin {"Resolved", "Cancelled"}}

\* _unresolved_blockers: only Resolved counts; a cancelled blocker never does.
Unresolved(i) == {b \in BlockedBy[i] : item[b] # "Resolved"}

Startable(i) == item[i] = "Ready" /\ Unresolved(i) = {}

\* project_backlog's "eligible".
Eligible == {i \in Item : Startable(i) /\ i \notin ByHand}

\* eligible_batch: the first of the backlog this run has not attempted.
Batch(tried) ==
    LET left == Eligible \ tried
    IN  {i \in left : Cardinality({j \in left : j < i}) < MaxParallel}

-----------------------------------------------------------------------------
(* The two locks                                                           *)

\* acquire_build_lock, LOCK_EX | LOCK_NB: held from the launch to the exit of
\* the process, by the kinds whose main takes it.
TakesLock(r) == Kind[r] \in {"pm", "ado"}
CopyFree(r) == \A q \in Runtime :
    (TakesLock(q) /\ CopyOf[q] = CopyOf[r]) => rpc[q] = "idle"

\* Mutations of Grants: no lease lapses ...
OnlyFree(r) == holder \in {NoOne, r}

\* ... or every one has.
AnyLease(r) == TRUE

\* claim_project: granted unless another one's lease is fresh.
Grants(r) == holder \in {NoOne, r} \/ ~fresh

\* Mutation of Own: whatever claim there is.
AnyClaim(r) == holder # NoOne

\* release_project, not forced: only the claimant's own claim is cleared.
Own(r) == holder = r

\* The requests that have read the row and will write it.
Open == {q \in Runtime : rpc[q] \in {"granted", "release"}}

\* A commit writes the columns whoever has claimed since the read.  Whom it
\* displaces is overtaken, if the request had a right to it: a claim that
\* found the lease lapsed, or a request that somebody's claim has crossed.
Displaced(r) == IF r \in late THEN (Runtime \cap {holder}) \ {r} ELSE {}
Take(r) ==
    /\ holder' = r /\ fresh' = TRUE
    /\ late' = (late \cup Open) \ {r}
    /\ overtaken' = (overtaken \cup Displaced(r)) \ {r}
GiveUp(r) ==
    /\ holder' = NoOne /\ fresh' = FALSE
    /\ late' = late \ {r}
    /\ overtaken' = (overtaken \cup Displaced(r)) \ {r}

-----------------------------------------------------------------------------
(* A run                                                                   *)

\* project_main and main: the working copy first.  An item driver is pointed
\* at an item and checks its execution mode itself.
Launch(r) ==
    /\ rpc[r] = "idle" /\ (TakesLock(r) => CopyFree(r))
    /\ \/ /\ Kind[r] = "pm" /\ rpc' = [rpc EXCEPT ![r] = "claim"]
          /\ UNCHANGED <<batch, work>>
       \/ /\ Kind[r] # "pm" /\ rpc' = [rpc EXCEPT ![r] = "drive"]
          /\ \E i \in Item \ ByHand :
                /\ batch' = [batch EXCEPT ![r] = {i}]
                /\ work' = [work EXCEPT ![r][i] = "start"]
    /\ UNCHANGED <<leaseVars, item, attempted, faults>>

\* _acquire_run_lock: the request reads the row, and refuses (409) or goes on.
ClaimReads(r) ==
    /\ rpc[r] = "claim"
    /\ rpc' = [rpc EXCEPT ![r] = IF Grants(r) THEN "granted" ELSE "idle"]
    /\ late' = IF Grants(r) /\ holder \in Runtime /\ ~fresh THEN late \cup {r} ELSE late
    /\ UNCHANGED <<holder, fresh, beat, overtaken, item, batch, attempted, work, faults>>

ClaimCommits(r) ==
    /\ rpc[r] = "granted" /\ rpc' = [rpc EXCEPT ![r] = "loop"]
    /\ Take(r)
    /\ UNCHANGED <<beat, item, batch, attempted, work, faults>>

\* One turn of the loop: read the backlog, pick a batch; none left, leave.
Pick(r) ==
    /\ rpc[r] = "loop"
    /\ LET b == Batch(attempted[r]) IN
       IF b = {} THEN rpc' = [rpc EXCEPT ![r] = "leave"] /\ UNCHANGED <<batch, work>>
       ELSE /\ rpc' = [rpc EXCEPT ![r] = "drive"]
            /\ batch' = [batch EXCEPT ![r] = b]
            /\ work' = [work EXCEPT ![r] = [i \in Item |-> IF i \in b THEN "start" ELSE "none"]]
    /\ UNCHANGED <<leaseVars, item, attempted, faults>>

At(r, i, from, to) ==
    /\ rpc[r] = "drive" /\ work[r][i] = from /\ work' = [work EXCEPT ![r][i] = to]
    /\ UNCHANGED <<leaseVars, rpc, batch, attempted, faults>>

\* AdoScheduler.run reads the item: one already started it goes on with, as
\* if it were its own.
ReadItem(r, i) ==
    /\ At(r, i, "start", IF item[i] = "Ready" THEN "dispatch" ELSE "work")
    /\ UNCHANGED item

\* dispatch_planning_item: checked again, and a 409 raises out of the driver.
Dispatch(r, i) ==
    \/ Startable(i) /\ At(r, i, "dispatch", "work") /\ item' = [item EXCEPT ![i] = "InProgress"]
    \/ ~Startable(i) /\ At(r, i, "dispatch", "raised") /\ UNCHANGED item

\* All phases are done: the item goes to In Review, which a terminal item
\* refuses.
Finish(r, i) ==
    \/ /\ item[i] \in {"InProgress", "InReview"} /\ At(r, i, "work", "ok")
       /\ item' = [item EXCEPT ![i] = "InReview"]
    \/ item[i] \in {"Resolved", "Cancelled"} /\ At(r, i, "work", "raised") /\ UNCHANGED item

\* A flag, a paused pool or a blocked phase ends the item's run; so does an
\* error of a request.
Stops(r, i) ==
    /\ At(r, i, "work", "paused") \/ At(r, i, "work", "raised")
    /\ UNCHANGED item

\* The batch is over when all of it is: the executor waits for every driver,
\* and then the first error goes up and skips the close-out of the others.
BatchOver(r) ==
    /\ rpc[r] = "drive" /\ \A i \in batch[r] : work[r][i] \in {"ok", "paused", "raised"}
    /\ LET failed == \E i \in batch[r] : work[r][i] = "raised" IN
       rpc' = [rpc EXCEPT ![r] = IF failed \/ Kind[r] # "pm" THEN "leave" ELSE "close"]
    /\ UNCHANGED <<leaseVars, item, batch, attempted, work, faults>>

\* _close_out of one item, in batch order.  A review may decline; resolving
\* an item a person has cancelled is refused and ends the run.
CloseOut(r) ==
    /\ rpc[r] = "close"
    /\ \E i \in batch[r] :
       /\ \A j \in batch[r] : i <= j
       /\ attempted' = [attempted EXCEPT ![r] = @ \cup {i}]
       /\ batch' = [batch EXCEPT ![r] = @ \ {i}]
       /\ work' = [work EXCEPT ![r][i] = "none"]
       /\ \/ /\ work[r][i] = "paused" \/ Closures = {} \/ "review" \in Closures
             /\ UNCHANGED <<item, rpc>>
          \/ /\ work[r][i] = "ok" /\ Closures # {} /\ item[i] # "Cancelled"
             /\ item' = [item EXCEPT ![i] = "Resolved"] /\ UNCHANGED rpc
          \/ /\ work[r][i] = "ok" /\ "resolve" \in Closures /\ item[i] = "Cancelled"
             /\ rpc' = [rpc EXCEPT ![r] = "leave"] /\ UNCHANGED item
    /\ UNCHANGED <<leaseVars, faults>>

NextRound(r) ==
    /\ rpc[r] = "close" /\ batch[r] = {} /\ rpc' = [rpc EXCEPT ![r] = "loop"]
    /\ UNCHANGED <<leaseVars, item, batch, attempted, work, faults>>

Forget(r) ==
    /\ rpc' = [rpc EXCEPT ![r] = "idle"] /\ batch' = [batch EXCEPT ![r] = {}]
    /\ attempted' = [attempted EXCEPT ![r] = {}] /\ work' = [work EXCEPT ![r] = NoWork]

\* run's finally: the heartbeat stops and the lease is given up: the request
\* reads the row, and a claim it finds to be another's is left alone (409,
\* swallowed).
Leave(r) ==
    /\ rpc[r] = "leave"
    /\ \/ /\ Kind[r] = "pm" /\ Own(r)
          /\ rpc' = [rpc EXCEPT ![r] = "release"]
          /\ UNCHANGED <<overtaken, batch, attempted, work>>
       \/ /\ ~(Kind[r] = "pm" /\ Own(r)) /\ Forget(r)
          /\ overtaken' = overtaken \ {r}
    /\ UNCHANGED <<holder, fresh, beat, late, item, faults>>

ReleaseCommits(r) ==
    /\ rpc[r] = "release" /\ Forget(r) /\ GiveUp(r)
    /\ UNCHANGED <<beat, item, faults>>

-----------------------------------------------------------------------------
(* The heartbeat, time and people                                          *)

\* _heartbeat_once by the holder; another one's is refused, and
\* _heartbeat_loop swallows the refusal.  The commit writes the time only,
\* whoever holds the lease by then: run waits two seconds for the thread, so
\* the request may outlive the run (one at a time does here).
Drives(r) == rpc[r] \in {"loop", "drive", "close", "leave"}
HeartbeatReads(r) ==
    /\ holder = r /\ Drives(r) /\ ~beat /\ beat' = TRUE
    /\ UNCHANGED <<holder, fresh, late, overtaken, item, runVars, faults>>
HeartbeatCommits ==
    /\ beat /\ beat' = FALSE
    /\ fresh' = TRUE
    /\ UNCHANGED <<holder, late, overtaken, item, runVars, faults>>

Fault == faults < MaxFaults /\ faults' = faults + 1

\* stale_seconds pass without a heartbeat: the holder is dead, or it, its
\* connection or the API is stalled.
Lapse ==
    /\ fresh /\ fresh' = FALSE
    /\ \/ holder = Gone /\ UNCHANGED faults
       \/ holder \in Runtime /\ Fault
    /\ UNCHANGED <<holder, beat, late, overtaken, item, runVars>>

\* The process dies: the system drops its flock, the lease stays.  It stays
\* too when the release fails, which _release_run_lock swallows.
Crash(r) ==
    /\ rpc[r] # "idle" /\ Fault
    /\ Forget(r)
    /\ holder' = IF holder = r THEN Gone ELSE holder
    /\ late' = late \ {r} /\ overtaken' = overtaken \ {r}
    /\ UNCHANGED <<fresh, beat, item>>

\* release_project with force, by an operator who believes the run is dead: it
\* clears the claim there is at its commit.
ForceRelease ==
    /\ holder # NoOne /\ Fault
    /\ holder' = NoOne /\ fresh' = FALSE
    /\ overtaken' = overtaken \cup (Runtime \cap {holder})
    /\ UNCHANGED <<beat, late, item, runVars>>

\* People resolve what is in review, and do or cancel what is theirs to.
PersonResolves(i) ==
    /\ item[i] = "InReview" \/ (i \in ByHand /\ item[i] = "Ready")
    /\ item' = [item EXCEPT ![i] = "Resolved"]
    /\ UNCHANGED <<leaseVars, runVars, faults>>
PersonCancels(i) ==
    /\ item[i] \in {"Ready", "InProgress", "InReview"}
    /\ item' = [item EXCEPT ![i] = "Cancelled"]
    /\ UNCHANGED <<leaseVars, runVars, faults>>

RunNext(r) ==
    \/ ClaimReads(r) \/ ClaimCommits(r) \/ Pick(r) \/ BatchOver(r)
    \/ CloseOut(r) \/ NextRound(r) \/ Leave(r) \/ ReleaseCommits(r)
    \/ \E i \in Item : ReadItem(r, i) \/ Dispatch(r, i) \/ Finish(r, i) \/ Stops(r, i)

Next ==
    \/ \E r \in Runtime : Launch(r) \/ RunNext(r) \/ HeartbeatReads(r) \/ Crash(r)
    \/ HeartbeatCommits \/ Lapse \/ ForceRelease
    \/ \E i \in Item : PersonResolves(i) \/ PersonCancels(i)

Spec == Init /\ [][Next]_vars

\* Time passes and a run goes on; and somebody launches the "pm" again after
\* each run, which the code leaves to people.
FairSpec ==
    /\ Spec /\ WF_vars(Lapse)
    /\ \A r \in Runtime : WF_vars(RunNext(r))
    /\ \A r \in Runtime : Kind[r] = "pm" => SF_vars(Launch(r))

-----------------------------------------------------------------------------
(* Correctness                                                             *)

\* The lease is in step with the runs: its holder is a "pm" at work or about
\* to release it (or dead), and a "pm" at work holds it unless it was
\* overtaken: another claimed when the lease had lapsed, force cleared it, or
\* it was replaced or cleared by a claim or a release that was already open
\* when somebody's claim was committed.  No other request displaces anyone.
LeaseInv ==
    /\ ProjectTypeOK
    /\ holder \in Runtime =>
          /\ Kind[holder] = "pm" /\ (Drives(holder) \/ rpc[holder] = "release")
          /\ holder \notin overtaken
    /\ \A r \in Runtime : Kind[r] = "pm" /\ Drives(r) /\ r \notin overtaken => holder = r
    /\ \A r \in Open \ late : holder \notin Runtime \ {r}
    /\ \A r \in Runtime :
          rpc[r] \in {"claim", "granted", "loop", "close", "release"} => Kind[r] = "pm"

\* Two runtimes never build one Project at once unless one of them was
\* overtaken.  In particular one that finds, on its way out, that its
\* successor has claimed does not clear that claim and let a third in: only
\* a release that had read before the successor's commit can.
OneRuntime == \A r, q \in Runtime :
    (/\ Kind[r] = "pm" /\ Drives(r) /\ r \notin overtaken
     /\ Kind[q] = "pm" /\ Drives(q) /\ q \notin overtaken) => r = q

\* An item the builders have started had all its blockers resolved, also when
\* its batch was read before a person cancelled one of them.
StartedAfterBlockers == \A i \in Item :
    item[i] \in {"InProgress", "InReview"} =>
        \A b \in BlockedBy[i] : item[b] = "Resolved"

\* A dead or stalled runtime does not lock a Project out: an eligible item
\* stops being eligible, by being driven (or cancelled).
EligibleIsDriven == \A i \in Item : (i \in Eligible) ~> (i \notin Eligible)
=============================================================================
