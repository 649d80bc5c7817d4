---------------------------- MODULE ReleaseLane ----------------------------
(***************************************************************************)
(* The development lane of the release pipeline: several releases that     *)
(* compete for it, the stages of the one that holds it, its QA, test and   *)
(* ship gates, rework, and the ways out (access/repositories/releases.py). *)
(* The lane is driven by schedulers (scheduler/release_scheduler.py),      *)
(* launched by hand or by a monitor pass (scheduler/release_monitor.py),   *)
(* and by people, who call the same operations.                            *)
(*                                                                         *)
(* A status change is a transaction that reads the row, runs its gate and  *)
(* writes.  Begin is the reading, Commit the writing: the store is         *)
(* Postgres at its default isolation, nothing locks the row, and other     *)
(* transactions commit in between.  A release starts ready: what comes     *)
(* before is not modelled.  Open area reopens are AreaReopen's.            *)
(***************************************************************************)
EXTENDS Naturals

CONSTANTS
    Release,
    Driver,       \* scheduler processes
    Person,       \* people and tools that call the API
    Blocking,     \* possible sets of <<r, b>>: release r is blocked by release b
    Manual,       \* releases in manual execution mode
    LaneOrder,    \* values of lane_order that people may set
    FirstOrder,   \* the order set on each release before it was ready
    Corrected,    \* releases that a correction release has been opened for
    Done,         \* releases whose planning items are resolved by then
    NoOrder, NoRelease, NoTxn, None,
    Driven,       \* bound: releases that schedulers are launched for
    Reach,        \* bound: the statuses that each release is taken to
    MaxRework,    \* bound: how often each release is sent back
    MaxOverwrites, \* bound: nothing is begun after so many of them
    Edits,        \* bound: which orders are set and releases deleted
    MaxEdits      \* bound: how many of them

ASSUME LaneAssumption ==
    /\ Blocking \subseteq SUBSET (Release \X Release) /\ Manual \subseteq Release
    /\ Driven \subseteq Release
    /\ LaneOrder \subseteq Nat /\ Done \subseteq Release
    /\ Corrected \subseteq Release
    /\ FirstOrder \in [Release -> Nat \cup {NoOrder}]
    /\ NoRelease \notin Release /\ NoOrder \notin Nat /\ None \notin Nat
    /\ Driver \cap Person = {}
    /\ Reach \in [Release -> SUBSET STRING]
    /\ Edits \subseteq {"order", "delete"} \X Release
    /\ MaxRework \in [Release -> Nat] /\ MaxOverwrites \in Nat /\ MaxEdits \in Nat

VARIABLES
    \* the release row
    status, deleted, order, blockedBy,
    qa, test,     \* the pass stamps; what is kept of one is the work it judged
    \* records around it
    approval,     \* the fresh ship sign-off, if any: the work it approved
    items,        \* status of its planning items, which move together here
    runs,         \* releases with a release_run record
    plans,        \* releases whose decomposition is still there
    \* clients
    txn,          \* the transaction each client has open
    drives, step, \* the release a scheduler drives, and its place in the loop
    look,         \* the work its gate runner was given to judge
    \* history
    work,         \* how often the release was sent back to development
    ran,          \* releases that have been in the lane
    overtaken,    \* releases sent back while a verdict on them was on its way
    overwrites,   \* transactions that wrote over a change made since they read
    edits

rowVars == <<status, deleted, order, blockedBy, qa, test>>
recordVars == <<approval, items, runs, plans>>
clientVars == <<txn, drives, step, look>>
historyVars == <<work, ran, overtaken, overwrites, edits>>
vars == <<rowVars, recordVars, clientVars, historyVars>>

Client == Driver \cup Person
Lane == {"development", "qa", "testing", "deployment"}
Terminal == {"shipped", "cancelled", "superseded"}
Status == {"ready"} \cup Lane \cup Terminal
Step == {"idle", "read", "enter_lane", "develop", "building", "to_qa",
         "run_qa", "judge_qa", "to_testing", "run_test", "judge_test",
         "to_deployment", "ship"}

\* Where a release may go from each status.
Moves == [s \in Status |->
    CASE s = "ready"       -> {"development", "cancelled", "superseded"}
      [] s = "development" -> {"qa", "cancelled", "superseded"}
      [] s = "qa"          -> {"testing", "development", "cancelled", "superseded"}
      [] s = "testing"     -> {"deployment", "development", "cancelled", "superseded"}
      [] s = "deployment"  -> {"shipped", "development", "cancelled", "superseded"}
      [] OTHER             -> {}]

InLane(r) == r \notin deleted /\ status[r] \in Lane

---------------------------------------------------------------------------
\* Gates

LaneFree(r) == \A o \in Release \ {r} : ~InLane(o)
\* Mutant of BlockersShipped: a blocker that is over in any way counts.
BlockersOver(r) ==
    \A b \in Release : <<r, b>> \in blockedBy => status[b] \in Terminal

BlockersShipped(r) ==
    \A b \in Release : <<r, b>> \in blockedBy => status[b] = "shipped"

\* A live ready release.
Waiting(r) == r \notin deleted /\ status[r] = "ready"

OrderAllows(r) ==
    order[r] # NoOrder =>
        \A o \in Release \ {r} :
            Waiting(o) /\ order[o] # NoOrder => ~(order[o] < order[r])

AutoApproves(r) == r \in Manual /\ items[r] = "Resolved"

Gate(r, to) ==
    CASE status[r] = "ready" /\ to = "development" ->
            LaneFree(r) /\ BlockersShipped(r) /\ OrderAllows(r)
      [] status[r] = "qa" /\ to = "testing" -> qa[r] # None
      [] status[r] = "testing" /\ to = "deployment" -> test[r] # None
      [] status[r] = "deployment" /\ to = "shipped" ->
            approval[r] # None \/ AutoApproves(r)
      [] OTHER -> TRUE

\* The monitor's choice: the release in the lane, else the only one waiting,
\* else the one with strictly the lowest order when all have one, else nobody.
Occupants == {r \in Release : InLane(r)}
Candidates == {r \in Release : Waiting(r)}
AdmittedLast ==      \* mutant of Admitted: sorts the other way
    IF Occupants # {} THEN Occupants
    ELSE {r \in Candidates : \A o \in Candidates \ {r} :
            /\ order[r] # NoOrder /\ order[o] # NoOrder
            /\ order[o] < order[r]}

Admitted ==
    IF Occupants # {} THEN Occupants
    ELSE IF \E r \in Candidates : Candidates = {r} THEN Candidates
    ELSE IF \E r \in Candidates : order[r] = NoOrder THEN {}
    ELSE {r \in Candidates : \A o \in Candidates \ {r} : order[r] < order[o]}

---------------------------------------------------------------------------
Init ==
    /\ status = [r \in Release |-> "ready"] /\ deleted = {}
    /\ order = FirstOrder /\ blockedBy \in Blocking
    /\ qa = [r \in Release |-> None] /\ test = [r \in Release |-> None]
    /\ approval = [r \in Release |-> None]
    /\ items = [r \in Release |-> IF r \in Done THEN "Resolved" ELSE "open"]
    /\ runs = {} /\ plans = Release
    /\ txn = [c \in Client |-> NoTxn]
    /\ drives = [d \in Driver |-> NoRelease]
    /\ step = [d \in Driver |-> "idle"] /\ look = [d \in Driver |-> None]
    /\ work = [r \in Release |-> 0]
    /\ ran = {} /\ overtaken = {} /\ overwrites = 0 /\ edits = 0

---------------------------------------------------------------------------
\* Transactions

\* What a transaction reads of a release (and the history it reads it in).
Row(r) == [status |-> status[r], qa |-> qa[r], test |-> test[r], work |-> work[r]]

\* Mutant of CanMove: a release that ran is cancelled like any other.
CanMoveAnywhere(r, to) ==
    /\ to \in Moves[status[r]] /\ Gate(r, to)
    /\ to = "superseded" => r \in Corrected

\* A plain transition: in the table, not out of the lane for good (abandon's
\* business), its gate open, and a correction in place if it supersedes.
CanMove(r, to) ==
    /\ to \in Moves[status[r]]
    /\ ~(status[r] \in Lane /\ to \in {"cancelled", "superseded"})
    /\ Gate(r, to)
    /\ to = "superseded" => r \in Corrected

CanAbandon(r, to) ==
    /\ status[r] \in Lane /\ to \in {"cancelled", "superseded"}
    /\ to = "superseded" => r \in Corrected

\* The pass of a stage is recorded during that stage only.
CanStamp(r, stage) == status[r] = stage /\ stage \in {"qa", "testing"}

Allowed(op, r, to) ==
    CASE op = "move" -> CanMove(r, to)
      [] op = "abandon" -> CanAbandon(r, to)
      [] op = "stamp" -> CanStamp(r, to)

Bounces(op, r, to) == op = "move" /\ to = "development" /\ status[r] \in Lane

Open(c, op, r, to, judged) ==
    /\ txn[c] = NoTxn /\ Allowed(op, r, to)
    /\ to \in Reach[r] /\ overwrites < MaxOverwrites
    /\ Bounces(op, r, to) => work[r] < MaxRework[r]
    /\ txn' = [txn EXCEPT ![c] =
                 [op |-> op, rel |-> r, to |-> to, saw |-> Row(r),
                  judged |-> judged,
                  auto |-> /\ op = "move" /\ to = "shipped"
                           /\ approval[r] = None]]

\* A scheduler's gate runner is judging r.
BeingJudged(r) ==
    \E d \in Driver : drives[d] = r /\ step[d] \in {"judge_qa", "judge_test"}

\* Mutant of IndexRefuses: the table has no such index.
NoIndex(t) == FALSE

\* uq_releases_one_in_lane: the commit of a second live release fails.
IndexRefuses(t) == t.to \in Lane /\ t.rel \notin deleted /\ ~LaneFree(t.rel)

WriteStamp(t) ==
    LET r == t.rel IN
    /\ IF t.to = "qa"
       THEN qa' = [qa EXCEPT ![r] = t.judged] /\ UNCHANGED test
       ELSE test' = [test EXCEPT ![r] = t.judged] /\ UNCHANGED qa
    /\ approval' = [approval EXCEPT ![r] = None]  \* the fingerprint changes
    /\ UNCHANGED <<status, plans, runs, work, ran, overtaken>>

\* Sent back to development from further up the lane.
Bounced(t) == t.to = "development" /\ t.saw.status \in Lane

\* Mutant of Clears: only a release sent back from testing loses its passes.
ClearsFromTesting(t, stamp) ==
    Bounced(t) /\ t.saw.status = "testing" /\ t.saw[stamp] # None

\* A bounce clears both passes; a column is written if it was read with a value.
Clears(t, stamp) == Bounced(t) /\ t.saw[stamp] # None

WriteStatus(t) ==
    LET r == t.rel
        cleared == Clears(t, "qa") \/ Clears(t, "test")
    IN
    /\ status' = [status EXCEPT ![r] = t.to]
    /\ qa' = IF Clears(t, "qa") THEN [qa EXCEPT ![r] = None] ELSE qa
    /\ test' = IF Clears(t, "test") THEN [test EXCEPT ![r] = None] ELSE test
    /\ approval' =
         IF t.auto /\ Row(r) = t.saw THEN [approval EXCEPT ![r] = work[r]]
         ELSE IF cleared THEN [approval EXCEPT ![r] = None]
         ELSE approval
    /\ plans' = IF t.op = "move" /\ t.to = "cancelled" THEN plans \ {r} ELSE plans
    /\ runs' = IF t.op = "abandon" THEN runs \cup {r} ELSE runs
    /\ work' = IF Bounced(t) THEN [work EXCEPT ![r] = @ + 1] ELSE work
    /\ ran' = IF t.to \in Lane THEN ran \cup {r} ELSE ran
    /\ overtaken' =
         IF Bounced(t) /\ BeingJudged(r) THEN overtaken \cup {r} ELSE overtaken

Commit(c) ==
    LET t == txn[c] IN
    /\ t # NoTxn /\ ~(t.op # "stamp" /\ IndexRefuses(t))
    /\ IF t.op = "stamp" THEN WriteStamp(t) ELSE WriteStatus(t)
    /\ overwrites' = IF Row(t.rel) = t.saw THEN overwrites ELSE overwrites + 1
    /\ txn' = [txn EXCEPT ![c] = NoTxn]
    /\ step' = IF c \in Driver THEN [step EXCEPT ![c] = "read"] ELSE step
    /\ UNCHANGED <<deleted, order, blockedBy, items, drives, look, edits>>

\* The exception of a refused commit ends a scheduler's run.
CommitFails(c) ==
    /\ txn[c] # NoTxn /\ txn[c].op # "stamp" /\ IndexRefuses(txn[c])
    /\ txn' = [txn EXCEPT ![c] = NoTxn]
    /\ IF c \in Driver
       THEN /\ step' = [step EXCEPT ![c] = "idle"]
            /\ drives' = [drives EXCEPT ![c] = NoRelease]
       ELSE UNCHANGED <<step, drives>>
    /\ UNCHANGED <<look, rowVars, recordVars, historyVars>>

---------------------------------------------------------------------------
\* Schedulers

Delivered == {"In Review", "Resolved"}
StoreUnchanged == UNCHANGED <<rowVars, recordVars, historyVars>>

Halt(d) ==
    /\ step' = [step EXCEPT ![d] = "idle"]
    /\ drives' = [drives EXCEPT ![d] = NoRelease]
    /\ look' = [look EXCEPT ![d] = None]
GoTo(d, s) == step' = [step EXCEPT ![d] = s] /\ UNCHANGED <<drives, look>>

Start(d, r) ==
    /\ step[d] = "idle" /\ r \in Driven \ deleted
    /\ overwrites < MaxOverwrites
    /\ drives' = [drives EXCEPT ![d] = r]
    /\ step' = [step EXCEPT ![d] = "read"]
    /\ UNCHANGED <<txn, look>> /\ StoreUnchanged

\* By hand, for any release that is not over (for one that is, it ends at once);
\* by a monitor pass, for the one it admits.
Launch(d) == \E r \in Release : status[r] \notin Terminal /\ Start(d, r)
MonitorPass(d) == \E r \in Admitted : Start(d, r)

\* decide_next on what one session reads; "idle" stands for the steps that halt.
DecideNext(r) ==
    CASE status[r] = "ready" -> "enter_lane"
      [] status[r] = "development" ->
            IF items[r] \in Delivered THEN "to_qa" ELSE "develop"
      [] status[r] = "qa" -> IF qa[r] # None THEN "to_testing" ELSE "run_qa"
      [] status[r] = "testing" ->
            IF test[r] # None THEN "to_deployment" ELSE "run_test"
      [] status[r] = "deployment" -> IF approval[r] # None THEN "ship" ELSE "idle"
      [] OTHER -> "idle"

ReadState(d) ==
    LET r == drives[d] IN
    /\ step[d] = "read"
    /\ IF r \in deleted \/ DecideNext(r) = "idle" THEN Halt(d)
       ELSE GoTo(d, DecideNext(r))
    /\ UNCHANGED txn /\ StoreUnchanged

Target == [enter_lane |-> "development", to_qa |-> "qa", to_testing |-> "testing",
           to_deployment |-> "deployment", ship |-> "shipped"]

\* A decided transition.  It was decided on an earlier read: by now it may have
\* been made by somebody else, or be refused, which ends the run.
Transition(d) ==
    LET r == drives[d]
        to == Target[step[d]]
    IN
    /\ step[d] \in DOMAIN Target /\ txn[d] = NoTxn
    /\ \/ Open(d, "move", r, to, None) /\ UNCHANGED <<drives, step, look>>
       \/ status[r] = to /\ GoTo(d, "read") /\ UNCHANGED txn
       \/ status[r] # to /\ ~CanMove(r, to) /\ Halt(d) /\ UNCHANGED txn
    /\ StoreUnchanged

\* The next planning item is handed to the build runtime, if one is eligible.
Develop(d) ==
    /\ step[d] = "develop"
    /\ IF items[drives[d]] \in Delivered THEN Halt(d) ELSE GoTo(d, "building")
    /\ UNCHANGED txn /\ StoreUnchanged

BuildEnds(d) ==
    LET r == drives[d] IN
    /\ step[d] = "building"
    /\ \/ items' = [items EXCEPT ![r] = IF @ = "open" THEN "In Review" ELSE @]
       \/ UNCHANGED items
    /\ IF items'[r] \in Delivered THEN GoTo(d, "read") ELSE Halt(d)
    /\ UNCHANGED <<rowVars, approval, runs, plans, txn, historyVars>>

\* The gate runner reads what it is to judge, and judges outside any session.
Look(d) ==
    /\ step[d] \in {"run_qa", "run_test"}
    /\ step' = [step EXCEPT ![d] = IF @ = "run_qa" THEN "judge_qa" ELSE "judge_test"]
    /\ look' = [look EXCEPT ![d] = work[drives[d]]]
    /\ UNCHANGED <<txn, drives>> /\ StoreUnchanged

\* The verdict: a pass is stamped if the release is (still or again) in that
\* stage, anything else ends the run.
Verdict(d) ==
    LET stage == IF step[d] = "judge_qa" THEN "qa" ELSE "testing" IN
    /\ step[d] \in {"judge_qa", "judge_test"} /\ txn[d] = NoTxn
    /\ \/ /\ Open(d, "stamp", drives[d], stage, look[d])
          /\ UNCHANGED <<drives, step, look>>
       \/ Halt(d) /\ UNCHANGED txn
    /\ StoreUnchanged

\* The process ends in the middle; its open transaction is rolled back.
Dies(d) ==
    /\ step[d] # "idle" /\ Halt(d)
    /\ txn' = [txn EXCEPT ![d] = NoTxn] /\ StoreUnchanged

---------------------------------------------------------------------------
\* People and other callers of the API

\* Any operation; a deleted release is left alone here (a bound: the API would
\* still move it, as a scheduler that is driving it does).
Requests(p) ==
    /\ \E r \in Release \ deleted, to \in Status :
         \/ Open(p, "move", r, to, None)
         \/ Open(p, "abandon", r, to, None)
         \/ Open(p, "stamp", r, to, work[r])
    /\ UNCHANGED <<drives, step, look>> /\ StoreUnchanged

\* A ship sign-off captures what there is when it is given, in any stage.  One
\* without both passes can never be the fresh one at the gate: left out.
Approve(r) ==
    /\ None \notin {qa[r], test[r]} /\ approval[r] # work[r]
    /\ approval' = [approval EXCEPT ![r] = work[r]]
    /\ UNCHANGED <<rowVars, items, runs, plans, clientVars, historyVars>>

ResolveItems(r) ==
    /\ items[r] # "Resolved" /\ items' = [items EXCEPT ![r] = "Resolved"]
    /\ UNCHANGED <<rowVars, approval, runs, plans, clientVars, historyVars>>

Edit(kind, r) ==
    <<kind, r>> \in Edits /\ edits < MaxEdits /\ edits' = edits + 1

\* Of a waiting release while the lane is free: only then is the order read.
SetLaneOrder(r) ==
    /\ Edit("order", r) /\ Waiting(r) /\ Occupants = {}
    /\ \E o \in LaneOrder \cup {NoOrder} :
            o # order[r] /\ order' = [order EXCEPT ![r] = o]
    /\ UNCHANGED <<status, deleted, blockedBy, qa, test, recordVars, clientVars,
                   work, ran, overtaken, overwrites>>

Delete(r) ==
    /\ Edit("delete", r) /\ r \notin deleted /\ deleted' = deleted \cup {r}
    /\ UNCHANGED <<status, order, blockedBy, qa, test, recordVars, clientVars,
                   work, ran, overtaken, overwrites>>

---------------------------------------------------------------------------
DriverNext(d) ==
    \/ Launch(d) \/ MonitorPass(d) \/ ReadState(d) \/ Transition(d)
    \/ Develop(d) \/ BuildEnds(d) \/ Look(d) \/ Verdict(d) \/ Dies(d)

Next ==
    \/ \E d \in Driver : DriverNext(d)
    \/ \E p \in Person : Requests(p)
    \/ \E c \in Client : Commit(c) \/ CommitFails(c)
    \/ \E r \in Release :
         \/ Approve(r) \/ ResolveItems(r)
         \/ SetLaneOrder(r) \/ Delete(r)

Spec == Init /\ [][Next]_vars

---------------------------------------------------------------------------
(* Properties.  overwrites > 0 marks histories in which a transaction wrote *)
(* over a change made since it read the row; what such a history may do to *)
(* one release is not held against the gates.                              *)

Txn == [op : {"move", "abandon", "stamp"}, rel : Release, to : Status,
        saw : [status : Status, qa : Nat \cup {None}, test : Nat \cup {None},
               work : Nat],
        judged : Nat \cup {None}, auto : BOOLEAN]

\* Types.
LaneTypeOK ==
    /\ status \in [Release -> Status] /\ deleted \subseteq Release
    /\ order \in [Release -> Nat \cup {NoOrder}] /\ blockedBy \in Blocking
    /\ qa \in [Release -> Nat \cup {None}] /\ test \in [Release -> Nat \cup {None}]
    /\ approval \in [Release -> Nat \cup {None}]
    /\ items \in [Release -> {"open", "In Review", "Resolved"}]
    /\ runs \subseteq Release /\ plans \subseteq Release
    /\ txn \in [Client -> Txn \cup {NoTxn}]
    /\ drives \in [Driver -> Release \cup {NoRelease}]
    /\ step \in [Driver -> Step] /\ look \in [Driver -> Nat \cup {None}]
    /\ work \in [Release -> Nat] /\ ran \subseteq Release
    /\ overtaken \subseteq Release /\ overwrites \in Nat /\ edits \in Nat

\* Single occupancy: at most one live release is in the lane, also when two
\* of them pass the gate before either has written (the unique index).
OneInLane == \A r, o \in Release : InLane(r) /\ InLane(o) => r = o

\* What ships has been judged by QA and by testing, and approved, as it is:
\* no pass and no approval from before a rework survives it (releases.py:
\* transition clears the stamps, and the sign-off's fingerprint covers them).
\* Unless the release was sent back under a verdict that was on its way.
JudgedWork ==
    \A r \in Release :
        status[r] = "shipped" /\ overwrites = 0 /\ r \notin overtaken =>
            qa[r] = work[r] /\ test[r] = work[r] /\ approval[r] = work[r]

\* A release that has been in the lane and is retired leaves a run record and
\* its decomposition as evidence, whichever way it was retired.
EvidenceKept ==
    overwrites = 0 =>
        \A r \in ran : status[r] \in {"cancelled", "superseded"} =>
                        r \in runs /\ r \in plans

\* A release goes through the lane after everything it is blocked by.
BlockersFirst ==
    overwrites = 0 =>
        \A r \in ran, b \in Release :
            <<r, b>> \in blockedBy => status[b] = "shipped"

\* The monitor never drives a waiting release that the lane-order gate refuses.
MonitorAgreesWithGate == \A r \in Admitted : Waiting(r) => OrderAllows(r)

\* A terminal release never moves again.
TerminalIsFinal ==
    [][overwrites' = 0 =>
        \A r \in Release : status[r] \in Terminal => status'[r] = status[r]]_vars

---------------------------------------------------------------------------
\* Why they hold: what is true of a release, of a transaction on it and of a
\* gate runner while no transaction wrote over another's change.

Retired == {"cancelled", "superseded"}

\* Every status stands on the verdicts before it, and each is of the present
\* work.
OnVerdicts(r) ==
    /\ status[r] \in {"testing", "deployment", "shipped"} => qa[r] # None
    /\ status[r] \in {"deployment", "shipped"} => test[r] # None
    /\ status[r] = "shipped" => approval[r] # None
    /\ approval[r] # None => qa[r] # None /\ test[r] # None
    /\ qa[r] \in {None, work[r]} /\ test[r] \in {None, work[r]}
    /\ approval[r] \in {None, work[r]}

\* Its decomposition goes only when it is cancelled without having been in the
\* lane; retired from there, it has a run record.
Recorded(r) ==
    /\ r \in ran => r \in plans /\ status[r] # "ready"
    /\ r \in ran /\ status[r] \in Retired => r \in runs
    /\ r \notin plans => status[r] = "cancelled"

\* What a transaction was let in with, by what it will do.
LetIn(t) ==
    CASE t.op = "move" ->
            /\ t.to \in Moves[t.saw.status]
            /\ ~(t.saw.status \in Lane /\ t.to \in Retired)
            /\ t.saw.status = "qa" /\ t.to = "testing" => t.saw.qa # None
            /\ t.saw.status = "testing" /\ t.to = "deployment" => t.saw.test # None
            /\ t.auto => t.to = "shipped"
      [] t.op = "abandon" -> t.saw.status \in Lane /\ t.to \in Retired /\ ~t.auto
      [] t.op = "stamp" ->
            /\ t.to = t.saw.status /\ t.to \in {"qa", "testing"}
            /\ t.rel \notin overtaken => t.judged = t.saw.work

\* What it read lies behind: nothing comes back to deployment but through a
\* rework, so a sign-off it found is there if the row is as it was.
Since(t) ==
    LET r == t.rel IN
    /\ t.saw.work <= work[r]
    /\ t.saw.status = "deployment" /\ t.saw.work = work[r] =>
          status[r] \in {"deployment"} \cup Terminal
    /\ t.op = "move" /\ t.to = "shipped" /\ ~t.auto /\ Row(r) = t.saw =>
          approval[r] # None

\* A gate runner judges the present work, or the release is marked.
OnPresent(d) ==
    step[d] \in {"judge_qa", "judge_test"} =>
        drives[d] \in overtaken \/ look[d] = work[drives[d]]

StageInv ==
    overwrites = 0 =>
        /\ \A r \in Release : Recorded(r) /\ (r \in overtaken \/ OnVerdicts(r))
        /\ \A c \in Client : txn[c] # NoTxn => LetIn(txn[c]) /\ Since(txn[c])
        /\ \A d \in Driver : OnPresent(d)
=============================================================================
