----------------------------- MODULE ItemPhases -----------------------------
(***************************************************************************)
(* The delivery of one Planning Item: AdoScheduler.run() takes it through  *)
(* Design, Develop and Test (scheduler/ado_scheduler.py) over the records  *)
(* that decomposition.py, scoping.py and lead.py keep, with the            *)
(* reconciliation gate between Design and Develop (reconciliation.py).     *)
(*                                                                         *)
(* PhaseDriver has one phase of software work in detail: its pool, its git *)
(* and its recovery pass request by request.  Here a pool is what it does  *)
(* to the records, and the phases, the gate, scoping, the lane of content  *)
(* items and the people who step in are in full.  Claimed and In Progress  *)
(* are one status here.                                                    *)
(***************************************************************************)
EXTENDS Integers, FiniteSets

CONSTANTS
    Task, PhaseOf,  \* the Work Tasks that may be scoped, PhaseOf \in [Task -> Phase]
    MaxTrouble      \* bound: faults and interventions

Phase == {"Design", "Develop", "Test"}

ASSUME PhaseAssumption == PhaseOf \in [Task -> Phase] /\ MaxTrouble \in Nat

VARIABLES
    item, mode, content,         \* the Planning Item: status, execution mode, lane
    phase, parked, flag,         \* the phases: status, Blocked, needs_attention
    task, unmerged,              \* the Work Tasks: status, Complete off the base
    finding,                     \* status of the item's blocking finding
    pc, ws, opening, tries,      \* the driver: its step and loop variables
    cleared, working, paused,    \* its pool: gate passed, agent at work
    trouble, stale, reviewed, skipped   \* the bound; history

itemVars == <<item, mode, content>>
phaseVars == <<phase, parked, flag>>
taskVars == <<task, unmerged>>
driverVars == <<pc, ws, opening, tries>>
poolVars == <<cleared, working, paused>>
ghosts == <<stale, reviewed, skipped>>
vars == <<itemVars, phaseVars, taskVars, finding, driverVars, poolVars, trouble, ghosts>>

Terminal == {"Complete", "Not Applicable"}
TasksOf(p) == {t \in Task : PhaseOf[t] = p /\ task[t] # "none"}

RowTypes ==
    /\ item \in {"Ready", "In Progress", "In Review", "Deferred", "Cancelled"}
    /\ mode \in {"ado", "unapproved", "interactive"} /\ content \in BOOLEAN
    /\ phase \in [Phase -> {"none", "Planned", "Ready", "In Progress"} \cup Terminal]
    /\ parked \subseteq Phase /\ flag \subseteq Phase
    /\ task \in [Task -> {"none", "Planned", "Ready", "In Progress", "Complete", "Blocked", "Failed"}]
    /\ unmerged \subseteq Task
    /\ finding \in {"none", "open", "referred", "resolved"}

RunTypes ==
    /\ pc \in {"off", "dispatch", "decompose", "decide", "scope", "scoped", "gate", "start",
               "pool", "complete", "reconcile", "resume", "finish"}
    /\ ws \in Phase /\ opening \in BOOLEAN /\ tries \in {0, 1}
    /\ cleared \subseteq Task /\ working \subseteq Task /\ paused \in BOOLEAN
    /\ trouble \in 0..MaxTrouble
    /\ stale \subseteq Task /\ reviewed \in BOOLEAN /\ skipped \in BOOLEAN

PhasesTypeOK == RowTypes /\ RunTypes

Init ==
    /\ item = "Ready" /\ mode \in {"ado", "unapproved"} /\ content \in BOOLEAN
    /\ phase = [p \in Phase |-> "none"] /\ parked = {} /\ flag = {}
    /\ task = [t \in Task |-> "none"] /\ unmerged = {} /\ finding = "none"
    /\ pc = "off" /\ ws = "Design" /\ opening = FALSE /\ tries = 0
    /\ cleared = {} /\ working = {} /\ paused = FALSE
    /\ trouble = 0 /\ stale = {} /\ reviewed = FALSE /\ skipped = FALSE

-----------------------------------------------------------------------------
(* The reads                                                               *)

\* Blocked is a status of its own in the code; here the row also remembers
\* where the person who parked the phase will put it back.
Status(p) == IF p \in parked THEN "Blocked" ELSE phase[p]
IsTerminal(p) == phase[p] \in Terminal

\* PHASE_SEQUENCE and its chain of blocked_by edges.
Earlier == [Design |-> {}, Develop |-> {"Design"}, Test |-> {"Design", "Develop"}]
Predecessors == [Design |-> {}, Develop |-> {"Design"}, Test |-> {"Develop"}]
PredecessorsTerminal(p) == \A q \in Predecessors[p] : IsTerminal(q)

\* The first phase that is not terminal, in canonical order.
Current(p) == ~IsTerminal(p) /\ \A q \in Earlier[p] : IsTerminal(q)

\* evaluate_develop_gate: only Develop is gated, by a settled Design and by a
\* blocking finding that is open or referred.
GateOnOpen(p) == p = "Develop" => IsTerminal("Design") /\ finding # "open"
GateAllows(p) == p = "Develop" => IsTerminal("Design") /\ finding \notin {"open", "referred"}

\* task_branch_unmerged over the Complete rows; content has no branches.
NoResidue(p) == {}
Residue(p) == IF content THEN {} ELSE {t \in TasksOf(p) : task[t] = "Complete" /\ t \in unmerged}

-----------------------------------------------------------------------------
(* The driver: launch, dispatch, decompose, decide                         *)

GoTo(step) == pc' = step /\ UNCHANGED <<ws, opening, tries>>

\* _execution_gate: an interactive or unapproved item is left alone.
Launch ==
    /\ pc = "off" /\ mode = "ado" /\ GoTo("dispatch")
    /\ UNCHANGED <<itemVars, phaseVars, taskVars, finding, poolVars, trouble, ghosts>>

\* dispatch_planning_item, if the item is startable: refused (which ends the
\* run) when it is no longer the ADO's.
Dispatch ==
    /\ pc = "dispatch"
    /\ IF item # "Ready" THEN GoTo("decompose") /\ UNCHANGED item
       ELSE IF mode = "ado" THEN GoTo("decompose") /\ item' = "In Progress"
       ELSE GoTo("off") /\ UNCHANGED item
    /\ UNCHANGED <<mode, content, phaseVars, taskVars, finding, poolVars, trouble, ghosts>>

\* decompose_planning_item: all three phases at once, and only once.
Decompose ==
    /\ pc = "decompose"
    /\ IF phase["Design"] # "none" THEN GoTo("decide") /\ UNCHANGED phase
       ELSE IF mode # "interactive"
       THEN GoTo("decide") /\ phase' = [p \in Phase |-> "Planned"]
       ELSE GoTo("off") /\ UNCHANGED phase
    /\ UNCHANGED <<itemVars, parked, flag, taskVars, finding, poolVars, trouble, ghosts>>

\* decide_next: a flag pauses, all terminal is done, else the first phase that
\* is not terminal says what to do.
Decide ==
    /\ pc = "decide" /\ UNCHANGED tries
    /\ \/ flag # {} /\ pc' = "off" /\ UNCHANGED <<ws, opening>>
       \/ /\ flag = {} /\ \A p \in Phase : IsTerminal(p)
          /\ pc' = "finish" /\ UNCHANGED <<ws, opening>>
       \/ \E p \in Phase :
             /\ flag = {} /\ Current(p) /\ ws' = p /\ opening' = (Status(p) = "Ready")
             /\ pc' = IF ~PredecessorsTerminal(p) THEN "off"
                      ELSE IF Status(p) = "Planned" THEN "scope"
                      ELSE IF Status(p) = "Ready" THEN "gate"
                      ELSE IF Status(p) = "In Progress" THEN "resume"
                      ELSE "off"
    /\ UNCHANGED <<itemVars, phaseVars, taskVars, finding, poolVars, trouble, ghosts>>

\* All phases terminal: In Review, which a Cancelled item refuses.
Finish ==
    /\ pc = "finish" /\ GoTo("off")
    /\ item' = IF item = "Cancelled" THEN item ELSE "In Review"
    /\ UNCHANGED <<mode, content, phaseVars, taskVars, finding, poolVars, trouble, ghosts>>

-----------------------------------------------------------------------------
(* Scoping                                                                 *)

\* scope_workstream: the tasks and the status in one transaction, once.
RecordScope(p, S) ==
    /\ Status(p) = "Planned" /\ mode # "interactive"
    /\ task' = [t \in Task |-> IF t \in S THEN "Planned" ELSE task[t]]
    /\ phase' = [phase EXCEPT ![p] = IF S = {} THEN "Not Applicable" ELSE "Ready"]
    /\ UNCHANGED <<parked, flag, unmerged>>

Spend == trouble < MaxTrouble /\ trouble' = trouble + 1

\* The Architect records its decision, or ends without one: refused, or
\* killed, which is trouble.
Scope ==
    /\ pc = "scope" /\ GoTo("scoped")
    /\ \/ \E S \in SUBSET {t \in Task : PhaseOf[t] = ws} : RecordScope(ws, S) /\ UNCHANGED trouble
       \/ /\ Status(ws) # "Planned" \/ mode = "interactive"
          /\ UNCHANGED <<phaseVars, taskVars, trouble>>
       \/ Spend /\ UNCHANGED <<phaseVars, taskVars>>
    /\ UNCHANGED <<itemVars, finding, poolVars, ghosts>>

\* Verified by result, with one retry.
Scoped ==
    /\ pc = "scoped" /\ UNCHANGED <<ws, opening>>
    /\ IF Status(ws) \in {"Ready", "Not Applicable"} THEN pc' = "decide" /\ tries' = 0
       ELSE IF tries = 0 THEN pc' = "scope" /\ tries' = 1
       ELSE pc' = "off" /\ tries' = 0
    /\ UNCHANGED <<itemVars, phaseVars, taskVars, finding, poolVars, trouble, ghosts>>

-----------------------------------------------------------------------------
(* Execution: START and RESUME share the tail                              *)

\* _execute_phase's own gate.  Content work has no other.
Gate ==
    /\ pc = "gate"
    /\ GoTo(IF ~GateAllows(ws) THEN "off" ELSE IF opening THEN "start" ELSE "pool")
    /\ cleared' = IF content /\ GateAllows(ws) THEN {t \in Task : PhaseOf[t] = ws} ELSE {}
    /\ stale' = {} /\ working' = {} /\ paused' = FALSE
    /\ UNCHANGED <<itemVars, phaseVars, taskVars, finding, trouble, reviewed, skipped>>

\* start_phase; a refusal (409) ends the run.
Start ==
    /\ pc = "start"
    /\ IF Status(ws) = "Ready" /\ PredecessorsTerminal(ws) /\ mode # "interactive"
       THEN /\ GoTo("pool") /\ phase' = [phase EXCEPT ![ws] = "In Progress"]
            /\ task' = [t \in Task |-> IF t \in TasksOf(ws) /\ task[t] = "Planned"
                                       THEN "Ready" ELSE task[t]]
       ELSE GoTo("off") /\ UNCHANGED <<phase, task>>
    /\ UNCHANGED <<itemVars, parked, flag, unmerged, finding, poolVars, trouble, ghosts>>

RewoundRunning(s) == IF s = "In Progress" THEN "Ready" ELSE s
Rewound(s) == IF s \in {"Planned", "In Progress", "Failed"} THEN "Ready" ELSE s

\* _resume_phase: rewind the rows, stop for residue or parked tasks, complete a
\* finished phase on the spot, or run the pool again.
Resume ==
    /\ pc = "resume"
    /\ task' = [t \in Task |-> IF t \in TasksOf(ws) THEN Rewound(task[t]) ELSE task[t]]
    /\ LET done == TasksOf(ws) # {} /\ \A t \in TasksOf(ws) : task[t] = "Complete"
           held == Residue(ws) # {} \/ \E t \in TasksOf(ws) : task[t] = "Blocked"
           completes == ~held /\ done /\ Status(ws) = "In Progress"
       IN /\ GoTo(IF held THEN "off" ELSE IF ~done THEN "gate"
                  ELSE IF completes THEN "decide" ELSE "off")
          /\ phase' = IF completes THEN [phase EXCEPT ![ws] = "Complete"] ELSE phase
          /\ skipped' = (skipped \/ (completes /\ ws = "Design"))
    /\ UNCHANGED <<itemVars, parked, flag, unmerged, finding, poolVars, trouble, stale, reviewed>>

\* complete_phase: In Progress, every task Complete; a refusal halts the item.
AlwaysDecide(p) == "decide"
AfterComplete(p) == IF p = "Design" THEN "reconcile" ELSE "decide"

CompletePhase ==
    /\ pc = "complete"
    /\ IF Status(ws) = "In Progress" /\ \A t \in TasksOf(ws) : task[t] = "Complete"
       THEN GoTo(AfterComplete(ws)) /\ phase' = [phase EXCEPT ![ws] = "Complete"]
       ELSE GoTo("off") /\ UNCHANGED phase
    /\ UNCHANGED <<itemVars, parked, flag, taskVars, finding, poolVars, trouble, ghosts>>

Raised == finding \in {"none", "resolved"} /\ finding' = "open" /\ stale' = stale \cup cleared

\* The reconciliation reviewer raises a blocking finding or none; or it cannot
\* be started or is killed at its deadline, before or after it has raised one.
\* Nothing asks which: the run goes on (reconcile_phase_agent).
Reconcile ==
    /\ pc = "reconcile" /\ GoTo("decide")
    /\ \/ reviewed' = TRUE /\ UNCHANGED <<trouble, skipped>>
       \/ Spend /\ skipped' = TRUE /\ UNCHANGED reviewed
    /\ Raised \/ UNCHANGED <<finding, stale>>
    /\ UNCHANGED <<itemVars, phaseVars, taskVars, poolVars>>

-----------------------------------------------------------------------------
(* The pool of the phase                                                   *)

InPool(t) == pc = "pool" /\ PhaseOf[t] = ws

\* _reconciliation_gate_open, asked for each task of the software pool.
AskGate(t) ==
    /\ InPool(t) /\ ~content /\ ~paused /\ task[t] = "Ready"
    /\ t \notin cleared /\ GateAllows(ws)
    /\ cleared' = cleared \cup {t} /\ stale' = stale \ {t}
    /\ UNCHANGED <<itemVars, phaseVars, taskVars, finding, driverVars, working, paused, trouble,
                   reviewed, skipped>>

\* The task goes to an agent, which claims it.
Hand(t) ==
    /\ InPool(t) /\ ~paused /\ task[t] = "Ready" /\ t \in cleared
    /\ task' = [task EXCEPT ![t] = "In Progress"] /\ working' = working \cup {t}
    /\ cleared' = IF content THEN cleared ELSE cleared \ {t}
    /\ UNCHANGED <<itemVars, phaseVars, unmerged, finding, driverVars, paused, trouble, ghosts>>

\* The agent delivers and its branch lands; or a software task is Complete but
\* does not merge, fails or was parked: the pool pauses and flags the phase as
\* well as it can (a flag write that fails is logged).  A content agent leaves
\* the row as it is, and a Tester that rejects parks it with a finding.
Deliver(t) ==
    /\ task[t] = "In Progress" /\ task' = [task EXCEPT ![t] = "Complete"]
    /\ UNCHANGED <<flag, unmerged, finding, paused, trouble, stale>>

PausesPool(t) ==
    /\ ~content /\ paused' = TRUE /\ flag' \in {flag, flag \cup {ws}}
    /\ IF task[t] = "In Progress" THEN Spend ELSE UNCHANGED trouble
    /\ \/ UNCHANGED <<task, unmerged>>
       \/ /\ task[t] = "In Progress" /\ task' = [task EXCEPT ![t] = "Complete"]
          /\ unmerged' = unmerged \cup {t}
       \/ /\ task[t] = "In Progress" /\ task' = [task EXCEPT ![t] = "Failed"]
          /\ UNCHANGED unmerged
    /\ UNCHANGED <<finding, stale>>

LeavesRow(t) ==
    /\ content /\ UNCHANGED <<flag, unmerged, paused>>
    /\ IF task[t] = "In Progress" THEN Spend ELSE UNCHANGED trouble
    /\ \/ UNCHANGED <<task, finding, stale>>
       \/ /\ ws = "Test" /\ task[t] = "In Progress"
          /\ task' = [task EXCEPT ![t] = "Blocked"] /\ Raised

AgentEnds(t) ==
    /\ t \in working /\ working' = working \ {t}
    /\ Deliver(t) \/ PausesPool(t) \/ LeavesRow(t)
    /\ UNCHANGED <<itemVars, phase, parked, driverVars, cleared, reviewed, skipped>>

\* The software pool stops when nothing is in flight and it is paused or has
\* nothing left that passes the gate (a gate read that fails does not pass);
\* the content agent may stop at any time and its rows are read back.
PoolReturns ==
    /\ pc = "pool" /\ working = {}
    /\ LET ready == {t \in TasksOf(ws) : task[t] = "Ready"}
           unread == \E t \in ready : GateAllows(ws)
           pending == \E t \in TasksOf(ws) : task[t] \notin {"Complete", "Blocked"}
       IN /\ IF unread /\ ~paused
             THEN Spend /\ (content \/ ready \cap cleared = {})
             ELSE UNCHANGED trouble
          /\ GoTo(IF paused \/ (content /\ pending) THEN "off" ELSE "complete")
    /\ UNCHANGED <<itemVars, phaseVars, taskVars, finding, poolVars, ghosts>>

-----------------------------------------------------------------------------
(* The rest of the world                                                   *)

Apart == UNCHANGED <<driverVars, poolVars, reviewed, skipped>>

\* The process is gone, and its agents with it.
Crash ==
    /\ pc # "off" /\ Spend
    /\ pc' = "off" /\ tries' = 0 /\ working' = {}
    /\ skipped' = (skipped \/ pc = "reconcile")
    /\ UNCHANGED <<itemVars, phaseVars, taskVars, finding, ws, opening, cleared, paused, stale, reviewed>>

\* Somebody parks a phase or a task, scopes one more task, raises a finding,
\* takes the item from the ADO, shelves or cancels it.
Intervene ==
    /\ Spend /\ Apart
    /\ \/ /\ \E p \in Phase : phase[p] \in {"Planned", "Ready", "In Progress"} /\ parked' = parked \cup {p}
          /\ UNCHANGED <<itemVars, phase, flag, taskVars, finding, stale>>
       \/ /\ \E t \in Task :
                \/ task[t] \in {"Planned", "Ready", "In Progress"} /\ task' = [task EXCEPT ![t] = "Blocked"]
                \/ /\ task[t] = "none" /\ phase[PhaseOf[t]] \in {"Ready", "In Progress"}
                   /\ task' = [task EXCEPT ![t] = "Planned"]
          /\ UNCHANGED <<itemVars, phaseVars, unmerged, finding, stale>>
       \/ Raised /\ UNCHANGED <<itemVars, phaseVars, taskVars>>
       \/ /\ mode' \in {"unapproved", "interactive"} \ {mode}
          /\ UNCHANGED <<item, content, phaseVars, taskVars, finding, stale>>
       \/ /\ item \in {"Ready", "In Progress"} /\ item' \in {"Deferred", "Cancelled"}
          /\ UNCHANGED <<mode, content, phaseVars, taskVars, finding, stale>>

\* People do what they are asked to.
Clear == flag # {} /\ flag' = {} /\ UNCHANGED <<phase, parked, taskVars, finding, item, mode>>
Merge == unmerged # {} /\ unmerged' = {} /\ UNCHANGED <<phaseVars, task, finding, item, mode>>
Unpark == parked # {} /\ parked' = {} /\ UNCHANGED <<phase, flag, taskVars, finding, item, mode>>
Unblock ==
    /\ \E t \in Task : task[t] = "Blocked" /\ task' = [task EXCEPT ![t] = "Ready"]
    /\ UNCHANGED <<phaseVars, unmerged, finding, item, mode>>
Settle == finding \in {"open", "referred"} /\ finding' = "resolved" /\ UNCHANGED <<phaseVars, taskVars, item, mode>>
Refer ==
    /\ finding' = "referred" /\ finding = "open"
    /\ UNCHANGED <<phaseVars, taskVars, item, mode>>
Approve == mode # "ado" /\ mode' = "ado" /\ UNCHANGED <<phaseVars, taskVars, finding, item>>
Resumed == item = "Deferred" /\ item' = "In Progress" /\ UNCHANGED <<phaseVars, taskVars, finding, mode>>
ScopeByHand ==
    /\ \E p \in Phase : \E S \in SUBSET {t \in Task : PhaseOf[t] = p} :
          phase[p] = "Planned" /\ Current(p) /\ pc = "off" /\ RecordScope(p, S)
    /\ UNCHANGED <<finding, item, mode>>

Helped(step) == step /\ UNCHANGED <<content, trouble, stale>> /\ Apart

Driver ==
    \/ Dispatch \/ Decompose \/ Decide \/ Finish \/ Scope \/ Scoped \/ Gate \/ Start \/ Resume
    \/ CompletePhase \/ Reconcile \/ PoolReturns
    \/ \E t \in Task : AskGate(t) \/ Hand(t) \/ AgentEnds(t)

People ==
    \/ Helped(Clear) \/ Helped(Merge) \/ Helped(Unpark) \/ Helped(Unblock) \/ Helped(Settle)
    \/ Helped(Refer) \/ Helped(Approve) \/ Helped(Resumed) \/ Helped(ScopeByHand)

Next == Launch \/ Driver \/ Crash \/ Intervene \/ People

Spec == Init /\ [][Next]_vars

FairSpec ==
    /\ Spec /\ WF_vars(Launch) /\ WF_vars(Driver)
    /\ WF_vars(Helped(Clear)) /\ WF_vars(Helped(Merge)) /\ WF_vars(Helped(Unpark))
    /\ WF_vars(Helped(Unblock)) /\ WF_vars(Helped(Settle)) /\ WF_vars(Helped(Approve))

-----------------------------------------------------------------------------
(* Correctness                                                             *)

\* No Develop task is handed to an agent over an unsettled Design or an open
\* or referred blocking finding, but for a finding raised after the gate was
\* asked for that task (for content work, for its phase).
DevelopIsGated ==
    [][\A t \in Task : task[t] = "Ready" /\ task'[t] = "In Progress" /\ PhaseOf[t] = "Develop" =>
          t \in stale \/ (phase["Design"] \in {"Complete", "Not Applicable"}
                            /\ finding \in {"none", "resolved"})]_vars

\* The driver takes an item to In Review only when every phase is terminal and
\* every task that was ever scoped is Complete, its branch on the base.
DeliveredWhole ==
    [][item' = "In Review" /\ item # "In Review" =>
          /\ \A p \in Phase : phase[p] \in {"Complete", "Not Applicable"}
          /\ unmerged = {} /\ \A t \in Task : task[t] \in {"none", "Complete"}]_vars

\* A Design that is Complete was reviewed before anything is built on it,
\* unless a run died between the two, a resume found its tasks done, or the
\* reviewer itself failed to start or overran its deadline.
DesignIsReviewed ==
    \A t \in Task : task[t] = "In Progress" /\ PhaseOf[t] = "Develop" /\ phase["Design"] = "Complete" =>
        reviewed \/ skipped

\* An item whose flags, parked rows, conflicts, findings and approvals people
\* deal with reaches In Review, whatever died or was refused on the way.
ItemIsDelivered == <>(item \in {"In Review", "Cancelled"})
=============================================================================
