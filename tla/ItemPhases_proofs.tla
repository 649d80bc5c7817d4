------------------------- MODULE ItemPhases_proofs -------------------------
(***************************************************************************)
(* The phases of a Planning Item (ItemPhases), for any tasks and number of *)
(* troubles: Develop is gated, what is built was reviewed, and what is     *)
(* delivered is whole.                                                     *)
(***************************************************************************)
EXTENDS ItemPhases, TLAPS

-----------------------------------------------------------------------------
(* How a step may move a phase, a task and what is off the base            *)

\* The steps that leave the statuses of the phases alone.
QuietPhases ==
    \/ Launch \/ Dispatch \/ Decide \/ Finish \/ Scoped \/ Gate \/ Reconcile \/ PoolReturns
    \/ Crash \/ Intervene
    \/ \E t \in Task : AskGate(t) \/ Hand(t) \/ AgentEnds(t)

LEMMA QuietStep ==
  ASSUME QuietPhases
  PROVE  phase' = phase
<1>1. CASE Launch \/ Dispatch \/ Decide \/ Finish \/ Scoped
  BY <1>1 DEF Launch, Dispatch, Decide, Finish, Scoped, phaseVars
<1>2. CASE Gate \/ Reconcile \/ PoolReturns \/ Crash
  BY <1>2 DEF Gate, Reconcile, PoolReturns, Crash, phaseVars
<1>3. CASE Intervene
  BY <1>3 DEF Intervene, phaseVars
<1>4. CASE \E t \in Task : AskGate(t) \/ Hand(t) \/ AgentEnds(t)
  BY <1>4 DEF AskGate, Hand, AgentEnds, phaseVars
<1> QED
  BY <1>1, <1>2, <1>3, <1>4 DEF QuietPhases

PhaseMove(p) ==
    \/ phase'[p] = phase[p]
    \/ phase["Design"] = "none" /\ phase'["Design"] = "Planned" /\ phase'[p] = "Planned"
    \/ phase[p] = "Planned" /\ phase'[p] \in {"Ready", "Not Applicable"}
    \/ /\ pc = "start" /\ phase[p] = "Ready" /\ phase'[p] = "In Progress"
       /\ \A q \in Predecessors[p] : IsTerminal(q)
    \/ /\ pc \in {"complete", "resume"} /\ p = ws
       /\ phase[p] = "In Progress" /\ phase'[p] = "Complete"
       /\ \A t \in TasksOf(p) : task[t] = "Complete"
       /\ pc = "resume" => Residue(p) = {}
       /\ pc' = "decide" \/ pc' = "reconcile"
       /\ p = "Design" => pc' = "reconcile" \/ skipped'

LEMMA PhaseStep ==
  ASSUME RowTypes, RunTypes, [Next]_vars, NEW p \in Phase
  PROVE  PhaseMove(p)
<1>1. CASE QuietPhases \/ UNCHANGED vars
  BY <1>1, QuietStep DEF PhaseMove, vars, phaseVars
<1>2. CASE Decompose
  BY <1>2 DEF PhaseMove, Decompose, RowTypes, Phase
<1>3. CASE Scope
  BY <1>3 DEF PhaseMove, Scope, RecordScope, Status, phaseVars, RowTypes, RunTypes
<1>4. CASE Start
  BY <1>4 DEF PhaseMove, Start, Status, PredecessorsTerminal, RowTypes, RunTypes
<1>5. CASE CompletePhase
  <2>1. CASE phase' = phase
    BY <2>1 DEF PhaseMove
  <2>2. CASE phase' # phase
    <3>1. /\ pc = "complete" /\ phase[ws] = "In Progress" /\ \A t \in TasksOf(ws) : task[t] = "Complete"
          /\ pc' = AfterComplete(ws) /\ phase' = [phase EXCEPT ![ws] = "Complete"]
      BY <1>5, <2>2 DEF CompletePhase, GoTo, Status
    <3>2. CASE p = ws
      BY <3>1, <3>2 DEF PhaseMove, AfterComplete, RowTypes, RunTypes
    <3>3. CASE p # ws
      BY <3>1, <3>3 DEF PhaseMove, RowTypes
    <3> QED
      BY <3>2, <3>3
  <2> QED
    BY <2>1, <2>2
<1>6. CASE Resume
  BY <1>6 DEF PhaseMove, Resume, GoTo, Status, RowTypes, RunTypes
<1>7. CASE People
  <2>1. phase' = phase \/ ScopeByHand
    BY <1>7 DEF People, Helped, Clear, Merge, Unpark, Unblock, Settle, Refer, Approve, Resumed, phaseVars
  <2> QED
    BY <2>1 DEF PhaseMove, ScopeByHand, RecordScope, Status, RowTypes
<1> QED
  BY <1>1, <1>2, <1>3, <1>4, <1>5, <1>6, <1>7 DEF Next, Driver, QuietPhases

\* A task is scoped with its phase or added to one that is not terminal; it is
\* rewound, parked or failed, handed out, or delivered.
TaskMove(t) ==
    \/ task'[t] = task[t]
    \/ /\ task[t] = "none" /\ task'[t] = "Planned"
       /\ \/ phase[PhaseOf[t]] = "Planned" /\ phase'[PhaseOf[t]] = "Ready"
          \/ phase[PhaseOf[t]] \in {"Ready", "In Progress"} /\ phase' = phase
    \/ /\ task[t] \notin {"none", "Complete"} /\ task'[t] \in {"Ready", "Blocked", "Failed"}
    \/ /\ task[t] = "Ready" /\ task'[t] = "In Progress" /\ t \in cleared
       /\ pc = "pool" /\ PhaseOf[t] = ws /\ phase' = phase
    \/ /\ task[t] = "In Progress" /\ task'[t] = "Complete" /\ t \in working /\ phase' = phase

QuietTasks ==
    \/ Launch \/ Dispatch \/ Decompose \/ Decide \/ Finish \/ Scoped \/ Gate \/ CompletePhase
    \/ Reconcile \/ PoolReturns \/ Crash \/ \E t \in Task : AskGate(t)

LEMMA QuietTaskStep ==
  ASSUME QuietTasks
  PROVE  task' = task /\ unmerged' = unmerged
<1>1. CASE Launch \/ Dispatch \/ Decompose \/ Decide \/ Finish \/ Scoped
  BY <1>1 DEF Launch, Dispatch, Decompose, Decide, Finish, Scoped, taskVars
<1>2. CASE Gate \/ CompletePhase \/ Reconcile \/ PoolReturns \/ Crash
  BY <1>2 DEF Gate, CompletePhase, Reconcile, PoolReturns, Crash, taskVars
<1>3. CASE \E t \in Task : AskGate(t)
  BY <1>3 DEF AskGate, taskVars
<1> QED
  BY <1>1, <1>2, <1>3 DEF QuietTasks

\* Scoping, by the Architect or by hand.
LEMMA ScopeMove ==
  ASSUME RowTypes, RunTypes, NEW p \in Phase, NEW S \in SUBSET {u \in Task : PhaseOf[u] = p},
         RecordScope(p, S), \A u \in Task : phase[PhaseOf[u]] \in {"none", "Planned"} => task[u] = "none",
         NEW t \in Task
  PROVE  TaskMove(t)
<1>1. phase[p] = "Planned"
  BY DEF RecordScope, Status
<1>2. CASE t \notin S
  BY <1>2 DEF RecordScope, TaskMove
<1>3. CASE t \in S
  <2>1. PhaseOf[t] = p /\ S # {} /\ task[t] = "none" /\ task'[t] = "Planned"
    BY <1>1, <1>3 DEF RecordScope
  <2>2. phase'[p] = "Ready"
    BY <2>1 DEF RecordScope, RowTypes
  <2> QED
    BY <1>1, <2>1, <2>2 DEF TaskMove
<1> QED
  BY <1>2, <1>3

LEMMA TaskStep ==
  ASSUME RowTypes, RunTypes, [Next]_vars, NEW t \in Task,
         \A u \in Task : phase[PhaseOf[u]] \in {"none", "Planned"} => task[u] = "none"
  PROVE  TaskMove(t)
<1>1. CASE QuietTasks \/ UNCHANGED vars
  BY <1>1, QuietTaskStep DEF TaskMove, vars, taskVars
<1>2. CASE Scope
  <2>1. CASE task' = task
    BY <2>1 DEF TaskMove
  <2>2. ASSUME NEW S \in SUBSET {u \in Task : PhaseOf[u] = ws}, RecordScope(ws, S)
        PROVE  TaskMove(t)
    BY <2>2, ScopeMove DEF RunTypes
  <2> QED
    BY <1>2, <2>1, <2>2 DEF Scope, taskVars
<1>3. CASE Start
  BY <1>3 DEF TaskMove, Start, TasksOf
<1>4. CASE Resume
  BY <1>4 DEF TaskMove, Resume, TasksOf, Rewound
<1>5. CASE \E u \in Task : Hand(u)
  BY <1>5 DEF TaskMove, Hand, InPool, RowTypes, phaseVars
<1>6. CASE \E u \in Task : AgentEnds(u)
  <2>1. PICK u \in Task : AgentEnds(u)
    BY <1>6
  <2>2. u \in working /\ phase' = phase
    BY <2>1 DEF AgentEnds
  <2>3. \/ task' = task
        \/ /\ task[u] = "In Progress"
           /\ \E s \in {"Complete", "Failed", "Blocked"} : task' = [task EXCEPT ![u] = s]
    BY <2>1 DEF AgentEnds, Deliver, PausesPool, LeavesRow
  <2> QED
    BY <2>2, <2>3 DEF TaskMove, RowTypes
<1>7. CASE Intervene
  <2>1. \/ task' = task
        \/ \E u \in Task : task[u] \in {"Planned", "Ready", "In Progress"} /\ task' = [task EXCEPT ![u] = "Blocked"]
        \/ \E u \in Task : /\ task[u] = "none" /\ phase[PhaseOf[u]] \in {"Ready", "In Progress"}
                           /\ task' = [task EXCEPT ![u] = "Planned"] /\ phase' = phase
    BY <1>7 DEF Intervene, taskVars, phaseVars
  <2> QED
    BY <2>1 DEF TaskMove, RowTypes
<1>8. CASE People
  <2>1. task' = task \/ Unblock \/ ScopeByHand
    BY <1>8 DEF People, Helped, Clear, Merge, Unpark, Settle, Refer, Approve, Resumed, taskVars
  <2>2. CASE Unblock
    BY <2>2 DEF Unblock, TaskMove, RowTypes
  <2>3. CASE ScopeByHand
    BY <2>3, ScopeMove DEF ScopeByHand
  <2> QED
    BY <2>1, <2>2, <2>3 DEF TaskMove
<1> QED
  BY <1>1, <1>2, <1>3, <1>4, <1>5, <1>6, <1>7, <1>8 DEF Next, Driver, QuietTasks

\* What comes off the base is a delivery of the running pool, which pauses.
LEMMA UnmergedStep ==
  ASSUME RowTypes, RunTypes, [Next]_vars, NEW t \in unmerged', t \notin unmerged
  PROVE  /\ t \in working /\ task[t] = "In Progress" /\ task'[t] = "Complete"
         /\ paused' /\ ~content /\ UNCHANGED <<phase, content, driverVars>>
<1>1. \E u \in Task : AgentEnds(u)
  <2>1. ~(QuietTasks \/ UNCHANGED vars)
    BY QuietTaskStep DEF vars, taskVars
  <2>2. ~(Scope \/ Start \/ Resume)
    BY DEF Scope, RecordScope, Start, Resume, taskVars
  <2>3. ~(Intervene \/ \E u \in Task : Hand(u))
    BY DEF Intervene, Hand, taskVars
  <2>4. ~People
    BY DEF People, Helped, Clear, Merge, Unpark, Unblock, Settle, Refer, Approve, Resumed,
           ScopeByHand, RecordScope, taskVars
  <2> QED
    BY <2>1, <2>2, <2>3, <2>4 DEF Next, Driver, QuietTasks
<1>2. PICK u \in Task : AgentEnds(u)
  BY <1>1
<1>3. PausesPool(u)
  BY <1>2 DEF AgentEnds, Deliver, LeavesRow
<1>4. /\ task[u] = "In Progress" /\ task' = [task EXCEPT ![u] = "Complete"]
      /\ unmerged' = unmerged \cup {u} /\ paused' /\ ~content
  BY <1>3 DEF PausesPool
<1> QED
  BY <1>2, <1>4 DEF AgentEnds, RowTypes, itemVars


-----------------------------------------------------------------------------
(* Types                                                                   *)

LEMMA RowTypeStep ==
  ASSUME RowTypes, RunTypes, [Next]_vars
  PROVE  RowTypes'
<1>1. CASE Launch \/ Dispatch \/ Decide \/ Finish \/ Scoped \/ UNCHANGED vars
  BY <1>1 DEF RowTypes, Launch, Dispatch, Decide, Finish, Scoped, vars, itemVars, phaseVars, taskVars
<1>2. CASE Gate \/ PoolReturns \/ Crash \/ \E t \in Task : AskGate(t)
  BY <1>2 DEF RowTypes, Gate, PoolReturns, Crash, AskGate, itemVars, phaseVars, taskVars
<1>3. CASE Reconcile
  BY <1>3 DEF RowTypes, Reconcile, Raised, itemVars, phaseVars, taskVars
<1>4. CASE Decompose
  BY <1>4 DEF RowTypes, Decompose, itemVars, taskVars
<1>5. ASSUME NEW p \in Phase, NEW S \in SUBSET {t \in Task : PhaseOf[t] = p}, RecordScope(p, S),
             UNCHANGED <<itemVars, finding>>
      PROVE  RowTypes'
  <2>1. phase' \in [Phase -> {"none", "Planned", "Ready", "In Progress"} \cup Terminal]
    BY <1>5 DEF RowTypes, RecordScope, Terminal
  <2>2. task' \in [Task -> {"none", "Planned", "Ready", "In Progress", "Complete", "Blocked", "Failed"}]
    BY <1>5 DEF RowTypes, RecordScope
  <2> QED
    BY <1>5, <2>1, <2>2 DEF RowTypes, RecordScope, itemVars
<1>6. CASE Scope
  <2>1. CASE UNCHANGED <<phaseVars, taskVars>>
    BY <1>6, <2>1 DEF RowTypes, Scope, itemVars, phaseVars, taskVars
  <2> QED
    BY <1>5, <1>6, <2>1 DEF Scope, RunTypes
<1>7. CASE Start
  <2>1. phase' \in [Phase -> {"none", "Planned", "Ready", "In Progress"} \cup Terminal]
    BY <1>7 DEF RowTypes, RunTypes, Start
  <2>2. task' \in [Task -> {"none", "Planned", "Ready", "In Progress", "Complete", "Blocked", "Failed"}]
    BY <1>7 DEF RowTypes, Start
  <2> QED
    BY <1>7, <2>1, <2>2 DEF RowTypes, Start, itemVars
<1>8. CASE Resume
  <2>1. phase' \in [Phase -> {"none", "Planned", "Ready", "In Progress"} \cup Terminal]
    BY <1>8 DEF RowTypes, RunTypes, Resume, Terminal
  <2>2. task' \in [Task -> {"none", "Planned", "Ready", "In Progress", "Complete", "Blocked", "Failed"}]
    BY <1>8 DEF RowTypes, Resume, Rewound
  <2> QED
    BY <1>8, <2>1, <2>2 DEF RowTypes, Resume, itemVars
<1>9. CASE CompletePhase
  <2>1. phase' \in [Phase -> {"none", "Planned", "Ready", "In Progress"} \cup Terminal]
    BY <1>9 DEF RowTypes, RunTypes, CompletePhase, Terminal
  <2> QED
    BY <1>9, <2>1 DEF RowTypes, CompletePhase, itemVars, taskVars
<1>10. CASE \E t \in Task : Hand(t)
  BY <1>10 DEF RowTypes, Hand, itemVars, phaseVars
<1>11. CASE \E t \in Task : AgentEnds(t)
  <2>1. PICK t \in Task : AgentEnds(t)
    BY <1>11
  <2>2. CASE Deliver(t)
    BY <2>1, <2>2 DEF RowTypes, AgentEnds, Deliver, itemVars
  <2>3. CASE PausesPool(t)
    BY <2>1, <2>3 DEF RowTypes, RunTypes, AgentEnds, PausesPool, itemVars
  <2>4. CASE LeavesRow(t)
    BY <2>1, <2>4 DEF RowTypes, AgentEnds, LeavesRow, Raised, itemVars
  <2> QED
    BY <2>1, <2>2, <2>3, <2>4 DEF AgentEnds
<1>12. CASE Intervene
  <2>1. task' \in [Task -> {"none", "Planned", "Ready", "In Progress", "Complete", "Blocked", "Failed"}]
    BY <1>12 DEF RowTypes, Intervene, taskVars
  <2>2. /\ phase' = phase /\ flag' = flag /\ parked' \subseteq Phase /\ unmerged' = unmerged
        /\ finding' \in {finding, "open"}
    BY <1>12 DEF RowTypes, Intervene, Raised, phaseVars, taskVars
  <2>3. /\ item' \in {item, "Deferred", "Cancelled"} /\ mode' \in {mode, "unapproved", "interactive"}
        /\ content' = content
    BY <1>12 DEF Intervene, itemVars
  <2> QED
    BY <2>1, <2>2, <2>3 DEF RowTypes
<1>13. CASE People
  <2>1. CASE Helped(Clear) \/ Helped(Merge) \/ Helped(Unpark) \/ Helped(Settle)
    BY <2>1 DEF RowTypes, Helped, Clear, Merge, Unpark, Settle, phaseVars, taskVars
  <2>2. CASE Helped(Unblock) \/ Helped(Refer) \/ Helped(Approve) \/ Helped(Resumed)
    BY <2>2 DEF RowTypes, Helped, Unblock, Refer, Approve, Resumed, phaseVars, taskVars
  <2>3. CASE Helped(ScopeByHand)
    BY <2>3, <1>5 DEF Helped, ScopeByHand, itemVars
  <2> QED
    BY <1>13, <2>1, <2>2, <2>3 DEF People
<1> QED
  BY <1>1, <1>2, <1>3, <1>4, <1>6, <1>7, <1>8, <1>9, <1>10, <1>11, <1>12, <1>13 DEF Next, Driver

LEMMA SpendType ==
  ASSUME Spend, trouble \in 0..MaxTrouble
  PROVE  trouble' \in 0..MaxTrouble
BY PhaseAssumption DEF Spend

LEMMA RunTypeStep ==
  ASSUME RowTypes, RunTypes, [Next]_vars
  PROVE  RunTypes'
<1>0. trouble' = trouble \/ Spend => trouble' \in 0..MaxTrouble
  BY SpendType DEF RunTypes
<1>1. CASE Launch \/ Dispatch \/ Decompose \/ Finish \/ UNCHANGED vars
  BY <1>1 DEF RunTypes, Launch, Dispatch, Decompose, Finish, GoTo, vars, driverVars, poolVars, ghosts
<1>2. CASE Decide \/ Scoped
  BY <1>2 DEF RunTypes, Decide, Scoped, poolVars, ghosts
<1>3. CASE Scope
  BY <1>0, <1>3 DEF RunTypes, Scope, GoTo, poolVars, ghosts
<1>4. CASE Gate
  BY <1>4 DEF RunTypes, Gate, GoTo
<1>5. CASE Start \/ CompletePhase
  BY <1>5 DEF RunTypes, Start, CompletePhase, AfterComplete, GoTo, poolVars, ghosts
<1>6. CASE Resume
  BY <1>6 DEF RunTypes, Resume, GoTo, poolVars
<1>7. CASE Reconcile
  BY <1>0, <1>7 DEF RunTypes, Reconcile, Raised, GoTo, poolVars
<1>8. CASE PoolReturns \/ Crash
  BY <1>0, <1>8 DEF RunTypes, PoolReturns, Crash, GoTo, poolVars, ghosts
<1>9. CASE \E t \in Task : AskGate(t) \/ Hand(t)
  BY <1>9 DEF RunTypes, AskGate, Hand, driverVars, ghosts
<1>10. CASE \E t \in Task : AgentEnds(t)
  <2>1. PICK t \in Task : AgentEnds(t)
    BY <1>10
  <2>2. /\ UNCHANGED <<driverVars, cleared, reviewed, skipped>> /\ working' \subseteq working
        /\ paused' \in BOOLEAN /\ stale' \subseteq Task
    BY <2>1 DEF RunTypes, AgentEnds, Deliver, PausesPool, LeavesRow, Raised
  <2>3. trouble' = trouble \/ Spend
    BY <2>1 DEF AgentEnds, Deliver, PausesPool, LeavesRow
  <2> QED
    BY <1>0, <2>2, <2>3 DEF RunTypes, driverVars
<1>11. CASE Intervene
  BY <1>0, <1>11 DEF RunTypes, Intervene, Apart, Raised, driverVars, poolVars
<1>12. CASE People
  <2>1. Apart /\ UNCHANGED <<trouble, stale>>
    BY <1>12 DEF People, Helped
  <2> QED
    BY <2>1 DEF RunTypes, Apart, driverVars, poolVars
<1> QED
  BY <1>1, <1>2, <1>3, <1>4, <1>5, <1>6, <1>7, <1>8, <1>9, <1>10, <1>11, <1>12 DEF Next, Driver

-----------------------------------------------------------------------------
(* How a step may move the driver, what it has reviewed and its gate       *)

DriverMove ==
    \/ UNCHANGED driverVars
    \/ pc' \in {"off", "dispatch", "decompose", "decide", "scope", "scoped", "reconcile"}
    \/ pc' = "finish" /\ \A p \in Phase : IsTerminal(p)
    \/ pc' = "gate" /\ opening' /\ phase[ws'] = "Ready" /\ phase' = phase
    \/ pc' = "resume" /\ phase[ws'] = "In Progress" /\ phase' = phase
    \/ pc = "gate" /\ pc' = "start" /\ ws' = ws
    \/ pc = "gate" /\ ~opening /\ pc' = "pool" /\ ws' = ws /\ phase' = phase
    \/ pc = "start" /\ pc' = "pool" /\ ws' = ws /\ phase'[ws] = "In Progress"
    \/ pc = "resume" /\ pc' = "gate" /\ ws' = ws /\ phase' = phase /\ Residue(ws) = {}
    \/ pc = "pool" /\ ~paused /\ pc' = "complete" /\ ws' = ws /\ phase' = phase

\* The steps of the world, and of the pool, that leave the driver where it is.
LEMMA DriverStays ==
  ASSUME People \/ Intervene \/ UNCHANGED vars \/ \E t \in Task : AskGate(t) \/ Hand(t) \/ AgentEnds(t)
  PROVE  UNCHANGED driverVars
<1>1. CASE People
  BY <1>1 DEF People, Helped, Apart
<1>2. CASE Intervene \/ UNCHANGED vars
  BY <1>2 DEF Intervene, Apart, vars
<1>3. CASE \E t \in Task : AskGate(t) \/ Hand(t) \/ AgentEnds(t)
  BY <1>3 DEF AskGate, Hand, AgentEnds
<1> QED
  BY <1>1, <1>2, <1>3

LEMMA DriverStep ==
  ASSUME RowTypes, RunTypes, [Next]_vars
  PROVE  DriverMove
<1>1. CASE People \/ Intervene \/ UNCHANGED vars \/ \E t \in Task : AskGate(t) \/ Hand(t) \/ AgentEnds(t)
  BY <1>1, DriverStays DEF DriverMove
<1>2. CASE Launch \/ Dispatch \/ Decompose \/ Finish \/ Scope \/ Scoped \/ Reconcile \/ Crash
  BY <1>2 DEF DriverMove, Launch, Dispatch, Decompose, Finish, Scope, Scoped, Reconcile, Crash, GoTo
<1>3. CASE CompletePhase
  BY <1>3 DEF DriverMove, CompletePhase, AfterComplete, GoTo
<1>4. CASE Decide
  BY <1>4 DEF DriverMove, Decide, Status, RowTypes, RunTypes, phaseVars
<1>5. CASE Gate
  BY <1>5 DEF DriverMove, Gate, GoTo, phaseVars
<1>6. CASE Start
  BY <1>6 DEF DriverMove, Start, GoTo, RowTypes, RunTypes
<1>7. CASE Resume
  BY <1>7 DEF DriverMove, Resume, GoTo
<1>8. CASE PoolReturns
  BY <1>8 DEF DriverMove, PoolReturns, GoTo, phaseVars
<1> QED
  BY <1>1, <1>2, <1>3, <1>4, <1>5, <1>6, <1>7, <1>8 DEF Next, Driver

\* A review is never undone, and is missed only by a run that dies.
ReviewMove ==
    /\ reviewed => reviewed'
    /\ skipped => skipped'
    /\ pc = "reconcile" => pc' = "reconcile" \/ reviewed' \/ skipped'

LEMMA ReviewStep ==
  ASSUME RunTypes, [Next]_vars
  PROVE  ReviewMove
<1>1. CASE People \/ Intervene \/ UNCHANGED vars \/ \E t \in Task : AskGate(t) \/ Hand(t) \/ AgentEnds(t)
  <2>1. pc' = pc
    BY <1>1, DriverStays DEF driverVars
  <2>2. reviewed' = reviewed /\ skipped' = skipped
    BY <1>1 DEF People, Helped, Apart, Intervene, vars, ghosts, AskGate, Hand, AgentEnds
  <2> QED
    BY <2>1, <2>2 DEF ReviewMove
<1>2. CASE Launch \/ Dispatch \/ Decompose \/ Finish \/ Scope \/ Scoped \/ Decide
  BY <1>2 DEF ReviewMove, RunTypes, Launch, Dispatch, Decompose, Finish, Scope, Scoped, Decide, GoTo, ghosts
<1>3. CASE CompletePhase \/ Gate \/ Start \/ PoolReturns
  BY <1>3 DEF ReviewMove, RunTypes, CompletePhase, Gate, Start, PoolReturns, ghosts
<1>4. CASE Resume \/ Reconcile \/ Crash
  BY <1>4 DEF ReviewMove, RunTypes, Resume, Reconcile, Crash
<1> QED
  BY <1>1, <1>2, <1>3, <1>4 DEF Next, Driver

\* The agents at work are those of the running pool, which never unpauses.
PoolMove ==
    /\ \A t \in working' : t \in working \/ (pc = "pool" /\ PhaseOf[t] = ws)
    /\ pc = "pool" /\ working' # {} => UNCHANGED <<pc, ws>>
    /\ pc = "pool" /\ pc' = "pool" => (paused => paused')

LEMMA PoolStep ==
  ASSUME [Next]_vars
  PROVE  PoolMove
<1>1. CASE People \/ Intervene \/ UNCHANGED vars
  <2>1. UNCHANGED driverVars
    BY <1>1, DriverStays
  <2>2. UNCHANGED poolVars
    BY <1>1 DEF People, Helped, Apart, Intervene, vars
  <2> QED
    BY <2>1, <2>2 DEF PoolMove, driverVars, poolVars
<1>2. CASE \E t \in Task : AskGate(t) \/ Hand(t) \/ AgentEnds(t)
  <2>1. UNCHANGED driverVars
    BY <1>2, DriverStays
  <2>2. paused => paused'
    BY <1>2 DEF AskGate, Hand, AgentEnds, Deliver, PausesPool, LeavesRow
  <2>3. \A t \in working' : t \in working \/ (pc = "pool" /\ PhaseOf[t] = ws)
    BY <1>2 DEF AskGate, Hand, AgentEnds, InPool
  <2> QED
    BY <2>1, <2>2, <2>3 DEF PoolMove, driverVars
<1>3. CASE Launch \/ Dispatch \/ Decompose \/ Finish \/ Scope \/ Scoped \/ Decide
  BY <1>3 DEF PoolMove, Launch, Dispatch, Decompose, Finish, Scope, Scoped, Decide, poolVars
<1>4. CASE Start \/ Resume \/ CompletePhase \/ Gate \/ Reconcile
  BY <1>4 DEF PoolMove, Start, Resume, CompletePhase, Gate, Reconcile, poolVars
<1>5. CASE PoolReturns \/ Crash
  BY <1>5 DEF PoolMove, PoolReturns, Crash, GoTo, poolVars
<1> QED
  BY <1>1, <1>2, <1>3, <1>4, <1>5 DEF Next, Driver

\* The gate's answer to a task is fresh, and holds until a finding is raised.
GateMove ==
    \A t \in cleared' : t \notin stale' =>
        \/ PhaseOf[t] = ws /\ GateAllows(ws) /\ finding' = finding
        \/ /\ t \in cleared /\ t \notin stale
           /\ finding' # finding => finding' = "resolved" \/ finding = "open"

LEMMA GateStep ==
  ASSUME RowTypes, [Next]_vars
  PROVE  GateMove
<1>1. CASE Launch \/ Dispatch \/ Decompose \/ Finish \/ Scope \/ Scoped \/ Decide \/ UNCHANGED vars
  BY <1>1 DEF GateMove, Launch, Dispatch, Decompose, Finish, Scope, Scoped, Decide, vars, poolVars, ghosts
<1>2. CASE Start \/ Resume \/ CompletePhase \/ PoolReturns \/ Crash
  BY <1>2 DEF GateMove, Start, Resume, CompletePhase, PoolReturns, Crash, poolVars, ghosts
<1>3. CASE Reconcile
  BY <1>3 DEF GateMove, Reconcile, Raised, poolVars
<1>4. CASE Gate
  BY <1>4 DEF GateMove, Gate
<1>5. CASE \E t \in Task : AskGate(t) \/ Hand(t)
  BY <1>5 DEF GateMove, AskGate, Hand, InPool, ghosts
<1>6. CASE \E t \in Task : AgentEnds(t)
  BY <1>6 DEF GateMove, AgentEnds, Deliver, PausesPool, LeavesRow, Raised
<1>7. CASE Intervene
  BY <1>7 DEF GateMove, Intervene, Apart, Raised, poolVars
<1>8. CASE People
  <2>1. UNCHANGED <<cleared, stale>>
    BY <1>8 DEF People, Helped, Apart, poolVars
  <2>2. finding' # finding => finding' = "resolved" \/ finding = "open"
    BY <1>8 DEF People, Helped, Clear, Merge, Unpark, Unblock, Settle, Refer, Approve, Resumed, ScopeByHand
  <2> QED
    BY <2>1, <2>2 DEF GateMove
<1> QED
  BY <1>1, <1>2, <1>3, <1>4, <1>5, <1>6, <1>7, <1>8 DEF Next, Driver

LEMMA LaneStep ==
  ASSUME [Next]_vars
  PROVE  content' = content
<1>1. CASE Launch \/ Dispatch \/ Decompose \/ Finish \/ Scope \/ Scoped \/ Decide \/ UNCHANGED vars
  BY <1>1 DEF Launch, Dispatch, Decompose, Finish, Scope, Scoped, Decide, vars, itemVars
<1>2. CASE Start \/ Resume \/ CompletePhase \/ PoolReturns \/ Crash \/ Reconcile \/ Gate
  BY <1>2 DEF Start, Resume, CompletePhase, PoolReturns, Crash, Reconcile, Gate, itemVars
<1>3. CASE Intervene \/ People \/ \E t \in Task : AskGate(t) \/ Hand(t) \/ AgentEnds(t)
  BY <1>3 DEF Intervene, People, Helped, AskGate, Hand, AgentEnds, itemVars
<1> QED
  BY <1>1, <1>2, <1>3 DEF Next, Driver

-----------------------------------------------------------------------------
(* The inductive invariant                                                 *)

\* Where the driver, the phases and the tasks stand to each other: a task in
\* work has its phase in execution, and so has the phase the driver executes.
Place ==
    /\ phase["Design"] = "none" => \A p \in Phase : phase[p] = "none"
    /\ \A t \in Task : phase[PhaseOf[t]] \in {"none", "Planned"} => task[t] = "none"
    /\ \A t \in Task : task[t] = "In Progress" => phase[PhaseOf[t]] \in {"In Progress", "Complete"}
    /\ pc \in {"resume", "pool", "complete"} \/ (pc = "gate" /\ ~opening) => phase[ws] = "In Progress"
    /\ \A t \in working : pc = "pool" /\ PhaseOf[t] = ws
    /\ pc = "finish" => \A p \in Phase : IsTerminal(p)

\* What is off the base: never the work of a phase that is terminal or on its
\* way there.
Landed ==
    /\ content => unmerged = {}
    /\ \A t \in unmerged : task[t] = "Complete" /\ phase[PhaseOf[t]] = "In Progress"
    /\ pc \in {"gate", "start", "complete"} \/ (pc = "pool" /\ ~paused) =>
          \A t \in unmerged : PhaseOf[t] # ws
    /\ \A t \in Task : IsTerminal(PhaseOf[t]) => task[t] \in {"none", "Complete"}

\* A Develop phase was started over a reviewed Design.
Reviewed ==
    /\ phase["Design"] = "Complete" => reviewed \/ skipped \/ pc = "reconcile"
    /\ phase["Develop"] \in {"In Progress", "Complete"} =>
          IsTerminal("Design") /\ (phase["Design"] = "Complete" => reviewed \/ skipped)

\* What the gate said of a task holds until a finding is raised.
Gated ==
    \A t \in cleared : PhaseOf[t] = "Develop" /\ t \notin stale =>
        IsTerminal("Design") /\ finding \notin {"open", "referred"}

PhasesInv == RowTypes /\ RunTypes /\ Place /\ Landed /\ Reviewed /\ Gated

LEMMA PhasesStart ==
  ASSUME Init
  PROVE  PhasesInv
<1>1. RowTypes /\ RunTypes
  <2>1. RowTypes
    BY DEF Init, RowTypes
  <2>2. RunTypes
    <3>1. trouble \in 0..MaxTrouble
      BY PhaseAssumption DEF Init
    <3> QED
      BY <3>1 DEF Init, RunTypes, Phase
  <2> QED
    BY <2>1, <2>2
<1>2. Place /\ Landed /\ Reviewed /\ Gated
  BY PhaseAssumption DEF Init, Place, Landed, Reviewed, Gated, IsTerminal, Terminal, Phase
<1> QED
  BY <1>1, <1>2 DEF PhasesInv

LEMMA TerminalStays ==
  ASSUME RowTypes, RunTypes, Place, [Next]_vars, NEW p \in Phase, IsTerminal(p)
  PROVE  phase'[p] = phase[p]
<1>1. phase["Design"] # "none"
  BY DEF Place, IsTerminal, Terminal
<1>2. PhaseMove(p)
  BY PhaseStep
<1> QED
  BY <1>1, <1>2 DEF PhaseMove, IsTerminal, Terminal

LEMMA PlaceStep ==
  ASSUME PhasesInv, [Next]_vars
  PROVE  Place'
<1> USE DEF PhasesInv
<1>0. "Design" \in Phase /\ \A t \in Task : PhaseOf[t] \in Phase
  BY PhaseAssumption DEF Phase
<1>1. (phase["Design"] = "none" => \A p \in Phase : phase[p] = "none")'
  <2> SUFFICES ASSUME phase'["Design"] = "none", NEW p \in Phase
               PROVE  phase'[p] = "none"
    OBVIOUS
  <2>1. PhaseMove("Design") /\ PhaseMove(p)
    BY <1>0, PhaseStep
  <2>2. phase["Design"] = "none"
    BY <1>0, <2>1 DEF PhaseMove
  <2>3. phase[p] = "none"
    BY <2>2 DEF Place
  <2> QED
    BY <2>1, <2>2, <2>3 DEF PhaseMove
<1>2. (\A t \in Task : phase[PhaseOf[t]] \in {"none", "Planned"} => task[t] = "none")'
  <2> SUFFICES ASSUME NEW t \in Task, phase'[PhaseOf[t]] \in {"none", "Planned"} PROVE task'[t] = "none"
    OBVIOUS
  <2>1. phase[PhaseOf[t]] \in {"none", "Planned"}
    BY <1>0, PhaseStep DEF Place, PhaseMove
  <2>2. task[t] = "none" /\ TaskMove(t)
    BY <2>1, TaskStep DEF Place
  <2> QED
    BY <2>1, <2>2 DEF TaskMove
<1>3. (\A t \in Task : task[t] = "In Progress" => phase[PhaseOf[t]] \in {"In Progress", "Complete"})'
  <2> SUFFICES ASSUME NEW t \in Task, task'[t] = "In Progress"
               PROVE  phase'[PhaseOf[t]] \in {"In Progress", "Complete"}
    OBVIOUS
  <2>1. TaskMove(t) /\ PhaseMove(PhaseOf[t])
    BY <1>0, TaskStep, PhaseStep DEF Place
  <2>2. phase[PhaseOf[t]] \in {"In Progress", "Complete"}
    BY <2>1 DEF TaskMove, Place
  <2>3. phase["Design"] # "none"
    BY <1>0, <2>2 DEF Place
  <2> QED
    BY <2>1, <2>2, <2>3 DEF PhaseMove
<1>4. (pc \in {"resume", "pool", "complete"} \/ (pc = "gate" /\ ~opening) => phase[ws] = "In Progress")'
  <2>1. DriverMove
    BY DriverStep
  <2>2. ws \in Phase /\ PhaseMove(ws)
    BY PhaseStep DEF RunTypes
  <2>3. CASE UNCHANGED driverVars
    <3> SUFFICES ASSUME pc \in {"resume", "pool", "complete"} \/ (pc = "gate" /\ ~opening)
                 PROVE  phase'[ws] = "In Progress"
      BY <2>3 DEF driverVars
    <3>1. phase[ws] = "In Progress" /\ phase["Design"] # "none"
      BY <2>2 DEF Place
    <3> QED
      BY <2>2, <2>3, <3>1 DEF PhaseMove, driverVars
  <2> QED
    BY <2>1, <2>3 DEF DriverMove, Place
<1>5. (\A t \in working : pc = "pool" /\ PhaseOf[t] = ws)'
  BY PoolStep DEF PoolMove, Place
<1>6. (pc = "finish" => \A p \in Phase : IsTerminal(p))'
  <2>1. pc' = "finish" => \A p \in Phase : IsTerminal(p)
    BY DriverStep DEF DriverMove, Place, driverVars
  <2> QED
    BY <2>1, TerminalStays DEF IsTerminal
<1> QED
  BY <1>1, <1>2, <1>3, <1>4, <1>5, <1>6 DEF Place

LEMMA LandedStep ==
  ASSUME PhasesInv, [Next]_vars
  PROVE  Landed'
<1> USE DEF PhasesInv
<1>0. "Design" \in Phase /\ ws \in Phase /\ unmerged \subseteq Task /\ unmerged' \subseteq Task
      /\ \A t \in Task : PhaseOf[t] \in Phase
  BY PhaseAssumption, RowTypeStep DEF Phase, RowTypes, RunTypes
<1>1. \A t \in Task : TaskMove(t)
  BY TaskStep DEF Place
<1>2. \A t \in unmerged' : t \in unmerged \/ (/\ t \in working /\ task'[t] = "Complete" /\ paused'
                                              /\ ~content /\ UNCHANGED <<phase, driverVars>>)
  BY UnmergedStep, <1>0
<1>3. (content => unmerged = {})'
  BY <1>2, LaneStep DEF Landed
<1>4. (\A t \in unmerged : task[t] = "Complete" /\ phase[PhaseOf[t]] = "In Progress")'
  <2> SUFFICES ASSUME NEW t \in unmerged'
               PROVE  task'[t] = "Complete" /\ phase'[PhaseOf[t]] = "In Progress"
    OBVIOUS
  <2>1. CASE t \in unmerged
    <3>1. task[t] = "Complete" /\ phase[PhaseOf[t]] = "In Progress" /\ ~content
      BY <2>1 DEF Landed
    <3>2. task'[t] = "Complete"
      BY <1>0, <1>1, <2>1, <3>1 DEF TaskMove
    <3>3. PhaseOf[t] \in Phase /\ PhaseMove(PhaseOf[t]) /\ phase["Design"] # "none"
      BY <1>0, <2>1, <3>1, PhaseStep DEF Place
    <3>4. pc = "complete" => PhaseOf[t] # ws
      BY <2>1 DEF Landed
    <3>5. PhaseOf[t] = ws => t \in Residue(ws)
      BY <1>0, <2>1, <3>1 DEF Residue, TasksOf
    <3> QED
      BY <3>1, <3>2, <3>3, <3>4, <3>5 DEF PhaseMove
  <2>2. CASE t \notin unmerged
    BY <1>2, <2>2 DEF Place
  <2> QED
    BY <2>1, <2>2
<1>5. (pc \in {"gate", "start", "complete"} \/ (pc = "pool" /\ ~paused) => \A t \in unmerged : PhaseOf[t] # ws)'
  <2> SUFFICES ASSUME NEW t \in unmerged', pc' \in {"gate", "start", "complete"} \/ (pc' = "pool" /\ ~paused')
               PROVE  PhaseOf[t] # ws'
    OBVIOUS
  <2>1. t \in unmerged
    BY <1>2 DEF Place, driverVars
  <2>2. phase[PhaseOf[t]] = "In Progress" /\ task[t] = "Complete" /\ ~content /\ t \in Task
    BY <1>0, <2>1 DEF Landed
  <2>3. DriverMove /\ PoolMove
    BY DriverStep, PoolStep
  <2>4. CASE UNCHANGED driverVars
    BY <2>1, <2>3, <2>4 DEF PoolMove, Landed, driverVars
  <2>5. Residue(ws) = {} => PhaseOf[t] # ws
    BY <2>1, <2>2 DEF Residue, TasksOf
  <2> QED
    BY <2>1, <2>2, <2>3, <2>4, <2>5 DEF DriverMove, Landed
<1>6. (\A t \in Task : IsTerminal(PhaseOf[t]) => task[t] \in {"none", "Complete"})'
  <2> SUFFICES ASSUME NEW t \in Task, phase'[PhaseOf[t]] \in Terminal
               PROVE  task'[t] \in {"none", "Complete"}
    BY DEF IsTerminal
  <2>1. TaskMove(t) /\ PhaseMove(PhaseOf[t]) /\ PhaseOf[t] \in Phase
    BY <1>0, <1>1, PhaseStep
  <2>2. task[t] \in {"none", "Complete"} /\ phase[PhaseOf[t]] \in Terminal \cup {"Planned", "In Progress"}
    BY <2>1 DEF PhaseMove, Place, Landed, IsTerminal, Terminal, TasksOf
  <2>3. phase[PhaseOf[t]] = "Planned" => task[t] = "none"
    BY DEF Place
  <2> QED
    BY <2>1, <2>2, <2>3 DEF TaskMove, Terminal
<1> QED
  BY <1>3, <1>4, <1>5, <1>6 DEF Landed

LEMMA ReviewedStep ==
  ASSUME PhasesInv, [Next]_vars
  PROVE  Reviewed'
<1> USE DEF PhasesInv
<1>0. "Design" \in Phase /\ "Develop" \in Phase
  BY DEF Phase
<1>1. PhaseMove("Design") /\ PhaseMove("Develop") /\ ReviewMove
  BY <1>0, PhaseStep, ReviewStep
<1>2. (phase["Design"] = "Complete" => reviewed \/ skipped \/ pc = "reconcile")'
  BY <1>1 DEF PhaseMove, ReviewMove, Reviewed
<1>3. (phase["Develop"] \in {"In Progress", "Complete"} =>
          IsTerminal("Design") /\ (phase["Design"] = "Complete" => reviewed \/ skipped))'
  <2> SUFFICES ASSUME phase'["Develop"] \in {"In Progress", "Complete"}
               PROVE  /\ phase'["Design"] \in Terminal
                      /\ phase'["Design"] = "Complete" => reviewed' \/ skipped'
    BY DEF IsTerminal
  <2>1. IsTerminal("Design") /\ (phase["Design"] = "Complete" => reviewed \/ skipped)
    <3>1. CASE phase["Develop"] \in {"In Progress", "Complete"}
      BY <3>1 DEF Reviewed
    <3>2. CASE phase["Develop"] \notin {"In Progress", "Complete"}
      <4>1. pc = "start" /\ \A q \in Predecessors["Develop"] : IsTerminal(q)
        BY <1>1, <3>2 DEF PhaseMove
      <4>2. IsTerminal("Design")
        BY <4>1 DEF Predecessors
      <4> QED
        BY <4>1, <4>2 DEF Reviewed
    <3> QED
      BY <3>1, <3>2
  <2>2. phase'["Design"] = phase["Design"]
    BY <1>0, <2>1, TerminalStays
  <2> QED
    BY <1>1, <2>1, <2>2 DEF ReviewMove, IsTerminal
<1> QED
  BY <1>2, <1>3 DEF Reviewed

LEMMA GatedStep ==
  ASSUME PhasesInv, [Next]_vars
  PROVE  Gated'
<1> SUFFICES ASSUME NEW t \in cleared', PhaseOf[t] = "Develop", t \notin stale'
             PROVE  phase'["Design"] \in Terminal /\ finding' \notin {"open", "referred"}
  BY DEF Gated, IsTerminal
<1>1. RowTypes /\ RunTypes /\ Place /\ Gated /\ GateMove
  BY GateStep DEF PhasesInv
<1>2. IsTerminal("Design") /\ finding' \notin {"open", "referred"}
  BY <1>1 DEF GateMove, GateAllows, Gated
<1> QED
  BY <1>1, <1>2, TerminalStays DEF IsTerminal, Phase

LEMMA PhasesSafety == Spec => []PhasesInv
<1>1. Init => PhasesInv
  BY PhasesStart
<1>2. PhasesInv /\ [Next]_vars => PhasesInv'
  <2> SUFFICES ASSUME PhasesInv, [Next]_vars PROVE PhasesInv'
    OBVIOUS
  <2>1. RowTypes' /\ RunTypes'
    BY RowTypeStep, RunTypeStep DEF PhasesInv
  <2> QED
    BY <2>1, PlaceStep, LandedStep, ReviewedStep, GatedStep DEF PhasesInv
<1> QED
  BY <1>1, <1>2, PTL DEF Spec

-----------------------------------------------------------------------------
(* The properties                                                          *)

\* The records and the run have their types, whatever dies or is refused
\* (the handlers of lead.py, scoping.py and the run of ado_scheduler.py).
THEOREM PhasesTypes == Spec => []PhasesTypeOK
<1>1. PhasesInv => PhasesTypeOK
  BY DEF PhasesInv, PhasesTypeOK
<1> QED
  BY <1>1, PhasesSafety, PTL

\* No Develop task is handed out over an unsettled Design or a blocking
\* finding (_reconciliation_gate_open and develop_gate_open), but for one
\* raised after the gate was asked for that task.
THEOREM GatedDevelop == Spec => DevelopIsGated
<1>1. PhasesInv /\ [Next]_vars =>
        [\A t \in Task : task[t] = "Ready" /\ task'[t] = "In Progress" /\ PhaseOf[t] = "Develop" =>
          t \in stale \/ (phase["Design"] \in {"Complete", "Not Applicable"}
                            /\ finding \in {"none", "resolved"})]_vars
  <2> SUFFICES ASSUME PhasesInv, [Next]_vars, NEW t \in Task, task[t] = "Ready",
                      task'[t] = "In Progress", PhaseOf[t] = "Develop", t \notin stale
               PROVE  phase["Design"] \in {"Complete", "Not Applicable"} /\ finding \in {"none", "resolved"}
    OBVIOUS
  <2>1. TaskMove(t)
    BY TaskStep DEF PhasesInv, Place
  <2>2. t \in cleared
    BY <2>1 DEF TaskMove
  <2> QED
    BY <2>2 DEF PhasesInv, Gated, IsTerminal, Terminal, RowTypes
<1> QED
  BY <1>1, PhasesSafety, PTL DEF Spec, DevelopIsGated

\* What is being developed over a Complete Design was reviewed, or the review
\* was lost with a run (AdoScheduler._execute_phase and its reconcile step).
THEOREM DesignReviewed == Spec => []DesignIsReviewed
<1>1. PhasesInv => DesignIsReviewed
  <2> SUFFICES ASSUME PhasesInv, NEW t \in Task, task[t] = "In Progress", PhaseOf[t] = "Develop",
                      phase["Design"] = "Complete"
               PROVE  reviewed \/ skipped
    BY DEF DesignIsReviewed
  <2>1. phase["Develop"] \in {"In Progress", "Complete"}
    BY DEF PhasesInv, Place
  <2> QED
    BY <2>1 DEF PhasesInv, Reviewed
<1> QED
  BY <1>1, PhasesSafety, PTL

\* Only Finish takes the item to In Review.
LEMMA ReviewIsFinish ==
  ASSUME [Next]_vars, item' = "In Review", item # "In Review"
  PROVE  pc = "finish"
<1>1. ~(Launch \/ Dispatch \/ Decompose \/ Scope \/ Scoped \/ Decide \/ UNCHANGED vars)
  BY DEF Launch, Dispatch, Decompose, Scope, Scoped, Decide, vars, itemVars
<1>2. ~(Start \/ Resume \/ CompletePhase \/ PoolReturns \/ Crash \/ Reconcile \/ Gate)
  BY DEF Start, Resume, CompletePhase, PoolReturns, Crash, Reconcile, Gate, itemVars
<1>3. ~(Intervene \/ \E t \in Task : AskGate(t) \/ Hand(t) \/ AgentEnds(t))
  BY DEF Intervene, AskGate, Hand, AgentEnds, itemVars
<1>4. ~People
  BY DEF People, Helped, Clear, Merge, Unpark, Unblock, Settle, Refer, Approve, Resumed, ScopeByHand
<1> QED
  BY <1>1, <1>2, <1>3, <1>4 DEF Next, Driver, Finish

\* An item the driver finishes has every phase terminal, every task Complete
\* and every branch on the base (complete_phase, task_branch_unmerged).
THEOREM WholeDelivery == Spec => DeliveredWhole
<1>1. PhasesInv /\ [Next]_vars =>
        [item' = "In Review" /\ item # "In Review" =>
          /\ \A p \in Phase : phase[p] \in {"Complete", "Not Applicable"}
          /\ unmerged = {} /\ \A t \in Task : task[t] \in {"none", "Complete"}]_vars
  <2> SUFFICES ASSUME PhasesInv, [Next]_vars, item' = "In Review", item # "In Review"
               PROVE  /\ \A p \in Phase : phase[p] \in Terminal
                      /\ unmerged = {} /\ \A t \in Task : task[t] \in {"none", "Complete"}
    BY DEF Terminal
  <2>1. \A p \in Phase : IsTerminal(p)
    BY ReviewIsFinish DEF PhasesInv, Place
  <2>2. \A t \in Task : PhaseOf[t] \in Phase /\ (t \in unmerged => phase[PhaseOf[t]] = "In Progress")
    BY PhaseAssumption DEF PhasesInv, Landed
  <2>3. unmerged = {}
    BY <2>1, <2>2 DEF PhasesInv, RowTypes, IsTerminal, Terminal
  <2> QED
    BY <2>1, <2>2, <2>3 DEF PhasesInv, Landed, IsTerminal
<1> QED
  BY <1>1, PhasesSafety, PTL DEF Spec, DeliveredWhole
=============================================================================
