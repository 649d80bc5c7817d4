------------------------- MODULE PhaseDriver_proofs -------------------------
(***************************************************************************)
(* Theorems about a phase across the runs of its driver, for every set of  *)
(* tasks, every cap and any number of launches and crashes.                *)
(***************************************************************************)
EXTENDS PhaseDriver, PoolLedger_proofs

dvars == <<vars, driverVars>>

-----------------------------------------------------------------------------
(* Types, and the pool's bookkeeping while a pool is on                    *)

\* run_pool_for_workstream starts the pool's bookkeeping afresh.
LEMMA NewPoolInv ==
    ASSUME TypeOK, NewPool, UNCHANGED status
    PROVE  IInv'
<1>1. TypeOK'
    <2>1. /\ UNCHANGED <<status, noted, flagged, revoked, base, tree, incoming, wtree, requests>>
          /\ window' = "open" /\ mpc' = "fill" /\ chosen' = {} /\ cur' = NoTask /\ active' = {}
          /\ paused' = FALSE /\ aborted' = FALSE /\ green' = {} /\ completed' = <<>>
        BY DEF NewPool, gitVars
    <2>2. /\ outcome' \in [Task -> Outcomes] /\ wpc' \in [Task -> WorkSteps]
          /\ exit' \in [Task -> {"none", "noop", "halt"}] /\ verdict' \in [Task -> Verdicts]
        BY DEF NewPool, Outcomes, WorkSteps, Verdicts
    <2>3. completed' \in Seq(Task)
        BY <2>1
    <2> QED BY <2>1, <2>2, <2>3 DEF TypeOK, MainSteps
<1>2. Control'
    BY DEF NewPool, Control, Integrating
<1>3. Slots'
    BY DEF NewPool, Slots, Inflight
<1> QED
    BY <1>1, <1>2, <1>3 DEF IInv

\* What an agent left over from a dead run does keeps the types, and moves
\* nothing but the status and the branch of its task.
LEMMA OrphanMoves ==
    ASSUME TypeOK, NEW t \in Task, OrphanActs(t)
    PROVE  /\ TypeOK'
           /\ UNCHANGED <<noted, flagged, revoked, base, incoming, wtree, windowVars, mainVars,
                          wpc, verdict, completed, driverVars>>
           /\ \A u \in Task : status[u] = "Complete" => status'[u] = "Complete"
<1> USE DEF TypeOK, windowVars, mainVars
<1>1. UNCHANGED <<noted, flagged, revoked, base, incoming, wtree, windowVars, mainVars,
                  wpc, verdict, completed, driverVars, exit>>
    BY DEF OrphanActs, Advance, Commit, AgentUnchanged, MainUnchanged
<1>2. status' \in [Task -> Statuses] /\ \A u \in Task : status[u] = "Complete" => status'[u] = "Complete"
    <2>1. CASE Advance(t)
        BY <2>1 DEF Advance, Statuses
    <2>2. CASE Commit(t)
        BY <2>2 DEF Commit
    <2> QED BY <2>1, <2>2 DEF OrphanActs
<1>3. tree' \in [Task -> SUBSET Work]
    <2>1. CASE Advance(t)
        BY <2>1 DEF Advance
    <2>2. CASE Commit(t)
        BY <2>2 DEF Commit, Work
    <2> QED BY <2>1, <2>2 DEF OrphanActs
<1> QED
    BY <1>1, <1>2, <1>3

\* The bookkeeping of a pool does not look at what such an agent moves.
LEMMA OrphanInv ==
    ASSUME IInv, NEW t \in Task, OrphanActs(t)
    PROVE  IInv'
<1>1. TypeOK' /\ UNCHANGED <<windowVars, mainVars, wpc, completed>>
    BY OrphanMoves DEF IInv
<1>2. Control'
    BY <1>1 DEF IInv, Control, windowVars, mainVars
<1>3. Slots'
    BY <1>1, SlotsUnchanged DEF IInv, mainVars
<1> QED
    BY <1>1, <1>2, <1>3 DEF IInv

\* The driver's own variables keep their types.
LEMMA DriverTypes ==
    ASSUME DriverInv, [DriverNext]_dvars, TypeOK'
    PROVE  DriverTypeOK'
<1> USE DEF DriverInv, DriverTypeOK
<1>1. CASE UNCHANGED driverVars
    BY <1>1 DEF driverVars
<1>2. CASE Launch
    BY <1>2, DriverAssumption DEF Launch
<1>3. CASE Decide
    BY <1>3 DEF Decide, Stop, NewPool, TypeOK, dbVars
<1>4. ASSUME NEW t \in Task, Recover(t) PROVE DriverTypeOK'
    BY <1>4 DEF Recover, Patch, Stop, TypeOK, Statuses
<1>5. CASE ResumeDecides
    BY <1>5 DEF ResumeDecides, Stop, NewPool
<1>6. CASE PoolReturns
    BY <1>6 DEF PoolReturns, Stop
<1>7. CASE Crash
    BY <1>7, DriverAssumption DEF Crash, Stop
<1>8. ASSUME NEW t \in Task, OrphanEnds(t) PROVE DriverTypeOK'
    BY <1>8 DEF OrphanEnds
<1>9. CASE PoolStep \/ HumanClears \/ HumanTidies \/ Rest
    BY <1>1, <1>9 DEF PoolStep, HumanClears, HumanTidies, Rest
<1>10. ASSUME NEW t \in Task, OrphanActs(t) \/ Park(t) PROVE UNCHANGED driverVars
    BY <1>10 DEF OrphanActs, Park
<1>11. CASE UNCHANGED dvars
    BY <1>1, <1>11 DEF dvars
<1> QED
    BY <1>1, <1>2, <1>3, <1>4, <1>5, <1>6, <1>7, <1>8, <1>9, <1>10, <1>11 DEF DriverNext

\* Every step keeps the shared state's types, also a crash and a person's hand.
LEMMA SharedTypes ==
    ASSUME DriverInv, [DriverNext]_dvars
    PROVE  TypeOK'
<1>0. TypeOK
    BY DEF DriverInv, DriverTypeOK
<1>1. CASE UNCHANGED <<dbVars, gitVars, windowVars, mainVars, workVars>>
    BY <1>0, <1>1 DEF TypeOK, dbVars, gitVars, windowVars, mainVars, workVars
<1>2. CASE UNCHANGED dbVars /\ PoolUnchanged
    BY <1>1, <1>2 DEF PoolUnchanged
<1>3. CASE Launch \/ PoolReturns
    BY <1>2, <1>3 DEF Launch, PoolReturns
<1>4. CASE Decide
    BY <1>0, <1>2, <1>4, NewPoolInv DEF Decide, IInv
<1>5. CASE ResumeDecides
    BY <1>0, <1>2, <1>5, NewPoolInv DEF ResumeDecides, IInv, dbVars
<1>6. CASE PoolStep
    BY <1>6, TypeStep DEF PoolStep, DriverInv, IInv
<1>7. ASSUME NEW t \in Task, Recover(t) \/ Park(t) PROVE TypeOK'
    <2>1. PoolUnchanged /\ UNCHANGED <<noted, revoked>>
        BY <1>7 DEF Recover, Park
    <2>2. flagged' \subseteq flagged
        BY <1>7 DEF Recover, Park
    <2>3. status' \in [Task -> Statuses]
        BY <1>0, <1>7 DEF Recover, Patch, Park, TypeOK, Statuses
    <2> QED BY <1>0, <2>1, <2>2, <2>3 DEF TypeOK, PoolUnchanged, gitVars, windowVars, mainVars, workVars
<1>8. CASE Crash
    <2>1. wpc' \in [Task -> WorkSteps] /\ exit' \in [Task -> {"none", "noop", "halt"}]
        BY <1>8 DEF Crash, WorkSteps
    <2>2. mpc' \in MainSteps
        BY <1>8 DEF Crash, MainSteps
    <2> QED BY <1>0, <1>8, <2>1, <2>2 DEF Crash, TypeOK, dbVars, gitVars, windowVars
<1>9. ASSUME NEW t \in Task, OrphanActs(t) PROVE TypeOK'
    BY <1>0, <1>9, OrphanMoves
<1>10. ASSUME NEW t \in Task, OrphanEnds(t) PROVE TypeOK'
    BY <1>2, <1>10 DEF OrphanEnds
<1>11. CASE HumanTidies
    <2>1. UNCHANGED <<noted, flagged, revoked, tree, incoming, windowVars, mainVars, workVars>>
        BY <1>11 DEF HumanTidies
    <2>2. status' \in [Task -> Statuses] /\ wtree' \subseteq Task /\ base' \subseteq Work
        BY <1>0, <1>11 DEF HumanTidies, TypeOK, Statuses
    <2> QED BY <1>0, <2>1, <2>2 DEF TypeOK, windowVars, mainVars, workVars
<1>12. CASE Rest \/ UNCHANGED dvars
    BY <1>1, <1>12 DEF Rest, dvars, vars
<1>13. CASE HumanClears
    <2>1. PoolUnchanged /\ UNCHANGED <<status, noted, revoked>> /\ flagged' = {}
        BY <1>13 DEF HumanClears
    <2> QED BY <1>0, <2>1 DEF TypeOK, PoolUnchanged, gitVars, windowVars, mainVars, workVars
<1> QED
    BY <1>3, <1>4, <1>5, <1>6, <1>7, <1>8, <1>9, <1>10, <1>11, <1>12, <1>13 DEF DriverNext

\* How a pool comes to be on after a step: it is a new one, it took a step, or
\* something beside it did.
LEMMA PoolMoves ==
    ASSUME DriverInv, [DriverNext]_dvars, dpc' = "pool"
    PROVE  \/ NewPool /\ (Decide \/ ResumeDecides) /\ UNCHANGED <<status, todo, seen, residue, orphans>>
           \/ dpc = "pool" /\ [Next]_vars /\ UNCHANGED driverVars
           \/ dpc = "pool" /\ \E t \in Task : OrphanActs(t)
           \/ dpc = "pool" /\ PoolUnchanged /\ UNCHANGED <<dbVars, phase, todo, seen, residue>>
                /\ orphans' \subseteq orphans
<1> DEFINE Goal ==
           \/ NewPool /\ (Decide \/ ResumeDecides) /\ UNCHANGED <<status, todo, seen, residue, orphans>>
           \/ dpc = "pool" /\ [Next]_vars /\ UNCHANGED driverVars
           \/ dpc = "pool" /\ \E t \in Task : OrphanActs(t)
           \/ dpc = "pool" /\ PoolUnchanged /\ UNCHANGED <<dbVars, phase, todo, seen, residue>>
                /\ orphans' \subseteq orphans
<1> SUFFICES Goal
    OBVIOUS
<1>1. CASE Launch \/ Crash \/ PoolReturns
    BY <1>1 DEF Launch, Crash, PoolReturns, Stop
<1>2. CASE Decide
    BY <1>2 DEF Decide, Stop
<1>3. CASE ResumeDecides
    BY <1>3 DEF ResumeDecides, Stop
<1>4. CASE PoolStep
    BY <1>4 DEF PoolStep
<1>5. ASSUME NEW t \in Task, Recover(t) \/ Park(t) PROVE FALSE
    BY <1>5 DEF Recover, Patch, Stop, Park, driverVars
<1>6. ASSUME NEW t \in Task, OrphanActs(t) PROVE Goal
    BY <1>6 DEF OrphanActs, driverVars
<1>7. ASSUME NEW t \in Task, OrphanEnds(t) PROVE Goal
    BY <1>7 DEF OrphanEnds
<1>8. CASE HumanClears \/ HumanTidies
    BY <1>8 DEF HumanClears, HumanTidies, driverVars
<1>9. CASE Rest \/ UNCHANGED dvars
    BY <1>9 DEF Rest, dvars, driverVars
<1> HIDE DEF Goal
<1> QED
    BY <1>1, <1>2, <1>3, <1>4, <1>5, <1>6, <1>7, <1>8, <1>9 DEF DriverNext

\* A pool's own invariant does not depend on which run of the driver it is.
LEMMA PoolInvStep ==
    ASSUME DriverInv, [DriverNext]_dvars, dpc' = "pool"
    PROVE  IInv'
<1>1. CASE NewPool /\ UNCHANGED status
    BY <1>1, NewPoolInv DEF DriverInv, DriverTypeOK
<1>2. CASE dpc = "pool" /\ [Next]_vars
    BY <1>2, TypeStep, ControlStep, SlotsStep DEF DriverInv, IInv
<1>3. ASSUME dpc = "pool", NEW t \in Task, OrphanActs(t) PROVE IInv'
    BY <1>3, OrphanInv DEF DriverInv
<1>4. CASE dpc = "pool" /\ PoolUnchanged /\ UNCHANGED dbVars
    <2>1. IInv /\ UNCHANGED vars
        BY <1>4 DEF DriverInv, PoolUnchanged, vars
    <2> QED BY <2>1, TypeStep, ControlStep, SlotsStep DEF IInv
<1> QED
    BY <1>1, <1>2, <1>3, <1>4, PoolMoves

\* Types hold across runs and crashes, and so does the pool's bookkeeping while
\* a pool is on.
THEOREM DriverInvariance == DriverSpec => []DriverInv
<1>1. Init => IInv
    <2> SUFFICES ASSUME Init PROVE IInv
        OBVIOUS
    <2>1. status \in [Task -> Statuses]
        BY DEF Init, Statuses
    <2>2. requests \in 0..MaxRequests
        BY PoolAssumption DEF Init
    <2>3. completed \in Seq(Task)
        BY DEF Init
    <2>4. TypeOK
        BY <2>1, <2>2, <2>3
        DEF Init, TypeOK, Work, Verdicts, Outcomes, MainSteps, WorkSteps
    <2> QED BY <2>4 DEF Init, IInv, Control, Integrating, Slots, Inflight
<1>2. DriverInit => DriverInv
    BY <1>1, DriverAssumption DEF DriverInit, DriverInv, DriverTypeOK, IInv, TypeOK
<1>3. DriverInv /\ [DriverNext]_dvars => DriverInv'
    BY DriverTypes, SharedTypes, PoolInvStep DEF DriverInv
<1> QED
    BY <1>2, <1>3, PTL DEF DriverSpec, dvars

-----------------------------------------------------------------------------
(* A completion is final                                                   *)

\* RESUME rewinds a row by what it read of it, and an agent left over from a
\* dead run may have completed the task since: the status vocabulary refuses
\* the request, so no step of any run takes a completion back.
THEOREM CompletionIsFinal == DriverSpec => CompleteIsFinal
<1> DEFINE Keeps == \A t \in Task : status[t] = "Complete" => status'[t] = "Complete"
<1>1. DriverInv /\ [DriverNext]_dvars => [Keeps]_dvars
    <2> SUFFICES ASSUME DriverInv, DriverNext PROVE Keeps
        OBVIOUS
    <2>0. TypeOK
        BY DEF DriverInv, DriverTypeOK
    <2>1. CASE UNCHANGED status
        BY <2>1
    <2>2. CASE PoolStep
        BY <2>0, <2>2, OnlyGrows DEF PoolStep
    <2>3. ASSUME NEW t \in Task, Recover(t) PROVE Keeps
        BY <2>0, <2>3 DEF Recover, Patch, MayMove, TypeOK
    <2>4. ASSUME NEW t \in Task, OrphanActs(t) PROVE Keeps
        BY <2>0, <2>4, OrphanMoves
    <2>5. ASSUME NEW t \in Task, Park(t) PROVE Keeps
        BY <2>0, <2>5 DEF Park, TypeOK
    <2>6. CASE HumanTidies
        BY <2>0, <2>6 DEF HumanTidies, TypeOK
    <2>7. CASE Launch \/ Decide \/ ResumeDecides \/ PoolReturns \/ Crash \/ Rest \/ HumanClears
        BY <2>1, <2>7 DEF Launch, Decide, ResumeDecides, PoolReturns, Crash, Rest, HumanClears,
                          dbVars, vars
    <2>8. ASSUME NEW t \in Task, OrphanEnds(t) PROVE UNCHANGED status
        BY <2>8 DEF OrphanEnds, dbVars
    <2> QED BY <2>1, <2>2, <2>3, <2>4, <2>5, <2>6, <2>7, <2>8 DEF DriverNext
<1> QED
    BY <1>1, DriverInvariance, PTL DEF DriverSpec, CompleteIsFinal, dvars

-----------------------------------------------------------------------------
(* One agent per task                                                      *)

\* A worktree goes when its result is retried, lands, is refused or is held; of
\* a result that is an error it stays.
LEMMA WtreeMoves ==
    ASSUME TypeOK, [Next]_vars, NEW t \in wtree
    PROVE  \/ t \in wtree'
           \/ Collect /\ cur' = t /\ mpc' = "retry"
           \/ mpc \in {"land", "hold"} /\ cur = t
           \/ mpc = "refuse" /\ cur = t /\ verdict[t] # "error"
<1> USE DEF gitVars
<1> DEFINE Goal == \/ t \in wtree'
                   \/ Collect /\ cur' = t /\ mpc' = "retry"
                   \/ mpc \in {"land", "hold"} /\ cur = t
                   \/ mpc = "refuse" /\ cur = t /\ verdict[t] # "error"
<1> SUFFICES Goal
    OBVIOUS
<1>1. CASE wtree \subseteq wtree'
    BY <1>1
<1>2. ASSUME NEW u \in Task, Dispatch(u) \/ SkipLost(u) PROVE UNCHANGED wtree
    BY <1>2 DEF Dispatch, SkipLost, AfterDispatch
<1>3. CASE Collect
    BY <1>3 DEF Collect
<1>4. CASE Fill \/ Abort \/ OpenWindow \/ CloseWindow \/ LeaveLoop \/ Shutdown
    BY <1>1, <1>4 DEF Fill, Abort, OpenWindow, CloseWindow, LeaveLoop, Shutdown
<1>5. CASE RetrySpawn \/ RetryEnds \/ RetryFails \/ Refresh \/ Resolve \/ Gate \/ RegateResolved
    BY <1>1, <1>5 DEF RetrySpawn, RetryEnds, RetryFails, Refresh, Resolve, Gate, RegateResolved
<1>6. CASE Land \/ Refuse \/ Hold
    BY <1>6 DEF Land, Refuse, Hold
<1>7. CASE WatchdogHalt
    BY <1>1, <1>7 DEF WatchdogHalt
<1>8. ASSUME NEW u \in Task, Worker(u) \/ Agent(u) \/ Withdraw(u) PROVE wtree \subseteq wtree'
    BY <1>8 DEF Worker, SpawnAgent, WorkerReports, WorkerErrors, PutResult, Revoke, Agent,
                Advance, Commit, ExitNoOp, ExitHalt, AgentUnchanged, Withdraw
<1>9. CASE Request \/ \E u \in Foreign : ForeignLands(u)
    BY <1>1, <1>9 DEF Request, ForeignLands
<1>10. CASE UNCHANGED vars
    BY <1>1, <1>10 DEF vars
<1> HIDE DEF Goal
<1> QED
    BY <1>1, <1>2, <1>3, <1>4, <1>5, <1>6, <1>7, <1>8, <1>9, <1>10 DEF Next, Main, Returned

\* A thread goes one way only, and past a worktree it did not make only with an
\* error.
LEMMA ThreadMoves ==
    ASSUME TypeOK, [Next]_vars, NEW t \in Task
    PROVE  \/ wpc'[t] = wpc[t]
           \/ wpc'[t] = "queued"
           \/ wpc[t] = "queued" /\ wpc'[t] = "agent" /\ t \notin wtree /\ t \in wtree'
           \/ wpc[t] \in {"queued", "agent"} /\ wpc'[t] = "revoke"
                /\ (wpc[t] = "agent" \/ verdict'[t] = "error")
           \/ wpc[t] = "revoke" /\ wpc'[t] = "ended"
<1> USE DEF TypeOK, workVars
<1> DEFINE Goal ==
           \/ wpc'[t] = wpc[t]
           \/ wpc'[t] = "queued"
           \/ wpc[t] = "queued" /\ wpc'[t] = "agent" /\ t \notin wtree /\ t \in wtree'
           \/ wpc[t] \in {"queued", "agent"} /\ wpc'[t] = "revoke"
                /\ (wpc[t] = "agent" \/ verdict'[t] = "error")
           \/ wpc[t] = "revoke" /\ wpc'[t] = "ended"
<1> SUFFICES Goal
    OBVIOUS
<1>1. CASE UNCHANGED wpc
    BY <1>1
<1>2. ASSUME NEW u \in Task, Dispatch(u) PROVE Goal
    BY <1>2 DEF Dispatch
<1>3. ASSUME NEW u \in Task, SkipLost(u) \/ Agent(u) \/ Withdraw(u) PROVE UNCHANGED wpc
    BY <1>3 DEF SkipLost, AfterDispatch, Agent, Advance, Commit, ExitNoOp, ExitHalt,
                AgentUnchanged, Withdraw
<1>4. ASSUME NEW u \in Task, SpawnAgent(u) \/ Revoke(u) PROVE Goal
    BY <1>4 DEF SpawnAgent, Revoke
<1>5. ASSUME NEW u \in Task, WorkerReports(u) \/ WorkerErrors(u) PROVE Goal
    BY <1>5 DEF WorkerReports, WorkerErrors, PutResult
<1>6. CASE Fill \/ Abort \/ OpenWindow \/ CloseWindow \/ Collect \/ LeaveLoop \/ Shutdown
    BY <1>1, <1>6 DEF Fill, Abort, OpenWindow, CloseWindow, Collect, LeaveLoop, Shutdown
<1>7. CASE RetrySpawn \/ RetryEnds \/ RetryFails \/ Refresh \/ Resolve \/ Gate \/ RegateResolved
    BY <1>1, <1>7 DEF RetrySpawn, RetryEnds, RetryFails, Refresh, Resolve, Gate, RegateResolved
<1>8. CASE Land \/ Refuse \/ Hold \/ WatchdogHalt
    BY <1>1, <1>8 DEF Land, Refuse, Hold, Report, WatchdogHalt
<1>9. CASE Request \/ \E u \in Foreign : ForeignLands(u)
    BY <1>1, <1>9 DEF Request, ForeignLands
<1>10. CASE UNCHANGED vars
    BY <1>1, <1>10 DEF vars
<1> HIDE DEF Goal
<1> QED
    BY <1>1, <1>2, <1>3, <1>4, <1>5, <1>6, <1>7, <1>8, <1>9, <1>10
    DEF Next, Main, Worker, Returned

\* The main thread takes a result in hand at its collection only, and one that
\* is an error it refuses; a retry gets a worktree of its own.
LEMMA HandMoves ==
    ASSUME TypeOK, [Next]_vars, mpc' \in Integrating \ {"refuse"}
    PROVE  \/ /\ mpc \in Integrating \ {"refuse"} /\ cur' = cur
              /\ mpc' = "retrying" => mpc = "retrying" \/ (cur \notin wtree /\ cur \in wtree')
           \/ Collect /\ verdict[cur'] # "error" /\ mpc' # "retrying"
<1> USE DEF mainVars, Integrating
<1> DEFINE Goal ==
           \/ /\ mpc \in Integrating \ {"refuse"} /\ cur' = cur
              /\ mpc' = "retrying" => mpc = "retrying" \/ (cur \notin wtree /\ cur \in wtree')
           \/ Collect /\ verdict[cur'] # "error" /\ mpc' # "retrying"
<1> SUFFICES Goal
    OBVIOUS
<1>1. CASE UNCHANGED <<mpc, cur>>
    BY <1>1
<1>2. ASSUME NEW u \in Task, Dispatch(u) \/ SkipLost(u) PROVE FALSE
    BY <1>2 DEF Dispatch, SkipLost, AfterDispatch
<1>3. CASE Collect
    BY <1>3 DEF Collect, AfterVerify
<1>4. CASE Fill \/ Abort \/ OpenWindow \/ CloseWindow \/ LeaveLoop \/ Shutdown
    BY <1>4 DEF Fill, Abort, OpenWindow, CloseWindow, LeaveLoop, Shutdown
<1>5. CASE RetrySpawn \/ RetryEnds \/ RetryFails \/ Refresh \/ Resolve \/ Gate \/ RegateResolved
    BY <1>5 DEF RetrySpawn, RetryEnds, RetryFails, Refresh, Resolve, Gate, RegateResolved
<1>6. CASE Land \/ Refuse \/ Hold \/ WatchdogHalt
    BY <1>6 DEF Land, Refuse, Hold, Report, WatchdogHalt
<1>7. ASSUME NEW u \in Task, Worker(u) \/ Agent(u) \/ Withdraw(u) PROVE UNCHANGED <<mpc, cur>>
    BY <1>7 DEF Worker, SpawnAgent, WorkerReports, WorkerErrors, PutResult, Revoke, Agent,
                Advance, Commit, ExitNoOp, ExitHalt, MainUnchanged, Withdraw
<1>8. CASE Request \/ \E u \in Foreign : ForeignLands(u)
    BY <1>1, <1>8 DEF Request, ForeignLands
<1>9. CASE UNCHANGED vars
    BY <1>1, <1>9 DEF vars
<1> HIDE DEF Goal
<1> QED
    BY <1>1, <1>2, <1>3, <1>4, <1>5, <1>6, <1>7, <1>8, <1>9 DEF Next, Main, Returned

\* A result that is collected comes from a thread that has put it.
LEMMA CollectedEnds ==
    ASSUME TypeOK, Control, Slots, Collect
    PROVE  cur' \in Task /\ wpc[cur'] \in {"revoke", "ended"} /\ UNCHANGED <<wpc, verdict>>
<1>1. cur' = completed[1] /\ cur' \in Task /\ UNCHANGED <<wpc, verdict>>
    BY HeadTailProperties DEF Collect, TypeOK
<1>2. 1 \in 1..Len(completed)
    BY LenProperties, EmptySeq DEF Collect, TypeOK
<1> QED
    BY <1>1, <1>2 DEF Slots

\* A step of the pool leaves every agent its worktree, the ones an earlier run
\* left behind included.
LEMMA HeldPoolStep ==
    ASSUME IInv, Held, dpc = "pool", dpc' = "pool", [Next]_vars, orphans' = orphans
    PROVE  Held'
<1>0. TypeOK /\ Control /\ Slots
    BY DEF IInv
<1>1. ASSUME NEW t \in orphans PROVE t \in wtree' /\ t \in Task
    <2>1. t \in wtree /\ t \in Task
        BY <1>0 DEF Held, TypeOK
    <2>2. wpc[t] \in {"revoke", "ended"} => verdict[t] = "error"
        BY DEF Held
    <2>3. ~(Collect /\ cur' = t /\ mpc' = "retry")
        BY <1>0, <2>2, CollectedEnds DEF Collect, AfterVerify
    <2>4. mpc \in {"land", "hold"} => cur # t
        BY DEF Held, Integrating
    <2>5. mpc = "refuse" /\ cur = t => verdict[t] = "error"
        BY <1>0, <2>2, HandActive DEF Integrating
    <2> QED BY <1>0, <2>1, <2>3, <2>4, <2>5, WtreeMoves
<1>2. mpc' \in Integrating \ {"refuse"} => cur' \notin orphans
    <2> SUFFICES ASSUME mpc' \in Integrating \ {"refuse"} PROVE cur' \notin orphans
        OBVIOUS
    <2>1. CASE mpc \in Integrating \ {"refuse"} /\ cur' = cur
        BY <2>1 DEF Held
    <2>2. CASE Collect /\ verdict[cur'] # "error"
        BY <1>0, <2>2, CollectedEnds DEF Held
    <2> QED BY <1>0, <2>1, <2>2, HandMoves
<1>3. ASSUME NEW t \in orphans
      PROVE  \/ wpc'[t] \in {"idle", "queued"}
             \/ wpc'[t] \in {"revoke", "ended"} /\ verdict'[t] = "error"
    <2>1. t \in wtree /\ t \in Task
        BY <1>1, <1>0 DEF Held
    <2>2. CASE wpc[t] \in {"idle", "queued"}
        BY <1>0, <2>1, <2>2, ThreadMoves
    <2>3. CASE wpc[t] \in {"revoke", "ended"} /\ verdict[t] = "error"
        <3>1. wpc'[t] \in {"queued", "revoke", "ended"}
            BY <1>0, <2>1, <2>3, ThreadMoves
        <3>2. mpc = "retrying" => cur # t
            BY DEF Held, Integrating
        <3>3. verdict'[t] = "error"
            BY <1>0, <2>1, <2>3, <3>2, VerdictMoves
        <3> QED BY <3>1, <3>3
    <2> QED BY <2>2, <2>3 DEF Held
<1>4. ASSUME NEW t \in Task, Live(t)' PROVE t \in wtree'
    <2>1. CASE Live(t)
        <3>1. t \in wtree
            BY <2>1 DEF Held
        <3>2. ~(Collect /\ cur' = t)
            BY <1>0, <2>1, CollectedEnds DEF Live, Collect
        <3>3. mpc \in {"land", "hold", "refuse"} => cur # t
            BY <1>0, <2>1, HandActive DEF Live, Integrating
        <3> QED BY <1>0, <3>1, <3>2, <3>3, WtreeMoves
    <2>2. CASE ~Live(t) /\ wpc'[t] = "agent"
        BY <1>0, <2>2, ThreadMoves DEF Live
    <2>3. CASE ~Live(t) /\ mpc' = "retrying" /\ cur' = t
        BY <1>0, <2>3, HandMoves DEF Live, Integrating
    <2> QED BY <1>4, <2>1, <2>2, <2>3 DEF Live
<1> QED
    BY <1>1, <1>2, <1>3, <1>4 DEF Held

\* So does every step of the driver: a crash leaves the worktrees registered,
\* and a person removes only those nobody sits in.
LEMMA HeldStep == DriverInv /\ Held /\ [DriverNext]_dvars => Held'
<1> SUFFICES ASSUME DriverInv, Held, [DriverNext]_dvars PROVE Held'
    OBVIOUS
<1>1. CASE dpc' = "pool"
    <2>1. CASE NewPool /\ UNCHANGED orphans
        <3>1. /\ UNCHANGED <<wtree, orphans>> /\ mpc' = "fill" /\ cur' = NoTask
              /\ wpc' = [t \in Task |-> "idle"]
            BY <2>1 DEF NewPool, gitVars
        <3>2. orphans \subseteq Task
            BY DEF DriverInv, DriverTypeOK
        <3> QED BY <3>1, <3>2 DEF Held, Live, Integrating
    <2>2. CASE dpc = "pool" /\ [Next]_vars /\ UNCHANGED driverVars
        BY <1>1, <2>2, HeldPoolStep DEF DriverInv, driverVars
    <2>3. ASSUME dpc = "pool", NEW t \in Task, OrphanActs(t) PROVE Held'
        <3>1. UNCHANGED <<wtree, mainVars, wpc, verdict, driverVars>>
            BY <2>3, OrphanMoves DEF DriverInv, DriverTypeOK
        <3> QED BY <2>3, <3>1 DEF Held, Live, mainVars, driverVars
    <2>4. CASE dpc = "pool" /\ PoolUnchanged /\ orphans' \subseteq orphans
        BY <2>4 DEF Held, Live, PoolUnchanged, gitVars, mainVars, workVars
    <2> QED BY <1>1, <2>1, <2>2, <2>3, <2>4, PoolMoves
<1>2. CASE dpc' # "pool"
    <2> SUFFICES orphans' \subseteq wtree'
        BY <1>2 DEF Held
    <2>1. CASE UNCHANGED <<orphans, wtree>>
        BY <2>1 DEF Held
    <2>2. CASE Launch \/ Decide \/ ResumeDecides \/ PoolReturns \/ Rest \/ HumanClears
        BY <2>1, <2>2 DEF Launch, Decide, ResumeDecides, PoolReturns, Rest, HumanClears,
                          NewPool, PoolUnchanged, driverVars, vars, gitVars
    <2>3. ASSUME NEW t \in Task, Recover(t) \/ Park(t) PROVE UNCHANGED <<orphans, wtree>>
        BY <2>3 DEF Recover, Park, PoolUnchanged, driverVars, gitVars
    <2>4. CASE PoolStep
        BY <1>2, <2>4 DEF PoolStep, driverVars
    <2>5. ASSUME NEW t \in Task, OrphanActs(t) PROVE UNCHANGED <<orphans, wtree>>
        BY <2>5, OrphanMoves DEF DriverInv, DriverTypeOK, driverVars
    <2>6. ASSUME NEW t \in Task, OrphanEnds(t) PROVE orphans' \subseteq wtree'
        BY <2>6 DEF OrphanEnds, PoolUnchanged, gitVars, Held
    <2>7. CASE Crash
        BY <2>7 DEF Crash, gitVars, Held
    <2>8. CASE HumanTidies
        BY <2>8 DEF HumanTidies, driverVars, Held
    <2>9. CASE UNCHANGED dvars
        BY <2>1, <2>9 DEF dvars, vars, gitVars, driverVars
    <2> QED BY <2>1, <2>2, <2>3, <2>4, <2>5, <2>6, <2>7, <2>8, <2>9 DEF DriverNext
<1> QED
    BY <1>1, <1>2

\* No task has two agents at work at once, however many runs died with agents
\* at work and whatever those go on to do.
THEOREM NeverTwoAgents == DriverSpec => []OneAgentPerTask
<1>1. DriverInit => Held
    BY PoolAssumption DEF DriverInit, Init, Held
<1>2. ASSUME DriverInv, Held PROVE OneAgentPerTask
    BY <1>2 DEF Held, OneAgentPerTask, Live, Integrating
<1> QED
    BY <1>1, <1>2, HeldStep, DriverInvariance, PTL DEF DriverSpec, dvars

-----------------------------------------------------------------------------
(* Settled work stays settled                                              *)

\* A task succeeds by its landing, which puts its whole branch on the base.
LEMMA SuccessMoves ==
    ASSUME TypeOK, Control, Slots, [Next]_vars, NEW t \in Task, outcome'[t] = "succeeded"
    PROVE  \/ outcome[t] = "succeeded"
           \/ Land /\ cur = t /\ base' = base \cup tree[t] /\ UNCHANGED <<tree, wpc>>
<1> USE DEF dbVars, gitVars, windowVars, mainVars, workVars, TypeOK
<1> DEFINE Goal == \/ outcome[t] = "succeeded"
                   \/ Land /\ cur = t /\ base' = base \cup tree[t] /\ UNCHANGED <<tree, wpc>>
<1> SUFFICES Goal
    OBVIOUS
<1>1. CASE UNCHANGED outcome
    BY <1>1
<1>2. CASE Land
    BY <1>2 DEF Land, Report
<1>3. CASE Refuse \/ Hold
    BY <1>3 DEF Refuse, Hold, Report
<1>4. CASE WatchdogHalt
    BY <1>4 DEF WatchdogHalt
<1>5. ASSUME NEW u \in Task, Dispatch(u) \/ SkipLost(u) \/ Worker(u) \/ Agent(u) \/ Withdraw(u)
      PROVE  UNCHANGED outcome
    BY <1>5 DEF Dispatch, SkipLost, AfterDispatch, Worker, SpawnAgent, WorkerReports,
                WorkerErrors, PutResult, Revoke, Agent, Advance, Commit, ExitNoOp, ExitHalt,
                Withdraw, MainUnchanged
<1>6. CASE Fill \/ Abort \/ OpenWindow \/ CloseWindow \/ Collect \/ LeaveLoop \/ Shutdown
    BY <1>1, <1>6 DEF Fill, Abort, OpenWindow, CloseWindow, Collect, LeaveLoop, Shutdown
<1>7. CASE RetrySpawn \/ RetryEnds \/ RetryFails \/ Refresh \/ Resolve \/ Gate \/ RegateResolved
    BY <1>1, <1>7 DEF RetrySpawn, RetryEnds, RetryFails, Refresh, Resolve, Gate, RegateResolved
<1>8. CASE Request \/ \E u \in Foreign : ForeignLands(u)
    BY <1>1, <1>8 DEF Request, ForeignLands
<1>9. CASE UNCHANGED vars
    BY <1>1, <1>9 DEF vars
<1> HIDE DEF Goal
<1> QED
    BY <1>1, <1>2, <1>3, <1>4, <1>5, <1>6, <1>7, <1>8, <1>9 DEF Next, Main, Returned

\* Nothing in a run touches settled work again.
LEMMA SettledStays ==
    ASSUME TypeOK, Control, Slots, Reported, SettledFirst, [Next]_vars,
           NEW b \in Task, Settled(b)
    PROVE  Settled(b)' /\ tree'[b] = tree[b] /\ (b \in tree[b] => b \in base)
<1>1. (wpc[b] \in {"idle", "revoke", "ended"} /\ b \notin active) \/ wpc[b] = "idle"
    BY DEF Settled, SettledFirst, Reported
<1>2. mpc \in Integrating => cur # b
    BY <1>1, HandActive
<1>3. ~Live(b)
    BY <1>1, <1>2 DEF Live, Integrating
<1>4. tree'[b] = tree[b]
    BY <1>1, <1>2, <1>3, TreeMoves DEF Integrating
<1>5. status'[b] = "Complete"
    BY OnlyGrows DEF Settled
<1>6. wpc[b] = "idle" => wpc'[b] = "idle"
    BY QueuedMoves DEF Settled, Dispatch, Eligible
<1>7. outcome[b] = "succeeded" => outcome'[b] = "succeeded"
    <2> SUFFICES ASSUME outcome[b] = "succeeded" PROVE outcome'[b] = "succeeded"
        OBVIOUS
    <2>1. b \notin active
        BY DEF Reported
    <2> QED BY <2>1, OutcomeMoves
<1>8. b \in tree[b] => b \in base
    BY DEF SettledFirst, Unmerged
<1> QED
    BY <1>4, <1>5, <1>6, <1>7, <1>8 DEF Settled

\* What Fill chooses has its blockers settled.
LEMMA FillSettled ==
    ASSUME TypeOK, Control, Reported, Fill, NEW t \in chosen'
    PROVE  t \in Task /\ \A b \in BlockedBy[t] : Settled(b)
<1>1. mpc = "fill" /\ chosen = {} /\ ~paused
    BY DEF Fill, Control, Reported
<1>2. PICK held \in SUBSET Task, S \in SUBSET Task :
         SelectToDispatch({u \in Task \ held : Eligible(u)}, S) /\ chosen' = S
    BY <1>1 DEF Fill
<1>3. t \in Task /\ Eligible(t) /\ BlockedBy[t] \cap active = {}
    BY <1>2 DEF SelectToDispatch
<1>4. ASSUME NEW b \in BlockedBy[t] PROVE Settled(b)
    <2>1. b \in Task /\ status[b] = "Complete" /\ b \notin active
        BY <1>3, PoolAssumption DEF Eligible
    <2>2. CASE wpc[b] # "idle"
        <3>1. outcome[b] # "none" /\ outcome[b] \notin Failing
            BY <1>1, <2>1, <2>2 DEF Reported
        <3>2. outcome[b] = "succeeded"
            BY <2>1, <3>1 DEF TypeOK, Outcomes, Failing
        <3> QED BY <2>1, <3>2 DEF Settled
    <2> QED BY <2>1, <2>2 DEF Settled
<1> QED
    BY <1>3, <1>4

\* Every step of the pool lands what it settles, and forks after it.
LEMMA SettledFirstStep ==
    ASSUME IInv, Reported, SettledFirst, [Next]_vars
    PROVE  SettledFirst'
<1>0. TypeOK /\ Control /\ Slots
    BY DEF IInv
<1>1. ASSUME NEW t \in Task, outcome'[t] = "succeeded" PROVE wpc'[t] \in {"revoke", "ended"}
    <2>1. CASE outcome[t] = "succeeded"
        <3>1. wpc[t] \in {"revoke", "ended"}
            BY <2>1 DEF SettledFirst
        <3>2. ~Dispatch(t)
            BY <1>0, <2>1, DispatchIsNew
        <3>3. wpc'[t] # "queued"
            BY <1>0, <3>1, <3>2, QueuedMoves
        <3> QED BY <1>0, <3>1, <3>3, ThreadMoves
    <2>2. CASE Land /\ cur = t /\ UNCHANGED wpc
        BY <1>0, <2>2, HandActive DEF Land, Integrating
    <2> QED BY <1>0, <1>1, <2>1, <2>2, SuccessMoves
<1>2. ASSUME NEW t \in Task, Settled(t)' PROVE ~Unmerged(t)'
    <2>1. CASE Settled(t)
        BY <1>0, <2>1, SettledStays, OnlyGrows DEF Unmerged
    <2>2. CASE ~Settled(t) /\ wpc'[t] = "idle"
        <3>1. wpc[t] = "idle" /\ status'[t] = "Complete"
            BY <1>0, <1>2, <2>2, IdleStays DEF Settled
        <3>2. status[t] = "Complete"
            BY <1>0, <3>1, CompleteMoves, LiveIsDispatched
        <3> QED BY <2>2, <3>1, <3>2 DEF Settled
    <2>3. CASE ~Settled(t) /\ outcome'[t] = "succeeded"
        <3>1. outcome[t] # "succeeded"
            BY <2>3 DEF Reported, Settled
        <3>2. base' = base \cup tree[t] /\ UNCHANGED tree
            BY <1>0, <2>3, <3>1, SuccessMoves
        <3> QED BY <3>2 DEF Unmerged
    <2> QED BY <1>2, <2>1, <2>2, <2>3 DEF Settled
<1>3. ASSUME NEW t \in Task, t \in chosen' \/ wpc'[t] # "idle", NEW b \in BlockedBy[t]
      PROVE  Settled(b)' /\ (wpc[t] # "idle" => Settled(b))
    <2>0. b \in Task
        BY PoolAssumption
    <2>1. wpc[t] # "idle" => Settled(b)
        BY DEF SettledFirst
    <2>2. Settled(b)
        <3>1. CASE t \in chosen'
            BY <1>0, <3>1, FillSettled, ChosenMoves DEF SettledFirst
        <3>2. CASE wpc'[t] # "idle"
            <4>1. wpc[t] # "idle" \/ t \in chosen
                BY <1>0, <3>2, QueuedMoves DEF Dispatch, NextChosen
            <4> QED BY <4>1 DEF SettledFirst
        <3> QED BY <1>3, <3>1, <3>2
    <2> QED BY <1>0, <2>0, <2>1, <2>2, SettledStays
<1>4. ASSUME NEW t \in Task, Live(t)', NEW b \in BlockedBy[t], b \in tree'[b]
      PROVE  b \in tree'[t]
    <2>0. b \in Task
        BY PoolAssumption
    <2>1. wpc[t] # "idle"
        BY <1>0, <1>4, LiveMoves
    <2>2. Settled(b)
        BY <2>1 DEF SettledFirst
    <2>3. b \in tree[b] /\ b \in base
        BY <1>0, <1>4, <2>0, <2>2, SettledStays
    <2>4. CASE Live(t)
        <3>1. b \in tree[t]
            BY <2>3, <2>4 DEF SettledFirst
        <3>2. tree[t] \subseteq tree'[t] \/ tree'[t] = base
            BY <1>0, TreeMoves
        <3> QED BY <2>3, <3>1, <3>2
    <2> QED BY <1>0, <1>4, <2>3, <2>4, LiveMoves
<1> QED
    BY <1>1, <1>2, <1>3, <1>4 DEF SettledFirst, Live

-----------------------------------------------------------------------------
(* No committed work is lost                                               *)

\* A new pool starts with nothing reported, on work that is settled if every
\* completed task's branch is on the base.
LEMMA NewPoolSettled ==
    ASSUME TypeOK, NewPool, UNCHANGED status,
           \A t \in Task : status[t] = "Complete" => ~Unmerged(t)
    PROVE  Verified' /\ Reported' /\ SettledFirst'
<1>1. /\ UNCHANGED <<status, noted, flagged, base, tree>>
      /\ mpc' = "fill" /\ chosen' = {} /\ cur' = NoTask /\ active' = {}
      /\ paused' = FALSE /\ aborted' = FALSE
      /\ outcome' = [t \in Task |-> "none"] /\ wpc' = [t \in Task |-> "idle"]
      /\ verdict' = [t \in Task |-> "none"]
    BY DEF NewPool, gitVars
<1>2. Verified'
    BY <1>1 DEF Verified, Passed
<1>3. Reported'
    BY <1>1 DEF Reported, Failing
<1>4. SettledFirst'
    BY <1>1 DEF SettledFirst, Settled, Unmerged, Live
<1> QED
    BY <1>2, <1>3, <1>4

\* A pool that returned unpaused has settled every task that is Complete.
LEMMA PoolEndsSettled ==
    ASSUME TypeOK, Reported, mpc = "done", ~paused, ~aborted, NEW t \in Task,
           status[t] = "Complete"
    PROVE  Settled(t)
<1>1. CASE wpc[t] = "idle"
    BY <1>1 DEF Settled
<1>2. CASE wpc[t] # "idle"
    <2>1. outcome[t] # "none" /\ outcome[t] \notin Failing
        BY <1>2 DEF Reported
    <2>2. outcome[t] = "succeeded"
        BY <2>1 DEF TypeOK, Outcomes, Failing
    <2> QED BY <2>2 DEF Settled
<1> QED
    BY <1>1, <1>2

\* While a pool is on, every step leaves its completed work settled.
LEMMA PoolResumedStep ==
    ASSUME OrphansLive = FALSE, DriverInv, Resumed, [DriverNext]_dvars, dpc' = "pool"
    PROVE  Verified' /\ Reported' /\ SettledFirst'
<1>0. TypeOK
    BY DEF DriverInv, DriverTypeOK
<1>1. CASE NewPool /\ UNCHANGED status /\ Decide
    <2>1. phase = "Ready"
        BY <1>1 DEF Decide, Stop, NewPool
    <2>2. \A t \in Task : ~Unmerged(t)
        BY <2>1 DEF Resumed, Unmerged
    <2> QED BY <1>0, <1>1, <2>2, NewPoolSettled
<1>2. CASE NewPool /\ UNCHANGED status /\ ResumeDecides
    <2>1. dpc = "resume" /\ todo = {} /\ residue = {}
        BY <1>2 DEF ResumeDecides, Stop, NewPool
    <2>2. \A t \in Task : status[t] = "Complete" => ~Unmerged(t)
        BY <2>1 DEF Resumed
    <2> QED BY <1>0, <1>2, <2>2, NewPoolSettled
<1>3. CASE dpc = "pool" /\ [Next]_vars
    BY <1>3, VerifiedStep, ReportedStep, SettledFirstStep DEF DriverInv, Resumed
<1>4. ASSUME NEW t \in Task, OrphanActs(t) PROVE FALSE
    BY <1>4 DEF OrphanActs, Resumed
<1>5. CASE dpc = "pool" /\ PoolUnchanged /\ UNCHANGED dbVars
    BY <1>3, <1>5 DEF PoolUnchanged, vars
<1> QED
    BY <1>1, <1>2, <1>3, <1>4, <1>5, PoolMoves

\* While RESUME reads the rows nothing changes what it has read, but for its
\* own rewinding and for a person who parks an unfinished task.
LEMMA ResumeStep ==
    ASSUME OrphansLive = FALSE, DriverInv, Resumed, [DriverNext]_dvars, dpc' = "resume",
           NEW t \in Task
    PROVE  /\ phase' = "InProgress"
           /\ seen'[t] = "Complete" <=> status'[t] = "Complete"
           /\ seen'[t] = "Complete" => t \in todo' \cup residue' \/ ~Unmerged(t)'
<1>0. TypeOK /\ DriverTypeOK
    BY DEF DriverInv, DriverTypeOK
<1> DEFINE Goal ==
           /\ phase' = "InProgress"
           /\ seen'[t] = "Complete" <=> status'[t] = "Complete"
           /\ seen'[t] = "Complete" => t \in todo' \cup residue' \/ ~Unmerged(t)'
<1> SUFFICES Goal
    OBVIOUS
<1>1. CASE dpc = "resume" /\ UNCHANGED <<phase, seen, status, todo, residue, base, tree>>
    BY <1>1 DEF Resumed, Unmerged
<1>2. CASE Decide
    BY <1>2 DEF Decide, Stop, NewPool, dbVars
<1>3. ASSUME NEW u \in Task, Recover(u) PROVE Goal
    <2>1. dpc = "resume" /\ u \in todo /\ UNCHANGED <<phase, base, tree>>
        BY <1>3 DEF Recover, PoolUnchanged, gitVars
    <2>2. phase = "InProgress" /\ (seen[u] = "Complete" <=> status[u] = "Complete")
        BY <2>1 DEF Resumed
    <2>3. CASE seen[u] = "Complete"
        <3>1. /\ todo' = todo \ {u} /\ UNCHANGED <<seen, status>>
              /\ residue' = IF Unmerged(u) THEN residue \cup {u} ELSE residue
            BY <1>3, <2>3 DEF Recover
        <3> QED BY <2>1, <3>1 DEF Resumed, Unmerged
    <2>4. CASE seen[u] # "Complete"
        <3>1. /\ todo' \in {todo, todo \ {u}} /\ UNCHANGED residue
              /\ \A v \in Task \ {u} : seen'[v] = seen[v] /\ status'[v] = status[v]
              /\ seen'[u] # "Complete" /\ status'[u] # "Complete"
            BY <1>0, <1>3, <2>2, <2>4 DEF Recover, Patch, Stop, TypeOK, DriverTypeOK
        <3> QED BY <2>1, <3>1 DEF Resumed, Unmerged
    <2> QED BY <2>3, <2>4
<1>4. ASSUME NEW u \in Task, Park(u) PROVE Goal
    <2>1. /\ dpc = "resume" /\ UNCHANGED <<phase, seen, todo, residue, base, tree>>
          /\ status[u] # "Complete" /\ status' = [status EXCEPT ![u] = "Blocked"]
        BY <1>4 DEF Park, driverVars, PoolUnchanged, gitVars
    <2>2. status'[t] = "Complete" <=> status[t] = "Complete"
        BY <1>0, <2>1 DEF TypeOK
    <2> QED BY <2>1, <2>2 DEF Resumed, Unmerged
<1>5. ASSUME NEW u \in Task, OrphanActs(u) \/ OrphanEnds(u) PROVE FALSE
    BY <1>5 DEF OrphanActs, OrphanEnds, Resumed
<1>6. CASE Launch \/ ResumeDecides \/ PoolReturns \/ Crash
    BY <1>6 DEF Launch, ResumeDecides, NewPool, PoolReturns, Crash, Stop
<1>7. CASE PoolStep \/ HumanClears \/ HumanTidies \/ Rest
    BY <1>7 DEF PoolStep, HumanClears, HumanTidies, Rest, driverVars
<1>8. CASE UNCHANGED dvars
    BY <1>1, <1>8 DEF dvars, vars, dbVars, gitVars, driverVars
<1> HIDE DEF Goal
<1> QED
    BY <1>2, <1>3, <1>4, <1>5, <1>6, <1>7, <1>8 DEF DriverNext

\* The phase starts once, and is completed by RESUME or by the end of a pool.
LEMMA PhaseMoves ==
    ASSUME OrphansLive = FALSE, DriverInv, Resumed, [DriverNext]_dvars
    PROVE  /\ orphans' = {}
           /\ phase' = "Ready" => phase = "Ready" /\ UNCHANGED tree
           /\ dpc' \in {"resume", "pool"} => phase' = "InProgress"
           /\ phase' = "Complete" =>
                \/ phase = "Complete" /\ UNCHANGED <<status, tree, base>>
                \/ ResumeDecides /\ UNCHANGED <<status, tree, base>>
                     /\ todo = {} /\ residue = {} /\ \A t \in Task : seen[t] = "Complete"
                \/ PoolReturns /\ UNCHANGED <<status, tree, base>>
                     /\ ~paused /\ ~aborted /\ \A t \in Task : status[t] = "Complete"
<1> USE DEF gitVars, dbVars
<1> DEFINE Goal ==
           /\ orphans' = {}
           /\ phase' = "Ready" => phase = "Ready" /\ UNCHANGED tree
           /\ dpc' \in {"resume", "pool"} => phase' = "InProgress"
           /\ phase' = "Complete" =>
                \/ phase = "Complete" /\ UNCHANGED <<status, tree, base>>
                \/ ResumeDecides /\ UNCHANGED <<status, tree, base>>
                     /\ todo = {} /\ residue = {} /\ \A t \in Task : seen[t] = "Complete"
                \/ PoolReturns /\ UNCHANGED <<status, tree, base>>
                     /\ ~paused /\ ~aborted /\ \A t \in Task : status[t] = "Complete"
<1> SUFFICES Goal
    OBVIOUS
<1>0. /\ orphans = {}
      /\ dpc \in {"resume", "pool"} => phase = "InProgress"
      /\ phase \in {"Ready", "InProgress", "Complete"}
    BY DEF Resumed, DriverInv, DriverTypeOK
<1>1. CASE UNCHANGED <<phase, orphans, dpc, status, tree, base>>
    BY <1>0, <1>1
<1>2. CASE Launch
    BY <1>0, <1>2 DEF Launch, PoolUnchanged
<1>3. CASE Decide
    BY <1>0, <1>3 DEF Decide, Stop, NewPool, PoolUnchanged
<1>4. ASSUME NEW u \in Task, Recover(u) PROVE Goal
    BY <1>0, <1>4 DEF Recover, Patch, Stop, PoolUnchanged
<1>5. CASE ResumeDecides
    BY <1>0, <1>5 DEF ResumeDecides, Stop, NewPool, PoolUnchanged
<1>6. CASE PoolStep
    BY <1>0, <1>6 DEF PoolStep, driverVars
<1>7. CASE PoolReturns
    BY <1>0, <1>7 DEF PoolReturns, Stop, PoolUnchanged
<1>8. CASE Crash
    BY <1>0, <1>8 DEF Crash, Stop
<1>9. ASSUME NEW u \in Task, OrphanActs(u) \/ OrphanEnds(u) PROVE FALSE
    BY <1>0, <1>9 DEF OrphanActs, OrphanEnds
<1>10. ASSUME NEW u \in Task, Park(u) PROVE Goal
    BY <1>0, <1>10 DEF Park, PoolUnchanged, driverVars
<1>11. CASE HumanClears \/ HumanTidies
    BY <1>0, <1>11 DEF HumanClears, HumanTidies, PoolUnchanged, driverVars
<1>12. CASE Rest \/ UNCHANGED dvars
    BY <1>1, <1>12 DEF Rest, dvars, vars, driverVars
<1> HIDE DEF Goal
<1> QED
    BY <1>1, <1>2, <1>3, <1>4, <1>5, <1>6, <1>7, <1>8, <1>9, <1>10, <1>11, <1>12
    DEF DriverNext

\* Every step of the driver leaves no completed task's branch unseen.
LEMMA ResumedStep ==
    ASSUME OrphansLive = FALSE, DriverInv, Resumed, [DriverNext]_dvars
    PROVE  Resumed'
<1>1. NoCommittedWorkLost'
    <2> SUFFICES ASSUME phase' = "Complete", NEW t \in Task
                 PROVE  status'[t] = "Complete" /\ ~(t \in tree'[t] /\ t \notin base')
        BY DEF NoCommittedWorkLost
    <2>1. CASE phase = "Complete" /\ UNCHANGED <<status, tree, base>>
        BY <2>1 DEF Resumed, NoCommittedWorkLost
    <2>2. CASE /\ ResumeDecides /\ UNCHANGED <<status, tree, base>>
               /\ todo = {} /\ residue = {} /\ \A u \in Task : seen[u] = "Complete"
        <3>1. dpc = "resume"
            BY <2>2 DEF ResumeDecides
        <3> QED BY <2>2, <3>1 DEF Resumed, Unmerged
    <2>3. CASE /\ PoolReturns /\ UNCHANGED <<status, tree, base>>
               /\ ~paused /\ ~aborted /\ \A u \in Task : status[u] = "Complete"
        <3>1. dpc = "pool" /\ mpc = "done" /\ Reported /\ SettledFirst /\ TypeOK
            BY <2>3 DEF PoolReturns, Resumed, DriverInv, DriverTypeOK
        <3>2. Settled(t)
            BY <2>3, <3>1, PoolEndsSettled
        <3> QED BY <2>3, <3>1, <3>2 DEF SettledFirst, Unmerged
    <2> QED BY <2>1, <2>2, <2>3, PhaseMoves
<1>2. phase' = "Ready" => \A t \in Task : tree'[t] = {}
    BY PhaseMoves DEF Resumed
<1> QED
    BY <1>1, <1>2, PhaseMoves, ResumeStep, PoolResumedStep DEF Resumed

\* If agents die with their run, RESUME's guard and the pool's accounting hold
\* in every run of the driver.
LEMMA ResumedInvariance ==
    ASSUME OrphansLive = FALSE
    PROVE  DriverSpec => [](DriverInv /\ Resumed)
<1>1. DriverInit => Resumed
    BY DEF DriverInit, Init, Resumed, NoCommittedWorkLost
<1>2. DriverInv /\ Resumed /\ [DriverNext]_dvars => Resumed'
    BY ResumedStep
<1> QED
    BY <1>1, <1>2, DriverInvariance, PTL DEF DriverSpec, dvars

\* A phase is Complete only over finished tasks with nothing unmerged, however
\* often it crashed and was resumed, as long as agents die with their run.
THEOREM NothingCommittedLost ==
    ASSUME OrphansLive = FALSE
    PROVE  DriverSpec => []NoCommittedWorkLost
<1>1. Resumed => NoCommittedWorkLost
    BY DEF Resumed
<1> QED
    BY <1>1, ResumedInvariance, PTL

\* In every run an agent starts from a base that has what its blockers have
\* committed, as long as agents die with their run.
THEOREM ForksHaveWork ==
    ASSUME OrphansLive = FALSE
    PROVE  DriverSpec => []ForksHaveBlockersWork
<1>1. Resumed => ForksHaveBlockersWork
    BY DEF Resumed, SettledFirst, ForksHaveBlockersWork
<1> QED
    BY <1>1, ResumedInvariance, PTL
=============================================================================
