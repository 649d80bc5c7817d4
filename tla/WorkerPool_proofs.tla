-------------------------- MODULE WorkerPool_proofs --------------------------
(***************************************************************************)
(* Theorems about WorkerPool for every set of tasks, every cap, every      *)
(* conflict relation and every choice of faults.                           *)
(***************************************************************************)
EXTENDS WorkerPool, SequenceTheorems, TLAPS

USE PoolAssumption

\* A report (_integrate's return and what run() does with it) keeps the types.
LEMMA ReportTypeOK ==
    ASSUME TypeOK, cur \in Task, NEW result \in Outcomes, Report(result),
           base' \subseteq Work, wtree' \subseteq Task
    PROVE  TypeOK'
BY DEF TypeOK, Report, workVars, windowVars, Outcomes, MainSteps, Raised

\* A result put on the queue by _worker keeps the types.
LEMMA PutResultTypeOK ==
    ASSUME TypeOK, NEW t \in Task, NEW v \in Verdicts, PutResult(t, v),
           wtree' \subseteq Task
    PROVE  TypeOK'
<1>1. completed' \in Seq(Task)
    BY DEF TypeOK, PutResult
<1> QED
    BY <1>1 DEF TypeOK, PutResult, MainUnchanged, dbVars, windowVars, mainVars, WorkSteps

\* verify_result answers with one of its verdicts.
LEMMA VerdictType == ASSUME NEW t PROVE VerifyResult(t) \in Verdicts
BY DEF VerifyResult, Verdicts

\* Every step of the pool keeps the types.
LEMMA TypeStep == TypeOK /\ Control /\ [Next]_vars => TypeOK'
<1> SUFFICES ASSUME TypeOK, Control, [Next]_vars PROVE TypeOK'
    OBVIOUS
<1> USE DEF TypeOK, dbVars, gitVars, windowVars, mainVars, workVars, MainSteps
<1>1. CASE UNCHANGED vars
    BY <1>1 DEF vars
<1>2. CASE Fill
    BY <1>2 DEF Fill
<1>3. ASSUME NEW t \in Task, Dispatch(t) PROVE TypeOK'
    BY <1>3 DEF Dispatch, AfterDispatch, WorkSteps
<1>4. ASSUME NEW t \in Task, SkipLost(t) PROVE TypeOK'
    BY <1>4 DEF SkipLost, AfterDispatch
<1>5. CASE Abort
    BY <1>5 DEF Abort
<1>6. CASE OpenWindow
    BY <1>6 DEF OpenWindow
<1>7. CASE CloseWindow
    BY <1>7 DEF CloseWindow
<1>8. CASE Collect
    <2>1. cur' \in Task /\ completed' \in Seq(Task)
        BY <1>8, HeadTailProperties DEF Collect
    <2> QED BY <1>8, <2>1 DEF Collect, AfterVerify
<1>9. CASE LeaveLoop
    BY <1>9 DEF LeaveLoop
<1>10. CASE Shutdown
    BY <1>10 DEF Shutdown
<1>11. CASE RetrySpawn
    BY <1>11 DEF RetrySpawn, Control, Integrating
<1>12. CASE RetryEnds
    BY <1>12, VerdictType DEF RetryEnds, Control, Integrating
<1>13. CASE RetryFails
    BY <1>13 DEF RetryFails, Control, Integrating, Verdicts
<1>14. CASE Gate
    BY <1>14 DEF Gate, Control, Integrating
<1>15. CASE Refresh
    BY SMTT(30), <1>15 DEF Refresh, Control, Integrating
<1>16. CASE Resolve
    BY <1>16 DEF Resolve, Control, Integrating
<1>17. CASE RegateResolved
    BY <1>17 DEF RegateResolved, Control, Integrating
<1>18. CASE Land
    BY <1>18, ReportTypeOK DEF Land, Control, Integrating, Outcomes
<1>19. CASE Refuse
    BY <1>19, ReportTypeOK DEF Refuse, Control, Integrating, Outcomes
<1>20. CASE Hold
    BY <1>20, ReportTypeOK DEF Hold, Control, Integrating, Outcomes
<1>21. CASE WatchdogHalt
    <2>1. flagged' \subseteq Task
        <3>1. flagged' \in Raised(active)
            BY <1>21 DEF WatchdogHalt
        <3> QED BY <3>1 DEF Raised
    <2>2. outcome' \in [Task -> Outcomes]
        BY <1>21 DEF WatchdogHalt, Outcomes
    <2> QED BY <1>21, <2>1, <2>2 DEF WatchdogHalt
<1>22. ASSUME NEW t \in Task, SpawnAgent(t) PROVE TypeOK'
    BY <1>22 DEF SpawnAgent, MainUnchanged, WorkSteps, Work
<1>23. ASSUME NEW t \in Task, WorkerReports(t) PROVE TypeOK'
    BY <1>23, VerdictType, PutResultTypeOK DEF WorkerReports
<1>24. ASSUME NEW t \in Task, WorkerErrors(t) PROVE TypeOK'
    BY <1>24, PutResultTypeOK DEF WorkerErrors, Verdicts
<1>25. ASSUME NEW t \in Task, Revoke(t) PROVE TypeOK'
    <2>1. wpc' \in [Task -> WorkSteps]
        BY <1>25 DEF Revoke, WorkSteps
    <2>2. revoked' \subseteq Task /\ UNCHANGED <<status, noted, flagged>>
        BY <1>25 DEF Revoke, MainUnchanged
    <2> QED BY <1>25, <2>1, <2>2 DEF Revoke, MainUnchanged
<1>26. ASSUME NEW t \in Task, Agent(t) PROVE TypeOK'
    <2> USE DEF AgentUnchanged, MainUnchanged
    <2>1. CASE Advance(t)
        <3>1. status' \in [Task -> Statuses]
            BY <2>1 DEF Advance, Statuses
        <3> QED BY <2>1, <3>1 DEF Advance
    <2>2. CASE Commit(t)
        <3>1. tree' \in [Task -> SUBSET Work]
            BY <2>2 DEF Commit, Work
        <3> QED BY <2>2, <3>1 DEF Commit
    <2>3. CASE ExitNoOp(t)
        <3>1. status' \in [Task -> Statuses] /\ noted' \subseteq Task
            BY <2>3 DEF ExitNoOp, Statuses
        <3>2. exit' \in [Task -> {"none", "noop", "halt"}]
            BY <2>3 DEF ExitNoOp
        <3> QED BY <2>3, <3>1, <3>2 DEF ExitNoOp
    <2>4. CASE ExitHalt(t)
        BY <2>4 DEF ExitHalt
    <2> QED BY <1>26, <2>1, <2>2, <2>3, <2>4 DEF Agent
<1>27. ASSUME NEW t \in Task, Withdraw(t) PROVE TypeOK'
    BY <1>27 DEF Withdraw, Statuses
<1>28. CASE Request
    BY <1>28 DEF Request
<1>29. ASSUME NEW u \in Foreign, ForeignLands(u) PROVE TypeOK'
    BY <1>29 DEF ForeignLands, Work
<1> QED
    BY <1>1, <1>2, <1>3, <1>4, <1>5, <1>6, <1>7, <1>8, <1>9, <1>10, <1>11, <1>12,
       <1>13, <1>14, <1>15, <1>16, <1>17, <1>18, <1>19, <1>20, <1>21, <1>22,
       <1>23, <1>24, <1>25, <1>26, <1>27, <1>28, <1>29
    DEF Next, Main, Worker, Returned

\* Every step leaves the main thread holding what its place in run() says: a
\* result while it integrates, the window while it migrates.
LEMMA ControlStep == TypeOK /\ Control /\ [Next]_vars => Control'
<1> SUFFICES ASSUME TypeOK, Control, [Next]_vars PROVE Control'
    OBVIOUS
<1> USE DEF Control, Integrating, dbVars, gitVars, windowVars, mainVars, workVars
<1>1. CASE UNCHANGED vars
    BY <1>1 DEF vars
<1>2. CASE Fill
    <2>1. CASE mpc' = "loop" /\ UNCHANGED chosen
        BY <1>2, <2>1 DEF Fill
    <2>2. ASSUME NEW C, NEW S, SelectToDispatch(C, S), chosen' = S,
                 mpc' = IF S = {} THEN "loop" ELSE "dispatch"
          PROVE  Control'
        <3>1. S \cap active = {}
            BY <2>2 DEF SelectToDispatch
        <3> QED BY <1>2, <2>2, <3>1 DEF Fill
    <2> QED BY <1>2, <2>1, <2>2 DEF Fill
<1>3. ASSUME NEW t \in Task, Dispatch(t) PROVE Control'
    BY <1>3 DEF Dispatch, AfterDispatch, NextChosen
<1>4. ASSUME NEW t \in Task, SkipLost(t) PROVE Control'
    BY <1>4 DEF SkipLost, AfterDispatch, NextChosen
<1>5. CASE Abort \/ LeaveLoop \/ Shutdown
    BY <1>5 DEF Abort, LeaveLoop, Shutdown
<1>6. CASE OpenWindow \/ CloseWindow
    BY <1>6 DEF OpenWindow, CloseWindow, CanEnterExclusive
<1>7. CASE Collect
    <2>1. cur' \in Task
        BY <1>7, HeadTailProperties DEF Collect, TypeOK
    <2> QED BY <1>7, <2>1 DEF Collect, AfterVerify
<1>8. CASE RetrySpawn \/ RetryEnds \/ RetryFails
    BY <1>8 DEF RetrySpawn, RetryEnds, RetryFails
<1>9. CASE Gate \/ Refresh \/ Resolve \/ RegateResolved
    BY <1>9 DEF Gate, Refresh, Resolve, RegateResolved
<1>10. ASSUME NEW result, Report(result), mpc \in {"land", "refuse", "hold"}
       PROVE  Control'
    BY <1>10 DEF Report
<1>11. CASE Land \/ Refuse \/ Hold
    BY <1>10, <1>11 DEF Land, Refuse, Hold
<1>12. CASE WatchdogHalt
    BY <1>12 DEF WatchdogHalt
<1>13. ASSUME NEW t \in Task, Worker(t) \/ Agent(t) \/ Withdraw(t) PROVE Control'
    BY <1>13 DEF Worker, SpawnAgent, WorkerReports, WorkerErrors, PutResult, Revoke,
                 Agent, Advance, Commit, ExitNoOp, ExitHalt, Withdraw, MainUnchanged
<1>14. CASE Request
    BY <1>14 DEF Request
<1>15. ASSUME NEW u \in Foreign, ForeignLands(u) PROVE Control'
    BY <1>15 DEF ForeignLands
<1> QED
    BY <1>1, <1>2, <1>3, <1>4, <1>5, <1>6, <1>7, <1>8, <1>9, <1>11, <1>12, <1>13,
       <1>14, <1>15
    DEF Next, Main, Returned

\* The types and the main thread's bookkeeping hold all along a run.
LEMMA TypeAndControl == Spec => [](TypeOK /\ Control)
<1>1. Init => TypeOK /\ Control
    <2> SUFFICES ASSUME Init PROVE TypeOK /\ Control
        OBVIOUS
    <2>1. status \in [Task -> Statuses]
        BY DEF Init, Statuses
    <2>2. requests \in 0..MaxRequests
        BY DEF Init
    <2>3. completed \in Seq(Task)
        BY DEF Init
    <2>4. Control
        BY DEF Init, Control, Integrating
    <2> QED
        BY <2>1, <2>2, <2>3, <2>4
        DEF Init, TypeOK, Work, Verdicts, Outcomes, MainSteps, WorkSteps
<1>2. TypeOK /\ Control /\ [Next]_vars => TypeOK' /\ Control'
    BY TypeStep, ControlStep
<1> QED
    BY <1>1, <1>2, PTL DEF Spec

\* Every variable keeps its type, whatever the phase, the cap and the faults.
THEOREM TypeCorrect == Spec => []TypeOK
BY TypeAndControl, PTL

-----------------------------------------------------------------------------
(* The exclusive window                                                    *)

\* Work that stays where it is, in the hands of whom it is.
LEMMA SlotsUnchanged ==
    ASSUME Slots, UNCHANGED <<wpc, completed, cur, active>>,
           mpc' \notin {"shutdown", "done"} => mpc \notin {"shutdown", "done"}
    PROVE  Slots'
BY DEF Slots, Inflight

\* _worker hands a task from its thread to the queue, and to nothing else.
LEMMA PutResultSlots ==
    ASSUME TypeOK, Slots, NEW t \in Task, NEW v, PutResult(t, v),
           wpc[t] \in {"queued", "agent"}
    PROVE  Slots'
<1>1. /\ Len(completed') = Len(completed) + 1
      /\ \A i \in 1..Len(completed) : completed'[i] = completed[i]
      /\ completed'[Len(completed) + 1] = t
    BY AppendProperties DEF PutResult, TypeOK
<1>2. Len(completed) \in Nat
    BY LenProperties DEF TypeOK
<1>3. /\ wpc' = [wpc EXCEPT ![t] = "revoke"] /\ wpc \in [Task -> WorkSteps]
      /\ UNCHANGED <<mpc, cur, active>>
    BY DEF PutResult, MainUnchanged, mainVars, TypeOK
<1>4. t # cur /\ \A i \in 1..Len(completed) : completed[i] # t
    BY DEF Slots, TypeOK
<1>5. \A i \in 1..Len(completed) : completed[i] \in Task
    BY ElementOfSeq DEF TypeOK
<1>6. \A i \in 1..Len(completed') :
         i \in 1..Len(completed) \/ i = Len(completed) + 1
    BY <1>1, <1>2
<1>7. Inflight' \subseteq Inflight
    <2>1. t \in Inflight
        BY DEF Inflight
    <2> QED BY <1>1, <1>3, <1>6, <2>1 DEF Inflight
<1>8. \A i \in 1..Len(completed') : wpc'[completed'[i]] \in {"revoke", "ended"}
    BY <1>1, <1>3, <1>5, <1>6 DEF Slots
<1>9. \A i, j \in 1..Len(completed') : completed'[i] = completed'[j] => i = j
    BY <1>1, <1>4, <1>6 DEF Slots
<1>10. cur' # NoTask => wpc'[cur'] \in {"revoke", "ended"}
    BY <1>3, <1>4 DEF Slots, TypeOK
<1>11. \A i \in 1..Len(completed') : completed'[i] # cur'
    BY <1>1, <1>3, <1>4, <1>6 DEF Slots
<1> QED
    BY <1>3, <1>7, <1>8, <1>9, <1>10, <1>11 DEF Slots

\* A report takes out of `active` only the task nothing else works on.
LEMMA ReportSlots ==
    ASSUME TypeOK, Control, Slots, NEW result, Report(result), mpc \in {"land", "refuse", "hold"}
    PROVE  Slots'
<1>1. /\ UNCHANGED <<wpc, completed>> /\ cur' = NoTask /\ active' = active \ {cur}
      /\ cur \in Task
    BY DEF Report, workVars, Control, Integrating
<1>2. Inflight' \subseteq Inflight \ {cur}
    BY <1>1 DEF Inflight, Slots
<1>3. \A i \in 1..Len(completed) : completed[i] # NoTask
    BY ElementOfSeq DEF TypeOK
<1> QED
    BY <1>1, <1>2, <1>3 DEF Slots

\* completions.get() moves a task from the queue to the hand of the main
\* thread; it is in neither place twice.
LEMMA CollectSlots ==
    ASSUME TypeOK, Control, Slots, Collect
    PROVE  Slots'
<1>1. /\ cur = NoTask /\ cur' = completed[1] /\ completed # <<>>
      /\ completed' = Tail(completed)
      /\ UNCHANGED <<wpc, active>>
    BY DEF Collect, Control
<1>2. /\ Len(completed') = Len(completed) - 1
      /\ \A i \in 1..Len(completed') : completed'[i] = completed[i + 1]
    BY <1>1, HeadTailProperties DEF TypeOK
<1>3. Len(completed) \in Nat \ {0}
    BY <1>1, LenProperties, EmptySeq DEF TypeOK
<1>4. /\ 1 \in 1..Len(completed)
      /\ \A i \in 1..Len(completed') : i + 1 \in 1..Len(completed) /\ i + 1 # 1
    BY <1>2, <1>3
<1>5. Inflight' \subseteq Inflight
    BY <1>1, <1>2, <1>4 DEF Inflight
<1>6. mpc = "loop"
    BY DEF Collect
<1>7. \A i, j \in 1..Len(completed') : completed'[i] = completed'[j] => i = j
    BY <1>2, <1>3, <1>4 DEF Slots
<1> QED
    BY <1>1, <1>2, <1>4, <1>5, <1>6, <1>7 DEF Slots

\* Every step keeps each task in one place, and that place under `active`.
LEMMA SlotsStep == IInv /\ [Next]_vars => Slots'
<1> SUFFICES ASSUME TypeOK, Control, Slots, [Next]_vars PROVE Slots'
    BY DEF IInv
<1> USE DEF dbVars, gitVars, windowVars, mainVars, workVars
<1>1. CASE UNCHANGED vars
    BY <1>1, SlotsUnchanged DEF vars
<1>2. CASE Fill
    BY <1>2, SlotsUnchanged DEF Fill
<1>3. ASSUME NEW t \in Task, Dispatch(t) PROVE Slots'
    <2>1. t \notin active /\ mpc = "dispatch" /\ cur = NoTask
        BY <1>3 DEF Dispatch, NextChosen, Control
    <2>2. t \notin Inflight
        BY <2>1 DEF Slots
    <2>3. /\ wpc' = [wpc EXCEPT ![t] = "queued"] /\ active' = active \cup {t}
          /\ UNCHANGED <<completed, cur>>
        BY <1>3 DEF Dispatch, AfterDispatch
    <2>4. Inflight' \subseteq Inflight \cup {t}
        BY <2>3 DEF Inflight, TypeOK
    <2>5. \A i \in 1..Len(completed) : completed[i] # t
        BY <2>2 DEF Inflight
    <2> QED BY <2>1, <2>3, <2>4, <2>5 DEF Slots, TypeOK
<1>4. ASSUME NEW t \in Task, SkipLost(t) PROVE Slots'
    BY <1>4, SlotsUnchanged DEF SkipLost, AfterDispatch
<1>5. CASE Abort \/ LeaveLoop \/ Shutdown \/ OpenWindow \/ CloseWindow
    BY <1>5, SlotsUnchanged DEF Abort, LeaveLoop, Shutdown, OpenWindow, CloseWindow
<1>6. CASE Collect
    BY <1>6, CollectSlots
<1>7. CASE RetrySpawn \/ RetryEnds \/ RetryFails
    BY <1>7, SlotsUnchanged DEF RetrySpawn, RetryEnds, RetryFails
<1>8. CASE Gate \/ Refresh \/ Resolve \/ RegateResolved
    BY <1>8, SlotsUnchanged DEF Gate, Refresh, Resolve, RegateResolved
<1>9. CASE Land \/ Refuse \/ Hold
    BY <1>9, ReportSlots DEF Land, Refuse, Hold
<1>10. CASE WatchdogHalt
    BY <1>10 DEF WatchdogHalt, Slots
<1>11. ASSUME NEW t \in Task, SpawnAgent(t) PROVE Slots'
    <2>1. /\ wpc[t] = "queued" /\ wpc' = [wpc EXCEPT ![t] = "agent"]
          /\ UNCHANGED <<mpc, completed, cur, active>>
        BY <1>11 DEF SpawnAgent, MainUnchanged
    <2>2. Inflight' = Inflight
        BY <2>1 DEF Inflight, TypeOK
    <2> QED BY <2>1, <2>2 DEF Slots, TypeOK
<1>12. ASSUME NEW t \in Task, WorkerReports(t) PROVE Slots'
    BY <1>12, PutResultSlots DEF WorkerReports
<1>13. ASSUME NEW t \in Task, WorkerErrors(t) PROVE Slots'
    BY <1>13, PutResultSlots DEF WorkerErrors
<1>14. ASSUME NEW t \in Task, Revoke(t) PROVE Slots'
    <2>1. /\ wpc[t] = "revoke" /\ wpc' = [wpc EXCEPT ![t] = "ended"]
          /\ UNCHANGED <<mpc, completed, cur, active>>
        BY <1>14 DEF Revoke, MainUnchanged
    <2>2. Inflight' = Inflight
        BY <2>1 DEF Inflight, TypeOK
    <2> QED BY <2>1, <2>2 DEF Slots, TypeOK
<1>15. ASSUME NEW t \in Task, Agent(t) \/ Withdraw(t) PROVE Slots'
    BY <1>15, SlotsUnchanged
    DEF Agent, Advance, Commit, ExitNoOp, ExitHalt, Withdraw, AgentUnchanged, MainUnchanged
<1>16. CASE Request \/ \E u \in Foreign : ForeignLands(u)
    BY <1>16, SlotsUnchanged DEF Request, ForeignLands
<1> QED
    BY <1>1, <1>2, <1>3, <1>4, <1>5, <1>6, <1>7, <1>8, <1>9, <1>10, <1>11, <1>12,
       <1>13, <1>14, <1>15, <1>16
    DEF Next, Main, Worker, Returned

\* The bookkeeping run() keeps by hand agrees with its threads in every run:
\* `active` covers them as long as the loop is on.
THEOREM Invariance == Spec => []IInv
<1>1. Init => Slots
    BY DEF Init, Slots, Inflight
<1>2. Slots /\ TypeOK /\ Control /\ (TypeOK /\ Control)' /\ [Next]_vars => Slots'
    BY SlotsStep DEF IInv
<1>3. IInv <=> TypeOK /\ Control /\ Slots
    BY DEF IInv
<1> QED
    BY <1>1, <1>2, <1>3, TypeAndControl, PTL DEF Spec

\* No agent lives, none can start and nothing is being integrated while a
\* migration runs, for every number of tasks and threads and every fault.
THEOREM Exclusive == Spec => []ExclusiveWindow
<1>1. IInv => ExclusiveWindow
    BY DEF IInv, TypeOK, Control, Slots, ExclusiveWindow, Inflight, Live
<1> QED
    BY <1>1, Invariance, PTL

-----------------------------------------------------------------------------
(* WorkerPool implements MigrationWindow                                   *)

\* Putting a result changes who holds a task, not whether it is in flight.
LEMMA PutResultInflight ==
    ASSUME IInv, NEW t \in Task, NEW v, PutResult(t, v), wpc[t] \in {"queued", "agent"}
    PROVE  UNCHANGED <<window, Inflight>>
<1>1. /\ Len(completed') = Len(completed) + 1
      /\ \A i \in 1..Len(completed) : completed'[i] = completed[i]
      /\ completed'[Len(completed) + 1] = t
      /\ Len(completed) \in Nat
    BY AppendProperties, LenProperties DEF PutResult, IInv, TypeOK
<1>2. /\ wpc' = [wpc EXCEPT ![t] = "revoke"] /\ wpc \in [Task -> WorkSteps]
      /\ UNCHANGED <<window, cur>>
    BY DEF PutResult, MainUnchanged, mainVars, windowVars, IInv, TypeOK
<1>3. {completed'[i] : i \in 1..Len(completed')}
        = {completed[i] : i \in 1..Len(completed)} \cup {t}
    <2>1. 1..Len(completed') = 1..Len(completed) \cup {Len(completed) + 1}
        BY <1>1
    <2> QED BY <1>1, <2>1
<1>4. {u \in Task : wpc'[u] \in {"queued", "agent"}}
        = {u \in Task : wpc[u] \in {"queued", "agent"}} \ {t}
    BY <1>2
<1> QED
    BY <1>2, <1>3, <1>4 DEF Inflight

\* So does taking it off the queue.
LEMMA CollectInflight ==
    ASSUME IInv, Collect
    PROVE  UNCHANGED <<window, Inflight>>
<1>1. /\ cur = NoTask /\ cur' = completed[1] /\ cur' \in Task /\ completed # <<>>
      /\ completed' = Tail(completed)
      /\ UNCHANGED <<window, wpc>>
    BY HeadTailProperties DEF Collect, IInv, Control, TypeOK, windowVars
<1>2. /\ Len(completed') = Len(completed) - 1
      /\ \A i \in 1..Len(completed') : completed'[i] = completed[i + 1]
      /\ Len(completed) \in Nat \ {0}
    BY <1>1, HeadTailProperties, LenProperties, EmptySeq DEF IInv, TypeOK
<1>3. {completed[i] : i \in 1..Len(completed)}
        = {completed'[i] : i \in 1..Len(completed')} \cup {cur'}
    <2>1. ASSUME NEW i \in 1..Len(completed), i # 1
          PROVE  i - 1 \in 1..Len(completed') /\ completed[i] = completed'[i - 1]
        BY <1>2, <2>1
    <2>2. ASSUME NEW i \in 1..Len(completed')
          PROVE  i + 1 \in 1..Len(completed) /\ completed'[i] = completed[i + 1]
        BY <1>2
    <2>3. 1 \in 1..Len(completed)
        BY <1>2
    <2>4. ASSUME NEW u \in {completed[i] : i \in 1..Len(completed)}, u # cur'
          PROVE  u \in {completed'[i] : i \in 1..Len(completed')}
        <3>1. PICK i \in 1..Len(completed) : u = completed[i]
            OBVIOUS
        <3> QED BY <1>1, <2>1, <2>4, <3>1
    <2>5. ASSUME NEW u \in {completed'[i] : i \in 1..Len(completed')}
          PROVE  u \in {completed[i] : i \in 1..Len(completed)}
        BY <2>2
    <2>6. cur' \in {completed[i] : i \in 1..Len(completed)}
        BY <1>1, <2>3
    <2> QED BY <2>4, <2>5, <2>6
<1>4. NoTask \notin Task
    OBVIOUS
<1> QED
    BY <1>1, <1>3, <1>4 DEF Inflight

\* A step of neither the window, the threads nor the queue stutters for
\* MigrationWindow.
LEMMA Idle ==
    ASSUME UNCHANGED <<window, wpc, completed, cur>>
    PROVE  UNCHANGED <<window, Inflight>>
BY DEF Inflight

\* Every step of the pool is a step of MigrationWindow or a stutter of it.
LEMMA StepRefines == IInv /\ [Next]_vars => [Exclusion!Next]_(Exclusion!vars)
<1> SUFFICES ASSUME IInv, [Next]_vars PROVE [Exclusion!Next]_(Exclusion!vars)
    OBVIOUS
<1> USE DEF dbVars, gitVars, windowVars, mainVars, workVars
<1> DEFINE Stutter == UNCHANGED <<window, Inflight>>
<1>0. Stutter => UNCHANGED Exclusion!vars
    BY DEF Exclusion!vars
<1>1. CASE UNCHANGED vars
    BY <1>0, <1>1, Idle DEF vars
<1>2. ASSUME NEW t \in Task, Dispatch(t) PROVE Exclusion!Start(t)
    <2>1. /\ t \notin active /\ mpc = "dispatch"
          /\ wpc' = [wpc EXCEPT ![t] = "queued"]
          /\ UNCHANGED <<window, completed, cur>>
        BY <1>2 DEF Dispatch, AfterDispatch, NextChosen, IInv, Control
    <2>2. t \notin Inflight /\ window # "exclusive"
        BY <2>1 DEF IInv, Control, Slots
    <2>3. Inflight' = Inflight \cup {t}
        BY <2>1 DEF Inflight, IInv, TypeOK
    <2> QED BY <2>1, <2>2, <2>3 DEF Exclusion!Start
<1>3. ASSUME NEW result, Report(result), mpc \in {"land", "refuse", "hold"}
      PROVE  cur \in Task /\ Exclusion!Integrate(cur)
    <2>1. /\ cur \in Task /\ cur' = NoTask /\ UNCHANGED <<window, wpc, completed>>
          /\ window # "exclusive"
        BY <1>3 DEF Report, IInv, Control, Integrating
    <2>2. /\ wpc[cur] \notin {"queued", "agent"}
          /\ cur \notin {completed[i] : i \in 1..Len(completed)}
        BY <2>1 DEF IInv, Slots
    <2>3. cur \in Inflight /\ Inflight' = Inflight \ {cur}
        BY <2>1, <2>2 DEF Inflight
    <2> QED BY <2>1, <2>3 DEF Exclusion!Integrate
<1>4. CASE Land \/ Refuse \/ Hold
    BY <1>3, <1>4 DEF Land, Refuse, Hold, Exclusion!Next
<1>5. CASE Request
    BY <1>5, Idle DEF Request, Exclusion!Request, Exclusion!Next, Inflight
<1>6. CASE OpenWindow
    <2>1. window = "pending" /\ active = {} /\ window' = "exclusive" /\ mpc = "loop"
        BY <1>6 DEF OpenWindow, CanEnterExclusive
    <2>2. Inflight = {} /\ Inflight' = Inflight
        BY <1>6, <2>1 DEF OpenWindow, IInv, Slots, Inflight
    <2> QED BY <2>1, <2>2 DEF Exclusion!Enter, Exclusion!Next
<1>7. CASE CloseWindow
    <2>1. window = "exclusive" /\ window' = "open" /\ Inflight' = Inflight
        BY <1>7 DEF CloseWindow, IInv, Control, Inflight
    <2> QED BY <2>1 DEF Exclusion!Leave, Exclusion!Next
<1>8. CASE Collect
    BY <1>0, <1>8, CollectInflight
<1>9. ASSUME NEW t \in Task, Worker(t) PROVE Stutter
    <2>1. CASE SpawnAgent(t)
        <3>1. /\ wpc[t] = "queued" /\ wpc' = [wpc EXCEPT ![t] = "agent"]
              /\ UNCHANGED <<window, completed, cur>>
            BY <2>1 DEF SpawnAgent, MainUnchanged
        <3> QED BY <3>1 DEF Inflight, IInv, TypeOK
    <2>2. CASE WorkerReports(t) \/ WorkerErrors(t)
        BY <2>2, PutResultInflight DEF WorkerReports, WorkerErrors
    <2>3. CASE Revoke(t)
        <3>1. /\ wpc[t] = "revoke" /\ wpc' = [wpc EXCEPT ![t] = "ended"]
              /\ UNCHANGED <<window, completed, cur>>
            BY <2>3 DEF Revoke, MainUnchanged
        <3> QED BY <3>1 DEF Inflight, IInv, TypeOK
    <2> QED BY <1>9, <2>1, <2>2, <2>3 DEF Worker
<1>10. ASSUME NEW t \in Task, Agent(t) \/ Withdraw(t) \/ SkipLost(t) PROVE Stutter
    BY <1>10, Idle DEF Agent, Advance, Commit, ExitNoOp, ExitHalt, Withdraw, SkipLost,
                       AfterDispatch, AgentUnchanged, MainUnchanged
<1>11. CASE Fill \/ Abort \/ LeaveLoop \/ Shutdown \/ WatchdogHalt
    BY <1>0, <1>11, Idle DEF Fill, Abort, LeaveLoop, Shutdown, WatchdogHalt
<1>12. CASE RetrySpawn \/ RetryEnds \/ RetryFails
    BY <1>0, <1>12, Idle DEF RetrySpawn, RetryEnds, RetryFails
<1>13. CASE Gate \/ Refresh \/ Resolve \/ RegateResolved
    BY <1>0, <1>13, Idle DEF Gate, Refresh, Resolve, RegateResolved
<1>14. CASE \E u \in Foreign : ForeignLands(u)
    BY <1>0, <1>14, Idle DEF ForeignLands
<1>15. CASE \E t \in Task : Dispatch(t)
    BY <1>2, <1>15 DEF Exclusion!Next
<1> HIDE DEF Stutter
<1> QED
    BY <1>0, <1>1, <1>4, <1>5, <1>6, <1>7, <1>8, <1>9, <1>10, <1>11, <1>12, <1>13,
       <1>14, <1>15
    DEF Next, Main, Returned

\* The pool pauses, drains, runs the migration alone and resumes: every step is
\* a step of MigrationWindow or leaves its state alone.
THEOREM Refinement == Spec => PausesDrainsAndRuns
<1>1. Init => Exclusion!Init
    BY DEF Init, Exclusion!Init, Inflight
<1> QED
    BY <1>1, StepRefines, Invariance, PTL DEF Spec, PausesDrainsAndRuns, Exclusion!Spec
=============================================================================
