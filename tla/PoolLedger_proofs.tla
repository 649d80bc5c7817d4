-------------------------- MODULE PoolLedger_proofs --------------------------
(***************************************************************************)
(* Theorems about what WorkerPool reports, lands and forks from, for every *)
(* set of tasks, every cap, every conflict relation and every choice of    *)
(* faults: the database, the branches and the report of a run agree.       *)
(***************************************************************************)
EXTENDS WorkerPool_proofs, FiniteSetTheorems

-----------------------------------------------------------------------------
(* What a step may do to one variable                                      *)

\* Complete is final in a run, and notes, flags and the base only grow.
LEMMA OnlyGrows ==
    ASSUME TypeOK, [Next]_vars
    PROVE  /\ noted \subseteq noted' /\ flagged \subseteq flagged' /\ base \subseteq base'
           /\ \A t \in Task : status[t] = "Complete" => status'[t] = "Complete"
<1> USE DEF TypeOK, dbVars, gitVars, windowVars, mainVars, workVars
<1> DEFINE Goal == /\ noted \subseteq noted' /\ flagged \subseteq flagged' /\ base \subseteq base'
                   /\ \A t \in Task : status[t] = "Complete" => status'[t] = "Complete"
<1>1. CASE UNCHANGED <<dbVars, base>>
    BY <1>1
<1>2. CASE UNCHANGED vars
    BY <1>1, <1>2 DEF vars
<1>3. ASSUME NEW t \in Task, Dispatch(t) \/ SkipLost(t) PROVE UNCHANGED <<dbVars, base>>
    BY <1>3 DEF Dispatch, SkipLost, AfterDispatch
<1>4. CASE Fill \/ Abort \/ OpenWindow \/ CloseWindow \/ Collect \/ LeaveLoop \/ Shutdown
    BY <1>1, <1>4 DEF Fill, Abort, OpenWindow, CloseWindow, Collect, LeaveLoop, Shutdown
<1>5. CASE RetrySpawn \/ RetryEnds \/ RetryFails \/ Gate \/ Refresh \/ Resolve \/ RegateResolved
    BY <1>1, <1>5 DEF RetrySpawn, RetryEnds, RetryFails, Gate, Refresh, Resolve, RegateResolved
<1>6. CASE Land \/ Refuse \/ Hold \/ WatchdogHalt
    BY <1>6 DEF Land, Refuse, Hold, Report, WatchdogHalt, Raised
<1>7. ASSUME NEW t \in Task, Worker(t) PROVE UNCHANGED <<status, noted, flagged, base>>
    BY <1>7 DEF Worker, SpawnAgent, WorkerReports, WorkerErrors, Revoke, PutResult
<1>8. ASSUME NEW t \in Task, Agent(t) PROVE Goal
    BY <1>8 DEF Agent, Advance, Commit, ExitNoOp, ExitHalt, AgentUnchanged
<1>9. ASSUME NEW t \in Task, Withdraw(t) PROVE Goal
    BY <1>9 DEF Withdraw
<1>10. CASE Request \/ \E u \in Foreign : ForeignLands(u)
    BY <1>10 DEF Request, ForeignLands
<1> QED
    BY <1>1, <1>2, <1>3, <1>4, <1>5, <1>6, <1>7, <1>8, <1>9, <1>10 DEF Next, Main, Returned

\* A branch is taken anew by a worker that starts its agent or by the retry;
\* otherwise only an agent that lives, or the refresh of the result in hand,
\* adds to it.
LEMMA TreeMoves ==
    ASSUME TypeOK, Control, [Next]_vars, NEW t \in Task
    PROVE  \/ tree'[t] = tree[t]
           \/ wpc[t] = "queued" /\ wpc'[t] = "agent" /\ tree'[t] = base
           \/ mpc = "retry" /\ cur = t /\ tree'[t] = base
           \/ Live(t) /\ tree'[t] = tree[t] \cup {t}
           \/ mpc = "refresh" /\ mpc' = "regate" /\ cur = t /\ tree'[t] = tree[t] \cup base
           \/ mpc = "resolve" /\ cur = t /\ tree'[t] = tree[t] \cup incoming
<1> USE DEF TypeOK, dbVars, gitVars, windowVars, mainVars, workVars
<1> DEFINE Goal ==
           \/ tree'[t] = tree[t]
           \/ wpc[t] = "queued" /\ wpc'[t] = "agent" /\ tree'[t] = base
           \/ mpc = "retry" /\ cur = t /\ tree'[t] = base
           \/ Live(t) /\ tree'[t] = tree[t] \cup {t}
           \/ mpc = "refresh" /\ mpc' = "regate" /\ cur = t /\ tree'[t] = tree[t] \cup base
           \/ mpc = "resolve" /\ cur = t /\ tree'[t] = tree[t] \cup incoming
<1> SUFFICES Goal
    OBVIOUS
<1>1. CASE UNCHANGED vars
    BY <1>1 DEF vars
<1>2. ASSUME NEW u \in Task, Dispatch(u) \/ SkipLost(u) PROVE Goal
    BY <1>2 DEF Dispatch, SkipLost, AfterDispatch
<1>3. CASE Fill \/ Abort \/ OpenWindow \/ CloseWindow \/ Collect \/ LeaveLoop \/ Shutdown
    BY <1>3 DEF Fill, Abort, OpenWindow, CloseWindow, Collect, LeaveLoop, Shutdown
<1>4. CASE RetrySpawn \/ Refresh \/ Resolve
    BY <1>4 DEF RetrySpawn, Refresh, Resolve, Control, Integrating
<1>5. CASE RetryEnds \/ RetryFails \/ Gate \/ RegateResolved
    BY <1>5 DEF RetryEnds, RetryFails, Gate, RegateResolved
<1>6. CASE Land \/ Refuse \/ Hold \/ WatchdogHalt
    BY <1>6 DEF Land, Refuse, Hold, Report, WatchdogHalt
<1>7. ASSUME NEW u \in Task, SpawnAgent(u) PROVE Goal
    BY <1>7 DEF SpawnAgent
<1>8. ASSUME NEW u \in Task, WorkerReports(u) \/ WorkerErrors(u) \/ Revoke(u) PROVE Goal
    BY <1>8 DEF WorkerReports, WorkerErrors, Revoke, PutResult
<1>9. ASSUME NEW u \in Task, Agent(u) PROVE Goal
    BY <1>9 DEF Agent, Advance, Commit, ExitNoOp, ExitHalt, AgentUnchanged, Live
<1>10. ASSUME NEW u \in Task, Withdraw(u) PROVE Goal
    BY <1>10 DEF Withdraw
<1>11. CASE Request \/ \E u \in Foreign : ForeignLands(u)
    BY <1>11 DEF Request, ForeignLands
<1> HIDE DEF Goal
<1> QED
    BY <1>1, <1>2, <1>3, <1>4, <1>5, <1>6, <1>7, <1>8, <1>9, <1>10, <1>11
    DEF Next, Main, Worker, Returned

\* A verdict is what was read back when the agent of the worker, or of the
\* retry, ended; or an error.
LEMMA VerdictMoves ==
    ASSUME TypeOK, Control, Slots, [Next]_vars, NEW t \in Task
    PROVE  \/ verdict'[t] = verdict[t]
           \/ verdict'[t] = "error" /\ wpc'[t] # "queued"
                /\ (wpc[t] \in {"queued", "agent"} \/ (cur = t /\ mpc' = "refuse"))
           \/ verdict'[t] = VerifyResult(t) /\ wpc[t] = "agent" /\ wpc'[t] = "revoke"
                /\ UNCHANGED <<status, noted, tree>>
           \/ verdict'[t] = VerifyResult(t) /\ mpc = "retrying" /\ cur = t
                /\ mpc' = (IF verdict'[t] \in Passed THEN "gate" ELSE "refuse")
                /\ UNCHANGED <<status, noted, tree, wpc>>
<1> USE DEF TypeOK, dbVars, gitVars, windowVars, mainVars, workVars
<1> DEFINE Goal ==
           \/ verdict'[t] = verdict[t]
           \/ verdict'[t] = "error" /\ wpc'[t] # "queued"
                /\ (wpc[t] \in {"queued", "agent"} \/ (cur = t /\ mpc' = "refuse"))
           \/ verdict'[t] = VerifyResult(t) /\ wpc[t] = "agent" /\ wpc'[t] = "revoke"
                /\ UNCHANGED <<status, noted, tree>>
           \/ verdict'[t] = VerifyResult(t) /\ mpc = "retrying" /\ cur = t
                /\ mpc' = (IF verdict'[t] \in Passed THEN "gate" ELSE "refuse")
                /\ UNCHANGED <<status, noted, tree, wpc>>
<1> SUFFICES Goal
    OBVIOUS
<1>1. CASE UNCHANGED verdict
    BY <1>1
<1>2. ASSUME NEW u \in Task, Dispatch(u) \/ SkipLost(u) PROVE UNCHANGED verdict
    BY <1>2 DEF Dispatch, SkipLost, AfterDispatch
<1>3. CASE Fill \/ Abort \/ OpenWindow \/ CloseWindow \/ Collect \/ LeaveLoop \/ Shutdown
    BY <1>3 DEF Fill, Abort, OpenWindow, CloseWindow, Collect, LeaveLoop, Shutdown
<1>4. CASE RetrySpawn \/ Refresh \/ Resolve \/ Gate \/ RegateResolved
    BY <1>4 DEF RetrySpawn, Refresh, Resolve, Gate, RegateResolved
<1>5. CASE RetryEnds
    BY <1>5 DEF RetryEnds, Control, Integrating, Passed
<1>6. CASE RetryFails
    <2>1. cur # NoTask => wpc[cur] # "queued"
        BY DEF Slots
    <2> QED BY <1>6, <2>1, PoolAssumption DEF RetryFails, Control, Integrating
<1>7. CASE Land \/ Refuse \/ Hold \/ WatchdogHalt
    BY <1>7 DEF Land, Refuse, Hold, Report, WatchdogHalt
<1>8. ASSUME NEW u \in Task, WorkerReports(u) PROVE Goal
    BY <1>8 DEF WorkerReports, PutResult
<1>9. ASSUME NEW u \in Task, WorkerErrors(u) PROVE Goal
    BY <1>9 DEF WorkerErrors, PutResult
<1>10. ASSUME NEW u \in Task, SpawnAgent(u) \/ Revoke(u) \/ Agent(u) \/ Withdraw(u)
       PROVE  UNCHANGED verdict
    BY <1>10 DEF SpawnAgent, Revoke, Agent, Advance, Commit, ExitNoOp, ExitHalt,
                 AgentUnchanged, Withdraw
<1>11. CASE Request \/ \E u \in Foreign : ForeignLands(u)
    BY <1>11 DEF Request, ForeignLands
<1>12. CASE UNCHANGED vars
    BY <1>12 DEF vars
<1> QED
    BY <1>1, <1>2, <1>3, <1>4, <1>5, <1>6, <1>7, <1>8, <1>9, <1>10, <1>11, <1>12
    DEF Next, Main, Worker, Returned

\* A task is queued by its dispatch, and by nothing else.
LEMMA QueuedMoves ==
    ASSUME TypeOK, Control, [Next]_vars, NEW t \in Task, wpc'[t] # "idle"
    PROVE  \/ wpc[t] # "idle" /\ (wpc'[t] = "queued" => wpc[t] = "queued")
           \/ Dispatch(t)
<1> USE DEF TypeOK, dbVars, gitVars, windowVars, mainVars, workVars
<1> DEFINE Goal ==
           \/ wpc[t] # "idle" /\ (wpc'[t] = "queued" => wpc[t] = "queued")
           \/ Dispatch(t)
<1> SUFFICES Goal
    OBVIOUS
<1>1. CASE UNCHANGED wpc
    BY <1>1
<1>2. ASSUME NEW u \in Task, Dispatch(u) PROVE Goal
    <2>1. wpc' = [wpc EXCEPT ![u] = "queued"]
        BY <1>2 DEF Dispatch
    <2> QED BY <1>2, <2>1
<1>3. ASSUME NEW u \in Task, SkipLost(u) \/ Agent(u) \/ Withdraw(u) PROVE UNCHANGED wpc
    BY <1>3 DEF SkipLost, AfterDispatch, Agent, Advance, Commit, ExitNoOp, ExitHalt,
                AgentUnchanged, Withdraw
<1>4. CASE Fill \/ Abort \/ OpenWindow \/ CloseWindow \/ Collect \/ LeaveLoop \/ Shutdown
    BY <1>4 DEF Fill, Abort, OpenWindow, CloseWindow, Collect, LeaveLoop, Shutdown
<1>5. CASE RetrySpawn \/ RetryEnds \/ RetryFails \/ Refresh \/ Resolve \/ Gate \/ RegateResolved
    BY <1>5 DEF RetrySpawn, RetryEnds, RetryFails, Refresh, Resolve, Gate, RegateResolved
<1>6. CASE Land \/ Refuse \/ Hold \/ WatchdogHalt
    BY <1>6 DEF Land, Refuse, Hold, Report, WatchdogHalt
<1>7. ASSUME NEW u \in Task, Worker(u) PROVE Goal
    BY <1>7 DEF Worker, SpawnAgent, WorkerReports, WorkerErrors, Revoke, PutResult
<1>8. CASE Request \/ \E u \in Foreign : ForeignLands(u)
    BY <1>8 DEF Request, ForeignLands
<1>9. CASE UNCHANGED vars
    BY <1>9 DEF vars
<1> QED
    BY <1>1, <1>2, <1>3, <1>4, <1>5, <1>6, <1>7, <1>8, <1>9 DEF Next, Main, Returned

\* A task once dispatched does not become idle again.
LEMMA IdleStays ==
    ASSUME TypeOK, [Next]_vars, NEW t \in Task, wpc'[t] = "idle"
    PROVE  wpc[t] = "idle"
<1> USE DEF TypeOK, dbVars, gitVars, windowVars, mainVars, workVars
<1>1. CASE UNCHANGED wpc
    BY <1>1
<1>2. ASSUME NEW u \in Task, Dispatch(u) PROVE wpc[t] = "idle"
    BY <1>2 DEF Dispatch
<1>3. ASSUME NEW u \in Task, SkipLost(u) \/ Agent(u) \/ Withdraw(u) PROVE UNCHANGED wpc
    BY <1>3 DEF SkipLost, AfterDispatch, Agent, Advance, Commit, ExitNoOp, ExitHalt,
                AgentUnchanged, Withdraw
<1>4. CASE Fill \/ Abort \/ OpenWindow \/ CloseWindow \/ Collect \/ LeaveLoop \/ Shutdown
    BY <1>4 DEF Fill, Abort, OpenWindow, CloseWindow, Collect, LeaveLoop, Shutdown
<1>5. CASE RetrySpawn \/ RetryEnds \/ RetryFails \/ Refresh \/ Resolve \/ Gate \/ RegateResolved
    BY <1>5 DEF RetrySpawn, RetryEnds, RetryFails, Refresh, Resolve, Gate, RegateResolved
<1>6. CASE Land \/ Refuse \/ Hold \/ WatchdogHalt
    BY <1>6 DEF Land, Refuse, Hold, Report, WatchdogHalt
<1>7. ASSUME NEW u \in Task, Worker(u) PROVE wpc[t] = "idle"
    BY <1>7 DEF Worker, SpawnAgent, WorkerReports, WorkerErrors, Revoke, PutResult
<1>8. CASE Request \/ \E u \in Foreign : ForeignLands(u)
    BY <1>8 DEF Request, ForeignLands
<1>9. CASE UNCHANGED vars
    BY <1>9 DEF vars
<1> QED
    BY <1>1, <1>2, <1>3, <1>4, <1>5, <1>6, <1>7, <1>8, <1>9 DEF Next, Main, Returned

-----------------------------------------------------------------------------
(* Verified                                                                *)

\* verify_result passes a task that is Complete with its work on its branch, or
\* Complete and noted as a no-op.
LEMMA PassedMeans ==
    ASSUME TypeOK, NEW t \in Task, VerifyResult(t) \in Passed
    PROVE  status[t] = "Complete" /\ (t \in tree[t] \/ t \in noted)
<1>1. CASE status[t] # "Complete"
    <2>1. VerifyResult(t) = "not_complete"
        BY <1>1 DEF VerifyResult
    <2> QED BY <2>1 DEF Passed
<1>2. CASE status[t] = "Complete" /\ t \notin tree[t] /\ t \notin noted
    <2>1. VerifyResult(t) = "no_commits"
        BY <1>2 DEF VerifyResult
    <2> QED BY <2>1 DEF Passed
<1> QED BY <1>1, <1>2

\* The main thread lands only what was verified, and retries only what was not.
LEMMA HandVerified ==
    ASSUME TypeOK, Control, Slots, Verified, [Next]_vars
    PROVE  /\ mpc' \in {"gate", "refresh", "regate", "resolve", "reresolved", "land"} =>
                verdict'[cur'] \in Passed
           /\ mpc' \in {"retry", "retrying"} => verdict'[cur'] \notin Passed
<1> USE DEF TypeOK, dbVars, gitVars, windowVars, mainVars, workVars
<1> DEFINE Goal ==
           /\ mpc' \in {"gate", "refresh", "regate", "resolve", "reresolved", "land"} =>
                verdict'[cur'] \in Passed
           /\ mpc' \in {"retry", "retrying"} => verdict'[cur'] \notin Passed
<1> SUFFICES Goal
    OBVIOUS
<1>1. CASE UNCHANGED <<mpc, cur, verdict>>
    BY <1>1 DEF Verified
<1>2. ASSUME NEW u \in Task, Dispatch(u) \/ SkipLost(u) PROVE Goal
    BY <1>2 DEF Dispatch, SkipLost, AfterDispatch
<1>3. CASE Fill \/ Abort \/ OpenWindow \/ CloseWindow \/ LeaveLoop \/ Shutdown
    BY <1>3 DEF Fill, Abort, OpenWindow, CloseWindow, LeaveLoop, Shutdown
<1>4. CASE Collect
    BY <1>4 DEF Collect, AfterVerify, Passed
<1>5. CASE RetrySpawn \/ RetryEnds \/ RetryFails
    BY <1>5 DEF RetrySpawn, RetryEnds, RetryFails, Verified, Control, Integrating, Passed
<1>6. CASE Refresh \/ Resolve \/ Gate \/ RegateResolved
    BY <1>6 DEF Refresh, Resolve, Gate, RegateResolved, Verified
<1>7. CASE Land \/ Refuse \/ Hold \/ WatchdogHalt
    BY <1>7 DEF Land, Refuse, Hold, Report, WatchdogHalt
<1>8. ASSUME NEW u \in Task, WorkerReports(u) \/ WorkerErrors(u) PROVE Goal
    <2>1. /\ UNCHANGED <<mpc, cur>> /\ wpc[u] \in {"queued", "agent"}
          /\ \A w \in Task \ {u} : verdict'[w] = verdict[w]
        BY <1>8 DEF WorkerReports, WorkerErrors, PutResult, MainUnchanged
    <2>2. mpc \in Integrating => cur \in Task \ {u}
        BY <2>1, PoolAssumption DEF Slots, Control
    <2> QED BY <2>1, <2>2 DEF Verified, Integrating
<1>9. ASSUME NEW u \in Task, SpawnAgent(u) \/ Revoke(u) \/ Agent(u) \/ Withdraw(u)
      PROVE  UNCHANGED <<mpc, cur, verdict>>
    BY <1>9 DEF SpawnAgent, Revoke, MainUnchanged, Agent, Advance, Commit, ExitNoOp,
                ExitHalt, AgentUnchanged, Withdraw
<1>10. CASE Request \/ \E u \in Foreign : ForeignLands(u)
    BY <1>1, <1>10 DEF Request, ForeignLands
<1>11. CASE UNCHANGED vars
    BY <1>1, <1>11 DEF vars
<1> HIDE DEF Goal
<1> QED
    BY <1>1, <1>2, <1>3, <1>4, <1>5, <1>6, <1>7, <1>8, <1>9, <1>10, <1>11
    DEF Next, Main, Worker, Returned

\* What passed stays Complete and keeps its branch.
LEMMA VerifiedStep == IInv /\ Verified /\ [Next]_vars => Verified'
<1> SUFFICES ASSUME TypeOK, Control, Slots, Verified, [Next]_vars PROVE Verified'
    BY DEF IInv
<1>1. ASSUME NEW t \in Task, verdict'[t] \in Passed
      PROVE  status'[t] = "Complete" /\ (t \in tree'[t] \/ t \in noted')
    <2>1. CASE verdict'[t] = verdict[t]
        <3>1. /\ status[t] = "Complete" /\ (t \in tree[t] \/ t \in noted)
              /\ wpc[t] # "queued" /\ ~(mpc = "retry" /\ cur = t)
            BY <1>1, <2>1 DEF Verified
        <3>2. t \in tree[t] => t \in tree'[t]
            BY <3>1, TreeMoves
        <3> QED BY <3>1, <3>2, OnlyGrows
    <2>2. CASE verdict'[t] = VerifyResult(t) /\ UNCHANGED <<status, noted, tree>>
        BY <1>1, <2>2, PassedMeans
    <2> QED BY <1>1, <2>1, <2>2, VerdictMoves DEF Passed
<1>2. ASSUME NEW t \in Task, wpc'[t] = "queued" PROVE verdict'[t] \notin Passed
    <2>1. CASE wpc[t] = "queued"
        <3>1. verdict[t] \notin Passed
            BY <2>1 DEF Verified
        <3>2. verdict'[t] = verdict[t] \/ verdict'[t] = "error" \/ (mpc = "retrying" /\ cur = t)
            BY <1>2, VerdictMoves
        <3>3. mpc = "retrying" => cur # t
            BY <2>1, PoolAssumption DEF Slots, Control, Integrating
        <3> QED BY <3>1, <3>2, <3>3 DEF Passed
    <2>2. CASE Dispatch(t)
        <3>1. status[t] = "Ready" /\ UNCHANGED verdict
            BY <2>2 DEF Dispatch, AfterDispatch, Eligible
        <3> QED BY <3>1 DEF Verified
    <2> QED BY <1>2, <2>1, <2>2, QueuedMoves
<1> QED
    BY <1>1, <1>2, HandVerified DEF Verified

-----------------------------------------------------------------------------
(* Reported                                                                *)

\* A step that neither dispatches nor reports leaves the report in agreement.
LEMMA QuietReported ==
    ASSUME TypeOK, [Next]_vars, Reported,
           UNCHANGED <<active, outcome, paused, aborted>>,
           \A t \in Task : wpc'[t] = "idle" <=> wpc[t] = "idle",
           mpc' \in {"fill", "dispatch"} => ~paused,
           aborted => mpc' \in {"shutdown", "done"},
           mpc' \in {"shutdown", "done"} => mpc \in {"shutdown", "done"} \/ active = {}
    PROVE  Reported'
<1>1. /\ flagged \subseteq flagged' /\ base \subseteq base' /\ noted \subseteq noted'
      /\ \A t \in Task : status[t] = "Complete" => status'[t] = "Complete"
    BY OnlyGrows
<1>2. active \subseteq Task
    BY DEF TypeOK
<1>3. /\ \A t \in active' : wpc'[t] # "idle" /\ outcome'[t] = "none"
      /\ \A t \in Task : outcome'[t] # "none" => wpc'[t] # "idle"
      /\ ~aborted' => \A t \in Task : wpc'[t] # "idle" => t \in active' \/ outcome'[t] # "none"
    BY <1>2 DEF Reported
<1>4. /\ \A t \in Task : outcome'[t] \in Failing => paused' /\ t \in flagged' \cup FlagFails
      /\ \A t \in Task : outcome'[t] = "succeeded" =>
            status'[t] = "Complete" /\ (t \in base' \/ t \in noted')
    BY <1>1 DEF Reported
<1>5. /\ mpc' \in {"fill", "dispatch"} => ~paused'
      /\ aborted' => mpc' \in {"shutdown", "done"}
      /\ mpc' \in {"shutdown", "done"} /\ ~aborted' => active' = {}
    BY DEF Reported
<1> QED
    BY <1>3, <1>4, <1>5 DEF Reported

\* The result in hand belongs to an active task.
LEMMA HandActive ==
    ASSUME Control, Slots, mpc \in Integrating
    PROVE  cur \in Task /\ cur \in active /\ wpc[cur] \in {"revoke", "ended"}
BY PoolAssumption DEF Control, Slots, Inflight, Integrating

\* A report is the only one of its task; what succeeded is on the base.
LEMMA ReportReported ==
    ASSUME TypeOK, Control, Slots, Reported, NEW result \in Outcomes \ {"none"},
           Report(result), mpc \in {"land", "refuse", "hold"},
           base \subseteq base',
           result = "succeeded" => status[cur] = "Complete" /\ (cur \in base' \/ cur \in noted)
    PROVE  Reported'
<1>1. /\ cur \in Task /\ cur \in active /\ wpc[cur] # "idle"
      /\ outcome' = [outcome EXCEPT ![cur] = result]
      /\ active' = active \ {cur} /\ paused' = (paused \/ result # "succeeded")
      /\ flagged' \in IF result = "succeeded" THEN {flagged} ELSE Raised({cur})
      /\ mpc' = IF paused' THEN "loop" ELSE "fill"
      /\ UNCHANGED <<status, noted, aborted, wpc>>
      /\ outcome \in [Task -> Outcomes] /\ active \subseteq Task
    BY HandActive DEF Report, Integrating, workVars, TypeOK
<1>2. \A t \in Task : outcome'[t] = IF t = cur THEN result ELSE outcome[t]
    BY <1>1
<1>3. /\ \A t \in active' : wpc'[t] # "idle" /\ outcome'[t] = "none"
      /\ \A t \in Task : outcome'[t] # "none" => wpc'[t] # "idle"
      /\ ~aborted' => \A t \in Task : wpc'[t] # "idle" => t \in active' \/ outcome'[t] # "none"
    BY <1>1, <1>2 DEF Reported
<1>4. \A t \in Task : outcome'[t] \in Failing => paused' /\ t \in flagged' \cup FlagFails
    BY <1>1, <1>2 DEF Reported, Failing, Raised
<1>5. \A t \in Task : outcome'[t] = "succeeded" =>
            status'[t] = "Complete" /\ (t \in base' \/ t \in noted')
    BY <1>1, <1>2 DEF Reported
<1>6. /\ mpc' \in {"fill", "dispatch"} => ~paused'
      /\ aborted' => mpc' \in {"shutdown", "done"}
      /\ mpc' \in {"shutdown", "done"} /\ ~aborted' => active' = {}
    BY <1>1 DEF Reported
<1> QED
    BY <1>3, <1>4, <1>5, <1>6 DEF Reported

\* Landing: a verified branch goes on the base as a whole or not at all.
LEMMA LandReported ==
    ASSUME TypeOK, Control, Slots, Verified, Reported, Land
    PROVE  Reported'
<1>1. /\ cur \in Task /\ mpc = "land"
      /\ status[cur] = "Complete" /\ (cur \in tree[cur] \/ cur \in noted)
    BY HandActive DEF Land, Integrating, Verified
<1>2. CASE UNCHANGED base /\ Report("needs_human")
    BY <1>1, <1>2, ReportReported DEF Outcomes
<1>3. CASE base' = base \cup tree[cur] /\ Report("succeeded")
    BY <1>1, <1>3, ReportReported DEF Outcomes
<1> QED
    BY <1>2, <1>3 DEF Land

\* A dispatched task is neither active nor reported: it is Ready, and a report
\* that leaves the dispatch going is one of a Complete task.
LEMMA DispatchIsNew ==
    ASSUME TypeOK, Control, Reported, NEW t \in Task, Dispatch(t)
    PROVE  t \notin active /\ outcome[t] = "none" /\ wpc[t] = "idle" /\ ~paused /\ ~aborted
<1>1. t \notin active /\ status[t] = "Ready" /\ mpc = "dispatch"
    BY DEF Dispatch, NextChosen, Eligible, Control
<1>2. ~paused /\ ~aborted
    BY <1>1 DEF Reported
<1>3. outcome[t] \notin Failing \cup {"succeeded"}
    BY <1>1, <1>2 DEF Reported
<1>4. outcome[t] = "none"
    BY <1>3 DEF TypeOK, Outcomes, Failing
<1> QED
    BY <1>1, <1>2, <1>4 DEF Reported

\* Every step leaves `active`, the threads and the report in agreement.
LEMMA ReportedStep == IInv /\ Verified /\ Reported /\ [Next]_vars => Reported'
<1> SUFFICES ASSUME TypeOK, Control, Slots, Verified, Reported, [Next]_vars PROVE Reported'
    BY DEF IInv
<1> USE DEF dbVars, gitVars, windowVars, mainVars, workVars
<1>1. CASE UNCHANGED <<mpc, active, outcome, paused, aborted, wpc>>
    BY <1>1, QuietReported DEF Reported
<1>2. ASSUME NEW t \in Task, Dispatch(t) PROVE Reported'
    <2>1. t \notin active /\ outcome[t] = "none" /\ ~paused /\ ~aborted
        BY <1>2, DispatchIsNew
    <2>2. /\ wpc' = [wpc EXCEPT ![t] = "queued"] /\ active' = active \cup {t}
          /\ mpc' \in {"loop", "dispatch"}
          /\ UNCHANGED <<dbVars, base, outcome, paused, aborted>>
        BY <1>2 DEF Dispatch, AfterDispatch
    <2> QED BY <2>1, <2>2 DEF Reported, TypeOK
<1>3. ASSUME NEW t \in Task, SkipLost(t) PROVE Reported'
    BY <1>3, QuietReported DEF SkipLost, AfterDispatch, Reported
<1>4. CASE Fill \/ OpenWindow \/ CloseWindow \/ Collect
    BY <1>4, QuietReported DEF Fill, OpenWindow, CloseWindow, Collect, AfterVerify, Reported
<1>5. CASE LeaveLoop \/ Shutdown
    BY <1>5, QuietReported DEF LeaveLoop, Shutdown, Reported
<1>6. CASE Abort
    BY <1>6 DEF Abort, Reported
<1>7. CASE RetrySpawn \/ RetryEnds \/ RetryFails \/ Refresh \/ Resolve \/ Gate \/ RegateResolved
    BY <1>7, QuietReported
    DEF RetrySpawn, RetryEnds, RetryFails, Refresh, Resolve, Gate, RegateResolved, Reported
<1>8. CASE Land
    BY <1>8, LandReported
<1>9. CASE Refuse \/ Hold
    BY <1>9, ReportReported DEF Refuse, Hold, Outcomes
<1>10. CASE WatchdogHalt
    BY <1>10 DEF WatchdogHalt, Reported, TypeOK, Failing, Raised
<1>11. ASSUME NEW t \in Task, Worker(t) PROVE Reported'
    <2>1. /\ \A u \in Task : wpc'[u] = "idle" <=> wpc[u] = "idle"
          /\ UNCHANGED <<mpc, active, outcome, paused, aborted>>
        BY <1>11 DEF Worker, SpawnAgent, WorkerReports, WorkerErrors, Revoke, PutResult,
                     MainUnchanged, TypeOK
    <2> QED BY <2>1, QuietReported DEF Reported
<1>12. ASSUME NEW t \in Task, Agent(t) \/ Withdraw(t)
       PROVE  UNCHANGED <<mpc, active, outcome, paused, aborted, wpc>>
    BY <1>12 DEF Agent, Advance, Commit, ExitNoOp, ExitHalt, AgentUnchanged, MainUnchanged,
                 Withdraw
<1>13. CASE Request \/ \E u \in Foreign : ForeignLands(u)
    BY <1>1, <1>13 DEF Request, ForeignLands
<1>14. CASE UNCHANGED vars
    BY <1>1, <1>14 DEF vars
<1> QED
    BY <1>1, <1>2, <1>3, <1>4, <1>5, <1>6, <1>7, <1>8, <1>9, <1>10, <1>11, <1>12,
       <1>13, <1>14
    DEF Next, Main, Returned

\* Nothing but the report of an active task changes an outcome.
LEMMA OutcomeMoves ==
    ASSUME TypeOK, Control, Slots, [Next]_vars, NEW t \in Task
    PROVE  outcome'[t] = outcome[t] \/ t \in active
<1> USE DEF dbVars, gitVars, windowVars, mainVars, workVars
<1>1. CASE UNCHANGED outcome
    BY <1>1
<1>2. CASE Land \/ Refuse \/ Hold
    BY <1>2, HandActive DEF Land, Refuse, Hold, Report, Integrating, TypeOK
<1>3. CASE WatchdogHalt
    BY <1>3 DEF WatchdogHalt
<1>4. ASSUME NEW u \in Task, Dispatch(u) \/ SkipLost(u) \/ Worker(u) \/ Agent(u) \/ Withdraw(u)
      PROVE  UNCHANGED outcome
    BY <1>4 DEF Dispatch, SkipLost, AfterDispatch, Worker, SpawnAgent, WorkerReports,
                WorkerErrors, PutResult, Revoke, Agent, Advance, Commit, ExitNoOp, ExitHalt,
                Withdraw, MainUnchanged
<1>5. CASE Fill \/ Abort \/ OpenWindow \/ CloseWindow \/ Collect \/ LeaveLoop \/ Shutdown
    BY <1>5 DEF Fill, Abort, OpenWindow, CloseWindow, Collect, LeaveLoop, Shutdown
<1>6. CASE RetrySpawn \/ RetryEnds \/ RetryFails \/ Refresh \/ Resolve \/ Gate \/ RegateResolved
    BY <1>6 DEF RetrySpawn, RetryEnds, RetryFails, Refresh, Resolve, Gate, RegateResolved
<1>7. CASE Request \/ \E u \in Foreign : ForeignLands(u)
    BY <1>7 DEF Request, ForeignLands
<1>8. CASE UNCHANGED vars
    BY <1>8 DEF vars
<1> QED
    BY <1>1, <1>2, <1>3, <1>4, <1>5, <1>6, <1>7, <1>8 DEF Next, Main, Returned

-----------------------------------------------------------------------------
(* Landed                                                                  *)

\* The base takes in sibling pools' work and whole landings of this pool; a
\* refresh folds in nothing that is not on the base.
LEMMA BaseMoves ==
    ASSUME TypeOK, [Next]_vars
    PROVE  /\ incoming' \subseteq incoming \cup base
           /\ \/ base' = base
              \/ \E u \in Foreign : base' = base \cup {u}
              \/ Land /\ base' = base \cup tree[cur] /\ outcome' = [outcome EXCEPT ![cur] = "succeeded"]
<1> USE DEF dbVars, gitVars, windowVars, mainVars, workVars
<1> DEFINE Goal ==
           /\ incoming' \subseteq incoming \cup base
           /\ \/ base' = base
              \/ \E u \in Foreign : base' = base \cup {u}
              \/ Land /\ base' = base \cup tree[cur] /\ outcome' = [outcome EXCEPT ![cur] = "succeeded"]
<1> SUFFICES Goal
    OBVIOUS
<1>1. CASE UNCHANGED <<base, incoming>>
    BY <1>1
<1>2. CASE Refresh \/ Resolve
    BY <1>2 DEF Refresh, Resolve
<1>3. CASE Land
    BY <1>3 DEF Land, Report
<1>4. CASE Refuse \/ Hold
    BY <1>4 DEF Refuse, Hold, Report
<1>5. CASE \E u \in Foreign : ForeignLands(u)
    BY <1>5 DEF ForeignLands
<1>6. ASSUME NEW u \in Task, Dispatch(u) \/ SkipLost(u) \/ Worker(u) \/ Agent(u) \/ Withdraw(u)
      PROVE  UNCHANGED <<base, incoming>>
    BY <1>6 DEF Dispatch, SkipLost, AfterDispatch, Worker, SpawnAgent, WorkerReports,
                WorkerErrors, PutResult, Revoke, Agent, Advance, Commit, ExitNoOp, ExitHalt,
                AgentUnchanged, Withdraw
<1>7. CASE Fill \/ Abort \/ OpenWindow \/ CloseWindow \/ Collect \/ LeaveLoop \/ Shutdown
    BY <1>1, <1>7 DEF Fill, Abort, OpenWindow, CloseWindow, Collect, LeaveLoop, Shutdown
<1>8. CASE RetrySpawn \/ RetryEnds \/ RetryFails \/ Gate \/ RegateResolved \/ WatchdogHalt
    BY <1>1, <1>8 DEF RetrySpawn, RetryEnds, RetryFails, Gate, RegateResolved, WatchdogHalt
<1>9. CASE Request
    BY <1>1, <1>9 DEF Request
<1>10. CASE UNCHANGED vars
    BY <1>1, <1>10 DEF vars
<1> HIDE DEF Goal
<1> QED
    BY <1>1, <1>2, <1>3, <1>4, <1>5, <1>6, <1>7, <1>8, <1>9, <1>10 DEF Next, Main, Returned

\* A branch never carries another task's work that is not on the base.
LEMMA LandedStep == IInv /\ Reported /\ Landed /\ [Next]_vars => Landed'
<1> SUFFICES ASSUME TypeOK, Control, Slots, Reported, Landed, [Next]_vars PROVE Landed'
    BY DEF IInv
<1>1. base \subseteq base' /\ incoming' \subseteq base'
    BY OnlyGrows, BaseMoves DEF Landed
<1>2. ASSUME NEW t \in Task PROVE tree'[t] \subseteq base' \cup {t}
    <2>1. tree[t] \subseteq base \cup {t} /\ incoming \subseteq base
        BY DEF Landed
    <2>2. tree'[t] \subseteq tree[t] \cup base \cup incoming \cup {t}
        BY TreeMoves
    <2> QED BY <1>1, <2>1, <2>2
<1>3. ASSUME NEW t \in Task, t \in base'
      PROVE  outcome'[t] = "succeeded" \/ (wpc'[t] = "idle" /\ status'[t] = "Complete")
    <2>1. CASE t \in base /\ outcome[t] = "succeeded"
        <3>1. t \notin active
            BY <2>1 DEF Reported
        <3> QED BY <2>1, <3>1, OutcomeMoves
    <2>2. CASE t \in base /\ wpc[t] = "idle" /\ status[t] = "Complete"
        <3>1. ~Dispatch(t)
            BY <2>2 DEF Dispatch, Eligible
        <3> QED BY <2>2, <3>1, QueuedMoves, OnlyGrows
    <2>3. CASE t \notin base
        <3>1. /\ Land /\ base' = base \cup tree[cur]
              /\ outcome' = [outcome EXCEPT ![cur] = "succeeded"]
            BY <1>3, <2>3, BaseMoves, PoolAssumption
        <3>2. cur \in Task
            BY <3>1, HandActive DEF Land, Integrating
        <3>3. tree[cur] \subseteq base \cup {cur}
            BY <3>2 DEF Landed
        <3> QED BY <1>3, <2>3, <3>1, <3>2, <3>3 DEF TypeOK
    <2> QED BY <2>1, <2>2, <2>3 DEF Landed
<1> QED
    BY <1>1, <1>2, <1>3 DEF Landed

-----------------------------------------------------------------------------
(* Accounted                                                               *)

\* A task becomes Complete at the hands of its agent only.
LEMMA CompleteMoves ==
    ASSUME TypeOK, [Next]_vars, NEW t \in Task, status'[t] = "Complete"
    PROVE  status[t] = "Complete" \/ Live(t)
<1> USE DEF TypeOK, dbVars, gitVars, windowVars, mainVars, workVars
<1>1. CASE UNCHANGED status
    BY <1>1
<1>2. ASSUME NEW u \in Task, Agent(u) \/ Withdraw(u) PROVE status'[t] = status[t] \/ Live(t)
             \/ status'[t] = "Blocked"
    BY <1>2 DEF Agent, Advance, Commit, ExitNoOp, ExitHalt, Withdraw
<1>3. ASSUME NEW u \in Task, Dispatch(u) \/ SkipLost(u) \/ Worker(u) PROVE UNCHANGED status
    BY <1>3 DEF Dispatch, SkipLost, AfterDispatch, Worker, SpawnAgent, WorkerReports,
                WorkerErrors, PutResult, Revoke
<1>4. CASE Fill \/ Abort \/ OpenWindow \/ CloseWindow \/ Collect \/ LeaveLoop \/ Shutdown
    BY <1>1, <1>4 DEF Fill, Abort, OpenWindow, CloseWindow, Collect, LeaveLoop, Shutdown
<1>5. CASE RetrySpawn \/ RetryEnds \/ RetryFails \/ Refresh \/ Resolve \/ Gate \/ RegateResolved
    BY <1>1, <1>5 DEF RetrySpawn, RetryEnds, RetryFails, Refresh, Resolve, Gate, RegateResolved
<1>6. CASE Land \/ Refuse \/ Hold \/ WatchdogHalt
    BY <1>1, <1>6 DEF Land, Refuse, Hold, Report, WatchdogHalt
<1>7. CASE Request \/ \E u \in Foreign : ForeignLands(u)
    BY <1>1, <1>7 DEF Request, ForeignLands
<1>8. CASE UNCHANGED vars
    BY <1>1, <1>8 DEF vars
<1> QED
    BY <1>1, <1>2, <1>3, <1>4, <1>5, <1>6, <1>7, <1>8 DEF Next, Main, Returned

\* An agent that lives has been dispatched.
LEMMA LiveIsDispatched ==
    ASSUME Control, Slots, NEW t \in Task, Live(t)
    PROVE  wpc[t] # "idle"
BY PoolAssumption DEF Live, Control, Slots, Integrating

\* What this run leaves alone stays where the runs before it put it.
LEMMA AccountedStep == IInv /\ Accounted /\ [Next]_vars => Accounted'
<1> SUFFICES ASSUME TypeOK, Control, Slots, Accounted, [Next]_vars,
                    NEW t \in Task, wpc'[t] = "idle", status'[t] = "Complete"
             PROVE  t \in base' \cup noted'
    BY DEF IInv, Accounted
<1>1. wpc[t] = "idle"
    BY IdleStays
<1>2. status[t] = "Complete"
    BY <1>1, LiveIsDispatched, CompleteMoves
<1> QED
    BY <1>1, <1>2, OnlyGrows DEF Accounted

-----------------------------------------------------------------------------
(* Forked                                                                  *)

\* A task is chosen by Fill, and by nothing else.
LEMMA ChosenMoves ==
    ASSUME TypeOK, [Next]_vars
    PROVE  Fill \/ chosen' \subseteq chosen
<1> USE DEF dbVars, gitVars, windowVars, mainVars, workVars
<1>1. CASE UNCHANGED chosen
    BY <1>1
<1>2. ASSUME NEW u \in Task, Dispatch(u) \/ SkipLost(u) PROVE chosen' \subseteq chosen
    BY <1>2 DEF Dispatch, SkipLost, AfterDispatch
<1>3. ASSUME NEW u \in Task, Worker(u) \/ Agent(u) \/ Withdraw(u) PROVE UNCHANGED chosen
    BY <1>3 DEF Worker, SpawnAgent, WorkerReports, WorkerErrors, PutResult, Revoke, Agent,
                Advance, Commit, ExitNoOp, ExitHalt, Withdraw, MainUnchanged
<1>4. CASE Abort \/ OpenWindow \/ CloseWindow \/ Collect \/ LeaveLoop \/ Shutdown
    BY <1>4 DEF Abort, OpenWindow, CloseWindow, Collect, LeaveLoop, Shutdown
<1>5. CASE RetrySpawn \/ RetryEnds \/ RetryFails \/ Refresh \/ Resolve \/ Gate \/ RegateResolved
    BY <1>5 DEF RetrySpawn, RetryEnds, RetryFails, Refresh, Resolve, Gate, RegateResolved
<1>6. CASE Land \/ Refuse \/ Hold \/ WatchdogHalt
    BY <1>6 DEF Land, Refuse, Hold, Report, WatchdogHalt
<1>7. CASE Request \/ \E u \in Foreign : ForeignLands(u)
    BY <1>7 DEF Request, ForeignLands
<1>8. CASE UNCHANGED vars
    BY <1>8 DEF vars
<1> QED
    BY <1>1, <1>2, <1>3, <1>4, <1>5, <1>6, <1>7, <1>8 DEF Next, Main, Returned

\* What Fill chooses has its blockers landed: they are Complete, none of them
\* is active, and a blocker reported as not succeeded would have paused it.
LEMMA FillForks ==
    ASSUME TypeOK, Control, Reported, Accounted, Fill, NEW t \in chosen'
    PROVE  t \in Task /\ BlockedBy[t] \subseteq base \cup noted
<1>1. mpc = "fill" /\ chosen = {} /\ ~paused
    BY DEF Fill, Control, Reported
<1>2. PICK held \in SUBSET Task, S \in SUBSET Task :
         SelectToDispatch({u \in Task \ held : Eligible(u)}, S) /\ chosen' = S
    BY <1>1 DEF Fill
<1>3. t \in Task /\ Eligible(t) /\ BlockedBy[t] \cap active = {}
    BY <1>2 DEF SelectToDispatch
<1>4. ASSUME NEW b \in BlockedBy[t] PROVE b \in base \cup noted
    <2>1. b \in Task /\ status[b] = "Complete" /\ b \notin active
        BY <1>3, PoolAssumption DEF Eligible
    <2>2. CASE wpc[b] = "idle"
        BY <2>1, <2>2 DEF Accounted
    <2>3. CASE wpc[b] # "idle"
        <3>1. outcome[b] # "none" /\ outcome[b] \notin Failing
            BY <1>1, <2>1, <2>3 DEF Reported
        <3>2. outcome[b] = "succeeded"
            BY <2>1, <3>1 DEF TypeOK, Outcomes, Failing
        <3> QED BY <2>1, <3>2 DEF Reported
    <2> QED BY <2>2, <2>3
<1> QED
    BY <1>3, <1>4

\* An agent starts in a branch that was just forked from the base.
LEMMA LiveMoves ==
    ASSUME TypeOK, Control, Slots, [Next]_vars, NEW t \in Task, Live(t)'
    PROVE  wpc[t] # "idle" /\ (Live(t) \/ tree'[t] = base)
<1> USE DEF TypeOK, dbVars, gitVars, windowVars, mainVars, workVars
<1> DEFINE Goal == wpc[t] # "idle" /\ (Live(t) \/ tree'[t] = base)
<1> SUFFICES Goal
    OBVIOUS
<1>0. wpc'[t] = "agent" \/ (mpc' = "retrying" /\ cur' = t)
    BY DEF Live
<1>1. CASE UNCHANGED <<wpc, mpc, cur>>
    BY <1>0, <1>1, LiveIsDispatched DEF Live
<1>2. ASSUME NEW u \in Task, Dispatch(u) PROVE Goal
    BY <1>0, <1>2 DEF Dispatch, AfterDispatch, Live
<1>3. ASSUME NEW u \in Task, SkipLost(u) PROVE Goal
    BY <1>0, <1>3 DEF SkipLost, AfterDispatch, Live
<1>4. CASE Fill \/ Abort \/ OpenWindow \/ CloseWindow \/ Collect \/ LeaveLoop \/ Shutdown
    BY <1>0, <1>4 DEF Fill, Abort, OpenWindow, CloseWindow, Collect, AfterVerify, LeaveLoop,
                      Shutdown, Live
<1>5. CASE RetrySpawn
    <2>1. cur \in Task /\ wpc[cur] # "idle"
        BY <1>5, HandActive DEF RetrySpawn, Integrating
    <2> QED BY <1>0, <1>5, <2>1 DEF RetrySpawn, Live
<1>6. CASE RetryEnds \/ RetryFails \/ Refresh \/ Resolve \/ Gate \/ RegateResolved
    BY <1>0, <1>6 DEF RetryEnds, RetryFails, Refresh, Resolve, Gate, RegateResolved, Live
<1>7. CASE Land \/ Refuse \/ Hold \/ WatchdogHalt
    BY <1>0, <1>7 DEF Land, Refuse, Hold, Report, WatchdogHalt, Live
<1>8. ASSUME NEW u \in Task, SpawnAgent(u) PROVE Goal
    <2>1. CASE u = t
        BY <1>8, <2>1 DEF SpawnAgent
    <2>2. CASE u # t
        <3>1. Live(t)
            BY <1>0, <1>8, <2>2 DEF SpawnAgent, MainUnchanged, Live
        <3> QED BY <3>1, LiveIsDispatched
    <2> QED BY <2>1, <2>2
<1>9. ASSUME NEW u \in Task, WorkerReports(u) \/ WorkerErrors(u) \/ Revoke(u) PROVE Goal
    <2>1. Live(t)
        BY <1>0, <1>9 DEF WorkerReports, WorkerErrors, PutResult, Revoke, MainUnchanged, Live
    <2> QED BY <2>1, LiveIsDispatched
<1>10. ASSUME NEW u \in Task, Agent(u) \/ Withdraw(u) PROVE UNCHANGED <<wpc, mpc, cur>>
    BY <1>10 DEF Agent, Advance, Commit, ExitNoOp, ExitHalt, AgentUnchanged, MainUnchanged,
                 Withdraw
<1>11. CASE Request \/ \E u \in Foreign : ForeignLands(u)
    BY <1>1, <1>11 DEF Request, ForeignLands
<1>12. CASE UNCHANGED vars
    BY <1>1, <1>12 DEF vars
<1> HIDE DEF Goal
<1> QED
    BY <1>1, <1>2, <1>3, <1>4, <1>5, <1>6, <1>7, <1>8, <1>9, <1>10, <1>11, <1>12
    DEF Next, Main, Worker, Returned

\* Dependents fork after their blockers: at the dispatch and at the retry.
LEMMA ForkedStep == IInv /\ Reported /\ Accounted /\ Forked /\ [Next]_vars => Forked'
<1> SUFFICES ASSUME TypeOK, Control, Slots, Reported, Accounted, Forked, [Next]_vars
             PROVE  Forked'
    BY DEF IInv
<1>1. base \subseteq base' /\ noted \subseteq noted'
    BY OnlyGrows
<1>2. ASSUME NEW t \in Task, t \in chosen' \/ wpc'[t] # "idle"
      PROVE  BlockedBy[t] \subseteq base' \cup noted'
    <2>1. CASE t \in chosen'
        BY <1>1, <2>1, FillForks, ChosenMoves DEF Forked
    <2>2. CASE wpc'[t] # "idle"
        <3>1. wpc[t] # "idle" \/ t \in chosen
            BY <2>2, QueuedMoves DEF Dispatch, NextChosen
        <3> QED BY <1>1, <3>1 DEF Forked
    <2> QED BY <1>2, <2>1, <2>2
<1>3. ASSUME NEW t \in Task, Live(t)' PROVE BlockedBy[t] \subseteq tree'[t] \cup noted'
    <2>1. BlockedBy[t] \subseteq base \cup noted
        BY <1>3, LiveMoves DEF Forked
    <2>2. CASE tree'[t] = base
        BY <1>1, <2>1, <2>2
    <2>3. CASE Live(t)
        <3>1. BlockedBy[t] \subseteq tree[t] \cup noted
            BY <2>3 DEF Forked
        <3>2. tree[t] \subseteq tree'[t] \/ tree'[t] = base
            BY TreeMoves
        <3> QED BY <1>1, <2>1, <3>1, <3>2
    <2> QED BY <1>3, <2>2, <2>3, LiveMoves
<1> QED
    BY <1>2, <1>3 DEF Forked, Live

-----------------------------------------------------------------------------
(* Capped                                                                  *)

\* A part of a finite set with at most n members has at most n.
LEMMA PartFits ==
    ASSUME NEW S, IsFiniteSet(S), NEW R, R \subseteq S, NEW n \in Nat, Cardinality(S) <= n
    PROVE  Cardinality(R) <= n
<1>1. Cardinality(R) <= Cardinality(S) /\ IsFiniteSet(R)
    BY FS_Subset
<1>2. Cardinality(R) \in Nat /\ Cardinality(S) \in Nat
    BY <1>1, FS_CardinalityType
<1> QED
    BY <1>1, <1>2

\* A finite set of numbers of which each has fewer than n smaller ones in the
\* set has at most n members: two of them never have the same rank.
LEMMA RanksFit ==
    ASSUME NEW S \in SUBSET Nat, IsFiniteSet(S), NEW n \in Nat,
           \A c \in S : Cardinality({d \in S : d < c}) < n
    PROVE  Cardinality(S) <= n
<1> DEFINE Earlier(c) == {d \in S : d < c}
           Rank(c) == Cardinality(Earlier(c))
           rank == [c \in S |-> Rank(c)]
<1>1. ASSUME NEW c \in S PROVE IsFiniteSet(Earlier(c)) /\ Rank(c) \in Nat
    <2>1. Earlier(c) \in SUBSET S
        OBVIOUS
    <2> HIDE DEF Earlier
    <2>2. IsFiniteSet(Earlier(c))
        BY <2>1, FS_Subset
    <2> QED BY <2>2, FS_CardinalityType
<1>2. \A c \in S : Rank(c) \in 0..(n - 1)
    <2> SUFFICES ASSUME NEW c \in S PROVE Rank(c) \in 0..(n - 1)
        OBVIOUS
    <2>1. Cardinality({d \in S : d < c}) < n
        BY Zenon
    <2>2. Rank(c) < n /\ Rank(c) \in Nat
        BY <1>1, <2>1, Zenon
    <2> HIDE DEF Rank, Earlier
    <2> QED BY <2>2
<1>3. ASSUME NEW c \in S, NEW d \in S, c < d PROVE Rank(c) < Rank(d)
    <2>1. Earlier(c) \cup {c} \in SUBSET Earlier(d) /\ c \notin Earlier(c)
        <3>1. c \in Nat /\ d \in Nat /\ S \subseteq Nat
            OBVIOUS
        <3>2. \A e \in S : e < c => e < d
            BY <1>3, <3>1
        <3>3. c \notin Earlier(c)
            BY <3>1
        <3>4. \A e \in Earlier(c) \cup {c} : e \in Earlier(d)
            BY <1>3, <3>2
        <3> HIDE DEF Earlier
        <3> QED BY <3>3, <3>4
    <2> HIDE DEF Earlier
    <2>2. Cardinality(Earlier(c) \cup {c}) = Rank(c) + 1
        BY <1>1, <2>1, FS_AddElement
    <2>3. Cardinality(Earlier(c) \cup {c}) <= Rank(d)
        BY <1>1, <2>1, FS_Subset
    <2> HIDE DEF Rank
    <2> QED BY <1>1, <2>2, <2>3
<1> HIDE DEF Rank
<1>4. rank \in [S -> 0..(n - 1)]
    BY <1>2
<1>5. \A c, d \in S : c # d => rank[c] # rank[d]
    <2> SUFFICES ASSUME NEW c \in S, NEW d \in S, c # d PROVE Rank(c) # Rank(d)
        OBVIOUS
    <2>1. Rank(c) \in Nat /\ Rank(d) \in Nat
        BY <1>2
    <2>2. c < d \/ d < c
        OBVIOUS
    <2> QED BY <1>3, <2>1, <2>2
<1>6. IsFiniteSet(0..(n - 1)) /\ Cardinality(0..(n - 1)) = n
    <2>1. 0 \in Int /\ n - 1 \in Int
        OBVIOUS
    <2>2. /\ IsFiniteSet(0..(n - 1))
          /\ Cardinality(0..(n - 1)) = IF 0 > n - 1 THEN 0 ELSE (n - 1) - 0 + 1
        BY <2>1, FS_Interval
    <2> QED BY <2>2
<1>7. Cardinality(S) \in Nat
    BY FS_CardinalityType
<1>8. ~(n < Cardinality(S))
    <2> HIDE DEF rank
    <2> QED BY <1>5, <1>6, <1>4, FS_PigeonHole
<1> QED
    BY <1>7, <1>8

\* select_to_dispatch leaves the pool within its slots.
LEMMA SelectFits ==
    ASSUME TypeOK, Cardinality(active) <= MaxConcurrent, NEW C, NEW S \in SUBSET Task,
           SelectToDispatch(C, S)
    PROVE  Cardinality(active \cup S) <= MaxConcurrent
<1>1. IsFiniteSet(active) /\ IsFiniteSet(S) /\ S \in SUBSET Nat
    BY FS_Subset, PoolAssumption DEF TypeOK
<1>2. Cardinality(active) \in Nat /\ MaxConcurrent - Cardinality(active) \in Nat
    BY <1>1, FS_CardinalityType, PoolAssumption
<1>3. ASSUME NEW c \in S
      PROVE  Cardinality({d \in S : d < c}) < MaxConcurrent - Cardinality(active)
    <2>1. Cardinality(active) + Cardinality({d \in S : d < c}) < MaxConcurrent
        BY DEF SelectToDispatch
    <2>2. IsFiniteSet({d \in S : d < c})
        BY <1>1, FS_Subset
    <2>3. Cardinality({d \in S : d < c}) \in Nat
        BY <2>2, FS_CardinalityType
    <2> QED BY <1>2, <2>1, <2>3, PoolAssumption
<1>4. Cardinality(S) <= MaxConcurrent - Cardinality(active)
    BY <1>1, <1>2, <1>3, RanksFit
<1>5. Cardinality(active \cup S) = Cardinality(active) + Cardinality(S) - Cardinality(active \cap S)
    BY <1>1, FS_Union
<1>6. Cardinality(active \cap S) \in Nat /\ Cardinality(S) \in Nat
    BY <1>1, FS_Intersection, FS_CardinalityType
<1> QED
    BY <1>2, <1>4, <1>5, <1>6, PoolAssumption

\* Between two fillings what is active or chosen only shrinks.
LEMMA ActiveMoves ==
    ASSUME TypeOK, Control, [Next]_vars
    PROVE  Fill \/ active' \cup chosen' \subseteq active \cup chosen
<1> USE DEF dbVars, gitVars, windowVars, mainVars, workVars
<1>1. CASE UNCHANGED <<active, chosen>>
    BY <1>1
<1>2. ASSUME NEW u \in Task, Dispatch(u) \/ SkipLost(u)
      PROVE  active' \cup chosen' \subseteq active \cup chosen
    BY <1>2 DEF Dispatch, SkipLost, AfterDispatch, NextChosen
<1>3. ASSUME NEW u \in Task, Worker(u) \/ Agent(u) \/ Withdraw(u) PROVE UNCHANGED <<active, chosen>>
    BY <1>3 DEF Worker, SpawnAgent, WorkerReports, WorkerErrors, PutResult, Revoke, Agent,
                Advance, Commit, ExitNoOp, ExitHalt, Withdraw, MainUnchanged
<1>4. CASE Abort \/ OpenWindow \/ CloseWindow \/ Collect \/ LeaveLoop \/ Shutdown
    BY <1>1, <1>4 DEF Abort, OpenWindow, CloseWindow, Collect, LeaveLoop, Shutdown
<1>5. CASE RetrySpawn \/ RetryEnds \/ RetryFails \/ Refresh \/ Resolve \/ Gate \/ RegateResolved
    BY <1>1, <1>5 DEF RetrySpawn, RetryEnds, RetryFails, Refresh, Resolve, Gate, RegateResolved
<1>6. CASE Land \/ Refuse \/ Hold \/ WatchdogHalt
    BY <1>6 DEF Land, Refuse, Hold, Report, WatchdogHalt
<1>7. CASE Request \/ \E u \in Foreign : ForeignLands(u)
    BY <1>1, <1>7 DEF Request, ForeignLands
<1>8. CASE UNCHANGED vars
    BY <1>1, <1>8 DEF vars
<1> QED
    BY <1>1, <1>2, <1>3, <1>4, <1>5, <1>6, <1>7, <1>8 DEF Next, Main, Returned

\* The threads of the executor that hold an agent or give back its token.
Busy == {t \in Task : wpc[t] \in {"agent", "revoke"}}

\* A thread takes up work only while another is free.
LEMMA BusyMoves ==
    ASSUME TypeOK, [Next]_vars
    PROVE  \/ Busy' \subseteq Busy
           \/ FreeThread /\ \E t \in Task : Busy' \subseteq Busy \cup {t}
<1> USE DEF TypeOK, dbVars, gitVars, windowVars, mainVars, workVars
<1> DEFINE Goal == \/ Busy' \subseteq Busy
                   \/ FreeThread /\ \E t \in Task : Busy' \subseteq Busy \cup {t}
<1> SUFFICES Goal
    OBVIOUS
<1>1. CASE UNCHANGED wpc
    BY <1>1 DEF Busy
<1>2. ASSUME NEW t \in Task, Dispatch(t) PROVE Goal
    BY <1>2 DEF Dispatch, Busy
<1>3. ASSUME NEW t \in Task, SkipLost(t) \/ Agent(t) \/ Withdraw(t) PROVE UNCHANGED wpc
    BY <1>3 DEF SkipLost, AfterDispatch, Agent, Advance, Commit, ExitNoOp, ExitHalt,
                AgentUnchanged, Withdraw
<1>4. ASSUME NEW t \in Task, Worker(t) PROVE Goal
    <2>1. CASE SpawnAgent(t) \/ Revoke(t)
        BY <2>1 DEF SpawnAgent, Revoke, Busy
    <2>2. CASE WorkerReports(t) \/ WorkerErrors(t)
        <3>1. /\ wpc' = [wpc EXCEPT ![t] = "revoke"]
              /\ wpc[t] = "agent" \/ FreeThread
            BY <2>2 DEF WorkerReports, WorkerErrors, PutResult
        <3> QED BY <3>1 DEF Busy
    <2> QED BY <1>4, <2>1, <2>2 DEF Worker
<1>5. CASE Fill \/ Abort \/ OpenWindow \/ CloseWindow \/ Collect \/ LeaveLoop \/ Shutdown
    BY <1>1, <1>5 DEF Fill, Abort, OpenWindow, CloseWindow, Collect, LeaveLoop, Shutdown
<1>6. CASE RetrySpawn \/ RetryEnds \/ RetryFails \/ Refresh \/ Resolve \/ Gate \/ RegateResolved
    BY <1>1, <1>6 DEF RetrySpawn, RetryEnds, RetryFails, Refresh, Resolve, Gate, RegateResolved
<1>7. CASE Land \/ Refuse \/ Hold \/ WatchdogHalt
    BY <1>1, <1>7 DEF Land, Refuse, Hold, Report, WatchdogHalt
<1>8. CASE Request \/ \E u \in Foreign : ForeignLands(u)
    BY <1>1, <1>8 DEF Request, ForeignLands
<1>9. CASE UNCHANGED vars
    BY <1>1, <1>9 DEF vars
<1> HIDE DEF Goal
<1> QED
    BY <1>1, <1>2, <1>3, <1>4, <1>5, <1>6, <1>7, <1>8, <1>9 DEF Next, Main, Returned

\* Every step leaves the pool within its slots and its threads.
LEMMA CappedStep == IInv /\ Capped /\ [Next]_vars => Capped'
<1> SUFFICES ASSUME TypeOK, Control, Slots, Capped, [Next]_vars PROVE Capped'
    BY DEF IInv
<1>1. IsFiniteSet(Task) /\ MaxConcurrent \in Nat
    BY PoolAssumption
<1>2. IsFiniteSet(active) /\ IsFiniteSet(active \cup chosen) /\ IsFiniteSet(Busy)
    BY <1>1, FS_Subset DEF TypeOK, Busy
<1>3. Cardinality(active' \cup chosen') <= MaxConcurrent
    <2>1. CASE active' \cup chosen' \subseteq active \cup chosen
        BY <1>1, <1>2, <2>1, PartFits DEF Capped
    <2>2. CASE Fill
        <3>1. active' = active /\ chosen = {}
            BY <2>2 DEF Fill, Control
        <3>2. Cardinality(active) <= MaxConcurrent
            BY <1>1, <1>2, <3>1, PartFits DEF Capped
        <3>3. CASE UNCHANGED chosen
            BY <3>1, <3>3 DEF Capped
        <3>4. ASSUME NEW C, NEW S \in SUBSET Task, SelectToDispatch(C, S), chosen' = S
              PROVE  Cardinality(active' \cup chosen') <= MaxConcurrent
            BY <3>1, <3>2, <3>4, SelectFits
        <3> QED BY <2>2, <3>3, <3>4 DEF Fill
    <2> QED BY <2>1, <2>2, ActiveMoves
<1>4. Cardinality(Busy') <= MaxConcurrent
    <2>1. CASE Busy' \subseteq Busy
        BY <1>1, <1>2, <2>1, PartFits DEF Capped, Busy
    <2>2. ASSUME FreeThread, NEW t \in Task, Busy' \subseteq Busy \cup {t}
          PROVE  Cardinality(Busy') <= MaxConcurrent
        <3>1. Cardinality(Busy) < MaxConcurrent /\ Cardinality(Busy) \in Nat
            BY <1>2, <2>2, FS_CardinalityType DEF FreeThread, Busy
        <3>2. /\ IsFiniteSet(Busy \cup {t})
              /\ Cardinality(Busy \cup {t}) <= Cardinality(Busy) + 1
            <4>1. /\ IsFiniteSet(Busy \cup {t})
                  /\ Cardinality(Busy \cup {t})
                       = IF t \in Busy THEN Cardinality(Busy) ELSE Cardinality(Busy) + 1
                BY <1>2, FS_AddElement, Zenon
            <4> QED BY <3>1, <4>1
        <3>3. Cardinality(Busy \cup {t}) <= MaxConcurrent
            BY <1>1, <3>1, <3>2, FS_CardinalityType
        <3> QED BY <1>1, <2>2, <3>2, <3>3, PartFits
    <2> QED BY <2>1, <2>2, BusyMoves
<1> QED
    BY <1>3, <1>4 DEF Capped, Busy

-----------------------------------------------------------------------------
(* The ledger of a run                                                     *)

\* A run starts with nothing dispatched, reported or forked, on a base that
\* holds what earlier runs completed.
LEMMA LedgerInit == Init => Ledger
<1> SUFFICES ASSUME Init PROVE Ledger
    OBVIOUS
<1>1. Verified
    BY DEF Init, Verified, Passed
<1>2. Reported
    BY DEF Init, Reported, Failing
<1>3. Landed
    BY DEF Init, Landed
<1>4. Accounted
    BY DEF Init, Accounted
<1>5. Forked
    BY DEF Init, Forked, Live
<1>6. Capped
    <2>1. active \cup chosen = {} /\ {t \in Task : wpc[t] \in {"agent", "revoke"}} = {}
        BY DEF Init
    <2> QED BY <2>1, FS_EmptySet, PoolAssumption DEF Capped
<1> QED
    BY <1>1, <1>2, <1>3, <1>4, <1>5, <1>6 DEF Ledger

\* In every run the report, the database and the branches agree.
THEOREM LedgerInvariance == Spec => [](IInv /\ Ledger)
<1>1. IInv /\ Ledger /\ [Next]_vars => Ledger'
    BY VerifiedStep, ReportedStep, LandedStep, AccountedStep, ForkedStep, CappedStep DEF Ledger
<1> QED
    BY <1>1, LedgerInit, Invariance, PTL DEF Spec

\* Never more agents than max_concurrent, the main thread's own retry and
\* resolution agents included: as long as run() loops they are among the active
\* tasks, and after that only the executor's threads still hold one.
THEOREM NeverTooManyAgents == Spec => []AgentCap
<1>1. ASSUME IInv, Ledger PROVE AgentCap
    <2>1. IsFiniteSet(active \cup chosen) /\ IsFiniteSet(Busy) /\ MaxConcurrent \in Nat
        BY <1>1, FS_Subset, PoolAssumption DEF IInv, TypeOK, Busy
    <2>2. Cardinality(active \cup chosen) <= MaxConcurrent /\ Cardinality(Busy) <= MaxConcurrent
        BY <1>1 DEF Ledger, Capped, Busy
    <2>3. {t \in Task : AgentAt(t)} \subseteq active \cup chosen \/ {t \in Task : AgentAt(t)} \subseteq Busy
        <3>1. CASE mpc \in {"shutdown", "done"}
            BY <3>1 DEF AgentAt, Live, Busy
        <3>2. CASE mpc \notin {"shutdown", "done"}
            <4>1. \A t \in Task : AgentAt(t) => t \in Inflight
                BY PoolAssumption DEF AgentAt, Live, Inflight
            <4> QED BY <1>1, <3>2, <4>1 DEF IInv, Slots
        <3> QED BY <3>1, <3>2
    <2> QED BY <2>1, <2>2, <2>3, PartFits DEF AgentCap
<1> QED
    BY <1>1, LedgerInvariance, PTL

\* What is reported failed or left to a human is not on the base, and what is
\* reported as succeeded is, or was a no-op.
THEOREM SucceededLands == Spec => []OnlySucceededLands
<1>1. IInv /\ Ledger => OnlySucceededLands
    BY DEF Ledger, Reported, Landed, Failing, OnlySucceededLands
<1> QED
    BY <1>1, LedgerInvariance, PTL

\* A run that was not cut short reports each task it dispatched and no other.
THEOREM DispatchedIsReported == Spec => []EveryDispatchReported
<1>1. IInv /\ Ledger => EveryDispatchReported
    BY DEF Ledger, Reported, EveryDispatchReported
<1> QED
    BY <1>1, LedgerInvariance, PTL

\* No task is reported twice in a run: a report takes its task out of `active`
\* and nothing puts it back.
THEOREM ReportedOnce == Spec => ReportIsFinal
<1>1. IInv /\ Ledger /\ [Next]_vars => [\A t \in Task : outcome[t] # "none" => outcome'[t] = outcome[t]]_vars
    BY OutcomeMoves DEF IInv, Ledger, Reported
<1> QED
    BY <1>1, LedgerInvariance, PTL DEF Spec, ReportIsFinal

\* When run() returns, Complete work is on the base, or was a no-op, or has
\* been put before a human.
THEOREM NothingCompleteLost == Spec => []CompleteIsAccounted
<1>1. ASSUME IInv, Ledger, mpc = "done", ~aborted, NEW t \in Task, status[t] = "Complete"
      PROVE  \/ t \in base \cup noted \cup flagged
             \/ t \in FlagFails /\ outcome[t] \in Failing /\ paused
    <2>1. CASE wpc[t] = "idle"
        BY <1>1, <2>1 DEF Ledger, Accounted
    <2>2. CASE wpc[t] # "idle"
        <3>1. outcome[t] \in Outcomes \ {"none"}
            BY <1>1, <2>2 DEF Ledger, Reported, IInv, TypeOK
        <3> QED BY <1>1, <3>1 DEF Outcomes, Failing, Ledger, Reported
    <2> QED BY <2>1, <2>2
<1>2. IInv /\ Ledger => CompleteIsAccounted
    BY <1>1 DEF CompleteIsAccounted
<1> QED
    BY <1>2, LedgerInvariance, PTL

\* An agent's branch holds its blockers' work unless they were no-ops, for
\* every blocked_by relation, cyclic ones included.
THEOREM ForksAfterBlockers == Spec => []DependentsForkAfterBlockers
<1>1. IInv /\ Ledger => DependentsForkAfterBlockers
    BY DEF Ledger, Forked, DependentsForkAfterBlockers
<1> QED
    BY <1>1, LedgerInvariance, PTL

-----------------------------------------------------------------------------
(* A pool without siblings lands only what the gate passed                 *)

\* No worker and no agent touches the branch in the main thread's hand.
LEMMA HandIsAlone ==
    ASSUME TypeOK, Control, Slots, NEW t \in Task, Worker(t) \/ Agent(t) \/ Withdraw(t),
           mpc \in {"refresh", "regate", "resolve", "reresolved", "land"}
    PROVE  /\ UNCHANGED <<mpc, cur, green, incoming, base>>
           /\ tree'[cur] = tree[cur]
<1> USE DEF TypeOK, gitVars, mainVars
<1>1. cur \in Task /\ wpc[cur] \in {"revoke", "ended"}
    BY HandActive DEF Integrating
<1>2. CASE SpawnAgent(t)
    BY <1>1, <1>2 DEF SpawnAgent, MainUnchanged
<1>3. CASE WorkerReports(t) \/ WorkerErrors(t) \/ Revoke(t)
    BY <1>3 DEF WorkerReports, WorkerErrors, PutResult, Revoke, MainUnchanged
<1>4. CASE Agent(t)
    <2>1. t # cur
        BY <1>1, <1>4 DEF Agent, Live
    <2> QED BY <1>1, <1>4, <2>1 DEF Agent, Advance, Commit, ExitNoOp, ExitHalt,
                                    AgentUnchanged, MainUnchanged
<1>5. CASE Withdraw(t)
    BY <1>5 DEF Withdraw
<1> QED
    BY <1>2, <1>3, <1>4, <1>5 DEF Worker

\* Between the gate and the landing the branch stays what the gate passed, and
\* has the whole base in it or will not merge.
LEMMA TestedStep ==
    ASSUME Foreign = {}, IInv, Tested, [Next]_vars
    PROVE  Tested'
<1>0. TypeOK /\ Control /\ Slots
    BY DEF IInv
<1> USE <1>0 DEF TypeOK, dbVars, gitVars, windowVars, mainVars, workVars
<1> DEFINE Hand == {"refresh", "regate", "resolve", "reresolved", "land"}
<1>1. CASE mpc' \notin Hand
    BY <1>1 DEF Tested
<1>2. CASE UNCHANGED <<mpc, cur, green, incoming, base>> /\ (mpc \in Hand => tree'[cur] = tree[cur])
    BY <1>2 DEF Tested, Clashes
<1>3. ASSUME NEW t \in Task, Dispatch(t) \/ SkipLost(t) PROVE Tested'
    BY <1>1, <1>3 DEF Dispatch, SkipLost, AfterDispatch
<1>4. CASE Fill \/ Abort \/ OpenWindow \/ CloseWindow \/ Collect \/ LeaveLoop \/ Shutdown
    BY <1>1, <1>4 DEF Fill, Abort, OpenWindow, CloseWindow, Collect, AfterVerify, LeaveLoop, Shutdown
<1>5. CASE RetrySpawn \/ RetryEnds \/ RetryFails
    BY <1>1, <1>5 DEF RetrySpawn, RetryEnds, RetryFails
<1>6. CASE Gate
    BY <1>1, <1>6 DEF Gate, Tested
<1>7. CASE Refresh
    <2>1. /\ mpc = "refresh" /\ cur \in Task /\ green = tree[cur]
          /\ UNCHANGED <<cur, green, base>>
        BY <1>7, HandActive DEF Refresh, Integrating, Tested
    <2>2. CASE base \ tree[cur] = {} /\ mpc' = "land" /\ UNCHANGED <<tree, incoming>>
        BY <2>1, <2>2 DEF Tested
    <2>3. CASE tree' = [tree EXCEPT ![cur] = @ \cup base] /\ mpc' = "regate"
        BY <2>1, <2>3 DEF Tested
    <2>4. CASE Clashes(cur, base \ tree[cur]) /\ incoming' = base /\ mpc' = "resolve" /\ UNCHANGED tree
        BY <2>1, <2>4 DEF Tested, Clashes
    <2> QED BY <1>7, <2>2, <2>3, <2>4 DEF Refresh
<1>8. CASE Resolve
    <2>1. /\ mpc = "resolve" /\ cur \in Task /\ incoming = base
          /\ Clashes(cur, base \ tree[cur])
          /\ UNCHANGED <<cur, green, base>>
        BY <1>8, HandActive DEF Resolve, Integrating, Tested
    <2>2. CASE tree' = [tree EXCEPT ![cur] = @ \cup incoming] /\ mpc' = "reresolved"
        BY <2>1, <2>2 DEF Tested
    <2>3. CASE mpc' = "reresolved" /\ UNCHANGED tree
        BY <2>1, <2>3 DEF Tested, Clashes
    <2>4. CASE mpc' = "hold"
        BY <1>1, <2>4
    <2> QED BY <1>8, <2>2, <2>3, <2>4 DEF Resolve
<1>9. CASE RegateResolved
    BY <1>1, <1>9 DEF RegateResolved, Tested, Clashes
<1>10. CASE Land \/ Refuse \/ Hold \/ WatchdogHalt
    BY <1>1, <1>10 DEF Land, Refuse, Hold, Report, WatchdogHalt
<1>11. ASSUME NEW t \in Task, Worker(t) \/ Agent(t) \/ Withdraw(t) PROVE Tested'
    <2>1. UNCHANGED mpc
        BY <1>11 DEF Worker, SpawnAgent, WorkerReports, WorkerErrors, PutResult, Revoke, Agent,
                     Advance, Commit, ExitNoOp, ExitHalt, MainUnchanged, Withdraw
    <2>2. CASE mpc \in Hand
        BY <1>2, <1>11, <2>2, HandIsAlone
    <2> QED BY <1>1, <2>1, <2>2
<1>12. CASE Request
    BY <1>2, <1>12 DEF Request
<1>13. CASE UNCHANGED vars
    BY <1>2, <1>13 DEF vars
<1> QED
    BY <1>3, <1>4, <1>5, <1>6, <1>7, <1>8, <1>9, <1>10, <1>11, <1>12, <1>13
    DEF Next, Main, Returned

\* What a landing puts on the base is, as a whole, what the gate last passed,
\* in a pool that has the base to itself.  A sibling that lands between the
\* refresh and the landing breaks this, and nothing in the code prevents it.
THEOREM LandingIsTested ==
    ASSUME Foreign = {}
    PROVE  Spec => LandsOnlyTested
<1>1. ASSUME Init PROVE Tested
    BY <1>1 DEF Init, Tested
<1>2. ASSUME IInv, Tested, [Next]_vars
      PROVE  [mpc = "land" /\ mpc' # "land" /\ base' # base => base' = green]_vars
    <2> SUFFICES ASSUME mpc = "land", base' # base PROVE base' = green
        OBVIOUS
    <2>1. Land /\ base' = base \cup tree[cur]
        BY <1>2, BaseMoves DEF IInv
    <2>2. ~Clashes(cur, base \ tree[cur])
        BY <2>1 DEF Land
    <2> QED BY <1>2, <2>1, <2>2 DEF Tested
<1>3. IInv /\ Tested /\ [Next]_vars => Tested'
    BY TestedStep
<1> QED
    BY <1>1, <1>2, <1>3, Invariance, PTL DEF Spec, LandsOnlyTested

-----------------------------------------------------------------------------
(* A pool nobody withdraws tasks from leaves nothing behind                *)

\* Only its agent changes the status of a task, unless tasks are withdrawn.
LEMMA StatusMoves ==
    ASSUME "withdraw" \notin Faults, TypeOK, [Next]_vars, NEW t \in Task
    PROVE  status'[t] = status[t] \/ Live(t)
<1> USE DEF TypeOK, dbVars, gitVars, windowVars, mainVars, workVars
<1>1. CASE UNCHANGED status
    BY <1>1
<1>2. ASSUME NEW u \in Task, Agent(u) PROVE status'[t] = status[t] \/ Live(t)
    BY <1>2 DEF Agent, Advance, Commit, ExitNoOp, ExitHalt
<1>3. ASSUME NEW u \in Task, Dispatch(u) \/ SkipLost(u) \/ Worker(u) PROVE UNCHANGED status
    BY <1>3 DEF Dispatch, SkipLost, AfterDispatch, Worker, SpawnAgent, WorkerReports,
                WorkerErrors, PutResult, Revoke
<1>4. CASE Fill \/ Abort \/ OpenWindow \/ CloseWindow \/ Collect \/ LeaveLoop \/ Shutdown
    BY <1>1, <1>4 DEF Fill, Abort, OpenWindow, CloseWindow, Collect, LeaveLoop, Shutdown
<1>5. CASE RetrySpawn \/ RetryEnds \/ RetryFails \/ Refresh \/ Resolve \/ Gate \/ RegateResolved
    BY <1>1, <1>5 DEF RetrySpawn, RetryEnds, RetryFails, Refresh, Resolve, Gate, RegateResolved
<1>6. CASE Land \/ Refuse \/ Hold \/ WatchdogHalt
    BY <1>1, <1>6 DEF Land, Refuse, Hold, Report, WatchdogHalt
<1>7. CASE Request \/ \E u \in Foreign : ForeignLands(u)
    BY <1>1, <1>7 DEF Request, ForeignLands
<1>8. CASE UNCHANGED vars
    BY <1>1, <1>8 DEF vars
<1> QED
    BY <1>1, <1>2, <1>3, <1>4, <1>5, <1>6, <1>7, <1>8 DEF Next, Main, Withdraw, Returned

\* With no agent alive no task becomes eligible, and a task that is eligible
\* and has no agent stays so.
LEMMA EligibleMoves ==
    ASSUME "withdraw" \notin Faults, TypeOK, [Next]_vars, NEW t \in Task
    PROVE  /\ Eligible(t) /\ ~Live(t) => Eligible(t)'
           /\ (\A u \in Task : ~Live(u)) /\ ~Eligible(t) => ~Eligible(t)'
<1>1. \A b \in BlockedBy[t] : b \in Task
    BY PoolAssumption
<1>2. \A b \in Task : status[b] = "Complete" => status'[b] = "Complete"
    BY OnlyGrows
<1>3. ASSUME Eligible(t), ~Live(t) PROVE Eligible(t)'
    <2>1. status'[t] = "Ready"
        BY <1>3, StatusMoves DEF Eligible
    <2> QED BY <1>1, <1>2, <1>3, <2>1 DEF Eligible
<1>4. ASSUME \A u \in Task : ~Live(u), ~Eligible(t) PROVE ~Eligible(t)'
    <2>1. \A u \in Task : status'[u] = status[u]
        BY <1>4, StatusMoves
    <2> QED BY <1>1, <1>4, <2>1 DEF Eligible
<1> QED
    BY <1>3, <1>4

\* A filling of an empty pool that chooses nothing found nothing to choose.
LEMMA EmptyFill ==
    ASSUME "gate_read" \notin Faults, TypeOK, Fill, window = "open"
    PROVE  /\ \A t \in chosen' : t \in Task /\ Eligible(t)
           /\ mpc' = (IF chosen' = {} THEN "loop" ELSE "dispatch")
           /\ active = {} /\ chosen' = {} => \A t \in Task : ~Eligible(t)
<1>1. PICK S \in SUBSET Task :
         /\ SelectToDispatch({t \in Task \ {} : Eligible(t)}, S)
         /\ chosen' = S
         /\ mpc' = IF S = {} THEN "loop" ELSE "dispatch"
    BY DEF Fill, DispatchAllowed
<1>2. \A t \in S : t \in Task /\ Eligible(t)
    BY <1>1 DEF SelectToDispatch
<1>3. ASSUME active = {}, S = {}, NEW t \in Task, Eligible(t) PROVE FALSE
    <2>1. {d \in S : d < t} = {}
        BY <1>3
    <2>2. Cardinality(active) = 0 /\ Cardinality({d \in S : d < t}) = 0
        BY <1>3, <2>1, FS_EmptySet
    <2>3. Cardinality(active) + Cardinality({d \in S : d < t}) < MaxConcurrent
        BY <2>2, PoolAssumption
    <2>4. BlockedBy[t] \cap (active \cup {d \in S : d < t}) = {}
        BY <1>3, <2>1
    <2>5. t \in S
        BY <1>1, <1>3, <2>3, <2>4 DEF SelectToDispatch
    <2> QED BY <1>3, <2>5
<1> QED
    BY <1>1, <1>2, <1>3

\* With nothing chosen or in flight no agent lives.
LEMMA NobodyLives ==
    ASSUME Inflight = {}, NEW t \in Task
    PROVE  ~Live(t)
BY PoolAssumption DEF Inflight, Live

\* How the loop comes to have nothing in flight and nothing to wait for.
LEMMA LoopMoves ==
    ASSUME TypeOK, Control, Slots, Reported, [Next]_vars,
           mpc' = "loop", ~paused', active' = {}, window' = "open"
    PROVE  \/ mpc = "loop" /\ ~paused /\ active = {} /\ window = "open"
           \/ Fill /\ window = "open" /\ active = {} /\ chosen' = {}
           \/ \E t \in Task : SkipLost(t)
<1> USE DEF dbVars, gitVars, windowVars, mainVars, workVars
<1> DEFINE Goal ==
           \/ mpc = "loop" /\ ~paused /\ active = {} /\ window = "open"
           \/ Fill /\ window = "open" /\ active = {} /\ chosen' = {}
           \/ \E t \in Task : SkipLost(t)
<1> SUFFICES Goal
    OBVIOUS
<1>1. CASE UNCHANGED <<mpc, paused, active, window>>
    BY <1>1
<1>2. CASE Fill
    <2>1. UNCHANGED <<window, active>> /\ mpc = "fill"
        BY <1>2 DEF Fill
    <2>2. chosen' = {}
        BY <1>2, <2>1 DEF Fill, DispatchAllowed
    <2> QED BY <1>2, <2>1, <2>2
<1>3. ASSUME NEW t \in Task, Dispatch(t) PROVE FALSE
    BY <1>3 DEF Dispatch
<1>4. CASE Abort \/ OpenWindow \/ CloseWindow \/ Collect \/ LeaveLoop \/ Shutdown
    BY <1>4 DEF Abort, OpenWindow, CloseWindow, Collect, AfterVerify, LeaveLoop, Shutdown
<1>5. CASE RetrySpawn \/ RetryEnds \/ RetryFails \/ Refresh \/ Resolve \/ Gate \/ RegateResolved
    BY <1>5 DEF RetrySpawn, RetryEnds, RetryFails, Refresh, Resolve, Gate, RegateResolved
<1>6. CASE Land \/ Refuse \/ Hold \/ WatchdogHalt
    BY <1>6 DEF Land, Refuse, Hold, Report, WatchdogHalt
<1>7. ASSUME NEW t \in Task, Worker(t) \/ Agent(t) \/ Withdraw(t)
      PROVE  UNCHANGED <<mpc, paused, active, window>>
    BY <1>7 DEF Worker, SpawnAgent, WorkerReports, WorkerErrors, PutResult, Revoke, Agent,
                Advance, Commit, ExitNoOp, ExitHalt, MainUnchanged, Withdraw
<1>8. CASE Request
    BY <1>8 DEF Request
<1>9. CASE \E u \in Foreign : ForeignLands(u)
    BY <1>1, <1>9 DEF ForeignLands
<1>10. CASE UNCHANGED vars
    BY <1>1, <1>10 DEF vars
<1>11. CASE \E t \in Task : SkipLost(t)
    BY <1>11
<1> HIDE DEF Goal
<1> QED
    BY <1>1, <1>2, <1>3, <1>4, <1>5, <1>6, <1>7, <1>8, <1>9, <1>10, <1>11
    DEF Next, Main, Returned

\* How a run that neither paused nor aborted comes to its end; once there with
\* nothing in flight, nothing comes into flight again.
LEMMA EndMoves ==
    ASSUME TypeOK, Control, Slots, Reported, [Next]_vars,
           mpc' \in {"shutdown", "done"}, ~paused', ~aborted',
           mpc \in {"shutdown", "done"} => Inflight = {}
    PROVE  /\ \/ mpc \in {"shutdown", "done"} /\ ~paused /\ ~aborted
              \/ mpc = "loop" /\ ~paused /\ active = {} /\ window = "open"
           /\ Inflight = {} /\ Inflight' = {}
<1> USE DEF dbVars, gitVars, windowVars, mainVars, workVars
<1> DEFINE Same == UNCHANGED <<mpc, paused, aborted, wpc, completed, cur>>
           Goal == /\ \/ mpc \in {"shutdown", "done"} /\ ~paused /\ ~aborted
                      \/ mpc = "loop" /\ ~paused /\ active = {} /\ window = "open"
                   /\ Inflight = {} /\ Inflight' = {}
<1> SUFFICES Goal
    OBVIOUS
<1>1. CASE Same
    BY <1>1 DEF Inflight
<1>2. CASE LeaveLoop
    BY <1>2 DEF LeaveLoop, Slots, Inflight
<1>3. CASE Shutdown
    <2>1. mpc = "shutdown" /\ Inflight = {} /\ UNCHANGED <<paused, aborted, wpc, completed, cur>>
        BY <1>3 DEF Shutdown
    <2>2. Inflight' = Inflight
        BY <2>1 DEF Inflight
    <2> QED BY <2>1, <2>2
<1>4. ASSUME NEW t \in Task, Worker(t) PROVE Goal
    <2>1. UNCHANGED <<mpc, paused, aborted>> /\ Inflight = {}
        BY <1>4 DEF Worker, SpawnAgent, WorkerReports, WorkerErrors, PutResult, Revoke,
                    MainUnchanged
    <2>2. wpc[t] \notin {"queued", "agent"}
        BY <2>1 DEF Inflight
    <2>3. Revoke(t)
        BY <1>4, <2>2 DEF Worker, SpawnAgent, WorkerReports, WorkerErrors
    <2>4. wpc' = [wpc EXCEPT ![t] = "ended"] /\ UNCHANGED <<completed, cur>>
        BY <2>3 DEF Revoke, MainUnchanged
    <2>5. Inflight' \subseteq Inflight
        BY <2>4 DEF Inflight, TypeOK
    <2> QED BY <2>1, <2>5
<1>5. ASSUME NEW t \in Task, Agent(t) \/ Withdraw(t) PROVE Same
    BY <1>5 DEF Agent, Advance, Commit, ExitNoOp, ExitHalt, AgentUnchanged, MainUnchanged,
                Withdraw
<1>6. ASSUME NEW t \in Task, Dispatch(t) \/ SkipLost(t) PROVE FALSE
    BY <1>6 DEF Dispatch, SkipLost, AfterDispatch
<1>7. CASE Fill \/ Abort \/ OpenWindow \/ CloseWindow \/ Collect \/ WatchdogHalt
    BY <1>7 DEF Fill, Abort, OpenWindow, CloseWindow, Collect, AfterVerify, WatchdogHalt
<1>8. CASE RetrySpawn \/ RetryEnds \/ RetryFails \/ Refresh \/ Resolve \/ Gate \/ RegateResolved
    BY <1>8 DEF RetrySpawn, RetryEnds, RetryFails, Refresh, Resolve, Gate, RegateResolved
<1>9. CASE Land \/ Refuse \/ Hold
    BY <1>9 DEF Land, Refuse, Hold, Report
<1>10. CASE Request \/ \E u \in Foreign : ForeignLands(u)
    BY <1>1, <1>10 DEF Request, ForeignLands
<1>11. CASE UNCHANGED vars
    BY <1>1, <1>11 DEF vars
<1> HIDE DEF Goal, Same
<1> QED
    BY <1>1, <1>2, <1>3, <1>4, <1>5, <1>6, <1>7, <1>8, <1>9, <1>10, <1>11
    DEF Next, Main, Returned

\* A step of a pool nobody withdraws tasks from, whose gates can be read,
\* leaves no eligible task out of sight.
LEMMA DrainedStep ==
    ASSUME "withdraw" \notin Faults, "gate_read" \notin Faults, IInv, Reported, Drained,
           [Next]_vars
    PROVE  Drained'
<1>0. TypeOK /\ Control /\ Slots
    BY DEF IInv
<1>1. ASSUME NEW t \in chosen' PROVE Eligible(t)'
    <2>1. CASE Fill
        <3>1. window = "open"
            BY <1>0, <1>1, <2>1 DEF Fill, DispatchAllowed, Control
        <3>2. Eligible(t) /\ UNCHANGED status
            BY <1>0, <1>1, <2>1, <3>1, EmptyFill DEF Fill, dbVars
        <3> QED BY <3>2 DEF Eligible
    <2>2. CASE chosen' \subseteq chosen
        <3>1. t \in Task /\ Eligible(t) /\ t \notin active /\ mpc = "dispatch"
            BY <1>0, <1>1, <2>2 DEF Drained, Control, TypeOK
        <3>2. ~Live(t)
            BY <1>0, <3>1 DEF Slots, Inflight, Live
        <3> QED BY <1>0, <3>1, <3>2, EligibleMoves
    <2> QED BY <1>0, <2>1, <2>2, ChosenMoves
<1>2. ASSUME NEW t \in Task PROVE ~SkipLost(t)
    BY DEF SkipLost, NextChosen, Drained
<1>3. mpc' = "dispatch" => chosen' # {}
    <2> SUFFICES ASSUME mpc' = "dispatch" PROVE chosen' # {}
        OBVIOUS
    <2> USE DEF dbVars, gitVars, windowVars, mainVars, workVars
    <2>1. CASE UNCHANGED <<mpc, chosen>>
        BY <2>1 DEF Drained
    <2>2. CASE Fill
        BY <2>2 DEF Fill
    <2>3. ASSUME NEW t \in Task, Dispatch(t) \/ SkipLost(t) PROVE chosen' # {}
        BY <2>3 DEF Dispatch, SkipLost, AfterDispatch
    <2>4. ASSUME NEW t \in Task, Worker(t) \/ Agent(t) \/ Withdraw(t) PROVE UNCHANGED <<mpc, chosen>>
        BY <2>4 DEF Worker, SpawnAgent, WorkerReports, WorkerErrors, PutResult, Revoke, Agent,
                    Advance, Commit, ExitNoOp, ExitHalt, MainUnchanged, Withdraw
    <2>5. CASE Abort \/ OpenWindow \/ CloseWindow \/ Collect \/ LeaveLoop \/ Shutdown
        BY <2>5 DEF Abort, OpenWindow, CloseWindow, Collect, AfterVerify, LeaveLoop, Shutdown
    <2>6. CASE RetrySpawn \/ RetryEnds \/ RetryFails \/ Refresh \/ Resolve \/ Gate \/ RegateResolved
        BY <2>6 DEF RetrySpawn, RetryEnds, RetryFails, Refresh, Resolve, Gate, RegateResolved
    <2>7. CASE Land \/ Refuse \/ Hold \/ WatchdogHalt
        BY <2>7 DEF Land, Refuse, Hold, Report, WatchdogHalt
    <2>8. CASE Request \/ \E u \in Foreign : ForeignLands(u)
        BY <2>1, <2>8 DEF Request, ForeignLands
    <2>9. CASE UNCHANGED vars
        BY <2>1, <2>9 DEF vars
    <2> QED
        BY <2>1, <2>2, <2>3, <2>4, <2>5, <2>6, <2>7, <2>8, <2>9 DEF Next, Main, Returned
<1>4. ASSUME mpc' = "loop", ~paused', active' = {}, window' = "open", NEW t \in Task
      PROVE  ~Eligible(t)'
    <2>1. CASE mpc = "loop" /\ ~paused /\ active = {} /\ window = "open"
        <3>1. Inflight = {}
            BY <1>0, <2>1 DEF Slots
        <3> QED BY <1>0, <2>1, <3>1, NobodyLives, EligibleMoves DEF Drained
    <2>2. CASE Fill /\ window = "open" /\ active = {} /\ chosen' = {}
        <3>1. ~Eligible(t) /\ UNCHANGED status
            BY <1>0, <2>2, EmptyFill DEF Fill, dbVars
        <3> QED BY <3>1 DEF Eligible
    <2> QED BY <1>0, <1>2, <1>4, <2>1, <2>2, LoopMoves
<1>5. ASSUME mpc' \in {"shutdown", "done"}, ~paused', ~aborted'
      PROVE  Inflight' = {} /\ \A t \in Task : ~Eligible(t)'
    <2>1. mpc \in {"shutdown", "done"} => ~paused /\ ~aborted
        <3> USE DEF dbVars, gitVars, windowVars, mainVars, workVars
        <3> SUFFICES ASSUME mpc \in {"shutdown", "done"} PROVE UNCHANGED <<paused, aborted>>
            BY <1>5
        <3>1. CASE Main
            BY <3>1 DEF Main, Fill, Dispatch, SkipLost, Abort, OpenWindow, CloseWindow, Collect,
                        LeaveLoop, Shutdown, RetrySpawn, RetryEnds, RetryFails, Gate, Refresh,
                        Resolve, RegateResolved, Land, Refuse, Hold
        <3>2. CASE WatchdogHalt \/ Request \/ UNCHANGED vars
            BY <3>2 DEF WatchdogHalt, Request, vars
        <3>3. CASE \E u \in Foreign : ForeignLands(u)
            BY <3>3 DEF ForeignLands
        <3>4. ASSUME NEW t \in Task, Worker(t) \/ Agent(t) \/ Withdraw(t)
              PROVE  UNCHANGED <<paused, aborted>>
            BY <3>4 DEF Worker, SpawnAgent, WorkerReports, WorkerErrors, PutResult, Revoke, Agent,
                        Advance, Commit, ExitNoOp, ExitHalt, MainUnchanged, Withdraw
        <3> QED BY <3>1, <3>2, <3>3, <3>4 DEF Next, Returned
    <2>2. mpc \in {"shutdown", "done"} => Inflight = {} /\ \A t \in Task : ~Eligible(t)
        BY <2>1 DEF Drained
    <2>3. Inflight = {} /\ Inflight' = {} /\ \A t \in Task : ~Eligible(t)
        BY <1>0, <1>5, <2>2, EndMoves DEF Drained
    <2> QED BY <1>0, <2>3, NobodyLives, EligibleMoves
<1> QED
    BY <1>1, <1>3, <1>4, <1>5 DEF Drained

\* A run that neither paused nor died leaves no eligible task, when no task is
\* withdrawn under it and every gate can be read.  With either fault a loop
\* with nothing in flight may end before it has looked at every task again.
THEOREM DrainIsComplete ==
    ASSUME "withdraw" \notin Faults, "gate_read" \notin Faults
    PROVE  Spec => []DrainLeavesNothing
<1>1. ASSUME Init PROVE Drained
    BY <1>1 DEF Init, Drained
<1>2. IInv /\ Ledger /\ Drained /\ [Next]_vars => Drained'
    BY DrainedStep DEF Ledger
<1>3. Drained => DrainLeavesNothing
    BY DEF Drained, DrainLeavesNothing
<1> QED
    BY <1>1, <1>2, <1>3, LedgerInvariance, PTL DEF Spec
=============================================================================
