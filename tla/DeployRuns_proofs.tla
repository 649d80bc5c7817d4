-------------------------- MODULE DeployRuns_proofs --------------------------
(***************************************************************************)
(* Proofs about deploy runs, for any number of runs, workers and phases,   *)
(* any crashes, cancellations and retries.  As long as no heartbeat of a   *)
(* live worker lapses and no commit overwrites another's, no two workers   *)
(* work on the same run, it gets one server, and what a landed status says *)
(* of the CRM is so; and whatever lapses or is overwritten, only a         *)
(* checkpoint read before it loses a request to cancel.                    *)
(***************************************************************************)
EXTENDS DeployRuns, TLAPS

PC == {"idle", "start", "check", "mark", "act", "create", "save", "sync",
       "finish"}

HolderType ==
    /\ status \in [Run -> {"absent", "queued", "running"} \cup Terminal]
    /\ holder \in [Run -> Worker \cup {NoWorker}]
    /\ beat \in [Run -> {"none", "fresh", "stale"}]
    /\ wrun \in [Worker -> Run \cup {NoRun}]
    /\ wpc \in [Worker -> PC]
    /\ beating \in [Worker -> BOOLEAN]
    /\ end \in [Worker -> Terminal]
    /\ lapses \in Nat /\ overwritten \in BOOLEAN

\* A retry is open only of a run that had landed when it read the row.
OpenRequests ==
    /\ req = [c \in Client |-> req[c]]
    /\ \A c \in Client : req[c] # NotOpen =>
           req[c].run \in Run /\ (req[c].kind = "retry" => req[c].status \in Retryable)

\* A worker at work holds its run in the database, and keeps it fresh.
InHand(w) ==
    /\ wrun[w] \in Run
    /\ status[wrun[w]] = "running" /\ holder[wrun[w]] = w
    /\ beat[wrun[w]] = "fresh" /\ beating[w] = TRUE

HolderInv ==
    /\ HolderType /\ OpenRequests
    /\ \A w \in Worker : wpc[w] # "idle" => wrun[w] \in Run
    /\ Trusted => \A w \in Worker : wpc[w] # "idle" => InHand(w)

\* A phase body moves its worker on and leaves the row alone.
Moves(w) ==
    /\ wpc[w] # "idle"
    /\ \/ wpc' = [wpc EXCEPT ![w] = "save"]
       \/ wpc' = [wpc EXCEPT ![w] = "create"]
    /\ UNCHANGED <<rowVars, wrun, beating, end, counters>>

holderVars == <<status, holder, req, wrun, beating, lapses>>

USE DEF HolderInv, HolderType, OpenRequests, InHand, Trusted, Terminal, PC

\* The invariant holds at the start: every worker is idle.
LEMMA HolderInit == Init => HolderInv
  <1> SUFFICES ASSUME Init PROVE HolderInv
    OBVIOUS
  <1>1. HolderType
    BY DeployAssumption DEF Init
  <1>2. OpenRequests
    BY DEF Init
  <1>3. \A w \in Worker : wpc[w] = "idle"
    BY DEF Init
  <1> QED BY <1>1, <1>2, <1>3

\* A commit that leaves the workers trusted has overwritten nothing.
LEMMA OverwroteNothing ==
    ASSUME overwritten \in BOOLEAN, NEW changed \in BOOLEAN, Overwrites(changed)
    PROVE  /\ overwritten' \in BOOLEAN
           /\ Trusted' /\ UNCHANGED lapses => Trusted /\ ~changed
  BY DEF Overwrites

\* A step inside run_deploy, which leaves the claim alone and at most renews
\* the heartbeat of its own run, keeps the invariant.
LEMMA QuietStep ==
    ASSUME HolderInv, NEW w \in Worker, wpc[w] # "idle",
           NEW pc \in PC, pc # "idle",
           wpc' = wpc \/ wpc' = [wpc EXCEPT ![w] = pc],
           beat' = beat \/ beat' = [beat EXCEPT ![wrun[w]] = "fresh"],
           end' \in [Worker -> Terminal],
           overwritten' \in BOOLEAN, Trusted' => Trusted,
           UNCHANGED holderVars
    PROVE  HolderInv'
  <1>1. HolderType'
    BY DEF holderVars
  <1>2. \A v \in Worker : wpc'[v] # "idle" => wpc[v] # "idle"
    OBVIOUS
  <1>3. \A r \in Run : beat[r] = "fresh" => beat'[r] = "fresh"
    OBVIOUS
  <1> QED BY <1>1, <1>2, <1>3 DEF holderVars

\* A request that reads the row leaves it alone ...
LEMMA AskStep ==
    ASSUME HolderInv, NEW c \in Client, NEW r \in Run, NEW d,
           NEW kind \in {"cancel", "retry"}, kind = "retry" => status[r] \in Retryable,
           Asks(c, Reads(kind, r, d)),
           UNCHANGED <<status, holder, beat, workerVars, lapses, overwritten>>
    PROVE  HolderInv'
  <1>1. HolderType'
    BY DEF workerVars, memVars
  <1>2. req' = [req EXCEPT ![c] = Reads(kind, r, d)]
    BY DEF Asks
  <1>3. /\ Reads(kind, r, d).run = r /\ Reads(kind, r, d).kind = kind
        /\ Reads(kind, r, d).status = status[r]
    BY DEF Reads
  <1>4. OpenRequests'
    <2> SUFFICES ASSUME NEW e \in Client, req'[e] # NotOpen
                 PROVE  /\ req'[e].run \in Run
                        /\ req'[e].kind = "retry" => req'[e].status \in Retryable
      BY <1>2
    <2>1. CASE e = c
      BY <1>2, <1>3, <2>1
    <2>2. CASE e # c
      BY <1>2, <2>2
    <2> QED BY <2>1, <2>2
  <1> QED BY <1>1, <1>4 DEF workerVars, memVars

\* ... and only a run that nobody works on is created.
LEMMA RequestStep == HolderInv /\ Request => HolderInv'
  <1> SUFFICES ASSUME HolderInv, NEW r \in Run,
                      \/ \E d \in Address : \/ AskCreate(r, d)
                                           \/ \E c \in Client : AskRetry(c, r, d)
                      \/ Create(r)
                      \/ \E c \in Client : AskCancel(c, r)
               PROVE  HolderInv'
    BY DEF Request
  <1>1. ASSUME NEW d \in Address, AskCreate(r, d) PROVE HolderInv'
    BY <1>1 DEF AskCreate, workerVars, memVars, counters
  <1>2. ASSUME NEW d \in Address, NEW c \in Client, AskRetry(c, r, d) PROVE HolderInv'
    BY <1>2, AskStep DEF AskRetry
  <1>3. CASE Create(r)
    BY <1>3 DEF Create, workerVars, memVars, counters
  <1>4. ASSUME NEW c \in Client, AskCancel(c, r) PROVE HolderInv'
    BY <1>4, AskStep DEF AskCancel
  <1> QED BY <1>1, <1>2, <1>3, <1>4

\* A request that commits cancels or requeues, and unless it overwrites what
\* was committed since its read, nobody works on the run.
LEMMA CommitStep ==
    ASSUME HolderInv, NEW c \in Client, Cancel(c) \/ Requeue(c)
    PROVE  HolderInv'
  <1>1. /\ req[c] # NotOpen /\ req' = [req EXCEPT ![c] = NotOpen]
        /\ UNCHANGED <<wrun, wpc, beating, end, lapses>>
    BY DEF Cancel, Requeue, Commits, workerVars, memVars
  <1>2. OpenRequests' /\ req[c].run \in Run
    BY <1>1
  <1>3. CASE Cancel(c)
    <2>1. CASE req[c].status = "queued" /\ Overwrites(status[req[c].run] # "queued")
               /\ status' = [status EXCEPT ![req[c].run] = "cancelled"]
      <3>1. overwritten' \in BOOLEAN /\ (Trusted' => Trusted /\ status[req[c].run] = "queued")
        BY <1>1, <2>1, OverwroteNothing
      <3> QED BY <1>1, <1>2, <1>3, <2>1, <3>1 DEF Cancel
    <2>2. CASE Overwrites(ckpt[req[c].run] # req[c].ckpt) /\ UNCHANGED status
      <3>1. overwritten' \in BOOLEAN /\ (Trusted' => Trusted)
        BY <1>1, <2>2, OverwroteNothing
      <3> QED BY <1>1, <1>2, <1>3, <2>2, <3>1 DEF Cancel
    <2> QED BY <1>3, <2>1, <2>2 DEF Cancel
  <1>4. CASE Requeue(c)
    <2> DEFINE r == req[c].run
               changed == <<status[r], domain[r], ckpt[r]>>
                             # <<req[c].status, req[c].domain, req[c].ckpt>>
    <2>1. Overwrites(changed) /\ req[c].status \in Retryable
      BY <1>1, <1>4 DEF Requeue, Commits
    <2>2. ~changed => status[r] = req[c].status
      OBVIOUS
    <2>3. overwritten' \in BOOLEAN /\ (Trusted' => Trusted /\ ~changed)
      <3>1. changed \in BOOLEAN
        OBVIOUS
      <3> HIDE DEF changed
      <3> QED BY <1>1, <2>1, <3>1, OverwroteNothing
    <2>4. Trusted' => Trusted /\ \A w \in Worker : wpc[w] # "idle" => wrun[w] # r
      BY <2>1, <2>2, <2>3 DEF Retryable
    <2>5. /\ status' = [status EXCEPT ![r] = "queued"]
          /\ holder' = [holder EXCEPT ![r] = NoWorker]
          /\ beat' = [beat EXCEPT ![r] = "none"]
      BY <1>4 DEF Requeue
    <2> HIDE DEF changed, r
    <2> QED BY <1>1, <1>2, <2>3, <2>4, <2>5
  <1> QED BY <1>3, <1>4

\* Claims: a run that is claimable is in nobody's hands, and a heartbeat that
\* is kept grows stale only by a lapse.
LEMMA ClaimStep ==
    ASSUME HolderInv, NEW w \in Worker, NEW r \in Run, Claim(w, r)
    PROVE  HolderInv'
  <1>1. Trusted => \A v \in Worker : wpc[v] # "idle" => wrun[v] # r
    BY DEF Claim, Claimable
  <1> QED BY <1>1 DEF Claim, memVars, counters

LEMMA LapseStep ==
    ASSUME HolderInv, NEW r \in Run, Lapse(r)
    PROVE  HolderInv'
  <1>1. CASE Unattended(r)
    <2>1. Trusted => \A v \in Worker : wpc[v] # "idle" => wrun[v] # r
      BY <1>1 DEF Unattended, WorksOn
    <2>2. HolderType'
      BY <1>1, DeployAssumption DEF Lapse, workerVars, memVars
    <2> QED BY <1>1, <2>1, <2>2 DEF Lapse, workerVars, memVars
  <1>2. CASE ~Unattended(r)
    BY <1>2, DeployAssumption DEF Lapse, workerVars, memVars
  <1> QED BY <1>1, <1>2

\* The heartbeat thread, the log, and the end of a worker's run.
LEMMA BeatStep ==
    ASSUME HolderInv, NEW w \in Worker, Heartbeat(w) \/ AppendLog(w)
    PROVE  HolderInv'
  <1>1. CASE Heartbeat(w)
    <2>1. UNCHANGED <<status, holder, wrun, wpc, end, req, counters>> /\ wrun[w] \in Run
      BY <1>1 DEF Heartbeat, memVars
    <2>2. CASE ~Holds(w, wrun[w]) /\ UNCHANGED beat /\ beating' = [beating EXCEPT ![w] = FALSE]
      <3>1. ~Trusted
        BY <1>1, <2>2 DEF Heartbeat, Holds
      <3>2. HolderType' /\ OpenRequests'
        BY <2>1, <2>2 DEF counters
      <3> QED BY <2>1, <3>1, <3>2 DEF counters
    <2>3. CASE UNCHANGED beating /\ beat' = [beat EXCEPT ![wrun[w]] = "fresh"]
      <3>1. HolderType' /\ OpenRequests'
        BY <2>1, <2>3 DEF counters
      <3> QED BY <2>1, <2>3, <3>1 DEF counters
    <2> QED BY <1>1, <2>2, <2>3 DEF Heartbeat
  <1>2. CASE AppendLog(w)
    BY <1>2 DEF AppendLog, workerVars, memVars, counters
  <1> QED BY <1>1, <1>2

LEMMA DropStep ==
    ASSUME HolderInv, NEW w \in Worker, Drop(w)
    PROVE  HolderInv'
  BY DEF Drop, Ends, rowVars

LEMMA FinishStep ==
    ASSUME HolderInv, NEW w \in Worker, Finish(w)
    PROVE  HolderInv'
  <1>1. Trusted => \A v \in Worker \ {w} : wpc[v] # "idle" => wrun[v] # wrun[w]
    BY DEF Finish
  <1> QED BY <1>1 DEF Finish, Ends, counters

\* The phases only move their worker on.
LEMMA PhaseMoves ==
    ASSUME NEW w \in Worker, PhaseBody(w)
    PROVE  Moves(w)
  <1>1. CASE PhaseFails(w)
    BY <1>1 DEF PhaseFails, Acts, Fails, Returns, Goes, Moves
  <1>2. CASE PlainPhase(w)
    BY <1>2 DEF PlainPhase, Acts, Clean, Returns, Goes, Moves
  <1>3. CASE CreateDroplet(w)
    BY <1>3 DEF CreateDroplet, Acts, Clean, Returns, Goes, Moves
  <1>4. CASE CreateServer(w)
    BY <1>4 DEF CreateServer, Acts, Clean, Returns, Goes, Moves
  <1>5. CASE CreateDns(w)
    BY <1>5 DEF CreateDns, Acts, Clean, Opens, Returns, Goes, Moves
  <1>6. CASE Install(w)
    BY <1>6 DEF Install, Acts, ChangeAddress, InstallClean, Clean, Returns, Goes, Moves
  <1>7. CASE CheckDns(w)
    BY <1>7 DEF CheckDns, Acts, Clean, Opens, Returns, Goes, Moves
  <1>8. CASE Certificate(w)
    BY <1>8 DEF Certificate, Acts, Clean, Opens, Returns, Goes, Moves
  <1>9. CASE Verify(w)
    BY <1>9 DEF Verify, Acts, Clean, Returns, Goes, Moves
  <1>10. CASE CreateInstance(w)
    BY <1>10 DEF CreateInstance, Acts, Clean, Fails, Returns, Goes, Moves
  <1> QED BY <1>1, <1>2, <1>3, <1>4, <1>5, <1>6, <1>7, <1>8, <1>9, <1>10 DEF PhaseBody

\* So a phase keeps the invariant.
LEMMA PhaseStep ==
    ASSUME HolderInv, NEW w \in Worker, PhaseBody(w)
    PROVE  HolderInv'
  BY PhaseMoves, QuietStep DEF Moves, holderVars, rowVars, counters

\* run_deploy, from its start to the status it lands.
LEMMA RunStep ==
    ASSUME HolderInv, NEW w \in Worker, RunDeploy(w)
    PROVE  HolderInv'
  <1>1. CASE Start(w)
    BY <1>1, QuietStep DEF Start, Goes, holderVars, rowVars, counters
  <1>2. CASE Check(w)
    <2>1. end' \in [Worker -> Terminal]
      BY <1>2 DEF Check
    <2> QED BY <1>2, <2>1, QuietStep DEF Check, Goes, holderVars, rowVars, counters
  <1>3. CASE Mark(w)
    <2>1. overwritten' \in BOOLEAN /\ (Trusted' => Trusted)
      BY <1>3, OverwroteNothing DEF Mark, Marked, Written
    <2> QED BY <1>3, <2>1, QuietStep DEF Mark, Marked, Written, Goes, holderVars
  <1>4. CASE PhaseBody(w)
    BY <1>4, PhaseStep
  <1>5. CASE Save(w)
    <2>1. end' \in [Worker -> Terminal]
      BY <1>5 DEF Save
    <2>2. overwritten' \in BOOLEAN /\ (Trusted' => Trusted)
      BY <1>5, OverwroteNothing DEF Save, Marked, Written
    <2> QED BY <1>5, <2>1, <2>2, QuietStep DEF Save, Marked, Written, Goes, holderVars
  <1>6. CASE Sync(w)
    <2>1. end' \in [Worker -> Terminal]
      BY <1>6 DEF Sync
    <2> QED BY <1>6, <2>1, QuietStep DEF Sync, Goes, holderVars, rowVars, counters
  <1>7. CASE Finish(w)
    BY <1>7, FinishStep
  <1>8. CASE ReadRow(w)
    BY <1>8, QuietStep DEF ReadRow, holderVars, rowVars, counters
  <1> QED BY <1>1, <1>2, <1>3, <1>4, <1>5, <1>6, <1>7, <1>8 DEF RunDeploy

\* Every step keeps the invariant.
LEMMA HolderNext == HolderInv /\ [Next]_vars => HolderInv'
  <1> SUFFICES ASSUME HolderInv, [Next]_vars PROVE HolderInv'
    OBVIOUS
  <1>1. CASE Request \/ RequestEnds
    BY <1>1, RequestStep, CommitStep DEF RequestEnds
  <1>2. ASSUME NEW r \in Run, Lapse(r) PROVE HolderInv'
    BY <1>2, LapseStep
  <1>3. ASSUME NEW w \in Worker, Poll(w) PROVE HolderInv'
    BY <1>3, ClaimStep DEF Poll
  <1>4. ASSUME NEW w \in Worker, RunDeploy(w) PROVE HolderInv'
    BY <1>4, RunStep
  <1>5. ASSUME NEW w \in Worker, Heartbeat(w) \/ AppendLog(w) PROVE HolderInv'
    BY <1>5, BeatStep
  <1>6. ASSUME NEW w \in Worker, Drop(w) PROVE HolderInv'
    BY <1>6, DropStep
  <1>7. CASE UNCHANGED vars
    BY <1>7 DEF vars, rowVars, workerVars, memVars, counters
  <1> QED BY <1>1, <1>2, <1>3, <1>4, <1>5, <1>6, <1>7 DEF Next

\* Once lost, trust does not come back.
LEMMA TrustKept == HolderInv /\ [Next]_vars => (Trusted' => Trusted)
  <1> SUFFICES ASSUME HolderInv, [Next]_vars PROVE Trusted' => Trusted
    OBVIOUS
  <1>1. CASE Request \/ UNCHANGED vars
    BY <1>1 DEF Request, AskCreate, AskRetry, Create, AskCancel, vars, counters
  <1>2. ASSUME NEW c \in Client, Cancel(c) \/ Requeue(c) PROVE Trusted' => Trusted
    BY <1>2 DEF Cancel, Requeue, Overwrites
  <1>3. ASSUME NEW r \in Run, Lapse(r) PROVE Trusted' => Trusted
    BY <1>3 DEF Lapse
  <1>4. ASSUME NEW w \in Worker, Poll(w) \/ Heartbeat(w) \/ AppendLog(w) \/ Drop(w)
        PROVE  Trusted' => Trusted
    BY <1>4 DEF Poll, Claim, Heartbeat, AppendLog, Drop, counters
  <1>5. ASSUME NEW w \in Worker, Mark(w) \/ Save(w) PROVE Trusted' => Trusted
    BY <1>5 DEF Mark, Save, Marked, Written, Overwrites
  <1>6. ASSUME NEW w \in Worker, RunDeploy(w), ~(Mark(w) \/ Save(w)) PROVE Trusted' => Trusted
    <2>1. PhaseBody(w) => UNCHANGED counters
      BY PhaseMoves DEF Moves
    <2> QED BY <1>6, <2>1 DEF RunDeploy, Start, Check, ReadRow, Sync, Finish, counters
  <1> QED BY <1>1, <1>2, <1>3, <1>4, <1>5, <1>6 DEF Next, RequestEnds

\* While no heartbeat of a live worker has lapsed and no commit has overwritten
\* what was committed since its read, the row of every run that a worker works
\* on names that worker, so no two workers work on one run.
THEOREM HolderIsUnique == Spec => []OneHolder
  <1>1. HolderInv => OneHolder
    BY DEF OneHolder, WorksOn
  <1> QED BY HolderInit, HolderNext, <1>1, PTL DEF Spec

\* Under the same conditions nothing but a retry changes the status that a run
\* has landed: the worker that lands a run holds it, a claim takes none that
\* has landed, and a request to cancel one that is queued or running by then
\* has read it before it landed and was overtaken.
THEOREM LandedStays == Spec => LandedIsFinal
  <1> DEFINE Final == \A r \in Run : Trusted' /\ status[r] \in Terminal =>
                          status'[r] \in {status[r], "queued"}
  <1>1. HolderInv /\ [Next]_vars => [Final]_vars
    <2> SUFFICES ASSUME HolderInv, Next PROVE Final
      BY DEF vars, rowVars
    <2>1. CASE Request
      BY <2>1 DEF Request, AskCreate, AskRetry, Create, AskCancel
    <2>6. ASSUME NEW c \in Client, Cancel(c) PROVE Final
      <3>1. CASE Overwrites(status[req[c].run] # "queued")
                 /\ status' = [status EXCEPT ![req[c].run] = "cancelled"]
        <4>1. Trusted' => status[req[c].run] = "queued"
          BY <2>6, <3>1, OverwroteNothing DEF Cancel
        <4> QED BY <3>1, <4>1
      <3>2. CASE UNCHANGED status
        BY <3>2
      <3> QED BY <2>6, <3>1, <3>2 DEF Cancel
    <2>7. ASSUME NEW c \in Client, Requeue(c) PROVE Final
      BY <2>7 DEF Requeue
    <2>2. ASSUME NEW q \in Run, Lapse(q) PROVE Final
      BY <2>2 DEF Lapse
    <2>3. ASSUME NEW w \in Worker, NEW q \in Run, Claim(w, q) PROVE Final
      BY <2>3 DEF Claim, Claimable
    <2>4. ASSUME NEW w \in Worker, Heartbeat(w) \/ AppendLog(w) \/ Drop(w)
          PROVE Final
      BY <2>4 DEF Heartbeat, AppendLog, Drop, rowVars
    <2>5. ASSUME NEW w \in Worker, RunDeploy(w) PROVE Final
      <3>1. CASE Finish(w)
        BY <3>1 DEF Finish, counters
      <3>2. CASE ~Finish(w)
        <4>1. PhaseBody(w) => UNCHANGED status
          BY PhaseMoves DEF Moves, rowVars
        <4> QED BY <2>5, <3>2, <4>1
                DEF RunDeploy, Start, Check, ReadRow, Mark, Save, Sync, rowVars
      <3> QED BY <3>1, <3>2
    <2> QED BY <2>1, <2>2, <2>3, <2>4, <2>5, <2>6, <2>7 DEF Next, Poll, RequestEnds
  <1> QED BY HolderInit, HolderNext, <1>1, PTL DEF Spec, LandedIsFinal

HIDE DEF HolderInv, HolderType, OpenRequests, InHand, Trusted, Terminal, PC

-----------------------------------------------------------------------------
\* One server: the worker that goes to create one has seen that there is none,
\* and nobody else works on its run meanwhile.

ServerInv ==
    /\ servers \in [Run -> Nat]
    /\ Trusted => /\ \A r \in Run : servers[r] <= 1
                  /\ \A w \in Worker : wpc[w] = "create" => servers[wrun[w]] = 0

\* A step that leaves the servers alone and sends no worker to create one.
LEMMA ServersKept ==
    ASSUME HolderInv, ServerInv, UNCHANGED servers, Trusted' => Trusted,
           \A w \in Worker : wpc'[w] = "create" => wpc[w] = "create" /\ wrun'[w] = wrun[w]
    PROVE  ServerInv'
  BY DEF ServerInv

LEMMA ServerStep ==
    ASSUME HolderInv, ServerInv, NEW w \in Worker, RunDeploy(w)
    PROVE  ServerInv'
  <1>0. wpc \in [Worker -> PC] /\ wrun \in [Worker -> Run \cup {NoRun}]
    BY DEF HolderInv, HolderType
  <1>1. CASE CreateDroplet(w)
    <2>1. UNCHANGED <<servers, wrun, counters>>
      BY <1>1 DEF CreateDroplet, Acts, serverVars
    <2>2. \A v \in Worker : wpc'[v] = "create" =>
             servers[wrun[v]] = 0 \/ (wpc[v] = "create" /\ v # w)
      BY <1>0, <1>1 DEF CreateDroplet, Acts, Clean, Returns, Goes, ServerInv,
                        HolderInv, HolderType, PC
    <2> QED BY <2>1, <2>2 DEF ServerInv, Trusted, counters
  <1>2. CASE CreateServer(w)
    <2>1. /\ servers' = [servers EXCEPT ![wrun[w]] = @ + 1]
          /\ wpc' = [wpc EXCEPT ![w] = "save"] /\ UNCHANGED <<wrun, counters>>
          /\ wpc[w] = "create"
      BY <1>2 DEF CreateServer, Clean, Returns, Goes
    <2>2. wrun[w] \in Run
      BY <2>1 DEF HolderInv
    <2>3. Trusted => \A v \in Worker : wpc[v] = "create" /\ v # w => wrun[v] # wrun[w]
      BY <2>1 DEF HolderInv, InHand
    <2>4. servers' \in [Run -> Nat]
      BY <2>1, <2>2 DEF ServerInv
    <2> QED BY <1>0, <2>1, <2>2, <2>3, <2>4 DEF ServerInv, Trusted, counters
  <1>3. CASE ~CreateDroplet(w) /\ ~CreateServer(w)
    <2>1. \A v \in Worker : wpc'[v] = "create" => wpc[v] = "create" /\ wrun'[v] = wrun[v]
      <3>1. CASE Start(w) \/ Check(w) \/ ReadRow(w) \/ Mark(w) \/ Save(w) \/ Sync(w)
        BY <1>0, <3>1 DEF Start, Check, ReadRow, Mark, Save, Sync, Goes
      <3>2. CASE Finish(w)
        BY <1>0, <3>2 DEF Finish, Ends
      <3>3. CASE PhaseBody(w)
        <4>1. UNCHANGED wrun /\ wpc' = [wpc EXCEPT ![w] = "save"]
          BY <1>3, <3>3 DEF PhaseBody, PhaseFails, PlainPhase, CreateDns, Install,
             ChangeAddress, InstallClean, CheckDns, Certificate, Verify, CreateInstance,
             Acts, Clean, Opens, Fails, Returns, Goes
        <4> QED BY <1>0, <4>1
      <3> QED BY <3>1, <3>2, <3>3 DEF RunDeploy
    <2>2. UNCHANGED servers
      BY <1>3 DEF RunDeploy, Start, Check, ReadRow, Mark, Save, Sync, Finish, PhaseBody,
         PhaseFails, PlainPhase, CreateDns, Install, ChangeAddress, InstallClean, CheckDns,
         Certificate, Verify, CreateInstance, serverVars
    <2>3. Trusted' => Trusted
      BY TrustKept DEF Next
    <2> QED BY <2>1, <2>2, <2>3, ServersKept
  <1> QED BY <1>1, <1>2, <1>3

LEMMA ServerNext == HolderInv /\ ServerInv /\ [Next]_vars => ServerInv'
  <1> SUFFICES ASSUME HolderInv, ServerInv, [Next]_vars PROVE ServerInv'
    OBVIOUS
  <1>0. /\ wpc \in [Worker -> PC] /\ wrun \in [Worker -> Run \cup {NoRun}]
        /\ Trusted' => Trusted
    BY TrustKept DEF HolderInv, HolderType
  <1>1. CASE Request \/ RequestEnds
    BY <1>0, <1>1, ServersKept DEF Request, RequestEnds, AskCreate, AskRetry, Create, AskCancel,
       Cancel, Requeue, workerVars, memVars, serverVars
  <1>2. ASSUME NEW r \in Run, Lapse(r) PROVE ServerInv'
    BY <1>0, <1>2, ServersKept DEF Lapse, workerVars, memVars, serverVars
  <1>3. ASSUME NEW w \in Worker, NEW r \in Run, Claim(w, r) PROVE ServerInv'
    BY <1>0, <1>3, ServersKept DEF Claim, memVars, serverVars
  <1>4. ASSUME NEW w \in Worker, RunDeploy(w) PROVE ServerInv'
    BY <1>4, ServerStep
  <1>5. ASSUME NEW w \in Worker, Heartbeat(w) \/ AppendLog(w) PROVE ServerInv'
    BY <1>0, <1>5, ServersKept DEF Heartbeat, AppendLog, workerVars, memVars, serverVars
  <1>6. ASSUME NEW w \in Worker, Drop(w) PROVE ServerInv'
    BY <1>0, <1>6, ServersKept DEF Drop, Ends, serverVars
  <1>7. CASE UNCHANGED vars
    BY <1>0, <1>7, ServersKept DEF vars, workerVars, memVars, serverVars
  <1> QED BY <1>1, <1>2, <1>3, <1>4, <1>5, <1>6, <1>7 DEF Next, Poll

\* A deploy run has at most one server, whatever dies between the provider's
\* call and the checkpoint and is reclaimed or retried, in whatever order the
\* phases come, as long as no heartbeat of a live worker lapsed and no commit
\* overwrote what another had committed since its read.
THEOREM ServerOnce == Spec => []OneServer
  <1>1. Init => ServerInv
    BY DEF Init, ServerInv
  <1>2. ServerInv => OneServer
    BY DEF ServerInv, OneServer
  <1> QED BY HolderInit, HolderNext, ServerNext, <1>1, <1>2, PTL DEF Spec

-----------------------------------------------------------------------------
\* Updates of a checkpoint.

\* A checkpoint merged with an update, and one phase's status set: every other
\* field is the update's if it names it, and else stays.
MergedInto(d, c, u) ==
    /\ d.cancel = c.cancel
    /\ d.droplet = (IF "droplet" \in DOMAIN u THEN u.droplet ELSE c.droplet)
    /\ d.installed = (IF "installed" \in DOMAIN u THEN u.installed ELSE c.installed)
    /\ d.mode = (IF "mode" \in DOMAIN u THEN u.mode ELSE c.mode)
    /\ d.dnsOk = (IF "dnsOk" \in DOMAIN u THEN u.dnsOk ELSE c.dnsOk)
    /\ d.items = (IF "items" \in DOMAIN u THEN u.items ELSE c.items)
    /\ d.vfailed = (IF "vfailed" \in DOMAIN u THEN u.vfailed ELSE c.vfailed)
    /\ d.instance = (IF "instance" \in DOMAIN u THEN u.instance ELSE c.instance)

LEMMA MergedFields ==
    ASSUME NEW c \in Checkpoint, NEW u, FitsUpdate(u), NEW d, d = Merged(c, u)
    PROVE  d \in Checkpoint /\ MergedInto(d, c, u) /\ d.phases = c.phases
  <1>1. MergedInto(d, c, u) /\ d.phases = c.phases
    BY DEF Checkpoint, Merged, FitsUpdate, MergedInto
  <1>2. d \in Checkpoint
    BY DEF Checkpoint, Merged, FitsUpdate
  <1> QED BY <1>1, <1>2

MergedAt(c, u, p, s) == [Merged(c, u) EXCEPT !.phases[p] = s]

LEMMA MarkedFields ==
    ASSUME NEW c \in Checkpoint, NEW u, FitsUpdate(u), NEW p \in Phase,
           NEW s \in PhaseStatus
    PROVE  /\ MergedAt(c, u, p, s) \in Checkpoint /\ MergedInto(MergedAt(c, u, p, s), c, u)
           /\ MergedAt(c, u, p, s).phases = [c.phases EXCEPT ![p] = s]
  <1> DEFINE m == Merged(c, u)
             d == MergedAt(c, u, p, s)
  <1>1. m \in Checkpoint /\ MergedInto(m, c, u) /\ m.phases = c.phases
    BY MergedFields
  <1>2. d = [m EXCEPT !.phases[p] = s]
    BY DEF MergedAt
  <1> HIDE DEF m, d
  <1>3. /\ d.phases = [m.phases EXCEPT ![p] = s]
        /\ \A f \in DOMAIN m \ {"phases"} : d[f] = m[f]
        /\ DOMAIN d = DOMAIN m
    BY <1>1, <1>2 DEF Checkpoint
  <1>4. d.phases \in [Phase -> PhaseStatus]
    BY <1>1, <1>3 DEF Checkpoint
  <1>5. d \in Checkpoint
    BY <1>1, <1>2, <1>3, <1>4 DEF Checkpoint
  <1>6. MergedInto(d, c, u)
    BY <1>1, <1>3 DEF Checkpoint, MergedInto
  <1> QED BY <1>1, <1>3, <1>5, <1>6 DEF d

\* A request to cancel sets its flag only.
LEMMA CancelField ==
    ASSUME NEW c \in Checkpoint, NEW d, d = [c EXCEPT !.cancel = TRUE]
    PROVE  /\ d \in Checkpoint /\ d.cancel = TRUE
           /\ \A f \in DOMAIN c \ {"cancel"} : d[f] = c[f]
  <1>1. d.cancel = TRUE /\ \A f \in DOMAIN c \ {"cancel"} : d[f] = c[f]
    BY DEF Checkpoint
  <1>2. d \in Checkpoint
    BY DEF Checkpoint
  <1> QED BY <1>1, <1>2

\* The updates that the phases return.
LEMMA FitsNothing == FitsUpdate(Nothing)
  BY DEF FitsUpdate, Nothing

LEMMA FitsOne ==
    /\ FitsUpdate([droplet |-> TRUE]) /\ FitsUpdate([instance |-> TRUE])
    /\ \A b \in BOOLEAN : FitsUpdate([dnsOk |-> b]) /\ FitsUpdate([vfailed |-> b])
    /\ FitsUpdate([mode |-> "letsencrypt"])
    /\ \A a \in Address \cup {NoAddress} :
         /\ FitsUpdate([installed |-> a])
         /\ \A m \in {"letsencrypt", "http"} : FitsUpdate([installed |-> a, mode |-> m])
  BY DEF FitsUpdate

LEMMA FitsItems ==
    ASSUME NEW u, FitsUpdate(u), NEW S \in SUBSET Item
    PROVE  FitsUpdate(WithItems(u, S))
  BY DEF FitsUpdate, WithItems

-----------------------------------------------------------------------------
\* The shape of the state: types, and where a worker is in its run.

RowShape ==
    /\ status \in [Run -> {"absent", "queued", "running"} \cup Terminal]
    /\ holder \in [Run -> Worker \cup {NoWorker}]
    /\ beat \in [Run -> {"none", "fresh", "stale"}]
    /\ domain \in [Run -> Address \cup {NoAddress}]
    /\ asked \in [Run -> Address \cup {NoAddress}]
    /\ ckpt \in [Run -> Checkpoint]
    /\ req \in [Client -> Requests \cup {NotOpen}]

WorkerShape ==
    /\ wrun \in [Worker -> Run \cup {NoRun}]
    /\ wpc \in [Worker -> PC]
    /\ at \in [Worker -> 1..Len(PhaseOrder) + 1]
    /\ spec \in [Worker -> Address \cup {NoAddress}]
    /\ mem \in [Worker -> Checkpoint] /\ read \in [Worker -> Checkpoint \cup {NotOpen}]
    /\ out \in [Worker -> PhaseStatus] /\ end \in [Worker -> Terminal]
    /\ beating \in [Worker -> BOOLEAN]
    /\ upd = [w \in Worker |-> upd[w]]
    /\ \A w \in Worker :
         /\ FitsUpdate(upd[w]) /\ InPhase(w)
         /\ wpc[w] # "idle" => wrun[w] \in Run

WorkerTypes ==
    /\ wrun \in [Worker -> Run \cup {NoRun}]
    /\ wpc \in [Worker -> PC]
    /\ at \in [Worker -> 1..Len(PhaseOrder) + 1]
    /\ spec \in [Worker -> Address \cup {NoAddress}]
    /\ mem \in [Worker -> Checkpoint] /\ read \in [Worker -> Checkpoint \cup {NotOpen}]
    /\ out \in [Worker -> PhaseStatus] /\ end \in [Worker -> Terminal]
    /\ beating \in [Worker -> BOOLEAN]
    /\ upd = [w \in Worker |-> upd[w]]

WorldShape ==
    /\ servers \in [Run -> Nat] /\ registered \in [Run -> Nat]
    /\ site \in [Run -> Address \cup {NoAddress}]
    /\ cert \in [Run -> Address \cup {NoAddress}]
    /\ instUrl \in [Run -> Address \cup {NoAddress}]
    /\ instItems \in [Run -> SUBSET Item]
    /\ wiped \in [Run -> BOOLEAN]

CountShape ==
    /\ requests \in 0..MaxRequests /\ crashes \in 0..MaxCrashes
    /\ lapses \in 0..MaxLapses /\ overwritten \in BOOLEAN

LEMMA ShapeParts == DeployShape <=> RowShape /\ WorkerShape /\ WorldShape /\ CountShape
  BY DEF DeployShape, DeployTypeOK, RowShape, WorkerShape, WorldShape, CountShape, PC

LEMMA ShapePartsNext ==
    DeployShape' <=> RowShape' /\ WorkerShape' /\ WorldShape' /\ CountShape'
  BY DEF DeployShape, DeployTypeOK, RowShape, WorkerShape, WorldShape, CountShape, PC

LEMMA Orders == Len(PhaseOrder) \in Nat /\ \A k \in 1..Len(PhaseOrder) : PhaseOrder[k] \in Phase
  BY DeployAssumption

LEMMA BlankType == Blank \in Checkpoint
  BY DEF Blank, Checkpoint, PhaseStatus

LEMMA RowKept == RowShape /\ UNCHANGED rowVars => RowShape'
  BY DEF RowShape, rowVars
LEMMA WorkerKept == WorkerShape /\ UNCHANGED workerVars => WorkerShape'
  BY DEF WorkerShape, workerVars, memVars, InPhase, Now, Finished
LEMMA WorldKept == WorldShape /\ UNCHANGED <<serverVars, instanceVars>> => WorldShape'
  BY DEF WorldShape, serverVars, instanceVars
LEMMA CountKept == CountShape /\ UNCHANGED counters => CountShape'
  BY DEF CountShape, counters

LEMMA InitShape == Init => DeployShape
  <1> SUFFICES ASSUME Init PROVE DeployShape
    OBVIOUS
  <1>1. RowShape
    BY BlankType DEF Init, RowShape
  <1>2. WorkerShape
    <2>1. WorkerTypes
      BY BlankType, Orders DEF Init, WorkerTypes, Terminal, PC, PhaseStatus
    <2>2. \A w \in Worker : wpc[w] = "idle" /\ FitsUpdate(upd[w])
      BY FitsNothing DEF Init
    <2> QED BY <2>1, <2>2 DEF WorkerShape, WorkerTypes, InPhase
  <1>3. WorldShape
    BY DEF Init, WorldShape
  <1>4. CountShape
    <2>1. requests = 0 /\ crashes = 0 /\ lapses = 0 /\ overwritten = FALSE
      BY DEF Init
    <2>2. 0 \in 0..MaxRequests /\ 0 \in 0..MaxCrashes /\ 0 \in 0..MaxLapses
      BY DeployAssumption
    <2> QED BY <2>1, <2>2, Zenon DEF CountShape
  <1> QED BY <1>1, <1>2, <1>3, <1>4, ShapeParts

\* Requests write rows; a retry rewrites the checkpoint and keeps what is built.
LEMMA RetryFields ==
    ASSUME NEW c \in Checkpoint, NEW moved \in BOOLEAN, NEW old \in Address \cup {NoAddress},
           NEW d, d = RetryCheckpoint(c, moved, old)
    PROVE  /\ d \in Checkpoint
           /\ d.phases = [p \in Phase |-> IF p \in Redone(c, moved) THEN "retry" ELSE c.phases[p]]
           /\ d.droplet = c.droplet /\ d.instance = c.instance
  <1>1. InstalledFor(c, moved, old) \in Address \cup {NoAddress}
    BY DEF InstalledFor, Checkpoint
  <1>2. /\ d.phases = [p \in Phase |-> IF p \in Redone(c, moved) THEN "retry" ELSE c.phases[p]]
        /\ d.droplet = c.droplet /\ d.instance = c.instance
    BY DEF RetryCheckpoint, Checkpoint
  <1>3. d.phases \in [Phase -> PhaseStatus]
    BY <1>2 DEF Checkpoint, PhaseStatus
  <1>4. d \in Checkpoint
    BY <1>1, <1>3 DEF RetryCheckpoint, Checkpoint
  <1> QED BY <1>2, <1>4

LEMMA RequestShape == DeployShape /\ Request => DeployShape'
  <1> SUFFICES ASSUME DeployShape, NEW r \in Run,
                      \/ \E d \in Address : \/ AskCreate(r, d)
                                           \/ \E c \in Client : AskRetry(c, r, d)
                      \/ Create(r)
                      \/ \E c \in Client : AskCancel(c, r)
               PROVE  DeployShape'
    BY DEF Request
  <1> USE ShapeParts, ShapePartsNext
  <1>1. WorkerShape' /\ WorldShape'
    BY WorkerKept, WorldKept DEF AskCreate, AskRetry, Create, AskCancel
  <1>2. CountShape'
    BY DeployAssumption DEF AskCreate, AskRetry, Create, AskCancel, CountShape, counters
  <1>3. RowShape'
    <2>1. ASSUME NEW d \in Address, AskCreate(r, d) PROVE RowShape'
      BY <2>1 DEF AskCreate, RowShape
    <2>2. CASE Create(r)
      BY <2>2 DEF Create, RowShape
    <2>3. ASSUME NEW c \in Client, NEW kind \in {"cancel", "retry"},
                 NEW d \in Address \cup {NoAddress}, Asks(c, Reads(kind, r, d)),
                 status[r] \in {"queued", "running"} \cup Retryable,
                 UNCHANGED <<status, holder, beat, domain, ckpt, asked>>
          PROVE  RowShape'
      <3>1. Reads(kind, r, d) \in Requests
        BY <2>3 DEF Reads, Requests, RowShape
      <3> QED BY <2>3, <3>1 DEF Asks, RowShape
    <2>4. ASSUME NEW c \in Client, NEW d \in Address, AskRetry(c, r, d) PROVE RowShape'
      BY <2>3, <2>4 DEF AskRetry
    <2>5. ASSUME NEW c \in Client, AskCancel(c, r) PROVE RowShape'
      BY <2>3, <2>5 DEF AskCancel, RowShape
    <2> QED BY <2>1, <2>2, <2>4, <2>5
  <1> QED BY <1>1, <1>2, <1>3

\* What an open request has read.
LEMMA OpenShape ==
    ASSUME RowShape, NEW c \in Client, req[c] # NotOpen
    PROVE  /\ req[c].run \in Run /\ req[c].ckpt \in Checkpoint
           /\ req[c].address \in Address \cup {NoAddress}
           /\ req[c].domain \in Address \cup {NoAddress}
  <1>1. req[c] \in Requests
    BY DEF RowShape
  <1> QED BY <1>1 DEF Requests

\* What a request writes when it commits.
LEMMA CommitShape ==
    ASSUME DeployShape, NEW c \in Client, Cancel(c) \/ Requeue(c)
    PROVE  DeployShape'
  <1> USE ShapeParts, ShapePartsNext
  <1> DEFINE q == req[c]
             moved == q.address # q.domain
             d == RetryCheckpoint(q.ckpt, moved, q.domain)
  <1>1. WorkerShape' /\ WorldShape'
    BY WorkerKept, WorldKept DEF Cancel, Requeue
  <1>2. CountShape'
    BY DEF Cancel, Requeue, Overwrites, CountShape
  <1>3. /\ q.run \in Run /\ q.ckpt \in Checkpoint
        /\ q.address \in Address \cup {NoAddress} /\ q.domain \in Address \cup {NoAddress}
    BY OpenShape DEF Cancel, Requeue, Commits
  <1>4. req' \in [Client -> Requests \cup {NotOpen}]
    BY DEF Cancel, Requeue, Commits, RowShape
  <1>5. CASE Cancel(c)
    <2>1. [q.ckpt EXCEPT !.cancel = TRUE] \in Checkpoint
      BY <1>3, CancelField
    <2>2. ckpt' \in [Run -> Checkpoint]
      BY <1>3, <1>5, <2>1 DEF Cancel, RowShape
    <2>3. RowShape'
      BY <1>3, <1>4, <1>5, <2>2 DEF Cancel, RowShape, Terminal
    <2> QED BY <1>1, <1>2, <2>3
  <1>6. CASE Requeue(c)
    <2>1. moved \in BOOLEAN
      OBVIOUS
    <2> HIDE DEF moved
    <2>2. d \in Checkpoint
      BY <1>3, <2>1, RetryFields
    <2> HIDE DEF d
    <2>3. ckpt' \in [Run -> Checkpoint]
      BY <1>3, <1>6, <2>2 DEF Requeue, RowShape, d, moved
    <2>4. RowShape'
      BY <1>3, <1>4, <1>6, <2>3 DEF Requeue, RowShape
    <2> QED BY <1>1, <1>2, <2>4
  <1> QED BY <1>5, <1>6

\* Claims, the clock and the heartbeats.
LEMMA ClaimShape ==
    ASSUME DeployShape, NEW w \in Worker, NEW r \in Run, Claim(w, r)
    PROVE  DeployShape'
  <1> USE ShapeParts, ShapePartsNext
  <1>1. RowShape'
    BY DEF Claim, RowShape
  <1>2. WorkerShape'
    BY DEF Claim, memVars, WorkerShape, InPhase, Now, Finished, PC
  <1>3. WorldShape' /\ CountShape'
    BY WorldKept, CountKept DEF Claim
  <1> QED BY <1>1, <1>2, <1>3

LEMMA BeatShape ==
    ASSUME DeployShape, NEW w \in Worker, Heartbeat(w) \/ AppendLog(w)
    PROVE  DeployShape'
  <1> USE ShapeParts, ShapePartsNext
  <1>1. RowShape'
    BY DEF Heartbeat, AppendLog, RowShape
  <1>2. WorkerShape'
    <2>1. CASE AppendLog(w)
      BY <2>1, WorkerKept DEF AppendLog
    <2>2. CASE Heartbeat(w)
      BY <2>2 DEF Heartbeat, memVars, WorkerShape, InPhase, Now, Finished
    <2> QED BY <2>1, <2>2
  <1>3. WorldShape' /\ CountShape'
    BY WorldKept, CountKept DEF Heartbeat, AppendLog
  <1> QED BY <1>1, <1>2, <1>3

LEMMA LapseShape ==
    ASSUME DeployShape, NEW r \in Run, Lapse(r) PROVE DeployShape'
  <1> USE ShapeParts, ShapePartsNext
  <1>1. RowShape'
    BY DEF Lapse, RowShape
  <1>2. WorkerShape' /\ WorldShape'
    BY WorkerKept, WorldKept DEF Lapse
  <1>3. CountShape'
    BY DeployAssumption DEF Lapse, CountShape
  <1> QED BY <1>1, <1>2, <1>3

\* A step of one worker: the others are where they were.
LEMMA OneWorker ==
    ASSUME WorkerShape, NEW w \in Worker, WorkerTypes',
           \A v \in Worker \ {w} :
              /\ upd'[v] = upd[v] /\ wpc'[v] = wpc[v] /\ at'[v] = at[v]
              /\ out'[v] = out[v] /\ wrun'[v] = wrun[v],
           FitsUpdate(upd'[w]), InPhase(w)', wpc'[w] # "idle" => wrun'[w] \in Run
    PROVE  WorkerShape'
  <1>1. ASSUME NEW v \in Worker
        PROVE  FitsUpdate(upd'[v]) /\ InPhase(v)' /\ (wpc'[v] # "idle" => wrun'[v] \in Run)
    <2>1. CASE v = w
      BY <2>1
    <2>2. CASE v # w
      BY <2>2 DEF WorkerShape, InPhase, Now, Finished
    <2> QED BY <2>1, <2>2
  <1> QED BY <1>1 DEF WorkerShape, WorkerTypes

\* A worker's run is over: dropped, or landed.
LEMMA EndsShape ==
    ASSUME WorkerShape, NEW w \in Worker, Ends(w) PROVE WorkerShape'
  <1>1. 1 \in 1..Len(PhaseOrder) + 1
    BY Orders
  <1>2. WorkerTypes'
    BY <1>1, BlankType DEF Ends, WorkerShape, WorkerTypes, PC, Terminal, PhaseStatus
  <1>3. wpc'[w] = "idle" /\ upd'[w] = Nothing
    BY DEF Ends, WorkerShape
  <1>4. \A v \in Worker \ {w} :
            /\ upd'[v] = upd[v] /\ wpc'[v] = wpc[v] /\ at'[v] = at[v]
            /\ out'[v] = out[v] /\ wrun'[v] = wrun[v]
    BY DEF Ends, WorkerShape
  <1> QED BY <1>2, <1>3, <1>4, FitsNothing, OneWorker DEF InPhase

LEMMA OverShape ==
    ASSUME DeployShape, NEW w \in Worker, Drop(w) \/ Finish(w) PROVE DeployShape'
  <1> USE ShapeParts, ShapePartsNext
  <1>1. WorkerShape'
    BY EndsShape DEF Drop, Finish
  <1>2. WorldShape'
    BY WorldKept DEF Drop, Finish
  <1>3. CASE Drop(w)
    <2>1. RowShape'
      BY <1>3, RowKept DEF Drop
    <2>2. CountShape'
      BY <1>3, DeployAssumption DEF Drop, CountShape
    <2> QED BY <1>1, <1>2, <2>1, <2>2
  <1>4. CASE Finish(w)
    <2>1. end[w] \in Terminal /\ wrun[w] \in Run
      BY <1>4 DEF Finish, WorkerShape
    <2>2. RowShape'
      BY <1>4, <2>1 DEF Finish, RowShape
    <2>3. CountShape'
      BY <1>4, CountKept DEF Finish
    <2> QED BY <1>1, <1>2, <2>2, <2>3
  <1> QED BY <1>3, <1>4

\* The steps between the phases.
LEMMA BetweenShape ==
    ASSUME DeployShape, NEW w \in Worker, Start(w) \/ Check(w) \/ ReadRow(w) \/ Sync(w)
    PROVE  DeployShape'
  <1> USE ShapeParts, ShapePartsNext
  <1>0. wrun[w] \in Run
    BY DEF Start, Check, ReadRow, Sync, WorkerShape
  <1>1. RowShape' /\ CountShape'
    BY RowKept, CountKept DEF Start, Check, ReadRow, Sync
  <1>2. WorldShape'
    <2>1. CASE Sync(w)
      <3>1. mem[w].items \in SUBSET Item /\ spec[w] \in Address \cup {NoAddress}
        BY DEF WorkerShape, Checkpoint
      <3> QED BY <1>0, <2>1, <3>1 DEF Sync, WorldShape, serverVars
    <2> QED BY <2>1, WorldKept DEF Start, Check, ReadRow
  <1>3. WorkerShape'
    <2>1. CASE Start(w)
      BY <1>0, <2>1, Orders DEF Start, Goes, WorkerShape, RowShape, InPhase, Now, Finished, PC
    <2>2. CASE Check(w)
      <3>1. at[w] \in 1..Len(PhaseOrder) + 1
        BY DEF WorkerShape
      <3>2. /\ \/ at' = at
               \/ ~Finished(w) /\ at' = [at EXCEPT ![w] = @ + 1] /\ wpc' = wpc
            /\ \/ wpc' = wpc \/ (wpc' = [wpc EXCEPT ![w] = "sync"] /\ Finished(w) /\ at' = at)
               \/ wpc' = [wpc EXCEPT ![w] = "finish"]
               \/ (wpc' = [wpc EXCEPT ![w] = "mark"] /\ ~Finished(w) /\ at' = at)
            /\ end' = end \/ end' = [end EXCEPT ![w] = "cancelled"]
            /\ wpc[w] = "check" /\ UNCHANGED <<wrun, spec, mem, read, upd, out, beating>>
        BY <2>2 DEF Check, Goes
      <3>3. ~Finished(w) => at[w] \in 1..Len(PhaseOrder) /\ at[w] + 1 \in 1..Len(PhaseOrder) + 1
        BY <3>1, Orders DEF Finished
      <3>4. WorkerTypes'
        <4>1. at' \in [Worker -> 1..Len(PhaseOrder) + 1]
          BY <3>2, <3>3 DEF WorkerShape
        <4>2. wpc' \in [Worker -> PC] /\ end' \in [Worker -> Terminal]
          BY <3>2 DEF WorkerShape, PC, Terminal
        <4>3. /\ spec' \in [Worker -> Address \cup {NoAddress}] /\ mem' \in [Worker -> Checkpoint]
              /\ out' \in [Worker -> PhaseStatus] /\ upd' = [v \in Worker |-> upd'[v]]
              /\ wrun' \in [Worker -> Run \cup {NoRun}] /\ beating' \in [Worker -> BOOLEAN]
              /\ read' \in [Worker -> Checkpoint \cup {NotOpen}]
          BY <3>2 DEF WorkerShape, PhaseStatus
        <4> QED BY <4>1, <4>2, <4>3 DEF WorkerTypes
      <3>5. InPhase(w)'
        BY <3>2, <3>3 DEF InPhase, WorkerShape, Finished
      <3> QED BY <1>0, <3>2, <3>4, <3>5, OneWorker DEF WorkerShape
    <2>3. CASE Sync(w)
      BY <2>3 DEF Sync, Goes, WorkerShape, InPhase, Now, Finished, PC, Terminal
    <2>4. CASE ReadRow(w)
      BY <1>0, <2>4 DEF ReadRow, WorkerShape, RowShape, InPhase, Now, Finished
    <2> QED BY <2>1, <2>2, <2>3, <2>4
  <1> QED BY <1>1, <1>2, <1>3

\* What a worker writes to its row before and after a phase.
LEMMA MarkedShape ==
    ASSUME RowShape, WorkerShape, NEW w \in Worker, wrun[w] \in Run, Now(w) \in Phase,
           NEW u, FitsUpdate(u), NEW s \in PhaseStatus, Marked(w, u, s)
    PROVE  /\ ckpt' \in [Run -> Checkpoint] /\ beat' \in [Run -> {"none", "fresh", "stale"}]
           /\ ckpt'[wrun[w]] \in Checkpoint
           /\ mem' = [mem EXCEPT ![w] = ckpt'[wrun[w]]]
           /\ \A q \in Run \ {wrun[w]} : ckpt'[q] = ckpt[q]
           /\ read[w] \in Checkpoint /\ MergedInto(ckpt'[wrun[w]], read[w], u)
           /\ ckpt'[wrun[w]].phases = [read[w].phases EXCEPT ![Now(w)] = s]
           /\ Overwrites(ckpt[wrun[w]] # read[w]) /\ read' = [read EXCEPT ![w] = NotOpen]
  <1> DEFINE r == wrun[w]
             c == MergedAt(read[w], u, Now(w), s)
  <1>1. /\ ckpt' = [ckpt EXCEPT ![r] = c] /\ mem' = [mem EXCEPT ![w] = c]
        /\ beat' = [beat EXCEPT ![r] = "fresh"] /\ read' = [read EXCEPT ![w] = NotOpen]
        /\ read[w] # NotOpen /\ Overwrites(ckpt[r] # read[w])
    BY DEF Marked, Written, MergedAt
  <1>2. /\ c \in Checkpoint /\ MergedInto(c, read[w], u)
        /\ c.phases = [read[w].phases EXCEPT ![Now(w)] = s] /\ read[w] \in Checkpoint
    <2>1. read[w] \in Checkpoint
      BY <1>1 DEF WorkerShape
    <2> QED BY <2>1, MarkedFields
  <1> HIDE DEF c
  <1>3. ckpt'[r] = c /\ ckpt' \in [Run -> Checkpoint] /\ \A q \in Run \ {r} : ckpt'[q] = ckpt[q]
    BY <1>1, <1>2 DEF RowShape
  <1>4. beat' \in [Run -> {"none", "fresh", "stale"}]
    BY <1>1 DEF RowShape
  <1> QED BY <1>1, <1>2, <1>3, <1>4

LEMMA PhaseNow ==
    ASSUME WorkerShape, NEW w \in Worker, wpc[w] \in {"mark", "act", "create", "save"}
    PROVE  Now(w) \in Phase /\ at[w] \in 1..Len(PhaseOrder) /\ wrun[w] \in Run
  BY Orders DEF WorkerShape, InPhase, Now

LEMMA MarkShape ==
    ASSUME DeployShape, NEW w \in Worker, Mark(w) \/ Save(w) PROVE DeployShape'
  <1> USE ShapeParts, ShapePartsNext
  <1>0. Now(w) \in Phase /\ at[w] \in 1..Len(PhaseOrder) /\ wrun[w] \in Run
    BY PhaseNow DEF Mark, Save
  <1>1. WorldShape' /\ CountShape'
    BY WorldKept DEF Mark, Save, Marked, Written, Overwrites, CountShape
  <1>2. CASE Mark(w)
    <2>1. Marked(w, Nothing, "running") /\ "running" \in PhaseStatus
      BY <1>2 DEF Mark, PhaseStatus
    <2>2. /\ ckpt' \in [Run -> Checkpoint] /\ beat' \in [Run -> {"none", "fresh", "stale"}]
          /\ mem' \in [Worker -> Checkpoint] /\ read' \in [Worker -> Checkpoint \cup {NotOpen}]
      BY <1>0, <2>1, MarkedShape, FitsNothing DEF WorkerShape
    <2>3. RowShape'
      BY <1>2, <2>2 DEF Mark, RowShape
    <2>4. WorkerShape'
      BY <1>0, <1>2, <2>2 DEF Mark, Goes, WorkerShape, InPhase, Now, Finished, PC
    <2> QED BY <1>1, <2>3, <2>4
  <1>3. CASE Save(w)
    <2>1. Marked(w, upd[w], out[w]) /\ out[w] \in PhaseStatus /\ FitsUpdate(upd[w])
      BY <1>3 DEF Save, WorkerShape
    <2>2. /\ ckpt' \in [Run -> Checkpoint] /\ beat' \in [Run -> {"none", "fresh", "stale"}]
          /\ mem' \in [Worker -> Checkpoint] /\ read' \in [Worker -> Checkpoint \cup {NotOpen}]
      BY <1>0, <2>1, MarkedShape DEF WorkerShape
    <2>3. RowShape'
      BY <1>3, <2>2 DEF Save, RowShape
    <2>4. /\ at' = at \/ at' = [at EXCEPT ![w] = @ + 1]
          /\ wpc' = [wpc EXCEPT ![w] = "check"] \/ wpc' = [wpc EXCEPT ![w] = "finish"]
          /\ end' = end \/ end' = [end EXCEPT ![w] = "failed"]
          /\ upd' = [upd EXCEPT ![w] = Nothing] /\ out' = [out EXCEPT ![w] = "none"]
          /\ UNCHANGED <<wrun, spec, beating>>
      BY <1>3 DEF Save, Goes
    <2>5. at[w] + 1 \in 1..Len(PhaseOrder) + 1
      BY <1>0, Orders
    <2>6. WorkerTypes'
      <3>1. at' \in [Worker -> 1..Len(PhaseOrder) + 1]
        BY <2>4, <2>5 DEF WorkerShape
      <3>2. wpc' \in [Worker -> PC] /\ end' \in [Worker -> Terminal]
        BY <2>2, <2>4 DEF WorkerShape, PC, Terminal
      <3>3. /\ spec' \in [Worker -> Address \cup {NoAddress}] /\ mem' \in [Worker -> Checkpoint]
            /\ out' \in [Worker -> PhaseStatus] /\ upd' = [v \in Worker |-> upd'[v]]
            /\ wrun' \in [Worker -> Run \cup {NoRun}] /\ beating' \in [Worker -> BOOLEAN]
            /\ read' \in [Worker -> Checkpoint \cup {NotOpen}]
        BY <2>2, <2>4 DEF WorkerShape, PhaseStatus
      <3> QED BY <3>1, <3>2, <3>3 DEF WorkerTypes
    <2>7. upd'[w] = Nothing /\ wpc'[w] \in {"check", "finish"}
      BY <2>4 DEF WorkerShape
    <2>8. InPhase(w)'
      BY <2>7 DEF InPhase
    <2>9. WorkerShape'
      BY <1>0, <2>4, <2>6, <2>7, <2>8, FitsNothing, OneWorker DEF WorkerShape
    <2> QED BY <1>1, <2>3, <2>9
  <1> QED BY <1>2, <1>3

\* A phase: what it returns fits a checkpoint ...
Outcomes == {"done", "needs_action", "failed"}
Returned(w) == \E u : \E o \in Outcomes : FitsUpdate(u) /\ Returns(w, u, o)

LEMMA ReturnShape ==
    ASSUME WorkerShape, NEW w \in Worker, wpc[w] \in {"act", "create"}, Returned(w),
           UNCHANGED <<wrun, beating, at, spec, mem, read, end>>
    PROVE  WorkerShape'
  <1>1. PICK u : \E o \in Outcomes : FitsUpdate(u) /\ Returns(w, u, o)
    BY DEF Returned
  <1>2. PICK o \in Outcomes : FitsUpdate(u) /\ Returns(w, u, o)
    BY <1>1
  <1>3. /\ upd' = [upd EXCEPT ![w] = u] /\ out' = [out EXCEPT ![w] = o]
        /\ wpc' = [wpc EXCEPT ![w] = "save"]
    BY <1>2 DEF Returns, Goes
  <1>4. WorkerTypes'
    BY <1>3 DEF WorkerTypes, WorkerShape, PC, PhaseStatus, Outcomes
  <1>5. upd'[w] = u /\ wpc'[w] = "save" /\ out'[w] = o /\ at'[w] = at[w]
    BY <1>3 DEF WorkerShape
  <1>6. InPhase(w)'
    BY <1>5, PhaseNow DEF InPhase, Outcomes
  <1> QED BY <1>2, <1>3, <1>4, <1>5, <1>6, OneWorker DEF WorkerShape

LEMMA CleanReturns ==
    ASSUME WorkerShape, NEW w \in Worker, NEW u, FitsUpdate(u), Clean(w, u)
    PROVE  Returned(w)
  <1>1. mem[w].items \ Closes[Now(w)] \in SUBSET Item
    BY DEF WorkerShape, Checkpoint
  <1> QED BY <1>1, FitsItems DEF Clean, Returned, Outcomes

LEMMA OpensReturns ==
    ASSUME WorkerShape, NEW w \in Worker, NEW u, FitsUpdate(u), NEW i \in Item, Opens(w, u, i)
    PROVE  Returned(w)
  <1>1. mem[w].items \cup {i} \in SUBSET Item
    BY DEF WorkerShape, Checkpoint
  <1> QED BY <1>1, FitsItems DEF Opens, Returned, Outcomes

LEMMA FailsReturns == ASSUME NEW w \in Worker, Fails(w) PROVE Returned(w)
  BY FitsNothing DEF Fails, Returned, Outcomes

LEMMA InstallReturns ==
    ASSUME WorkerShape, NEW w \in Worker, ChangeAddress(w) \/ InstallClean(w)
    PROVE  Returned(w)
  <1>1. spec[w] \in Address \cup {NoAddress}
    BY DEF WorkerShape
  <1>2. CASE ChangeAddress(w)
    BY <1>1, <1>2, FitsOne, CleanReturns DEF ChangeAddress
  <1>3. CASE InstallClean(w)
    <2>1. PICK m \in {"letsencrypt", "http"} : Clean(w, [installed |-> spec[w], mode |-> m])
      BY <1>3 DEF InstallClean
    <2> QED BY <1>1, <2>1, FitsOne, CleanReturns
  <1> QED BY <1>2, <1>3

\* ... or it goes to create a server.
LEMMA BodyReturns ==
    ASSUME WorkerShape, NEW w \in Worker, PhaseBody(w)
    PROVE  /\ wpc[w] \in {"act", "create"}
           /\ UNCHANGED <<rowVars, wrun, beating, at, spec, mem, read, end, counters>>
           /\ \/ Returned(w)
              \/ /\ Now(w) = "create_droplet" /\ wpc[w] = "act"
                 /\ wpc' = [wpc EXCEPT ![w] = "create"] /\ UNCHANGED <<upd, out>>
  <1>1. /\ wpc[w] \in {"act", "create"}
        /\ UNCHANGED <<rowVars, wrun, beating, at, spec, mem, read, end, counters>>
    BY DEF PhaseBody, PhaseFails, PlainPhase, CreateDroplet, CreateServer, CreateDns, Install,
           CheckDns, Certificate, Verify, CreateInstance, Acts
  <1>2. CASE PhaseFails(w)
    BY <1>1, <1>2, FailsReturns DEF PhaseFails
  <1>3. CASE PlainPhase(w) \/ CreateDns(w)
    BY <1>1, <1>3, FitsNothing, CleanReturns, OpensReturns DEF PlainPhase, CreateDns, Item
  <1>4. CASE CreateDroplet(w) \/ CreateServer(w)
    BY <1>1, <1>4, FitsNothing, FitsOne, CleanReturns
       DEF CreateDroplet, CreateServer, Acts, Goes
  <1>5. CASE Install(w)
    BY <1>1, <1>5, InstallReturns DEF Install
  <1>6. CASE CheckDns(w) \/ Verify(w)
    BY <1>1, <1>6, FitsOne, CleanReturns, OpensReturns DEF CheckDns, Verify, Item
  <1>7. CASE Certificate(w)
    BY <1>1, <1>7, FitsNothing, FitsOne, CleanReturns, OpensReturns DEF Certificate, Item
  <1>8. CASE CreateInstance(w)
    BY <1>1, <1>8, FitsNothing, FitsOne, CleanReturns, FailsReturns DEF CreateInstance
  <1> QED BY <1>2, <1>3, <1>4, <1>5, <1>6, <1>7, <1>8 DEF PhaseBody

LEMMA BodyShape ==
    ASSUME DeployShape, NEW w \in Worker, PhaseBody(w) PROVE DeployShape'
  <1> USE ShapeParts, ShapePartsNext
  <1>0. wpc[w] \in {"act", "create"} /\ wrun[w] \in Run
    BY BodyReturns, PhaseNow
  <1>1. RowShape' /\ CountShape'
    BY BodyReturns, RowKept, CountKept
  <1>2. WorkerShape'
    <2>1. CASE Returned(w)
      BY <2>1, BodyReturns, ReturnShape
    <2>2. CASE ~Returned(w)
      <3>1. /\ Now(w) = "create_droplet" /\ wpc[w] = "act"
            /\ wpc' = [wpc EXCEPT ![w] = "create"]
            /\ UNCHANGED <<upd, out, wrun, beating, at, spec, mem, read, end>>
        BY <2>2, BodyReturns
      <3>2. WorkerTypes' /\ wpc'[w] = "create"
        BY <3>1 DEF WorkerTypes, WorkerShape, PC
      <3>3. InPhase(w)'
        BY <3>1, <3>2, PhaseNow DEF InPhase, Now
      <3> QED BY <1>0, <3>1, <3>2, <3>3, OneWorker DEF WorkerShape
    <2> QED BY <2>1, <2>2
  <1>3. WorldShape'
    <2>1. spec[w] \in Address \cup {NoAddress} /\ mem[w].items \in SUBSET Item
      BY DEF WorkerShape, Checkpoint
    <2>2. CASE CreateServer(w)
      BY <1>0, <2>2 DEF CreateServer, WorldShape, instanceVars
    <2>3. CASE Install(w)
      BY <1>0, <2>1, <2>3 DEF Install, ChangeAddress, InstallClean, WorldShape, instanceVars
    <2>4. CASE Certificate(w)
      BY <1>0, <2>1, <2>4 DEF Certificate, WorldShape, instanceVars
    <2>5. CASE CreateInstance(w)
      BY <1>0, <2>1, <2>5 DEF CreateInstance, WorldShape, serverVars, instanceVars
    <2>6. CASE PhaseFails(w) \/ PlainPhase(w) \/ CreateDroplet(w) \/ CreateDns(w)
               \/ CheckDns(w) \/ Verify(w)
      BY <2>6, WorldKept DEF PhaseFails, PlainPhase, CreateDroplet, CreateDns, CheckDns, Verify
    <2> QED BY <2>2, <2>3, <2>4, <2>5, <2>6 DEF PhaseBody
  <1> QED BY <1>1, <1>2, <1>3

LEMMA NextShape == DeployShape /\ [Next]_vars => DeployShape'
  <1> SUFFICES ASSUME DeployShape, [Next]_vars PROVE DeployShape'
    OBVIOUS
  <1>1. CASE UNCHANGED vars
    BY <1>1, ShapeParts, ShapePartsNext, RowKept, WorkerKept, WorldKept, CountKept DEF vars
  <1>2. ASSUME NEW w \in Worker, RunDeploy(w) PROVE DeployShape'
    BY <1>2, BetweenShape, MarkShape, BodyShape, OverShape DEF RunDeploy
  <1> QED BY <1>1, <1>2, RequestShape, CommitShape, LapseShape, ClaimShape, BeatShape, OverShape
          DEF Next, Poll, RequestEnds

\* Types, and where a worker is in its run, for any order of the phases.
THEOREM DeployTypes == Spec => []DeployShape
  BY InitShape, NextShape, PTL DEF Spec

\* A request to cancel that a run has in its checkpoint survives every commit
\* until the run lands or is queued again, whoever holds the run, also with two
\* workers on it: but for a checkpoint that a worker read before the request
\* was committed and writes back after.
THEOREM CancelKept == Spec => CancelSurvives
  <1> DEFINE Kept1 ==
               \A r \in Run :
                 status[r] = "running" /\ ckpt[r].cancel /\ status'[r] = "running" =>
                   \/ ckpt'[r].cancel
                   \/ \E w \in Worker : /\ WorksOn(w, r) /\ read[w] # NotOpen
                                        /\ ~read[w].cancel /\ read'[w] = NotOpen
  <1>1. DeployShape /\ [Next]_vars => [Kept1]_vars
    <2> DEFINE Overtaken(r) ==
                 \E w \in Worker : /\ WorksOn(w, r) /\ read[w] # NotOpen
                                   /\ ~read[w].cancel /\ read'[w] = NotOpen
    <2> SUFFICES ASSUME DeployShape, Next, NEW r \in Run, status[r] = "running",
                        ckpt[r].cancel, status'[r] = "running"
                 PROVE  ckpt'[r].cancel \/ Overtaken(r)
      BY DEF vars
    <2> USE ShapeParts
    <2>1. CASE UNCHANGED ckpt
      BY <2>1
    <2>2. CASE Request
      BY <2>1, <2>2 DEF Request, AskCreate, AskRetry, Create, AskCancel
    <2>3. ASSUME NEW w \in Worker, Mark(w) \/ Save(w) PROVE ckpt'[r].cancel \/ Overtaken(r)
      <3>1. Now(w) \in Phase /\ wrun[w] \in Run /\ wpc[w] # "idle"
        BY <2>3, PhaseNow DEF Mark, Save
      <3>2. /\ read[w] # NotOpen /\ read'[w] = NotOpen
            /\ ckpt'[wrun[w]].cancel = read[w].cancel
            /\ \A q \in Run \ {wrun[w]} : ckpt'[q] = ckpt[q]
        <4>1. read[w] # NotOpen /\ read'[w] = NotOpen
          BY <2>3 DEF Mark, Save, Marked, Written, WorkerShape
        <4>2. CASE Mark(w)
          BY <3>1, <4>1, <4>2, FitsNothing, MarkedShape DEF Mark, PhaseStatus, MergedInto
        <4>3. CASE Save(w)
          BY <3>1, <4>1, <4>3, MarkedShape DEF Save, WorkerShape, MergedInto
        <4> QED BY <2>3, <4>2, <4>3
      <3>3. CASE wrun[w] = r /\ ~read[w].cancel
        BY <3>1, <3>2, <3>3 DEF WorksOn
      <3>4. CASE wrun[w] = r /\ read[w].cancel
        BY <3>2, <3>4
      <3>5. CASE wrun[w] # r
        BY <3>2, <3>5
      <3> QED BY <3>3, <3>4, <3>5
    <2>4. ASSUME NEW w \in Worker, PhaseBody(w) PROVE UNCHANGED ckpt
      BY <2>4, BodyReturns DEF rowVars
    <2>5. ASSUME NEW c \in Client, Cancel(c) PROVE ckpt'[r].cancel
      <3>1. req[c].run \in Run /\ req[c].ckpt \in Checkpoint
        BY <2>5, OpenShape DEF Cancel, Commits
      <3>2. [req[c].ckpt EXCEPT !.cancel = TRUE].cancel = TRUE
        BY <3>1, CancelField
      <3>3. \/ UNCHANGED ckpt
            \/ ckpt' = [ckpt EXCEPT ![req[c].run] = [req[c].ckpt EXCEPT !.cancel = TRUE]]
        BY <2>5 DEF Cancel
      <3> QED BY <3>1, <3>2, <3>3 DEF RowShape
    <2>6. ASSUME NEW c \in Client, Requeue(c) PROVE ckpt'[r] = ckpt[r]
      <3>1. req[c].run # r
        BY <2>6, OpenShape DEF Requeue, Commits, RowShape
      <3> QED BY <2>6, <3>1 DEF Requeue, RowShape
    <2> HIDE DEF Overtaken
    <2>7. ASSUME NEW w \in Worker, RunDeploy(w) PROVE ckpt'[r].cancel \/ Overtaken(r)
      BY <2>1, <2>3, <2>4, <2>7 DEF RunDeploy, Start, Check, ReadRow, Sync, Finish, rowVars
    <2>8. ASSUME NEW w \in Worker, Poll(w) \/ Heartbeat(w) \/ AppendLog(w) \/ Drop(w)
          PROVE  UNCHANGED ckpt
      BY <2>8 DEF Poll, Claim, Heartbeat, AppendLog, Drop, rowVars
    <2>9. ASSUME NEW q \in Run, Lapse(q) PROVE UNCHANGED ckpt
      BY <2>9 DEF Lapse
    <2> QED BY <2>1, <2>2, <2>5, <2>6, <2>7, <2>8, <2>9 DEF Next, RequestEnds
  <1> QED BY <1>1, DeployTypes, PTL DEF Spec, CancelSurvives

-----------------------------------------------------------------------------
\* What a run builds: BuildInv.

\* Two checkpoints that say the same, but for a request to cancel.
SameBut(d, c) ==
    /\ d.phases = c.phases /\ d.droplet = c.droplet /\ d.installed = c.installed
    /\ d.mode = c.mode /\ d.dnsOk = c.dnsOk /\ d.items = c.items
    /\ d.vfailed = c.vfailed /\ d.instance = c.instance

LEMMA AgreeFields ==
    ASSUME NEW c, NEW d
    PROVE  (\A f \in DOMAIN Blank \ {"cancel"} : d[f] = c[f]) <=> SameBut(d, c)
  <1>1. DOMAIN Blank = {"phases", "cancel", "droplet", "installed", "mode", "dnsOk",
                        "items", "vfailed", "instance"}
    BY DEF Blank
  <1> QED BY <1>1 DEF SameBut

\* What a step leaves of a row and its part of the world, and of a worker.
RowSame(r) ==
    /\ domain'[r] = domain[r] /\ SameBut(ckpt'[r], ckpt[r])
    /\ servers'[r] = servers[r] /\ registered'[r] = registered[r]
    /\ site'[r] = site[r] /\ cert'[r] = cert[r]
    /\ instUrl'[r] = instUrl[r] /\ instItems'[r] = instItems[r]

WorkerSame(v) ==
    /\ wrun'[v] = wrun[v] /\ wpc'[v] = wpc[v] /\ at'[v] = at[v] /\ spec'[v] = spec[v]
    /\ mem'[v] = mem[v] /\ upd'[v] = upd[v] /\ out'[v] = out[v] /\ end'[v] = end[v]

LEMMA RowDepends ==
    ASSUME NEW r \in Run, RowTrue(r), RowSame(r), status'[r] = status[r]
    PROVE  RowTrue(r)'
  BY DEF RowTrue, RowSame, SameBut, Told, Built

LEMMA WorkDepends ==
    ASSUME NEW v \in Worker, CopiesAgree(v), Achieved(v), WorkerSame(v), RowSame(wrun[v])
    PROVE  CopiesAgree(v)' /\ Achieved(v)'
  <1>1. CopiesAgree(v)'
    BY AgreeFields DEF CopiesAgree, RowSame, WorkerSame, SameBut
  <1>2. Has(v)' = Has(v) /\ \A p \in Phase : Past(v, p)' <=> Past(v, p)
    BY DEF Has, Past, WorkerSame
  <1>3. Now(v)' = Now(v)
    BY DEF Now, WorkerSame
  <1>4. Achieved(v)'
    BY <1>2, <1>3 DEF Achieved, WorkerSame, RowSame, SameBut, Told, Built, Phase
  <1> QED BY <1>1, <1>4

\* Everything the steps may rely on.
Facts == DeployShape /\ HolderInv /\ BuildInv

\* A step of one worker: it has only its own run to answer for.
LEMMA OneRun ==
    ASSUME Facts, Trusted, NEW w \in Worker, wpc[w] # "idle", NEW r \in Run, wrun[w] = r,
           \A q \in Run \ {r} : RowSame(q) /\ status'[q] = status[q],
           \A v \in Worker \ {w} : WorkerSame(v),
           RowTrue(r)',
           AtWork(w)' => CopiesAgree(w)' /\ Achieved(w)'
    PROVE  BuildInv'
  <1>1. \A q \in Run : RowTrue(q)'
    BY RowDepends DEF Facts, BuildInv
  <1>2. ASSUME NEW v \in Worker, AtWork(v)' PROVE CopiesAgree(v)' /\ Achieved(v)'
    <2>1. CASE v = w
      BY <1>2, <2>1
    <2>2. CASE v # w
      <3>1. WorkerSame(v) /\ AtWork(v)
        BY <1>2, <2>2 DEF AtWork, WorkerSame
      <3>2. wrun[v] \in Run /\ wrun[v] # wrun[w]
        BY <2>2, <3>1 DEF Facts, HolderInv, InHand, AtWork
      <3>3. CopiesAgree(v) /\ Achieved(v)
        BY <3>1 DEF Facts, BuildInv
      <3> QED BY <3>1, <3>2, <3>3, WorkDepends
    <2> QED BY <2>1, <2>2
  <1> QED BY <1>1, <1>2 DEF BuildInv

\* A step that changes none of this.
LEMMA NoneChanged ==
    ASSUME BuildInv, DeployShape, Trusted' => Trusted,
           \A r \in Run : RowSame(r) /\ status'[r] = status[r],
           \A v \in Worker : WorkerSame(v)
    PROVE  BuildInv'
  <1>1. Trusted => \A r \in Run : RowTrue(r)'
    BY RowDepends DEF BuildInv
  <1>2. ASSUME Trusted, NEW v \in Worker, AtWork(v)' PROVE CopiesAgree(v)' /\ Achieved(v)'
    <2>1. AtWork(v) /\ wrun[v] \in Run
      BY <1>2 DEF AtWork, WorkerSame, DeployShape
    <2> QED BY <1>2, <2>1, WorkDepends DEF BuildInv
  <1> QED BY <1>1, <1>2 DEF BuildInv

LEMMA InitBuild == Init => BuildInv
  <1> SUFFICES ASSUME Init PROVE BuildInv
    OBVIOUS
  <1>1. ASSUME NEW r \in Run PROVE RowTrue(r)
    BY <1>1 DEF Init, RowTrue, Told, Built, Blank, Phase, Terminal
  <1> QED BY <1>1 DEF Init, BuildInv, AtWork

\* A step that changes one row on which nobody works.
LEMMA IdleRun ==
    ASSUME Facts, Trusted, NEW r \in Run, status[r] # "running", RowTrue(r)',
           \A q \in Run \ {r} : RowSame(q) /\ status'[q] = status[q],
           \A v \in Worker : WorkerSame(v)
    PROVE  BuildInv'
  <1> USE DEF Facts
  <1>1. \A q \in Run : RowTrue(q)'
    BY RowDepends DEF BuildInv
  <1>2. ASSUME NEW v \in Worker, AtWork(v)' PROVE CopiesAgree(v)' /\ Achieved(v)'
    <2>1. AtWork(v)
      BY <1>2 DEF WorkerSame, AtWork
    <2>2. wrun[v] \in Run /\ wrun[v] # r
      BY <2>1 DEF HolderInv, InHand, AtWork
    <2>3. CopiesAgree(v) /\ Achieved(v)
      BY <2>1 DEF BuildInv
    <2> QED BY <2>2, <2>3, WorkDepends
  <1> QED BY <1>1, <1>2 DEF BuildInv

\* Requests that read change nothing but themselves; only an absent run is
\* created.
LEMMA RequestBuild == Facts /\ Request => BuildInv'
  <1> SUFFICES ASSUME Facts, Trusted, NEW r \in Run,
                      \/ \E d \in Address : \/ AskCreate(r, d)
                                           \/ \E c \in Client : AskRetry(c, r, d)
                      \/ Create(r)
                      \/ \E c \in Client : AskCancel(c, r)
               PROVE  BuildInv'
    BY DEF Request, BuildInv, Trusted, AskCreate, AskRetry, Create, AskCancel, counters
  <1> USE ShapeParts DEF Facts
  <1>1. UNCHANGED <<workerVars, serverVars, instanceVars>>
    BY DEF AskCreate, AskRetry, Create, AskCancel
  <1>2. \A v \in Worker : WorkerSame(v)
    BY <1>1 DEF workerVars, memVars, WorkerSame
  <1>3. CASE UNCHANGED <<status, domain, ckpt>>
    <2>1. \A q \in Run : RowSame(q) /\ status'[q] = status[q]
      BY <1>1, <1>3 DEF RowSame, SameBut, serverVars, instanceVars
    <2> QED BY <1>2, <2>1, NoneChanged
  <1>4. CASE Create(r)
    <2>1. /\ \A q \in Run \ {r} : RowSame(q) /\ status'[q] = status[q]
          /\ status[r] = "absent" /\ status'[r] = "queued"
          /\ UNCHANGED <<ckpt, serverVars, instanceVars>>
      BY <1>4 DEF Create, RowSame, SameBut, serverVars, instanceVars, RowShape
    <2>2. RowTrue(r)
      BY DEF BuildInv
    <2>3. RowTrue(r)'
      BY <2>1, <2>2 DEF RowTrue, Told, Built, serverVars, instanceVars, Terminal
    <2> QED BY <1>2, <2>1, <2>3, IdleRun
  <1> QED BY <1>3, <1>4 DEF AskCreate, AskRetry, AskCancel

\* A request to cancel that has overwritten nothing adds its flag to the row,
\* or takes a run that nobody has claimed yet.
LEMMA CancelBuild ==
    ASSUME Facts, NEW c \in Client, Cancel(c), [Next]_vars PROVE BuildInv'
  <1> USE ShapeParts DEF Facts
  <1> SUFFICES ASSUME Trusted' PROVE BuildInv'
    BY DEF BuildInv
  <1>0. req[c].run \in Run /\ req[c].ckpt \in Checkpoint
    BY OpenShape DEF Cancel, Commits
  <1>1. PICK r \in Run : r = req[c].run
    BY <1>0
  <1>2. Trusted /\ RowTrue(r) /\ overwritten \in BOOLEAN /\ UNCHANGED lapses
    BY <1>1, TrustKept DEF BuildInv, Cancel, CountShape
  <1>3. /\ \A v \in Worker : WorkerSame(v)
        /\ UNCHANGED <<domain, serverVars, instanceVars>>
    BY DEF Cancel, workerVars, memVars, WorkerSame
  <1>4. CASE /\ Overwrites(status[r] # "queued") /\ UNCHANGED ckpt
             /\ status' = [status EXCEPT ![r] = "cancelled"]
    <2>1. status[r] = "queued"
      BY <1>2, <1>4, OverwroteNothing
    <2>2. \A q \in Run \ {r} : RowSame(q) /\ status'[q] = status[q]
      BY <1>3, <1>4 DEF RowSame, SameBut, serverVars, instanceVars, RowShape
    <2>3. status'[r] = "cancelled"
      BY <1>1, <1>4 DEF RowShape
    <2>4. RowTrue(r)'
      BY <1>2, <1>3, <1>4, <2>1, <2>3
         DEF RowTrue, Told, Built, serverVars, instanceVars, Terminal
    <2> QED BY <1>1, <1>2, <1>3, <2>1, <2>2, <2>4, IdleRun
  <1>5. CASE /\ Overwrites(ckpt[r] # req[c].ckpt) /\ UNCHANGED status
             /\ ckpt' = [ckpt EXCEPT ![r] = [req[c].ckpt EXCEPT !.cancel = TRUE]]
    <2>1. ckpt[r] = req[c].ckpt
      BY <1>2, <1>5, OverwroteNothing
    <2>2. SameBut([req[c].ckpt EXCEPT !.cancel = TRUE], ckpt[r])
      BY <1>0, <2>1, CancelField DEF SameBut, Checkpoint
    <2>3. \A q \in Run : SameBut(ckpt'[q], ckpt[q])
      BY <1>5, <2>2 DEF RowShape, SameBut
    <2>4. \A q \in Run : RowSame(q) /\ status'[q] = status[q]
      BY <1>3, <1>5, <2>3 DEF RowSame, serverVars, instanceVars
    <2> QED BY <1>2, <1>3, <2>4, NoneChanged
  <1> QED BY <1>1, <1>4, <1>5 DEF Cancel

\* Nobody works on a run that is queued again, and what a retry keeps as done is
\* not what a corrected address concerns.
LEMMA RequeueBuild ==
    ASSUME Facts, NEW c \in Client, Requeue(c), [Next]_vars PROVE BuildInv'
  <1> USE ShapeParts DEF Facts
  <1> SUFFICES ASSUME Trusted' PROVE BuildInv'
    BY DEF BuildInv
  <1>0. /\ req[c].run \in Run /\ req[c].ckpt \in Checkpoint
        /\ req[c].domain \in Address \cup {NoAddress} /\ req[c].status \in Retryable
    BY OpenShape DEF Requeue, Commits, HolderInv, OpenRequests
  <1>1. PICK q : q = req[c]
    OBVIOUS
  <1>r. PICK r \in Run : r = q.run
    BY <1>0, <1>1
  <1> DEFINE old == <<status[r], domain[r], ckpt[r]>>
             changed == old # <<q.status, q.domain, q.ckpt>>
             moved == q.address # q.domain
             d == RetryCheckpoint(q.ckpt, moved, q.domain)
  <1>2. Trusted /\ RowTrue(r) /\ overwritten \in BOOLEAN /\ UNCHANGED lapses
    BY TrustKept DEF BuildInv, Requeue, CountShape
  <1>3. status[r] = q.status /\ domain[r] = q.domain /\ ckpt[r] = q.ckpt
    <2>1. Overwrites(changed)
      BY <1>1, <1>r DEF Requeue
    <2>2. changed \in BOOLEAN
      OBVIOUS
    <2>3. ~changed
      <3> HIDE DEF changed
      <3> QED BY <1>2, <2>1, <2>2, OverwroteNothing
    <2> QED BY <2>3
  <1>4. /\ \A v \in Worker : WorkerSame(v)
        /\ UNCHANGED <<serverVars, instanceVars>>
    BY DEF Requeue, workerVars, memVars, WorkerSame
  <1>5. /\ status' = [status EXCEPT ![r] = "queued"]
        /\ domain' = [domain EXCEPT ![r] = IF moved THEN q.address ELSE @]
        /\ ckpt' = [ckpt EXCEPT ![r] = d]
    BY <1>1, <1>r DEF Requeue
  <1>6. /\ d.phases = [p \in Phase |-> IF p \in Redone(ckpt[r], moved)
                                       THEN "retry" ELSE ckpt[r].phases[p]]
        /\ d.droplet = ckpt[r].droplet /\ d.instance = ckpt[r].instance
    <2>1. moved \in BOOLEAN
      OBVIOUS
    <2> HIDE DEF moved
    <2> QED BY <1>0, <1>1, <1>3, <2>1, RetryFields
  <1>7. moved \in BOOLEAN /\ (~moved => domain'[r] = domain[r])
    BY <1>1, <1>5 DEF RowShape
  <1> HIDE DEF d, moved, changed
  <1>8. \A e \in Run \ {r} : RowSame(e) /\ status'[e] = status[e]
    BY <1>4, <1>5 DEF RowSame, SameBut, serverVars, instanceVars, RowShape
  <1>9. status'[r] = "queued" /\ ckpt'[r] = d
    BY <1>1, <1>5 DEF RowShape
  <1>10. /\ d.phases["create_droplet"] = "done" => ckpt[r].phases["create_droplet"] = "done"
         /\ d.phases["create_instance"] = "done" => ckpt[r].phases["create_instance"] = "done"
         /\ d.phases["install_espocrm"] = "done" =>
               ckpt[r].phases["install_espocrm"] = "done" /\ ~moved
    BY <1>6 DEF Redone, Phase
  <1>11. RowTrue(r)'
    BY <1>0, <1>1, <1>2, <1>3, <1>4, <1>6, <1>7, <1>9, <1>10
       DEF RowTrue, Told, Built, serverVars, instanceVars, Terminal, Retryable
  <1> QED BY <1>0, <1>1, <1>2, <1>3, <1>4, <1>8, <1>11, IdleRun DEF Retryable

\* The clock, the heartbeats, a read, claims and drops change none of it, or put
\* a worker where nothing is asked of it.
LEMMA QuietBuild ==
    ASSUME Facts,
           \/ \E r \in Run : Lapse(r)
           \/ \E w \in Worker : Heartbeat(w) \/ AppendLog(w) \/ ReadRow(w)
           \/ UNCHANGED vars
    PROVE  BuildInv'
  <1> USE ShapeParts DEF Facts
  <1>1. \A v \in Worker : WorkerSame(v)
    BY DEF Lapse, Heartbeat, AppendLog, ReadRow, vars, workerVars, memVars, WorkerSame
  <1>2. \A r \in Run : RowSame(r) /\ status'[r] = status[r]
    BY DEF Lapse, Heartbeat, AppendLog, ReadRow, vars, rowVars, serverVars, instanceVars,
           RowSame, SameBut
  <1>3. Trusted' => Trusted
    BY DEF Lapse, Heartbeat, AppendLog, ReadRow, vars, counters, Trusted, CountShape
  <1> QED BY <1>1, <1>2, <1>3, NoneChanged

LEMMA ClaimBuild ==
    ASSUME Facts, NEW w \in Worker, NEW r \in Run, Claim(w, r) PROVE BuildInv'
  <1> USE ShapeParts DEF Facts
  <1>1. /\ wpc'[w] = "start" /\ \A v \in Worker \ {w} : WorkerSame(v)
        /\ Trusted' => Trusted
    BY DEF Claim, memVars, WorkerShape, WorkerSame, counters, Trusted
  <1>2. /\ \A q \in Run : RowSame(q) /\ (q # r => status'[q] = status[q])
        /\ status'[r] = "running" /\ status[r] # "absent"
        /\ UNCHANGED <<domain, ckpt, serverVars, instanceVars>>
    BY DEF Claim, Claimable, RowSame, SameBut, serverVars, instanceVars, RowShape
  <1>3. ASSUME Trusted, NEW q \in Run PROVE RowTrue(q)'
    <2>1. CASE q = r
      BY <1>2, <1>3, <2>1 DEF BuildInv, RowTrue, Told, Built, serverVars, instanceVars, Terminal
    <2>2. CASE q # r
      BY <1>2, <1>3, <2>2, RowDepends DEF BuildInv
    <2> QED BY <2>1, <2>2
  <1>4. ASSUME Trusted, NEW v \in Worker, AtWork(v)' PROVE CopiesAgree(v)' /\ Achieved(v)'
    <2>1. v # w /\ WorkerSame(v)
      BY <1>1, <1>4 DEF AtWork
    <2>2. AtWork(v) /\ wrun[v] \in Run
      BY <1>4, <2>1 DEF AtWork, WorkerSame, WorkerShape
    <2> QED BY <1>2, <1>4, <2>1, <2>2, WorkDepends DEF BuildInv
  <1> QED BY <1>1, <1>3, <1>4 DEF BuildInv

LEMMA OverBuild ==
    ASSUME Facts, NEW w \in Worker, Drop(w) \/ Finish(w) PROVE BuildInv'
  <1> USE ShapeParts DEF Facts
  <1>1. wpc[w] # "idle" /\ wpc'[w] = "idle" /\ \A v \in Worker \ {w} : WorkerSame(v)
    BY DEF Drop, Finish, Ends, WorkerShape, WorkerSame
  <1>2. Trusted' => Trusted
    BY DEF Drop, Finish, counters, Trusted
  <1>3. PICK r \in Run : wrun[w] = r
    BY <1>1 DEF WorkerShape
  <1>4. UNCHANGED <<domain, ckpt, serverVars, instanceVars>>
    BY DEF Drop, Finish, rowVars
  <1>5. \A q \in Run : RowSame(q) /\ (q # r => status'[q] = status[q])
    BY <1>3, <1>4 DEF Drop, Finish, rowVars, RowSame, SameBut, serverVars, instanceVars, RowShape
  <1>6. ASSUME Trusted PROVE RowTrue(r)'
    <2>0. RowTrue(r)
      BY <1>6 DEF BuildInv
    <2>1. CASE Drop(w)
      BY <2>0, <2>1, <1>5, RowDepends DEF Drop, rowVars
    <2>2. CASE Finish(w)
      <3>1. status'[r] = end[w] /\ wpc[w] = "finish" /\ end[w] \in Terminal
        BY <1>3, <2>2 DEF Finish, RowShape, WorkerShape
      <3>2. Told(r, end[w]) /\ Built(r, end[w])
        BY <1>3, <1>6, <3>1 DEF BuildInv, AtWork, Achieved
      <3> QED BY <2>0, <3>1, <3>2, <1>4
              DEF RowTrue, Told, Built, serverVars, instanceVars, Terminal
    <2> QED BY <2>1, <2>2
  <1> QED BY <1>1, <1>2, <1>3, <1>5, <1>6, OneRun DEF AtWork, BuildInv

\* A worker starts: its copies are the row, and nothing is behind it.
LEMMA StartBuild ==
    ASSUME Facts, NEW w \in Worker, Start(w) PROVE BuildInv'
  <1> USE ShapeParts DEF Facts
  <1>1. /\ wpc[w] = "start" /\ wpc'[w] = "check" /\ at'[w] = 1
        /\ wrun' = wrun /\ wrun[w] \in Run
        /\ spec'[w] = domain[wrun[w]] /\ mem'[w] = ckpt[wrun[w]]
        /\ \A v \in Worker \ {w} : WorkerSame(v)
    BY DEF Start, Goes, WorkerShape, WorkerSame
  <1>2. /\ Trusted' => Trusted
        /\ \A q \in Run : RowSame(q) /\ status'[q] = status[q]
        /\ UNCHANGED <<domain, ckpt, servers, registered>>
    BY DEF Start, counters, Trusted, rowVars, serverVars, instanceVars, RowSame, SameBut
  <1>3. PICK r \in Run : wrun[w] = r
    BY <1>1
  <1>4. ASSUME Trusted PROVE RowTrue(r) /\ RowTrue(r)'
    BY <1>2, <1>4, RowDepends DEF BuildInv
  <1>5. CopiesAgree(w)'
    BY <1>1, <1>2 DEF CopiesAgree
  <1>6. Has(w)' = ckpt[r] /\ \A p \in Phase : ~Past(w, p)'
    BY <1>1, <1>3, Orders DEF Has, Past
  <1>7. ASSUME Trusted PROVE Achieved(w)'
    BY <1>1, <1>2, <1>3, <1>4, <1>6, <1>7 DEF Achieved, RowTrue, Phase
  <1> QED BY <1>1, <1>2, <1>3, <1>4, <1>5, <1>7, OneRun DEF BuildInv

\* The top of the loop: a phase that is skipped has done what it is for.
LEMMA CheckBuild ==
    ASSUME Facts, NEW w \in Worker, Check(w) PROVE BuildInv'
  <1> USE ShapeParts DEF Facts
  <1>1. /\ wpc[w] = "check" /\ wrun' = wrun /\ wrun[w] \in Run /\ mem' = mem /\ spec' = spec
        /\ \A v \in Worker \ {w} : WorkerSame(v)
    BY DEF Check, Goes, WorkerShape, WorkerSame
  <1>2. /\ Trusted' => Trusted
        /\ \A q \in Run : RowSame(q) /\ status'[q] = status[q]
        /\ UNCHANGED <<rowVars, serverVars, instanceVars>>
    BY DEF Check, counters, Trusted, rowVars, serverVars, instanceVars, RowSame, SameBut
  <1>3. PICK r \in Run : wrun[w] = r
    BY <1>1
  <1> SUFFICES ASSUME Trusted PROVE BuildInv'
    BY <1>2 DEF BuildInv
  <1>4. RowTrue(r) /\ RowTrue(r)' /\ CopiesAgree(w) /\ Achieved(w)
    BY <1>1, <1>2, <1>3, RowDepends DEF BuildInv, AtWork
  <1>5. CopiesAgree(w)'
    BY <1>1, <1>2, <1>4 DEF CopiesAgree, rowVars
  <1>6. at[w] \in Nat /\ at \in [Worker -> 1..Len(PhaseOrder) + 1]
    BY Orders DEF WorkerShape
  <1>7. Has(w) = mem[w] /\ SameBut(mem[w], ckpt[r])
    BY <1>1, <1>3, <1>4, AgreeFields DEF Has, CopiesAgree
  <1>8. CASE wpc'[w] # "check"
    <2>1. /\ wpc'[w] \in {"sync", "finish", "mark"} /\ at' = at
          /\ wpc'[w] = "finish" => end'[w] = "cancelled"
      BY <1>8 DEF Check, Goes, WorkerShape
    <2>2. Has(w)' = Has(w) /\ \A p \in Phase : Past(w, p)' <=> Past(w, p)
      BY <1>1, <2>1, <1>7 DEF Has, Past
    <2>3. wpc'[w] = "finish" => Told(r, end[w])' /\ Built(r, end[w])'
      BY <2>1 DEF Told, Built
    <2>4. Achieved(w)'
      BY <1>1, <1>2, <1>3, <1>4, <2>1, <2>2, <2>3
         DEF Achieved, Phase, serverVars, instanceVars, Told, Built
    <2> QED BY <1>1, <1>2, <1>3, <1>4, <1>5, <2>4, OneRun
  <1>9. CASE wpc'[w] = "check"
    <2>1. /\ Now(w) \in Kept /\ mem[w].phases[Now(w)] = "done" /\ at'[w] = at[w] + 1
          /\ ~Finished(w)
      BY <1>9, <1>1 DEF Check, Goes, WorkerShape
    <2>2. Has(w)' = mem[w]
      BY <1>1, <1>9 DEF Has
    <2>3. ASSUME NEW p \in Phase, Past(w, p)' PROVE Past(w, p) \/ p = Now(w)
      <3>1. PICK k \in 1..Len(PhaseOrder) : PhaseOrder[k] = p /\ k < at'[w]
        BY <1>9, <2>3 DEF Past
      <3>2. k < at[w] \/ k = at[w]
        BY <1>6, <2>1, <3>1, Orders
      <3> QED BY <3>1, <3>2 DEF Past, Now
    <2>4. ckpt[r].phases[Now(w)] = "done"
      BY <1>7, <2>1 DEF SameBut
    <2>5. Now(w) # "certificate" /\ Now(w) # "verify"
      BY <2>1 DEF Kept
    <2>6. Achieved(w)'
      BY <1>1, <1>2, <1>3, <1>4, <1>7, <1>9, <2>2, <2>3, <2>4, <2>5
         DEF Achieved, RowTrue, CopiesAgree, SameBut, Phase, rowVars, serverVars, instanceVars
    <2> QED BY <1>1, <1>2, <1>3, <1>4, <1>5, <2>6, OneRun
  <1> QED BY <1>8, <1>9

\* A phase begins: its status is no longer "done", the rest stays.
LEMMA MarkBuild ==
    ASSUME Facts, NEW w \in Worker, Mark(w), [Next]_vars PROVE BuildInv'
  <1> USE ShapeParts DEF Facts
  <1>0. Now(w) \in Phase /\ wrun[w] \in Run
    BY PhaseNow DEF Mark
  <1>1. /\ wpc[w] = "mark" /\ wpc'[w] = "act" /\ wrun' = wrun /\ at' = at /\ spec' = spec
        /\ \A v \in Worker \ {w} : WorkerSame(v)
    BY DEF Mark, Marked, Written, Goes, WorkerShape, WorkerSame
  <1>2. PICK r \in Run : wrun[w] = r
    BY <1>0
  <1>3. UNCHANGED <<status, domain, lapses, serverVars, instanceVars>>
    BY DEF Mark
  <1> SUFFICES ASSUME Trusted' PROVE BuildInv'
    BY DEF BuildInv
  <1>t. Trusted
    BY TrustKept
  <1>4. /\ ckpt'[r].phases = [ckpt[r].phases EXCEPT ![Now(w)] = "running"]
        /\ MergedInto(ckpt'[r], ckpt[r], Nothing) /\ mem'[w] = ckpt'[r]
        /\ \A q \in Run \ {r} : ckpt'[q] = ckpt[q]
    <2>1. /\ ckpt'[r].phases = [read[w].phases EXCEPT ![Now(w)] = "running"]
          /\ MergedInto(ckpt'[r], read[w], Nothing) /\ mem'[w] = ckpt'[r]
          /\ \A q \in Run \ {r} : ckpt'[q] = ckpt[q]
          /\ Overwrites(ckpt[r] # read[w])
      <3>1. RowShape /\ WorkerShape /\ Marked(w, Nothing, "running")
        BY DEF Mark
      <3>2. "running" \in PhaseStatus /\ FitsUpdate(Nothing) /\ mem \in [Worker -> Checkpoint]
        BY <3>1, FitsNothing DEF PhaseStatus, WorkerShape
      <3> HIDE DEF Facts
      <3>3. /\ mem' = [mem EXCEPT ![w] = ckpt'[wrun[w]]]
            /\ \A q \in Run \ {wrun[w]} : ckpt'[q] = ckpt[q]
            /\ MergedInto(ckpt'[wrun[w]], read[w], Nothing)
            /\ ckpt'[wrun[w]].phases = [read[w].phases EXCEPT ![Now(w)] = "running"]
            /\ Overwrites(ckpt[wrun[w]] # read[w])
        BY <1>0, <3>1, <3>2, MarkedShape
      <3> QED BY <1>2, <3>2, <3>3
    <2>2. ckpt[r] = read[w]
      BY <1>3, <2>1, OverwroteNothing DEF CountShape
    <2> QED BY <2>1, <2>2
  <1>5. \A q \in Run \ {r} : RowSame(q) /\ status'[q] = status[q]
    BY <1>3, <1>4 DEF RowSame, SameBut, serverVars, instanceVars
  <1>6. RowTrue(r) /\ CopiesAgree(w) /\ Achieved(w) /\ status[r] = "running"
    BY <1>1, <1>2, <1>t DEF BuildInv, AtWork, HolderInv, InHand
  <1>7. /\ ckpt'[r].droplet = ckpt[r].droplet /\ ckpt'[r].instance = ckpt[r].instance
        /\ ckpt'[r].mode = ckpt[r].mode /\ ckpt'[r].items = ckpt[r].items
        /\ ckpt'[r].vfailed = ckpt[r].vfailed
    BY <1>4 DEF MergedInto, Nothing
  <1>8. /\ ckpt'[r].phases[Now(w)] = "running"
        /\ \A p \in Phase : ckpt'[r].phases[p] = "done" => ckpt[r].phases[p] = "done"
    BY <1>0, <1>4 DEF RowShape, Checkpoint
  <1>9. RowTrue(r)'
    BY <1>3, <1>6, <1>7, <1>8
       DEF RowTrue, Told, Built, Phase, Terminal, serverVars, instanceVars
  <1>10. CopiesAgree(w)'
    BY <1>1, <1>2, <1>3, <1>4, <1>6 DEF CopiesAgree
  <1>11. Has(w) = mem[w] /\ Has(w)' = ckpt'[r] /\ SameBut(mem[w], ckpt[r])
    BY <1>1, <1>2, <1>4, <1>6, AgreeFields DEF Has, CopiesAgree
  <1>12. \A p \in Phase : Past(w, p)' => Past(w, p)
    BY <1>1 DEF Past
  <1>13. Achieved(w)'
    BY <1>1, <1>2, <1>3, <1>6, <1>7, <1>8, <1>11, <1>12
       DEF Achieved, SameBut, Phase, Now, serverVars, instanceVars
  <1> QED BY <1>1, <1>2, <1>5, <1>9, <1>10, <1>13, <1>t, OneRun

\* A phase is saved: the row now says what the worker has.
LEMMA SaveBuild ==
    ASSUME Facts, NEW w \in Worker, Save(w), [Next]_vars PROVE BuildInv'
  <1> USE ShapeParts DEF Facts
  <1>0. Now(w) \in Phase /\ wrun[w] \in Run /\ at[w] \in 1..Len(PhaseOrder)
    BY PhaseNow DEF Save
  <1>1. /\ wpc[w] = "save" /\ wrun' = wrun /\ spec' = spec
        /\ \/ /\ out[w] = "failed" /\ wpc'[w] = "finish" /\ at'[w] = at[w] /\ end'[w] = "failed"
           \/ /\ out[w] # "failed" /\ wpc'[w] = "check" /\ at'[w] = at[w] + 1
        /\ \A v \in Worker \ {w} : WorkerSame(v)
    BY DEF Save, Marked, Written, Goes, WorkerShape, WorkerSame
  <1>2. PICK r \in Run : wrun[w] = r
    BY <1>0
  <1>3. UNCHANGED <<status, domain, lapses, serverVars, instanceVars>>
    BY DEF Save
  <1> SUFFICES ASSUME Trusted' PROVE BuildInv'
    BY DEF BuildInv
  <1>t. Trusted
    BY TrustKept
  <1>4. /\ ckpt'[r].phases = [ckpt[r].phases EXCEPT ![Now(w)] = out[w]]
        /\ MergedInto(ckpt'[r], ckpt[r], upd[w]) /\ mem'[w] = ckpt'[r]
        /\ \A q \in Run \ {r} : ckpt'[q] = ckpt[q]
    <2>1. /\ ckpt'[r].phases = [read[w].phases EXCEPT ![Now(w)] = out[w]]
          /\ MergedInto(ckpt'[r], read[w], upd[w]) /\ mem'[w] = ckpt'[r]
          /\ \A q \in Run \ {r} : ckpt'[q] = ckpt[q]
          /\ Overwrites(ckpt[r] # read[w])
      <3>1. RowShape /\ WorkerShape /\ Marked(w, upd[w], out[w])
        BY DEF Save
      <3>2. out[w] \in PhaseStatus /\ FitsUpdate(upd[w]) /\ mem \in [Worker -> Checkpoint]
        BY <3>1 DEF WorkerShape
      <3> HIDE DEF Facts
      <3>3. /\ mem' = [mem EXCEPT ![w] = ckpt'[wrun[w]]]
            /\ \A q \in Run \ {wrun[w]} : ckpt'[q] = ckpt[q]
            /\ MergedInto(ckpt'[wrun[w]], read[w], upd[w])
            /\ ckpt'[wrun[w]].phases = [read[w].phases EXCEPT ![Now(w)] = out[w]]
            /\ Overwrites(ckpt[wrun[w]] # read[w])
        BY <1>0, <3>1, <3>2, MarkedShape
      <3> QED BY <1>2, <3>2, <3>3
    <2>2. ckpt[r] = read[w]
      BY <1>3, <2>1, OverwroteNothing DEF CountShape
    <2> QED BY <2>1, <2>2
  <1>5. \A q \in Run \ {r} : RowSame(q) /\ status'[q] = status[q]
    BY <1>3, <1>4 DEF RowSame, SameBut, serverVars, instanceVars
  <1>6. RowTrue(r) /\ CopiesAgree(w) /\ Achieved(w) /\ status[r] = "running"
    BY <1>1, <1>2, <1>t DEF BuildInv, AtWork, HolderInv, InHand
  <1>7. MergedInto(Has(w), mem[w], upd[w]) /\ FitsUpdate(upd[w]) /\ SameBut(mem[w], ckpt[r])
    BY <1>1, <1>2, <1>6, MergedFields, AgreeFields DEF Has, CopiesAgree, WorkerShape
  <1>8. /\ ckpt'[r].droplet = Has(w).droplet /\ ckpt'[r].instance = Has(w).instance
        /\ ckpt'[r].mode = Has(w).mode /\ ckpt'[r].items = Has(w).items
        /\ ckpt'[r].vfailed = Has(w).vfailed
        /\ ckpt[r].droplet => Has(w).droplet
        /\ ckpt[r].instance => Has(w).instance
    BY <1>4, <1>7 DEF MergedInto, SameBut, FitsUpdate
  <1>9. \A p \in Phase : ckpt'[r].phases[p] = "done" =>
            ckpt[r].phases[p] = "done" \/ (p = Now(w) /\ out[w] = "done")
    BY <1>0, <1>4 DEF RowShape, Checkpoint
  <1>10. out[w] # "failed" => Past(w, Now(w))
    BY <1>0, <1>1 DEF Past, Now
  <1>11. RowTrue(r)'
    BY <1>2, <1>3, <1>6, <1>8, <1>9, <1>10
       DEF RowTrue, Achieved, CopiesAgree, Told, Built, Phase, Terminal, serverVars, instanceVars
  <1>12. CopiesAgree(w)'
    BY <1>1, <1>2, <1>3, <1>4, <1>6 DEF CopiesAgree
  <1>13. Has(w)' = ckpt'[r]
    BY <1>1, <1>4 DEF Has
  <1>14. \A p \in Phase : Past(w, p)' => Past(w, p)
    <2> SUFFICES ASSUME NEW p \in Phase, Past(w, p)' PROVE Past(w, p)
      OBVIOUS
    <2>1. PICK k \in 1..Len(PhaseOrder) : PhaseOrder[k] = p /\ k < at'[w]
      BY <1>1 DEF Past
    <2>2. k < at[w] \/ (k = at[w] /\ out[w] # "failed")
      BY <1>0, <1>1, <2>1, Orders
    <2> QED BY <1>1, <2>1, <2>2 DEF Past
  <1>15. Achieved(w)'
    BY <1>1, <1>2, <1>3, <1>6, <1>8, <1>13, <1>14
       DEF Achieved, Phase, Told, Built, serverVars, instanceVars
  <1> QED BY <1>1, <1>2, <1>5, <1>11, <1>12, <1>15, <1>t, OneRun

\* The end: in an order of phases that builds everything, what is behind the
\* worker is all that a landed status promises.
LEMMA SyncBuild ==
    ASSUME Facts, BuildOrder, NEW w \in Worker, Sync(w) PROVE BuildInv'
  <1> USE ShapeParts DEF Facts
  <1>1. /\ wpc[w] = "sync" /\ wpc'[w] = "finish" /\ wrun' = wrun /\ wrun[w] \in Run
        /\ mem' = mem /\ spec' = spec /\ at' = at
        /\ \A v \in Worker \ {w} : WorkerSame(v)
        /\ end'[w] = IF mem[w].items # {} THEN "needs_action"
                     ELSE IF mem[w].vfailed THEN "succeeded_with_issues" ELSE "succeeded"
    BY DEF Sync, Goes, WorkerShape, WorkerSame
  <1>2. PICK r \in Run : wrun[w] = r
    BY <1>1
  <1>3. /\ Trusted' => Trusted
        /\ UNCHANGED <<rowVars, serverVars, registered>>
    BY DEF Sync, counters, Trusted
  <1> SUFFICES ASSUME Trusted PROVE BuildInv'
    BY <1>3 DEF BuildInv
  <1>4. \A q \in Run \ {r} : RowSame(q) /\ status'[q] = status[q]
    BY <1>2, <1>3 DEF Sync, WorldShape, RowSame, SameBut, rowVars, serverVars
  <1>5. RowTrue(r) /\ CopiesAgree(w) /\ Achieved(w) /\ status[r] = "running"
    BY <1>1, <1>2 DEF BuildInv, AtWork, HolderInv, InHand
  <1>6. RowTrue(r)'
    BY <1>3, <1>5 DEF RowTrue, Told, Built, Terminal, rowVars, serverVars
  <1>7. CopiesAgree(w)'
    BY <1>1, <1>3, <1>5 DEF CopiesAgree, rowVars
  <1>8. Has(w) = mem[w] /\ Has(w)' = mem[w] /\ SameBut(mem[w], ckpt[r])
    BY <1>1, <1>2, <1>5, AgreeFields DEF Has, CopiesAgree
  <1>9. \A p \in Phase : Past(w, p)' <=> Past(w, p)
    BY <1>1 DEF Past
  <1>10. ASSUME NEW p, Includes(p) PROVE Past(w, p)
    <2>1. PICK k \in 1..Len(PhaseOrder) : PhaseOrder[k] = p
      BY <1>10 DEF Includes
    <2>2. at[w] > Len(PhaseOrder) /\ at[w] \in Nat
      BY <1>1, Orders DEF WorkerShape, InPhase, Finished
    <2>3. k < at[w]
      BY <2>2, Orders
    <2> QED BY <2>1, <2>3 DEF Past
  <1>11. /\ mem[w].droplet /\ servers[r] = 1 /\ mem[w].instance /\ registered[r] > 0
         /\ site[r] = spec[w]
         /\ mem[w].mode = "letsencrypt" \/ "certificate" \in mem[w].items
         /\ mem[w].vfailed \/ mem[w].mode = "http" \/ cert[r] = spec[w]
    BY <1>2, <1>5, <1>8, <1>10 DEF BuildOrder, Achieved
  <1>12. instUrl'[r] = spec[w] /\ instItems'[r] = mem[w].items
    BY <1>2, <1>11 DEF Sync, WorldShape
  <1>13. Told(r, end[w])' /\ Built(r, end[w])'
    <2>1. ckpt'[r].items = mem[w].items /\ domain'[r] = spec[w]
      BY <1>2, <1>3, <1>5, <1>8 DEF rowVars, SameBut, CopiesAgree
    <2> QED BY <1>1, <1>2, <1>3, <1>11, <1>12, <2>1 DEF Told, Built, serverVars
  <1>14. Achieved(w)'
    BY <1>1, <1>2, <1>3, <1>5, <1>8, <1>9, <1>13
       DEF Achieved, Phase, rowVars, serverVars
  <1> QED BY <1>1, <1>2, <1>4, <1>6, <1>7, <1>14, OneRun

\* A phase.  The order of the phases keeps what is achieved: nothing is
\* installed once a certificate was completed, nor either once it was verified.
LEMMA OrderHolds ==
    ASSUME BuildOrder, NEW w \in Worker, at[w] \in 1..Len(PhaseOrder), wpc[w] # "save"
    PROVE  /\ Past(w, "certificate") => Now(w) # "install_espocrm"
           /\ Past(w, "verify") => Now(w) \notin {"install_espocrm", "certificate"}
  <1>1. ASSUME NEW k \in 1..Len(PhaseOrder), k < at[w], PhaseOrder[k] = "certificate",
               Now(w) = "install_espocrm"
        PROVE  FALSE
    <2>1. at[w] < k
      BY <1>1 DEF BuildOrder, Before, Now
    <2> QED BY <1>1, <2>1, Orders
  <1>2. ASSUME NEW k \in 1..Len(PhaseOrder), k < at[w], PhaseOrder[k] = "verify",
               Now(w) = "certificate"
        PROVE  FALSE
    <2>1. at[w] < k
      BY <1>2 DEF BuildOrder, Before, Now
    <2> QED BY <1>2, <2>1, Orders
  <1>3. ASSUME NEW k \in 1..Len(PhaseOrder), k < at[w], PhaseOrder[k] = "verify",
               Now(w) = "install_espocrm"
        PROVE  FALSE
    <2>1. PICK c \in 1..Len(PhaseOrder) : PhaseOrder[c] = "certificate"
      BY DEF BuildOrder, Includes
    <2>2. at[w] < c
      BY <1>3, <2>1 DEF BuildOrder, Before, Now
    <2>3. c < k
      BY <1>3, <2>1 DEF BuildOrder, Before
    <2> QED BY <1>3, <2>2, <2>3, Orders
  <1> QED BY <1>1, <1>2, <1>3 DEF Past

\* What the update u and the outcome o of a phase must be, h being the
\* checkpoint merged with u, and what the phase may do to the world.
BodyDoes(w, r, u, o, h) ==
    /\ servers'[r] = servers[r] \/ (servers[r] = 0 /\ servers'[r] = 1)
    /\ "droplet" \in DOMAIN u => servers'[r] = 1
    /\ registered[r] > 0 \/ "instance" \in DOMAIN u => registered'[r] > 0
    /\ site'[r] = site[r] \/ (Now(w) = "install_espocrm" /\ site'[r] = spec[w])
    /\ cert'[r] = cert[r] \/ Now(w) \in {"install_espocrm", "certificate"}
    /\ h.mode = mem[w].mode \/ Now(w) = "install_espocrm"
          \/ (Now(w) = "certificate" /\ h.mode = "letsencrypt")
    /\ h.vfailed = mem[w].vfailed \/ Now(w) = "verify"
    /\ "certificate" \in mem[w].items => "certificate" \in h.items \/ Now(w) = "certificate"
    /\ o # "failed" =>
          /\ Now(w) = "create_droplet" => h.droplet
          /\ Now(w) = "create_instance" => h.instance
          /\ Now(w) = "install_espocrm" => site'[r] = spec[w]
          /\ Now(w) = "certificate" => h.mode = "letsencrypt" \/ "certificate" \in h.items
          /\ Now(w) = "verify" => h.vfailed \/ h.mode = "http" \/ cert'[r] = spec[w]
    /\ o = "failed" =>
          /\ h.mode = mem[w].mode /\ h.vfailed = mem[w].vfailed /\ h.items = mem[w].items
          /\ cert'[r] = cert[r]

BodyWorld(w, r) ==
    \A q \in Run \ {r} :
       /\ servers'[q] = servers[q] /\ registered'[q] = registered[q]
       /\ site'[q] = site[q] /\ cert'[q] = cert[q]
       /\ instUrl'[q] = instUrl[q] /\ instItems'[q] = instItems[q]

LEMMA BodyBuild ==
    ASSUME Facts, BuildOrder, Trusted, NEW w \in Worker, wpc[w] \in {"act", "create"},
           NEW r \in Run, wrun[w] = r,
           NEW u, FitsUpdate(u), NEW o \in Outcomes, Returns(w, u, o),
           UNCHANGED <<rowVars, wrun, beating, at, spec, mem, read, end, counters>>,
           BodyWorld(w, r), BodyDoes(w, r, u, o, Merged(mem[w], u))
    PROVE  BuildInv'
  <1> USE ShapeParts DEF Facts
  <1> DEFINE h == Merged(mem[w], u)
  <1>0. at[w] \in 1..Len(PhaseOrder) /\ mem[w] \in Checkpoint
    BY PhaseNow DEF WorkerShape
  <1>1. /\ upd'[w] = u /\ out'[w] = o /\ wpc'[w] = "save"
        /\ \A v \in Worker \ {w} : WorkerSame(v)
    BY DEF Returns, Goes, WorkerShape, WorkerSame
  <1>2. \A q \in Run \ {r} : RowSame(q) /\ status'[q] = status[q]
    BY DEF BodyWorld, RowSame, SameBut, rowVars
  <1>3. RowTrue(r) /\ CopiesAgree(w) /\ Achieved(w) /\ status[r] = "running"
    BY DEF BuildInv, AtWork, HolderInv, InHand
  <1>4. MergedInto(h, mem[w], u) /\ Has(w) = mem[w] /\ Has(w)' = h
    BY <1>0, <1>1, MergedFields DEF Has
  <1>5. \A p \in Phase : Past(w, p)' => Past(w, p) \/ (p = Now(w) /\ o # "failed")
    BY <1>1 DEF Past, Now
  <1>6. SameBut(mem[w], ckpt[r]) /\ spec[w] = domain[r]
    BY <1>3, AgreeFields DEF CopiesAgree
  <1>7. ckpt[r].phases[Now(w)] = "running" \/ wpc[w] = "create"
    BY <1>3 DEF Achieved
  <1>8. CopiesAgree(w)'
    BY <1>3 DEF CopiesAgree, rowVars
  <1>9. BodyDoes(w, r, u, o, h)
    OBVIOUS
  <1> HIDE DEF h
  <1>10. RowTrue(r)'
    BY <1>3, <1>6, <1>9 DEF RowTrue, BodyDoes, Achieved, Told, Built, Terminal, rowVars
  <1>11. /\ Past(w, "certificate") => Now(w) # "install_espocrm"
         /\ Past(w, "verify") => Now(w) \notin {"install_espocrm", "certificate"}
    BY <1>0, OrderHolds
  <1>12. /\ h.droplet => servers'[r] = 1
         /\ h.instance => registered'[r] > 0
         /\ mem[w].droplet => h.droplet
         /\ mem[w].instance => h.instance
    BY <1>3, <1>4, <1>9 DEF Achieved, BodyDoes, MergedInto, FitsUpdate
  <1>13. Past(w, "create_droplet")' => h.droplet
    BY <1>3, <1>4, <1>5, <1>9, <1>12 DEF Achieved, BodyDoes, Phase
  <1>14. Past(w, "create_instance")' => h.instance
    BY <1>3, <1>4, <1>5, <1>9, <1>12 DEF Achieved, BodyDoes, Phase
  <1>15. Past(w, "install_espocrm")' => site'[r] = spec[w]
    BY <1>3, <1>4, <1>5, <1>9 DEF Achieved, BodyDoes, Phase
  <1>16. ASSUME Past(w, "certificate")'
         PROVE  h.mode = "letsencrypt" \/ "certificate" \in h.items
    <2>1. CASE Now(w) = "certificate" /\ o # "failed"
      BY <1>9, <2>1 DEF BodyDoes
    <2>2. CASE ~(Now(w) = "certificate" /\ o # "failed")
      <3>1. Past(w, "certificate")
        BY <1>5, <1>16, <2>2 DEF Phase
      <3>2. mem[w].mode = "letsencrypt" \/ "certificate" \in mem[w].items
        BY <1>3, <1>4, <3>1 DEF Achieved
      <3> QED BY <1>9, <1>11, <2>2, <3>1, <3>2 DEF BodyDoes
    <2> QED BY <2>1, <2>2
  <1>17. ASSUME Past(w, "verify")'
         PROVE  h.vfailed \/ h.mode = "http" \/ cert'[r] = spec[w]
    <2>1. CASE Now(w) = "verify" /\ o # "failed"
      BY <1>9, <2>1 DEF BodyDoes
    <2>2. CASE ~(Now(w) = "verify" /\ o # "failed")
      <3>1. Past(w, "verify")
        BY <1>5, <1>17, <2>2 DEF Phase
      <3>2. mem[w].vfailed \/ mem[w].mode = "http" \/ cert[r] = spec[w]
        BY <1>3, <1>4, <3>1 DEF Achieved
      <3> QED BY <1>9, <1>11, <2>2, <3>1, <3>2 DEF BodyDoes
    <2> QED BY <2>1, <2>2
  <1>18. ckpt'[r].phases[Now(w)'] = "running"
    BY <1>3 DEF Achieved, rowVars, Now
  <1>19. Achieved(w)'
    BY <1>1, <1>4, <1>12, <1>13, <1>14, <1>15, <1>16, <1>17, <1>18 DEF Achieved
  <1> QED BY <1>1, <1>2, <1>8, <1>10, <1>19, OneRun

\* A checkpoint merged with what a phase returns and its open items.
ItemsFit(x, h, c, u, S) ==
    /\ FitsUpdate(x) /\ DOMAIN x = DOMAIN u \cup {"items"} /\ h.items = S
    /\ h.mode = (IF "mode" \in DOMAIN u THEN u.mode ELSE c.mode)
    /\ h.vfailed = (IF "vfailed" \in DOMAIN u THEN u.vfailed ELSE c.vfailed)
    /\ h.droplet = (IF "droplet" \in DOMAIN u THEN u.droplet ELSE c.droplet)
    /\ h.instance = (IF "instance" \in DOMAIN u THEN u.instance ELSE c.instance)

LEMMA ItemsMerged ==
    ASSUME NEW c \in Checkpoint, NEW u, FitsUpdate(u), "items" \notin DOMAIN u,
           NEW S \in SUBSET Item
    PROVE  ItemsFit(WithItems(u, S), Merged(c, WithItems(u, S)), c, u, S)
  <1> DEFINE x == WithItems(u, S)
             h == Merged(c, x)
  <1>1. FitsUpdate(x)
    BY FitsItems
  <1>2. /\ DOMAIN x = DOMAIN u \cup {"items"} /\ x.items = S
        /\ "mode" \in DOMAIN u => x.mode = u.mode
        /\ "vfailed" \in DOMAIN u => x.vfailed = u.vfailed
        /\ "droplet" \in DOMAIN u => x.droplet = u.droplet
        /\ "instance" \in DOMAIN u => x.instance = u.instance
    BY DEF WithItems
  <1> HIDE DEF x
  <1>3. MergedInto(h, c, x)
    BY <1>1, MergedFields
  <1> HIDE DEF h
  <1>4. /\ h.items = S
        /\ h.mode = (IF "mode" \in DOMAIN u THEN u.mode ELSE c.mode)
        /\ h.vfailed = (IF "vfailed" \in DOMAIN u THEN u.vfailed ELSE c.vfailed)
        /\ h.droplet = (IF "droplet" \in DOMAIN u THEN u.droplet ELSE c.droplet)
        /\ h.instance = (IF "instance" \in DOMAIN u THEN u.instance ELSE c.instance)
    BY <1>2, <1>3 DEF MergedInto
  <1> QED BY <1>1, <1>2, <1>4 DEF x, h, ItemsFit

LEMMA ClosesOnly == \A p \in Phase \ {"certificate"} : "certificate" \notin Closes[p]
  BY DEF Closes, Phase

\* Where a phase leaves the world alone, or its own server and instance.
SameWorld == UNCHANGED <<servers, registered, site, cert, instUrl, instItems>>

\* A phase that ends cleanly, or leaves an item open, or fails.
LEMMA CleanBuild ==
    ASSUME Facts, BuildOrder, Trusted, NEW w \in Worker, wpc[w] \in {"act", "create"},
           NEW r \in Run, wrun[w] = r,
           UNCHANGED <<rowVars, wrun, beating, at, spec, mem, read, end, counters>>,
           BodyWorld(w, r),
           NEW u, FitsUpdate(u), "items" \notin DOMAIN u,
           \/ Clean(w, u)
           \/ \E i \in Item : Opens(w, u, i) /\ (Now(w) = "certificate" => i = "certificate"),
           servers'[r] = servers[r] \/ (servers[r] = 0 /\ servers'[r] = 1),
           "droplet" \in DOMAIN u => servers'[r] = 1,
           registered[r] > 0 \/ "instance" \in DOMAIN u => registered'[r] > 0,
           site'[r] = site[r] \/ (Now(w) = "install_espocrm" /\ site'[r] = spec[w]),
           cert'[r] = cert[r] \/ Now(w) \in {"install_espocrm", "certificate"},
           "mode" \in DOMAIN u => Now(w) = "install_espocrm"
               \/ (Now(w) = "certificate" /\ u.mode = "letsencrypt"),
           "vfailed" \in DOMAIN u => Now(w) = "verify",
           Now(w) = "create_droplet" => mem[w].droplet \/ "droplet" \in DOMAIN u,
           Now(w) = "create_instance" => mem[w].instance \/ "instance" \in DOMAIN u,
           Now(w) = "install_espocrm" => site'[r] = spec[w],
           Now(w) = "certificate" =>
               ~Clean(w, u) \/ "mode" \in DOMAIN u \/ mem[w].mode = "letsencrypt",
           Now(w) = "verify" =>
               "vfailed" \in DOMAIN u /\ (u.vfailed \/ mem[w].mode = "http" \/ cert'[r] = spec[w])
    PROVE  BuildInv'
  <1> USE ShapeParts DEF Facts
  <1>0. mem[w] \in Checkpoint /\ Now(w) \in Phase
    BY PhaseNow DEF WorkerShape
  <1>1. "droplet" \in DOMAIN u => u.droplet = TRUE
    BY DEF FitsUpdate
  <1>2. "instance" \in DOMAIN u => u.instance = TRUE
    BY DEF FitsUpdate
  <1>3. ASSUME NEW S \in SUBSET Item, NEW o \in {"done", "needs_action"},
               Returns(w, WithItems(u, S), o),
               "certificate" \in mem[w].items => "certificate" \in S \/ Now(w) = "certificate",
               Now(w) = "certificate" => "certificate" \in S \/ "mode" \in DOMAIN u
                                         \/ mem[w].mode = "letsencrypt"
        PROVE  BuildInv'
    <2> DEFINE x == WithItems(u, S)
               h == Merged(mem[w], x)
    <2>1. ItemsFit(x, h, mem[w], u, S)
      BY <1>0, ItemsMerged
    <2>2. Returns(w, x, o) /\ o \in Outcomes /\ o # "failed"
      BY <1>3 DEF Outcomes
    <2> HIDE DEF x, h
    <2>3. BodyDoes(w, r, x, o, h)
      BY <1>1, <1>2, <1>3, <2>1, <2>2 DEF BodyDoes, ItemsFit
    <2>4. BodyDoes(w, r, x, o, Merged(mem[w], x))
      BY <2>3 DEF h
    <2> QED BY <2>1, <2>2, <2>4, BodyBuild DEF ItemsFit
  <1>4. CASE Clean(w, u)
    <2> DEFINE S == mem[w].items \ Closes[Now(w)]
    <2>1. S \in SUBSET Item
      BY <1>0 DEF Checkpoint
    <2>2. Returns(w, WithItems(u, S), "done")
      BY <1>4 DEF Clean
    <2>3. "certificate" \in mem[w].items => "certificate" \in S \/ Now(w) = "certificate"
      BY <1>0, ClosesOnly
    <2> HIDE DEF S
    <2> QED BY <1>3, <1>4, <2>1, <2>2, <2>3
  <1>5. ASSUME NEW i \in Item, Opens(w, u, i), Now(w) = "certificate" => i = "certificate"
        PROVE  BuildInv'
    <2> DEFINE S == mem[w].items \cup {i}
    <2>1. S \in SUBSET Item
      BY <1>0 DEF Checkpoint
    <2>2. Returns(w, WithItems(u, S), "needs_action")
      BY <1>5 DEF Opens
    <2>3. /\ "certificate" \in mem[w].items => "certificate" \in S
          /\ Now(w) = "certificate" => "certificate" \in S
      BY <1>5
    <2> HIDE DEF S
    <2> QED BY <1>3, <2>1, <2>2, <2>3
  <1> QED BY <1>4, <1>5

LEMMA FailBuild ==
    ASSUME Facts, BuildOrder, Trusted, NEW w \in Worker, wpc[w] \in {"act", "create"},
           NEW r \in Run, wrun[w] = r,
           UNCHANGED <<rowVars, wrun, beating, at, spec, mem, read, end, counters>>,
           SameWorld, Fails(w)
    PROVE  BuildInv'
  <1> USE ShapeParts DEF Facts
  <1>1. mem[w] \in Checkpoint
    BY DEF WorkerShape
  <1> DEFINE h == Merged(mem[w], Nothing)
  <1>2. MergedInto(h, mem[w], Nothing)
    BY <1>1, FitsNothing, MergedFields
  <1> HIDE DEF h
  <1>3. BodyDoes(w, r, Nothing, "failed", h)
    BY <1>2 DEF BodyDoes, MergedInto, Nothing, SameWorld
  <1>4. BodyDoes(w, r, Nothing, "failed", Merged(mem[w], Nothing))
    BY <1>3 DEF h
  <1>5. BodyWorld(w, r)
    BY DEF BodyWorld, SameWorld
  <1> QED BY <1>4, <1>5, FitsNothing, BodyBuild DEF Fails, Outcomes

\* Where the phases are safe to end: what CleanBuild asks of a phase that
\* returns u, with the world as it leaves it.
PhaseFits(w, r, u) ==
    /\ BodyWorld(w, r) /\ FitsUpdate(u) /\ "items" \notin DOMAIN u
    /\ servers'[r] = servers[r] \/ (servers[r] = 0 /\ servers'[r] = 1)
    /\ "droplet" \in DOMAIN u => servers'[r] = 1
    /\ registered[r] > 0 \/ "instance" \in DOMAIN u => registered'[r] > 0
    /\ site'[r] = site[r] \/ (Now(w) = "install_espocrm" /\ site'[r] = spec[w])
    /\ cert'[r] = cert[r] \/ Now(w) \in {"install_espocrm", "certificate"}
    /\ "mode" \in DOMAIN u => Now(w) = "install_espocrm"
           \/ (Now(w) = "certificate" /\ u.mode = "letsencrypt")
    /\ "vfailed" \in DOMAIN u => Now(w) = "verify"
    /\ Now(w) = "create_droplet" => mem[w].droplet \/ "droplet" \in DOMAIN u
    /\ Now(w) = "create_instance" => mem[w].instance \/ "instance" \in DOMAIN u
    /\ Now(w) = "install_espocrm" => site'[r] = spec[w]
    /\ Now(w) = "certificate" =>
           ~Clean(w, u) \/ "mode" \in DOMAIN u \/ mem[w].mode = "letsencrypt"
    /\ Now(w) = "verify" =>
           "vfailed" \in DOMAIN u /\ (u.vfailed \/ mem[w].mode = "http" \/ cert'[r] = spec[w])

\* How a phase returns u: cleanly, or with an item open.
PhaseEnds(w, u) ==
    \/ Clean(w, u)
    \/ \E i \in Item : Opens(w, u, i) /\ (Now(w) = "certificate" => i = "certificate")

LEMMA EndsBuild ==
    ASSUME Facts, BuildOrder, Trusted, NEW w \in Worker, wpc[w] \in {"act", "create"},
           NEW r \in Run, wrun[w] = r,
           UNCHANGED <<rowVars, wrun, beating, at, spec, mem, read, end, counters>>,
           NEW u, PhaseFits(w, r, u), PhaseEnds(w, u)
    PROVE  BuildInv'
  BY CleanBuild DEF PhaseFits, PhaseEnds

\* An outcome with an item open is not a clean one.
LEMMA OpensOnly ==
    ASSUME WorkerShape, NEW w \in Worker, NEW u, NEW i, Opens(w, u, i)
    PROVE  ~Clean(w, u)
  BY DEF Opens, Clean, Returns, WorkerShape

\* The phases, one by one.
LEMMA PhaseBuild ==
    ASSUME Facts, BuildOrder, NEW w \in Worker, PhaseBody(w) PROVE BuildInv'
  <1> USE ShapeParts DEF Facts
  <1>1. /\ wpc[w] \in {"act", "create"}
        /\ UNCHANGED <<rowVars, wrun, beating, at, spec, mem, read, end, counters>>
    BY BodyReturns
  <1>2. Trusted' => Trusted
    BY <1>1 DEF Trusted, counters
  <1>3. SUFFICES ASSUME Trusted PROVE BuildInv'
    BY <1>2 DEF BuildInv
  <1>4. PICK r \in Run : wrun[w] = r
    BY <1>1, PhaseNow
  <1>5. /\ mem[w] \in Checkpoint /\ spec[w] \in Address \cup {NoAddress} /\ Now(w) \in Phase
        /\ out \in [Worker -> PhaseStatus] /\ upd = [v \in Worker |-> upd[v]]
        /\ wpc \in [Worker -> PC]
    BY <1>1, PhaseNow DEF WorkerShape, PC
  <1>6. servers \in [Run -> Nat] /\ registered \in [Run -> Nat]
    BY DEF WorldShape
  <1>7. /\ site \in [Run -> Address \cup {NoAddress}] /\ cert \in [Run -> Address \cup {NoAddress}]
        /\ instUrl \in [Run -> Address \cup {NoAddress}]
    BY DEF WorldShape
  <1>8. instItems \in [Run -> SUBSET Item]
    BY DEF WorldShape
  <1>9. RowTrue(r) /\ CopiesAgree(w) /\ Achieved(w)
    BY <1>1, <1>3, <1>4 DEF BuildInv, AtWork
  <1>10. servers[r] <= 1 /\ (mem[w].droplet => servers[r] = 1)
         /\ (mem[w].instance => registered[r] > 0)
    BY <1>1, <1>4, <1>9 DEF RowTrue, Achieved, Has
  <1>11. ASSUME NEW u, PhaseFits(w, r, u), PhaseEnds(w, u) PROVE BuildInv'
    BY <1>1, <1>3, <1>4, <1>11, EndsBuild
  <1>12. ASSUME SameWorld, Fails(w) PROVE BuildInv'
    BY <1>1, <1>3, <1>4, <1>12, FailBuild
  <1>13. CASE PhaseFails(w)
    BY <1>12, <1>13 DEF PhaseFails, SameWorld, serverVars, instanceVars
  <1>14. ASSUME UNCHANGED <<serverVars, instanceVars>>
         PROVE  SameWorld /\ BodyWorld(w, r)
    BY <1>14 DEF SameWorld, BodyWorld, serverVars, instanceVars
  <1>15. CASE PlainPhase(w)
    <2>1. PhaseEnds(w, Nothing)
      BY <1>15 DEF PlainPhase, PhaseEnds
    <2>2. PhaseFits(w, r, Nothing)
      BY <1>14, <1>15, FitsNothing DEF PlainPhase, Acts, PhaseFits, SameWorld, Nothing
    <2> QED BY <1>11, <2>1, <2>2
  <1>16. CASE CreateDroplet(w)
    <2>1. CASE mem[w].droplet
      <3>1. PhaseEnds(w, Nothing)
        BY <1>16, <2>1 DEF CreateDroplet, PhaseEnds
      <3>2. PhaseFits(w, r, Nothing)
        BY <1>14, <1>16, <2>1, FitsNothing
           DEF CreateDroplet, Acts, PhaseFits, SameWorld, Nothing
      <3> QED BY <1>11, <3>1, <3>2
    <2>2. CASE ~mem[w].droplet /\ servers[wrun[w]] > 0
      <3>1. PhaseEnds(w, [droplet |-> TRUE])
        BY <1>16, <2>2 DEF CreateDroplet, PhaseEnds
      <3>2. servers[r] = 1
        BY <1>4, <1>6, <1>10, <2>2
      <3>3. PhaseFits(w, r, [droplet |-> TRUE])
        BY <1>14, <1>16, <3>2, FitsOne DEF CreateDroplet, Acts, PhaseFits, SameWorld
      <3> QED BY <1>11, <3>1, <3>3
    <2>3. CASE ~mem[w].droplet /\ ~(servers[wrun[w]] > 0)
      <3>1. /\ wpc[w] = "act" /\ wpc' = [wpc EXCEPT ![w] = "create"]
            /\ UNCHANGED <<upd, out, serverVars, instanceVars>>
        BY <1>16, <2>3 DEF CreateDroplet, Acts, Goes
      <3>2. servers[r] = 0 /\ servers' = servers
        BY <1>4, <1>6, <2>3, <3>1 DEF serverVars
      <3>3. \A q \in Run \ {r} : RowSame(q) /\ status'[q] = status[q]
        BY <1>1, <1>14, <3>1 DEF RowSame, SameBut, rowVars, SameWorld
      <3>4. \A v \in Worker \ {w} : WorkerSame(v)
        BY <1>1, <1>5, <3>1 DEF WorkerSame
      <3>5. RowTrue(r)'
        BY <1>1, <1>9, <1>14, <3>1 DEF RowTrue, Told, Built, rowVars, SameWorld
      <3>6. CopiesAgree(w)'
        BY <1>1, <1>9 DEF CopiesAgree, rowVars
      <3>7. wpc'[w] = "create" /\ Has(w)' = Has(w) /\ \A p \in Phase : Past(w, p)' => Past(w, p)
        BY <1>1, <1>5, <3>1 DEF Has, Past
      <3>8. Achieved(w)'
        BY <1>1, <1>4, <1>9, <1>14, <3>1, <3>2, <3>7
           DEF Achieved, Now, rowVars, SameWorld, Phase
      <3> QED BY <1>1, <1>3, <1>4, <3>3, <3>4, <3>5, <3>6, <3>8, OneRun
    <2> QED BY <2>1, <2>2, <2>3
  <1>17. CASE CreateServer(w)
    <2>1. PhaseEnds(w, [droplet |-> TRUE])
      BY <1>17 DEF CreateServer, PhaseEnds
    <2>2. /\ wpc[w] = "create" /\ servers' = [servers EXCEPT ![r] = @ + 1]
          /\ UNCHANGED <<site, cert, registered, instUrl, instItems>>
      BY <1>4, <1>17 DEF CreateServer, instanceVars
    <2>3. servers[r] = 0 /\ servers'[r] = 1 /\ \A q \in Run \ {r} : servers'[q] = servers[q]
      BY <1>4, <1>6, <1>9, <2>2 DEF Achieved
    <2>4. Now(w) = "create_droplet"
      BY <2>2 DEF WorkerShape, InPhase
    <2>5. BodyWorld(w, r)
      BY <2>2, <2>3 DEF BodyWorld
    <2>6. PhaseFits(w, r, [droplet |-> TRUE])
      BY <2>2, <2>3, <2>4, <2>5, FitsOne DEF PhaseFits
    <2> QED BY <1>11, <2>1, <2>6
  <1>18. CASE CreateDns(w)
    <2>1. PhaseEnds(w, Nothing)
      BY <1>18 DEF CreateDns, Acts, PhaseEnds, Item
    <2>2. PhaseFits(w, r, Nothing)
      BY <1>14, <1>18, FitsNothing DEF CreateDns, Acts, PhaseFits, SameWorld, Nothing
    <2> QED BY <1>11, <2>1, <2>2
  <1>19. CASE Install(w)
    <2>1. Now(w) = "install_espocrm"
      BY <1>19 DEF Install, Acts
    <2>2. CASE ChangeAddress(w)
      <3>1. PhaseEnds(w, [installed |-> spec[w]])
        BY <2>2 DEF ChangeAddress, PhaseEnds
      <3>2. /\ site' = [site EXCEPT ![r] = spec[w]]
            /\ UNCHANGED <<servers, cert, registered, instUrl, instItems>>
        BY <1>4, <2>2 DEF ChangeAddress, instanceVars
      <3>3. site'[r] = spec[w] /\ BodyWorld(w, r)
        BY <1>7, <3>2 DEF BodyWorld
      <3>4. PhaseFits(w, r, [installed |-> spec[w]])
        BY <1>5, <2>1, <3>2, <3>3, FitsOne DEF PhaseFits
      <3> QED BY <1>11, <3>1, <3>4
    <2>3. CASE InstallClean(w)
      <3>1. PICK secure \in BOOLEAN :
              /\ cert' = [cert EXCEPT ![r] = IF secure THEN spec[w] ELSE NoAddress]
              /\ Clean(w, [installed |-> spec[w],
                           mode |-> IF secure THEN "letsencrypt" ELSE "http"])
        BY <1>4, <2>3 DEF InstallClean
      <3> DEFINE m == IF secure THEN "letsencrypt" ELSE "http"
      <3>2. m \in {"letsencrypt", "http"} /\ Clean(w, [installed |-> spec[w], mode |-> m])
        BY <3>1
      <3> HIDE DEF m
      <3>3. PhaseEnds(w, [installed |-> spec[w], mode |-> m])
        BY <3>2 DEF PhaseEnds
      <3>4. /\ site' = [site EXCEPT ![r] = spec[w]]
            /\ UNCHANGED <<servers, registered, instUrl, instItems>>
        BY <1>4, <2>3 DEF InstallClean, instanceVars
      <3>5. site'[r] = spec[w] /\ \A q \in Run \ {r} : site'[q] = site[q] /\ cert'[q] = cert[q]
        BY <1>7, <3>1, <3>4
      <3>6. BodyWorld(w, r)
        BY <3>4, <3>5 DEF BodyWorld
      <3>7. PhaseFits(w, r, [installed |-> spec[w], mode |-> m])
        BY <1>5, <2>1, <3>2, <3>4, <3>5, <3>6, FitsOne DEF PhaseFits
      <3> QED BY <1>11, <3>3, <3>7
    <2> QED BY <1>19, <2>2, <2>3 DEF Install
  <1>20. CASE CheckDns(w)
    <2>1. PICK b \in BOOLEAN : PhaseEnds(w, [dnsOk |-> b])
      BY <1>20 DEF CheckDns, Acts, PhaseEnds, Item
    <2>2. PhaseFits(w, r, [dnsOk |-> b])
      BY <1>14, <1>20, FitsOne DEF CheckDns, Acts, PhaseFits, SameWorld
    <2> QED BY <1>11, <2>1, <2>2
  <1>21. CASE Certificate(w)
    <2>1. /\ Now(w) = "certificate" /\ UNCHANGED <<servers, site, registered, instUrl, instItems>>
          /\ \A q \in Run \ {r} : cert'[q] = cert[q]
      BY <1>4, <1>7, <1>21 DEF Certificate, Acts, instanceVars
    <2>2. BodyWorld(w, r)
      BY <2>1 DEF BodyWorld
    <2>3. CASE mem[w].mode = "letsencrypt" /\ Clean(w, Nothing)
      <3>1. PhaseFits(w, r, Nothing)
        BY <2>1, <2>2, <2>3, FitsNothing DEF PhaseFits, Nothing
      <3> QED BY <1>11, <2>3, <3>1 DEF PhaseEnds
    <2>4. CASE Opens(w, Nothing, "certificate")
      <3>1. PhaseFits(w, r, Nothing)
        BY <2>1, <2>2, <2>4, OpensOnly, FitsNothing DEF PhaseFits, Nothing
      <3> QED BY <1>11, <2>4, <3>1 DEF PhaseEnds, Item
    <2>5. CASE Clean(w, [mode |-> "letsencrypt"])
      <3>1. PhaseFits(w, r, [mode |-> "letsencrypt"])
        BY <2>1, <2>2, FitsOne DEF PhaseFits
      <3> QED BY <1>11, <2>5, <3>1 DEF PhaseEnds
    <2> QED BY <1>21, <2>3, <2>4, <2>5 DEF Certificate
  <1>22. CASE Verify(w)
    <2>1. PICK b \in BOOLEAN : /\ Clean(w, [vfailed |-> b])
                               /\ b \/ (mem[w].mode = "letsencrypt" => cert[r] = spec[w])
      BY <1>4, <1>22 DEF Verify
    <2>2. mem[w].mode \in {"letsencrypt", "http"}
      BY <1>5 DEF Checkpoint
    <2>3. PhaseFits(w, r, [vfailed |-> b])
      BY <1>14, <1>22, <2>1, <2>2, FitsOne DEF Verify, Acts, PhaseFits, SameWorld
    <2> QED BY <1>11, <2>1, <2>3 DEF PhaseEnds
  <1>23. CASE CreateInstance(w)
    <2>1. Now(w) = "create_instance" /\ UNCHANGED <<servers, site, cert>>
      BY <1>23 DEF CreateInstance, Acts, serverVars
    <2>2. CASE mem[w].instance /\ Clean(w, Nothing) /\ UNCHANGED instanceVars
      <3>1. SameWorld /\ BodyWorld(w, r)
        BY <2>1, <2>2 DEF SameWorld, BodyWorld, instanceVars
      <3>2. PhaseFits(w, r, Nothing)
        BY <2>1, <2>2, <3>1, FitsNothing DEF PhaseFits, SameWorld, Nothing
      <3> QED BY <1>11, <2>2, <3>2 DEF PhaseEnds
    <2>3. CASE Fails(w) /\ UNCHANGED instanceVars
      BY <1>12, <2>1, <2>3 DEF SameWorld, instanceVars
    <2>4. CASE /\ registered' = [registered EXCEPT ![r] = @ + 1]
               /\ instUrl' = [instUrl EXCEPT ![r] = spec[w]]
               /\ instItems' = [instItems EXCEPT ![r] = mem[w].items]
               /\ Clean(w, [instance |-> TRUE])
      <3>1. registered'[r] > 0 /\ \A q \in Run \ {r} : registered'[q] = registered[q]
        BY <1>6, <2>4
      <3>2. \A q \in Run \ {r} : instUrl'[q] = instUrl[q] /\ instItems'[q] = instItems[q]
        BY <1>7, <1>8, <2>4
      <3>3. BodyWorld(w, r)
        BY <2>1, <3>1, <3>2 DEF BodyWorld
      <3>4. PhaseFits(w, r, [instance |-> TRUE])
        BY <2>1, <3>1, <3>3, FitsOne DEF PhaseFits
      <3> QED BY <1>11, <2>4, <3>4 DEF PhaseEnds
    <2> QED BY <1>4, <1>23, <2>2, <2>3, <2>4 DEF CreateInstance
  <1> QED BY <1>13, <1>15, <1>16, <1>17, <1>18, <1>19, <1>20, <1>21, <1>22, <1>23 DEF PhaseBody

LEMMA BuildNext == Facts /\ BuildOrder /\ [Next]_vars => BuildInv'
  <1> SUFFICES ASSUME Facts, BuildOrder, [Next]_vars PROVE BuildInv'
    OBVIOUS
  <1>1. CASE Request
    BY <1>1, RequestBuild
  <1>5. ASSUME NEW c \in Client, Cancel(c) \/ Requeue(c) PROVE BuildInv'
    BY <1>5, CancelBuild, RequeueBuild
  <1>2. CASE \E r \in Run : Lapse(r)
    BY <1>2, QuietBuild
  <1>3. CASE UNCHANGED vars
    BY <1>3, QuietBuild
  <1>4. ASSUME NEW w \in Worker,
               Poll(w) \/ RunDeploy(w) \/ Heartbeat(w) \/ AppendLog(w) \/ Drop(w)
        PROVE  BuildInv'
    <2>1. CASE Poll(w)
      BY <2>1, ClaimBuild DEF Poll
    <2>2. CASE Heartbeat(w) \/ AppendLog(w) \/ ReadRow(w)
      BY <2>2, QuietBuild
    <2>3. CASE Drop(w) \/ Finish(w)
      BY <2>3, OverBuild
    <2>4. CASE Start(w)
      BY <2>4, StartBuild
    <2>5. CASE Check(w)
      BY <2>5, CheckBuild
    <2>6. CASE Mark(w)
      BY <2>6, MarkBuild
    <2>7. CASE PhaseBody(w)
      BY <2>7, PhaseBuild
    <2>8. CASE Save(w)
      BY <2>8, SaveBuild
    <2>9. CASE Sync(w)
      BY <2>9, SyncBuild
    <2> QED BY <1>4, <2>1, <2>2, <2>3, <2>4, <2>5, <2>6, <2>7, <2>8, <2>9 DEF RunDeploy
  <1> QED BY <1>1, <1>2, <1>3, <1>4, <1>5 DEF Next, RequestEnds

\* The order in the code is one for which the theorems below hold.
THEOREM CodeOrderBuilds == PhaseOrder = DeployRunPhaseOrder => BuildOrder
  <1> SUFFICES ASSUME PhaseOrder = DeployRunPhaseOrder PROVE BuildOrder
    OBVIOUS
  <1>1. Len(PhaseOrder) = 11
    BY DEF DeployRunPhaseOrder
  <1>2. /\ PhaseOrder[1] = "validate" /\ PhaseOrder[2] = "create_droplet"
        /\ PhaseOrder[3] = "wait_droplet" /\ PhaseOrder[4] = "create_dns"
        /\ PhaseOrder[5] = "server_prep" /\ PhaseOrder[6] = "install_espocrm"
        /\ PhaseOrder[7] = "post_install" /\ PhaseOrder[8] = "check_dns"
        /\ PhaseOrder[9] = "certificate" /\ PhaseOrder[10] = "verify"
        /\ PhaseOrder[11] = "create_instance"
    BY DEF DeployRunPhaseOrder
  <1>3. \A i \in 1..Len(PhaseOrder) :
          /\ PhaseOrder[i] = "install_espocrm" => i = 6
          /\ PhaseOrder[i] = "certificate" => i = 9
          /\ PhaseOrder[i] = "verify" => i = 10
    BY <1>1, <1>2
  <1>4. Before("install_espocrm", "certificate") /\ Before("certificate", "verify")
    BY <1>3 DEF Before
  <1>5. \A p \in {"create_droplet", "install_espocrm", "certificate", "verify",
                  "create_instance"} : Includes(p)
    BY <1>1, <1>2 DEF Includes
  <1> QED BY <1>4, <1>5 DEF BuildOrder

\* BuildInv holds throughout: together with the types and the claims it is
\* inductive.
THEOREM BuildInvariance ==
    ASSUME BuildOrder PROVE Spec => []BuildInv
  <1>1. Init => DeployShape /\ HolderInv /\ BuildInv
    BY InitShape, HolderInit, InitBuild
  <1>2. DeployShape /\ HolderInv /\ BuildInv /\ [Next]_vars
        => (DeployShape /\ HolderInv /\ BuildInv)'
    BY NextShape, HolderNext, BuildNext DEF Facts
  <1> QED BY <1>1, <1>2, PTL DEF Spec

\* A run that lands "succeeded" is built at the address its row has: one server,
\* the CRM installed for the address, its certificate, a registered instance;
\* up to a lapse or a commit that overwrites.
THEOREM SucceededBuilds ==
    ASSUME BuildOrder PROVE Spec => []SucceededIsBuilt
  <1>1. BuildInv => SucceededIsBuilt
    BY DEF BuildInv, RowTrue, Built, SucceededIsBuilt
  <1> QED BY <1>1, BuildInvariance, PTL DEF Spec

\* A run that lands with everything tried shows its open items on its instance,
\* and needs action exactly if there are some; up to a lapse or a commit that
\* overwrites.
THEOREM OpenItemsShown ==
    ASSUME BuildOrder PROVE Spec => []OpenItemsTold
  <1>1. BuildInv => OpenItemsTold
    BY DEF BuildInv, RowTrue, Told, OpenItemsTold
  <1> QED BY <1>1, BuildInvariance, PTL DEF Spec
=============================================================================
