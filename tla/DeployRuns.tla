----------------------------- MODULE DeployRuns -----------------------------
(***************************************************************************)
(* Deploy runs: the table (segments/operate/repositories/deploy_runs.py),  *)
(* the workers that claim its rows (deploy/worker.py) and the phases they  *)
(* drive (deploy/runner.py).  Requests create, cancel and retry runs;      *)
(* workers claim them, beat, work through the phases and land them; a      *)
(* worker may die anywhere, and the next one resumes from the checkpoint.  *)
(*                                                                         *)
(* One action is one database transaction or one remote operation.  The    *)
(* claim is one conditional UPDATE, so two of them never both succeed.  A  *)
(* cancel, a retry and the save of a checkpoint read the row and write it  *)
(* back in a later commit, and nothing locks it in between; the heartbeat, *)
(* the log and finish write no more than a time or a status, whatever they *)
(* read, and are one step.  Time is left out: a heartbeat is fresh or      *)
(* stale.  DNS is in other people's hands: each diagnosis is a choice.     *)
(* Both kinds of open item (needs_action, waiting) are one here, as the    *)
(* run and a retry treat them alike.                                       *)
(***************************************************************************)
EXTENDS Naturals, Sequences

CONSTANTS
    Run,          \* row ids of deploy runs
    Worker,       \* workers: the API's own thread, standalone processes
    Client,       \* connections of operators' requests
    Address,      \* web addresses
    NoRun, NoWorker, NoAddress,
    NotOpen,      \* no transaction is open
    PhaseOrder,   \* the phases, in order
    Attached,     \* the run builds a deployment, which holds one instance
    MaxRequests,  \* bound: requests to cancel or to retry
    MaxCrashes,   \* bound: workers that die or let a run drop
    MaxLapses,    \* bound: heartbeats that a live worker fails to renew
    Overwriting   \* bound: whether a row may change under an open transaction

Phase == {"validate", "create_droplet", "wait_droplet", "create_dns",
          "server_prep", "install_espocrm", "post_install", "check_dns",
          "certificate", "verify", "create_instance"}

\* DEPLOY_RUN_PHASE_ORDER: PhaseOrder as the code has it.
DeployRunPhaseOrder ==
    <<"validate", "create_droplet", "wait_droplet", "create_dns", "server_prep",
      "install_espocrm", "post_install", "check_dns", "certificate", "verify",
      "create_instance">>

ASSUME DeployAssumption ==
    /\ Run \subseteq Nat /\ NoRun \notin Run
    /\ NoWorker \notin Worker /\ NoAddress \notin Address
    /\ PhaseOrder \in Seq(Phase)
    /\ Attached \in BOOLEAN
    /\ MaxRequests \in Nat /\ MaxCrashes \in Nat /\ MaxLapses \in Nat
    /\ Overwriting \in BOOLEAN

VARIABLES
    \* the row
    status, holder, beat, domain, ckpt,
    asked,      \* address a create request found free, before it inserts
    req,        \* [Client -> the open request, with the row as it read it]
    \* the worker
    wrun, wpc,
    at,         \* position in PhaseOrder
    spec,       \* address it read when it started
    mem,        \* run.state, its copy of the checkpoint
    read,       \* the checkpoint its open set_phase has read
    upd, out,   \* what the phase returned, and its outcome
    end,        \* status it will land
    beating,    \* its heartbeat thread is alive
    \* the world
    servers,    \* servers tagged with the run
    site,       \* address the CRM on the server is installed for
    cert,       \* address its certificate is for
    wiped,      \* the installer ran over a CRM the checkpoint records
    registered, \* instances registered by the run
    instUrl, instItems,
    requests, crashes, lapses,
    overwritten \* history: a commit has overwritten what another had committed

rowVars == <<status, holder, beat, domain, ckpt, asked, req>>
memVars == <<at, spec, mem, read, upd, out, end>>
workerVars == <<wrun, wpc, beating, memVars>>
serverVars == <<servers, site, cert, wiped>>
instanceVars == <<registered, instUrl, instItems>>
counters == <<requests, crashes, lapses, overwritten>>
vars == <<rowVars, workerVars, serverVars, instanceVars, counters>>

Terminal == {"succeeded", "succeeded_with_issues", "needs_action", "failed",
             "cancelled"}
Retryable == {"failed", "cancelled", "needs_action"}

\* Phases whose "done" is honoured on resume.
Kept == {"create_droplet", "server_prep", "install_espocrm", "post_install",
         "create_instance"}

\* Phases that depend on the address.
AddressSteps == {"create_dns", "check_dns", "certificate", "verify"}

PhaseStatus == {"none", "running", "done", "failed", "needs_action", "retry"}
Item == {"dns", "certificate"}

Checkpoint == [phases : [Phase -> PhaseStatus], cancel : BOOLEAN,
               droplet : BOOLEAN, installed : Address \cup {NoAddress},
               mode : {"letsencrypt", "http"}, dnsOk : BOOLEAN,
               items : SUBSET Item, vfailed : BOOLEAN, instance : BOOLEAN]

\* install_mode is read with "letsencrypt" as its default.
Blank == [phases |-> [p \in Phase |-> "none"], cancel |-> FALSE,
          droplet |-> FALSE, installed |-> NoAddress, mode |-> "letsencrypt",
          dnsOk |-> FALSE, items |-> {}, vfailed |-> FALSE, instance |-> FALSE]

\* An update names the fields a phase returns; merged, the others stay.
Nothing == [f \in {} |-> f]
WithItems(u, items) ==
    [f \in DOMAIN u \cup {"items"} |-> IF f = "items" THEN items ELSE u[f]]
Merged(c, u) == [f \in DOMAIN c |-> IF f \in DOMAIN u THEN u[f] ELSE c[f]]

\* What a request that has read the row will write from.
Requests == [kind : {"cancel", "retry"}, run : Run, address : Address \cup {NoAddress},
             status : {"queued", "running"} \cup Retryable,
             domain : Address \cup {NoAddress}, ckpt : Checkpoint]

\* Types; of what a phase returns (upd) only Save looks.
DeployTypeOK ==
    /\ status \in [Run -> {"absent", "queued", "running"} \cup Terminal]
    /\ holder \in [Run -> Worker \cup {NoWorker}]
    /\ beat \in [Run -> {"none", "fresh", "stale"}]
    /\ domain \in [Run -> Address \cup {NoAddress}]
    /\ asked \in [Run -> Address \cup {NoAddress}]
    /\ ckpt \in [Run -> Checkpoint]
    /\ req \in [Client -> Requests \cup {NotOpen}]
    /\ wrun \in [Worker -> Run \cup {NoRun}]
    /\ wpc \in [Worker -> {"idle", "start", "check", "mark", "act", "create",
                           "save", "sync", "finish"}]
    /\ at \in [Worker -> 1..Len(PhaseOrder) + 1]
    /\ spec \in [Worker -> Address \cup {NoAddress}]
    /\ mem \in [Worker -> Checkpoint] /\ read \in [Worker -> Checkpoint \cup {NotOpen}]
    /\ out \in [Worker -> PhaseStatus]
    /\ end \in [Worker -> Terminal]
    /\ beating \in [Worker -> BOOLEAN]
    /\ servers \in [Run -> Nat] /\ registered \in [Run -> Nat]
    /\ site \in [Run -> Address \cup {NoAddress}]
    /\ cert \in [Run -> Address \cup {NoAddress}]
    /\ instUrl \in [Run -> Address \cup {NoAddress}]
    /\ instItems \in [Run -> SUBSET Item]
    /\ wiped \in [Run -> BOOLEAN]
    /\ requests \in 0..MaxRequests /\ crashes \in 0..MaxCrashes
    /\ lapses \in 0..MaxLapses /\ overwritten \in BOOLEAN

Init ==
    /\ status = [r \in Run |-> "absent"]
    /\ holder = [r \in Run |-> NoWorker] /\ beat = [r \in Run |-> "none"]
    /\ domain = [r \in Run |-> NoAddress] /\ asked = domain
    /\ ckpt = [r \in Run |-> Blank] /\ req = [c \in Client |-> NotOpen]
    /\ wrun = [w \in Worker |-> NoRun] /\ wpc = [w \in Worker |-> "idle"]
    /\ at = [w \in Worker |-> 1] /\ spec = [w \in Worker |-> NoAddress]
    /\ mem = [w \in Worker |-> Blank] /\ read = [w \in Worker |-> NotOpen]
    /\ upd = [w \in Worker |-> Nothing]
    /\ out = [w \in Worker |-> "none"] /\ end = [w \in Worker |-> "failed"]
    /\ beating = [w \in Worker |-> FALSE]
    /\ servers = [r \in Run |-> 0] /\ site = domain /\ cert = domain
    /\ wiped = [r \in Run |-> FALSE]
    /\ registered = servers /\ instUrl = domain
    /\ instItems = [r \in Run |-> {}]
    /\ requests = 0 /\ crashes = 0 /\ lapses = 0 /\ overwritten = FALSE

Active(r) == status[r] \in {"queued", "running"}
ActiveFor(d) == {r \in Run : Active(r) /\ domain[r] = d}
WorksOn(w, r) == wpc[w] # "idle" /\ wrun[w] = r

\* A commit writes what it computed from its read, whatever was committed
\* since.
Overwrites(changed) == overwritten' = (overwritten \/ changed)

\* The bound: with Overwriting, any row may change at any time.
MayChange(r, by) == Overwriting \/
    /\ \A c \in Client \ {by} : req[c] # NotOpen => req[c].run # r
    /\ \A w \in Worker \ {by} : read[w] # NotOpen => wrun[w] # r
-----------------------------------------------------------------------------
\* Requests of the operator.

\* POST /deploy-runs reads in one transaction and inserts in another.
AskCreate(r, d) ==
    /\ status[r] = "absent" /\ asked[r] = NoAddress
    /\ ActiveFor(d) = {}
    /\ asked' = [asked EXCEPT ![r] = d]
    /\ UNCHANGED <<status, holder, beat, domain, ckpt, req, workerVars, serverVars,
                   instanceVars, counters>>

Create(r) ==
    /\ status[r] = "absent" /\ asked[r] # NoAddress
    /\ status' = [status EXCEPT ![r] = "queued"]
    /\ domain' = [domain EXCEPT ![r] = asked[r]]
    /\ UNCHANGED <<holder, beat, ckpt, asked, req, workerVars, serverVars,
                   instanceVars, counters>>

Reads(kind, r, d) ==
    [kind |-> kind, run |-> r, address |-> d, status |-> status[r],
     domain |-> domain[r], ckpt |-> ckpt[r]]
Asks(c, q) == req[c] = NotOpen /\ req' = [req EXCEPT ![c] = q]
Commits(c, kind) ==
    /\ req[c] # NotOpen /\ req[c].kind = kind
    /\ req' = [req EXCEPT ![c] = NotOpen]

\* request_cancel: at once while queued, else a flag in the checkpoint, of
\* which a second one changes nothing.
AskCancel(c, r) ==
    /\ status[r] = "queued" \/ (status[r] = "running" /\ ~ckpt[r].cancel)
    /\ requests < MaxRequests /\ requests' = requests + 1
    /\ Asks(c, Reads("cancel", r, domain[r]))
    /\ UNCHANGED <<status, holder, beat, domain, ckpt, asked, workerVars,
                   serverVars, instanceVars, crashes, lapses, overwritten>>

Cancel(c) ==
    LET q == req[c] IN
    /\ Commits(c, "cancel") /\ MayChange(q.run, c)
    /\ \/ /\ q.status = "queued" /\ Overwrites(status[q.run] # "queued")
          /\ status' = [status EXCEPT ![q.run] = "cancelled"]
          /\ UNCHANGED ckpt
       \/ /\ q.status = "running" /\ Overwrites(ckpt[q.run] # q.ckpt)
          /\ ckpt' = [ckpt EXCEPT ![q.run] = [q.ckpt EXCEPT !.cancel = TRUE]]
          /\ UNCHANGED status
    /\ UNCHANGED <<holder, beat, domain, asked, workerVars, serverVars,
                   instanceVars, requests, crashes, lapses>>

\* Mutation of Redone: without the installation when the address is corrected.
RedoneLookups(c, moved) ==
    {p \in Phase :
        \/ c.phases[p] \in {"failed", "running", "needs_action"}
        \/ moved /\ p \in AddressSteps /\ c.phases[p] # "none"}

\* The phases a retry has to do again: those that did not finish, and, when it
\* corrects the address, those that depend on it.
Redone(c, moved) ==
    {p \in Phase :
        \/ c.phases[p] \in {"failed", "running", "needs_action"}
        \/ moved /\ p \in AddressSteps /\ c.phases[p] # "none"
        \/ moved /\ p = "install_espocrm" /\ c.phases[p] = "done"}

\* installed_domain is recorded if it was not.
InstalledFor(c, moved, old) ==
    IF moved /\ c.phases["install_espocrm"] = "done" /\ c.installed = NoAddress
    THEN old ELSE c.installed

RetryCheckpoint(c, moved, old) ==
    [c EXCEPT !.cancel = FALSE,
              !.phases = [p \in Phase |-> IF p \in Redone(c, moved)
                                          THEN "retry" ELSE @[p]],
              !.installed = InstalledFor(c, moved, old)]

\* POST /deploy-runs/{id}/retry: the address is looked at only if the request
\* has a body.
AskRetry(c, r, d) ==
    /\ status[r] \in Retryable /\ requests < MaxRequests
    /\ d # domain[r] => ActiveFor(d) = {}
    /\ Asks(c, Reads("retry", r, d))
    /\ requests' = requests + 1
    /\ UNCHANGED <<status, holder, beat, domain, ckpt, asked, workerVars,
                   serverVars, instanceVars, crashes, lapses, overwritten>>

\* requeue.
Requeue(c) ==
    LET q == req[c]
        r == q.run
        moved == q.address # q.domain
    IN
    /\ Commits(c, "retry") /\ MayChange(r, c)
    /\ Overwrites(<<status[r], domain[r], ckpt[r]>> # <<q.status, q.domain, q.ckpt>>)
    /\ status' = [status EXCEPT ![r] = "queued"]
    /\ holder' = [holder EXCEPT ![r] = NoWorker]
    /\ beat' = [beat EXCEPT ![r] = "none"]
    /\ domain' = [domain EXCEPT ![r] = IF moved THEN q.address ELSE @]
    /\ ckpt' = [ckpt EXCEPT ![r] = RetryCheckpoint(q.ckpt, moved, q.domain)]
    /\ UNCHANGED <<asked, workerVars, serverVars, instanceVars, requests, crashes,
                   lapses>>
-----------------------------------------------------------------------------
\* Claims and heartbeats.

\* Mutations of Claimable: whatever the heartbeat says ...
ClaimableRunning(r) == Active(r)

\* ... by the heartbeat alone ...
ClaimableStale(r) == status[r] = "queued" \/ beat[r] = "stale"

\* ... and without reclaiming.
ClaimableQueued(r) == status[r] = "queued"

Claimable(r) ==
    \/ status[r] = "queued"
    \/ status[r] = "running" /\ beat[r] \in {"none", "stale"}

\* claim_next_run: the oldest claimable run, by a conditional UPDATE.
Claim(w, r) ==
    /\ wpc[w] = "idle" /\ MayChange(r, w)
    /\ Claimable(r) /\ \A q \in Run : Claimable(q) => r <= q
    /\ status' = [status EXCEPT ![r] = "running"]
    /\ holder' = [holder EXCEPT ![r] = w]
    /\ beat' = [beat EXCEPT ![r] = "fresh"]
    /\ wrun' = [wrun EXCEPT ![w] = r]
    /\ wpc' = [wpc EXCEPT ![w] = "start"]
    /\ beating' = [beating EXCEPT ![w] = TRUE]
    /\ UNCHANGED <<domain, ckpt, asked, req, memVars, serverVars, instanceVars,
                   counters>>

Holds(w, r) == holder[r] = w /\ status[r] = "running"

\* _heartbeat_loop: it ends when the run is no longer held.
Heartbeat(w) ==
    LET r == wrun[w] IN
    /\ wpc[w] # "idle" /\ beating[w]
    /\ \/ /\ Holds(w, r) /\ beat[r] = "stale"
          /\ beat' = [beat EXCEPT ![r] = "fresh"] /\ UNCHANGED beating
       \/ /\ ~Holds(w, r)
          /\ beating' = [beating EXCEPT ![w] = FALSE] /\ UNCHANGED beat
    /\ UNCHANGED <<status, holder, domain, ckpt, asked, req, wrun, wpc, memVars,
                   serverVars, instanceVars, counters>>

\* Nobody renews the heartbeat of r.
Unattended(r) ==
    \A w \in Worker : ~(WorksOn(w, r) /\ beating[w] /\ holder[r] = w)

\* append_log, whenever the log is flushed: it asks nobody who holds the run.
AppendLog(w) ==
    LET r == wrun[w] IN
    /\ wpc[w] \in {"act", "create"} /\ beat[r] # "fresh"
    /\ beat' = [beat EXCEPT ![r] = "fresh"]
    /\ UNCHANGED <<status, holder, domain, ckpt, asked, req, workerVars, serverVars,
                   instanceVars, counters>>

\* stale_after_seconds pass without a heartbeat; for a run that is attended,
\* because its worker was stopped or could not reach the database.
Lapse(r) ==
    /\ beat[r] = "fresh"
    /\ \/ Unattended(r) /\ UNCHANGED lapses
       \/ ~Unattended(r) /\ lapses < MaxLapses /\ lapses' = lapses + 1
    /\ beat' = [beat EXCEPT ![r] = "stale"]
    /\ UNCHANGED <<status, holder, domain, ckpt, asked, req, workerVars, serverVars,
                   instanceVars, requests, crashes, overwritten>>

\* run_deploy is over: its local variables are gone.
Ends(w) ==
    /\ wpc' = [wpc EXCEPT ![w] = "idle"]
    /\ wrun' = [wrun EXCEPT ![w] = NoRun]
    /\ beating' = [beating EXCEPT ![w] = FALSE]
    /\ at' = [at EXCEPT ![w] = 1]
    /\ spec' = [spec EXCEPT ![w] = NoAddress]
    /\ mem' = [mem EXCEPT ![w] = Blank]
    /\ read' = [read EXCEPT ![w] = NotOpen]
    /\ upd' = [upd EXCEPT ![w] = Nothing]
    /\ out' = [out EXCEPT ![w] = "none"]
    /\ end' = [end EXCEPT ![w] = "failed"]

\* The process dies, or something outside a phase raises: the run is dropped
\* without a terminal status.
Drop(w) ==
    /\ wpc[w] # "idle" /\ crashes < MaxCrashes
    /\ Ends(w)
    /\ crashes' = crashes + 1
    /\ UNCHANGED <<rowVars, serverVars, instanceVars, requests, lapses, overwritten>>
-----------------------------------------------------------------------------
\* run_deploy.

Goes(w, pc) == wpc' = [wpc EXCEPT ![w] = pc]

\* It reads the record.
Start(w) ==
    /\ wpc[w] = "start"
    /\ at' = [at EXCEPT ![w] = 1]
    /\ spec' = [spec EXCEPT ![w] = domain[wrun[w]]]
    /\ mem' = [mem EXCEPT ![w] = ckpt[wrun[w]]]
    /\ Goes(w, "check")
    /\ UNCHANGED <<rowVars, wrun, beating, read, upd, out, end, serverVars,
                   instanceVars, counters>>

Finished(w) == at[w] > Len(PhaseOrder)
Now(w) == PhaseOrder[at[w]]

\* Top of the loop: _check_cancel reads the row, and a phase that is done is
\* skipped by the copy in memory.
Check(w) ==
    /\ wpc[w] = "check"
    /\ \/ /\ Finished(w) /\ Goes(w, "sync") /\ UNCHANGED <<at, end>>
       \/ /\ ~Finished(w) /\ ckpt[wrun[w]].cancel
          /\ end' = [end EXCEPT ![w] = "cancelled"]
          /\ Goes(w, "finish") /\ UNCHANGED at
       \/ /\ ~Finished(w) /\ ~ckpt[wrun[w]].cancel
          /\ UNCHANGED end
          /\ IF Now(w) \in Kept /\ mem[w].phases[Now(w)] = "done"
             THEN at' = [at EXCEPT ![w] = @ + 1] /\ UNCHANGED wpc
             ELSE Goes(w, "mark") /\ UNCHANGED at
    /\ UNCHANGED <<rowVars, wrun, beating, spec, mem, read, upd, out, serverVars,
                   instanceVars, counters>>

\* _mark: set_phase reads the row ...
ReadRow(w) ==
    /\ wpc[w] \in {"mark", "save"} /\ read[w] = NotOpen
    /\ read' = [read EXCEPT ![w] = ckpt[wrun[w]]]
    /\ UNCHANGED <<rowVars, wrun, wpc, beating, at, spec, mem, upd, out, end, serverVars,
                   instanceVars, counters>>

\* ... and writes the whole checkpoint back; the copy is the row again.
Written(w, c) ==
    LET r == wrun[w] IN
    /\ read[w] # NotOpen /\ MayChange(r, w) /\ Overwrites(ckpt[r] # read[w])
    /\ read' = [read EXCEPT ![w] = NotOpen]
    /\ ckpt' = [ckpt EXCEPT ![r] = c]
    /\ mem' = [mem EXCEPT ![w] = c]
    /\ beat' = [beat EXCEPT ![r] = "fresh"]

\* Mutation of Marked: writing back the copy in memory.
MarkedFromMemory(w, u, phaseStatus) ==
    Written(w, [Merged(mem[w], u) EXCEPT !.phases[Now(w)] = phaseStatus])

\* It merges into what it has read.
Marked(w, u, phaseStatus) ==
    Written(w, [Merged(read[w], u) EXCEPT !.phases[Now(w)] = phaseStatus])

Mark(w) ==
    /\ wpc[w] = "mark"
    /\ Marked(w, Nothing, "running")
    /\ Goes(w, "act")
    /\ UNCHANGED <<status, holder, domain, asked, req, wrun, beating, at, spec, upd,
                   out, end, serverVars, instanceVars, requests, crashes, lapses>>

\* What the phase returns, kept in memory until it is saved.
Returns(w, u, outcome) ==
    /\ upd' = [upd EXCEPT ![w] = u]
    /\ out' = [out EXCEPT ![w] = outcome]
    /\ Goes(w, "save")

\* It ends cleanly and closes the open items it may close ...
Closes == [p \in Phase |->
             CASE p \in {"create_dns", "check_dns"} -> {"dns"}
               [] p = "certificate" -> {"certificate"}
               [] OTHER -> {}]

Clean(w, u) ==
    Returns(w, WithItems(u, mem[w].items \ Closes[Now(w)]), "done")

\* ... or leaves one open ...
Opens(w, u, item) ==
    Returns(w, WithItems(u, mem[w].items \cup {item}), "needs_action")

\* ... or fails, and what it built is kept.
Fails(w) == Returns(w, Nothing, "failed")

Acts(w, p) ==
    /\ wpc[w] = "act" /\ Now(w) = p
    /\ UNCHANGED <<rowVars, wrun, beating, at, spec, mem, read, end, counters>>

\* A phase may fail before it changes anything that the model keeps.
PhaseFails(w) ==
    /\ \E p \in Phase : Acts(w, p)
    /\ Fails(w)
    /\ UNCHANGED <<serverVars, instanceVars>>

\* validate, wait_droplet, server_prep, post_install.
PlainPhase(w) ==
    /\ \E p \in {"validate", "wait_droplet", "server_prep", "post_install"} :
           Acts(w, p)
    /\ Clean(w, Nothing)
    /\ UNCHANGED <<serverVars, instanceVars>>

\* Mutation of CreateDroplet: without looking for a server by its tag.
CreateDropletUntagged(w) ==
    /\ Acts(w, "create_droplet")
    /\ IF mem[w].droplet THEN Clean(w, Nothing)
       ELSE Goes(w, "create") /\ UNCHANGED <<upd, out>>
    /\ UNCHANGED <<serverVars, instanceVars>>

\* A server of the checkpoint, one found by the tag of the run, or a new one,
\* which takes a second call.
CreateDroplet(w) ==
    /\ Acts(w, "create_droplet")
    /\ IF mem[w].droplet THEN Clean(w, Nothing)
       ELSE IF servers[wrun[w]] > 0 THEN Clean(w, [droplet |-> TRUE])
       ELSE Goes(w, "create") /\ UNCHANGED <<upd, out>>
    /\ UNCHANGED <<serverVars, instanceVars>>

CreateServer(w) ==
    /\ wpc[w] = "create"
    /\ servers' = [servers EXCEPT ![wrun[w]] = @ + 1]
    /\ Clean(w, [droplet |-> TRUE])
    /\ UNCHANGED <<rowVars, wrun, beating, at, spec, mem, read, end, site, cert, wiped,
                   instanceVars, counters>>

\* A record that points elsewhere is left alone and reported.
CreateDns(w) ==
    /\ Acts(w, "create_dns")
    /\ \/ Clean(w, Nothing)
       \/ Opens(w, Nothing, "dns")
    /\ UNCHANGED <<serverVars, instanceVars>>

\* apply_domain rewrites the address in the installed CRM's files; it fails
\* when neither the old nor the new one is there.
ChangeAddress(w) ==
    LET r == wrun[w] IN
    /\ site[r] \in {mem[w].installed, spec[w]}
    /\ site' = [site EXCEPT ![r] = spec[w]]
    /\ Clean(w, [installed |-> spec[w]])
    /\ UNCHANGED <<servers, cert, wiped, instanceVars>>

\* The installer runs with --clean, and with a certificate if DNS is correct.
InstallClean(w) ==
    LET r == wrun[w] IN
    /\ wiped' = [wiped EXCEPT ![r] = @ \/ mem[w].installed # NoAddress]
    /\ \E secure \in BOOLEAN :
         /\ cert' = [cert EXCEPT ![r] = IF secure THEN spec[w] ELSE NoAddress]
         /\ Clean(w, [installed |-> spec[w],
                      mode |-> IF secure THEN "letsencrypt" ELSE "http"])
    /\ site' = [site EXCEPT ![r] = spec[w]]
    /\ UNCHANGED <<servers, instanceVars>>

Install(w) ==
    /\ Acts(w, "install_espocrm")
    /\ IF mem[w].installed \notin {NoAddress, spec[w]}
       THEN ChangeAddress(w) ELSE InstallClean(w)

CheckDns(w) ==
    /\ Acts(w, "check_dns")
    /\ \/ Clean(w, [dnsOk |-> TRUE])
       \/ Opens(w, [dnsOk |-> FALSE], "dns")
    /\ UNCHANGED <<serverVars, instanceVars>>

\* For a server installed without a certificate the job is put on it and, if
\* DNS was correct, run at once.
Certificate(w) ==
    LET r == wrun[w] IN
    /\ Acts(w, "certificate")
    /\ \/ /\ mem[w].mode = "letsencrypt"
          /\ Clean(w, Nothing) /\ UNCHANGED cert
       \/ /\ mem[w].mode = "http"
          /\ Opens(w, Nothing, "certificate") /\ UNCHANGED cert
       \/ /\ mem[w].mode = "http" /\ mem[w].dnsOk
          /\ cert' = [cert EXCEPT ![r] = spec[w]]
          /\ Clean(w, [mode |-> "letsencrypt"])
    /\ UNCHANGED <<servers, site, wiped, instanceVars>>

\* Gaps are recorded and do not fail the run.  The web address and its
\* certificate are checked only on a server that was installed with one.
Verify(w) ==
    LET r == wrun[w] IN
    /\ Acts(w, "verify")
    /\ \/ /\ mem[w].mode = "letsencrypt" => cert[r] = spec[w]
          /\ Clean(w, [vfailed |-> FALSE])
       \/ Clean(w, [vfailed |-> TRUE])
    /\ UNCHANGED <<serverVars, instanceVars>>

\* The instance and its deploy config are written in one transaction, with the
\* attachment to the deployment, which refuses a second instance.
CreateInstance(w) ==
    LET r == wrun[w] IN
    /\ Acts(w, "create_instance")
    /\ \/ mem[w].instance /\ Clean(w, Nothing) /\ UNCHANGED instanceVars
       \/ /\ ~mem[w].instance /\ Attached /\ registered[r] > 0
          /\ Fails(w) /\ UNCHANGED instanceVars
       \/ /\ ~mem[w].instance /\ ~(Attached /\ registered[r] > 0)
          /\ registered' = [registered EXCEPT ![r] = @ + 1]
          /\ instUrl' = [instUrl EXCEPT ![r] = spec[w]]
          /\ instItems' = [instItems EXCEPT ![r] = mem[w].items]
          /\ Clean(w, [instance |-> TRUE])
    /\ UNCHANGED serverVars

\* The outcome is saved with what the phase returned; a failure lands the run.
Save(w) ==
    /\ wpc[w] = "save"
    /\ Marked(w, upd[w], out[w])
    /\ IF out[w] = "failed"
       THEN end' = [end EXCEPT ![w] = "failed"] /\ Goes(w, "finish") /\ UNCHANGED at
       ELSE at' = [at EXCEPT ![w] = @ + 1] /\ Goes(w, "check") /\ UNCHANGED end
    /\ upd' = [upd EXCEPT ![w] = Nothing] /\ out' = [out EXCEPT ![w] = "none"]
    /\ UNCHANGED <<status, holder, domain, asked, req, wrun, beating, spec, serverVars,
                   instanceVars, requests, crashes, lapses>>

\* Mutation of Sync: leaving the instance as it was registered.
SyncNothing(w) ==
    /\ wpc[w] = "sync"
    /\ end' = [end EXCEPT ![w] = IF mem[w].items # {} THEN "needs_action"
                                 ELSE IF mem[w].vfailed
                                      THEN "succeeded_with_issues"
                                      ELSE "succeeded"]
    /\ Goes(w, "finish")
    /\ UNCHANGED <<rowVars, wrun, beating, at, spec, mem, read, upd, out, serverVars,
                   instanceVars, counters>>

\* _sync_instance brings a registered instance up to date; then the status is
\* chosen.
Sync(w) ==
    LET r == wrun[w] IN
    /\ wpc[w] = "sync"
    /\ IF mem[w].instance
       THEN /\ instUrl' = [instUrl EXCEPT ![r] = spec[w]]
            /\ instItems' = [instItems EXCEPT ![r] = mem[w].items]
       ELSE UNCHANGED <<instUrl, instItems>>
    /\ end' = [end EXCEPT ![w] = IF mem[w].items # {} THEN "needs_action"
                                 ELSE IF mem[w].vfailed
                                      THEN "succeeded_with_issues"
                                      ELSE "succeeded"]
    /\ Goes(w, "finish")
    /\ UNCHANGED <<rowVars, wrun, beating, at, spec, mem, read, upd, out, serverVars,
                   registered, counters>>

\* The log is flushed and finish() lands the status, whoever holds the run.
Finish(w) ==
    LET r == wrun[w] IN
    /\ wpc[w] = "finish" /\ MayChange(r, w)
    /\ status' = [status EXCEPT ![r] = end[w]]
    /\ beat' = [beat EXCEPT ![r] = "fresh"]
    /\ Ends(w)
    /\ UNCHANGED <<holder, domain, ckpt, asked, req, serverVars, instanceVars, counters>>
-----------------------------------------------------------------------------
Request ==
    \E r \in Run :
        \/ \E d \in Address : AskCreate(r, d) \/ \E c \in Client : AskRetry(c, r, d)
        \/ Create(r)
        \/ \E c \in Client : AskCancel(c, r)

RequestEnds == \E c \in Client : Cancel(c) \/ Requeue(c)

PhaseBody(w) ==
    \/ PhaseFails(w) \/ PlainPhase(w)
    \/ CreateDroplet(w) \/ CreateServer(w) \/ CreateDns(w) \/ Install(w)
    \/ CheckDns(w) \/ Certificate(w) \/ Verify(w) \/ CreateInstance(w)

RunDeploy(w) ==
    Start(w) \/ Check(w) \/ ReadRow(w) \/ Mark(w) \/ PhaseBody(w) \/ Save(w) \/ Sync(w) \/ Finish(w)

Poll(w) == \E r \in Run : Claim(w, r)

Next ==
    \/ Request \/ RequestEnds
    \/ \E r \in Run : Lapse(r)
    \/ \E w \in Worker : \/ Poll(w) \/ RunDeploy(w)
                         \/ Heartbeat(w) \/ AppendLog(w) \/ Drop(w)

Spec == Init /\ [][Next]_vars

\* The workers poll, the phases come to an end (every wait in them has a
\* deadline), and a heartbeat that nobody renews grows stale.
Fairness ==
    /\ \A w \in Worker : WF_vars(Poll(w)) /\ WF_vars(RunDeploy(w))
    /\ \A r \in Run : WF_vars(Unattended(r) /\ Lapse(r))

FairSpec == Spec /\ Fairness
-----------------------------------------------------------------------------
\* Properties.  A worker is trusted while no heartbeat of a live worker lapsed
\* and no commit overwrote what another had committed since its read.

Trusted == lapses = 0 /\ ~overwritten

\* claim_next_run: no two workers ever work on the same run, whatever dies and
\* is reclaimed.
OneHolder ==
    Trusted => \A r \in Run, v, w \in Worker :
                   WorksOn(v, r) /\ WorksOn(w, r) => v = w

\* _phase_create_droplet: a crash between the provider's call and the
\* checkpoint, or a retry, does not make a second server.
OneServer == Trusted => \A r \in Run : servers[r] <= 1

\* run_deploy: a run that lands "succeeded" has built what its row asks for, at
\* the address the row has now: one server, the CRM installed for the address,
\* its certificate, an instance registered with it.
SucceededIsBuilt ==
    Trusted => \A r \in Run :
        status[r] = "succeeded" =>
            /\ servers[r] = 1 /\ registered[r] > 0
            /\ site[r] = domain[r] /\ cert[r] = domain[r]
            /\ instUrl[r] = domain[r]

\* _sync_instance: when a run lands with everything tried, the instance shows
\* the open items that the run ends with, and the run needs action exactly if
\* there are some.
OpenItemsTold ==
    Trusted => \A r \in Run :
        status[r] \in Terminal \ {"failed", "cancelled"} =>
            /\ instItems[r] = ckpt[r].items
            /\ (status[r] = "needs_action") <=> ckpt[r].items # {}

\* finish, claim_next_run: a status that has landed changes only by a retry, up
\* to a lapse or to a commit that overwrites, like a cancel that read "queued"
\* and is committed when the run has landed.
LandedIsFinal ==
    [][\A r \in Run : Trusted' /\ status[r] \in Terminal =>
           status'[r] \in {status[r], "queued"}]_vars

\* request_cancel, set_phase: a request to cancel survives every checkpoint
\* that a worker writes, also when the run changes hands, until it lands: but
\* for one that was read before the request was committed and written after.
CancelSurvives ==
    [][\A r \in Run :
          status[r] = "running" /\ ckpt[r].cancel /\ status'[r] = "running" =>
              \/ ckpt'[r].cancel
              \/ \E w \in Worker : /\ WorksOn(w, r) /\ read[w] # NotOpen
                                   /\ ~read[w].cancel /\ read'[w] = NotOpen]_vars

\* A run that was queued lands, although workers die and lose their claims.
EveryRunLands == \A r \in Run : status[r] = "queued" ~> status[r] \in Terminal

-----------------------------------------------------------------------------
\* Why they hold: what is true of a run while a worker builds it.

\* The order of the phases, as far as the result depends on it: the parts of a
\* CRM are all there, its certificate comes after the installation and is
\* verified after that.  DeployRunPhaseOrder is such an order.
Includes(p) == \E i \in 1..Len(PhaseOrder) : PhaseOrder[i] = p
Before(p, q) == \A i, j \in 1..Len(PhaseOrder) :
                    PhaseOrder[i] = p /\ PhaseOrder[j] = q => i < j
BuildOrder ==
    /\ \A p \in {"create_droplet", "install_espocrm", "certificate", "verify",
                 "create_instance"} : Includes(p)
    /\ Before("install_espocrm", "certificate") /\ Before("certificate", "verify")

\* What an update may say: never anything of the phases or of a cancel.
FitsUpdate(u) ==
    /\ DOMAIN u \subseteq {"droplet", "installed", "mode", "dnsOk", "items",
                           "vfailed", "instance"}
    /\ "droplet" \in DOMAIN u => u.droplet = TRUE
    /\ "installed" \in DOMAIN u => u.installed \in Address \cup {NoAddress}
    /\ "mode" \in DOMAIN u => u.mode \in {"letsencrypt", "http"}
    /\ "dnsOk" \in DOMAIN u => u.dnsOk \in BOOLEAN
    /\ "items" \in DOMAIN u => u.items \in SUBSET Item
    /\ "vfailed" \in DOMAIN u => u.vfailed \in BOOLEAN
    /\ "instance" \in DOMAIN u => u.instance = TRUE

\* A worker in the middle of a phase is at one; the server is created in its own.
InPhase(w) ==
    /\ wpc[w] \in {"mark", "act", "create", "save"} => at[w] \in 1..Len(PhaseOrder)
    /\ wpc[w] = "create" => Now(w) = "create_droplet"
    /\ wpc[w] = "sync" => Finished(w)
    /\ wpc[w] = "save" => out[w] \in {"done", "needs_action", "failed"}

DeployShape ==
    /\ DeployTypeOK /\ upd = [w \in Worker |-> upd[w]]
    /\ \A w \in Worker :
         /\ FitsUpdate(upd[w]) /\ InPhase(w)
         /\ wpc[w] # "idle" => wrun[w] \in Run

\* The checkpoint as the worker will have it once it has saved its phase, and
\* the phases that are behind it in this run_deploy.
Has(w) == IF wpc[w] = "save" THEN Merged(mem[w], upd[w]) ELSE mem[w]
Past(w, p) == \E k \in 1..Len(PhaseOrder) :
    /\ PhaseOrder[k] = p
    /\ k < at[w] \/ (k = at[w] /\ wpc[w] = "save" /\ out[w] # "failed")

\* What a landed status promises of the row and the world.
Told(r, landed) == landed \in Terminal \ {"failed", "cancelled"} =>
    /\ instItems[r] = ckpt[r].items
    /\ (landed = "needs_action") <=> ckpt[r].items # {}
Built(r, landed) == landed = "succeeded" =>
    /\ servers[r] = 1 /\ registered[r] > 0
    /\ site[r] = domain[r] /\ cert[r] = domain[r] /\ instUrl[r] = domain[r]

\* The checkpoint says nothing of the world that is not so.
RowTrue(r) ==
    /\ servers[r] <= 1
    /\ ckpt[r].droplet => servers[r] = 1
    /\ ckpt[r].instance => registered[r] > 0
    /\ ckpt[r].phases["create_droplet"] = "done" => ckpt[r].droplet
    /\ ckpt[r].phases["create_instance"] = "done" => ckpt[r].instance
    /\ ckpt[r].phases["install_espocrm"] = "done" =>
          site[r] = domain[r] /\ status[r] # "absent"
    /\ Told(r, status[r]) /\ Built(r, status[r])

\* A worker's copies agree with the row it works on, but for a cancel request.
CopiesAgree(w) ==
    /\ spec[w] = domain[wrun[w]]
    /\ \A f \in DOMAIN Blank \ {"cancel"} : mem[w][f] = ckpt[wrun[w]][f]

\* What the phases behind it have achieved, and what it is about to land.
Achieved(w) ==
    LET r == wrun[w] IN
    /\ Has(w).droplet => servers[r] = 1
    /\ Has(w).instance => registered[r] > 0
    /\ Past(w, "create_droplet") => Has(w).droplet
    /\ Past(w, "create_instance") => Has(w).instance
    /\ Past(w, "install_espocrm") => site[r] = spec[w]
    /\ Past(w, "certificate") =>
          Has(w).mode = "letsencrypt" \/ "certificate" \in Has(w).items
    /\ Past(w, "verify") =>
          Has(w).vfailed \/ Has(w).mode = "http" \/ cert[r] = spec[w]
    /\ wpc[w] \in {"act", "create", "save"} => ckpt[r].phases[Now(w)] = "running"
    /\ wpc[w] = "create" => servers[r] = 0
    /\ wpc[w] = "finish" => Told(r, end[w]) /\ Built(r, end[w])

AtWork(w) == wpc[w] \notin {"idle", "start"}
BuildInv ==
    Trusted => /\ \A r \in Run : RowTrue(r)
               /\ \A w \in Worker : AtWork(w) => CopiesAgree(w) /\ Achieved(w)
=============================================================================
