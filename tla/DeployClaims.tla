---------------------------- MODULE DeployClaims ----------------------------
(***************************************************************************)
(* What comments and docstrings of the repository say of deploy runs and   *)
(* the code, as DeployRuns models it, does not do.  No run checks them:    *)
(* the README tells the stories and names the configuration of each.       *)
(***************************************************************************)
EXTENDS MCDeployRuns

\* deploy_runs.py, requeue: "the install step changes it instead of
\* reinstalling (which would wipe the CRM)".  The installer never runs over a
\* CRM that the checkpoint records.  An address corrected and corrected back
\* before the install step ran again makes it run there.
NeverReinstalled == \A r \in Run : ~wiped[r]

\* deploy_runs.py, active_run_for_domain: it guards "against queuing two runs
\* that would race to create the same server and DNS record".  No address has
\* two active runs.  Two requests may both find the address free, and a retry
\* without a body does not look.
OneRunPerAddress ==
    \A d \in Address : \A q, r \in ActiveFor(d) : q = r

\* vocab.py, DEPLOY_RUN_PHASE_ORDER: "each idempotent so an interrupted run
\* resumes at the phase that did not complete".  A run registers one instance.
\* A worker that dies between registering it and saving that leaves the resumed
\* run to register another; with a deployment, to fail there for ever.
OneInstance == \A r \in Run : registered[r] <= 1

\* deploy_runs.py, module: "so no two workers ever hold the same run", and
\* heartbeat: "the caller must stop working on the run".  Two workers never
\* build the same run, also after a heartbeat lapsed.  The heartbeat thread of
\* the first stops and its run_deploy goes on.
OneBuilder ==
    \A r \in Run, v, w \in Worker :
        WorksOn(v, r) /\ WorksOn(w, r) /\ ~beating[v] => v = w

\* deploy_runs.py, request_cancel: "Ask the worker to stop between phases; a
\* ``queued`` run cancels at once".  A request to cancel a running run stays on
\* record until the run lands.  set_phase reads the checkpoint and writes it
\* back whole, over a request committed in between.
CancelIsKept ==
    [][\A r \in Run :
          status[r] = "running" /\ ckpt[r].cancel /\ status'[r] = "running" =>
              ckpt'[r].cancel]_vars

\* The same: nobody works on a run that has been cancelled at once.  The request
\* finds the run queued, and writes over the claim committed in between.
CancelledIsLeftAlone ==
    \A r \in Run, w \in Worker : status[r] = "cancelled" => ~WorksOn(w, r)

\* deploy_runs.py, set_phase: "so a resumed run can tell which phases already
\* completed".  A phase that is done, and would be skipped, stays so while the
\* run goes on.  request_cancel writes back the checkpoint it read, over the
\* one a worker has saved in between.
DoneIsKept ==
    [][\A r \in Run, p \in Kept :
          /\ status[r] = "running" /\ status'[r] = "running"
          /\ ckpt[r].phases[p] = "done"
          => ckpt'[r].phases[p] = "done"]_vars
=============================================================================
