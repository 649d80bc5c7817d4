----------------------------- MODULE PoolClaims -----------------------------
(***************************************************************************)
(* What comments and docstrings of the repository say of the pool and the  *)
(* code, as WorkerPool models it, does not do.  No run checks them: the    *)
(* README tells the stories and names the configuration of each.           *)
(***************************************************************************)
EXTENDS MCWorkerPool

\* migration_lock.py:17-18, "there is provably no concurrent writer": while the
\* migration runs no thread of the pool writes to the database.  A worker
\* revokes its agent's token after its result is on the queue, so the pool can
\* be drained with that write still to come.
NoWriterDuringMigration ==
    window = "exclusive" =>
        \A t \in Task : wpc[t] \in {"idle", "ended"}

\* migration_lock.py:126, request "pauses new dispatch immediately": no task
\* is dispatched while the window is not open.  _fill_slots asks once, before
\* it reads its candidates and resolves their assignments.
NoDispatchWhilePending ==
    [][window # "open" => active' \subseteq active]_vars

\* agent_identity.py, "an agent that cannot authenticate would only 401": no
\* live agent has lost its token.  The retry agent is spawned with the
\* assignment whose token the worker revokes.
LiveAgentIsAuthorised == \A t \in Task : Live(t) => Authorised(t)

\* operating_protocol 0a, "an empty branch carrying this note is a valid no-op,
\* not a failure": an agent that took the no-op exit is not retried.  The exit
\* is taken before the claim, and Ready may not move to Complete.
NoOpIsNotRetried == mpc = "retry" => exit[cur] # "noop"

\* operating_protocol 0b, "the scheduler then pauses for a human rather than
\* retrying": an agent that took the halt exit is not retried.  The pool does
\* not read the flag of the Workstream.
HaltIsNotRetried == mpc = "retry" => exit[cur] # "halt"
=============================================================================
