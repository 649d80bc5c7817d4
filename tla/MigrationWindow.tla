-------------------------- MODULE MigrationWindow --------------------------
(***************************************************************************)
(* What scheduler/migration_lock.py promises of a pool of agents and its   *)
(* exclusive migrations, with no queue, no thread and no git in it:        *)
(*                                                                         *)
(*   PAUSE          once a migration is requested the window is "pending"; *)
(*   DRAIN then RUN it opens only when nothing is in flight, and nothing   *)
(*                  starts while it is open;                               *)
(*   RESUME         it closes, and work starts again.                      *)
(*                                                                         *)
(* Work may still start while the window is merely pending: the code tests *)
(* the window once before it reads its candidates, so a request can come   *)
(* in between (see NoDispatchWhilePending in WorkerPool).                  *)
(* WorkerPool implements this module; the mapping is in WorkerPool.        *)
(***************************************************************************)
CONSTANT Task

VARIABLES window,    \* ExclusiveMigrationLock._phase
          inflight   \* the tasks dispatched and not yet integrated

vars == <<window, inflight>>

Window == {"open", "pending", "exclusive"}

Init == window = "open" /\ inflight = {}

Start(t) ==
    /\ window # "exclusive"
    /\ t \notin inflight
    /\ inflight' = inflight \cup {t}
    /\ UNCHANGED window

Integrate(t) ==
    /\ window # "exclusive"
    /\ t \in inflight
    /\ inflight' = inflight \ {t}
    /\ UNCHANGED window

Request ==
    /\ window = "open"
    /\ window' = "pending"
    /\ UNCHANGED inflight

Enter ==
    /\ window = "pending"
    /\ inflight = {}
    /\ window' = "exclusive"
    /\ UNCHANGED inflight

Leave ==
    /\ window = "exclusive"
    /\ window' = "open"
    /\ UNCHANGED inflight

Next ==
    \/ \E t \in Task : Start(t) \/ Integrate(t)
    \/ Request \/ Enter \/ Leave

Spec == Init /\ [][Next]_vars

\* The migration runs with nothing in flight: PAUSE, DRAIN and RUN together
\* leave it alone on the runtime (migration_lock.py, can_enter_exclusive).
RunsAlone == window = "exclusive" => inflight = {}
=============================================================================
