----------------------------- MODULE AreaReopen -----------------------------
(***************************************************************************)
(* The areas of a release in the development lane: who owns the Work Tasks *)
(* of an area (access/coordination.py, claim_work_task), and an area that  *)
(* is reopened under its downstream ones (access/reopen.py), which are     *)
(* paused until it re-freezes and must be validated again before the       *)
(* release ships (releases.py).                                            *)
(*                                                                         *)
(* A request is a transaction that reads, checks and commits; the store    *)
(* (PostgreSQL at its default isolation, no row lock) lets those of two    *)
(* clients interleave.  The release is in the lane or shipped: ReleaseLane *)
(* has its stages and the other gates.                                     *)
(***************************************************************************)
EXTENDS Integers, FiniteSets

CONSTANTS
    Client,        \* connections that make requests
    Agent,         \* claimants of Work Tasks
    Task,          \* the Work Tasks of the release
    Area, AreaOf,  \* AreaOf \in [Task -> Area]
    Rank,          \* SYSTEM_AREA_RANKS, 0 for an area off the spine
    Specialist,    \* tasks stamped with an agent profile
    Row,           \* bound: rows of area_reopens
    None

ASSUME AreaAssumption ==
    /\ AreaOf \in [Task -> Area] /\ Rank \in [Area -> Nat]
    /\ Specialist \subseteq Task /\ None \notin Agent \cup Area

VARIABLES
    stage,      \* "lane" or "shipped"
    claimant,   \* work_task_claimed_by
    reopens,    \* area_reopens: [area, state, done], state "none" for no row yet
    txn,        \* the transaction a client has open, after its checks
    crossed,    \* clients beside whose open claim the area was claimed by another
    thawed,     \* <<client, row>>: the row was committed beside the client's open claim
    raced,      \* tasks claimed by a crossed transaction
    missed,     \* rows a ship's check could not see
    passed      \* [Row -> areas whose validation was ever committed]

rows == <<stage, claimant, reopens>>
ghosts == <<crossed, thawed, raced, missed, passed>>
vars == <<rows, txn, ghosts>>

NoTxn == [op |-> "none"]
Txns ==
    {NoTxn} \cup [op : {"claim"}, task : Task, agent : Agent]
    \cup [op : {"reopen"}, row : Row, area : Area]
    \cup [op : {"revalidate"}, row : Row, done : SUBSET Area]
    \cup {[op |-> "ship"]}

AreaTypeOK ==
    /\ stage \in {"lane", "shipped"}
    /\ claimant \in [Task -> Agent \cup {None}]
    /\ reopens \in [Row -> [area : Area \cup {None}, state : {"none", "open", "resolved"}, done : SUBSET Area]]
    /\ txn \in [Client -> Txns]
    /\ crossed \subseteq Client /\ thawed \subseteq Client \X Row
    /\ raced \subseteq Task /\ missed \subseteq Row
    /\ passed \in [Row -> SUBSET Area]

Init ==
    /\ stage = "lane"
    /\ claimant = [t \in Task |-> None]
    /\ reopens = [k \in Row |-> [area |-> None, state |-> "none", done |-> {}]]
    /\ txn = [c \in Client |-> NoTxn]
    /\ crossed = {} /\ thawed = {} /\ raced = {} /\ missed = {} /\ passed = [k \in Row |-> {}]

-----------------------------------------------------------------------------
(* The spine                                                               *)

\* downstream_areas: the ranked areas of a higher rank, none for an unranked.
NextOnly(a) == {b \in Area : Rank[a] # 0 /\ Rank[b] = Rank[a] + 1}
Downstream(a) == {b \in Area : Rank[a] # 0 /\ Rank[b] > Rank[a]}

OpenRows == {k \in Row : reopens[k].state = "open"}

\* paused_areas
Paused == UNION {Downstream(reopens[k].area) : k \in OpenRows}

\* outstanding_revalidations: over every row, open or resolved.
OutstandingOpen == UNION {Downstream(reopens[k].area) \ reopens[k].done : k \in OpenRows}
Outstanding == UNION {Downstream(reopens[k].area) \ reopens[k].done :
                         k \in {j \in Row : reopens[j].state # "none"}}

\* assert_area_owner: another agent has a generalist task of the area.
OwnedTaskOnly(t, a) == claimant[t] \notin {None, a}
OwnedByOther(t, a) ==
    /\ stage = "lane" /\ t \notin Specialist
    /\ \E u \in Task \ Specialist :
          AreaOf[u] = AreaOf[t] /\ claimant[u] \notin {None, a}

-----------------------------------------------------------------------------
(* Transactions                                                            *)

Claiming(c) == txn[c].op = "claim"

Begin(c, t) ==
    /\ txn[c] = NoTxn /\ txn' = [txn EXCEPT ![c] = t]
    /\ UNCHANGED <<rows, ghosts>>

\* The commit of c overtakes the claims that are open of the area `claimed`, if
\* it is a claim, and those open at all, if it opens the rows `opened`.
Commit(c, claimed, opened) ==
    /\ txn' = [txn EXCEPT ![c] = NoTxn]
    /\ crossed' = (crossed \cup {d \in Client : Claiming(d) /\ AreaOf[txn[d].task] \in claimed}) \ {c}
    /\ thawed' = {p \in thawed : p[1] # c} \cup ({d \in Client \ {c} : Claiming(d)} \X opened)

\* claim_work_task: unclaimed, the area not another's, and not paused.
AskClaim(c, t, a) ==
    /\ claimant[t] = None /\ ~OwnedByOther(t, a) /\ AreaOf[t] \notin Paused
    /\ Begin(c, [op |-> "claim", task |-> t, agent |-> a])

DoClaim(c) ==
    /\ Claiming(c) /\ Commit(c, {AreaOf[txn[c].task]}, {})
    /\ LET t == txn[c].task IN
       /\ claimant' = [claimant EXCEPT ![t] = txn[c].agent]
       /\ raced' = IF c \in crossed THEN raced \cup {t} ELSE raced \ {t}
    /\ UNCHANGED <<stage, reopens, missed, passed>>

\* reopen_area: in the lane, on the spine, with no open reopen of the area.
\* (Which approval it needs depends on its radius; the approval is an input.)
AskReopen(c, k, a) ==
    /\ reopens[k].state = "none" /\ \A d \in Client : txn[d].op = "reopen" => txn[d].row # k
    /\ stage = "lane" /\ Rank[a] # 0
    /\ \A j \in OpenRows : reopens[j].area # a
    /\ Begin(c, [op |-> "reopen", row |-> k, area |-> a])

DoReopen(c) ==
    /\ txn[c].op = "reopen" /\ Commit(c, {}, {txn[c].row})
    /\ LET k == txn[c].row IN
       /\ reopens' = [reopens EXCEPT ![k] = [area |-> txn[c].area, state |-> "open", done |-> {}]]
       /\ missed' = IF stage = "shipped" \/ \E d \in Client : txn[d].op = "ship"
                    THEN missed \cup {k} ELSE missed
    /\ UNCHANGED <<stage, claimant, raced, passed>>

\* revalidate_area: an area of the cascade not recorded yet; the list that
\* is written back is the one that was read.
AskRevalidate(c, k, b) ==
    /\ reopens[k].state # "none" /\ b \in Downstream(reopens[k].area) \ reopens[k].done
    /\ Begin(c, [op |-> "revalidate", row |-> k, done |-> reopens[k].done \cup {b}])

DoRevalidate(c) ==
    /\ txn[c].op = "revalidate" /\ Commit(c, {}, {})
    /\ reopens' = [reopens EXCEPT ![txn[c].row].done = txn[c].done]
    /\ passed' = [passed EXCEPT ![txn[c].row] = @ \cup txn[c].done]
    /\ UNCHANGED <<stage, claimant, raced, missed>>

\* deployment -> shipped, with _check_revalidations_complete.
AskShip(c) ==
    /\ stage = "lane" /\ Outstanding = {}
    /\ Begin(c, [op |-> "ship"])

DoShip(c) ==
    /\ txn[c].op = "ship" /\ Commit(c, {}, {})
    /\ stage' = "shipped"
    /\ UNCHANGED <<claimant, reopens, raced, missed, passed>>

\* The writes that cannot be wrong about what they read: refreeze_area, on the
\* row found open first, and release_work_task.
Outside == UNCHANGED <<txn, crossed, thawed>>

Refreeze(k) ==
    /\ reopens[k].state = "open" /\ reopens' = [reopens EXCEPT ![k].state = "resolved"]
    /\ Outside /\ UNCHANGED <<stage, claimant, raced, missed, passed>>

ReleaseTask(t) ==
    /\ claimant[t] # None /\ claimant' = [claimant EXCEPT ![t] = None]
    /\ raced' = raced \ {t}
    /\ Outside /\ UNCHANGED <<stage, reopens, missed, passed>>

Next ==
    \/ \E c \in Client :
          \/ \E t \in Task, a \in Agent : AskClaim(c, t, a)
          \/ \E k \in Row, a \in Area : AskReopen(c, k, a) \/ AskRevalidate(c, k, a)
          \/ AskShip(c)
          \/ DoClaim(c) \/ DoReopen(c) \/ DoRevalidate(c) \/ DoShip(c)
    \/ \E k \in Row : Refreeze(k)
    \/ \E t \in Task : ReleaseTask(t)

Spec == Init /\ [][Next]_vars

-----------------------------------------------------------------------------
(* Correctness                                                             *)

\* An area of the release has one owner, whatever is claimed, released and
\* claimed again in whatever order, unless another claim of the area came between
\* a claim's check and its commit: a specialist's task neither counts nor is
\* refused.
OneOwnerPerArea ==
    stage = "lane" =>
        \A t, u \in Task \ (Specialist \cup raced) :
            /\ claimant[t] # None /\ claimant[u] # None /\ AreaOf[t] = AreaOf[u]
            => claimant[t] = claimant[u]

\* A release ships after every area downstream of every reopen, re-frozen or
\* not, has been validated again, but for a reopen that the ship's check could
\* not see.  (The list of a shipped release may still be short: two requests
\* that read the same list write it back one after the other.)
ShippedRevalidated ==
    stage = "shipped" =>
        \A k \in Row \ missed : reopens[k].state # "none" =>
            \A b \in Area : Rank[reopens[k].area] # 0 /\ Rank[b] > Rank[reopens[k].area] =>
                b \in passed[k]

\* No work starts on thawing ground: a task is claimed while an area of a lower
\* rank is open only if that very reopen came between the claim's check and its
\* commit.
ClaimsOnFirmGround ==
    [][\A t \in Task : claimant[t] = None /\ claimant'[t] # None =>
          \A k \in Row :
              /\ reopens[k].state = "open"
              /\ Rank[reopens[k].area] # 0 /\ Rank[AreaOf[t]] > Rank[reopens[k].area]
              => \E c \in Client : /\ txn[c].op = "claim" /\ txn[c].task = t
                                    /\ txn'[c] = NoTxn /\ <<c, k>> \in thawed]_vars
=============================================================================
