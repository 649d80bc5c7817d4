------------------------ MODULE ProjectBuild_proofs ------------------------
(***************************************************************************)
(* The Project's build lease (ProjectBuild): types, its invariant and the  *)
(* exclusion it gives, for any runtimes, items, dependencies and bounds.   *)
(***************************************************************************)
EXTENDS ProjectBuild, TLAPS

\* The two halves of the type invariant: the records of the runs ...
RunTypes ==
    /\ rpc \in [Runtime -> RunState]
    /\ batch \in [Runtime -> SUBSET Item] /\ attempted \in [Runtime -> SUBSET Item]
    /\ work \in [Runtime -> [Item -> WorkState]]

\* ... and the rows of the store.
StoreTypes ==
    /\ holder \in Runtime \cup {NoOne, Gone} /\ fresh \in BOOLEAN
    /\ item \in [Item -> ItemStatus] /\ overtaken \subseteq Runtime
    /\ beat \in BOOLEAN /\ late \subseteq Runtime
    /\ faults \in 0..MaxFaults

\* What relates the lease to where the runs are.
InStep ==
    /\ holder \in Runtime =>
          /\ Kind[holder] = "pm" /\ (Drives(holder) \/ rpc[holder] = "release")
          /\ holder \notin overtaken
    /\ \A r \in Runtime : Kind[r] = "pm" /\ Drives(r) /\ r \notin overtaken => holder = r
    /\ \A r \in Open \ late : holder \notin Runtime \ {r}
    /\ \A r \in Runtime :
          rpc[r] \in {"claim", "granted", "loop", "close", "release"} => Kind[r] = "pm"

LEMMA Parts == LeaseInv => RunTypes /\ StoreTypes /\ InStep
  BY DEF LeaseInv, ProjectTypeOK, RunTypes, StoreTypes, InStep

LEMMA Whole == RunTypes /\ StoreTypes /\ InStep => LeaseInv
  BY DEF LeaseInv, ProjectTypeOK, RunTypes, StoreTypes, InStep

LEMMA WholeNext == RunTypes' /\ StoreTypes' /\ InStep' => LeaseInv'
  BY DEF LeaseInv, ProjectTypeOK, RunTypes, StoreTypes, InStep

LEMMA NoWorkType == NoWork \in [Item -> WorkState]
  BY DEF NoWork, WorkState

\* Init establishes the invariant.
LEMMA InitLease == Init => LeaseInv
<1> SUFFICES ASSUME Init PROVE LeaseInv
  OBVIOUS
<1>1. RunTypes
  BY NoWorkType DEF Init, RunTypes, RunState
<1>2. StoreTypes
  <2>1. /\ holder \in Runtime \cup {NoOne, Gone} /\ fresh \in BOOLEAN
        /\ beat \in BOOLEAN /\ late \subseteq Runtime /\ overtaken \subseteq Runtime
    BY DEF Init
  <2>2. item \in [Item -> ItemStatus]
    BY DEF Init, ItemStatus
  <2>3. MaxFaults \in Nat
    BY ProjectAssumption
  <2>4. faults \in 0..MaxFaults
    BY <2>3 DEF Init
  <2> QED
    BY <2>1, <2>2, <2>4 DEF StoreTypes
<1>3. ~fresh /\ holder \notin Runtime
  BY ProjectAssumption DEF Init
<1>4. \A r \in Runtime : rpc[r] = "idle"
  BY DEF Init
<1>5. InStep
  BY <1>3, <1>4 DEF InStep, Drives, Open
<1> QED
  BY <1>1, <1>2, <1>5, Whole

\* What a driver's step leaves of the others, when it moves to another place.
Moved(r, to) == rpc' = [rpc EXCEPT ![r] = to]

\* A move within the places where a "pm" drives, or within those where it
\* does not, with the lease untouched and no request opened or closed.
LEMMA MoveKeepsStep ==
  ASSUME RunTypes, InStep, NEW r \in Runtime, NEW to \in RunState, Moved(r, to),
         UNCHANGED <<holder, late, overtaken>>,
         rpc[r] # "release", to \notin {"granted", "release"},
         Kind[r] = "pm" =>
            (rpc[r] \in {"loop", "drive", "close", "leave"}
               <=> to \in {"loop", "drive", "close", "leave"}),
         to \in {"claim", "granted", "loop", "close"} => Kind[r] = "pm"
  PROVE  InStep'
<1>1. rpc'[r] = to /\ \A q \in Runtime \ {r} : rpc'[q] = rpc[q]
  BY DEF RunTypes, Moved
<1> QED
  BY <1>1 DEF InStep, Drives, Open

\* Clearing a driver's own state keeps the types and stops that driver only.
LEMMA ForgetTypes ==
  ASSUME RunTypes, NEW r \in Runtime, Forget(r)
  PROVE  /\ RunTypes'
         /\ rpc'[r] = "idle" /\ \A q \in Runtime \ {r} : rpc'[q] = rpc[q]
  BY NoWorkType DEF RunTypes, Forget, RunState

\* The steps of a run, one by one: a launch ...
LEMMA LaunchStep ==
  ASSUME LeaseInv, NEW r \in Runtime, Launch(r) PROVE LeaseInv'
<1> USE Parts
<1>1. rpc' \in [Runtime -> RunState]
  BY DEF RunTypes, Launch, RunState
<1>2. batch' \in [Runtime -> SUBSET Item] /\ attempted' \in [Runtime -> SUBSET Item]
  BY DEF RunTypes, Launch
<1>3. ASSUME NEW i \in Item, work' = [work EXCEPT ![r][i] = "start"]
      PROVE  work' \in [Runtime -> [Item -> WorkState]]
  BY <1>3 DEF RunTypes, WorkState
<1>4. work' \in [Runtime -> [Item -> WorkState]]
  BY <1>3 DEF RunTypes, Launch
<1>5. RunTypes'
  BY <1>1, <1>2, <1>4 DEF RunTypes
<1>6. StoreTypes'
  BY DEF Launch, StoreTypes, leaseVars
<1>7. rpc[r] = "idle" /\ UNCHANGED <<holder, late, overtaken>>
  BY DEF Launch, leaseVars
<1>8. \/ Kind[r] = "pm" /\ Moved(r, "claim")
      \/ Kind[r] # "pm" /\ Moved(r, "drive")
  BY DEF Launch, Moved
<1>9. InStep'
  BY <1>7, <1>8, MoveKeepsStep DEF RunState
<1> QED
  BY <1>5, <1>6, <1>9, WholeNext

\* ... the read of a claim, and its commit, after which the claimant drives
\* and the one it replaced counts as overtaken ...
LEMMA ClaimReadStep ==
  ASSUME LeaseInv, NEW r \in Runtime, ClaimReads(r) PROVE LeaseInv'
<1> USE Parts
<1>1. RunTypes'
  BY DEF ClaimReads, RunTypes, RunState
<1>2. StoreTypes' /\ UNCHANGED <<holder, overtaken>>
  BY DEF ClaimReads, StoreTypes
<1>3. rpc[r] = "claim" /\ Kind[r] = "pm" /\ \A q \in Runtime \ {r} : rpc'[q] = rpc[q]
  BY DEF ClaimReads, InStep, RunTypes
<1>4. \/ rpc'[r] = "idle" /\ late' = late
      \/ /\ rpc'[r] = "granted" /\ late \subseteq late'
         /\ holder \in Runtime \ {r} => r \in late'
  <2>1. CASE Grants(r)
    <3>1. holder \in Runtime \ {r} => ~fresh
      BY <2>1, ProjectAssumption DEF Grants
    <3>2. rpc'[r] = "granted"
      BY <2>1 DEF ClaimReads, RunTypes
    <3> QED
      BY <2>1, <3>1, <3>2 DEF ClaimReads
  <2>2. CASE ~Grants(r)
    BY <2>2 DEF ClaimReads, RunTypes
  <2> QED
    BY <2>1, <2>2
<1>5. holder # r
  BY <1>3 DEF InStep, Drives
<1>6. InStep'
  BY <1>2, <1>3, <1>4, <1>5 DEF InStep, Drives, Open
<1> QED
  BY <1>1, <1>2, <1>6, WholeNext

LEMMA ClaimCommitStep ==
  ASSUME LeaseInv, NEW r \in Runtime, ClaimCommits(r) PROVE LeaseInv'
<1> USE Parts
<1>1. RunTypes'
  BY DEF ClaimCommits, RunTypes, RunState
<1>2. StoreTypes'
  BY DEF ClaimCommits, Take, Displaced, Open, StoreTypes
<1>3. rpc'[r] = "loop" /\ \A q \in Runtime \ {r} : rpc'[q] = rpc[q]
  BY DEF ClaimCommits, RunTypes
<1>4. Kind[r] = "pm" /\ holder' = r
  BY DEF ClaimCommits, InStep, Take
<1>5. \A q \in Runtime \ {r} : Kind[q] = "pm" /\ Drives(q) => q \in overtaken'
  <2> SUFFICES ASSUME NEW q \in Runtime \ {r}, Kind[q] = "pm", Drives(q), q \notin overtaken
               PROVE  q \in overtaken'
    BY DEF ClaimCommits, Take
  <2>1. holder = q
    BY DEF InStep
  <2>2. r \in Open
    BY DEF ClaimCommits, Open
  <2>3. r \in late
    BY <2>1, <2>2 DEF InStep
  <2> QED
    BY <2>1, <2>3 DEF ClaimCommits, Take, Displaced
<1>6. r \notin overtaken'
  BY DEF ClaimCommits, Take
<1>7. InStep'
  <2>1. Open' = Open \ {r} /\ \A q \in Runtime \ {r} : Drives(q)' <=> Drives(q)
    BY <1>3 DEF Open, Drives
  <2>2. Open' \subseteq late'
    BY <2>1 DEF ClaimCommits, Take
  <2>3. \A q \in Runtime : Kind[q] = "pm" /\ Drives(q)' /\ q \notin overtaken' => holder' = q
    BY <2>1, <1>4, <1>5
  <2> QED
    BY <1>3, <1>4, <1>6, <2>2, <2>3 DEF InStep, Drives
<1> QED
  BY <1>1, <1>2, <1>7, WholeNext

\* ... a turn of the loop, with a batch or with none left ...
LEMMA PickStep ==
  ASSUME LeaseInv, NEW r \in Runtime, Pick(r) PROVE LeaseInv'
<1> USE Parts
<1> DEFINE b == Batch(attempted[r])
<1>1. b \subseteq Item
  BY DEF Batch, Eligible
<1>2. rpc[r] = "loop" /\ (Moved(r, "leave") \/ Moved(r, "drive"))
  BY DEF Pick, Moved
<1>3. [i \in Item |-> IF i \in b THEN "start" ELSE "none"] \in [Item -> WorkState]
  BY DEF WorkState
<1>4. /\ batch' = batch \/ batch' = [batch EXCEPT ![r] = b]
      /\ \/ work' = work
         \/ work' = [work EXCEPT ![r] = [i \in Item |-> IF i \in b THEN "start" ELSE "none"]]
      /\ UNCHANGED <<attempted, holder, fresh, beat, late, overtaken, item, faults>>
  BY DEF Pick, leaseVars
<1> HIDE DEF b
<1>5. work' \in [Runtime -> [Item -> WorkState]] /\ batch' \in [Runtime -> SUBSET Item]
  BY <1>1, <1>3, <1>4 DEF RunTypes
<1>6. RunTypes'
  BY <1>2, <1>4, <1>5 DEF RunTypes, Moved, RunState
<1>7. StoreTypes'
  BY <1>4 DEF StoreTypes
<1>8. InStep'
  BY <1>2, <1>4, MoveKeepsStep DEF RunState
<1> QED
  BY <1>6, <1>7, <1>8, WholeNext

\* ... what an item driver does in its item ...
LEMMA AtStep ==
  ASSUME LeaseInv, NEW r \in Runtime, NEW i \in Item, NEW from, NEW to \in WorkState,
         At(r, i, from, to), item' \in [Item -> ItemStatus]
  PROVE  LeaseInv'
<1> USE Parts
<1>1. work' \in [Runtime -> [Item -> WorkState]]
  BY DEF At, RunTypes
<1>2. UNCHANGED <<holder, fresh, beat, late, overtaken, rpc, batch, attempted, faults>>
  BY DEF At, leaseVars
<1>3. RunTypes' /\ StoreTypes' /\ InStep'
  BY <1>1, <1>2 DEF RunTypes, StoreTypes, InStep, Drives, Open
<1> QED
  BY <1>3, WholeNext

LEMMA ItemStep ==
  ASSUME LeaseInv, NEW r \in Runtime, NEW i \in Item,
         ReadItem(r, i) \/ Dispatch(r, i) \/ Finish(r, i) \/ Stops(r, i)
  PROVE  LeaseInv'
<1>1. item' \in [Item -> ItemStatus]
  BY Parts DEF ReadItem, Dispatch, Finish, Stops, StoreTypes, ItemStatus
<1>2. \E from, to \in WorkState : At(r, i, from, to)
  BY DEF ReadItem, Dispatch, Finish, Stops, WorkState
<1> QED
  BY <1>1, <1>2, AtStep

\* ... the end of a batch, the close-out of its items, the next turn ...
LEMMA BatchOverStep ==
  ASSUME LeaseInv, NEW r \in Runtime, BatchOver(r) PROVE LeaseInv'
<1> USE Parts
<1>1. RunTypes' /\ StoreTypes' /\ UNCHANGED <<holder, late, overtaken>>
  BY DEF BatchOver, RunTypes, RunState, StoreTypes, leaseVars
<1>2. rpc[r] = "drive" /\ (Moved(r, "leave") \/ (Kind[r] = "pm" /\ Moved(r, "close")))
  BY DEF BatchOver, Moved
<1>3. InStep'
  BY <1>1, <1>2, MoveKeepsStep DEF RunState
<1> QED
  BY <1>1, <1>3, WholeNext

LEMMA CloseOutStep ==
  ASSUME LeaseInv, NEW r \in Runtime, CloseOut(r) PROVE LeaseInv'
<1> USE Parts
<1>1. PICK i \in batch[r] :
        /\ attempted' = [attempted EXCEPT ![r] = @ \cup {i}]
        /\ batch' = [batch EXCEPT ![r] = @ \ {i}]
        /\ work' = [work EXCEPT ![r][i] = "none"]
        /\ rpc' = rpc \/ Moved(r, "leave")
        /\ item' = item \/ item' = [item EXCEPT ![i] = "Resolved"]
  BY DEF CloseOut, Moved
<1>2. rpc[r] = "close" /\ UNCHANGED <<holder, fresh, beat, late, overtaken, faults>>
  BY DEF CloseOut, leaseVars
<1>3. i \in Item
  BY DEF RunTypes
<1>4. RunTypes'
  BY <1>1, <1>3 DEF RunTypes, Moved, RunState, WorkState
<1>5. StoreTypes'
  BY <1>1, <1>2, <1>3 DEF StoreTypes, ItemStatus
<1>6. InStep'
  <2>1. CASE rpc' = rpc
    BY <2>1, <1>2 DEF InStep, Drives, Open
  <2>2. CASE Moved(r, "leave")
    BY <2>2, <1>2, MoveKeepsStep DEF RunState
  <2> QED
    BY <2>1, <2>2, <1>1
<1> QED
  BY <1>4, <1>5, <1>6, WholeNext

LEMMA NextRoundStep ==
  ASSUME LeaseInv, NEW r \in Runtime, NextRound(r) PROVE LeaseInv'
<1> USE Parts
<1>1. RunTypes' /\ StoreTypes' /\ UNCHANGED <<holder, late, overtaken>>
  BY DEF NextRound, RunTypes, RunState, StoreTypes, leaseVars
<1>2. rpc[r] = "close" /\ Moved(r, "loop") /\ Kind[r] = "pm"
  BY DEF NextRound, Moved, InStep
<1>3. InStep'
  BY <1>1, <1>2, MoveKeepsStep DEF RunState
<1> QED
  BY <1>1, <1>3, WholeNext

\* ... and the ways out: a release is asked for or there is nothing to release,
\* it is committed, or the process dies.
LEMMA LeaveStep ==
  ASSUME LeaseInv, NEW r \in Runtime, Leave(r) PROVE LeaseInv'
<1> USE Parts
<1>1. CASE Kind[r] = "pm" /\ Own(r)
  <2>1. /\ RunTypes' /\ StoreTypes'
        /\ rpc'[r] = "release" /\ \A q \in Runtime \ {r} : rpc'[q] = rpc[q]
    BY <1>1 DEF Leave, RunTypes, RunState, StoreTypes
  <2>2. holder = r /\ UNCHANGED <<holder, late, overtaken>>
    BY <1>1 DEF Leave, Own
  <2>3. InStep'
    BY <1>1, <2>1, <2>2 DEF InStep, Drives, Open
  <2> QED
    BY <2>1, <2>3, WholeNext
<1>2. CASE ~(Kind[r] = "pm" /\ Own(r))
  <2>1. RunTypes' /\ rpc'[r] = "idle" /\ \A q \in Runtime \ {r} : rpc'[q] = rpc[q]
    BY <1>2, ForgetTypes DEF Leave
  <2>2. StoreTypes'
    BY <1>2 DEF Leave, StoreTypes
  <2>3. UNCHANGED <<holder, late>> /\ overtaken' = overtaken \ {r}
    BY <1>2 DEF Leave
  <2>4. holder # r
    BY <1>2 DEF Own, InStep
  <2>5. InStep'
    BY <2>1, <2>3, <2>4 DEF InStep, Drives, Open
  <2> QED
    BY <2>1, <2>2, <2>5, WholeNext
<1> QED
  BY <1>1, <1>2

LEMMA ReleaseStep ==
  ASSUME LeaseInv, NEW r \in Runtime, ReleaseCommits(r) PROVE LeaseInv'
<1> USE Parts
<1>1. RunTypes' /\ rpc'[r] = "idle" /\ \A q \in Runtime \ {r} : rpc'[q] = rpc[q]
  BY ForgetTypes DEF ReleaseCommits
<1>2. StoreTypes'
  BY DEF ReleaseCommits, GiveUp, Displaced, StoreTypes
<1>3. holder' = NoOne /\ late' = late \ {r} /\ overtaken \ {r} \subseteq overtaken'
  BY DEF ReleaseCommits, GiveUp
<1>4. \A q \in Runtime \ {r} : Kind[q] = "pm" /\ Drives(q) => q \in overtaken'
  <2> SUFFICES ASSUME NEW q \in Runtime \ {r}, Kind[q] = "pm", Drives(q), q \notin overtaken
               PROVE  q \in overtaken'
    BY <1>3
  <2>1. holder = q
    BY DEF InStep
  <2>2. r \in Open
    BY DEF ReleaseCommits, Open
  <2>3. r \in late
    BY <2>1, <2>2 DEF InStep
  <2> QED
    BY <2>1, <2>3 DEF ReleaseCommits, GiveUp, Displaced
<1>5. InStep'
  BY <1>1, <1>3, <1>4, ProjectAssumption DEF InStep, Drives, Open
<1> QED
  BY <1>1, <1>2, <1>5, WholeNext

LEMMA CrashStep ==
  ASSUME LeaseInv, NEW r \in Runtime, Crash(r) PROVE LeaseInv'
<1> USE Parts
<1>1. RunTypes' /\ rpc'[r] = "idle" /\ \A q \in Runtime \ {r} : rpc'[q] = rpc[q]
  BY ForgetTypes DEF Crash
<1>2. StoreTypes'
  BY ProjectAssumption DEF Crash, Fault, StoreTypes
<1>3. /\ holder' # r /\ late' = late \ {r} /\ overtaken' = overtaken \ {r}
      /\ holder' = holder \/ (holder = r /\ holder' = Gone)
  BY ProjectAssumption DEF Crash
<1>4. InStep'
  BY <1>1, <1>3, ProjectAssumption DEF InStep, Drives, Open
<1> QED
  BY <1>1, <1>2, <1>4, WholeNext

\* The heartbeat, time, force and people leave the runs where they are.
LEMMA OutsideStep ==
  ASSUME LeaseInv,
         \/ \E r \in Runtime : HeartbeatReads(r)
         \/ HeartbeatCommits \/ Lapse \/ ForceRelease
         \/ \E i \in Item : PersonResolves(i) \/ PersonCancels(i)
  PROVE  LeaseInv'
<1> USE Parts
<1> USE DEF HeartbeatReads, HeartbeatCommits, Lapse, ForceRelease, PersonResolves, PersonCancels
<1>1. UNCHANGED runVars
  OBVIOUS
<1>2. RunTypes'
  BY <1>1 DEF RunTypes, runVars
<1>3. StoreTypes'
  <2>1. /\ holder' \in Runtime \cup {NoOne, Gone} /\ fresh' \in BOOLEAN
        /\ beat' \in BOOLEAN /\ late' \subseteq Runtime /\ overtaken' \subseteq Runtime
    BY DEF StoreTypes, leaseVars
  <2>2. item' \in [Item -> ItemStatus]
    BY DEF StoreTypes, ItemStatus
  <2>3. faults' = faults \/ Fault
    OBVIOUS
  <2>4. faults' \in 0..MaxFaults
    BY <2>3, ProjectAssumption DEF StoreTypes, Fault
  <2> QED
    BY <2>1, <2>2, <2>4 DEF StoreTypes
<1>4. \/ UNCHANGED <<holder, late, overtaken>>
      \/ holder' = NoOne /\ late' = late /\ overtaken' = overtaken \cup (Runtime \cap {holder})
  BY DEF leaseVars
<1>5. InStep'
  BY <1>1, <1>4, ProjectAssumption DEF InStep, Drives, Open, runVars
<1> QED
  BY <1>2, <1>3, <1>5, WholeNext

LEMMA StepLease == LeaseInv /\ [Next]_vars => LeaseInv'
<1> SUFFICES ASSUME LeaseInv, [Next]_vars PROVE LeaseInv'
  OBVIOUS
<1>1. CASE UNCHANGED vars
  BY <1>1 DEF vars, leaseVars, runVars, LeaseInv, ProjectTypeOK, Drives, Open
<1>2. ASSUME NEW r \in Runtime, Launch(r) \/ RunNext(r) \/ HeartbeatReads(r) \/ Crash(r)
      PROVE  LeaseInv'
  BY <1>2, LaunchStep, ClaimReadStep, ClaimCommitStep, PickStep, BatchOverStep,
     CloseOutStep, NextRoundStep, LeaveStep, ReleaseStep, ItemStep, OutsideStep, CrashStep DEF RunNext
<1>3. CASE \/ HeartbeatCommits \/ Lapse \/ ForceRelease
            \/ \E i \in Item : PersonResolves(i) \/ PersonCancels(i)
  BY <1>3, OutsideStep
<1> QED
  BY <1>1, <1>2, <1>3 DEF Next

\* A project's lease stays in step with the runtimes that drive it, whatever
\* crashes, stalls and forced releases happen and however the requests
\* interleave: no request displaces a runtime without a right to.
THEOREM LeaseSafety == Spec => []LeaseInv
<1> QED
  BY InitLease, StepLease, PTL DEF Spec

\* Two runtimes build one Project at once only if one of them was overtaken:
\* its lease had lapsed, force cleared it, or a claim or a release that was
\* open when somebody's claim was committed replaced or cleared it.
THEOREM RuntimeExclusion == Spec => []OneRuntime
<1>1. LeaseInv => OneRuntime
  BY DEF LeaseInv, OneRuntime
<1> QED
  BY <1>1, LeaseSafety, PTL

-----------------------------------------------------------------------------
(* Items start after their blockers.                                       *)

\* What a step may do to the rows of the items: a resolved item stays
\* resolved, and an item comes to be in progress only by a dispatch that finds
\* it startable, and in review only from there.
ItemMoves == \A i \in Item :
    /\ item[i] = "Resolved" => item'[i] = "Resolved"
    /\ item'[i] \in {"InProgress", "InReview"} =>
          item[i] \in {"InProgress", "InReview"} \/ Startable(i)

\* No step of a run, of the clock or of a person does anything else.
LEMMA MovesOfRun ==
  ASSUME LeaseInv, NEW r \in Runtime, Launch(r) \/ RunNext(r) \/ HeartbeatReads(r) \/ Crash(r)
  PROVE  ItemMoves
<1> USE Parts DEF ItemMoves
<1>1. CASE UNCHANGED item
  BY <1>1
<1>2. ASSUME NEW i \in Item, Dispatch(r, i) PROVE ItemMoves
  BY <1>2 DEF Dispatch, StoreTypes, Startable
<1>3. ASSUME NEW i \in Item, Finish(r, i) PROVE ItemMoves
  BY <1>3 DEF Finish, StoreTypes
<1>4. CASE CloseOut(r)
  <2>1. \E i \in Item : item' = item \/ item' = [item EXCEPT ![i] = "Resolved"]
    BY <1>4 DEF CloseOut, RunTypes
  <2> QED
    BY <2>1 DEF StoreTypes
<1>5. CASE Launch(r) \/ HeartbeatReads(r) \/ Crash(r)
  BY <1>5, <1>1 DEF Launch, HeartbeatReads, Crash
<1>6. CASE \/ ClaimReads(r) \/ ClaimCommits(r) \/ Pick(r) \/ BatchOver(r) \/ NextRound(r)
           \/ Leave(r) \/ ReleaseCommits(r)
  BY <1>6, <1>1
     DEF ClaimReads, ClaimCommits, Pick, BatchOver, NextRound, Leave, ReleaseCommits
<1>7. ASSUME NEW i \in Item, ReadItem(r, i) \/ Stops(r, i) PROVE ItemMoves
  BY <1>7, <1>1 DEF ReadItem, Stops
<1> QED
  BY <1>2, <1>3, <1>4, <1>5, <1>6, <1>7 DEF RunNext

LEMMA MovesOfStep == LeaseInv /\ [Next]_vars => ItemMoves
<1> SUFFICES ASSUME LeaseInv, [Next]_vars PROVE ItemMoves
  OBVIOUS
<1>1. CASE UNCHANGED vars
  BY <1>1 DEF vars, ItemMoves
<1>2. ASSUME NEW r \in Runtime, Launch(r) \/ RunNext(r) \/ HeartbeatReads(r) \/ Crash(r)
      PROVE  ItemMoves
  BY <1>2, MovesOfRun
<1>3. CASE HeartbeatCommits \/ Lapse \/ ForceRelease
  BY <1>3 DEF HeartbeatCommits, Lapse, ForceRelease, ItemMoves
<1>4. ASSUME NEW i \in Item, PersonResolves(i) \/ PersonCancels(i) PROVE ItemMoves
  BY <1>4, Parts DEF PersonResolves, PersonCancels, ItemMoves, StoreTypes
<1> QED
  BY <1>1, <1>2, <1>3, <1>4 DEF Next

\* An item the builders have started had all its blockers resolved, whichever
\* of the drivers started it, whatever it had read of the backlog before and
\* whoever holds the lease: the dispatch checks again, and nothing takes a
\* resolution back.
THEOREM StartsAfterBlockers == Spec => []StartedAfterBlockers
<1>1. Init => StartedAfterBlockers
  BY DEF Init, StartedAfterBlockers
<1>2. LeaseInv /\ StartedAfterBlockers /\ [Next]_vars => StartedAfterBlockers'
  <2> SUFFICES ASSUME LeaseInv, StartedAfterBlockers, ItemMoves,
                      NEW i \in Item, item'[i] \in {"InProgress", "InReview"},
                      NEW b \in BlockedBy[i]
               PROVE  item'[b] = "Resolved"
    BY MovesOfStep DEF StartedAfterBlockers
  <2>1. b \in Item
    BY ProjectAssumption
  <2>2. item[b] = "Resolved"
    BY DEF ItemMoves, StartedAfterBlockers, Startable, Unresolved
  <2> QED
    BY <2>1, <2>2 DEF ItemMoves
<1> QED
  BY <1>1, <1>2, LeaseSafety, PTL DEF Spec
=============================================================================
