------------------------ MODULE ReleaseLane_proofs -------------------------
(***************************************************************************)
(* Proofs about the development lane, for any releases, schedulers and     *)
(* people: at most one release holds the lane, releases enter it after     *)
(* what they are blocked by, one that is over stays as it is, what ships   *)
(* was judged and approved as it is, what is retired leaves its records,   *)
(* and the monitor never drives a release that the lane-order gate refuses.*)
(***************************************************************************)
EXTENDS ReleaseLane, TLAPS

AllShipped(r) == \A b \in Release : <<r, b>> \in blockedBy => status[b] = "shipped"

\* What an open status transaction has read and will write: it moves a release
\* that was not over, and the lane is entered from ready, past the gate.
TxnMoves(t) ==
    /\ t.saw.status \notin Terminal
    /\ t.to \in Lane =>
         \/ t.saw.status \in Lane
         \/ t.saw.status = "ready" /\ (overwrites = 0 => AllShipped(t.rel))

\* The steps of a scheduler that have a transaction open.
Busy == {"enter_lane", "to_qa", "to_testing", "to_deployment", "ship",
         "judge_qa", "judge_test"}

\* A scheduler that runs drives a release, and has a transaction open in
\* those steps only.
AtWork(d) ==
    /\ step[d] # "idle" => drives[d] \in Release
    /\ txn[d] # NoTxn => step[d] \in Busy

LaneInv ==
    /\ LaneTypeOK
    /\ \A d \in Driver : AtWork(d)
    /\ \A c \in Client : txn[c] # NoTxn /\ txn[c].op # "stamp" => TxnMoves(txn[c])
    /\ \A r \in Release : status[r] \in Lane => r \in ran
    /\ OneInLane /\ BlockersFirst

USE DEF AtWork, Busy

---------------------------------------------------------------------------
\* The transition table.

LEMMA MovesFacts ==
    \A s \in Status :
        /\ Moves[s] \subseteq Status
        /\ s \in Terminal => Moves[s] = {}
        /\ s = "ready" => Moves[s] \cap Lane = {"development"}
  BY DEF Moves, Status, Lane, Terminal

LEMMA LaneInit == Init => LaneInv
  BY LaneAssumption DEF Init, LaneInv, LaneTypeOK, Client, Status, Lane, Step,
     OneInLane, InLane, BlockersFirst, Terminal

\* A transaction is opened on what the row says, and past its gate.
LEMMA OpenStep ==
    ASSUME LaneInv, NEW c \in Client, NEW op \in {"move", "abandon", "stamp"},
           NEW r \in Release, NEW to \in Status,
           NEW judged \in Nat \cup {None}, Open(c, op, r, to, judged)
    PROVE  /\ txn' \in [Client -> Txn \cup {NoTxn}]
           /\ \A k \in Client \ {c} : txn'[k] = txn[k]
           /\ txn'[c].op # "stamp" => TxnMoves(txn'[c])
  <1> DEFINE t == [op |-> op, rel |-> r, to |-> to, saw |-> Row(r),
                   judged |-> judged,
                   auto |-> /\ op = "move" /\ to = "shipped"
                            /\ approval[r] = None]
  <1>1. txn' = [txn EXCEPT ![c] = t] /\ txn \in [Client -> Txn \cup {NoTxn}]
    BY DEF Open, LaneInv, LaneTypeOK
  <1>2. Row(r) \in [status : Status, qa : Nat \cup {None},
                    test : Nat \cup {None}, work : Nat]
    BY DEF Row, LaneInv, LaneTypeOK
  <1>3. t \in Txn
    BY <1>2 DEF Txn
  <1>4. txn'[c] = t /\ \A k \in Client \ {c} : txn'[k] = txn[k]
    BY <1>1
  <1>5. ASSUME op # "stamp" PROVE TxnMoves(t)
    <2>1. Row(r).status = status[r] /\ status[r] \in Status
      BY DEF Row, LaneInv, LaneTypeOK
    <2>2. CASE op = "move"
      <3>1. to \in Moves[status[r]] /\ Gate(r, to)
        BY <2>2 DEF Open, Allowed, CanMove
      <3>2. status[r] \notin Terminal
        BY <2>1, <3>1, MovesFacts
      <3>3. status[r] \in Lane \/ status[r] = "ready"
        BY <2>1, <3>2 DEF Status
      <3>4. ASSUME status[r] = "ready", to \in Lane PROVE AllShipped(r)
        <4>1. to = "development"
          BY <2>1, <3>1, <3>4, MovesFacts
        <4>2. BlockersShipped(r)
          BY <3>1, <3>4, <4>1 DEF Gate
        <4> QED BY <4>2 DEF BlockersShipped, AllShipped
      <3> QED BY <2>1, <3>2, <3>3, <3>4 DEF TxnMoves
    <2>3. CASE op = "abandon"
      BY <2>1, <2>3 DEF Open, Allowed, CanAbandon, TxnMoves, Lane, Terminal
    <2> QED BY <1>5, <2>2, <2>3
  <1> QED BY <1>1, <1>3, <1>4, <1>5

\* A step that leaves the store alone and opens at most one transaction.
LEMMA ClientStep ==
    ASSUME LaneInv, StoreUnchanged,
           NEW c \in Client,
           txn' \in [Client -> Txn \cup {NoTxn}],
           \A k \in Client \ {c} : txn'[k] = txn[k],
           \/ txn'[c] = txn[c] \/ txn'[c] = NoTxn
           \/ txn'[c].op # "stamp" => TxnMoves(txn'[c]),
           drives' \in [Driver -> Release \cup {NoRelease}],
           step' \in [Driver -> Step], look' \in [Driver -> Nat \cup {None}],
           \A d \in Driver : AtWork(d)'
    PROVE  LaneInv'
  <1>1. UNCHANGED <<status, deleted, order, blockedBy, qa, test, approval, items,
                    runs, plans, work, ran, overtaken, overwrites, edits>>
    BY DEF StoreUnchanged, rowVars, recordVars, historyVars
  <1>2. LaneTypeOK'
    BY <1>1 DEF LaneInv, LaneTypeOK
  <1>3. ASSUME NEW k \in Client, txn'[k] # NoTxn, txn'[k].op # "stamp"
        PROVE  TxnMoves(txn[k])'
    <2>1. TxnMoves(txn'[k])
      BY <1>3 DEF LaneInv
    <2> QED BY <1>1, <2>1 DEF TxnMoves, AllShipped
  <1>4. OneInLane' /\ BlockersFirst' /\ \A r \in Release : status'[r] \in Lane => r \in ran'
    BY <1>1 DEF LaneInv, OneInLane, BlockersFirst, InLane
  <1> QED BY <1>2, <1>3, <1>4 DEF LaneInv

LEMMA DriverStep ==
    ASSUME LaneInv, NEW d \in Driver, DriverNext(d), ~BuildEnds(d)
    PROVE  LaneInv'
  <1>1. d \in Client /\ Driver \subseteq Client /\ drives \in [Driver -> Release \cup {NoRelease}]
        /\ step \in [Driver -> Step] /\ look \in [Driver -> Nat \cup {None}]
        /\ work \in [Release -> Nat] /\ txn \in [Client -> Txn \cup {NoTxn}]
    BY DEF Client, LaneInv, LaneTypeOK
  <1>2. step[d] # "idle" => drives[d] \in Release
    BY DEF LaneInv, AtWork
  <1>3. "idle" \in Step /\ "read" \in Step
    BY DEF Step
  <1>16. txn[d] # NoTxn => step[d] \in Busy
    BY DEF LaneInv
  <1>4. ASSUME NEW r \in Release, Start(d, r) PROVE LaneInv'
    BY <1>1, <1>3, <1>4, <1>16, ClientStep DEF Start, LaneInv
  <1>5. CASE Launch(d)
    BY <1>4, <1>5 DEF Launch
  <1>6. CASE MonitorPass(d)
    BY <1>4, <1>6 DEF MonitorPass, Admitted, Occupants, Candidates
  <1>7. ASSUME Halt(d), StoreUnchanged,
               (txn[d] = NoTxn /\ txn' = txn) \/ txn' = [txn EXCEPT ![d] = NoTxn]
        PROVE  LaneInv'
    <2>1. txn'[d] = NoTxn /\ \A k \in Client \ {d} : txn'[k] = txn[k]
      BY <1>1, <1>7
    <2>2. \A e \in Driver : AtWork(e)'
      BY <1>1, <1>7, <2>1 DEF Halt, LaneInv
    <2>3. txn' \in [Client -> Txn \cup {NoTxn}]
      BY <1>1, <1>7
    <2> QED BY <1>1, <1>3, <1>7, <2>1, <2>2, <2>3, ClientStep DEF Halt
  <1>8. ASSUME NEW s \in Step, GoTo(d, s), step[d] # "idle",
               txn[d] = NoTxn, txn' = txn, StoreUnchanged
        PROVE  LaneInv'
    BY <1>1, <1>2, <1>8, ClientStep DEF GoTo, LaneInv
  <1>9. CASE ReadState(d)
    <2>1. DecideNext(drives[d]) \in Step
      BY DEF DecideNext, Step
    <2> QED BY <1>7, <1>8, <1>9, <1>16, <2>1 DEF ReadState
  <1>10. ASSUME NEW op \in {"move", "stamp"}, NEW to \in Status,
                NEW judged \in Nat \cup {None}, Open(d, op, drives[d], to, judged),
                step[d] \in Busy, UNCHANGED <<drives, step, look>>, StoreUnchanged
         PROVE  LaneInv'
    <2>1. drives[d] \in Release
      BY <1>2, <1>10
    <2>2. /\ txn' \in [Client -> Txn \cup {NoTxn}]
          /\ \A k \in Client \ {d} : txn'[k] = txn[k]
          /\ txn'[d].op # "stamp" => TxnMoves(txn'[d])
      BY <1>1, <1>10, <2>1, OpenStep
    <2>3. \A e \in Driver : AtWork(e)'
      BY <1>1, <1>10, <2>1, <2>2 DEF LaneInv
    <2> QED BY <1>1, <1>10, <2>2, <2>3, ClientStep
  <1>11. CASE Transition(d)
    <2> DEFINE to == Target[step[d]]
    <2>1. to \in Status /\ step[d] \in Busy
      BY <1>11 DEF Transition, Target, Status, Lane, Terminal
    <2>2. CASE Open(d, "move", drives[d], to, None) /\ UNCHANGED <<drives, step, look>>
      BY <1>10, <1>11, <2>1, <2>2 DEF Transition
    <2>3. CASE GoTo(d, "read") /\ UNCHANGED txn
      BY <1>3, <1>8, <1>11, <2>1, <2>3 DEF Transition
    <2>4. CASE Halt(d) /\ UNCHANGED txn
      BY <1>7, <1>11, <2>4 DEF Transition
    <2> QED BY <1>11, <2>2, <2>3, <2>4 DEF Transition
  <1>12. CASE Develop(d)
    <2>1. "building" \in Step
      BY DEF Step
    <2> QED BY <1>7, <1>8, <1>12, <1>16, <2>1 DEF Develop
  <1>13. CASE Look(d)
    <2>1. step' \in [Driver -> Step] /\ work[drives[d]] \in Nat
      BY <1>1, <1>2, <1>13 DEF Look, Step
    <2>2. look' \in [Driver -> Nat \cup {None}]
      BY <1>1, <1>13, <2>1 DEF Look
    <2>3. \A e \in Driver : AtWork(e)'
      BY <1>1, <1>13, <1>16 DEF Look, LaneInv
    <2> QED BY <1>1, <1>13, <2>1, <2>2, <2>3, ClientStep DEF Look
  <1>14. CASE Verdict(d)
    <2> DEFINE stage == IF step[d] = "judge_qa" THEN "qa" ELSE "testing"
    <2>1. stage \in Status /\ look[d] \in Nat \cup {None} /\ step[d] \in Busy
      BY <1>1, <1>14 DEF Verdict, Status, Lane
    <2>2. CASE Open(d, "stamp", drives[d], stage, look[d]) /\ UNCHANGED <<drives, step, look>>
      BY <1>10, <1>14, <2>1, <2>2 DEF Verdict
    <2>3. CASE Halt(d) /\ UNCHANGED txn
      BY <1>7, <1>14, <2>3 DEF Verdict
    <2> QED BY <1>14, <2>2, <2>3 DEF Verdict
  <1>15. CASE Dies(d)
    BY <1>7, <1>15 DEF Dies
  <1> QED BY <1>5, <1>6, <1>9, <1>11, <1>12, <1>13, <1>14, <1>15 DEF DriverNext

LEMMA RequestsStep ==
    ASSUME LaneInv, NEW p \in Person, Requests(p)
    PROVE  LaneInv'
  <1>1. PICK r \in Release, to \in Status :
           \/ Open(p, "move", r, to, None)
           \/ Open(p, "abandon", r, to, None)
           \/ Open(p, "stamp", r, to, work[r])
    BY DEF Requests
  <1>2. p \in Client /\ work[r] \in Nat
    BY DEF Client, LaneInv, LaneTypeOK
  <1>3. /\ txn' \in [Client -> Txn \cup {NoTxn}]
        /\ \A k \in Client \ {p} : txn'[k] = txn[k]
        /\ txn'[p].op # "stamp" => TxnMoves(txn'[p])
    BY <1>1, <1>2, OpenStep
  <1>4. UNCHANGED <<drives, step, look>> /\ StoreUnchanged
    BY DEF Requests
  <1>5. /\ drives \in [Driver -> Release \cup {NoRelease}]
        /\ step \in [Driver -> Step] /\ look \in [Driver -> Nat \cup {None}]
        /\ \A d \in Driver : AtWork(d)
    BY DEF LaneInv, LaneTypeOK
  <1>6. \A d \in Driver : AtWork(d)'
    <2>1. \A d \in Driver : d \in Client \ {p}
      BY LaneAssumption DEF Client
    <2> QED BY <1>3, <1>4, <1>5, <2>1
  <1> QED BY <1>2, <1>3, <1>4, <1>5, <1>6, ClientStep

\* A step that leaves the statuses, the transactions and the history alone, and
\* deletes releases at most.
LEMMA RecordStep ==
    ASSUME LaneInv, LaneTypeOK', deleted \subseteq deleted',
           UNCHANGED <<status, blockedBy, txn, ran, overwrites>>,
           \A d \in Driver : AtWork(d)'
    PROVE  LaneInv'
  <1>1. \A k \in Client : txn'[k] # NoTxn /\ txn'[k].op # "stamp" => TxnMoves(txn[k])'
    BY DEF LaneInv, TxnMoves, AllShipped
  <1>2. OneInLane' /\ BlockersFirst' /\ \A r \in Release : status'[r] \in Lane => r \in ran'
    BY DEF LaneInv, OneInLane, BlockersFirst, InLane
  <1> QED BY <1>1, <1>2 DEF LaneInv

\* The counters.
LEMMA CounterTypes ==
    ASSUME LaneInv
    PROVE  edits \in Nat /\ overwrites \in Nat /\ work \in [Release -> Nat]
  BY DEF LaneInv, LaneTypeOK

LEMMA PeopleStep ==
    ASSUME LaneInv, NEW r \in Release,
           Approve(r) \/ ResolveItems(r) \/ SetLaneOrder(r) \/ Delete(r)
    PROVE  LaneInv'
  <1>0. SetLaneOrder(r) \/ Delete(r) => edits' \in Nat
    BY CounterTypes DEF SetLaneOrder, Delete, Edit
  <1>1. CASE Approve(r)
    BY <1>1, RecordStep DEF Approve, LaneInv, LaneTypeOK, rowVars, clientVars, historyVars
  <1>2. CASE ResolveItems(r)
    BY <1>2, RecordStep DEF ResolveItems, LaneInv, LaneTypeOK, rowVars, clientVars,
       historyVars
  <1>3. CASE SetLaneOrder(r)
    <2>1. order' \in [Release -> Nat \cup {NoOrder}]
      <3>1. PICK o \in LaneOrder \cup {NoOrder} : order' = [order EXCEPT ![r] = o]
        BY <1>3 DEF SetLaneOrder
      <3>2. o \in Nat \cup {NoOrder} /\ order \in [Release -> Nat \cup {NoOrder}]
        BY LaneAssumption DEF LaneInv, LaneTypeOK
      <3> QED BY <3>1, <3>2
    <2>2. LaneTypeOK'
      BY <1>0, <1>3, <2>1 DEF SetLaneOrder, LaneInv, LaneTypeOK, recordVars, clientVars
    <2> QED BY <1>3, <2>2, RecordStep DEF SetLaneOrder, LaneInv, recordVars, clientVars
  <1>4. CASE Delete(r)
    <2>1. deleted' \subseteq Release
      BY <1>4 DEF Delete, LaneInv, LaneTypeOK
    <2>2. LaneTypeOK'
      BY <1>0, <1>4, <2>1 DEF Delete, LaneInv, LaneTypeOK, recordVars, clientVars
    <2> QED BY <1>4, <2>2, RecordStep DEF Delete, LaneInv, recordVars, clientVars
  <1> QED BY <1>1, <1>2, <1>3, <1>4

LEMMA BuildEndsStep ==
    ASSUME LaneInv, NEW d \in Driver, BuildEnds(d)
    PROVE  LaneInv'
  <1>1. items' \in [Release -> {"open", "In Review", "Resolved"}]
    BY DEF BuildEnds, LaneInv, LaneTypeOK
  <1>2. CASE GoTo(d, "read")
    <2>1. LaneTypeOK'
      BY <1>1, <1>2 DEF BuildEnds, GoTo, LaneInv, LaneTypeOK, rowVars, historyVars, Step
    <2>2. \A e \in Driver : AtWork(e)'
      BY <1>2 DEF BuildEnds, GoTo, LaneInv, LaneTypeOK
    <2> QED BY <2>1, <2>2, RecordStep DEF BuildEnds, rowVars, historyVars
  <1>3. CASE Halt(d)
    <2>1. LaneTypeOK'
      BY <1>1, <1>3 DEF BuildEnds, Halt, LaneInv, LaneTypeOK, rowVars, historyVars, Step
    <2>2. \A e \in Driver : AtWork(e)'
      BY <1>3 DEF BuildEnds, Halt, LaneInv, LaneTypeOK
    <2> QED BY <2>1, <2>2, RecordStep DEF BuildEnds, rowVars, historyVars
  <1> QED BY <1>2, <1>3 DEF BuildEnds

\* Commits: what a transaction writes keeps the types.
LEMMA CommitType ==
    ASSUME LaneInv, NEW c \in Client, Commit(c)
    PROVE  LaneTypeOK'
  <1> DEFINE t == txn[c]
  <1>1. t \in Txn
    BY DEF Commit, LaneInv, LaneTypeOK
  <1>2. t.rel \in Release /\ t.to \in Status /\ t.judged \in Nat \cup {None}
    BY <1>1 DEF Txn
  <1>3. txn' \in [Client -> Txn \cup {NoTxn}] /\ step' \in [Driver -> Step]
    BY DEF Commit, LaneInv, LaneTypeOK, Step
  <1>0. overwrites' \in Nat
    BY CounterTypes DEF Commit
  <1>4. CASE t.op = "stamp"
    <2>1. WriteStamp(t)
      BY <1>4 DEF Commit
    <2>2. /\ qa' \in [Release -> Nat \cup {None}]
          /\ test' \in [Release -> Nat \cup {None}]
          /\ approval' \in [Release -> Nat \cup {None}]
      BY <1>2, <2>1 DEF WriteStamp, LaneInv, LaneTypeOK
    <2> QED BY <1>0, <1>3, <2>1, <2>2 DEF Commit, WriteStamp, LaneInv, LaneTypeOK
  <1>5. CASE t.op # "stamp"
    <2>1. WriteStatus(t)
      BY <1>5 DEF Commit
    <2>2. status' \in [Release -> Status]
      BY <1>2, <2>1 DEF WriteStatus, LaneInv, LaneTypeOK
    <2>7. work' \in [Release -> Nat]
      BY <1>2, <2>1, CounterTypes DEF WriteStatus
    <2>3. runs' \subseteq Release /\ plans' \subseteq Release
      BY <1>2, <2>1 DEF WriteStatus, LaneInv, LaneTypeOK
    <2>4. ran' \subseteq Release /\ overtaken' \subseteq Release
      BY <1>2, <2>1 DEF WriteStatus, LaneInv, LaneTypeOK
    <2>5. qa' \in [Release -> Nat \cup {None}] /\ test' \in [Release -> Nat \cup {None}]
      BY <1>2, <2>1 DEF WriteStatus, LaneInv, LaneTypeOK
    <2>6. approval' \in [Release -> Nat \cup {None}]
      BY <1>2, <2>1 DEF WriteStatus, LaneInv, LaneTypeOK
    <2> QED BY <1>0, <1>3, <2>2, <2>3, <2>4, <2>5, <2>6, <2>7 DEF Commit, LaneInv, LaneTypeOK
  <1> QED BY <1>4, <1>5

\* A release whose status a commit changes was not over, unless the commit
\* overwrites.
LEMMA CommitMoves ==
    ASSUME LaneInv, NEW c \in Client, Commit(c), overwrites' = 0, NEW r \in Release,
           status'[r] # status[r]
    PROVE  /\ txn[c].op # "stamp" /\ r = txn[c].rel /\ status'[r] = txn[c].to
           /\ status[r] = txn[c].saw.status /\ overwrites = 0
           /\ status[r] \notin Terminal
  <1> DEFINE t == txn[c]
  <1>1. t \in Txn /\ status \in [Release -> Status] /\ overwrites \in Nat
    BY DEF Commit, LaneInv, LaneTypeOK
  <1>2. t.op # "stamp"
    BY DEF Commit, WriteStamp
  <1>3. r = t.rel /\ status'[r] = t.to
    BY <1>1, <1>2 DEF Commit, WriteStatus
  <1>4. overwrites = 0 /\ Row(t.rel) = t.saw
    BY <1>1 DEF Commit
  <1>5. status[r] = t.saw.status
    BY <1>3, <1>4 DEF Row
  <1>6. TxnMoves(t)
    BY <1>2 DEF Commit, LaneInv
  <1> QED BY <1>2, <1>3, <1>4, <1>5, <1>6 DEF TxnMoves

\* The commit of a status: the index keeps the lane single, the blockers of a
\* release that enters it have shipped, and open transactions stay as good.
LEMMA CommitStep ==
    ASSUME LaneInv, NEW c \in Client, Commit(c)
    PROVE  LaneInv'
  <1> DEFINE t == txn[c]
  <1>1. LaneTypeOK'
    BY CommitType
  <1>2. /\ t \in Txn /\ t.rel \in Release /\ txn' = [txn EXCEPT ![c] = NoTxn]
        /\ txn \in [Client -> Txn \cup {NoTxn}] /\ UNCHANGED <<deleted, blockedBy, drives>>
        /\ status \in [Release -> Status]
    BY DEF Commit, LaneInv, LaneTypeOK, Txn
  <1>3. \A d \in Driver : AtWork(d)'
    <2>1. CASE c \in Driver
      <3>1. step'[c] = "read" /\ \A d \in Driver \ {c} : step'[d] = step[d]
        BY <2>1 DEF Commit, LaneInv, LaneTypeOK
      <3>2. drives[c] \in Release
        BY <2>1 DEF Commit, LaneInv
      <3>3. txn'[c] = NoTxn /\ \A d \in Driver \ {c} : txn'[d] = txn[d]
        BY <1>2 DEF Client
      <3> QED BY <1>2, <2>1, <3>1, <3>2, <3>3 DEF LaneInv
    <2>2. CASE c \notin Driver
      BY <1>2, <2>2 DEF Commit, LaneInv
    <2> QED BY <2>1, <2>2
  <1>4. overwrites' = 0 => overwrites = 0
    BY CounterTypes DEF Commit
  <1>5. ASSUME overwrites' = 0, NEW r \in Release, AllShipped(r) PROVE AllShipped(r)'
    <2>1. \A b \in Release : status[b] = "shipped" => status'[b] = "shipped"
      BY <1>5, CommitMoves DEF Terminal
    <2> QED BY <1>2, <1>5, <2>1 DEF AllShipped
  <1>6. ASSUME NEW k \in Client, txn'[k] # NoTxn, txn'[k].op # "stamp"
        PROVE  TxnMoves(txn[k])'
    <2>1. txn'[k] = txn[k] /\ txn[k].rel \in Release
      BY <1>2, <1>6 DEF Txn
    <2>2. TxnMoves(txn[k])
      BY <1>6, <2>1 DEF LaneInv
    <2> QED BY <1>4, <1>5, <2>1, <2>2 DEF TxnMoves
  <1>7. \A r \in Release : status'[r] \in Lane => r \in ran'
    <2>1. CASE t.op = "stamp"
      BY <2>1 DEF Commit, WriteStamp, LaneInv
    <2>2. CASE t.op # "stamp"
      BY <1>2, <2>2 DEF Commit, WriteStatus, LaneInv
    <2> QED BY <2>1, <2>2
  <1>8. OneInLane'
    <2>1. CASE t.op = "stamp"
      BY <1>2, <2>1 DEF Commit, WriteStamp, LaneInv, OneInLane, InLane
    <2>2. CASE t.op # "stamp"
      <3>1. status' = [status EXCEPT ![t.rel] = t.to]
        BY <2>2 DEF Commit, WriteStatus
      <3>2. t.to \in Lane /\ t.rel \notin deleted => LaneFree(t.rel)
        BY <2>2 DEF Commit, IndexRefuses
      <3> QED BY <1>2, <3>1, <3>2 DEF LaneInv, OneInLane, InLane, LaneFree
    <2> QED BY <2>1, <2>2
  <1>9. BlockersFirst'
    <2>1. CASE overwrites' # 0
      BY <2>1 DEF BlockersFirst
    <2>2. CASE overwrites' = 0
      <3>1. \A r \in ran : r \in Release /\ AllShipped(r)
        BY <1>4, <2>2 DEF LaneInv, LaneTypeOK, BlockersFirst, AllShipped
      <3>2. CASE t.op = "stamp" \/ t.to \notin Lane
        <4>1. ran' = ran
          BY <3>2 DEF Commit, WriteStamp, WriteStatus
        <4> QED BY <1>5, <2>2, <3>1, <4>1 DEF BlockersFirst, AllShipped
      <3>3. CASE t.op # "stamp" /\ t.to \in Lane
        <4>1. ran' = ran \cup {t.rel}
          BY <3>3 DEF Commit, WriteStatus
        <4>2. status[t.rel] = t.saw.status
          BY <2>2, CounterTypes DEF Commit, Row
        <4>3. t.rel \in ran \/ AllShipped(t.rel)
          BY <1>2, <1>4, <2>2, <3>3, <4>2 DEF Commit, LaneInv, TxnMoves
        <4>4. \A r \in ran' : AllShipped(r)'
          BY <1>2, <1>5, <2>2, <3>1, <4>1, <4>3
        <4> QED BY <4>4 DEF BlockersFirst, AllShipped
      <3> QED BY <3>2, <3>3
    <2> QED BY <2>1, <2>2
  <1> QED BY <1>1, <1>3, <1>6, <1>7, <1>8, <1>9 DEF LaneInv

LEMMA CommitFailsStep ==
    ASSUME LaneInv, NEW c \in Client, CommitFails(c)
    PROVE  LaneInv'
  <1>1. /\ txn' = [txn EXCEPT ![c] = NoTxn] /\ txn \in [Client -> Txn \cup {NoTxn}]
        /\ look' = look /\ look \in [Driver -> Nat \cup {None}] /\ StoreUnchanged
    BY DEF CommitFails, LaneInv, LaneTypeOK, StoreUnchanged
  <1>2. drives' \in [Driver -> Release \cup {NoRelease}] /\ step' \in [Driver -> Step]
    BY DEF CommitFails, LaneInv, LaneTypeOK, Step
  <1>3. txn'[c] = NoTxn /\ \A k \in Client \ {c} : txn'[k] = txn[k]
    BY <1>1
  <1>4. \A d \in Driver : AtWork(d)'
    <2>1. \A d \in Driver \ {c} : step'[d] = step[d] /\ drives'[d] = drives[d]
      BY DEF CommitFails, LaneInv, LaneTypeOK
    <2>2. c \in Driver => step'[c] = "idle"
      BY DEF CommitFails, LaneInv, LaneTypeOK
    <2>3. \A d \in Driver \ {c} : txn'[d] = txn[d]
      BY <1>3 DEF Client
    <2> QED BY <1>3, <2>1, <2>2, <2>3 DEF LaneInv
  <1>5. txn' \in [Client -> Txn \cup {NoTxn}]
    BY <1>1
  <1> QED BY <1>1, <1>2, <1>3, <1>4, <1>5, ClientStep

LEMMA LaneStep == LaneInv /\ [Next]_vars => LaneInv'
  <1> SUFFICES ASSUME LaneInv, [Next]_vars PROVE LaneInv'
    OBVIOUS
  <1>1. ASSUME NEW d \in Driver, DriverNext(d) PROVE LaneInv'
    BY <1>1, DriverStep, BuildEndsStep
  <1>2. ASSUME NEW p \in Person, Requests(p) PROVE LaneInv'
    BY <1>2, RequestsStep
  <1>3. ASSUME NEW c \in Client, Commit(c) \/ CommitFails(c) PROVE LaneInv'
    BY <1>3, CommitStep, CommitFailsStep
  <1>4. ASSUME NEW r \in Release,
               Approve(r) \/ ResolveItems(r) \/ SetLaneOrder(r) \/ Delete(r)
        PROVE  LaneInv'
    BY <1>4, PeopleStep
  <1>5. CASE UNCHANGED vars
    <2>1. LaneTypeOK'
      BY <1>5 DEF LaneInv, LaneTypeOK, vars, rowVars, recordVars, clientVars, historyVars
    <2> QED BY <1>5, <2>1, RecordStep DEF LaneInv, vars, rowVars, recordVars, clientVars,
               historyVars
  <1> QED BY <1>1, <1>2, <1>3, <1>4, <1>5 DEF Next

\* The invariant holds throughout: the types (of the row, the transactions, the
\* schedulers), single occupancy and the order of blocked releases.
THEOREM LaneSafety == Spec => []LaneInv
  BY LaneInit, LaneStep, PTL DEF Spec

\* releases.py, whatever is asked by whom: every value stays in its range.
THEOREM LaneTypes == Spec => []LaneTypeOK
  <1>1. LaneInv => LaneTypeOK
    BY DEF LaneInv
  <1> QED BY <1>1, LaneSafety, PTL

\* At most one live release is in the lane, by the gate or by the unique index
\* when two releases have passed it (releases.py _check_single_occupancy).
THEOREM SingleOccupancy == Spec => []OneInLane
  <1>1. LaneInv => OneInLane
    BY DEF LaneInv
  <1> QED BY <1>1, LaneSafety, PTL

\* A release goes through the lane after everything it is blocked by has
\* shipped, however long its transaction into the lane was open.
THEOREM BlockedWait == Spec => []BlockersFirst
  <1>1. LaneInv => BlockersFirst
    BY DEF LaneInv
  <1> QED BY <1>1, LaneSafety, PTL

\* The two formulations of the lane order, the monitor's (arbitrate_lane) and
\* the gate's, agree for any orders.
THEOREM MonitorAgrees == Spec => []MonitorAgreesWithGate
  <1>1. LaneInv => MonitorAgreesWithGate
    <2> SUFFICES ASSUME LaneInv, NEW r \in Admitted, Waiting(r), order[r] # NoOrder,
                        NEW o \in Release \ {r}, Waiting(o), order[o] # NoOrder
                 PROVE  ~(order[o] < order[r])
      BY DEF MonitorAgreesWithGate, OrderAllows
    <2>1. r \in Release /\ o \in Candidates /\ r \in Candidates
      BY DEF Admitted, Candidates, Occupants
    <2>2. r \notin Occupants
      BY DEF Occupants, InLane, Waiting, Lane
    <2>3. order[r] < order[o]
      BY <2>1, <2>2 DEF Admitted
    <2>4. order[r] \in Nat /\ order[o] \in Nat
      BY <2>1 DEF LaneInv, LaneTypeOK
    <2> QED BY <2>3, <2>4
  <1> QED BY <1>1, LaneSafety, PTL

\* A release that is over stays as it is: a status transaction never read it
\* so, and if it was over by the time of the commit, the commit overwrites.
THEOREM TerminalStays == Spec => TerminalIsFinal
  <1>1. ASSUME LaneInv, [Next]_vars, overwrites' = 0, NEW r \in Release,
               status[r] \in Terminal
        PROVE  status'[r] = status[r]
    <2>1. ASSUME NEW c \in Client, Commit(c) PROVE status'[r] = status[r]
      BY <1>1, <2>1, CommitMoves
    <2>2. CASE ~\E c \in Client : Commit(c)
      <3>1. ASSUME NEW d \in Driver, DriverNext(d) PROVE status' = status
        BY <3>1 DEF DriverNext, Launch, MonitorPass, Start, ReadState, Transition, Develop,
           BuildEnds, Look, Verdict, Dies, StoreUnchanged, rowVars
      <3>2. ASSUME NEW p \in Person, Requests(p) PROVE status' = status
        BY <3>2 DEF Requests, StoreUnchanged, rowVars
      <3>3. ASSUME NEW c \in Client, CommitFails(c) PROVE status' = status
        BY <3>3 DEF CommitFails, rowVars
      <3>4. ASSUME NEW q \in Release,
                   Approve(q) \/ ResolveItems(q) \/ SetLaneOrder(q) \/ Delete(q)
            PROVE  status' = status
        BY <3>4 DEF Approve, ResolveItems, SetLaneOrder, Delete, rowVars
      <3>5. CASE UNCHANGED vars
        BY <3>5 DEF vars, rowVars
      <3> QED BY <1>1, <2>2, <3>1, <3>2, <3>3, <3>4, <3>5 DEF Next
    <2> QED BY <2>1, <2>2
  <1>2. LaneInv /\ [Next]_vars =>
          [overwrites' = 0 =>
             \A r \in Release : status[r] \in Terminal => status'[r] = status[r]]_vars
    BY <1>1
  <1> QED BY <1>2, LaneSafety, PTL DEF Spec, TerminalIsFinal

---------------------------------------------------------------------------
\* What ships was judged, and what is retired leaves its records.

LEMMA MovesBack ==
    \A s \in Status :
        /\ "ready" \notin Moves[s]
        /\ "shipped" \in Moves[s] => s = "deployment"
        /\ "deployment" \in Moves[s] => s = "testing"
        /\ "testing" \in Moves[s] => s = "qa"
        /\ s = "deployment" => Moves[s] \subseteq {"development"} \cup Terminal
  BY DEF Moves, Status, Lane, Terminal

\* The kinds of value that the history and the rows hold.
LEMMA RowTypes ==
    ASSUME LaneInv, NEW r \in Release
    PROVE  /\ status[r] \in Status /\ work[r] \in Nat
           /\ qa[r] \in Nat \cup {None} /\ test[r] \in Nat \cup {None}
           /\ approval[r] \in Nat \cup {None} /\ None \notin Nat
  BY LaneAssumption DEF LaneInv, LaneTypeOK

LEMMA RowFields ==
    ASSUME NEW r
    PROVE  /\ Row(r).status = status[r] /\ Row(r).work = work[r]
           /\ Row(r).qa = qa[r] /\ Row(r).test = test[r]
           /\ Row(r)["qa"] = qa[r] /\ Row(r)["test"] = test[r]
  BY DEF Row

LEMMA StageInit == Init => StageInv
  <1> SUFFICES ASSUME Init PROVE StageInv
    OBVIOUS
  <1>1. \A r \in Release : Recorded(r) /\ OnVerdicts(r)
    BY DEF Init, Recorded, OnVerdicts, Retired
  <1>2. \A c \in Client : txn[c] = NoTxn
    BY DEF Init
  <1>3. \A d \in Driver : OnPresent(d)
    BY DEF Init, OnPresent
  <1> QED BY <1>1, <1>2, <1>3 DEF StageInv

\* A transaction is let in on what the row says now.
LEMMA OpenLetIn ==
    ASSUME LaneInv, NEW c \in Client, NEW op \in {"move", "abandon", "stamp"},
           NEW r \in Release, NEW to \in Status, NEW judged,
           Open(c, op, r, to, judged),
           op = "stamp" => r \in overtaken \/ judged = work[r]
    PROVE  LetIn(txn'[c]) /\ Since(txn'[c])
  <1> DEFINE t == [op |-> op, rel |-> r, to |-> to, saw |-> Row(r),
                   judged |-> judged,
                   auto |-> /\ op = "move" /\ to = "shipped"
                            /\ approval[r] = None]
  <1>1. txn'[c] = t
    BY DEF Open, LaneInv, LaneTypeOK
  <1>2. /\ t.op = op /\ t.rel = r /\ t.to = to /\ t.saw = Row(r) /\ t.judged = judged
        /\ t.auto <=> (op = "move" /\ to = "shipped" /\ approval[r] = None)
    OBVIOUS
  <1>3. Allowed(op, r, to)
    BY DEF Open
  <1> HIDE DEF t
  <1>4. LetIn(t)
    <2>1. CASE op = "move"
      BY <1>2, <1>3, <2>1, RowFields
         DEF Allowed, CanMove, Gate, LetIn, Retired
    <2>2. CASE op = "abandon"
      BY <1>2, <1>3, <2>2, RowFields DEF Allowed, CanAbandon, LetIn, Retired
    <2>3. CASE op = "stamp"
      BY <1>2, <1>3, <2>3, RowFields DEF Allowed, CanStamp, LetIn
    <2> QED BY <2>1, <2>2, <2>3
  <1>5. Since(t)
    BY <1>2, RowFields, RowTypes DEF Since
  <1> QED BY <1>1, <1>4, <1>5

\* A step that leaves the store alone and opens at most one transaction.
LEMMA ClientStage ==
    ASSUME StageInv, StoreUnchanged, NEW c \in Client,
           \A k \in Client \ {c} : txn'[k] = txn[k],
           txn'[c] # NoTxn => txn'[c] = txn[c] \/ (LetIn(txn'[c]) /\ Since(txn'[c])),
           overwrites = 0 => \A d \in Driver : OnPresent(d)'
    PROVE  StageInv'
  <1>1. UNCHANGED <<status, deleted, order, blockedBy, qa, test, approval, items,
                    runs, plans, work, ran, overtaken, overwrites, edits>>
    BY DEF StoreUnchanged, rowVars, recordVars, historyVars
  <1> SUFFICES ASSUME overwrites = 0 PROVE StageInv'
    BY <1>1 DEF StageInv
  <1>2. \A r \in Release : Recorded(r)' /\ (r \in overtaken' \/ OnVerdicts(r)')
    BY <1>1 DEF StageInv, Recorded, OnVerdicts
  <1>3. ASSUME NEW k \in Client, txn'[k] # NoTxn
        PROVE  LetIn(txn[k])' /\ Since(txn[k])'
    <2>1. LetIn(txn'[k]) /\ Since(txn'[k])
      BY <1>3 DEF StageInv
    <2> QED BY <1>1, <2>1 DEF LetIn, Since, Row
  <1> QED BY <1>2, <1>3 DEF StageInv

LEMMA RequestsStage ==
    ASSUME LaneInv, StageInv, NEW p \in Person, Requests(p)
    PROVE  StageInv'
  <1>1. PICK r \in Release, to \in Status :
           \/ Open(p, "move", r, to, None)
           \/ Open(p, "abandon", r, to, None)
           \/ Open(p, "stamp", r, to, work[r])
    BY DEF Requests
  <1>2. p \in Client
    BY DEF Client
  <1>3. LetIn(txn'[p]) /\ Since(txn'[p])
    BY <1>1, <1>2, OpenLetIn
  <1>4. \A k \in Client \ {p} : txn'[k] = txn[k]
    BY <1>1, <1>2 DEF Open, LaneInv, LaneTypeOK
  <1>5. UNCHANGED <<drives, step, look>> /\ StoreUnchanged
    BY DEF Requests
  <1>6. overwrites = 0 => \A d \in Driver : OnPresent(d)'
    BY <1>5 DEF StageInv, OnPresent, StoreUnchanged, historyVars
  <1> QED BY <1>2, <1>3, <1>4, <1>5, <1>6, ClientStage

\* A scheduler that ends or goes on, and has no transaction open afterwards.
LEMMA DriverMoves ==
    ASSUME LaneInv, StageInv, NEW d \in Driver, StoreUnchanged,
           txn' = txn \/ txn' = [txn EXCEPT ![d] = NoTxn],
           \A e \in Driver \ {d} : step'[e] = step[e] /\ drives'[e] = drives[e]
                                   /\ look'[e] = look[e],
           step'[d] \in {"judge_qa", "judge_test"} => look'[d] = work[drives'[d]]
    PROVE  StageInv'
  <1>1. d \in Client /\ txn \in [Client -> Txn \cup {NoTxn}]
    BY DEF Client, LaneInv, LaneTypeOK
  <1>2. overwrites = 0 => \A e \in Driver : OnPresent(e)'
    BY DEF StageInv, OnPresent, StoreUnchanged, historyVars
  <1>3. \A k \in Client \ {d} : txn'[k] = txn[k]
    BY <1>1
  <1>4. txn'[d] # NoTxn => txn'[d] = txn[d]
    BY <1>1
  <1> QED BY <1>1, <1>2, <1>3, <1>4, ClientStage

\* ... or that opens one.
LEMMA DriverOpens ==
    ASSUME LaneInv, StageInv, NEW d \in Driver, StoreUnchanged,
           drives[d] \in Release, NEW op \in {"move", "stamp"}, NEW to \in Status, NEW judged,
           Open(d, op, drives[d], to, judged),
           overwrites = 0 /\ op = "stamp" =>
               drives[d] \in overtaken \/ judged = work[drives[d]],
           UNCHANGED <<drives, step, look>>
    PROVE  StageInv'
  <1>1. d \in Client /\ txn \in [Client -> Txn \cup {NoTxn}]
    BY DEF Client, LaneInv, LaneTypeOK
  <1>2. overwrites = 0 => \A e \in Driver : OnPresent(e)'
    BY DEF StageInv, OnPresent, StoreUnchanged, historyVars
  <1>3. \A k \in Client \ {d} : txn'[k] = txn[k]
    BY <1>1 DEF Open
  <1>4. overwrites = 0 => LetIn(txn'[d]) /\ Since(txn'[d])
    BY <1>1, OpenLetIn
  <1>5. CASE overwrites = 0
    BY <1>1, <1>2, <1>3, <1>4, <1>5, ClientStage
  <1>6. CASE overwrites # 0
    BY <1>6 DEF StageInv, StoreUnchanged, historyVars
  <1> QED BY <1>5, <1>6

\* A step that leaves the rows' verdicts, the transactions and the history
\* alone.
LEMMA RecordStage ==
    ASSUME LaneInv, StageInv,
           UNCHANGED <<status, qa, test, plans, runs, txn, work, ran, overtaken,
                       overwrites>>,
           \A r \in Release : approval'[r] = approval[r]
               \/ (approval'[r] = work[r] /\ work[r] # None /\ None \notin {qa[r], test[r]}),
           \A d \in Driver : OnPresent(d) => OnPresent(d)'
    PROVE  StageInv'
  <1> SUFFICES ASSUME overwrites = 0 PROVE StageInv'
    BY DEF StageInv
  <1>1. \A r \in Release : Recorded(r)' /\ (r \in overtaken' \/ OnVerdicts(r)')
    BY DEF StageInv, Recorded, OnVerdicts
  <1>2. ASSUME NEW c \in Client, txn'[c] # NoTxn PROVE LetIn(txn[c])' /\ Since(txn[c])'
    <2>1. LetIn(txn[c]) /\ Since(txn[c])
      BY <1>2 DEF StageInv
    <2>2. LetIn(txn[c])'
      BY <2>1 DEF LetIn
    <2>3. txn[c].rel \in Release
      BY <1>2 DEF LaneInv, LaneTypeOK, Txn
    <2>4. Since(txn[c])'
      BY <2>1, <2>3 DEF Since, Row
    <2> QED BY <2>2, <2>4
  <1> QED BY <1>1, <1>2 DEF StageInv

LEMMA PeopleStage ==
    ASSUME LaneInv, StageInv, NEW r \in Release,
           Approve(r) \/ ResolveItems(r) \/ SetLaneOrder(r) \/ Delete(r)
    PROVE  StageInv'
  <1>1. work[r] \in Nat /\ None \notin Nat /\ approval \in [Release -> Nat \cup {None}]
    BY RowTypes DEF LaneInv, LaneTypeOK
  <1>2. CASE Approve(r)
    BY <1>1, <1>2, RecordStage DEF Approve, OnPresent, rowVars, clientVars, historyVars
  <1>3. CASE ResolveItems(r)
    BY <1>3, RecordStage DEF ResolveItems, OnPresent, rowVars, clientVars, historyVars
  <1>4. CASE SetLaneOrder(r) \/ Delete(r)
    BY <1>4, RecordStage DEF SetLaneOrder, Delete, OnPresent, recordVars, clientVars
  <1> QED BY <1>2, <1>3, <1>4

LEMMA DriverStage ==
    ASSUME LaneInv, StageInv, NEW d \in Driver, DriverNext(d)
    PROVE  StageInv'
  <1>1. /\ drives \in [Driver -> Release \cup {NoRelease}]
        /\ step \in [Driver -> Step] /\ look \in [Driver -> Nat \cup {None}]
        /\ step[d] # "idle" => drives[d] \in Release
    BY DEF LaneInv, LaneTypeOK
  <1>2. ASSUME Halt(d), StoreUnchanged, txn' = txn \/ txn' = [txn EXCEPT ![d] = NoTxn]
        PROVE  StageInv'
    BY <1>1, <1>2, DriverMoves DEF Halt
  <1>3. ASSUME NEW s, s \notin {"judge_qa", "judge_test"}, GoTo(d, s), StoreUnchanged, txn' = txn
        PROVE  StageInv'
    BY <1>1, <1>3, DriverMoves DEF GoTo
  <1>4. ASSUME NEW r \in Release, Start(d, r) PROVE StageInv'
    BY <1>1, <1>4, DriverMoves DEF Start
  <1>5. CASE Launch(d) \/ MonitorPass(d)
    BY <1>4, <1>5 DEF Launch, MonitorPass, Admitted, Occupants, Candidates
  <1>6. CASE ReadState(d)
    <2>1. DecideNext(drives[d]) \notin {"judge_qa", "judge_test"}
      BY DEF DecideNext
    <2> QED BY <1>2, <1>3, <1>6, <2>1 DEF ReadState
  <1>7. CASE Transition(d)
    <2>1. Target[step[d]] \in Status /\ drives[d] \in Release
      BY <1>1, <1>7 DEF Transition, Target, Status, Lane, Terminal
    <2>2. CASE /\ Open(d, "move", drives[d], Target[step[d]], None)
               /\ UNCHANGED <<drives, step, look>>
      BY <1>7, <2>1, <2>2, DriverOpens DEF Transition
    <2>3. CASE (GoTo(d, "read") \/ Halt(d)) /\ UNCHANGED txn
      BY <1>2, <1>3, <1>7, <2>3 DEF Transition
    <2> QED BY <1>7, <2>2, <2>3 DEF Transition
  <1>8. CASE Develop(d)
    BY <1>2, <1>3, <1>8 DEF Develop
  <1>9. CASE BuildEnds(d)
    <2>1. \A e \in Driver : OnPresent(e) => OnPresent(e)'
      BY <1>1, <1>9 DEF BuildEnds, GoTo, Halt, OnPresent, rowVars, historyVars
    <2> QED BY <1>9, <2>1, RecordStage DEF BuildEnds, rowVars, historyVars
  <1>10. CASE Look(d)
    BY <1>1, <1>10, DriverMoves DEF Look
  <1>11. CASE Verdict(d)
    <2> DEFINE stage == IF step[d] = "judge_qa" THEN "qa" ELSE "testing"
    <2>1. /\ stage \in Status /\ step[d] \in {"judge_qa", "judge_test"}
          /\ drives[d] \in Release /\ StoreUnchanged
      BY <1>1, <1>11 DEF Verdict, Status, Lane
    <2>2. CASE Open(d, "stamp", drives[d], stage, look[d]) /\ UNCHANGED <<drives, step, look>>
      <3>1. overwrites = 0 => drives[d] \in overtaken \/ look[d] = work[drives[d]]
        BY <2>1 DEF StageInv, OnPresent
      <3> HIDE DEF stage
      <3> QED BY <2>1, <2>2, <3>1, DriverOpens
    <2>3. CASE Halt(d) /\ UNCHANGED txn
      BY <1>2, <2>1, <2>3
    <2> QED BY <1>11, <2>2, <2>3 DEF Verdict
  <1>12. CASE Dies(d)
    BY <1>2, <1>12 DEF Dies
  <1> QED BY <1>5, <1>6, <1>7, <1>8, <1>9, <1>10, <1>11, <1>12 DEF DriverNext

LEMMA CommitFailsStage ==
    ASSUME LaneInv, StageInv, NEW c \in Client, CommitFails(c)
    PROVE  StageInv'
  <1>1. /\ txn' = [txn EXCEPT ![c] = NoTxn] /\ txn \in [Client -> Txn \cup {NoTxn}]
        /\ look' = look /\ StoreUnchanged /\ UNCHANGED <<overtaken, work>>
        /\ step \in [Driver -> Step] /\ drives \in [Driver -> Release \cup {NoRelease}]
    BY DEF CommitFails, LaneInv, LaneTypeOK, StoreUnchanged, historyVars
  <1>2. txn'[c] = NoTxn /\ \A k \in Client \ {c} : txn'[k] = txn[k]
    BY <1>1
  <1>3. \A d \in Driver : OnPresent(d) => OnPresent(d)'
    BY <1>1 DEF CommitFails, OnPresent
  <1> QED BY <1>1, <1>2, <1>3, ClientStage DEF StageInv

\* What a commit leaves of a release that it does not write ...
RowStays(r) ==
    /\ Row(r)' = Row(r) /\ approval'[r] = approval[r]
    /\ r \in ran' <=> r \in ran
    /\ r \in runs' <=> r \in runs
    /\ r \in plans' <=> r \in plans

LEMMA CommitElsewhere ==
    ASSUME LaneInv, NEW c \in Client, Commit(c), NEW r \in Release, r # txn[c].rel
    PROVE  RowStays(r)
  <1>1. /\ status \in [Release -> Status] /\ work \in [Release -> Nat]
        /\ qa \in [Release -> Nat \cup {None}] /\ test \in [Release -> Nat \cup {None}]
        /\ approval \in [Release -> Nat \cup {None}]
    BY DEF LaneInv, LaneTypeOK
  <1>2. CASE txn[c].op = "stamp"
    BY <1>1, <1>2 DEF Commit, WriteStamp, RowStays, Row
  <1>3. CASE txn[c].op # "stamp"
    <2>1. WriteStatus(txn[c])
      BY <1>3 DEF Commit
    <2>2. status'[r] = status[r] /\ work'[r] = work[r]
      BY <1>1, <2>1 DEF WriteStatus
    <2>3. qa'[r] = qa[r] /\ test'[r] = test[r] /\ approval'[r] = approval[r]
      BY <1>1, <2>1 DEF WriteStatus
    <2>4. (r \in ran' <=> r \in ran) /\ (r \in runs' <=> r \in runs) /\ (r \in plans' <=> r \in plans)
      BY <2>1 DEF WriteStatus
    <2> QED BY <2>2, <2>3, <2>4 DEF RowStays, Row
  <1> QED BY <1>2, <1>3

\* ... and what it makes of the one it writes, if it overwrites nothing.
LEMMA CommitReads ==
    ASSUME LaneInv, NEW c \in Client, Commit(c), overwrites' = 0
    PROVE  /\ overwrites = 0 /\ txn[c] \in Txn /\ txn[c].rel \in Release
           /\ Row(txn[c].rel) = txn[c].saw
           /\ txn[c].saw.status = status[txn[c].rel] /\ txn[c].saw.work = work[txn[c].rel]
           /\ txn[c].saw.qa = qa[txn[c].rel] /\ txn[c].saw.test = test[txn[c].rel]
           /\ txn[c].saw["qa"] = qa[txn[c].rel] /\ txn[c].saw["test"] = test[txn[c].rel]
           /\ overtaken \subseteq overtaken'
  <1>1. txn[c] \in Txn /\ txn[c].rel \in Release
    BY DEF Commit, LaneInv, LaneTypeOK, Txn
  <1>2. overwrites = 0 /\ Row(txn[c].rel) = txn[c].saw
    BY CounterTypes DEF Commit
  <1>3. overtaken \subseteq overtaken'
    BY DEF Commit, WriteStamp, WriteStatus
  <1> QED BY <1>1, <1>2, <1>3, RowFields

\* The pass of a stage, and with it the end of an approval.
StampDone(t) ==
    LET r == t.rel IN
    /\ status'[r] = status[r] /\ work'[r] = work[r] /\ approval'[r] = None
    /\ qa'[r] = (IF t.to = "qa" THEN t.judged ELSE qa[r])
    /\ test'[r] = (IF t.to = "qa" THEN test[r] ELSE t.judged)
    /\ UNCHANGED <<ran, runs, plans, overtaken, work>>

LEMMA CommitStamp ==
    ASSUME LaneInv, NEW c \in Client, Commit(c), overwrites' = 0, txn[c].op = "stamp"
    PROVE  StampDone(txn[c])
  <1>1. /\ txn[c].rel \in Release /\ approval \in [Release -> Nat \cup {None}]
        /\ qa \in [Release -> Nat \cup {None}] /\ test \in [Release -> Nat \cup {None}]
    BY CommitReads DEF LaneInv, LaneTypeOK
  <1> QED BY <1>1 DEF Commit, WriteStamp, StampDone

\* A rework takes the passes and an approval with it, any other move keeps them.
MoveDone(t) ==
    LET r == t.rel IN
    /\ status'[r] = t.to
    /\ work'[r] = (IF Bounced(t) THEN work[r] + 1 ELSE work[r])
    /\ qa'[r] = (IF Bounced(t) THEN None ELSE qa[r])
    /\ test'[r] = (IF Bounced(t) THEN None ELSE test[r])
    /\ Bounced(t) /\ ~t.auto =>
          approval'[r] = (IF qa[r] # None \/ test[r] # None THEN None ELSE approval[r])
    /\ ~Bounced(t) => approval'[r] = (IF t.auto THEN work[r] ELSE approval[r])
    /\ ran' = (IF t.to \in Lane THEN ran \cup {r} ELSE ran)
    /\ runs' = (IF t.op = "abandon" THEN runs \cup {r} ELSE runs)
    /\ plans' = (IF t.op = "move" /\ t.to = "cancelled" THEN plans \ {r} ELSE plans)
    /\ Bounced(t) /\ BeingJudged(r) => r \in overtaken'

LEMMA CommitMove ==
    ASSUME LaneInv, NEW c \in Client, Commit(c), overwrites' = 0, txn[c].op # "stamp"
    PROVE  MoveDone(txn[c])
  <1> DEFINE t == txn[c]
             r == t.rel
  <1>1. /\ r \in Release /\ approval \in [Release -> Nat \cup {None}]
        /\ status \in [Release -> Status] /\ work \in [Release -> Nat]
        /\ qa \in [Release -> Nat \cup {None}] /\ test \in [Release -> Nat \cup {None}]
        /\ Row(r) = t.saw /\ t.saw["qa"] = qa[r] /\ t.saw["test"] = test[r]
    BY CommitReads DEF LaneInv, LaneTypeOK
  <1>2. WriteStatus(t)
    BY DEF Commit
  <1>3. /\ Clears(t, "qa") <=> Bounced(t) /\ qa[r] # None
        /\ Clears(t, "test") <=> Bounced(t) /\ test[r] # None
    BY <1>1 DEF Clears
  <1> HIDE DEF t
  <1>4. status'[r] = t.to /\ work'[r] = (IF Bounced(t) THEN work[r] + 1 ELSE work[r])
    BY <1>1, <1>2 DEF WriteStatus
  <1>5. /\ qa'[r] = (IF Bounced(t) THEN None ELSE qa[r])
        /\ test'[r] = (IF Bounced(t) THEN None ELSE test[r])
    BY <1>1, <1>2, <1>3 DEF WriteStatus
  <1>6. /\ Bounced(t) /\ ~t.auto =>
              approval'[r] = (IF qa[r] # None \/ test[r] # None THEN None ELSE approval[r])
        /\ ~Bounced(t) => approval'[r] = (IF t.auto THEN work[r] ELSE approval[r])
    BY <1>1, <1>2, <1>3 DEF WriteStatus
  <1>7. /\ ran' = (IF t.to \in Lane THEN ran \cup {r} ELSE ran)
        /\ runs' = (IF t.op = "abandon" THEN runs \cup {r} ELSE runs)
        /\ plans' = (IF t.op = "move" /\ t.to = "cancelled" THEN plans \ {r} ELSE plans)
        /\ Bounced(t) /\ BeingJudged(r) => r \in overtaken'
    BY <1>2 DEF WriteStatus
  <1>8. MoveDone(t)
    BY <1>4, <1>5, <1>6, <1>7 DEF MoveDone
  <1> QED BY <1>8 DEF t

\* The release that is stamped.
LEMMA StampVerdicts ==
    ASSUME LaneInv, NEW t \in Txn, t.rel \in Release, StampDone(t), LetIn(t), t.op = "stamp",
           t.saw.status = status[t.rel], t.saw.work = work[t.rel], Recorded(t.rel),
           t.rel \in overtaken \/ OnVerdicts(t.rel)
    PROVE  Recorded(t.rel)' /\ (t.rel \in overtaken' \/ OnVerdicts(t.rel)')
  <1> DEFINE r == t.rel
  <1>1. Recorded(r)'
    BY DEF Recorded, StampDone
  <1>2. ASSUME r \notin overtaken PROVE OnVerdicts(r)'
    <2>1. t.judged = work[r] /\ status[r] \in {"qa", "testing"} /\ t.to = status[r]
      BY <1>2 DEF LetIn
    <2>2. work[r] \in Nat /\ None \notin Nat
      BY RowTypes
    <2> QED BY <1>2, <2>1, <2>2 DEF StampDone, OnVerdicts
  <1> QED BY <1>1, <1>2 DEF StampDone

\* The release that moves: its verdicts ...
LEMMA MoveVerdicts ==
    ASSUME LaneInv, NEW t \in Txn, t.rel \in Release, MoveDone(t), LetIn(t), Since(t),
           t.op # "stamp", Row(t.rel) = t.saw,
           t.saw.status = status[t.rel], t.saw.qa = qa[t.rel], t.saw.test = test[t.rel],
           OnVerdicts(t.rel)
    PROVE  OnVerdicts(t.rel)'
  <1>1. PICK r \in Release : r = t.rel
    OBVIOUS
  <1>2. /\ work[r] \in Nat /\ None \notin Nat /\ status[r] \in Status
        /\ t.op \in {"move", "abandon"} /\ t.to \in Status
    BY RowTypes DEF Txn
  <1>3. t.op = "abandon" => t.to \in Retired /\ ~t.auto
    BY DEF LetIn
  <1>4. t.op = "move" => t.to \in Moves[status[r]] /\ (t.auto => t.to = "shipped")
    BY <1>1 DEF LetIn
  <1>5. CASE Bounced(t)
    <2>1. ~t.auto /\ status'[r] = "development"
      BY <1>1, <1>2, <1>3, <1>4, <1>5 DEF Bounced, MoveDone
    <2>2. qa'[r] = None /\ test'[r] = None
      BY <1>1, <1>5 DEF MoveDone
    <2>3. approval'[r] = None
      BY <1>1, <1>5, <2>1 DEF MoveDone, OnVerdicts
    <2> QED BY <1>1, <2>1, <2>2, <2>3 DEF OnVerdicts
  <1>6. CASE ~Bounced(t)
    <2>1. /\ qa'[r] = qa[r] /\ test'[r] = test[r] /\ work'[r] = work[r]
          /\ status'[r] = t.to /\ approval'[r] = (IF t.auto THEN work[r] ELSE approval[r])
      BY <1>1, <1>6 DEF MoveDone
    <2>2. t.op = "abandon" => t.to \notin {"testing", "deployment", "shipped"}
      BY <1>3 DEF Retired
    <2>3. t.to = "testing" => qa[r] # None
      BY <1>1, <1>2, <1>4, <2>2, MovesBack DEF LetIn
    <2>4. t.to = "deployment" => qa[r] # None /\ test[r] # None
      BY <1>1, <1>2, <1>4, <2>2, MovesBack DEF LetIn, OnVerdicts
    <2>5. t.to = "shipped" => qa[r] # None /\ test[r] # None
      BY <1>1, <1>2, <1>4, <2>2, MovesBack DEF OnVerdicts
    <2>6. t.to = "shipped" /\ ~t.auto => approval[r] # None
      BY <1>1, <1>2, <2>2 DEF Since
    <2>7. t.auto => t.to = "shipped"
      BY <1>2, <1>3, <1>4
    <2> QED BY <1>1, <1>2, <2>1, <2>3, <2>4, <2>5, <2>6, <2>7 DEF OnVerdicts
  <1> QED BY <1>5, <1>6

\* ... and its records.
LEMMA MoveRecords ==
    ASSUME LaneInv, NEW t \in Txn, t.rel \in Release, MoveDone(t), LetIn(t),
           t.op # "stamp", TxnMoves(t), t.saw.status = status[t.rel], Recorded(t.rel)
    PROVE  Recorded(t.rel)'
  <1>1. PICK r \in Release : r = t.rel
    OBVIOUS
  <1>2. /\ status[r] \in Status /\ status[r] \notin Terminal
        /\ t.op \in {"move", "abandon"} /\ t.to \in Status
    BY <1>1, RowTypes DEF Txn, TxnMoves
  <1>3. r \in plans
    BY <1>1, <1>2 DEF Recorded, Terminal
  <1>4. t.op = "abandon" => t.to \in Retired /\ status[r] \in Lane
    BY <1>1 DEF LetIn
  <1>5. t.op = "move" => t.to \in Moves[status[r]] /\ ~(status[r] \in Lane /\ t.to \in Retired)
    BY <1>1 DEF LetIn
  <1>6. status'[r] = t.to /\ t.to # "ready"
    BY <1>1, <1>2, <1>4, <1>5, MovesBack DEF MoveDone, Retired
  <1>7. t.op = "move" /\ t.to \in Retired => r \notin ran /\ r \notin ran'
    BY <1>1, <1>2, <1>5 DEF Recorded, Status, MoveDone, Retired, Lane
  <1>8. /\ r \in plans' <=> ~(t.op = "move" /\ t.to = "cancelled")
        /\ r \in runs' <=> r \in runs \/ t.op = "abandon"
    BY <1>1, <1>3 DEF MoveDone
  <1>9. t.to = "cancelled" => t.to \in Retired
    BY DEF Retired
  <1>10. r \in ran' => r \in plans' /\ status'[r] # "ready"
    BY <1>6, <1>7, <1>8, <1>9
  <1>11. r \in ran' /\ status'[r] \in Retired => r \in runs'
    BY <1>2, <1>6, <1>7, <1>8
  <1>12. r \notin plans' => status'[r] = "cancelled"
    BY <1>6, <1>8
  <1> QED BY <1>1, <1>10, <1>11, <1>12 DEF Recorded

\* Another transaction on that release falls behind.
LEMMA SinceCommit ==
    ASSUME LaneInv, NEW t \in Txn, t.rel \in Release, NEW u \in Txn, u.rel = t.rel,
           LetIn(t), LetIn(u), t.saw.status = status[t.rel], Since(u),
           \/ t.op = "stamp" /\ StampDone(t)
           \/ t.op # "stamp" /\ MoveDone(t) /\ TxnMoves(t)
    PROVE  Since(u)'
  <1>1. PICK r \in Release : r = t.rel
    OBVIOUS
  <1>2. /\ work[r] \in Nat /\ status[r] \in Status /\ u.saw.work \in Nat
        /\ u.saw.status \in Status /\ t.op \in {"move", "abandon", "stamp"} /\ t.to \in Status
    BY RowTypes DEF Txn
  <1>3. /\ u.saw.work <= work[r]
        /\ u.saw.status = "deployment" /\ u.saw.work = work[r] =>
              status[r] \in {"deployment"} \cup Terminal
    BY <1>1 DEF Since
  <1>4. u.op = "move" /\ u.to = "shipped" => u.saw.status = "deployment"
    BY <1>2, MovesBack DEF LetIn
  <1>5. u.op = "move" /\ u.to = "shipped" /\ ~u.auto /\ Row(r) = u.saw => approval[r] # None
    BY <1>1 DEF Since
  <1>6. CASE t.op = "stamp"
    <2>1. status'[r] = status[r] /\ work'[r] = work[r] /\ status[r] \in {"qa", "testing"}
      BY <1>1, <1>6 DEF StampDone, LetIn
    <2>2. Row(r)' = u.saw => u.saw.status = status'[r]
      BY RowFields DEF Row
    <2>3. u.op = "move" /\ u.to = "shipped" => Row(r)' # u.saw
      BY <1>4, <2>1, <2>2
    <2> QED BY <1>1, <1>3, <2>1, <2>3 DEF Since
  <1>7. CASE t.op # "stamp"
    <2>1. /\ status'[r] = t.to
          /\ work'[r] = (IF Bounced(t) THEN work[r] + 1 ELSE work[r])
          /\ status[r] \notin Terminal
      BY <1>1, <1>7 DEF MoveDone, TxnMoves
    <2>2. t.op = "abandon" => t.to \in Terminal
      BY DEF LetIn, Retired, Terminal
    <2>3. t.op = "move" => t.to \in Moves[status[r]]
      BY <1>1 DEF LetIn
    <2>4. u.saw.work <= work'[r]
      BY <1>2, <1>3, <2>1
    <2>5. ASSUME u.saw.status = "deployment", u.saw.work = work'[r]
          PROVE  t.to \in Terminal /\ status[r] = "deployment"
      <3>1. ~Bounced(t) /\ u.saw.work = work[r]
        BY <1>2, <1>3, <2>1, <2>5
      <3>2. status[r] = "deployment"
        BY <1>3, <2>1, <2>5, <3>1
      <3>3. t.to # "development"
        BY <1>1, <3>1, <3>2 DEF Bounced, Lane
      <3>4. t.op = "move" => t.to \in Terminal
        BY <1>2, <2>3, <3>2, <3>3, MovesBack
      <3> QED BY <1>2, <1>7, <2>2, <3>2, <3>4
    <2>6. Row(r)' = u.saw => u.saw.status = status'[r] /\ u.saw.work = work'[r]
      BY DEF Row
    <2>7. u.op = "move" /\ u.to = "shipped" => Row(r)' # u.saw
      BY <1>4, <2>1, <2>5, <2>6 DEF Terminal
    <2> QED BY <1>1, <2>1, <2>4, <2>5, <2>7 DEF Since
  <1> QED BY <1>6, <1>7

LEMMA CommitStage ==
    ASSUME LaneInv, StageInv, NEW c \in Client, Commit(c)
    PROVE  StageInv'
  <1> SUFFICES ASSUME overwrites' = 0 PROVE StageInv'
    BY DEF StageInv
  <1>0. PICK t \in Txn : t = txn[c]
    BY CommitReads
  <1>1. /\ overwrites = 0 /\ t \in Txn /\ t.rel \in Release /\ Row(t.rel) = t.saw
        /\ t.saw.status = status[t.rel] /\ t.saw.work = work[t.rel]
        /\ t.saw.qa = qa[t.rel] /\ t.saw.test = test[t.rel]
        /\ overtaken \subseteq overtaken'
    BY <1>0, CommitReads
  <1>2. /\ t # NoTxn /\ txn' = [txn EXCEPT ![c] = NoTxn] /\ UNCHANGED <<drives, look>>
        /\ txn \in [Client -> Txn \cup {NoTxn}] /\ step \in [Driver -> Step]
        /\ step' = IF c \in Driver THEN [step EXCEPT ![c] = "read"] ELSE step
    BY <1>0 DEF Commit, LaneInv, LaneTypeOK
  <1>3. LetIn(t) /\ Since(t) /\ (t.op # "stamp" => TxnMoves(t))
    BY <1>0, <1>1, <1>2 DEF StageInv, LaneInv
  <1>4. \/ t.op = "stamp" /\ StampDone(t)
        \/ t.op # "stamp" /\ MoveDone(t) /\ TxnMoves(t)
    BY <1>0, <1>3, CommitStamp, CommitMove
  <1>5. Recorded(t.rel) /\ (t.rel \in overtaken \/ OnVerdicts(t.rel))
    BY <1>1 DEF StageInv
  <1>6. ASSUME NEW r \in Release PROVE Recorded(r)' /\ (r \in overtaken' \/ OnVerdicts(r)')
    <2>1. CASE r # t.rel
      <3>1. RowStays(r)
        BY <1>0, <2>1, CommitElsewhere
      <3>2. /\ status'[r] = status[r] /\ qa'[r] = qa[r] /\ test'[r] = test[r]
            /\ work'[r] = work[r]
        BY <3>1 DEF RowStays, Row
      <3>3. Recorded(r) /\ (r \in overtaken \/ OnVerdicts(r))
        BY <1>1 DEF StageInv
      <3> QED BY <1>1, <3>1, <3>2, <3>3 DEF RowStays, Recorded, OnVerdicts
    <2>2. CASE r = t.rel /\ t.op = "stamp"
      <3>1. StampDone(t)
        BY <1>4, <2>2
      <3> QED BY <1>1, <1>3, <1>5, <2>2, <3>1, StampVerdicts
    <2>3. CASE r = t.rel /\ t.op # "stamp"
      <3>1. MoveDone(t) /\ TxnMoves(t)
        BY <1>4, <2>3
      <3>2. Recorded(t.rel)'
        BY <1>1, <1>3, <1>5, <2>3, <3>1, MoveRecords
      <3>3. ASSUME OnVerdicts(t.rel) PROVE OnVerdicts(t.rel)'
        BY <1>1, <1>3, <2>3, <3>1, <3>3, MoveVerdicts
      <3> QED BY <1>1, <1>5, <2>3, <3>2, <3>3
    <2> QED BY <2>1, <2>2, <2>3
  <1>7. ASSUME NEW k \in Client, txn'[k] # NoTxn PROVE LetIn(txn[k])' /\ Since(txn[k])'
    <2>1. PICK u \in Txn : u = txn[k] /\ txn'[k] = u /\ u.rel \in Release
      BY <1>2, <1>7 DEF Txn
    <2>2. LetIn(u) /\ Since(u)
      BY <1>1, <1>7, <2>1 DEF StageInv
    <2>3. LetIn(u)'
      <3>1. u.op \in {"move", "abandon", "stamp"}
        BY DEF Txn
      <3> QED BY <1>1, <2>2, <3>1 DEF LetIn
    <2>4. CASE u.rel = t.rel
      <3>1. Since(u)'
        BY <1>1, <1>3, <1>4, <2>2, <2>4, SinceCommit
      <3> QED BY <2>1, <2>3, <3>1
    <2>5. CASE u.rel # t.rel
      <3>1. RowStays(u.rel)
        BY <1>0, <2>1, <2>5, CommitElsewhere
      <3>2. work'[u.rel] = work[u.rel] /\ status'[u.rel] = status[u.rel]
        BY <3>1 DEF RowStays, Row
      <3>3. Since(u)'
        BY <2>2, <3>1, <3>2 DEF Since, RowStays
      <3> QED BY <2>1, <2>3, <3>3
    <2> QED BY <2>4, <2>5
  <1>8. ASSUME NEW d \in Driver PROVE OnPresent(d)'
    <2> SUFFICES ASSUME step'[d] \in {"judge_qa", "judge_test"}
                 PROVE  drives'[d] \in overtaken' \/ look'[d] = work'[drives'[d]]
      BY DEF OnPresent
    <2>1. step'[d] = step[d] /\ drives'[d] = drives[d] /\ look'[d] = look[d]
      BY <1>2
    <2>2. drives[d] \in Release
      BY <2>1 DEF LaneInv
    <2>3. drives[d] \in overtaken \/ look[d] = work[drives[d]]
      BY <1>1, <2>1 DEF StageInv, OnPresent
    <2>4. CASE drives[d] # t.rel
      <3>1. work'[drives[d]] = work[drives[d]]
        BY <1>0, <2>2, <2>4, CommitElsewhere DEF RowStays, Row
      <3> QED BY <1>1, <2>1, <2>3, <3>1
    <2>5. CASE drives[d] = t.rel
      <3>1. BeingJudged(t.rel)
        BY <2>1, <2>5 DEF BeingJudged
      <3>2. t.rel \in overtaken' \/ work'[t.rel] = work[t.rel]
        BY <1>4, <3>1 DEF StampDone, MoveDone
      <3> QED BY <1>1, <2>1, <2>3, <2>5, <3>2
    <2> QED BY <2>4, <2>5
  <1> QED BY <1>6, <1>7, <1>8 DEF StageInv

LEMMA StageNext == LaneInv /\ StageInv /\ [Next]_vars => StageInv'
  <1> SUFFICES ASSUME LaneInv, StageInv, [Next]_vars PROVE StageInv'
    OBVIOUS
  <1>1. CASE UNCHANGED vars
    BY <1>1, RecordStage DEF OnPresent, vars, rowVars, recordVars, clientVars, historyVars
  <1>2. CASE Next
    BY <1>2, DriverStage, RequestsStage, CommitStage, CommitFailsStage, PeopleStage DEF Next
  <1> QED BY <1>1, <1>2

\* Where no transaction overwrites, each status stands on verdicts of the
\* present work, and what was in the lane keeps its records.
THEOREM StageInvariance == Spec => []StageInv
  <1>1. LaneInv /\ StageInv /\ [Next]_vars => (LaneInv /\ StageInv)'
    BY LaneStep, StageNext
  <1> QED BY LaneInit, StageInit, <1>1, PTL DEF Spec

\* What ships was judged by QA and by testing, and approved, as it is: for any
\* releases, schedulers, people and reworks, and any transactions between a
\* gate runner's look and its verdict.
THEOREM ShipsJudged == Spec => []JudgedWork
  <1>1. StageInv => JudgedWork
    BY DEF StageInv, OnVerdicts, JudgedWork
  <1> QED BY <1>1, StageInvariance, PTL

\* A release retired from the lane leaves its run record and its decomposition.
THEOREM RetiredRecorded == Spec => []EvidenceKept
  <1>1. LaneInv /\ StageInv => EvidenceKept
    BY DEF LaneInv, LaneTypeOK, StageInv, Recorded, Retired, EvidenceKept
  <1> QED BY <1>1, LaneSafety, StageInvariance, PTL
=============================================================================
