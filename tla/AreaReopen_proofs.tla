-------------------------- MODULE AreaReopen_proofs --------------------------
(***************************************************************************)
(* The areas of a release (AreaReopen), for any clients, agents, tasks,    *)
(* spine and number of reopens: an area has one owner, and a release ships *)
(* after everything downstream of its reopens has been validated again.    *)
(***************************************************************************)
EXTENDS AreaReopen, TLAPS

\* The areas a row obliges to validate again have all been.
Settled(k) ==
    reopens[k].state # "none" => Downstream(reopens[k].area) \subseteq passed[k]

\* What a claim checked still holds, but for the claims and the reopens that
\* were committed since.
ClaimGood(c) ==
    Claiming(c) =>
        /\ c \in crossed \/ ~OwnedByOther(txn[c].task, txn[c].agent)
        /\ \A k \in OpenRows :
              AreaOf[txn[c].task] \in Downstream(reopens[k].area) => <<c, k>> \in thawed

\* Two reopens under way are of two rows, which are free.
ReopenGood(c) ==
    txn[c].op = "reopen" =>
        /\ reopens[txn[c].row].state = "none"
        /\ \A d \in Client : d # c /\ txn[d].op = "reopen" => txn[d].row # txn[c].row

AreaInv ==
    /\ AreaTypeOK
    /\ OneOwnerPerArea
    /\ \A c \in Client : ClaimGood(c) /\ ReopenGood(c)
    /\ \A k \in Row : reopens[k].done \subseteq passed[k]
    /\ stage = "shipped" \/ (\E c \in Client : txn[c].op = "ship")
         => \A k \in Row \ missed : Settled(k)

\* The fields of an open transaction.
LEMMA TxnFields ==
  ASSUME NEW t \in Txns
  PROVE  /\ t.op = "claim" => t.task \in Task /\ t.agent \in Agent
         /\ t.op = "reopen" => t.row \in Row /\ t.area \in Area
         /\ t.op = "revalidate" => t.row \in Row /\ t.done \subseteq Area
  BY DEF Txns, NoTxn

LEMMA InitArea == Init => AreaInv
<1> SUFFICES ASSUME Init PROVE AreaInv
  OBVIOUS
<1>1. AreaTypeOK
  BY DEF Init, AreaTypeOK, Txns
<1>2. \A c \in Client : txn[c].op = "none"
  BY DEF Init, NoTxn
<1>3. OneOwnerPerArea
  BY DEF Init, OneOwnerPerArea
<1> QED
  BY <1>1, <1>2, <1>3 DEF Init, AreaInv, ClaimGood, Claiming, ReopenGood

\* A transaction is opened after its checks, and changes no row.
LEMMA BeginStep ==
  ASSUME AreaInv, NEW c \in Client, NEW t \in Txns, Begin(c, t),
         t.op = "claim" => ~OwnedByOther(t.task, t.agent) /\ AreaOf[t.task] \notin Paused,
         t.op = "reopen" =>
            /\ reopens[t.row].state = "none"
            /\ \A d \in Client : txn[d].op = "reopen" => txn[d].row # t.row,
         t.op = "ship" => \A k \in Row \ missed : Settled(k)
  PROVE  AreaInv'
<1>1. /\ txn' \in [Client -> Txns] /\ txn'[c] = t
      /\ \A d \in Client \ {c} : txn'[d] = txn[d]
  BY DEF AreaInv, AreaTypeOK, Begin
<1>2. UNCHANGED <<rows, ghosts>>
  BY DEF Begin
<1>3. AreaTypeOK' /\ OneOwnerPerArea'
  BY <1>1, <1>2 DEF AreaInv, AreaTypeOK, OneOwnerPerArea, rows, ghosts
<1>4. \A d \in Client : ClaimGood(d)'
  <2>1. /\ OpenRows' = OpenRows
        /\ \A k \in Row : Downstream(reopens'[k].area) = Downstream(reopens[k].area)
    BY <1>2 DEF OpenRows, Downstream, rows
  <2>2. t.op = "claim" => \A k \in OpenRows : AreaOf[t.task] \notin Downstream(reopens[k].area)
    BY DEF Paused
  <2>3. ClaimGood(c)'
    BY <1>1, <1>2, <2>1, <2>2 DEF ClaimGood, Claiming, OwnedByOther, OpenRows, rows
  <2>4. \A d \in Client \ {c} : ClaimGood(d)'
    BY <1>1, <1>2, <2>1 DEF AreaInv, ClaimGood, Claiming, OwnedByOther, OpenRows, rows, ghosts
  <2> QED
    BY <2>3, <2>4
<1>5. \A d \in Client : ReopenGood(d)'
  BY <1>1, <1>2 DEF AreaInv, ReopenGood, rows
<1>6. \A k \in Row : Settled(k) => Settled(k)'
  BY <1>2 DEF Settled, Downstream, rows, ghosts
<1>7. (stage = "shipped" \/ (\E d \in Client : txn[d].op = "ship")
         => \A k \in Row \ missed : Settled(k))'
  BY <1>1, <1>2, <1>6 DEF AreaInv, rows, ghosts
<1>8. (\A k \in Row : reopens[k].done \subseteq passed[k])'
  BY <1>2 DEF AreaInv, rows, ghosts
<1> QED
  BY <1>3, <1>4, <1>5, <1>7, <1>8 DEF AreaInv

LEMMA AskStep ==
  ASSUME AreaInv, NEW c \in Client,
         \/ \E t \in Task, a \in Agent : AskClaim(c, t, a)
         \/ \E k \in Row, a \in Area : AskReopen(c, k, a) \/ AskRevalidate(c, k, a)
         \/ AskShip(c)
  PROVE  AreaInv'
<1>1. ASSUME NEW t \in Task, NEW a \in Agent, AskClaim(c, t, a) PROVE AreaInv'
  <2> DEFINE x == [op |-> "claim", task |-> t, agent |-> a]
  <2>1. x \in Txns /\ x.op = "claim" /\ x.task = t /\ x.agent = a
    BY DEF Txns
  <2>2. Begin(c, x) /\ ~OwnedByOther(t, a) /\ AreaOf[t] \notin Paused
    BY <1>1 DEF AskClaim
  <2> HIDE DEF x
  <2> QED
    BY <2>1, <2>2, BeginStep
<1>2. ASSUME NEW k \in Row, NEW a \in Area, AskReopen(c, k, a) PROVE AreaInv'
  <2> DEFINE x == [op |-> "reopen", row |-> k, area |-> a]
  <2>1. x \in Txns /\ x.op = "reopen" /\ x.row = k
    BY DEF Txns
  <2>2. Begin(c, x) /\ reopens[k].state = "none"
    BY <1>2 DEF AskReopen
  <2>3. \A d \in Client : txn[d].op = "reopen" => txn[d].row # k
    BY <1>2 DEF AskReopen
  <2> HIDE DEF x
  <2> QED
    BY <2>1, <2>2, <2>3, BeginStep
<1>3. ASSUME NEW k \in Row, NEW a \in Area, AskRevalidate(c, k, a) PROVE AreaInv'
  <2> DEFINE x == [op |-> "revalidate", row |-> k, done |-> reopens[k].done \cup {a}]
  <2>1. x \in Txns /\ x.op = "revalidate"
    BY DEF Txns, AreaInv, AreaTypeOK
  <2>2. Begin(c, x)
    BY <1>3 DEF AskRevalidate
  <2> HIDE DEF x
  <2> QED
    BY <2>1, <2>2, BeginStep
<1>4. ASSUME AskShip(c) PROVE AreaInv'
  <2> DEFINE x == [op |-> "ship"]
  <2>1. x \in Txns /\ x.op = "ship"
    BY DEF Txns
  <2>2. Begin(c, x) /\ Outstanding = {}
    BY <1>4 DEF AskShip
  <2>3. ASSUME NEW k \in Row, reopens[k].state # "none"
        PROVE  Downstream(reopens[k].area) \subseteq reopens[k].done
    BY <2>2, <2>3 DEF Outstanding
  <2>4. \A k \in Row : Settled(k)
    BY <2>3 DEF AreaInv, Settled
  <2> HIDE DEF x
  <2> QED
    BY <2>1, <2>2, <2>4, BeginStep
<1> QED
  BY <1>1, <1>2, <1>3, <1>4

\* A commit closes its own transaction, and overtakes open claims.
LEMMA CommitFacts ==
  ASSUME AreaTypeOK, NEW c \in Client, NEW A, NEW K \in SUBSET Row, Commit(c, A, K)
  PROVE  /\ txn' \in [Client -> Txns] /\ txn'[c].op = "none"
         /\ \A d \in Client \ {c} : txn'[d] = txn[d]
         /\ crossed' \subseteq Client /\ thawed' \subseteq Client \X Row
         /\ \A d \in Client \ {c} : Claiming(d) =>
               /\ d \in crossed \/ AreaOf[txn[d].task] \in A => d \in crossed'
               /\ \A k \in Row : <<d, k>> \in thawed \/ k \in K => <<d, k>> \in thawed'
  BY DEF AreaTypeOK, Commit, Txns, NoTxn

\* An open claim stays good if it is told of every claim of its area and of
\* every reopen.
LEMMA ClaimsStayGood ==
  ASSUME AreaInv, stage' = "lane" => stage = "lane",
         \A d \in Client : Claiming(d)' =>
            /\ txn'[d] = txn[d] /\ (d \in crossed => d \in crossed')
            /\ d \in crossed' \/ \A u \in Task : AreaOf[u] = AreaOf[txn[d].task] =>
                                      claimant'[u] \in {claimant[u], None}
            /\ \A k \in Row : reopens'[k].state = "open" =>
                  \/ <<d, k>> \in thawed'
                  \/ reopens[k].state = "open" /\ reopens'[k].area = reopens[k].area
                        /\ <<d, k>> \notin thawed
  PROVE  \A d \in Client : ClaimGood(d)'
<1> SUFFICES ASSUME NEW d \in Client, Claiming(d)' PROVE ClaimGood(d)'
  BY DEF ClaimGood
<1>1. txn'[d] = txn[d] /\ Claiming(d) /\ ClaimGood(d)
  BY DEF Claiming, AreaInv
<1>2. d \in crossed' \/ ~OwnedByOther(txn[d].task, txn[d].agent)'
  BY <1>1 DEF ClaimGood, OwnedByOther
<1>3. \A k \in Row : reopens'[k].state = "open" =>
        (AreaOf[txn'[d].task] \in Downstream(reopens'[k].area) => <<d, k>> \in thawed')
  BY <1>1 DEF ClaimGood, OpenRows
<1> QED
  BY <1>1, <1>2, <1>3 DEF ClaimGood, OwnedByOther, OpenRows, Downstream

\* What a step that changes no row of area_reopens keeps.
LEMMA RowsKept ==
  ASSUME AreaInv, UNCHANGED <<stage, reopens, missed, passed>>,
         \A d \in Client : txn'[d] = txn[d] \/ txn'[d].op = "none"
  PROVE  /\ \A d \in Client : ReopenGood(d)'
         /\ (\A k \in Row : reopens[k].done \subseteq passed[k])'
         /\ (stage = "shipped" \/ (\E d \in Client : txn[d].op = "ship")
                => \A k \in Row \ missed : Settled(k))'
<1>1. \A d \in Client : ReopenGood(d)'
  BY DEF AreaInv, ReopenGood
<1>2. \A k \in Row : Settled(k) => Settled(k)'
  BY DEF Settled, Downstream
<1> QED
  BY <1>1, <1>2 DEF AreaInv

LEMMA DoClaimStep ==
  ASSUME AreaInv, NEW c \in Client, DoClaim(c) PROVE AreaInv'
<1>1. PICK t \in Task, a \in Agent :
        /\ t = txn[c].task /\ a = txn[c].agent
        /\ claimant' = [claimant EXCEPT ![t] = a]
        /\ raced' = IF c \in crossed THEN raced \cup {t} ELSE raced \ {t}
  BY TxnFields DEF DoClaim, Claiming, AreaInv, AreaTypeOK
<1>2. UNCHANGED <<stage, reopens, missed, passed>> /\ Commit(c, {AreaOf[t]}, {}) /\ Claiming(c)
  BY <1>1 DEF DoClaim
<1>3. AreaTypeOK'
  BY <1>1, <1>2, CommitFacts DEF AreaInv, AreaTypeOK
<1>4. OneOwnerPerArea'
  <2>1. CASE c \in crossed
    BY <2>1, <1>1, <1>2 DEF AreaInv, AreaTypeOK, OneOwnerPerArea
  <2>2. CASE c \notin crossed
    <3>1. ~OwnedByOther(t, a)
      BY <2>2, <1>1, <1>2 DEF AreaInv, ClaimGood
    <3> QED
      BY <2>2, <3>1, <1>1, <1>2 DEF AreaInv, AreaTypeOK, OneOwnerPerArea, OwnedByOther
  <2> QED
    BY <2>1, <2>2
<1>5. \A d \in Client : ClaimGood(d)'
  <2>1. \A u \in Task \ {t} : claimant'[u] = claimant[u]
    BY <1>1 DEF AreaInv, AreaTypeOK
  <2>2. \A d \in Client : Claiming(d)' => d # c /\ txn'[d] = txn[d] /\ Claiming(d)
    BY <1>2, CommitFacts DEF Claiming, AreaInv
  <2> QED
    BY <1>2, <2>1, <2>2, CommitFacts, ClaimsStayGood DEF AreaInv
<1> QED
  BY <1>2, <1>3, <1>4, <1>5, CommitFacts, RowsKept DEF AreaInv

LEMMA ReleaseStep ==
  ASSUME AreaInv, NEW t \in Task, ReleaseTask(t) PROVE AreaInv'
<1>1. AreaTypeOK'
  BY DEF ReleaseTask, Outside, AreaInv, AreaTypeOK
<1>2. OneOwnerPerArea'
  BY DEF ReleaseTask, AreaInv, AreaTypeOK, OneOwnerPerArea
<1>3. \A d \in Client : ClaimGood(d)'
  BY ClaimsStayGood DEF ReleaseTask, Outside, Claiming, AreaInv, AreaTypeOK
<1> QED
  BY <1>1, <1>2, <1>3, RowsKept DEF ReleaseTask, Outside, AreaInv

\* What a step that changes no claim keeps.
LEMMA OwnersKept ==
  ASSUME AreaInv, UNCHANGED <<claimant, raced>>, stage' = stage \/ stage' = "shipped"
  PROVE  OneOwnerPerArea'
  BY DEF AreaInv, OneOwnerPerArea

LEMMA DoReopenStep ==
  ASSUME AreaInv, NEW c \in Client, DoReopen(c) PROVE AreaInv'
<1>1. PICK k \in Row, a \in Area :
        /\ k = txn[c].row
        /\ reopens' = [reopens EXCEPT ![k] = [area |-> a, state |-> "open", done |-> {}]]
        /\ missed' = IF stage = "shipped" \/ \E d \in Client : txn[d].op = "ship"
                     THEN missed \cup {k} ELSE missed
  BY TxnFields DEF DoReopen, AreaInv, AreaTypeOK
<1>2. UNCHANGED <<stage, claimant, raced, passed>> /\ Commit(c, {}, {k}) /\ txn[c].op = "reopen"
  BY <1>1 DEF DoReopen
<1>3. AreaTypeOK'
  BY <1>1, <1>2, CommitFacts DEF AreaInv, AreaTypeOK
<1>4. OneOwnerPerArea'
  BY <1>2, OwnersKept
<1>5. \A d \in Client : ReopenGood(d)'
  <2>1. \A d \in Client \ {c} : txn[d].op = "reopen" => txn[d].row # k
    BY <1>1, <1>2 DEF AreaInv, ReopenGood
  <2>2. \A d \in Client \ {c} : txn[d].op = "reopen" => txn[d].row \in Row \ {k}
    BY <2>1, TxnFields DEF AreaInv, AreaTypeOK
  <2>3. \A j \in Row \ {k} : reopens'[j] = reopens[j]
    BY <1>1 DEF AreaInv, AreaTypeOK
  <2>4. \A d \in Client : txn'[d].op = "reopen" => d # c /\ txn'[d] = txn[d]
    BY <1>2, CommitFacts DEF AreaInv
  <2>5. \A d \in Client : ReopenGood(d)
    BY DEF AreaInv
  <2> QED
    BY <2>2, <2>3, <2>4, <2>5 DEF ReopenGood
<1>6. (\A j \in Row : reopens[j].done \subseteq passed[j])'
  <2>1. reopens'[k].done = {} /\ \A j \in Row \ {k} : reopens'[j] = reopens[j]
    BY <1>1 DEF AreaInv, AreaTypeOK
  <2> QED
    BY <2>1, <1>2 DEF AreaInv
<1>7. \A j \in Row \ {k} : Settled(j) => Settled(j)'
  BY <1>1, <1>2 DEF AreaInv, AreaTypeOK, Settled, Downstream
<1>8. (stage = "shipped" \/ (\E d \in Client : txn[d].op = "ship")
         => \A j \in Row \ missed : Settled(j))'
  <2>1. SUFFICES ASSUME stage' = "shipped" \/ (\E d \in Client : txn'[d].op = "ship")
                 PROVE  \A j \in Row \ missed' : Settled(j)'
    OBVIOUS
  <2>2. stage = "shipped" \/ \E d \in Client : txn[d].op = "ship"
    BY <2>1, <1>2, CommitFacts DEF AreaInv
  <2>3. missed' = missed \cup {k} /\ \A j \in Row \ missed : Settled(j)
    BY <2>2, <1>1 DEF AreaInv
  <2> QED
    BY <2>3, <1>7
<1>9. \A d \in Client : ClaimGood(d)'
  <2>1. \A j \in Row \ {k} : reopens'[j] = reopens[j]
    BY <1>1 DEF AreaInv, AreaTypeOK
  <2>2. \A d \in Client : Claiming(d)' => d # c /\ txn'[d] = txn[d] /\ Claiming(d)
    BY <1>2, CommitFacts DEF Claiming, AreaInv
  <2> QED
    BY <1>2, <2>1, <2>2, CommitFacts, ClaimsStayGood DEF AreaInv
<1> QED
  BY <1>2, <1>3, <1>4, <1>5, <1>6, <1>8, <1>9 DEF AreaInv

LEMMA DoRevalidateStep ==
  ASSUME AreaInv, NEW c \in Client, DoRevalidate(c) PROVE AreaInv'
<1>1. PICK k \in Row, d \in SUBSET Area :
        /\ reopens' = [reopens EXCEPT ![k].done = d]
        /\ passed' = [passed EXCEPT ![k] = @ \cup d]
  BY TxnFields DEF DoRevalidate, AreaInv, AreaTypeOK
<1>2. UNCHANGED <<stage, claimant, raced, missed>> /\ Commit(c, {}, {})
  BY DEF DoRevalidate
<1>3. AreaTypeOK'
  <2>1. reopens' \in [Row -> [area : Area \cup {None}, state : {"none", "open", "resolved"}, done : SUBSET Area]]
    BY <1>1 DEF AreaInv, AreaTypeOK
  <2>2. passed' \in [Row -> SUBSET Area]
    BY <1>1 DEF AreaInv, AreaTypeOK
  <2>3. /\ txn' \in [Client -> Txns] /\ crossed' \subseteq Client
        /\ thawed' \subseteq Client \X Row
    BY <1>2, CommitFacts DEF AreaInv
  <2> QED
    BY <1>2, <2>1, <2>2, <2>3 DEF AreaInv, AreaTypeOK
<1>4. OneOwnerPerArea'
  BY <1>2, OwnersKept
<1>5. \A j \in Row : /\ reopens'[j].area = reopens[j].area
                     /\ reopens'[j].state = reopens[j].state
                     /\ passed[j] \subseteq passed'[j]
  BY <1>1 DEF AreaInv, AreaTypeOK
<1>6. \A e \in Client : ReopenGood(e)'
  <2>1. \A e \in Client : txn[e].op = "reopen" => txn[e].row \in Row
    BY TxnFields DEF AreaInv, AreaTypeOK
  <2> QED
    BY <2>1, <1>2, <1>5, CommitFacts DEF AreaInv, ReopenGood
<1>7. (\A j \in Row : reopens[j].done \subseteq passed[j])'
  BY <1>1 DEF AreaInv, AreaTypeOK
<1>8. \A j \in Row : Settled(j) => Settled(j)'
  BY <1>5 DEF Settled, Downstream
<1>9. (stage = "shipped" \/ (\E e \in Client : txn[e].op = "ship")
         => \A j \in Row \ missed : Settled(j))'
  BY <1>2, <1>8, CommitFacts DEF AreaInv
<1>10. \A e \in Client : ClaimGood(e)'
  <2>1. \A e \in Client : Claiming(e)' => e # c /\ txn'[e] = txn[e] /\ Claiming(e)
    BY <1>2, CommitFacts DEF Claiming, AreaInv
  <2> QED
    BY <1>2, <1>5, <2>1, CommitFacts, ClaimsStayGood DEF AreaInv
<1> QED
  BY <1>2, <1>3, <1>4, <1>6, <1>7, <1>9, <1>10 DEF AreaInv

LEMMA DoShipStep ==
  ASSUME AreaInv, NEW c \in Client, DoShip(c) PROVE AreaInv'
<1>1. /\ UNCHANGED <<claimant, reopens, raced, missed, passed>> /\ Commit(c, {}, {})
      /\ txn[c].op = "ship" /\ stage' = "shipped"
  BY DEF DoShip
<1>2. AreaTypeOK'
  BY <1>1, CommitFacts DEF AreaInv, AreaTypeOK
<1>3. OneOwnerPerArea'
  BY <1>1, OwnersKept
<1>4. \A d \in Client : ReopenGood(d)'
  BY <1>1, CommitFacts DEF AreaInv, ReopenGood
<1>5. \A k \in Row \ missed : Settled(k)
  BY <1>1 DEF AreaInv
<1>6. \A k \in Row \ missed' : Settled(k)'
  BY <1>1, <1>5 DEF Settled, Downstream
<1>7. \A d \in Client : ClaimGood(d)'
  <2>1. \A d \in Client : Claiming(d)' => d # c /\ txn'[d] = txn[d] /\ Claiming(d)
    BY <1>1, CommitFacts DEF Claiming, AreaInv
  <2> QED
    BY <1>1, <2>1, CommitFacts, ClaimsStayGood DEF AreaInv
<1> QED
  BY <1>1, <1>2, <1>3, <1>4, <1>6, <1>7 DEF AreaInv

LEMMA RefreezeStep ==
  ASSUME AreaInv, NEW k \in Row, Refreeze(k) PROVE AreaInv'
<1>1. /\ UNCHANGED <<stage, claimant, raced, missed, passed>> /\ Outside
      /\ reopens[k].state = "open" /\ reopens' = [reopens EXCEPT ![k].state = "resolved"]
  BY DEF Refreeze
<1>2. AreaTypeOK'
  BY <1>1 DEF Outside, AreaInv, AreaTypeOK
<1>3. OneOwnerPerArea'
  BY <1>1, OwnersKept
<1>4. \A j \in Row : /\ reopens'[j].area = reopens[j].area
                     /\ reopens'[j].done = reopens[j].done
                     /\ reopens[j].state = "none" <=> reopens'[j].state = "none"
  BY <1>1 DEF AreaInv, AreaTypeOK
<1>5. \A e \in Client : ReopenGood(e)'
  <2>1. \A e \in Client : txn[e].op = "reopen" => txn[e].row \in Row
    BY TxnFields DEF AreaInv, AreaTypeOK
  <2> QED
    BY <2>1, <1>1, <1>4 DEF Outside, AreaInv, ReopenGood
<1>6. \A j \in Row : Settled(j) => Settled(j)'
  BY <1>1, <1>4 DEF Settled, Downstream
<1>7. (\A j \in Row : reopens[j].done \subseteq passed[j])'
  BY <1>1, <1>4 DEF AreaInv
<1>8. (stage = "shipped" \/ (\E e \in Client : txn[e].op = "ship")
         => \A j \in Row \ missed : Settled(j))'
  BY <1>1, <1>6 DEF Outside, AreaInv
<1>9. \A d \in Client : ClaimGood(d)'
  BY <1>1, <1>4, ClaimsStayGood DEF Outside, Claiming
<1> QED
  BY <1>2, <1>3, <1>5, <1>7, <1>8, <1>9 DEF AreaInv

LEMMA StepArea == AreaInv /\ [Next]_vars => AreaInv'
<1> SUFFICES ASSUME AreaInv, [Next]_vars PROVE AreaInv'
  OBVIOUS
<1>1. CASE UNCHANGED vars
  BY <1>1 DEF vars, rows, ghosts, AreaInv, AreaTypeOK, OneOwnerPerArea, ClaimGood, ReopenGood,
     Claiming, OwnedByOther, Settled, Downstream, OpenRows
<1>2. CASE Next
  BY <1>2, AskStep, DoClaimStep, DoReopenStep, DoRevalidateStep, DoShipStep,
     RefreezeStep, ReleaseStep DEF Next
<1> QED
  BY <1>1, <1>2

LEMMA AreaSafety == Spec => []AreaInv
  BY InitArea, StepArea, PTL DEF Spec

\* An area of a release in the lane has one owner, however its tasks are
\* claimed and released, unless another claim of the area came between the check
\* and the commit of one.
THEOREM SingleOwner == Spec => []OneOwnerPerArea
<1>1. AreaInv => OneOwnerPerArea
  BY DEF AreaInv
<1> QED
  BY <1>1, AreaSafety, PTL

\* A release ships after every area downstream of a reopen its check could see
\* has been validated again.
THEOREM ReopensRevalidated == Spec => []ShippedRevalidated
<1>1. AreaInv => ShippedRevalidated
  BY DEF AreaInv, ShippedRevalidated, Settled, Downstream
<1> QED
  BY <1>1, AreaSafety, PTL

\* A step claims a task by committing a claim of it; a reopen above it that is
\* open then was committed beside it.
LEMMA ClaimFirm ==
  ASSUME AreaInv, Next, NEW t \in Task, claimant[t] = None, claimant'[t] # None,
         NEW k \in Row, reopens[k].state = "open",
         Rank[reopens[k].area] # 0, Rank[AreaOf[t]] > Rank[reopens[k].area]
  PROVE  \E c \in Client : /\ txn[c].op = "claim" /\ txn[c].task = t
                           /\ txn'[c] = NoTxn /\ <<c, k>> \in thawed
<1>1. PICK c \in Client : DoClaim(c)
  BY DEF Next, AskClaim, AskReopen, AskRevalidate, AskShip, Begin, DoReopen, DoRevalidate,
     DoShip, Refreeze, ReleaseTask, rows, AreaInv, AreaTypeOK
<1>2. txn[c].op = "claim" /\ txn[c].task = t /\ txn'[c] = NoTxn
  BY <1>1 DEF DoClaim, Claiming, Commit, AreaInv, AreaTypeOK
<1>3. k \in OpenRows /\ AreaOf[t] \in Downstream(reopens[k].area)
  BY AreaAssumption DEF OpenRows, Downstream
<1> QED
  BY <1>2, <1>3 DEF AreaInv, ClaimGood, Claiming

\* No task is claimed above an open reopen, unless that reopen was committed
\* between the claim's check and its commit.
THEOREM FirmGround == Spec => ClaimsOnFirmGround
<1>1. AreaInv /\ [Next]_vars =>
        [\A t \in Task : claimant[t] = None /\ claimant'[t] # None =>
            \A k \in Row :
                /\ reopens[k].state = "open"
                /\ Rank[reopens[k].area] # 0 /\ Rank[AreaOf[t]] > Rank[reopens[k].area]
                => \E c \in Client : /\ txn[c].op = "claim" /\ txn[c].task = t
                                      /\ txn'[c] = NoTxn /\ <<c, k>> \in thawed]_vars
  BY ClaimFirm
<1> QED
  BY <1>1, AreaSafety, PTL DEF Spec, ClaimsOnFirmGround
=============================================================================
