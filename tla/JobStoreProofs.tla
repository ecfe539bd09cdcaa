--------------------------- MODULE JobStoreProofs ---------------------------
(* Theorems about JobStore, for any number of roots, packages, sessions    *)
(* and attempts.                                                           *)
EXTENDS JobStore, TLAPS

(* Only a Complete submits children, and it holds the row of their parent. *)
KidsHaveParent == \A s \in Session : tx[s].kids # {} => tx[s].rows # {}

TypeInv == TypeOK /\ KidsHaveParent

(* The record of a job that is inserted.                                   *)
LEMMA NewRowType == ASSUME NEW m \in Attempt \cup {0}, NEW f \in Job \cup {NoJob} PROVE NewRow(m, f) \in Row
  BY DEF NewRow, NoRow, Row, Queued, Active

(* A session without a transaction.                                        *)
LEMMA NoTxType == NoTx \in Tx
  BY DEF NoTx, Tx

(* The statuses that a transaction can give to a row.                      *)
LEMMA ToType ==
    ASSUME NEW t, NEW j
    PROVE  /\ To(t, j) \in Active \cup Terminal
           /\ EndedAs(t, j) \in AttemptStatus
           /\ RootTo(t, j) \in Terminal
  <1>1. CompleteTo(t, j) \in {"waiting", "completed"}
    BY DEF CompleteTo
  <1>2. FailTo(t, j) \in {"retry_scheduled", "dead_lettered", "failed", "cancelled"}
    BY DEF FailTo
  <1>3. ReclaimTo(j) \in {"cancelled", "dead_lettered", "pending"}
    BY DEF ReclaimTo
  <1>4. To(t, j) \in Active \cup Terminal
    BY <1>1, <1>2, <1>3 DEF To, Active, Queued, Terminal
  <1>5. EndedAs(t, j) \in AttemptStatus
    BY <1>2 DEF EndedAs, AttemptStatus, Terminal
  <1>6. RootTo(t, j) \in Terminal
    BY DEF RootTo, Terminal
  <1> QED BY <1>4, <1>5, <1>6

(* The row that Complete, Fail or ReclaimExpired writes.                   *)
LEMMA SettledType ==
    ASSUME TypeOK, NEW t, NEW j \in Job
    PROVE  Settled(t, j) \in Row
  <1>1. jobs[j] \in Row
    BY DEF TypeOK
  <1>2. To(t, j) \in Active \cup Terminal
    BY ToType
  <1>3. Release(jobs[j], To(t, j)) \in Row
    BY <1>1, <1>2 DEF Release, Row
  <1> QED BY <1>3 DEF Settled, Row

(* The empty schema is well typed.                                         *)
LEMMA TypeInit == Init => TypeInv
  BY NoTxType DEF Init, TypeInv, TypeOK, KidsHaveParent, NoRow, Row, AttemptStatus, NoTx

(* Every step preserves TypeInv: one case per operation of the store.      *)
LEMMA TypeStep == TypeInv /\ [Next]_vars => TypeInv'
  <1> SUFFICES ASSUME TypeInv, [Next]_vars PROVE TypeInv'
    OBVIOUS
  <1> USE DEF TypeInv
  <1>1. ASSUME NEW r \in Root, NEW m \in Attempt, Submit(r, m) PROVE TypeInv'
    <2>1. NewRow(m, NoJob) \in Row
      BY NewRowType
    <2> QED BY <1>1, <2>1 DEF Submit, TypeOK, KidsHaveParent, EventType, Job
  <1>2. ASSUME NEW j \in Job, Claim(j) PROVE TypeInv'
    <2> DEFINE n == jobs[j].attempts + 1
    <2>1. jobs[j] \in Row
      BY DEF TypeOK
    <2>2. [jobs[j] EXCEPT !.status = "running", !.attempts = n, !.token = n, !.live = TRUE] \in Row
      <3>1. n \in Nat
        BY <2>1 DEF Row
      <3>2. "running" \in Active
        BY DEF Active
      <3> HIDE DEF n
      <3> QED BY <2>1, <3>1, <3>2 DEF Row
    <2>3. jobs' \in [Job -> Row]
      BY <1>2, <2>2 DEF Claim, TypeOK
    <2>4. tries' \in [Job -> [Attempt -> AttemptStatus]]
      BY <1>2 DEF Claim, TypeOK, AttemptStatus
    <2>5. events' \in [Job -> SUBSET EventType]
      BY <1>2 DEF Claim, TypeOK, EventType
    <2> QED BY <1>2, <2>3, <2>4, <2>5 DEF Claim, TypeOK, KidsHaveParent
  <1>3. ASSUME NEW j \in Job, Cancel(j) PROVE TypeInv'
    <2>1. jobs[j] \in Row /\ "cancelled" \in Terminal
      BY DEF TypeOK, Terminal
    <2>2. /\ [jobs[j] EXCEPT !.status = "cancelled", !.cancel = TRUE] \in Row
          /\ [jobs[j] EXCEPT !.cancel = TRUE] \in Row
      BY <2>1 DEF Row
    <2>3. jobs' \in [Job -> Row]
      BY <1>3, <2>2 DEF Cancel, TypeOK
    <2>4. events' \in [Job -> SUBSET EventType]
      BY <1>3 DEF Cancel, TypeOK, EventType, Terminal
    <2> QED BY <1>3, <2>3, <2>4 DEF Cancel, TypeOK, KidsHaveParent
  <1>4. ASSUME NEW j \in Job, Due(j) \/ Expire(j) \/ \E n \in Attempt : Heartbeat(j, n)
        PROVE  TypeInv'
    <2>1. jobs[j] \in Row
      BY DEF TypeOK
    <2>2. /\ [jobs[j] EXCEPT !.due = TRUE] \in Row
          /\ [jobs[j] EXCEPT !.live = TRUE] \in Row
          /\ [jobs[j] EXCEPT !.live = FALSE] \in Row
      BY <2>1 DEF Row
    <2>3. jobs' \in [Job -> Row]
      BY <1>4, <2>2 DEF Due, Expire, Heartbeat, TypeOK
    <2> QED BY <1>4, <2>3 DEF Due, Expire, Heartbeat, TypeOK, KidsHaveParent
  <1>5. ASSUME NEW s \in Session, NEW t \in Tx, Lock(s, t), UNCHANGED tables,
               t.kids # {} => t.rows # {}
        PROVE  TypeInv'
    BY <1>5 DEF Lock, tables, TypeOK, KidsHaveParent
  <1>6. ASSUME NEW s \in Session, NEW j \in Job, NEW n \in Attempt,
               NEW kids \in SUBSET Descendants(RootOf(j)), NEW res \in BOOLEAN,
               CompleteBegin(s, j, n, kids, res)
        PROVE  TypeInv'
    <2> DEFINE t == [NoTx EXCEPT !.op = "complete", !.rows = {j}, !.n = n, !.kids = kids, !.res = res]
               u == [t EXCEPT !.idle = Idle(t)]
    <2>1. kids \subseteq Child
      BY DEF Descendants, RootOf, Child, Job
    <2>2. Idle(t) \subseteq Root
      BY DEF Idle
    <2>3. n \in Nat
      BY MaxAttemptsAssumption DEF Attempt
    <2>4. u \in Tx
      BY <2>1, <2>2, <2>3, NoTxType DEF Tx
    <2>5. u.rows # {}
      BY NoTxType DEF Tx
    <2>6. Lock(s, u) /\ UNCHANGED tables
      BY <1>6 DEF CompleteBegin
    <2> QED BY <1>5, <2>4, <2>5, <2>6
  <1>7. ASSUME NEW s \in Session, NEW j \in Job, NEW n \in Attempt, NEW kind \in Kind,
               FailBegin(s, j, n, kind)
        PROVE  TypeInv'
    <2> DEFINE t == [NoTx EXCEPT !.op = "fail", !.rows = {j}, !.n = n, !.kind = kind]
               u == [t EXCEPT !.idle = Idle(t)]
    <2>1. Idle(t) \subseteq Root
      BY DEF Idle
    <2>2. n \in Nat
      BY MaxAttemptsAssumption DEF Attempt
    <2>3. u \in Tx
      BY <2>1, <2>2, NoTxType DEF Tx
    <2>4. u.rows # {}
      BY NoTxType DEF Tx
    <2>5. Lock(s, u) /\ UNCHANGED tables
      BY <1>7 DEF FailBegin
    <2> QED BY <1>5, <2>3, <2>4, <2>5
  <1>8. ASSUME NEW s \in Session, ReclaimBegin(s) PROVE TypeInv'
    <2> DEFINE rows == {j \in Job : Expired(j)} \ Locked
               t == [NoTx EXCEPT !.op = "reclaim", !.rows = rows]
               u == [t EXCEPT !.idle = Idle(t)]
    <2>1. Idle(t) \subseteq Root
      BY DEF Idle
    <2>2. rows \subseteq Job
      OBVIOUS
    <2>3. u \in Tx
      BY <2>1, <2>2, NoTxType DEF Tx
    <2>4. t.rows = u.rows
      BY NoTxType DEF Tx
    <2>5. Lock(s, u) /\ UNCHANGED tables /\ t.rows # {}
      BY <1>8 DEF ReclaimBegin
    <2> QED BY <1>5, <2>3, <2>4, <2>5
  <1>9. ASSUME NEW s \in Session, NEW r \in Root, CancelBegin(s, r) PROVE TypeInv'
    <2> DEFINE rows == {r} \cup {d \in Descendants(r) : Status(d) \in Queued}
               t == [NoTx EXCEPT !.op = "cancel", !.rows = rows]
    <2>1. rows \subseteq Job
      BY DEF Descendants, Job, Child
    <2>2. t \in Tx
      BY <2>1, NoTxType DEF Tx
    <2>3. t.rows # {}
      BY NoTxType DEF Tx
    <2>4. Lock(s, t) /\ UNCHANGED tables
      BY <1>9 DEF CancelBegin
    <2> QED BY <1>5, <2>2, <2>3, <2>4
  <1>10. ASSUME NEW s \in Session, CommitSettle(s) PROVE TypeInv'
    <2> DEFINE t == tx[s]
    <2>1. t \in Tx
      BY DEF TypeOK
    <2>2. ASSUME NEW j \in New(t) PROVE ChildRow(t) \in Row
      <3>1. t.rows # {}
        BY <2>2 DEF New, KidsHaveParent
      <3>2. PICK p \in t.rows : p = CHOOSE q \in t.rows : TRUE
        BY <3>1
      <3>3. p \in Job
        BY <2>1, <3>2 DEF Tx
      <3>4. jobs[p].max \in Attempt \cup {0}
        BY <3>3 DEF TypeOK, Row
      <3> QED BY <3>2, <3>4, NewRowType DEF ChildRow
    <2>3. ASSUME NEW r \in Job
          PROVE  [jobs[r] EXCEPT !.status = RootTo(t, r), !.err = RootTo(t, r) # "completed"] \in Row
      <3>1. jobs[r] \in Row
        BY DEF TypeOK
      <3>2. RootTo(t, r) \in Terminal
        BY ToType
      <3> QED BY <3>1, <3>2 DEF Row
    <2>4. jobs' \in [Job -> Row]
      <3>1. \A j \in Job : Settled(t, j) \in Row
        BY SettledType
      <3>2. \A j \in Job : jobs[j] \in Row
        BY DEF TypeOK
      <3> QED BY <1>10, <2>2, <2>3, <3>1, <3>2 DEF CommitSettle
    <2>5. tries' \in [Job -> [Attempt -> AttemptStatus]]
      <3>1. \A j \in Job : EndedAs(t, j) \in AttemptStatus
        BY ToType
      <3> QED BY <1>10, <3>1 DEF CommitSettle, TypeOK
    <2>6. events' \in [Job -> SUBSET EventType]
      <3>1. \A j \in Job : To(t, j) \in EventType /\ RootTo(t, j) \in EventType
        BY ToType DEF EventType
      <3>2. "lease_expired" \in EventType
        BY DEF EventType
      <3> QED BY <1>10, <3>1, <3>2 DEF CommitSettle, TypeOK, EventOf
    <2>7. results' \in SUBSET Job
      BY <1>10, <2>1 DEF CommitSettle, TypeOK, Tx, Resulting, Finalized, Job
    <2>8. dlq' \in [Job -> Nat]
      <3>1. dlq' = [j \in Job |-> IF j \in DeadLettered(t) THEN dlq[j] + 1 ELSE dlq[j]]
        BY <1>10 DEF CommitSettle
      <3>2. dlq \in [Job -> Nat]
        BY DEF TypeOK
      <3> QED BY <3>1, <3>2
    <2>9. replayed' = replayed /\ tx' = [tx EXCEPT ![s] = NoTx]
      BY <1>10 DEF CommitSettle, Unlock
    <2>10. KidsHaveParent' /\ tx' \in [Session -> Tx]
      BY <2>9, NoTxType DEF KidsHaveParent, TypeOK, NoTx
    <2> QED BY <2>4, <2>5, <2>6, <2>7, <2>8, <2>9, <2>10 DEF TypeOK
  <1>11. ASSUME NEW s \in Session, CommitCancel(s) PROVE TypeInv'
    <2>1. ASSUME NEW j \in Job
          PROVE  /\ [jobs[j] EXCEPT !.status = "cancelled", !.cancel = TRUE] \in Row
                 /\ [jobs[j] EXCEPT !.cancel = TRUE] \in Row
                 /\ jobs[j] \in Row
      <3>1. jobs[j] \in Row /\ "cancelled" \in Terminal
        BY DEF TypeOK, Terminal
      <3> QED BY <3>1 DEF Row
    <2>2. jobs' \in [Job -> Row]
      BY <1>11, <2>1 DEF CommitCancel
    <2>3. events' \in [Job -> SUBSET EventType]
      BY <1>11 DEF CommitCancel, TypeOK, EventType, Terminal
    <2>4. tx' = [tx EXCEPT ![s] = NoTx] /\ UNCHANGED <<tries, results, dlq, replayed>>
      BY <1>11 DEF CommitCancel, Unlock
    <2>5. KidsHaveParent' /\ tx' \in [Session -> Tx]
      BY <2>4, NoTxType DEF KidsHaveParent, TypeOK, NoTx
    <2> QED BY <2>2, <2>3, <2>4, <2>5 DEF TypeOK
  <1>12. ASSUME NEW S \in SUBSET Session, Rollback(S) PROVE TypeInv'
    BY <1>12, NoTxType DEF Rollback, tables, TypeOK, KidsHaveParent, NoTx
  <1>13. ASSUME NEW j \in Job, NEW r \in Root, NEW m \in Attempt, Retry(j, r, m) PROVE TypeInv'
    BY <1>1, <1>13 DEF Retry
  <1>14. ASSUME NEW j \in Job, NEW r \in Root, NEW m \in Attempt, ReplayDLQ(j, r, m) PROVE TypeInv'
    <2>1. NewRow(m, j) \in Row
      BY NewRowType
    <2> QED BY <1>14, <2>1 DEF ReplayDLQ, TypeOK, KidsHaveParent, EventType, Job
  <1>15. CASE UNCHANGED vars
    BY <1>15 DEF vars, TypeOK, KidsHaveParent
  <1> QED
    BY <1>1, <1>2, <1>3, <1>4, <1>6, <1>7, <1>8, <1>9, <1>10, <1>11, <1>12, <1>13, <1>14, <1>15
    DEF Next, Settle

(* Type correctness: whatever callers do, every column keeps its type.     *)
THEOREM TypeCorrect == Spec => []TypeOK
  <1>1. TypeInv => TypeOK
    BY DEF TypeInv
  <1> QED BY <1>1, TypeInit, TypeStep, PTL DEF Spec
-----------------------------------------------------------------------------
(***************************************************************************)
(* The inductive invariant behind the safety theorems.                     *)
(***************************************************************************)

(* What an open transaction knows of the rows it has locked.               *)
TxFacts ==
    \A s \in Session :
        /\ tx[s].op = "none" => tx[s] = NoTx
        /\ tx[s].op # "complete" => tx[s].kids = {}
        /\ tx[s].op \in {"complete", "fail", "reclaim"} =>
              \A j \in tx[s].rows : Status(j) = "running"
        /\ tx[s].op \in {"complete", "fail"} =>
              \A j \in tx[s].rows : tx[s].n = jobs[j].attempts
        /\ tx[s].op = "complete" =>
              \E j \in Job : tx[s].rows = {j} /\ tx[s].kids \subseteq Descendants(RootOf(j))
        /\ tx[s].op = "cancel" =>
              /\ tx[s].idle = {}
              /\ \E r \in Root :
                    /\ r \in tx[s].rows /\ Status(r) = "waiting"
                    /\ \A j \in tx[s].rows \ {r} : j \in Descendants(r) /\ Status(j) \in Queued

LocksExclusive ==
    \A s, u \in Session : s # u => LockedBy(s) \cap LockedBy(u) = {}

(* Children appear only once their root has stopped running.               *)
FamilyOrder ==
    /\ \A d \in Child : Status(d) # "waiting"
    /\ \A r \in Root : \A d \in Descendants(r) : Exists(d) => Status(r) \in Terminal \cup {"waiting"}

(* A count of zero stays true until the transaction that took it ends: the *)
(* only rows of the audit that could add a descendant are its own.         *)
IdleSound ==
    \A s \in Session : \A r \in tx[s].idle :
        /\ \E j \in tx[s].rows : j \in Descendants(r)
        /\ \A d \in Descendants(r) : Seen(tx[s], d) \notin Active

AuditInv == TypeInv /\ TxFacts /\ LocksExclusive /\ FamilyOrder /\ IdleSound /\ AuditOutcomeSound

(* The columns of a row that decide what transactions do with it.          *)
SameRow(j) ==
    /\ jobs'[j].status = jobs[j].status /\ jobs'[j].cancel = jobs[j].cancel
    /\ jobs'[j].attempts = jobs[j].attempts /\ jobs'[j].max = jobs[j].max

(* Roots and children are different jobs, and a child has one root.        *)
LEMMA Families ==
    /\ \A r \in Root : \A d \in Descendants(r) : d \in Child /\ d \in Job /\ d \notin Root /\ RootOf(d) = r
    /\ \A j \in Job : j \notin Root => j \in Child /\ RootOf(j) \in Root /\ j \in Descendants(RootOf(j))
    /\ \A j \in Root : j \in Job /\ RootOf(j) = j
  <1>1. \A r \in Root : \A d \in Descendants(r) : d \in Child /\ d[1] = r
    BY DEF Descendants, Child
  <1>2. \A d \in Child : d \notin Root /\ d \in Job
    BY RootAssumption DEF Child, Job
  <1>3. \A j \in Child : j[1] \in Root /\ j \in Descendants(j[1])
    BY DEF Child, Descendants
  <1> QED BY <1>1, <1>2, <1>3 DEF RootOf, Job

(* Whether a transaction sees a job ended depends on SameRow columns only. *)
LEMMA SeenStable ==
    ASSUME NEW s \in Session, NEW d, tx'[s] = tx[s], SameRow(d),
           \A k \in tx[s].kids : (jobs'[k].status = "none") <=> (jobs[k].status = "none")
    PROVE  Seen(tx[s], d)' = Seen(tx[s], d)
  <1>1. New(tx[s])' = New(tx[s])
    BY DEF New, Exists, Status
  <1>2. To(tx[s], d)' = To(tx[s], d)
    BY DEF To, CompleteTo, FailTo, ReclaimTo, SameRow
  <1> QED BY <1>1, <1>2 DEF Seen, Status, SameRow

(* Rows whose deciding columns do not change keep the audit invariant:     *)
(* heartbeats and the passing of time.                                     *)
LEMMA QuietStep ==
    ASSUME AuditInv, tx' = tx, \A j \in Job : SameRow(j)
    PROVE  TxFacts' /\ LocksExclusive' /\ FamilyOrder' /\ IdleSound' /\ AuditOutcomeSound'
  <1>1. \A j \in Job : Status(j)' = Status(j) /\ Exists(j)' = Exists(j)
    BY DEF SameRow, Status, Exists
  <1>2. \A s \in Session : tx[s].kids \subseteq Child /\ tx[s].rows \subseteq Job /\ tx[s].idle \subseteq Root
    BY DEF AuditInv, TypeInv, TypeOK, Tx
  <1>3. Child \subseteq Job
    BY DEF Job
  <1>4. \A s \in Session : New(tx[s])' = New(tx[s])
    BY <1>1, <1>2, <1>3 DEF New
  <1>5. TxFacts'
    BY <1>1, <1>2, Families DEF AuditInv, TxFacts, SameRow
  <1>6. LocksExclusive'
    BY <1>4 DEF AuditInv, LocksExclusive, LockedBy
  <1>7. FamilyOrder'
    BY <1>1, <1>3, Families DEF AuditInv, FamilyOrder
  <1>8. IdleSound'
    <2> SUFFICES ASSUME NEW s \in Session, NEW r \in tx[s].idle
                 PROVE  /\ \E j \in tx[s].rows : j \in Descendants(r)
                        /\ \A d \in Descendants(r) : Seen(tx[s], d)' \notin Active
      BY DEF IdleSound
    <2>1. \A d \in Descendants(r) : Seen(tx[s], d)' = Seen(tx[s], d)
      <3> TAKE d \in Descendants(r)
      <3>1. SameRow(d)
        BY <1>2, Families
      <3>2. \A k \in tx[s].kids : (jobs'[k].status = "none") <=> (jobs[k].status = "none")
        BY <1>2, <1>3 DEF SameRow
      <3> QED BY <3>1, <3>2, SeenStable
    <2> QED BY <2>1 DEF AuditInv, IdleSound
  <1>9. AuditOutcomeSound'
    BY <1>1, Families DEF AuditInv, AuditOutcomeSound
  <1> QED BY <1>5, <1>6, <1>7, <1>8, <1>9

(* The same for a step that changes one row that no transaction has        *)
(* locked: a submission, a claim, or the cancellation of a queued or       *)
(* running job.                                                            *)
LEMMA OneRowStep ==
    ASSUME AuditInv, tx' = tx, NEW i \in Job, i \notin Locked,
           \A j \in Job \ {i} : jobs'[j] = jobs[j],
           \/ Status(i) = "none" /\ i \in Root /\ Status(i)' = "pending"
           \/ Status(i) \in Queued \cup {"running"} /\ Status(i)' \in {"running", "cancelled"}
    PROVE  TxFacts' /\ LocksExclusive' /\ FamilyOrder' /\ IdleSound' /\ AuditOutcomeSound'
  <1>1. \A j \in Job \ {i} : Status(j)' = Status(j) /\ Exists(j)' = Exists(j) /\ SameRow(j)
    BY DEF SameRow, Status, Exists
  <1>2. \A s \in Session : tx[s].kids \subseteq Child /\ tx[s].rows \subseteq Job /\ tx[s].idle \subseteq Root
    BY DEF AuditInv, TypeInv, TypeOK, Tx
  <1>3. Child \subseteq Job
    BY DEF Job
  <1>4. \A s \in Session : i \notin tx[s].rows /\ i \notin New(tx[s])
    BY DEF Locked, LockedBy
  <1>5. i \in Child => Exists(i) /\ Exists(i)' /\ Status(i) \in Queued \cup {"running"}
    BY Families, RootAssumption DEF Exists, Status, Queued, Child
  <1>6. \A k \in Child : Exists(k)' = Exists(k)
    BY <1>1, <1>3, <1>5 DEF Exists
  <1>7. \A s \in Session : New(tx[s])' = New(tx[s])
    BY <1>2, <1>6 DEF New
  <1>8. TxFacts'
    <2> SUFFICES ASSUME NEW s \in Session
                 PROVE  /\ tx[s].op = "none" => tx[s] = NoTx
                        /\ tx[s].op # "complete" => tx[s].kids = {}
                        /\ tx[s].op \in {"complete", "fail", "reclaim"} =>
                              \A j \in tx[s].rows : Status(j)' = "running"
                        /\ tx[s].op \in {"complete", "fail"} =>
                              \A j \in tx[s].rows : tx[s].n = jobs'[j].attempts
                        /\ tx[s].op = "complete" =>
                              \E j \in Job : tx[s].rows = {j} /\ tx[s].kids \subseteq Descendants(RootOf(j))
                        /\ tx[s].op = "cancel" =>
                              /\ tx[s].idle = {}
                              /\ \E r \in Root :
                                    /\ r \in tx[s].rows /\ Status(r)' = "waiting"
                                    /\ \A j \in tx[s].rows \ {r} : j \in Descendants(r) /\ Status(j)' \in Queued
      BY DEF TxFacts
    <2>1. \A j \in tx[s].rows : Status(j)' = Status(j) /\ jobs'[j].attempts = jobs[j].attempts
      BY <1>1, <1>2, <1>4 DEF SameRow
    <2> QED BY <2>1 DEF AuditInv, TxFacts
  <1>9. LocksExclusive'
    BY <1>7 DEF AuditInv, LocksExclusive, LockedBy
  <1>10. FamilyOrder'
    <2>1. \A d \in Child : Status(d)' # "waiting"
      BY <1>1, <1>3, <1>5 DEF AuditInv, FamilyOrder
    <2>2. ASSUME NEW r \in Root, NEW d \in Descendants(r), Exists(d)'
          PROVE  Status(r)' \in Terminal \cup {"waiting"}
      <3>1. Exists(d)
        BY <1>6, <2>2, Families
      <3>2. Status(r) \in Terminal \cup {"waiting"}
        BY <3>1 DEF AuditInv, FamilyOrder
      <3>3. r # i
        BY <3>2 DEF Terminal, Queued
      <3> QED BY <1>1, <3>2, <3>3, Families
    <2> QED BY <2>1, <2>2 DEF FamilyOrder
  <1>11. IdleSound'
    <2> SUFFICES ASSUME NEW s \in Session, NEW r \in tx[s].idle
                 PROVE  /\ \E j \in tx[s].rows : j \in Descendants(r)
                        /\ \A d \in Descendants(r) : Seen(tx[s], d)' \notin Active
      BY DEF IdleSound
    <2>1. r \in Root
      BY <1>2
    <2>2. i \notin Descendants(r)
      <3> SUFFICES ASSUME i \in Descendants(r) PROVE FALSE
        OBVIOUS
      <3>1. Status(i) \in Active
        BY <1>5, <2>1, Families DEF Active
      <3>2. Seen(tx[s], i) \in Active
        BY <1>4, <3>1 DEF Seen
      <3> QED BY <3>2 DEF AuditInv, IdleSound
    <2>3. \A d \in Descendants(r) : Seen(tx[s], d)' = Seen(tx[s], d)
      <3> TAKE d \in Descendants(r)
      <3>1. SameRow(d)
        BY <1>1, <2>1, <2>2, Families
      <3>2. \A k \in tx[s].kids : (jobs'[k].status = "none") <=> (jobs[k].status = "none")
        BY <1>2, <1>6 DEF Exists, Status
      <3> QED BY <3>1, <3>2, SeenStable
    <2> QED BY <2>3 DEF AuditInv, IdleSound
  <1>12. AuditOutcomeSound'
    <2> SUFFICES ASSUME NEW r \in Root
                 PROVE  LET ends == {Status(d)' : d \in Descendants(r)} IN
                        /\ ends \cap Active # {} => Status(r)' \in {"waiting", "cancelled"}
                        /\ Status(r)' = "completed" => ends \subseteq {"none", "completed"}
                        /\ "dead_lettered" \in ends =>
                              Status(r)' \in {"waiting", "cancelled", "dead_lettered"}
      BY DEF AuditOutcomeSound
    <2>1. CASE i = r
      <3>1. Status(r) \notin Terminal \cup {"waiting"}
        BY <2>1 DEF Terminal, Queued
      <3>2. \A d \in Descendants(r) : ~ Exists(d)
        BY <3>1 DEF AuditInv, FamilyOrder
      <3>3. \A d \in Descendants(r) : Status(d)' = "none"
        BY <1>6, <3>2, Families DEF Exists
      <3> QED BY <3>3, <2>1 DEF Active, Queued
    <2>2. CASE i \in Descendants(r)
      <3>1. Status(i) \in Active
        BY <1>5, <2>2, Families DEF Active
      <3>2. Status(r) \in {"waiting", "cancelled"}
        BY <2>2, <3>1 DEF AuditInv, AuditOutcomeSound
      <3>3. Status(r)' = Status(r)
        BY <1>1, <2>2, Families
      <3> QED BY <3>2, <3>3
    <2>3. CASE i # r /\ i \notin Descendants(r)
      <3>1. Status(r)' = Status(r) /\ \A d \in Descendants(r) : Status(d)' = Status(d)
        BY <1>1, <2>3, Families
      <3> QED BY <3>1 DEF AuditInv, AuditOutcomeSound
    <2> QED BY <2>1, <2>2, <2>3
  <1> QED BY <1>8, <1>9, <1>10, <1>11, <1>12

(* A transaction that begins: it locks rows nobody has locked, and what it *)
(* read holds now.                                                         *)
LEMMA BeginStep ==
    ASSUME AuditInv, NEW s \in Session, NEW t \in Tx, tx[s] = NoTx, Lock(s, t), UNCHANGED tables,
           (t.rows \cup New(t)) \cap Locked = {},
           t.op # "none",
           t.op # "complete" => t.kids = {},
           t.op \in {"complete", "fail", "reclaim"} => \A j \in t.rows : Status(j) = "running",
           t.op \in {"complete", "fail"} => \A j \in t.rows : t.n = jobs[j].attempts,
           t.op = "complete" =>
               \E j \in Job : t.rows = {j} /\ t.kids \subseteq Descendants(RootOf(j)),
           t.op = "cancel" =>
               /\ t.idle = {}
               /\ \E r \in Root :
                     /\ r \in t.rows /\ Status(r) = "waiting"
                     /\ \A j \in t.rows \ {r} : j \in Descendants(r) /\ Status(j) \in Queued,
           \A r \in t.idle : /\ \E j \in t.rows : j \in Descendants(r)
                             /\ \A d \in Descendants(r) : Seen(t, d) \notin Active
    PROVE  TxFacts' /\ LocksExclusive' /\ FamilyOrder' /\ IdleSound' /\ AuditOutcomeSound'
  <1>1. jobs' = jobs
    BY DEF tables
  <1>2. tx'[s] = t /\ \A u \in Session \ {s} : tx'[u] = tx[u]
    BY DEF Lock, AuditInv, TypeInv, TypeOK
  <1>3. TxFacts'
    <2>1. \A u \in Session \ {s} :
              /\ tx'[u].op = "none" => tx'[u] = NoTx
              /\ tx'[u].op # "complete" => tx'[u].kids = {}
              /\ tx'[u].op \in {"complete", "fail", "reclaim"} =>
                    \A j \in tx'[u].rows : jobs'[j].status = "running"
              /\ tx'[u].op \in {"complete", "fail"} =>
                    \A j \in tx'[u].rows : tx'[u].n = jobs'[j].attempts
              /\ tx'[u].op = "complete" =>
                    \E j \in Job : tx'[u].rows = {j} /\ tx'[u].kids \subseteq Descendants(RootOf(j))
              /\ tx'[u].op = "cancel" =>
                    /\ tx'[u].idle = {}
                    /\ \E r \in Root :
                          /\ r \in tx'[u].rows /\ jobs'[r].status = "waiting"
                          /\ \A j \in tx'[u].rows \ {r} : j \in Descendants(r) /\ jobs'[j].status \in Queued
      BY <1>1, <1>2 DEF AuditInv, TxFacts, Status
    <2> QED BY <1>1, <1>2, <2>1 DEF TxFacts, Status
  <1>4. LocksExclusive'
    <2>1. \A u \in Session : New(tx[u])' = New(tx'[u])
      BY <1>1 DEF New, Exists, Status
    <2>2. LockedBy(s)' = t.rows \cup New(t)
      BY <1>2, <2>1 DEF LockedBy
    <2>3. \A u \in Session \ {s} : LockedBy(u)' = LockedBy(u) /\ LockedBy(u) \subseteq Locked
      BY <1>2, <2>1 DEF LockedBy, Locked
    <2> QED BY <2>2, <2>3 DEF AuditInv, LocksExclusive
  <1>5. FamilyOrder' /\ AuditOutcomeSound'
    BY <1>1 DEF AuditInv, FamilyOrder, AuditOutcomeSound, Exists, Status
  <1>6. IdleSound'
    <2>1. \A u \in Session : \A d : Seen(tx[u], d)' = Seen(tx'[u], d)
      BY <1>1 DEF Seen, To, CompleteTo, FailTo, ReclaimTo, New, Exists, Status
    <2> QED BY <1>2, <2>1 DEF AuditInv, IdleSound
  <1> QED BY <1>3, <1>4, <1>5, <1>6

(* A transaction that ends gives up its locks.                             *)
LEMMA RollbackStep ==
    ASSUME AuditInv, NEW S \in SUBSET Session, Rollback(S)
    PROVE  TxFacts' /\ LocksExclusive' /\ FamilyOrder' /\ IdleSound' /\ AuditOutcomeSound'
  <1>1. jobs' = jobs
    BY DEF Rollback, tables
  <1>2. \A u \in Session : tx'[u] = NoTx \/ tx'[u] = tx[u]
    BY DEF Rollback
  <1>3. NoTx.op = "none" /\ NoTx.rows = {} /\ NoTx.kids = {} /\ NoTx.idle = {}
    BY DEF NoTx
  <1>4. \A u \in Session : \A d : Seen(tx[u], d)' = Seen(tx'[u], d)
    BY <1>1 DEF Seen, To, CompleteTo, FailTo, ReclaimTo, New, Exists, Status
  <1>5. \A u \in Session : New(tx[u])' = New(tx'[u])
    BY <1>1 DEF New, Exists, Status
  <1>6. \A u \in Session : LockedBy(u)' \subseteq LockedBy(u)
    <2> TAKE u \in Session
    <2>1. CASE tx'[u] = NoTx
      BY <1>3, <1>5, <2>1 DEF LockedBy, New
    <2>2. CASE tx'[u] = tx[u]
      BY <1>5, <2>2 DEF LockedBy
    <2> QED BY <1>2, <2>1, <2>2
  <1>7. TxFacts'
    BY <1>1, <1>2, <1>3 DEF AuditInv, TxFacts, Status
  <1>8. LocksExclusive'
    BY <1>6 DEF AuditInv, LocksExclusive
  <1>9. FamilyOrder' /\ AuditOutcomeSound'
    BY <1>1 DEF AuditInv, FamilyOrder, AuditOutcomeSound, Exists, Status
  <1>10. IdleSound'
    BY <1>2, <1>3, <1>4 DEF AuditInv, IdleSound
  <1> QED BY <1>7, <1>8, <1>9, <1>10

(* What CommitSettle does to the deciding columns.                         *)
LEMMA SettledRow ==
    ASSUME TypeOK, NEW t, NEW j \in Job
    PROVE  /\ Settled(t, j).status = To(t, j)
           /\ Settled(t, j).attempts = jobs[j].attempts
           /\ Settled(t, j).max = jobs[j].max
           /\ Settled(t, j).cancel = jobs[j].cancel
           /\ Settled(t, j).token = 0
           /\ Settled(t, j).from = jobs[j].from
  <1>1. jobs[j] \in Row
    BY DEF TypeOK
  <1> DEFINE row == Release(jobs[j], To(t, j))
  <1>2. /\ row.status = To(t, j) /\ row.token = 0 /\ row.attempts = jobs[j].attempts
        /\ row.max = jobs[j].max /\ row.cancel = jobs[j].cancel /\ row.from = jobs[j].from
        /\ row \in Row
    BY <1>1, ToType DEF Release, Row
  <1>3. Settled(t, j) = [row EXCEPT !.err = @ \/ t.op # "complete", !.due = @ /\ To(t, j) # "retry_scheduled"]
    BY DEF Settled
  <1> HIDE DEF row
  <1> QED BY <1>2, <1>3 DEF Row

(* What a commit of Complete, Fail or ReclaimExpired changes, by row.      *)
LEMMA CommitEffect ==
    ASSUME AuditInv, NEW s \in Session, CommitSettle(s)
    PROVE  /\ tx'[s] = NoTx /\ \A u \in Session \ {s} : tx'[u] = tx[u]
           /\ \A j \in tx[s].rows : Status(j) = "running" /\ Status(j)' = To(tx[s], j)
           /\ \A j \in New(tx[s]) : j \in Child /\ Status(j) = "none" /\ Status(j)' = "pending"
           /\ \A j \in Finalized(tx[s]) : j \in Root /\ Status(j) = "waiting" /\ Status(j)' = RootTo(tx[s], j)
           /\ \A j \in Job : j \notin tx[s].rows \cup New(tx[s]) \cup Finalized(tx[s]) => jobs'[j] = jobs[j]
           /\ tx[s].rows \subseteq Job
  <1> DEFINE t == tx[s]
  <1>1. t \in Tx /\ t.rows \subseteq Job /\ t.kids \subseteq Child /\ t.idle \subseteq Root
    BY DEF AuditInv, TypeInv, TypeOK, Tx
  <1>2. tx'[s] = NoTx /\ \A u \in Session \ {s} : tx'[u] = tx[u]
    BY DEF CommitSettle, Unlock, AuditInv, TypeInv, TypeOK
  <1>3. \A j \in t.rows : Status(j) = "running"
    BY DEF CommitSettle, AuditInv, TxFacts
  <1>4. \A j \in New(t) : j \in Child /\ Status(j) = "none"
    BY <1>1 DEF New, Exists
  <1>5. \A j \in Finalized(t) : j \in Root /\ Status(j) = "waiting"
    BY <1>1 DEF Finalized
  <1>6. jobs' = [j \in Job |->
           IF j \in t.rows THEN Settled(t, j)
           ELSE IF j \in New(t) THEN ChildRow(t)
           ELSE IF j \in Finalized(t)
           THEN [jobs[j] EXCEPT !.status = RootTo(t, j), !.err = RootTo(t, j) # "completed"]
           ELSE jobs[j]]
    BY DEF CommitSettle
  <1>7. \A j \in t.rows : jobs'[j] = Settled(t, j)
    BY <1>1, <1>6
  <1>8. \A j \in t.rows : jobs'[j].status = To(t, j)
    BY <1>1, <1>7, SettledRow DEF AuditInv, TypeInv
  <1>9. \A j \in New(t) : jobs'[j] = ChildRow(t)
    BY <1>3, <1>4, <1>6 DEF Job
  <1>10. ChildRow(t).status = "pending"
    BY DEF ChildRow, NewRow, NoRow
  <1>11. \A j \in Finalized(t) :
            jobs'[j] = [jobs[j] EXCEPT !.status = RootTo(t, j), !.err = RootTo(t, j) # "completed"]
    BY <1>3, <1>4, <1>5, <1>6 DEF Job
  <1>12. \A j \in Finalized(t) : jobs'[j].status = RootTo(t, j)
    <2> TAKE j \in Finalized(t)
    <2>1. jobs[j] \in Row
      BY <1>5 DEF AuditInv, TypeInv, TypeOK, Job
    <2> QED BY <1>11, <2>1 DEF Row
  <1> QED BY <1>1, <1>2, <1>3, <1>4, <1>5, <1>6, <1>8, <1>9, <1>10, <1>12 DEF Status

(* A child's parent in a Complete belongs to the same audit and runs.      *)
LEMMA ParentOf ==
    ASSUME AuditInv, NEW s \in Session, NEW r \in Root, NEW d \in Descendants(r), d \in New(tx[s])
    PROVE  /\ tx[s].op = "complete" /\ tx[s].kids # {}
           /\ \E j \in Job : /\ tx[s].rows = {j} /\ Status(j) = "running"
                             /\ j = r \/ j \in Descendants(r)
  <1>1. d \in tx[s].kids
    BY DEF New
  <1>2. tx[s].op = "complete"
    BY <1>1 DEF AuditInv, TxFacts
  <1>3. PICK j \in Job : tx[s].rows = {j} /\ tx[s].kids \subseteq Descendants(RootOf(j))
    BY <1>2 DEF AuditInv, TxFacts
  <1>4. Status(j) = "running"
    BY <1>2, <1>3 DEF AuditInv, TxFacts
  <1>5. RootOf(j) \in Root
    BY Families
  <1>6. RootOf(d) = r /\ RootOf(d) = RootOf(j)
    BY <1>1, <1>3, <1>5, Families
  <1>7. j = r \/ j \in Descendants(r)
    BY <1>6, Families
  <1> QED BY <1>1, <1>2, <1>3, <1>4, <1>7

(* The audit of an idle root is at rest, but for the rows of the           *)
(* transaction that counted it: no other transaction can touch it.         *)
LEMMA IdleIsQuiet ==
    ASSUME AuditInv, NEW s \in Session, NEW u \in Session \ {s}, NEW r \in tx[u].idle,
           NEW d \in Descendants(r)
    PROVE  /\ r \in Root
           /\ d \in tx[s].rows => Status(d) \notin Active
           /\ d \notin New(tx[s])
  <1>1. r \in Root
    BY DEF AuditInv, TypeInv, TypeOK, Tx
  <1>2. \A e \in Descendants(r) : Seen(tx[u], e) \notin Active
    BY DEF AuditInv, IdleSound
  <1>3. LockedBy(s) \cap LockedBy(u) = {}
    BY DEF AuditInv, LocksExclusive
  <1>4. ASSUME NEW e \in Descendants(r), e \in tx[s].rows PROVE Status(e) \notin Active
    <2>1. e \notin tx[u].rows /\ e \notin New(tx[u])
      BY <1>3, <1>4 DEF LockedBy
    <2> QED BY <1>2, <2>1 DEF Seen
  <1>5. ASSUME d \in New(tx[s]) PROVE FALSE
    <2>1. PICK j \in Job : tx[s].rows = {j} /\ Status(j) = "running" /\ (j = r \/ j \in Descendants(r))
      BY <1>1, <1>5, ParentOf
    <2>2. CASE j \in Descendants(r)
      BY <1>4, <2>1, <2>2 DEF Active
    <2>3. CASE j = r
      <3>1. PICK e \in tx[u].rows : e \in Descendants(r)
        BY DEF AuditInv, IdleSound
      <3>2. tx[u].op \in {"complete", "fail", "reclaim"}
        <4>1. tx[u].op \in {"none", "complete", "fail", "reclaim", "cancel"}
          BY DEF AuditInv, TypeInv, TypeOK, Tx
        <4>2. tx[u].op # "none" /\ tx[u].op # "cancel"
          BY DEF AuditInv, TxFacts, NoTx
        <4> QED BY <4>1, <4>2
      <3>3. Status(e) = "running"
        BY <3>1, <3>2 DEF AuditInv, TxFacts
      <3>4. Status(r) \in Terminal \cup {"waiting"}
        BY <1>1, <3>1, <3>3 DEF AuditInv, FamilyOrder, Exists
      <3> QED BY <2>1, <2>3, <3>4 DEF Terminal
    <2> QED BY <2>1, <2>2, <2>3
  <1> QED BY <1>1, <1>4, <1>5

(* A commit changes nothing that another open transaction relies on.       *)
LEMMA CommitFrame ==
    ASSUME AuditInv, NEW s \in Session, CommitSettle(s), NEW u \in Session \ {s}
    PROVE  /\ \A j \in tx[u].rows : j \in Job /\ jobs'[j] = jobs[j]
           /\ New(tx[u])' = New(tx[u])
           /\ \A k \in tx[u].kids : (jobs'[k].status = "none") <=> (jobs[k].status = "none")
  <1>1. LockedBy(s) \cap LockedBy(u) = {}
    BY DEF AuditInv, LocksExclusive
  <1>2. tx'[u] = tx[u] /\ tx[u].rows \subseteq Job /\ tx[u].kids \subseteq Child /\ Child \subseteq Job
    BY CommitEffect DEF AuditInv, TypeInv, TypeOK, Tx, Job
  <1>3. Finalized(tx[s]) \cap tx[u].rows = {}
    <2>1. Finalized(tx[s]) \cap Locked = {}
      BY DEF CommitSettle
    <2>2. tx[u].rows \subseteq Locked
      BY DEF Locked, LockedBy
    <2> QED BY <2>1, <2>2
  <1>4. \A j \in tx[u].rows : j \in Job /\ jobs'[j] = jobs[j]
    BY <1>1, <1>2, <1>3, CommitEffect DEF LockedBy
  <1>5. \A k \in tx[u].kids : (jobs'[k].status = "none") <=> (jobs[k].status = "none")
    <2> TAKE k \in tx[u].kids
    <2>1. k \in Job /\ k \notin Root
      BY <1>2, RootAssumption DEF Child
    <2>2. CASE k \in tx[s].rows
      <3>1. Status(k)' \in Active \cup Terminal /\ Status(k) = "running"
        BY <2>2, CommitEffect, ToType
      <3> QED BY <3>1 DEF Status, Active, Queued, Terminal
    <2>3. CASE k \in New(tx[s])
      <3>1. k \notin New(tx[u])
        BY <1>1, <2>3 DEF LockedBy
      <3>2. ~ Exists(k)
        BY <2>3 DEF New
      <3> QED BY <3>1, <3>2 DEF New
    <2>4. CASE k \notin tx[s].rows \cup New(tx[s])
      BY <2>1, <2>4, CommitEffect
    <2> QED BY <2>2, <2>3, <2>4
  <1>6. New(tx[u])' = New(tx[u])
    BY <1>2, <1>5 DEF New, Exists, Status
  <1> QED BY <1>4, <1>5, <1>6

(* The commit of Complete, Fail or ReclaimExpired keeps AuditInv.          *)
LEMMA CommitSettleStep ==
    ASSUME AuditInv, NEW s \in Session, CommitSettle(s)
    PROVE  TxFacts' /\ LocksExclusive' /\ FamilyOrder' /\ IdleSound' /\ AuditOutcomeSound'
  <1> DEFINE t == tx[s]
  <1>1. NoTx.op = "none" /\ NoTx.rows = {} /\ NoTx.kids = {} /\ NoTx.idle = {}
    BY DEF NoTx
  <1>2. tx'[s] = NoTx /\ \A u \in Session \ {s} : tx'[u] = tx[u]
    BY CommitEffect
  <1>3. TxFacts'
    <2>1. \A u \in Session \ {s} : \A j \in tx[u].rows : j \in Job /\ jobs'[j] = jobs[j]
      BY CommitFrame
    <2> QED BY <1>1, <1>2, <2>1 DEF AuditInv, TxFacts, Status
  <1>4. LocksExclusive'
    <2>1. LockedBy(s)' = {}
      BY <1>1, <1>2 DEF LockedBy, New
    <2>2. \A u \in Session \ {s} : LockedBy(u)' = LockedBy(u)
      BY <1>2, CommitFrame DEF LockedBy
    <2> QED BY <2>1, <2>2 DEF AuditInv, LocksExclusive
  <1>5. \A d \in Child : d \in Job /\ d \notin Root /\ d \notin Finalized(t) /\ Status(d)' = Seen(t, d)
    <2> TAKE d \in Child
    <2>1. d \in Job /\ d \notin Root
      BY RootAssumption DEF Child, Job
    <2>2. d \notin Finalized(t)
      BY <2>1, CommitEffect
    <2> QED BY <2>1, <2>2, CommitEffect DEF Seen, Status
  <1>6. FamilyOrder'
    <2>1. ASSUME NEW d \in Child PROVE Status(d)' # "waiting"
      <3>1. d \in t.rows => To(t, d) # "waiting"
        BY <1>5 DEF To, CompleteTo, FailTo, ReclaimTo
      <3> QED BY <1>5, <3>1 DEF Seen, AuditInv, FamilyOrder
    <2>2. ASSUME NEW r \in Root, NEW d \in Descendants(r), Exists(d)'
          PROVE  Status(r)' \in Terminal \cup {"waiting"}
      <3>1. CASE Status(r) \in Terminal \cup {"waiting"}
        <4>1. r \notin t.rows /\ r \notin New(t) /\ r \in Job
          BY <3>1, CommitEffect DEF Terminal, Job
        <4>2. r \in Finalized(t) => Status(r)' \in Terminal
          BY CommitEffect, ToType
        <4> QED BY <3>1, <4>1, <4>2, CommitEffect DEF Status
      <3>2. CASE d \in New(t)
        <4>1. PICK j \in Job : t.rows = {j} /\ Status(j) = "running" /\ (j = r \/ j \in Descendants(r))
          BY <3>2, ParentOf
        <4>2. CASE j = r
          <5>1. t.op = "complete" /\ t.kids # {}
            BY <3>2, ParentOf
          <5>2. To(t, r) = "waiting"
            BY <5>1 DEF To, CompleteTo
          <5> QED BY <4>1, <4>2, <5>2, CommitEffect
        <4>3. CASE j \in Descendants(r)
          <5>1. Status(r) \in Terminal \cup {"waiting"}
            BY <4>1, <4>3 DEF AuditInv, FamilyOrder, Exists
          <5> QED BY <3>1, <5>1
        <4> QED BY <4>1, <4>2, <4>3
      <3>3. CASE d \notin New(t) /\ Status(r) \notin Terminal \cup {"waiting"}
        <4>1. Status(d) = "none"
          BY <3>3 DEF AuditInv, FamilyOrder, Exists
        <4>2. d \notin t.rows
          BY <4>1, CommitEffect
        <4>3. Status(d)' = "none"
          BY <1>5, <3>3, <4>1, <4>2, Families DEF Seen
        <4> QED BY <2>2, <4>3 DEF Exists
      <3> QED BY <3>1, <3>2, <3>3
    <2> QED BY <2>1, <2>2 DEF FamilyOrder
  <1>7. IdleSound'
    <2> SUFFICES ASSUME NEW u \in Session, NEW r \in tx'[u].idle
                 PROVE  /\ \E j \in tx'[u].rows : j \in Descendants(r)
                        /\ \A d \in Descendants(r) : Seen(tx[u], d)' \notin Active
      BY DEF IdleSound
    <2>1. u # s /\ tx'[u] = tx[u]
      BY <1>1, <1>2
    <2>2. ASSUME NEW d \in Descendants(r) PROVE Seen(tx[u], d)' \notin Active
      <3>1. r \in Root /\ d \notin New(t) /\ (d \in t.rows => Status(d) \notin Active)
        BY <2>1, IdleIsQuiet
      <3>2. d \notin t.rows
        BY <3>1, CommitEffect DEF Active
      <3>3. jobs'[d] = jobs[d]
        BY <1>5, <3>1, <3>2, Families, CommitEffect
      <3>4. \A k \in tx[u].kids : (jobs'[k].status = "none") <=> (jobs[k].status = "none")
        BY <2>1, CommitFrame
      <3>5. Seen(tx[u], d)' = Seen(tx[u], d)
        BY <2>1, <3>3, <3>4, SeenStable DEF SameRow
      <3> QED BY <2>1, <3>5 DEF AuditInv, IdleSound
    <2> QED BY <2>1, <2>2 DEF AuditInv, IdleSound
  <1>8. AuditOutcomeSound'
    <2> SUFFICES ASSUME NEW r \in Root
                 PROVE  LET ends == {Status(d)' : d \in Descendants(r)} IN
                        /\ ends \cap Active # {} => Status(r)' \in {"waiting", "cancelled"}
                        /\ Status(r)' = "completed" => ends \subseteq {"none", "completed"}
                        /\ "dead_lettered" \in ends =>
                              Status(r)' \in {"waiting", "cancelled", "dead_lettered"}
      BY DEF AuditOutcomeSound
    <2> DEFINE ends == {Status(d)' : d \in Descendants(r)}
    <2>1. CASE r \in t.rows
      <3>1. \A d \in Descendants(r) : Status(d) = "none"
        <4>1. Status(r) \notin Terminal \cup {"waiting"}
          BY <2>1, CommitEffect DEF Terminal
        <4> QED BY <4>1 DEF AuditInv, FamilyOrder, Exists
      <3>2. CASE \E d \in Descendants(r) : d \in New(t)
        <4>1. PICK d \in Descendants(r) : d \in New(t)
          BY <3>2
        <4>2. PICK j \in Job : t.rows = {j}
          BY <4>1, ParentOf
        <4>3. t.op = "complete" /\ t.kids # {}
          BY <4>1, ParentOf
        <4>4. Status(r)' = "waiting"
          BY <2>1, <4>3, CommitEffect DEF To, CompleteTo
        <4> QED BY <4>4
      <3>3. CASE \A d \in Descendants(r) : d \notin New(t)
        <4>1. \A d \in Descendants(r) : Status(d)' = "none"
          BY <1>5, <3>1, <3>3, Families, CommitEffect DEF Seen
        <4> QED BY <4>1 DEF Active, Queued
      <3> QED BY <3>2, <3>3
    <2>2. CASE r \in Finalized(t)
      <3>1. \A d \in Descendants(r) : Status(d)' = Seen(t, d)
        BY <1>5, Families
      <3>2. \A d \in Descendants(r) : Seen(t, d) \notin Active
        BY <2>2 DEF AuditInv, IdleSound, Finalized
      <3>3. \A d \in Descendants(r) : Seen(t, d) \in Active \cup Terminal \cup {"none"}
        <4> TAKE d \in Descendants(r)
        <4>1. Status(d) \in Active \cup Terminal \cup {"none"}
          BY Families DEF AuditInv, TypeInv, TypeOK, Row, Status
        <4> QED BY <4>1, ToType DEF Seen, Active, Queued
      <3>4. Status(r)' = RootTo(t, r)
        BY <2>2, CommitEffect
      <3>5. ends = {Seen(t, d) : d \in Descendants(r)}
        BY <3>1
      <3>6. ends \cap Active = {} /\ ends \subseteq Terminal \cup {"none"}
        BY <3>2, <3>3, <3>5
      <3>7. Status(r)' = IF "dead_lettered" \in ends THEN "dead_lettered"
                         ELSE IF ends \cap {"failed", "cancelled"} # {} THEN "failed" ELSE "completed"
        BY <3>4, <3>5 DEF RootTo
      <3> HIDE DEF ends
      <3>8. Status(r)' = "completed" => ends \subseteq {"none", "completed"}
        BY <3>6, <3>7 DEF Terminal
      <3>9. "dead_lettered" \in ends => Status(r)' = "dead_lettered"
        BY <3>7
      <3> QED BY <3>6, <3>8, <3>9 DEF ends
    <2>3. CASE r \notin t.rows /\ r \notin Finalized(t)
      <3>1. Status(r)' = Status(r)
        <4>1. r \notin New(t) /\ r \in Job
          BY CommitEffect, RootAssumption DEF Child, Job
        <4> QED BY <2>3, <4>1, CommitEffect DEF Status
      <3>2. CASE \E d \in Descendants(r) : Status(d) \in Active
        <4>1. Status(r) \in {"waiting", "cancelled"}
          BY <3>2 DEF AuditInv, AuditOutcomeSound
        <4> QED BY <3>1, <4>1
      <3>3. CASE \A d \in Descendants(r) : Status(d) \notin Active
        <4>1. ASSUME NEW d \in Descendants(r) PROVE Status(d)' = Status(d)
          <5>1. d \notin t.rows
            BY <3>3, CommitEffect DEF Active
          <5>2. d \notin New(t)
            BY <2>3, <3>3, ParentOf DEF Active
          <5> QED BY <1>5, <5>1, <5>2, Families DEF Seen
        <4> QED BY <3>1, <4>1 DEF AuditInv, AuditOutcomeSound
      <3> QED BY <3>2, <3>3
    <2> QED BY <2>1, <2>2, <2>3
  <1> QED BY <1>3, <1>4, <1>6, <1>7, <1>8

(* What CommitCancel does to the deciding columns.                         *)
LEMMA CancelEffect ==
    ASSUME AuditInv, NEW s \in Session, CommitCancel(s)
    PROVE  \E r \in Root :
              /\ tx'[s] = NoTx /\ \A u \in Session \ {s} : tx'[u] = tx[u]
              /\ r \in tx[s].rows /\ Status(r) = "waiting" /\ New(tx[s]) = {}
              /\ \A j \in tx[s].rows \ {r} : j \in Descendants(r) /\ Status(j) \in Queued
              /\ \A j \in tx[s].rows : j \in Job /\ Status(j)' = "cancelled"
              /\ \A d \in Descendants(r) : Status(d) = "running" => d \notin Locked
              /\ \A j \in Job \ tx[s].rows : Status(j)' = Status(j)
              /\ \A j \in Job \ tx[s].rows :
                    ~ (j \in Descendants(r) /\ Status(j) = "running") => jobs'[j] = jobs[j]
  <1> DEFINE t == tx[s]
             q == CHOOSE c \in t.rows : c \in Root
             running == {d \in Descendants(q) : Status(d) = "running"}
  <1>1. t.op = "cancel"
    BY DEF CommitCancel
  <1>2. PICK r \in Root : /\ r \in t.rows /\ Status(r) = "waiting"
                          /\ \A j \in t.rows \ {r} : j \in Descendants(r) /\ Status(j) \in Queued
    BY <1>1 DEF AuditInv, TxFacts
  <1>3. q = r
    <2>1. q \in t.rows /\ q \in Root
      BY <1>2
    <2> QED BY <1>2, <2>1, Families
  <1>4. tx'[s] = NoTx /\ \A u \in Session \ {s} : tx'[u] = tx[u]
    BY DEF CommitCancel, Unlock, AuditInv, TypeInv, TypeOK
  <1>5. New(t) = {}
    BY <1>1 DEF AuditInv, TxFacts, New
  <1>6. running \cap Locked = {}
    BY DEF CommitCancel
  <1>7. jobs' = [j \in Job |->
           IF j \in t.rows THEN [jobs[j] EXCEPT !.status = "cancelled", !.cancel = TRUE]
           ELSE IF j \in running THEN [jobs[j] EXCEPT !.cancel = TRUE]
           ELSE jobs[j]]
    BY DEF CommitCancel
  <1> HIDE DEF running, q
  <1>8. ASSUME NEW j \in Job
        PROVE  /\ [jobs[j] EXCEPT !.status = "cancelled", !.cancel = TRUE].status = "cancelled"
               /\ [jobs[j] EXCEPT !.cancel = TRUE].status = jobs[j].status
    <2>1. jobs[j] \in Row
      BY DEF AuditInv, TypeInv, TypeOK
    <2> QED BY <2>1 DEF Row
  <1>9. t.rows \subseteq Job
    BY DEF AuditInv, TypeInv, TypeOK, Tx
  <1>10. \A j \in t.rows : Status(j)' = "cancelled"
    BY <1>7, <1>8, <1>9 DEF Status
  <1>11. \A j \in Job \ t.rows : Status(j)' = Status(j)
    BY <1>7, <1>8 DEF Status
  <1>12. \A j \in Job \ t.rows : j \notin running => jobs'[j] = jobs[j]
    BY <1>7
  <1>13. running = {d \in Descendants(r) : Status(d) = "running"}
    BY <1>3 DEF running
  <1> QED BY <1>2, <1>4, <1>5, <1>6, <1>9, <1>10, <1>11, <1>12, <1>13

(* The commit of a Cancel of a waiting audit keeps AuditInv.               *)
LEMMA CommitCancelStep ==
    ASSUME AuditInv, NEW s \in Session, CommitCancel(s)
    PROVE  TxFacts' /\ LocksExclusive' /\ FamilyOrder' /\ IdleSound' /\ AuditOutcomeSound'
  <1> DEFINE t == tx[s]
  <1>1. NoTx.op = "none" /\ NoTx.rows = {} /\ NoTx.kids = {} /\ NoTx.idle = {}
    BY DEF NoTx
  <1>2. PICK r \in Root :
              /\ tx'[s] = NoTx /\ \A u \in Session \ {s} : tx'[u] = tx[u]
              /\ r \in t.rows /\ Status(r) = "waiting" /\ New(t) = {}
              /\ \A j \in t.rows \ {r} : j \in Descendants(r) /\ Status(j) \in Queued
              /\ \A j \in t.rows : j \in Job /\ Status(j)' = "cancelled"
              /\ \A d \in Descendants(r) : Status(d) = "running" => d \notin Locked
              /\ \A j \in Job \ t.rows : Status(j)' = Status(j)
              /\ \A j \in Job \ t.rows :
                    ~ (j \in Descendants(r) /\ Status(j) = "running") => jobs'[j] = jobs[j]
    BY CancelEffect
  <1>3. \A j \in t.rows : Exists(j) /\ Exists(j)'
    BY <1>2 DEF Exists, Queued
  <1>4. \A k \in Job : Exists(k)' = Exists(k)
    BY <1>2, <1>3 DEF Exists
  <1>5. \A u \in Session \ {s} : \A j \in tx[u].rows : j \in Job /\ jobs'[j] = jobs[j]
    <2> TAKE u \in Session \ {s}
    <2>1. tx[u].rows \subseteq Job /\ tx[u].rows \subseteq Locked
      BY DEF AuditInv, TypeInv, TypeOK, Tx, Locked, LockedBy
    <2>2. tx[u].rows \cap t.rows = {}
      BY DEF AuditInv, LocksExclusive, LockedBy
    <2> QED BY <1>2, <2>1, <2>2
  <1>6. \A u \in Session \ {s} : /\ New(tx[u])' = New(tx[u])
                                 /\ tx[u].kids \subseteq Job
    <2> TAKE u \in Session \ {s}
    <2>1. tx[u].kids \subseteq Job
      BY DEF AuditInv, TypeInv, TypeOK, Tx, Job
    <2> QED BY <1>2, <1>4, <2>1 DEF New
  <1>7. TxFacts'
    BY <1>1, <1>2, <1>5 DEF AuditInv, TxFacts, Status
  <1>8. LocksExclusive'
    <2>1. LockedBy(s)' = {}
      BY <1>1, <1>2 DEF LockedBy, New
    <2>2. \A u \in Session \ {s} : LockedBy(u)' = LockedBy(u)
      BY <1>2, <1>6 DEF LockedBy
    <2> QED BY <2>1, <2>2 DEF AuditInv, LocksExclusive
  <1>9. FamilyOrder'
    <2>1. ASSUME NEW d \in Child PROVE Status(d)' # "waiting"
      BY <1>2 DEF AuditInv, FamilyOrder, Job
    <2>2. ASSUME NEW q \in Root, NEW d \in Descendants(q), Exists(d)'
          PROVE  Status(q)' \in Terminal \cup {"waiting"}
      <3>1. Status(q) \in Terminal \cup {"waiting"}
        BY <1>4, <2>2, Families DEF AuditInv, FamilyOrder
      <3>2. Status(q)' = Status(q) \/ Status(q)' = "cancelled"
        BY <1>2, Families
      <3> QED BY <3>1, <3>2 DEF Terminal
    <2> QED BY <2>1, <2>2 DEF FamilyOrder
  <1>10. IdleSound'
    <2> SUFFICES ASSUME NEW u \in Session, NEW q \in tx'[u].idle
                 PROVE  /\ \E j \in tx'[u].rows : j \in Descendants(q)
                        /\ \A d \in Descendants(q) : Seen(tx[u], d)' \notin Active
      BY DEF IdleSound
    <2>1. u \in Session \ {s} /\ tx'[u] = tx[u] /\ q \in tx[u].idle
      BY <1>1, <1>2
    <2>2. q \in Root
      BY <2>1 DEF AuditInv, TypeInv, TypeOK, Tx
    <2>3. ASSUME NEW d \in Descendants(q) PROVE Seen(tx[u], d)' \notin Active
      <3>1. Seen(tx[u], d) \notin Active
        BY <2>1 DEF AuditInv, IdleSound
      <3>2. d \in Job /\ d \notin Root
        BY <2>2, Families
      <3>3. d \notin t.rows
        <4> SUFFICES ASSUME d \in t.rows PROVE FALSE
          OBVIOUS
        <4>1. Status(d) \in Queued
          BY <1>2, <3>2
        <4>2. d \notin tx[u].rows
          BY <2>1 DEF AuditInv, LocksExclusive, LockedBy
        <4>3. Status(d) \in Active /\ "pending" \in Active
          BY <4>1 DEF Active, Queued
        <4> QED BY <3>1, <4>2, <4>3 DEF Seen
      <3>4. ~ (d \in Descendants(r) /\ Status(d) = "running")
        <4> SUFFICES ASSUME d \in Descendants(r), Status(d) = "running" PROVE FALSE
          OBVIOUS
        <4>1. d \notin tx[u].rows
          BY <1>2, <2>1 DEF Locked, LockedBy
        <4>2. Status(d) \in Active /\ "pending" \in Active
          BY DEF Active, Queued
        <4> QED BY <3>1, <4>1, <4>2 DEF Seen
      <3>5. SameRow(d)
        BY <1>2, <3>2, <3>3, <3>4 DEF SameRow
      <3>6. \A k \in tx[u].kids : (jobs'[k].status = "none") <=> (jobs[k].status = "none")
        BY <1>4, <1>6, <2>1 DEF Exists, Status
      <3>7. Seen(tx[u], d)' = Seen(tx[u], d)
        BY <2>1, <3>5, <3>6, SeenStable
      <3> QED BY <3>1, <3>7
    <2> QED BY <2>1, <2>3 DEF AuditInv, IdleSound
  <1>11. AuditOutcomeSound'
    <2> SUFFICES ASSUME NEW q \in Root
                 PROVE  LET ends == {Status(d)' : d \in Descendants(q)} IN
                        /\ ends \cap Active # {} => Status(q)' \in {"waiting", "cancelled"}
                        /\ Status(q)' = "completed" => ends \subseteq {"none", "completed"}
                        /\ "dead_lettered" \in ends =>
                              Status(q)' \in {"waiting", "cancelled", "dead_lettered"}
      BY DEF AuditOutcomeSound
    <2>1. CASE q = r
      BY <1>2, <2>1
    <2>2. CASE q # r
      <3>1. \A d \in Descendants(q) : d \notin t.rows /\ d \in Job
        BY <1>2, <2>2, Families
      <3>2. q \notin t.rows /\ q \in Job
        BY <1>2, <2>2, Families
      <3>3. Status(q)' = Status(q) /\ \A d \in Descendants(q) : Status(d)' = Status(d)
        BY <1>2, <3>1, <3>2
      <3> QED BY <3>3 DEF AuditInv, AuditOutcomeSound
    <2> QED BY <2>1, <2>2
  <1> QED BY <1>7, <1>8, <1>9, <1>10, <1>11

(* The empty schema has no transaction, family or verdict.                 *)
LEMMA AuditInit == Init => AuditInv
  <1> SUFFICES ASSUME Init PROVE AuditInv
    OBVIOUS
  <1>1. TypeInv
    BY TypeInit
  <1>2. \A s \in Session : tx[s] = NoTx
    BY DEF Init
  <1>3. NoTx.op = "none" /\ NoTx.rows = {} /\ NoTx.kids = {} /\ NoTx.idle = {}
    BY DEF NoTx
  <1>4. \A j \in Job : Status(j) = "none" /\ ~ Exists(j)
    BY DEF Init, NoRow, Status, Exists
  <1>5. TxFacts /\ IdleSound
    BY <1>2, <1>3 DEF TxFacts, IdleSound
  <1>6. LocksExclusive
    BY <1>2, <1>3 DEF LocksExclusive, LockedBy, New
  <1>7. FamilyOrder
    BY <1>4, Families DEF FamilyOrder, Job
  <1>8. AuditOutcomeSound
    BY <1>4, Families DEF AuditOutcomeSound, Active, Queued
  <1> QED BY <1>1, <1>5, <1>6, <1>7, <1>8 DEF AuditInv

(* A transaction that counted: what Idle returned is what IdleSound needs. *)
LEMMA IdleRead ==
    ASSUME NEW t \in Tx, NEW u, u = [t EXCEPT !.idle = Idle(t)]
    PROVE  /\ u \in Tx
           /\ u.op = t.op /\ u.rows = t.rows /\ u.n = t.n /\ u.kids = t.kids /\ u.kind = t.kind
           /\ New(u) = New(t)
           /\ \A r \in u.idle : /\ \E j \in u.rows : j \in Descendants(r)
                                /\ \A d \in Descendants(r) : Seen(u, d) \notin Active
  <1>1. Idle(t) \in SUBSET Root
    BY DEF Idle
  <1>2. u \in Tx /\ u.idle = Idle(t)
    BY <1>1 DEF Tx
  <1>3. u.op = t.op /\ u.rows = t.rows /\ u.n = t.n /\ u.kids = t.kids /\ u.kind = t.kind
    BY DEF Tx
  <1>4. New(u) = New(t)
    BY <1>3 DEF New
  <1>5. \A j : To(u, j) = To(t, j)
    BY <1>3 DEF To, CompleteTo, FailTo
  <1>6. \A j : Seen(u, j) = Seen(t, j)
    BY <1>3, <1>4, <1>5 DEF Seen
  <1>7. \A r \in Idle(t) : /\ \E j \in t.rows : j \in Descendants(r)
                           /\ \A d \in Descendants(r) : Seen(t, d) \notin Active
    BY DEF Idle
  <1> QED BY <1>2, <1>3, <1>4, <1>6, <1>7

(* The rows that a transaction updates exist.                              *)
LEMMA LockedExists ==
    ASSUME AuditInv, NEW s \in Session, NEW j \in tx[s].rows
    PROVE  Exists(j)
  <1>1. tx[s].op \in {"none", "complete", "fail", "reclaim", "cancel"}
    BY DEF AuditInv, TypeInv, TypeOK, Tx
  <1>2. tx[s].op # "none"
    BY DEF AuditInv, TxFacts, NoTx
  <1>3. CASE tx[s].op = "cancel"
    <2>1. PICK r \in Root : /\ r \in tx[s].rows /\ Status(r) = "waiting"
                            /\ \A i \in tx[s].rows \ {r} : Status(i) \in Queued
      BY <1>3 DEF AuditInv, TxFacts
    <2>2. Status(j) = "waiting" \/ Status(j) \in Queued
      BY <2>1
    <2> QED BY <2>2 DEF Exists, Queued
  <1>4. CASE tx[s].op \in {"complete", "fail", "reclaim"}
    BY <1>4 DEF AuditInv, TxFacts, Exists
  <1> QED BY <1>1, <1>2, <1>3, <1>4

(* Every step preserves AuditInv: one case per operation of the store.     *)
LEMMA AuditStep == AuditInv /\ LeaseDiscipline /\ [Next]_vars => AuditInv'
  <1> SUFFICES ASSUME AuditInv, LeaseDiscipline, [Next]_vars PROVE AuditInv'
    OBVIOUS
  <1>0. TypeInv'
    BY TypeStep DEF AuditInv
  <1> SUFFICES TxFacts' /\ LocksExclusive' /\ FamilyOrder' /\ IdleSound' /\ AuditOutcomeSound'
    BY <1>0 DEF AuditInv
  <1> DEFINE Goal == TxFacts' /\ LocksExclusive' /\ FamilyOrder' /\ IdleSound' /\ AuditOutcomeSound'
  <1>t. \A j \in Job : jobs[j] \in Row
    BY DEF AuditInv, TypeInv, TypeOK
  <1>f. jobs \in [Job -> Row]
    BY DEF AuditInv, TypeInv, TypeOK
  <1>l. \A r \in Root : r \in Job /\ (~ Exists(r) => r \notin Locked)
    <2> TAKE r \in Root
    <2>1. r \in Job
      BY DEF Job
    <2>2. ASSUME ~ Exists(r), NEW u \in Session PROVE r \notin LockedBy(u)
      <3>1. r \notin New(tx[u])
        <4>1. tx[u].kids \subseteq Child
          BY DEF AuditInv, TypeInv, TypeOK, Tx
        <4> QED BY <4>1, RootAssumption DEF New, Child
      <3>2. r \notin tx[u].rows
        BY <2>2, LockedExists
      <3> QED BY <3>1, <3>2 DEF LockedBy
    <2> QED BY <2>1, <2>2 DEF Locked
  <1>1. ASSUME NEW r \in Root, NEW m \in Attempt, NEW f, ~ Exists(r),
               jobs' = [jobs EXCEPT ![r] = NewRow(m, f)], tx' = tx
        PROVE  Goal
    <2>1. jobs'[r] = NewRow(m, f) /\ \A j \in Job \ {r} : jobs'[j] = jobs[j]
      BY <1>1, <1>f, <1>l
    <2>2. Status(r)' = "pending"
      BY <2>1 DEF Status, NewRow, NoRow
    <2>3. r \in Job /\ r \notin Locked /\ Status(r) = "none"
      BY <1>1, <1>l DEF Exists
    <2> QED BY <1>1, <2>1, <2>2, <2>3, OneRowStep
  <1>2. ASSUME NEW j \in Job, Claim(j) PROVE Goal
    <2>1. \A i \in Job \ {j} : jobs'[i] = jobs[i]
      BY <1>2, <1>f DEF Claim
    <2>2. Status(j)' = "running"
      BY <1>2, <1>f, <1>t DEF Claim, Status, Row
    <2> QED BY <1>2, <2>1, <2>2, OneRowStep DEF Claim
  <1>3. ASSUME NEW j \in Job, Cancel(j) PROVE Goal
    <2>1. \A i \in Job \ {j} : jobs'[i] = jobs[i]
      BY <1>3, <1>f DEF Cancel
    <2>2. Status(j)' \in {"cancelled", "running"} /\ Status(j) \in Queued \cup {"running"}
      BY <1>3, <1>f, <1>t DEF Cancel, Status, Row
    <2> QED BY <1>3, <2>1, <2>2, OneRowStep DEF Cancel
  <1>4. ASSUME NEW j \in Job, Due(j) \/ Expire(j) \/ \E n \in Attempt : Heartbeat(j, n)
        PROVE  Goal
    <2>1. \A i \in Job : SameRow(i)
      BY <1>4, <1>f, <1>t DEF Due, Expire, Heartbeat, SameRow, Row
    <2> QED BY <1>4, <2>1, QuietStep DEF Due, Expire, Heartbeat
  <1>6. ASSUME NEW s \in Session, NEW j \in Job, NEW n \in Attempt,
               NEW kids \in SUBSET Descendants(RootOf(j)), NEW res \in BOOLEAN,
               CompleteBegin(s, j, n, kids, res)
        PROVE  Goal
    <2> DEFINE t == [NoTx EXCEPT !.op = "complete", !.rows = {j}, !.n = n, !.kids = kids, !.res = res]
               u == [t EXCEPT !.idle = Idle(t)]
    <2>1. kids \subseteq Child /\ n \in Nat
      BY MaxAttemptsAssumption DEF Descendants, RootOf, Child, Job, Attempt
    <2>2. t \in Tx
      BY <2>1, NoTxType DEF Tx
    <2>3. t.op = "complete" /\ t.rows = {j} /\ t.n = n /\ t.kids = kids
      BY NoTxType DEF Tx
    <2>4. Lock(s, u) /\ UNCHANGED tables /\ tx[s] = NoTx /\ Fence(j, n) /\ ({j} \cup New(t)) \cap Locked = {}
      BY <1>6 DEF CompleteBegin
    <2>5. Status(j) = "running" /\ n = jobs[j].attempts
      BY <2>4 DEF Fence, LeaseDiscipline
    <2> HIDE DEF t
    <2>6. /\ u \in Tx
          /\ u.op = "complete" /\ u.rows = {j} /\ u.n = n /\ u.kids = kids
          /\ New(u) = New(t)
          /\ \A r \in u.idle : /\ \E i \in u.rows : i \in Descendants(r)
                               /\ \A d \in Descendants(r) : Seen(u, d) \notin Active
      BY <2>2, <2>3, IdleRead
    <2> HIDE DEF u
    <2> QED BY <2>4, <2>5, <2>6, BeginStep
  <1>7. ASSUME NEW s \in Session, NEW j \in Job, NEW n \in Attempt, NEW kind \in Kind,
               FailBegin(s, j, n, kind)
        PROVE  Goal
    <2> DEFINE t == [NoTx EXCEPT !.op = "fail", !.rows = {j}, !.n = n, !.kind = kind]
               u == [t EXCEPT !.idle = Idle(t)]
    <2>1. n \in Nat
      BY MaxAttemptsAssumption DEF Attempt
    <2>2. t \in Tx
      BY <2>1, NoTxType DEF Tx
    <2>3. t.op = "fail" /\ t.rows = {j} /\ t.n = n /\ t.kids = {}
      BY NoTxType DEF Tx, NoTx
    <2>4. Lock(s, u) /\ UNCHANGED tables /\ tx[s] = NoTx /\ Fence(j, n) /\ j \notin Locked
      BY <1>7 DEF FailBegin
    <2>5. Status(j) = "running" /\ n = jobs[j].attempts
      BY <2>4 DEF Fence, LeaseDiscipline
    <2> HIDE DEF t
    <2>6. /\ u \in Tx
          /\ u.op = "fail" /\ u.rows = {j} /\ u.n = n /\ u.kids = {}
          /\ New(u) = {}
          /\ \A r \in u.idle : /\ \E i \in u.rows : i \in Descendants(r)
                               /\ \A d \in Descendants(r) : Seen(u, d) \notin Active
      BY <2>2, <2>3, IdleRead DEF New
    <2> HIDE DEF u
    <2> QED BY <2>4, <2>5, <2>6, BeginStep
  <1>8. ASSUME NEW s \in Session, ReclaimBegin(s) PROVE Goal
    <2> DEFINE rows == {j \in Job : Expired(j)} \ Locked
               t == [NoTx EXCEPT !.op = "reclaim", !.rows = rows]
               u == [t EXCEPT !.idle = Idle(t)]
    <2>1. rows \subseteq Job /\ rows \cap Locked = {} /\ \A j \in rows : Status(j) = "running"
      BY DEF Expired
    <2>2. t \in Tx
      BY <2>1, NoTxType DEF Tx
    <2>3. t.op = "reclaim" /\ t.rows = rows /\ t.kids = {}
      BY NoTxType DEF Tx, NoTx
    <2>4. Lock(s, u) /\ UNCHANGED tables /\ tx[s] = NoTx
      BY <1>8 DEF ReclaimBegin
    <2> HIDE DEF t, rows
    <2>5. /\ u \in Tx
          /\ u.op = "reclaim" /\ u.rows = rows /\ u.kids = {}
          /\ New(u) = {}
          /\ \A r \in u.idle : /\ \E i \in u.rows : i \in Descendants(r)
                               /\ \A d \in Descendants(r) : Seen(u, d) \notin Active
      BY <2>2, <2>3, IdleRead DEF New
    <2> HIDE DEF u
    <2> QED BY <2>1, <2>4, <2>5, BeginStep
  <1>9. ASSUME NEW s \in Session, NEW r \in Root, CancelBegin(s, r) PROVE Goal
    <2> DEFINE rows == {r} \cup {d \in Descendants(r) : Status(d) \in Queued}
               t == [NoTx EXCEPT !.op = "cancel", !.rows = rows]
    <2>1. rows \subseteq Job
      BY Families DEF Job
    <2>2. t \in Tx
      BY <2>1, NoTxType DEF Tx
    <2>3. t.op = "cancel" /\ t.rows = rows /\ t.kids = {} /\ t.idle = {} /\ New(t) = {}
      BY NoTxType DEF Tx, NoTx, New
    <2>4. Lock(s, t) /\ UNCHANGED tables /\ tx[s] = NoTx /\ Status(r) = "waiting" /\ r \notin Locked
      BY <1>9 DEF CancelBegin
    <2>5. /\ r \in rows
          /\ \A j \in rows \ {r} : j \in Descendants(r) /\ Status(j) \in Queued
      OBVIOUS
    <2>6. rows \cap Locked = {}
      <3> SUFFICES ASSUME NEW j \in rows, NEW w \in Session, j \in LockedBy(w) PROVE FALSE
        BY DEF Locked
      <3>1. j # r
        BY <2>4 DEF Locked
      <3>2. j \in Descendants(r) /\ Status(j) \in Queued /\ j \notin Root
        BY <2>5, <3>1, Families
      <3>3. j \in tx[w].rows
        BY <3>2 DEF LockedBy, New, Exists, Queued
      <3>4. tx[w].op \in {"none", "complete", "fail", "reclaim", "cancel"}
        BY DEF AuditInv, TypeInv, TypeOK, Tx
      <3>5. tx[w].op # "none"
        BY <3>3 DEF AuditInv, TxFacts, NoTx
      <3>6. tx[w].op = "cancel"
        BY <3>2, <3>3, <3>4, <3>5 DEF AuditInv, TxFacts, Queued
      <3>7. PICK q \in Root : q \in tx[w].rows /\ \A i \in tx[w].rows \ {q} : i \in Descendants(q)
        BY <3>6 DEF AuditInv, TxFacts
      <3>8. j \in Descendants(q)
        BY <3>2, <3>3, <3>7
      <3>9. q = r
        BY <3>2, <3>8, Families
      <3> QED BY <2>4, <3>7, <3>9 DEF Locked, LockedBy
    <2> HIDE DEF rows, t
    <2> QED BY <2>2, <2>3, <2>4, <2>5, <2>6, BeginStep
  <1>10. ASSUME NEW s \in Session, CommitSettle(s) PROVE Goal
    BY <1>10, CommitSettleStep
  <1>11. ASSUME NEW s \in Session, CommitCancel(s) PROVE Goal
    BY <1>11, CommitCancelStep
  <1>12. ASSUME NEW S \in SUBSET Session, Rollback(S) PROVE Goal
    BY <1>12, RollbackStep
  <1>13. CASE UNCHANGED vars
    <2>1. tx' = tx /\ \A j \in Job : SameRow(j)
      BY <1>13 DEF vars, SameRow
    <2> QED BY <2>1, QuietStep
  <1>14. ASSUME NEW r \in Root, NEW m \in Attempt, Submit(r, m) PROVE Goal
    BY <1>1, <1>14 DEF Submit
  <1>15. ASSUME NEW j \in Job, NEW r \in Root, NEW m \in Attempt, ReplayDLQ(j, r, m) PROVE Goal
    BY <1>1, <1>15 DEF ReplayDLQ
  <1> QED
    BY <1>2, <1>3, <1>4, <1>6, <1>7, <1>8, <1>9, <1>10, <1>11, <1>12, <1>13, <1>14, <1>15
    DEF Next, Settle, Retry
-----------------------------------------------------------------------------
(***************************************************************************)
(* Attempts and leases, row by row.                                        *)
(***************************************************************************)
RowOK(row) ==
    /\ row.attempts <= row.max
    /\ row.status \in Queued => row.attempts < row.max
    /\ row.token = IF row.status = "running" THEN row.attempts ELSE 0
    /\ row.status # "none" => row.max # 0

RowsOK == \A j \in Job : RowOK(jobs[j])

StoreInv == AuditInv /\ RowsOK

(* The row facts imply two of the properties that the runs check.          *)
LEMMA RowsOKImplies == RowsOK => AttemptBudget /\ LeaseDiscipline
  BY DEF RowsOK, RowOK, AttemptBudget, LeaseDiscipline, Status

(* A job that is inserted has all of its attempts.                         *)
LEMMA NewRowOK ==
    ASSUME NEW m \in Nat \ {0}, NEW f PROVE RowOK(NewRow(m, f))
  BY DEF RowOK, NewRow, NoRow

(* There are no rows yet.                                                  *)
LEMMA RowsInit == Init => RowsOK
  BY DEF Init, RowsOK, RowOK, NoRow, Queued

(* A row that Complete, Fail or ReclaimExpired requeues has an attempt     *)
(* left: Fail compares the claim it was given with the limit, and the      *)
(* fence makes that claim the current attempt.                             *)
LEMMA SettledOK ==
    ASSUME AuditInv, RowsOK, NEW s \in Session, CommitSettle(s), NEW j \in tx[s].rows
    PROVE  RowOK(Settled(tx[s], j))
  <1> DEFINE t == tx[s]
  <1>1. j \in Job /\ Status(j) = "running"
    BY CommitEffect
  <1>2. jobs[j] \in Row /\ TypeOK
    BY <1>1 DEF AuditInv, TypeInv, TypeOK
  <1>3. jobs[j].attempts \in Nat /\ jobs[j].max \in Nat
    BY <1>2, MaxAttemptsAssumption DEF Row, Attempt
  <1>4. jobs[j].attempts <= jobs[j].max /\ jobs[j].max # 0
    BY <1>1 DEF RowsOK, RowOK, Status
  <1>5. /\ Settled(t, j).status = To(t, j) /\ Settled(t, j).attempts = jobs[j].attempts
        /\ Settled(t, j).max = jobs[j].max /\ Settled(t, j).token = 0
    BY <1>1, <1>2, SettledRow
  <1>6. t.op = "fail" => t.n = jobs[j].attempts
    BY DEF AuditInv, TxFacts
  <1>7. t.op \in {"complete", "fail", "reclaim"}
    BY DEF CommitSettle
  <1>8. To(t, j) # "running"
    BY <1>7 DEF To, CompleteTo, FailTo, ReclaimTo
  <1>9. To(t, j) \in Queued => jobs[j].attempts < jobs[j].max
    <2>1. CASE t.op = "complete"
      BY <2>1 DEF To, CompleteTo, Queued
    <2>2. CASE t.op = "fail"
      BY <1>3, <1>6, <2>2 DEF To, FailTo, Queued
    <2>3. CASE t.op = "reclaim"
      BY <1>3, <2>3 DEF To, ReclaimTo, Queued
    <2> QED BY <1>7, <2>1, <2>2, <2>3
  <1> QED BY <1>3, <1>4, <1>5, <1>8, <1>9 DEF RowOK

(* Every step keeps the row facts: one case per operation.                 *)
LEMMA RowsStep == StoreInv /\ [Next]_vars => RowsOK'
  <1> SUFFICES ASSUME AuditInv, RowsOK, [Next]_vars PROVE RowsOK'
    BY DEF StoreInv
  <1>1. jobs \in [Job -> Row] /\ \A j \in Job : jobs[j] \in Row
    BY DEF AuditInv, TypeInv, TypeOK
  <1>2. \A j \in Job : jobs[j].attempts \in Nat /\ jobs[j].max \in Nat
    BY <1>1, MaxAttemptsAssumption DEF Row, Attempt
  <1>3. \A m \in Attempt : m \in Nat \ {0}
    BY MaxAttemptsAssumption DEF Attempt
  <1>4. ASSUME NEW j \in Job, NEW row, jobs' = [jobs EXCEPT ![j] = row], RowOK(row)
        PROVE  RowsOK'
    BY <1>1, <1>4 DEF RowsOK
  <1>5. ASSUME NEW r \in Root, NEW m \in Attempt, NEW f, jobs' = [jobs EXCEPT ![r] = NewRow(m, f)]
        PROVE  RowsOK'
    BY <1>3, <1>4, <1>5, NewRowOK DEF Job
  <1>6. ASSUME NEW j \in Job, Claim(j) PROVE RowsOK'
    <2> DEFINE n == jobs[j].attempts + 1
               row == [jobs[j] EXCEPT !.status = "running", !.attempts = n, !.token = n, !.live = TRUE]
    <2>1. jobs' = [jobs EXCEPT ![j] = row]
      BY <1>1, <1>6 DEF Claim
    <2>2. jobs[j].attempts < jobs[j].max
      BY <1>6 DEF Claim, RowsOK, RowOK, Status
    <2>3. row.status = "running" /\ row.attempts = n /\ row.token = n /\ row.max = jobs[j].max
      BY <1>1 DEF Row
    <2>4. n <= jobs[j].max /\ jobs[j].max # 0
      BY <1>2, <2>2
    <2>5. RowOK(row)
      <3> HIDE DEF n, row
      <3> QED BY <2>3, <2>4 DEF RowOK, Queued
    <2> QED BY <1>4, <2>1, <2>5
  <1>7. ASSUME NEW j \in Job, Cancel(j) PROVE RowsOK'
    <2> DEFINE c == [jobs[j] EXCEPT !.status = "cancelled", !.cancel = TRUE]
               f == [jobs[j] EXCEPT !.cancel = TRUE]
    <2>1. \/ Status(j) \in Queued /\ jobs' = [jobs EXCEPT ![j] = c]
          \/ jobs' = [jobs EXCEPT ![j] = f]
      BY <1>1, <1>7 DEF Cancel
    <2>2. Status(j) \in Queued => RowOK(c)
      BY <1>1 DEF RowsOK, RowOK, Row, Status, Queued
    <2>3. RowOK(f)
      BY <1>1 DEF RowsOK, RowOK, Row
    <2> QED BY <1>4, <2>1, <2>2, <2>3
  <1>8. ASSUME NEW j \in Job, Due(j) \/ Expire(j) \/ \E n \in Attempt : Heartbeat(j, n)
        PROVE  RowsOK'
    <2> DEFINE d == [jobs[j] EXCEPT !.due = TRUE]
               l == [jobs[j] EXCEPT !.live = TRUE]
               x == [jobs[j] EXCEPT !.live = FALSE]
    <2>1. \/ jobs' = [jobs EXCEPT ![j] = d] \/ jobs' = [jobs EXCEPT ![j] = l]
          \/ jobs' = [jobs EXCEPT ![j] = x]
      BY <1>1, <1>8 DEF Due, Expire, Heartbeat
    <2>2. RowOK(d) /\ RowOK(l) /\ RowOK(x)
      BY <1>1 DEF RowsOK, RowOK, Row
    <2> QED BY <1>4, <2>1, <2>2
  <1>9. ASSUME jobs' = jobs PROVE RowsOK'
    BY <1>9 DEF RowsOK
  <1>10. ASSUME NEW s \in Session, CommitSettle(s) PROVE RowsOK'
    <2> DEFINE t == tx[s]
    <2> SUFFICES ASSUME NEW j \in Job PROVE RowOK(jobs'[j])
      BY DEF RowsOK
    <2>1. jobs'[j] = IF j \in t.rows THEN Settled(t, j)
                     ELSE IF j \in New(t) THEN ChildRow(t)
                     ELSE IF j \in Finalized(t)
                     THEN [jobs[j] EXCEPT !.status = RootTo(t, j), !.err = RootTo(t, j) # "completed"]
                     ELSE jobs[j]
      BY <1>10 DEF CommitSettle
    <2>2. CASE j \in t.rows
      BY <1>10, <2>1, <2>2, SettledOK
    <2>3. CASE j \notin t.rows /\ j \in New(t)
      <3>1. t.rows # {}
        BY <2>3 DEF New, AuditInv, TypeInv, KidsHaveParent
      <3>2. PICK p \in t.rows : p = CHOOSE q \in t.rows : TRUE
        BY <3>1
      <3>3. p \in Job /\ Exists(p)
        BY <1>10, <3>2, CommitEffect DEF Exists
      <3>4. jobs[p].max \in Nat \ {0}
        BY <1>2, <3>3 DEF RowsOK, RowOK, Exists, Status
      <3>5. RowOK(ChildRow(t))
        BY <3>2, <3>4, NewRowOK DEF ChildRow
      <3> QED BY <2>1, <2>3, <3>5
    <2>4. CASE j \notin t.rows /\ j \notin New(t) /\ j \in Finalized(t)
      <3> DEFINE row == [jobs[j] EXCEPT !.status = RootTo(t, j), !.err = RootTo(t, j) # "completed"]
      <3>1. Status(j) = "waiting"
        BY <2>4 DEF Finalized
      <3>2. RootTo(t, j) \in Terminal
        BY ToType
      <3>3. /\ row.status = RootTo(t, j) /\ row.attempts = jobs[j].attempts
            /\ row.max = jobs[j].max /\ row.token = jobs[j].token
        BY <1>1 DEF Row
      <3>4. /\ jobs[j].attempts <= jobs[j].max /\ jobs[j].token = 0 /\ jobs[j].max # 0
        BY <3>1 DEF RowsOK, RowOK, Status
      <3>5. RowOK(row)
        <4> HIDE DEF row
        <4> QED BY <3>2, <3>3, <3>4 DEF RowOK, Terminal, Queued
      <3> QED BY <2>1, <2>4, <3>5
    <2>5. CASE j \notin t.rows /\ j \notin New(t) /\ j \notin Finalized(t)
      BY <2>1, <2>5 DEF RowsOK
    <2> QED BY <2>2, <2>3, <2>4, <2>5
  <1>11. ASSUME NEW s \in Session, CommitCancel(s) PROVE RowsOK'
    <2> SUFFICES ASSUME NEW j \in Job PROVE RowOK(jobs'[j])
      BY DEF RowsOK
    <2> DEFINE c == [jobs[j] EXCEPT !.status = "cancelled", !.cancel = TRUE]
               f == [jobs[j] EXCEPT !.cancel = TRUE]
    <2>1. (j \in tx[s].rows /\ jobs'[j] = c) \/ jobs'[j] = f \/ jobs'[j] = jobs[j]
      BY <1>11 DEF CommitCancel
    <2>2. j \in tx[s].rows => Status(j) \in Queued \cup {"waiting"}
      BY <1>11, CancelEffect
    <2>3. Status(j) \in Queued \cup {"waiting"} => RowOK(c)
      BY <1>1 DEF RowsOK, RowOK, Row, Status, Queued
    <2>4. RowOK(f) /\ RowOK(jobs[j])
      BY <1>1 DEF RowsOK, RowOK, Row
    <2> QED BY <2>1, <2>2, <2>3, <2>4
  <1>12. CASE UNCHANGED vars
    BY <1>9, <1>12 DEF vars
  <1>13. ASSUME NEW s \in Session, Settle(s) \/ ReclaimBegin(s) \/ \E r \in Root : CancelBegin(s, r)
         PROVE  RowsOK'
    BY <1>9, <1>13 DEF Settle, CompleteBegin, FailBegin, ReclaimBegin, CancelBegin, tables
  <1>14. ASSUME NEW S \in SUBSET Session, Rollback(S) PROVE RowsOK'
    BY <1>9, <1>14 DEF Rollback, tables
  <1>15. ASSUME NEW r \in Root, NEW m \in Attempt, Submit(r, m) PROVE RowsOK'
    BY <1>5, <1>15 DEF Submit
  <1>16. ASSUME NEW j \in Job, NEW r \in Root, NEW m \in Attempt, ReplayDLQ(j, r, m) PROVE RowsOK'
    BY <1>5, <1>16 DEF ReplayDLQ
  <1> QED
    BY <1>6, <1>7, <1>8, <1>10, <1>11, <1>12, <1>13, <1>14, <1>15, <1>16 DEF Next, Retry
-----------------------------------------------------------------------------
(* AuditInv needs LeaseDiscipline, and RowsOK needs AuditInv.              *)
LEMMA StoreStep == StoreInv /\ [Next]_vars => StoreInv'
  BY AuditStep, RowsStep, RowsOKImplies DEF StoreInv

(* The inductive invariant holds in every reachable state.                 *)
LEMMA StoreInvariant == Spec => []StoreInv
  <1>1. Init => StoreInv
    BY AuditInit, RowsInit DEF StoreInv
  <1> QED BY <1>1, StoreStep, PTL DEF Spec

(* An audit's verdict is never premature, whatever sessions interleave and *)
(* roll back: finalizeRoot's unlocked count and the later UPDATE agree     *)
(* because only the audit's own running rows can add or end descendants.   *)
THEOREM AuditSound == Spec => []AuditOutcomeSound
  <1>1. StoreInv => AuditOutcomeSound
    BY DEF StoreInv, AuditInv
  <1> QED BY <1>1, StoreInvariant, PTL

(* Claim never exceeds max_attempts, although its query does not look at   *)
(* it: every requeueing transaction leaves an attempt.                     *)
THEOREM BudgetKept == Spec => []AttemptBudget
  <1>1. StoreInv => AttemptBudget
    BY RowsOKImplies DEF StoreInv
  <1> QED BY <1>1, StoreInvariant, PTL

(* Exactly the running rows hold a lease, that of the latest attempt.      *)
THEOREM LeaseKept == Spec => []LeaseDiscipline
  <1>1. StoreInv => LeaseDiscipline
    BY RowsOKImplies DEF StoreInv
  <1> QED BY <1>1, StoreInvariant, PTL

(* No step changes a row that has ended.                                   *)
LEMMA TerminalStep ==
    ASSUME AuditInv, [Next]_vars, NEW j \in Job, Status(j) \in Terminal
    PROVE  jobs'[j] = jobs[j]
  <1>1. jobs \in [Job -> Row]
    BY DEF AuditInv, TypeInv, TypeOK
  <1>2. Status(j) \notin Queued /\ Status(j) # "running" /\ Status(j) # "waiting" /\ Exists(j)
    BY DEF Terminal, Queued, Exists
  <1>3. ASSUME NEW i \in Job, Claim(i) \/ Cancel(i) \/ Due(i) \/ Expire(i)
        PROVE  jobs'[j] = jobs[j]
    <2>1. i # j
      BY <1>2, <1>3 DEF Claim, Cancel, Due, Expire, Queued
    <2> QED BY <1>1, <1>3, <2>1 DEF Claim, Cancel, Due, Expire
  <1>4. ASSUME NEW i \in Job, NEW n \in Attempt, Heartbeat(i, n) PROVE jobs'[j] = jobs[j]
    BY <1>1, <1>2, <1>4 DEF Heartbeat, Fence
  <1>5. ASSUME NEW s \in Session, CommitSettle(s) PROVE jobs'[j] = jobs[j]
    BY <1>2, <1>5, CommitEffect DEF Exists
  <1>6. ASSUME NEW s \in Session, CommitCancel(s) PROVE jobs'[j] = jobs[j]
    BY <1>2, <1>6, CancelEffect
  <1>7. ASSUME NEW r \in Root, NEW m \in Attempt, Submit(r, m) PROVE jobs'[j] = jobs[j]
    BY <1>1, <1>2, <1>7 DEF Submit
  <1>8. ASSUME NEW i \in Job, NEW r \in Root, NEW m \in Attempt, ReplayDLQ(i, r, m)
        PROVE  jobs'[j] = jobs[j]
    BY <1>1, <1>2, <1>8 DEF ReplayDLQ
  <1>9. ASSUME NEW s \in Session, Settle(s) \/ ReclaimBegin(s) \/ \E r \in Root : CancelBegin(s, r)
        PROVE  jobs'[j] = jobs[j]
    BY <1>9 DEF Settle, CompleteBegin, FailBegin, ReclaimBegin, CancelBegin, tables
  <1>10. ASSUME NEW S \in SUBSET Session, Rollback(S) PROVE jobs'[j] = jobs[j]
    BY <1>10 DEF Rollback, tables
  <1>11. CASE UNCHANGED vars
    BY <1>11 DEF vars
  <1> QED
    BY <1>3, <1>4, <1>5, <1>6, <1>7, <1>8, <1>9, <1>10, <1>11 DEF Next, Retry

(* A terminal row never changes again: late completions and failures stop  *)
(* at the fence, recovery and cancellation at their status conditions, and *)
(* finalizeRoot at WHERE status = 'waiting'.                               *)
THEOREM TerminalKept == Spec => TerminalIsFinal
  <1>1. StoreInv /\ [Next]_vars => [\A j \in Job : Status(j) \in Terminal => jobs'[j] = jobs[j]]_vars
    BY TerminalStep DEF StoreInv
  <1> QED BY <1>1, StoreInvariant, PTL DEF Spec, TerminalIsFinal
=============================================================================
