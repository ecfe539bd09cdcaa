-------------------------- MODULE JobHistoryProofs --------------------------
(* Theorems about what JobStore records of a job besides its row: attempts,*)
(* events, results, DLQ entries and replays.  They rest on one lemma,      *)
(* Edges: what a step may do to one job, in all tables at once.  The edges *)
(* are steps of JobLifecycle, which the store implements.                  *)
EXTENDS JobStoreProofs, JobStoreRefinement

(* The columns that only an insertion or a claim writes, a request for     *)
(* cancellation, which is never taken back, and the rows of other tables   *)
(* that only the end of an attempt or of an audit writes.                  *)
Columns(j) ==
    /\ jobs'[j].attempts = jobs[j].attempts
    /\ jobs'[j].max = jobs[j].max /\ jobs'[j].from = jobs[j].from
    /\ jobs[j].cancel => jobs'[j].cancel
Records(j) ==
    tries'[j] = tries[j] /\ dlq'[j] = dlq[j] /\ (j \in results' <=> j \in results)

(* Events are appended; this step adds no event of a wait.                 *)
Appends(j) ==
    events[j] \subseteq events'[j] /\ ("waiting" \in events'[j] => "waiting" \in events[j])

Stays(j) == Status(j)' = Status(j) /\ Columns(j) /\ Records(j) /\ Appends(j)

(* A child is inserted by the Complete of a running job of its audit.      *)
Appears(j) ==
    /\ Status(j) = "none" /\ Status(j)' = "pending"
    /\ jobs'[j].attempts = 0 /\ jobs'[j].max \in Attempt
    /\ Records(j) /\ Appends(j)
    /\ j \in Root => "submitted" \in events'[j]
    /\ j \notin Root => \E p \in {RootOf(j)} \cup Descendants(RootOf(j)) :
          Status(p) = "running" /\ Status(p)' \in {"waiting", "completed"}

Starts(j) ==
    /\ Status(j) \in Queued /\ Status(j)' = "running"
    /\ jobs'[j].attempts = jobs[j].attempts + 1
    /\ jobs'[j].max = jobs[j].max /\ jobs'[j].from = jobs[j].from
    /\ jobs[j].cancel => jobs'[j].cancel
    /\ \A k \in Attempt : tries'[j][k] = IF k = jobs'[j].attempts THEN "running" ELSE tries[j][k]
    /\ dlq'[j] = dlq[j] /\ (j \in results' <=> j \in results)
    /\ Appends(j) /\ "started" \in events'[j]

(* The event names the new status, unless it was the lease that ended; a   *)
(* run ends as cancelled by request, or because Fail was told so.          *)
FailedAsCancelled(j) ==
    \E s \in Session : j \in tx[s].rows /\ tx[s].op = "fail" /\ tx[s].kind \notin {"transient", "permanent"}
Stops(j) ==
    /\ Status(j) = "running" /\ Status(j)' \in Terminal \cup Queued \cup {"waiting"}
    /\ Columns(j)
    /\ Status(j)' \in Queued => jobs[j].attempts < jobs[j].max
    /\ Status(j)' = "dead_lettered" => jobs[j].attempts = jobs[j].max
    /\ Status(j)' = "waiting" => j \in Root
    /\ Status(j)' = "cancelled" => jobs[j].cancel \/ FailedAsCancelled(j)
    /\ \A k \in Attempt : IF k = jobs[j].attempts THEN tries'[j][k] \notin {"none", "running"}
                          ELSE tries'[j][k] = tries[j][k]
    /\ dlq'[j] = IF Status(j)' = "dead_lettered" THEN dlq[j] + 1 ELSE dlq[j]
    /\ j \in results => j \in results'
    /\ j \in results' => j \in results \/ Status(j)' = "completed"
    /\ events[j] \subseteq events'[j]
    /\ "waiting" \in events'[j] => "waiting" \in events[j] \/ Status(j)' = "waiting"
    /\ \/ Status(j)' \in events'[j]
       \/ /\ "lease_expired" \in events'[j]
          /\ Status(j)' \in {"pending", "cancelled", "dead_lettered"}
    /\ Status(j)' = "pending" => "lease_expired" \in events'[j]

Withdraws(j) ==
    /\ Status(j) \in Queued \cup {"waiting"} /\ Status(j)' = "cancelled"
    /\ Columns(j) /\ jobs'[j].cancel /\ Records(j) /\ Appends(j)
    /\ j \in Root => "cancelled" \in events'[j]

(* The verdict of an audit, on the descendants as they are after the step. *)
Verdict(r) ==
    LET ends == {Status(d) : d \in Descendants(r)} IN
    IF "dead_lettered" \in ends THEN "dead_lettered"
    ELSE IF ends \cap {"failed", "cancelled"} # {} THEN "failed" ELSE "completed"

Finishes(j) ==
    /\ j \in Root /\ Status(j) = "waiting"
    /\ \A d \in Descendants(j) : Status(d)' \notin Active
    /\ Status(j)' = Verdict(j)'
    /\ Columns(j) /\ tries'[j] = tries[j]
    /\ dlq'[j] = IF Status(j)' = "dead_lettered" THEN dlq[j] + 1 ELSE dlq[j]
    /\ j \in results => j \in results'
    /\ Status(j)' = "completed" => j \in results'
    /\ j \in results' => j \in results \/ Status(j)' = "completed"
    /\ Appends(j) /\ Status(j)' \in events'[j]

Edge(j) ==
    \/ Stays(j) \/ Appears(j) \/ Starts(j) \/ Stops(j) \/ Withdraws(j) \/ Finishes(j)

(* A job whose rows a step leaves alone.                                   *)
LEMMA StaysOf ==
    ASSUME NEW j, jobs'[j] = jobs[j], tries'[j] = tries[j], dlq'[j] = dlq[j],
           j \in results' <=> j \in results, events'[j] = events[j]
    PROVE  Edge(j)
  BY DEF Edge, Stays, Columns, Records, Appends, Status

(* The columns of a row that is inserted.                                  *)
LEMMA NewRowFields ==
    ASSUME NEW m, NEW f
    PROVE  /\ NewRow(m, f).status = "pending" /\ NewRow(m, f).attempts = 0
           /\ NewRow(m, f).max = m /\ NewRow(m, f).from = f
  BY DEF NewRow, NoRow

(* The insertion of a public job, by Submit, Retry or ReplayDLQ.           *)
LEMMA InsertEdge ==
    ASSUME StoreInv, NEW r \in Root, NEW m \in Attempt, NEW f, NEW E, "submitted" \in E,
           E \subseteq {"submitted", "replayed"}, ~ Exists(r),
           jobs' = [jobs EXCEPT ![r] = NewRow(m, f)],
           events' = [events EXCEPT ![r] = @ \cup E],
           UNCHANGED <<tries, results, dlq>>,
           NEW j \in Job
    PROVE  Edge(j)
  <1>1. TypeOK
    BY DEF StoreInv, AuditInv, TypeInv
  <1>2. CASE j # r
    <2>1. jobs'[j] = jobs[j] /\ events'[j] = events[j]
      BY <1>1, <1>2 DEF TypeOK
    <2> QED BY <2>1, StaysOf
  <1>3. CASE j = r
    <2>1. jobs'[j] = NewRow(m, f) /\ events'[j] = events[j] \cup E
      BY <1>1, <1>3 DEF TypeOK
    <2>2. jobs'[j].status = "pending" /\ jobs'[j].attempts = 0 /\ jobs'[j].max = m
      BY <2>1, NewRowFields
    <2>3. Records(j) /\ Appends(j) /\ "submitted" \in events'[j]
      BY <2>1 DEF Records, Appends
    <2>4. j \in Root /\ Status(j) = "none"
      BY <1>3 DEF Exists
    <2>5. Appears(j)
      BY <2>2, <2>3, <2>4 DEF Appears, Status
    <2> QED BY <2>5 DEF Edge
  <1> QED BY <1>2, <1>3

(* A claim.                                                                *)
LEMMA ClaimEdge ==
    ASSUME StoreInv, NEW i \in Job, Claim(i), NEW j \in Job
    PROVE  Edge(j)
  <1>1. TypeOK
    BY DEF StoreInv, AuditInv, TypeInv
  <1>2. CASE j # i
    <2>1. jobs'[j] = jobs[j] /\ events'[j] = events[j] /\ tries'[j] = tries[j]
      BY <1>1, <1>2 DEF TypeOK, Claim
    <2>2. UNCHANGED <<results, dlq>>
      BY DEF Claim
    <2> QED BY <2>1, <2>2, StaysOf
  <1>3. CASE j = i
    <2> DEFINE n == jobs[j].attempts + 1
               row == [jobs[j] EXCEPT !.status = "running", !.attempts = n, !.token = n, !.live = TRUE]
    <2>1. jobs[j] \in Row
      BY <1>1 DEF TypeOK
    <2>2. jobs'[j] = row
      BY <1>1, <1>3 DEF TypeOK, Claim
    <2>3. /\ row.status = "running" /\ row.attempts = n
          /\ row.max = jobs[j].max /\ row.from = jobs[j].from /\ row.cancel = jobs[j].cancel
      BY <2>1 DEF Row
    <2>4. \A k \in Attempt : tries'[j][k] = IF k = n THEN "running" ELSE tries[j][k]
      BY <1>1, <1>3 DEF TypeOK, Claim
    <2>5. Status(j) \in Queued /\ UNCHANGED <<results, dlq>>
      BY <1>3 DEF Claim
    <2>6. events'[j] = events[j] \cup {"started"}
      BY <1>1, <1>3 DEF TypeOK, Claim
    <2> HIDE DEF n, row
    <2>7. Appends(j) /\ "started" \in events'[j]
      BY <2>6 DEF Appends
    <2> QED BY <2>2, <2>3, <2>4, <2>5, <2>7 DEF Edge, Starts, Status, n
  <1> QED BY <1>2, <1>3

(* Cancel of one row.                                                      *)
LEMMA CancelEdge ==
    ASSUME StoreInv, NEW i \in Job, Cancel(i), NEW j \in Job
    PROVE  Edge(j)
  <1>1. TypeOK /\ UNCHANGED <<tries, results, dlq>>
    BY DEF StoreInv, AuditInv, TypeInv, Cancel
  <1>2. CASE j # i
    <2>1. jobs'[j] = jobs[j] /\ events'[j] = events[j]
      BY <1>1, <1>2 DEF TypeOK, Cancel
    <2> QED BY <1>1, <2>1, StaysOf
  <1>3. CASE j = i
    <2> DEFINE c == [jobs[j] EXCEPT !.status = "cancelled", !.cancel = TRUE]
               f == [jobs[j] EXCEPT !.cancel = TRUE]
    <2>1. jobs[j] \in Row
      BY <1>1 DEF TypeOK
    <2>2. /\ c.status = "cancelled" /\ c.attempts = jobs[j].attempts
          /\ c.max = jobs[j].max /\ c.from = jobs[j].from /\ c.cancel = TRUE
          /\ f.status = jobs[j].status /\ f.attempts = jobs[j].attempts
          /\ f.max = jobs[j].max /\ f.from = jobs[j].from /\ f.cancel = TRUE
      BY <2>1 DEF Row
    <2>3. \/ /\ Status(j) \in Queued /\ jobs'[j] = c
             /\ events'[j] = events[j] \cup {"cancellation_requested", "cancelled"}
          \/ jobs'[j] = f /\ events'[j] = events[j] \cup {"cancellation_requested"}
      BY <1>1, <1>3 DEF TypeOK, Cancel
    <2> HIDE DEF c, f
    <2>4. Records(j) /\ Appends(j)
      BY <1>1, <2>3 DEF Records, Appends
    <2>5. Columns(j)
      BY <2>2, <2>3 DEF Columns
    <2> QED BY <2>2, <2>3, <2>4, <2>5 DEF Edge, Stays, Withdraws, Status
  <1> QED BY <1>2, <1>3

(* Heartbeats and time.                                                    *)
LEMMA QuietEdge ==
    ASSUME StoreInv, NEW i \in Job, Due(i) \/ Expire(i) \/ \E n \in Attempt : Heartbeat(i, n),
           NEW j \in Job
    PROVE  Edge(j)
  <1>1. TypeOK /\ UNCHANGED <<tries, events, results, dlq>>
    BY DEF StoreInv, AuditInv, TypeInv, Due, Expire, Heartbeat
  <1>2. jobs[j] \in Row
    BY <1>1 DEF TypeOK
  <1> DEFINE d == [jobs[j] EXCEPT !.due = TRUE]
             l == [jobs[j] EXCEPT !.live = TRUE]
             x == [jobs[j] EXCEPT !.live = FALSE]
  <1>3. jobs'[j] \in {jobs[j], d, l, x}
    BY <1>1 DEF TypeOK, Due, Expire, Heartbeat
  <1>4. \A row \in {jobs[j], d, l, x} :
          /\ row.status = jobs[j].status /\ row.attempts = jobs[j].attempts
          /\ row.max = jobs[j].max /\ row.from = jobs[j].from /\ row.cancel = jobs[j].cancel
    BY <1>2 DEF Row
  <1> HIDE DEF d, l, x
  <1> QED BY <1>1, <1>3, <1>4 DEF Edge, Stays, Columns, Records, Appends, Status

(* A row that Complete, Fail or ReclaimExpired ends.  The fence made the   *)
(* claim the current attempt, so that is the one that ends.                *)
LEMMA SettleRowEdge ==
    ASSUME StoreInv, NEW s \in Session, CommitSettle(s), NEW j \in tx[s].rows
    PROVE  Edge(j)
  <1> DEFINE t == tx[s]
  <1>1. TypeOK /\ AuditInv /\ RowsOK
    BY DEF StoreInv, AuditInv, TypeInv
  <1>2. j \in Job /\ Status(j) = "running" /\ Status(j)' = To(t, j)
    BY <1>1, CommitEffect
  <1>3. jobs'[j] = Settled(t, j)
    BY <1>2 DEF CommitSettle
  <1>4. Columns(j)
    BY <1>1, <1>2, <1>3, SettledRow DEF Columns
  <1>5. t.op \in {"complete", "fail", "reclaim"}
    BY DEF CommitSettle
  <1>6. t.op \in {"complete", "fail"} => t.n = jobs[j].attempts
    BY <1>1 DEF AuditInv, TxFacts
  <1>7. Ended(t, j) = jobs[j].attempts
    BY <1>5, <1>6 DEF Ended
  <1>8. EndedAs(t, j) \notin {"none", "running"}
    BY DEF EndedAs, FailTo
  <1>9. \A k \in Attempt : tries'[j][k] = IF k = jobs[j].attempts THEN EndedAs(t, j) ELSE tries[j][k]
    BY <1>2, <1>7 DEF CommitSettle
  <1>10. j \notin Finalized(t)
    BY <1>2 DEF Finalized
  <1>11. dlq'[j] = IF To(t, j) = "dead_lettered" THEN dlq[j] + 1 ELSE dlq[j]
    BY <1>2, <1>10 DEF CommitSettle, DeadLettered
  <1>12. /\ j \in results => j \in results'
         /\ j \in results' => j \in results \/ To(t, j) = "completed"
    BY <1>10 DEF CommitSettle, Resulting
  <1>13. events'[j] = events[j] \cup {EventOf(t, j)}
    BY <1>2 DEF CommitSettle
  <1>14. RowOK(Settled(t, j))
    BY <1>1, SettledOK
  <1>15. To(t, j) \in Queued => jobs[j].attempts < jobs[j].max
    BY <1>1, <1>2, <1>14, SettledRow DEF RowOK
  <1>16. To(t, j) = "dead_lettered" => jobs[j].attempts = jobs[j].max
    <2>1. jobs[j].attempts \in Nat /\ jobs[j].max \in Nat
      BY <1>1, <1>2, MaxAttemptsAssumption DEF TypeOK, Row, Attempt
    <2>2. jobs[j].attempts <= jobs[j].max
      BY <1>1, <1>2 DEF RowsOK, RowOK
    <2>3. To(t, j) = "dead_lettered" => jobs[j].attempts >= jobs[j].max
      BY <1>5, <1>6, <2>1 DEF To, CompleteTo, FailTo, ReclaimTo
    <2> QED BY <2>1, <2>2, <2>3
  <1>17. /\ To(t, j) \in Terminal \cup Queued \cup {"waiting"}
         /\ To(t, j) = "waiting" => j \in Root
         /\ t.op = "reclaim" => To(t, j) \in {"pending", "cancelled", "dead_lettered"}
         /\ t.op # "reclaim" => To(t, j) # "pending"
    BY <1>5 DEF To, CompleteTo, FailTo, ReclaimTo, Terminal, Queued
  <1>18. To(t, j) = "cancelled" => jobs[j].cancel \/ FailedAsCancelled(j)
    BY <1>5 DEF To, CompleteTo, FailTo, ReclaimTo, FailedAsCancelled
  <1>19. EventOf(t, j) = IF t.op = "reclaim" THEN "lease_expired" ELSE To(t, j)
    BY DEF EventOf
  <1> HIDE DEF t
  <1>20. /\ \A k \in Attempt : IF k = jobs[j].attempts THEN tries'[j][k] \notin {"none", "running"}
                                ELSE tries'[j][k] = tries[j][k]
    BY <1>8, <1>9
  <1>21. Stops(j)
    BY <1>2, <1>4, <1>11, <1>12, <1>13, <1>15, <1>16, <1>17, <1>18, <1>19, <1>20 DEF Stops
  <1> QED BY <1>21 DEF Edge

(* A child that Complete inserts, with its parent's limit.                 *)
LEMMA SettleChildEdge ==
    ASSUME StoreInv, NEW s \in Session, CommitSettle(s), NEW j \in New(tx[s])
    PROVE  Edge(j)
  <1> DEFINE t == tx[s]
  <1>1. TypeOK /\ AuditInv /\ RowsOK
    BY DEF StoreInv, AuditInv, TypeInv
  <1>2. j \in Child /\ Status(j) = "none" /\ Status(j)' = "pending"
    BY <1>1, CommitEffect
  <1>3. j \in Job /\ j \notin Root /\ RootOf(j) \in Root /\ j \in Descendants(RootOf(j))
    BY <1>2, Families, RootAssumption DEF Job, Child
  <1>4. t.op = "complete"
    BY <1>1, <1>3, ParentOf
  <1>5. PICK p \in Job : /\ t.rows = {p} /\ Status(p) = "running"
                         /\ p = RootOf(j) \/ p \in Descendants(RootOf(j))
    BY <1>1, <1>3, ParentOf
  <1>6. Status(p)' = To(t, p)
    BY <1>1, <1>5, CommitEffect
  <1>7. Status(p)' \in {"waiting", "completed"}
    BY <1>4, <1>6 DEF To, CompleteTo
  <1>8. j \notin t.rows /\ j \notin Finalized(t)
    BY <1>2, <1>5 DEF Finalized
  <1>9. jobs'[j] = ChildRow(t)
    BY <1>3, <1>8 DEF CommitSettle
  <1>10. jobs[p].max \in Attempt
    BY <1>1, <1>5 DEF TypeOK, Row, RowsOK, RowOK, Status
  <1>11. ChildRow(t) = NewRow(jobs[p].max, NoJob)
    BY <1>5 DEF ChildRow
  <1>12. jobs'[j].attempts = 0 /\ jobs'[j].max \in Attempt
    BY <1>9, <1>10, <1>11 DEF NewRow, NoRow
  <1>13. tries'[j] = tries[j]
    <2>1. tries'[j] = [k \in Attempt |-> tries[j][k]]
      BY <1>3, <1>8 DEF CommitSettle
    <2>2. tries[j] \in [Attempt -> AttemptStatus]
      BY <1>1, <1>3 DEF TypeOK
    <2> QED BY <2>1, <2>2
  <1>14. dlq'[j] = dlq[j] /\ (j \in results' <=> j \in results) /\ events'[j] = events[j]
    BY <1>3, <1>8 DEF CommitSettle, DeadLettered, Resulting
  <1>15. Appears(j)
    BY <1>2, <1>3, <1>5, <1>7, <1>12, <1>13, <1>14 DEF Appears, Records, Appends
  <1> QED BY <1>15 DEF Edge

(* The root that a commit finalizes: what finalizeRoot read before the     *)
(* commit is what the descendants are after it.                            *)
LEMMA SettleRootEdge ==
    ASSUME StoreInv, NEW s \in Session, CommitSettle(s), NEW j \in Finalized(tx[s])
    PROVE  Edge(j)
  <1> DEFINE t == tx[s]
  <1>1. TypeOK /\ AuditInv /\ RowsOK
    BY DEF StoreInv, AuditInv, TypeInv
  <1>2. j \in Root /\ j \in Job /\ Status(j) = "waiting" /\ Status(j)' = RootTo(t, j)
    BY <1>1, CommitEffect DEF Job
  <1>3. j \notin t.rows /\ j \notin New(t)
    BY <1>1, <1>2, CommitEffect
  <1>4. \A d \in Descendants(j) : Status(d)' = Seen(t, d)
    <2> TAKE d \in Descendants(j)
    <2>1. d \in Job /\ d \notin Root
      BY <1>2, Families
    <2>2. d \notin Finalized(t)
      BY <1>1, <2>1, CommitEffect
    <2>3. d \in t.rows => Status(d)' = To(t, d)
      BY <1>1, CommitEffect
    <2>4. d \in New(t) => Status(d)' = "pending"
      BY <1>1, CommitEffect
    <2>5. d \notin t.rows \cup New(t) => jobs'[d] = jobs[d]
      BY <1>1, <2>1, <2>2, CommitEffect
    <2> QED BY <2>3, <2>4, <2>5 DEF Seen, Status
  <1>5. \A d \in Descendants(j) : Seen(t, d) \notin Active
    BY <1>1 DEF Finalized, AuditInv, IdleSound
  <1>6. RootTo(t, j) = Verdict(j)'
    <2>1. {Seen(t, d) : d \in Descendants(j)} = {Status(d)' : d \in Descendants(j)}
      BY <1>4
    <2> QED BY <2>1 DEF RootTo, Verdict
  <1>7. jobs'[j] = [jobs[j] EXCEPT !.status = RootTo(t, j), !.err = RootTo(t, j) # "completed"]
    BY <1>2, <1>3 DEF CommitSettle
  <1>8. jobs[j] \in Row
    BY <1>1, <1>2 DEF TypeOK
  <1>9. Columns(j)
    BY <1>7, <1>8 DEF Columns, Row
  <1>10. tries'[j] = tries[j]
    <2>1. tries'[j] = [k \in Attempt |-> tries[j][k]]
      BY <1>2, <1>3 DEF CommitSettle
    <2>2. tries[j] \in [Attempt -> AttemptStatus]
      BY <1>1, <1>2 DEF TypeOK
    <2> QED BY <2>1, <2>2
  <1>11. dlq'[j] = IF RootTo(t, j) = "dead_lettered" THEN dlq[j] + 1 ELSE dlq[j]
    BY <1>2, <1>3 DEF CommitSettle, DeadLettered
  <1>12. /\ j \in results => j \in results'
         /\ RootTo(t, j) = "completed" => j \in results'
         /\ j \in results' => j \in results \/ RootTo(t, j) = "completed"
    BY <1>3 DEF CommitSettle, Resulting
  <1>13. events'[j] = events[j] \cup {RootTo(t, j)}
    BY <1>2, <1>3 DEF CommitSettle
  <1>14. RootTo(t, j) # "waiting"
    BY DEF RootTo
  <1>15. \A d \in Descendants(j) : Status(d)' \notin Active
    BY <1>4, <1>5
  <1> HIDE DEF t
  <1>16. Appends(j) /\ Status(j)' \in events'[j]
    BY <1>2, <1>13, <1>14 DEF Appends
  <1>17. Finishes(j)
    BY <1>2, <1>6, <1>9, <1>10, <1>11, <1>12, <1>15, <1>16 DEF Finishes
  <1> QED BY <1>17 DEF Edge

(* The commit of a Cancel of a waiting audit.                              *)
LEMMA CommitCancelEdge ==
    ASSUME StoreInv, NEW s \in Session, CommitCancel(s), NEW j \in Job
    PROVE  Edge(j)
  <1> DEFINE t == tx[s]
             q == CHOOSE c \in t.rows : c \in Root
             c == [jobs[j] EXCEPT !.status = "cancelled", !.cancel = TRUE]
             f == [jobs[j] EXCEPT !.cancel = TRUE]
  <1>1. TypeOK /\ AuditInv
    BY DEF StoreInv, AuditInv, TypeInv
  <1>2. jobs[j] \in Row
    BY <1>1 DEF TypeOK
  <1>3. PICK r \in Root : /\ r \in t.rows /\ Status(r) = "waiting"
                          /\ \A i \in t.rows \ {r} : i \in Descendants(r) /\ Status(i) \in Queued
    BY <1>1, CancelEffect
  <1>4. q = r
    <2>1. q \in t.rows /\ q \in Root
      BY <1>3
    <2> QED BY <1>3, <2>1, Families
  <1>5. /\ c.status = "cancelled" /\ c.attempts = jobs[j].attempts
        /\ c.max = jobs[j].max /\ c.from = jobs[j].from /\ c.cancel = TRUE
        /\ f.status = jobs[j].status /\ f.attempts = jobs[j].attempts
        /\ f.max = jobs[j].max /\ f.from = jobs[j].from /\ f.cancel = TRUE
    BY <1>2 DEF Row
  <1>6. IF j \in t.rows THEN jobs'[j] = c ELSE jobs'[j] = f \/ jobs'[j] = jobs[j]
    BY DEF CommitCancel
  <1>7. events' = [events EXCEPT ![q] = @ \cup {"cancellation_requested", "cancelled"}]
    BY DEF CommitCancel
  <1>8. /\ j = r => events'[j] = events[j] \cup {"cancellation_requested", "cancelled"}
        /\ j # r => events'[j] = events[j]
    BY <1>1, <1>4, <1>7 DEF TypeOK
  <1>9. UNCHANGED <<tries, results, dlq>>
    BY DEF CommitCancel
  <1>10. j \in t.rows /\ j \in Root => j = r
    BY <1>3, Families
  <1> HIDE DEF c, f, q, t
  <1>11. Records(j) /\ Appends(j)
    BY <1>8, <1>9 DEF Records, Appends
  <1>12. Columns(j)
    BY <1>5, <1>6 DEF Columns
  <1>13. CASE j \in t.rows
    <2>1. Status(j) \in Queued \cup {"waiting"}
      BY <1>3, <1>13
    <2>2. Withdraws(j)
      BY <1>5, <1>6, <1>8, <1>10, <1>11, <1>12, <1>13, <2>1 DEF Withdraws, Status
    <2> QED BY <2>2 DEF Edge
  <1>14. CASE j \notin t.rows
    <2>1. Stays(j)
      BY <1>5, <1>6, <1>11, <1>12, <1>14 DEF Stays, Status
    <2> QED BY <2>1 DEF Edge
  <1> QED BY <1>13, <1>14

(* What a step may do to a job, one case per operation of the store.       *)
LEMMA Edges ==
    ASSUME StoreInv, [Next]_vars, NEW j \in Job
    PROVE  Edge(j)
  <1>1. TypeOK /\ AuditInv
    BY DEF StoreInv, AuditInv, TypeInv
  <1>2. ASSUME NEW r \in Root, NEW m \in Attempt, Submit(r, m) PROVE Edge(j)
    <2> DEFINE E == {"submitted"}
    <2>1. /\ ~ Exists(r) /\ jobs' = [jobs EXCEPT ![r] = NewRow(m, NoJob)]
          /\ events' = [events EXCEPT ![r] = @ \cup E]
          /\ UNCHANGED <<tries, results, dlq>>
      BY <1>2 DEF Submit
    <2>2. "submitted" \in E /\ E \subseteq {"submitted", "replayed"}
      OBVIOUS
    <2> HIDE DEF E
    <2> QED BY <2>1, <2>2, InsertEdge
  <1>3. ASSUME NEW i \in Job, NEW r \in Root, NEW m \in Attempt, ReplayDLQ(i, r, m) PROVE Edge(j)
    <2> DEFINE E == {"submitted", "replayed"}
    <2>1. /\ ~ Exists(r) /\ jobs' = [jobs EXCEPT ![r] = NewRow(m, i)]
          /\ events' = [events EXCEPT ![r] = @ \cup E]
          /\ UNCHANGED <<tries, results, dlq>>
      BY <1>3 DEF ReplayDLQ
    <2>2. "submitted" \in E /\ E \subseteq {"submitted", "replayed"}
      OBVIOUS
    <2> HIDE DEF E
    <2> QED BY <2>1, <2>2, InsertEdge
  <1>4. ASSUME NEW i \in Job, Claim(i) PROVE Edge(j)
    BY <1>4, ClaimEdge
  <1>5. ASSUME NEW i \in Job, Cancel(i) PROVE Edge(j)
    BY <1>5, CancelEdge
  <1>6. ASSUME NEW i \in Job, Due(i) \/ Expire(i) \/ \E n \in Attempt : Heartbeat(i, n)
        PROVE  Edge(j)
    BY <1>6, QuietEdge
  <1>7. ASSUME NEW s \in Session, CommitSettle(s) PROVE Edge(j)
    <2>1. CASE j \in tx[s].rows
      BY <1>7, <2>1, SettleRowEdge
    <2>2. CASE j \in New(tx[s])
      BY <1>7, <2>2, SettleChildEdge
    <2>3. CASE j \in Finalized(tx[s])
      BY <1>7, <2>3, SettleRootEdge
    <2>4. CASE j \notin tx[s].rows \cup New(tx[s]) \cup Finalized(tx[s])
      <3>1. jobs'[j] = jobs[j]
        BY <1>1, <1>7, <2>4, CommitEffect
      <3>2. tries'[j] = tries[j]
        <4>1. tries'[j] = [k \in Attempt |-> tries[j][k]]
          BY <1>7, <2>4 DEF CommitSettle
        <4>2. tries[j] \in [Attempt -> AttemptStatus]
          BY <1>1 DEF TypeOK
        <4> QED BY <4>1, <4>2
      <3>3. dlq'[j] = dlq[j] /\ (j \in results' <=> j \in results) /\ events'[j] = events[j]
        BY <1>7, <2>4 DEF CommitSettle, DeadLettered, Resulting
      <3> QED BY <3>1, <3>2, <3>3, StaysOf
    <2> QED BY <2>1, <2>2, <2>3, <2>4
  <1>8. ASSUME NEW s \in Session, CommitCancel(s) PROVE Edge(j)
    BY <1>8, CommitCancelEdge
  <1>9. ASSUME UNCHANGED tables PROVE Edge(j)
    BY <1>9, StaysOf DEF tables
  <1>10. ASSUME NEW s \in Session, Settle(s) \/ ReclaimBegin(s) \/ \E r \in Root : CancelBegin(s, r)
         PROVE  Edge(j)
    BY <1>9, <1>10 DEF Settle, CompleteBegin, FailBegin, ReclaimBegin, CancelBegin
  <1>11. ASSUME NEW S \in SUBSET Session, Rollback(S) PROVE Edge(j)
    BY <1>9, <1>11 DEF Rollback
  <1>12. CASE UNCHANGED vars
    BY <1>9, <1>12 DEF vars, tables
  <1> QED
    BY <1>2, <1>3, <1>4, <1>5, <1>6, <1>7, <1>8, <1>10, <1>11, <1>12 DEF Next, Retry
-----------------------------------------------------------------------------
(***************************************************************************)
(* The invariants, with what makes them inductive.                         *)
(***************************************************************************)

(* A row that does not exist has no attempts and replays nothing.          *)
Blank == \A j \in Job : Status(j) = "none" => jobs[j].attempts = 0 /\ jobs[j].from = NoJob

(* A job that waited once never runs again, so only finalizeRoot can       *)
(* complete it, and that stores the summary.                               *)
WaitedOnce == \A r \in Root : "waiting" \in events[r] => Status(r) \in Terminal \cup {"waiting"}

HistoryInv ==
    Blank /\ WaitedOnce /\ AttemptLedger /\ DeadLetterOnce /\ ResultsSound /\ EventTrail

(* A verdict ends the audit.                                               *)
LEMMA VerdictType == ASSUME NEW r PROVE Verdict(r)' \in {"completed", "failed", "dead_lettered"}
  BY DEF Verdict

(* What the provers need to know of the columns.                           *)
LEMMA Counts ==
    ASSUME StoreInv, NEW j \in Job
    PROVE  jobs[j].attempts \in Nat /\ jobs[j].max \in Nat /\ dlq[j] \in Nat
  BY MaxAttemptsAssumption DEF StoreInv, AuditInv, TypeInv, TypeOK, Row, Attempt

(* Rows are never deleted, and an insertion has no attempts yet.           *)
LEMMA BlankStep == ASSUME StoreInv, [Next]_vars, Blank PROVE Blank'
  <1> SUFFICES ASSUME NEW j \in Job, Status(j)' = "none"
               PROVE  jobs'[j].attempts = 0 /\ jobs'[j].from = NoJob
    BY DEF Blank
  <1>1. Edge(j)
    BY Edges
  <1>2. Finishes(j) => Status(j)' # "none"
    BY VerdictType DEF Finishes
  <1>3. Stays(j)
    BY <1>1, <1>2 DEF Edge, Appears, Starts, Stops, Withdraws, Terminal, Queued
  <1> QED BY <1>3 DEF Stays, Columns, Blank

(* Claim opens the attempt that it counts; whoever ends the run ends that  *)
(* attempt and no other.                                                   *)
LEMMA LedgerStep == ASSUME StoreInv, [Next]_vars, Blank, AttemptLedger PROVE AttemptLedger'
  <1> SUFFICES ASSUME NEW j \in Job, NEW k \in Attempt
               PROVE  /\ tries'[j][k] = "none" <=> k > jobs'[j].attempts
                      /\ tries'[j][k] = "running" <=> Status(j)' = "running" /\ k = jobs'[j].attempts
    BY DEF AttemptLedger
  <1>1. /\ tries[j][k] = "none" <=> k > jobs[j].attempts
        /\ tries[j][k] = "running" <=> Status(j) = "running" /\ k = jobs[j].attempts
    BY DEF AttemptLedger
  <1>2. jobs[j].attempts \in Nat /\ k \in Nat
    BY Counts, MaxAttemptsAssumption DEF Attempt
  <1>3. CASE Stays(j)
    BY <1>1, <1>3 DEF Stays, Columns, Records
  <1>4. CASE Appears(j)
    BY <1>1, <1>2, <1>4 DEF Appears, Records, Blank
  <1>5. CASE Starts(j)
    BY <1>1, <1>2, <1>5 DEF Starts, Queued
  <1>6. CASE Stops(j)
    BY <1>1, <1>2, <1>6 DEF Stops, Columns, Terminal, Queued
  <1>7. CASE Withdraws(j)
    BY <1>1, <1>7 DEF Withdraws, Columns, Records, Queued
  <1>8. CASE Finishes(j)
    BY <1>1, <1>8, VerdictType DEF Finishes, Columns
  <1> QED BY <1>3, <1>4, <1>5, <1>6, <1>7, <1>8, Edges DEF Edge

(* The transaction that dead-letters a job inserts its DLQ entry.          *)
LEMMA DeadLetterStep == ASSUME StoreInv, [Next]_vars, DeadLetterOnce PROVE DeadLetterOnce'
  <1> SUFFICES ASSUME NEW j \in Job
               PROVE  dlq'[j] = IF Status(j)' = "dead_lettered" THEN 1 ELSE 0
    BY DEF DeadLetterOnce
  <1>1. dlq[j] = IF Status(j) = "dead_lettered" THEN 1 ELSE 0
    BY DEF DeadLetterOnce
  <1>2. Edge(j)
    BY Edges
  <1> QED BY <1>1, <1>2
      DEF Edge, Stays, Appears, Starts, Stops, Withdraws, Finishes, Records, Queued

(* A job's own run never completes it once it has waited.                  *)
LEMMA ResultsStep ==
    ASSUME StoreInv, [Next]_vars, WaitedOnce, ResultsSound PROVE WaitedOnce' /\ ResultsSound'
  <1>1. ASSUME NEW j \in results' PROVE Status(j)' = "completed"
    <2>1. j \in Job
      BY TypeStep DEF StoreInv, AuditInv, TypeInv, TypeOK
    <2>2. j \in results => Status(j) = "completed"
      BY DEF ResultsSound
    <2>3. Edge(j)
      BY <2>1, Edges
    <2> QED BY <2>2, <2>3
        DEF Edge, Stays, Appears, Starts, Stops, Withdraws, Finishes, Records, Queued
  <1>2. ASSUME NEW r \in Root
        PROVE  /\ "waiting" \in events'[r] => Status(r)' \in Terminal \cup {"waiting"}
               /\ Status(r)' = "completed" /\ "waiting" \in events'[r] => r \in results'
    <2>1. /\ "waiting" \in events[r] => Status(r) \in Terminal \cup {"waiting"}
          /\ Status(r) = "completed" /\ "waiting" \in events[r] => r \in results
      BY DEF WaitedOnce, ResultsSound
    <2>2. CASE Stays(r)
      BY <2>1, <2>2 DEF Stays, Records, Appends
    <2>3. CASE Appears(r)
      BY <2>1, <2>3 DEF Appears, Appends, Terminal
    <2>4. CASE Starts(r)
      BY <2>1, <2>4 DEF Starts, Appends, Terminal, Queued
    <2>5. CASE Stops(r)
      BY <2>1, <2>5 DEF Stops, Terminal
    <2>6. CASE Withdraws(r)
      BY <2>6 DEF Withdraws, Terminal
    <2>7. CASE Finishes(r)
      BY <2>7, VerdictType DEF Finishes, Terminal
    <2> QED BY <2>2, <2>3, <2>4, <2>5, <2>6, <2>7, Edges DEF Edge, Job
  <1> QED BY <1>1, <1>2 DEF WaitedOnce, ResultsSound

(* Every transition commits with its event.                                *)
LEMMA TrailStep == ASSUME StoreInv, [Next]_vars, Blank, EventTrail PROVE EventTrail'
  <1> DEFINE Trail(st, n, ev) ==
        /\ st # "none" => "submitted" \in ev
        /\ n > 0 => "started" \in ev
        /\ st \in {"waiting", "completed", "failed", "retry_scheduled"} => st \in ev
        /\ st \in {"dead_lettered", "cancelled"} => {st, "lease_expired"} \cap ev # {}
        /\ st = "pending" /\ n > 0 => "lease_expired" \in ev
  <1> SUFFICES ASSUME NEW r \in Root
               PROVE  Trail(Status(r)', jobs'[r].attempts, events'[r])
    BY DEF EventTrail, Exists, Trail
  <1>1. Trail(Status(r), jobs[r].attempts, events[r])
    BY DEF EventTrail, Exists
  <1>2. r \in Job
    BY DEF Job
  <1>3. CASE Stays(r)
    BY <1>1, <1>3 DEF Stays, Columns, Appends
  <1>4. CASE Appears(r)
    BY <1>4 DEF Appears
  <1>5. CASE Starts(r)
    BY <1>1, <1>5 DEF Starts, Appends, Queued
  <1>6. CASE Stops(r)
    BY <1>1, <1>6 DEF Stops, Columns, Terminal, Queued
  <1>7. CASE Withdraws(r)
    BY <1>1, <1>7 DEF Withdraws, Columns, Appends, Queued
  <1>8. CASE Finishes(r)
    BY <1>1, <1>8, VerdictType DEF Finishes, Columns, Appends
  <1> QED BY <1>2, <1>3, <1>4, <1>5, <1>6, <1>7, <1>8, Edges DEF Edge

(* Only Submit, Retry and ReplayDLQ insert a public job.                   *)
LEMMA UnbornRoot ==
    ASSUME StoreInv, [Next]_vars, NEW r \in Root, Status(r) = "none",
           \A m \in Attempt : ~ Submit(r, m) /\ \A i \in Job : ~ ReplayDLQ(i, r, m)
    PROVE  jobs'[r] = jobs[r]
  <1>1. AuditInv /\ jobs \in [Job -> Row] /\ r \in Job
    BY DEF StoreInv, AuditInv, TypeInv, TypeOK, Job
  <1>2. ASSUME NEW i \in Job, Claim(i) \/ Cancel(i) \/ Due(i) \/ Expire(i)
        PROVE  jobs'[r] = jobs[r]
    <2>1. i # r
      BY <1>2 DEF Claim, Cancel, Due, Expire, Queued
    <2> QED BY <1>1, <1>2, <2>1 DEF Claim, Cancel, Due, Expire
  <1>3. ASSUME NEW i \in Job, NEW n \in Attempt, Heartbeat(i, n) PROVE jobs'[r] = jobs[r]
    BY <1>1, <1>3 DEF Heartbeat, Fence
  <1>4. ASSUME NEW s \in Session, CommitSettle(s) PROVE jobs'[r] = jobs[r]
    <2>1. r \notin Child
      BY RootAssumption DEF Child
    <2> QED BY <1>1, <1>4, <2>1, CommitEffect
  <1>5. ASSUME NEW s \in Session, CommitCancel(s) PROVE jobs'[r] = jobs[r]
    BY <1>1, <1>5, CancelEffect DEF Queued
  <1>6. ASSUME NEW q \in Root, NEW m \in Attempt, Submit(q, m) PROVE jobs'[r] = jobs[r]
    BY <1>1, <1>6 DEF Submit
  <1>7. ASSUME NEW i \in Job, NEW q \in Root, NEW m \in Attempt, ReplayDLQ(i, q, m)
        PROVE  jobs'[r] = jobs[r]
    <2>1. q # r
      BY <1>7
    <2> QED BY <1>1, <1>7, <2>1 DEF ReplayDLQ
  <1>8. ASSUME UNCHANGED tables PROVE jobs'[r] = jobs[r]
    BY <1>8 DEF tables
  <1>9. ASSUME NEW s \in Session, Settle(s) \/ ReclaimBegin(s) \/ \E q \in Root : CancelBegin(s, q)
        PROVE  jobs'[r] = jobs[r]
    BY <1>8, <1>9 DEF Settle, CompleteBegin, FailBegin, ReclaimBegin, CancelBegin
  <1>10. ASSUME NEW S \in SUBSET Session, Rollback(S) PROVE jobs'[r] = jobs[r]
    BY <1>8, <1>10 DEF Rollback
  <1>11. CASE UNCHANGED vars
    BY <1>11 DEF vars
  <1> QED
    BY <1>2, <1>3, <1>4, <1>5, <1>6, <1>7, <1>9, <1>10, <1>11 DEF Next, Retry

(* ReplayDLQ of entry i as job q: both sides of the link are written, and  *)
(* the entry had none.                                                     *)
Replays(i, q) ==
    /\ replayed[i] = NoJob /\ Status(q) = "none"
    /\ replayed' = [replayed EXCEPT ![i] = q] /\ jobs'[q].from = i
    /\ \A r \in Root \ {q} : jobs'[r].from = jobs[r].from

(* A step replays one entry or leaves all links alone.                     *)
LEMMA Links ==
    ASSUME StoreInv, Blank, [Next]_vars
    PROVE  \/ replayed' = replayed /\ \A r \in Root : jobs'[r].from = jobs[r].from
           \/ \E i, q \in Root : Replays(i, q)
  <1>1. jobs \in [Job -> Row] /\ \A r \in Root : r \in Job
    BY DEF StoreInv, AuditInv, TypeInv, TypeOK, Job
  <1>2. CASE \E i \in Job, q \in Root, m \in Attempt : ReplayDLQ(i, q, m)
    <2>1. PICK i \in Job, q \in Root, m \in Attempt : ReplayDLQ(i, q, m)
      BY <1>2
    <2>2. /\ i \in Root /\ replayed[i] = NoJob /\ Status(q) = "none"
          /\ replayed' = [replayed EXCEPT ![i] = q] /\ jobs' = [jobs EXCEPT ![q] = NewRow(m, i)]
      BY <2>1 DEF ReplayDLQ, Exists
    <2>3. jobs'[q].from = i
      BY <1>1, <2>2, NewRowFields
    <2>4. \A r \in Root \ {q} : jobs'[r].from = jobs[r].from
      BY <1>1, <2>2
    <2> QED BY <2>2, <2>3, <2>4 DEF Replays
  <1>3. CASE \A i \in Job, q \in Root, m \in Attempt : ~ ReplayDLQ(i, q, m)
    <2>1. replayed' = replayed
      <3>1. ASSUME NEW i \in Job, Claim(i) \/ Cancel(i) \/ Due(i) \/ Expire(i) PROVE replayed' = replayed
        BY <3>1 DEF Claim, Cancel, Due, Expire
      <3>2. ASSUME NEW i \in Job, NEW n \in Attempt, Heartbeat(i, n) PROVE replayed' = replayed
        BY <3>2 DEF Heartbeat
      <3>3. ASSUME NEW r \in Root, NEW m \in Attempt, Submit(r, m) PROVE replayed' = replayed
        BY <3>3 DEF Submit
      <3>4. ASSUME NEW s \in Session, CommitSettle(s) \/ CommitCancel(s) PROVE replayed' = replayed
        BY <3>4 DEF CommitSettle, CommitCancel
      <3>5. ASSUME UNCHANGED tables PROVE replayed' = replayed
        BY <3>5 DEF tables
      <3>6. ASSUME NEW s \in Session, Settle(s) \/ ReclaimBegin(s) \/ \E q \in Root : CancelBegin(s, q)
            PROVE  replayed' = replayed
        BY <3>5, <3>6 DEF Settle, CompleteBegin, FailBegin, ReclaimBegin, CancelBegin
      <3>7. ASSUME NEW S \in SUBSET Session, Rollback(S) PROVE replayed' = replayed
        BY <3>5, <3>7 DEF Rollback
      <3>8. CASE UNCHANGED vars
        BY <3>8 DEF vars
      <3> QED BY <1>3, <3>1, <3>2, <3>3, <3>4, <3>6, <3>7, <3>8 DEF Next, Retry
    <2>2. ASSUME NEW r \in Root PROVE jobs'[r].from = jobs[r].from
      <3>1. CASE Status(r) # "none"
        <4>1. Edge(r)
          BY <1>1, Edges
        <4>2. Columns(r) \/ Starts(r)
          BY <3>1, <4>1 DEF Edge, Stays, Appears, Stops, Withdraws, Finishes
        <4> QED BY <4>2 DEF Columns, Starts
      <3>2. CASE Status(r) = "none" /\ \E m \in Attempt : Submit(r, m)
        <4>1. PICK m \in Attempt : Submit(r, m)
          BY <3>2
        <4>2. jobs'[r] = NewRow(m, NoJob)
          BY <1>1, <4>1 DEF Submit
        <4> QED BY <1>1, <3>2, <4>2, NewRowFields DEF Blank
      <3>3. CASE Status(r) = "none" /\ \A m \in Attempt : ~ Submit(r, m)
        BY <1>3, <3>3, UnbornRoot
      <3> QED BY <3>1, <3>2, <3>3
    <2> QED BY <2>1, <2>2
  <1> QED BY <1>2, <1>3

(* The empty tables have no history.                                       *)
LEMMA HistoryInit == Init => HistoryInv
  <1> SUFFICES ASSUME Init PROVE HistoryInv
    OBVIOUS
  <1>1. /\ \A j \in Job : jobs[j] = NoRow /\ events[j] = {} /\ dlq[j] = 0 /\ replayed[j] = NoJob
        /\ \A j \in Job, n \in Attempt : tries[j][n] = "none"
        /\ results = {} /\ \A r \in Root : r \in Job
    BY DEF Init, Job
  <1>2. NoRow.status = "none" /\ NoRow.attempts = 0 /\ NoRow.from = NoJob
    BY DEF NoRow
  <1>3. \A n \in Attempt : n > 0
    BY MaxAttemptsAssumption DEF Attempt
  <1>4. AttemptLedger
    BY <1>1, <1>2, <1>3 DEF AttemptLedger, Status
  <1>5. EventTrail
    BY <1>1, <1>2 DEF EventTrail, Status, Exists
  <1>6. Blank /\ WaitedOnce /\ DeadLetterOnce /\ ResultsSound
    BY <1>1, <1>2 DEF Blank, WaitedOnce, DeadLetterOnce, ResultsSound, Status
  <1> QED BY <1>4, <1>5, <1>6 DEF HistoryInv

(* The strengthened invariant holds in every reachable state.              *)
LEMMA HistoryInvariant == Spec => [](StoreInv /\ HistoryInv)
  <1>1. HistoryInv /\ StoreInv /\ [Next]_vars => HistoryInv'
    BY BlankStep, LedgerStep, DeadLetterStep, ResultsStep, TrailStep DEF HistoryInv
  <1> QED BY <1>1, HistoryInit, StoreInvariant, PTL DEF Spec

(* job_attempts agrees with jobs: one attempt per claim, and the current   *)
(* one is open exactly while the job runs, whatever stale callers,         *)
(* recoveries and rollbacks interleave.                                    *)
THEOREM LedgerKept == Spec => []AttemptLedger
  <1>1. HistoryInv => AttemptLedger
    BY DEF HistoryInv
  <1> QED BY <1>1, HistoryInvariant, PTL

(* A job is dead-lettered together with exactly one DLQ entry, by          *)
(* whichever of Fail, ReclaimExpired and finalizeRoot got there.           *)
THEOREM DeadLetteredOnce == Spec => []DeadLetterOnce
  <1>1. HistoryInv => DeadLetterOnce
    BY DEF HistoryInv
  <1> QED BY <1>1, HistoryInvariant, PTL

(* Only completed jobs have a result, and an audit that waited and         *)
(* completed has its summary.                                              *)
THEOREM ResultsKept == Spec => []ResultsSound
  <1>1. HistoryInv => ResultsSound
    BY DEF HistoryInv
  <1> QED BY <1>1, HistoryInvariant, PTL

(* The events of a public job account for where it is.                     *)
THEOREM TrailKept == Spec => []EventTrail
  <1>1. HistoryInv => EventTrail
    BY DEF HistoryInv
  <1> QED BY <1>1, HistoryInvariant, PTL
-----------------------------------------------------------------------------
(* What a step may do to the history that is already there.                *)
LEMMA ImmutableStep ==
    ASSUME StoreInv, HistoryInv, [Next]_vars
    PROVE  Appending
  <1>1. ASSUME NEW j \in Job, NEW n \in Attempt, tries[j][n] \notin {"none", "running"}
        PROVE  tries'[j][n] = tries[j][n]
    <2>1. n <= jobs[j].attempts /\ ~ (Status(j) = "running" /\ n = jobs[j].attempts)
      BY <1>1, Counts, MaxAttemptsAssumption DEF HistoryInv, AttemptLedger, Attempt
    <2>2. n # jobs[j].attempts + 1
      BY <2>1, Counts, MaxAttemptsAssumption DEF Attempt
    <2>3. Edge(j)
      BY Edges
    <2> QED BY <2>1, <2>2, <2>3
        DEF Edge, Stays, Appears, Starts, Stops, Withdraws, Finishes, Records
  <1>2. ASSUME NEW j \in Job PROVE events[j] \subseteq events'[j]
    BY Edges DEF Edge, Stays, Appears, Starts, Stops, Withdraws, Finishes, Appends
  <1>3. ASSUME NEW j \in Job PROVE dlq[j] <= dlq'[j]
    <2>1. dlq'[j] = dlq[j] \/ dlq'[j] = dlq[j] + 1
      BY Edges DEF Edge, Stays, Appears, Starts, Stops, Withdraws, Finishes, Records
    <2> QED BY <2>1, Counts
  <1>4. ASSUME NEW j \in Job, replayed[j] # NoJob PROVE replayed'[j] = replayed[j]
    <2>1. Blank
      BY DEF HistoryInv
    <2>2. ASSUME NEW i \in Root, NEW q \in Root, Replays(i, q) PROVE replayed'[j] = replayed[j]
      BY <1>4, <2>2 DEF Replays, StoreInv, AuditInv, TypeInv, TypeOK
    <2> QED BY <2>1, <2>2, Links
  <1>5. ASSUME NEW j \in results PROVE j \in results'
    <2>1. j \in Job
      BY DEF StoreInv, AuditInv, TypeInv, TypeOK
    <2> QED BY <2>1, Edges
        DEF Edge, Stays, Appears, Starts, Stops, Withdraws, Finishes, Records
  <1> QED BY <1>1, <1>2, <1>3, <1>4, <1>5 DEF Appending

(* History is append-only: no step rewrites an attempt that ended or       *)
(* removes an event, a result, a DLQ entry or a replay link.               *)
THEOREM HistoryKept == Spec => HistoryImmutable
  <1>1. StoreInv /\ HistoryInv /\ [Next]_vars => [Appending]_vars
    BY ImmutableStep
  <1> QED BY <1>1, HistoryInvariant, PTL DEF Spec, HistoryImmutable
-----------------------------------------------------------------------------
(* The job store implements JobLifecycle, for any number of roots,         *)
(* packages, sessions and attempts: the edges above are steps of the       *)
(* lifecycle.                                                              *)

(* Both modules mean the same by a job, its descendants and its states.    *)
LEMMA SameSets ==
    /\ Lifecycle!Job = Job
    /\ \A r : Lifecycle!Descendants(r) = Descendants(r)
    /\ \A r : Lifecycle!Family(r) = {r} \cup Descendants(r)
    /\ Lifecycle!Queued = Queued /\ Lifecycle!Ended = Terminal
  BY DEF Lifecycle!Job, Job, Child, Lifecycle!Descendants, Descendants, Lifecycle!Family,
     Lifecycle!Queued, Queued, Lifecycle!Ended, Terminal

(* No jobs yet, in either module.                                          *)
LEMMA RefineInit == Init => Lifecycle!Init
  <1> SUFFICES ASSUME Init PROVE Lifecycle!Init
    OBVIOUS
  <1>1. \A j \in Job : jobs[j].status = "none" /\ jobs[j].attempts = 0 /\ jobs[j].max = 0
    BY DEF Init, NoRow
  <1> QED BY <1>1, SameSets DEF Lifecycle!Init

(* Every edge of the store is an edge of the lifecycle.                    *)
LEMMA RefineEdge ==
    ASSUME StoreInv, StoreInv', NEW j \in Job, Edge(j)
    PROVE  \/ Lifecycle!Stay(j) \/ Lifecycle!Appear(j) \/ Lifecycle!Start(j)
           \/ Lifecycle!Stop(j) \/ Lifecycle!Cancel(j)
           \/ j \in Root /\ Lifecycle!Finish(j)
  <1>1. CASE Stays(j)
    <2>1. Lifecycle!Stay(j)
      BY <1>1 DEF Stays, Columns, Status, Lifecycle!Stay
    <2> QED BY <2>1
  <1>2. CASE Appears(j)
    <2>1. ASSUME NEW r \in Root, j \in Descendants(r)
          PROVE  \E p \in {r} \cup Descendants(r) :
                    p \in Job /\ Status(p) = "running" /\ Status(p)' \in {"waiting", "completed"}
      <3>1. j \notin Root /\ RootOf(j) = r
        BY <2>1, Families
      <3>2. PICK p \in {r} \cup Descendants(r) :
              Status(p) = "running" /\ Status(p)' \in {"waiting", "completed"}
        BY <1>2, <3>1 DEF Appears
      <3>3. p \in Job
        BY <2>1, <3>2, Families
      <3> QED BY <3>2, <3>3
    <2>2. Lifecycle!Appear(j)
      BY <1>2, <2>1, SameSets DEF Appears, Status, Attempt, Lifecycle!Appear
    <2> QED BY <2>2
  <1>3. CASE Starts(j)
    <2>1. jobs'[j].attempts <= jobs'[j].max
      BY DEF StoreInv, RowsOK, RowOK
    <2>2. Lifecycle!Start(j)
      BY <1>3, <2>1, SameSets DEF Starts, Status, Lifecycle!Start
    <2> QED BY <2>2
  <1>4. CASE Stops(j)
    <2>1. Lifecycle!Stop(j)
      BY <1>4, SameSets DEF Stops, Columns, Status, Lifecycle!Stop
    <2> QED BY <2>1
  <1>5. CASE Withdraws(j)
    <2>1. Lifecycle!Cancel(j)
      BY <1>5, SameSets DEF Withdraws, Columns, Status, Lifecycle!Cancel
    <2> QED BY <2>1
  <1>6. CASE Finishes(j)
    <2>1. j \in Root /\ \A d \in Descendants(j) : d \in Job
      BY <1>6, Families DEF Finishes
    <2> DEFINE after == [i \in Job |-> jobs'[i].status]
               ends == {after[d] : d \in Descendants(j)}
    <2>2. ends = {Status(d)' : d \in Descendants(j)}
      BY <2>1 DEF Status
    <2>3. ends \subseteq Terminal \cup {"none"}
      <3>1. \A d \in Job : Status(d)' \in Active \cup Terminal \cup {"none"}
        BY DEF StoreInv, AuditInv, TypeInv, TypeOK, Row, Status
      <3>2. \A d \in Descendants(j) : Status(d)' \notin Active
        BY <1>6 DEF Finishes
      <3> QED BY <2>1, <2>2, <3>1, <3>2
    <2>4. Status(j)' = IF "dead_lettered" \in ends THEN "dead_lettered"
                       ELSE IF ends \cap {"failed", "cancelled"} # {} THEN "failed" ELSE "completed"
      BY <1>6, <2>2 DEF Finishes, Verdict
    <2>5. Status(j) = "waiting" /\ Columns(j)
      BY <1>6 DEF Finishes
    <2>6. Lifecycle!Finish(j)
      BY <2>3, <2>4, <2>5, SameSets DEF Columns, Status, Lifecycle!Finish
    <2> QED BY <2>1, <2>6
  <1> QED BY <1>1, <1>2, <1>3, <1>4, <1>5, <1>6 DEF Edge

(* Every step of the store is a step of the lifecycle, or leaves it alone. *)
LEMMA RefineStep ==
    StoreInv /\ StoreInv' /\ [Next]_vars => [Lifecycle!Next]_Lifecycle!lifecycle
  <1> SUFFICES ASSUME StoreInv, StoreInv', [Next]_vars PROVE Lifecycle!Next
    OBVIOUS
  <1> QED BY Edges, RefineEdge, SameSets DEF Lifecycle!Next

(* Read off the committed rows, every transaction moves each job along an  *)
(* edge of the ADR's transition graph within its attempt budget, creates   *)
(* children only when a job of their audit succeeds, and ends a waiting    *)
(* audit with the verdict that its descendants call for after the step --  *)
(* although finalizeRoot decides from a count taken before the commit.     *)
THEOREM StoreImplementsLifecycle == Spec => ImplementsLifecycle
  <1> QED BY RefineInit, RefineStep, StoreInvariant, PTL DEF Spec, ImplementsLifecycle, Lifecycle!Spec
=============================================================================
