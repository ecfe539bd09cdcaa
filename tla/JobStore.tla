------------------------------ MODULE JobStore ------------------------------
(***************************************************************************)
(* The PostgreSQL job store (internal/store/postgres/service.go): the      *)
(* tables of db/migrations/002_job_service.sql and every operation of      *)
(* job.ServiceStore that writes them.                                      *)
(*                                                                         *)
(* Callers are arbitrary: any session may present any claim ever handed    *)
(* out, so a stale worker is a behaviour of this module and the fencing    *)
(* predicate is what stops it.  WorkerService adds the callers.            *)
(*                                                                         *)
(* Transactions run at READ COMMITTED.  One that waits for no lock after   *)
(* its first statement (Submit, Claim, Heartbeat, Retry, ReplayDLQ, Cancel *)
(* of one row) is one action.  Complete, Fail, ReclaimExpired and Cancel   *)
(* of a waiting audit hold row locks while they read other rows, so they   *)
(* are two actions: the first takes the locks and reads, the second writes *)
(* what was decided and commits; Rollback is a lost connection, a          *)
(* deadlock victim or a failed statement in between.                       *)
(*                                                                         *)
(* Locks are taken as weak as the schema ever makes them: when a child's   *)
(* Complete inserts a new audit_results row, its foreign key also share-   *)
(* locks the root until the commit, which only delays a Cancel of that     *)
(* root; when the row exists already it does not.                          *)
(*                                                                         *)
(* Time is abstracted to two facts about a row: `due', scheduled_at is in  *)
(* the past, and `live', locked_until is in the future.                    *)
(***************************************************************************)
EXTENDS Naturals, FiniteSets

CONSTANTS
    Root,         \* ids NewJobID may give to public jobs (root_job_id = id)
    Package,      \* package coordinates that an audit may discover
    Session,      \* database sessions that run the two-step transactions
    MaxAttempts,  \* the API's upper bound on max_attempts
    NoJob         \* NULL

ASSUME MaxAttemptsAssumption == MaxAttempts \in Nat \ {0}
ASSUME NoJobAssumption == NoJob \notin Root
ASSUME RootAssumption == Root \cap (Root \X Package) = {}

VARIABLES
    jobs,      \* the jobs table: Job -> Row
    tries,     \* job_attempts: Job -> attempt number -> status
    events,    \* job_events: Job -> the event types recorded
    results,   \* job_results: the jobs with a result row
    dlq,       \* dlq: Job -> number of entries for the job
    replayed,  \* dlq.replayed_as_job_id of the job's entry
    tx         \* the open two-step transaction of each session

tables == <<jobs, tries, events, results, dlq, replayed>>
vars == <<jobs, tries, events, results, dlq, replayed, tx>>
-----------------------------------------------------------------------------
(* A child is identified by its idempotency key, the hash of its root and  *)
(* its coordinate, so a root has at most one child per coordinate.         *)
Child == Root \X Package
Job == Root \cup Child
Descendants(r) == {r} \X Package

Queued == {"pending", "retry_scheduled"}
Active == Queued \cup {"running", "waiting"}
Terminal == {"completed", "failed", "dead_lettered", "cancelled"}
Kind == {"transient", "permanent", "cancelled"}
Attempt == 1 .. MaxAttempts
AttemptStatus == Terminal \cup {"none", "running", "retry_scheduled", "abandoned"}
EventType == Active \cup Terminal \cup
    {"submitted", "started", "cancellation_requested", "lease_expired", "replayed"}

(* status "none": the row does not exist.  token stands for the four lease *)
(* columns, which are always set and cleared together: 0 is NULL, and a    *)
(* random UUID drawn per claim is represented by the attempt it was drawn  *)
(* for.  err: last_error is set.  from: replayed_from_job_id.              *)
Row == [status : Active \cup Terminal \cup {"none"}, attempts : Nat,
        max : Attempt \cup {0}, token : Nat, live : BOOLEAN, due : BOOLEAN,
        cancel : BOOLEAN, err : BOOLEAN, from : Job \cup {NoJob}]

NoRow == [status |-> "none", attempts |-> 0, max |-> 0, token |-> 0,
          live |-> FALSE, due |-> FALSE, cancel |-> FALSE, err |-> FALSE,
          from |-> NoJob]

NewRow(m, from) ==
    [NoRow EXCEPT !.status = "pending", !.max = m, !.due = TRUE, !.from = from]

(* rows: the locked rows the transaction updates; n: the claim presented;  *)
(* kids: the submissions of a Complete, res: whether it carries a result;  *)
(* idle: the roots for which finalizeRoot counted no active descendant.    *)
Tx == [op : {"none", "complete", "fail", "reclaim", "cancel"}, rows : SUBSET Job,
       n : Nat, kind : Kind \cup {"none"}, kids : SUBSET Child, res : BOOLEAN,
       idle : SUBSET Root]

NoTx == [op |-> "none", rows |-> {}, n |-> 0, kind |-> "none", kids |-> {},
         res |-> FALSE, idle |-> {}]

TypeOK ==
    /\ jobs \in [Job -> Row]
    /\ tries \in [Job -> [Attempt -> AttemptStatus]]
    /\ events \in [Job -> SUBSET EventType]
    /\ results \in SUBSET Job
    /\ dlq \in [Job -> Nat]
    /\ replayed \in [Job -> Root \cup {NoJob}]
    /\ tx \in [Session -> Tx]

Init ==
    /\ jobs = [j \in Job |-> NoRow]
    /\ tries = [j \in Job |-> [n \in Attempt |-> "none"]]
    /\ events = [j \in Job |-> {}]
    /\ results = {}
    /\ dlq = [j \in Job |-> 0]
    /\ replayed = [j \in Job |-> NoJob]
    /\ tx = [s \in Session |-> NoTx]
-----------------------------------------------------------------------------
Status(j) == jobs[j].status
Exists(j) == Status(j) # "none"

(* INSERT ... ON CONFLICT DO NOTHING creates only the missing children.    *)
New(t) == {k \in t.kids : ~ Exists(k)}

(* Row locks: a key being inserted is locked by its unique index entry.    *)
LockedBy(s) == tx[s].rows \cup New(tx[s])
Locked == UNION {LockedBy(s) : s \in Session}

Lock(s, t) == tx' = [tx EXCEPT ![s] = t]
Unlock(s) == tx' = [tx EXCEPT ![s] = NoTx]

(* The WHERE clause of Heartbeat, Complete and Fail.                       *)
FenceNoToken(j, n) == Status(j) = "running"
Fence(j, n) == Status(j) = "running" /\ jobs[j].token = n

(* Clearing the lease columns.                                             *)
ReleaseKeepsLease(row, to) == [row EXCEPT !.status = to]
Release(row, to) == [row EXCEPT !.status = to, !.token = 0, !.live = FALSE]

CompleteTo(t, j) == IF t.kids # {} /\ j \in Root THEN "waiting" ELSE "completed"

FailToOffByOne(t, j) ==
    IF t.kind = "transient"
    THEN IF t.n <= jobs[j].max THEN "retry_scheduled" ELSE "dead_lettered"
    ELSE IF t.kind = "permanent" THEN "failed" ELSE "cancelled"
FailTo(t, j) ==
    IF t.kind = "transient"
    THEN IF t.n < jobs[j].max THEN "retry_scheduled" ELSE "dead_lettered"
    ELSE IF t.kind = "permanent" THEN "failed" ELSE "cancelled"

ReclaimToNoBudget(j) == IF jobs[j].cancel THEN "cancelled" ELSE "pending"
ReclaimTo(j) ==
    IF jobs[j].cancel THEN "cancelled"
    ELSE IF jobs[j].attempts >= jobs[j].max THEN "dead_lettered" ELSE "pending"

(* The status that transaction t gives to a row j it updates.              *)
To(t, j) ==
    IF t.op = "complete" THEN CompleteTo(t, j)
    ELSE IF t.op = "fail" THEN FailTo(t, j)
    ELSE IF t.op = "reclaim" THEN ReclaimTo(j)
    ELSE "cancelled"

(* What a statement of t sees: its own writes over what is committed.      *)
Seen(t, j) ==
    IF j \in t.rows THEN To(t, j)
    ELSE IF j \in New(t) THEN "pending" ELSE Status(j)

(* finalizeRoot's first query: it runs for the root of each child that the *)
(* transaction ends, and counts that root's active descendants.            *)
IdleOwnRowsOnly(t) ==
    {r \in Root : \E j \in t.rows \cap Descendants(r) : To(t, j) \in Terminal}
IdleOnComplete(t) ==
    {r \in Root :
        /\ t.op = "complete"
        /\ \E j \in t.rows \cap Descendants(r) : To(t, j) \in Terminal
        /\ \A d \in Descendants(r) : Seen(t, d) \notin Active}
Idle(t) ==
    {r \in Root :
        /\ \E j \in t.rows \cap Descendants(r) : To(t, j) \in Terminal
        /\ \A d \in Descendants(r) : Seen(t, d) \notin Active}

(* finalizeRoot's second query: the outcome of an audit.                   *)
RootTo(t, r) ==
    LET ends == {Seen(t, d) : d \in Descendants(r)} IN
    IF "dead_lettered" \in ends THEN "dead_lettered"
    ELSE IF ends \cap {"failed", "cancelled"} # {} THEN "failed"
    ELSE "completed"

(* UPDATE ... WHERE id = root AND status = 'waiting'.                      *)
FinalizedAnyStatus(t) == t.idle
Finalized(t) == {r \in t.idle : Status(r) = "waiting"}
-----------------------------------------------------------------------------
(* Submit, with a key that no earlier submission used.                     *)
Submit(r, m) ==
    /\ ~ Exists(r)
    /\ jobs' = [jobs EXCEPT ![r] = NewRow(m, NoJob)]
    /\ events' = [events EXCEPT ![r] = @ \cup {"submitted"}]
    /\ UNCHANGED <<tries, results, dlq, replayed, tx>>

(* Claim takes a due queued row that no other session has locked (SKIP     *)
(* LOCKED); which one, by ORDER BY scheduled_at, created_at, id, is left   *)
(* open.                                                                   *)
Claim(j) ==
    /\ Status(j) \in Queued /\ jobs[j].due /\ j \notin Locked
    /\ LET n == jobs[j].attempts + 1 IN
       /\ jobs' = [jobs EXCEPT ![j].status = "running", ![j].attempts = n,
                               ![j].token = n, ![j].live = TRUE]
       /\ tries' = [tries EXCEPT ![j] = [k \in Attempt |-> IF k = n THEN "running" ELSE @[k]]]
    /\ events' = [events EXCEPT ![j] = @ \cup {"started"}]
    /\ UNCHANGED <<results, dlq, replayed, tx>>

(* Heartbeat extends the lease, also one that has expired unnoticed, and   *)
(* updates no row once cancellation was requested.                         *)
Heartbeat(j, n) ==
    /\ Fence(j, n) /\ ~ jobs[j].cancel /\ j \notin Locked
    /\ jobs' = [jobs EXCEPT ![j].live = TRUE]
    /\ UNCHANGED <<tries, events, results, dlq, replayed, tx>>

(* Complete and Fail: the fenced UPDATE of the job's row, the inserts and, *)
(* for a child, finalizeRoot's count.  A caller that fails the fence gets  *)
(* ErrLeaseLost and changes nothing.                                       *)
CompleteBegin(s, j, n, kids, res) ==
    LET t == [NoTx EXCEPT !.op = "complete", !.rows = {j}, !.n = n,
                          !.kids = kids, !.res = res] IN
    /\ tx[s] = NoTx
    /\ Fence(j, n) /\ ({j} \cup New(t)) \cap Locked = {}
    /\ Lock(s, [t EXCEPT !.idle = Idle(t)])
    /\ UNCHANGED tables

FailBegin(s, j, n, kind) ==
    LET t == [NoTx EXCEPT !.op = "fail", !.rows = {j}, !.n = n, !.kind = kind] IN
    /\ tx[s] = NoTx
    /\ Fence(j, n) /\ j \notin Locked
    /\ Lock(s, [t EXCEPT !.idle = Idle(t)])
    /\ UNCHANGED tables

(* ReclaimExpired locks every expired running row it finds unlocked.       *)
ExpiredWithBudget(j) ==
    Status(j) = "running" /\ ~ jobs[j].live /\ jobs[j].attempts < jobs[j].max
Expired(j) == Status(j) = "running" /\ ~ jobs[j].live

ReclaimBegin(s) ==
    LET t == [NoTx EXCEPT !.op = "reclaim",
                          !.rows = {j \in Job : Expired(j)} \ Locked] IN
    /\ tx[s] = NoTx
    /\ t.rows # {}
    /\ Lock(s, [t EXCEPT !.idle = Idle(t)])
    /\ UNCHANGED tables

(* Cancel of a waiting root locks the root, then its queued descendants.   *)
CancelBegin(s, r) ==
    /\ tx[s] = NoTx
    /\ Status(r) = "waiting" /\ r \notin Locked
    /\ Lock(s, [NoTx EXCEPT !.op = "cancel",
                            !.rows = {r} \cup {d \in Descendants(r) : Status(d) \in Queued}])
    /\ UNCHANGED tables

-----------------------------------------------------------------------------
(* What Complete, Fail and ReclaimExpired write to a row of theirs: the    *)
(* last two set last_error, and a retry is scheduled for later (Due says   *)
(* when: at once, if it was the drain deadline that failed the attempt).   *)
Settled(t, j) ==
    [Release(jobs[j], To(t, j)) EXCEPT
        !.err = @ \/ t.op # "complete",
        !.due = @ /\ To(t, j) # "retry_scheduled"]

(* The attempt that the UPDATE of job_attempts names, and its new status.  *)
Ended(t, j) == IF t.op = "reclaim" THEN jobs[j].attempts ELSE t.n
EndedAsEventType(t, j) ==
    IF t.op = "complete" THEN "completed"
    ELSE IF t.op = "fail" THEN FailTo(t, j) ELSE "lease_expired"
EndedAs(t, j) ==
    IF t.op = "complete" THEN "completed"
    ELSE IF t.op = "fail" THEN FailTo(t, j) ELSE "abandoned"

(* The event that a settled row gets.                                      *)
EventOfAttempt(t, j) == EndedAs(t, j)
EventOf(t, j) == IF t.op = "reclaim" THEN "lease_expired" ELSE To(t, j)

(* The jobs that get a job_results row: one that completes with a result,  *)
(* and an audit that finalizeRoot completes, with its summary.             *)
ResultingAlsoWaiting(t) ==
    {j \in t.rows : t.op = "complete" /\ t.res} \cup
    {r \in Finalized(t) : RootTo(t, r) = "completed"}
Resulting(t) ==
    {j \in t.rows : t.op = "complete" /\ t.res /\ To(t, j) = "completed"} \cup
    {r \in Finalized(t) : RootTo(t, r) = "completed"}

DeadLetteredRowsOnly(t) == {j \in t.rows : To(t, j) = "dead_lettered"}
DeadLettered(t) ==
    {j \in t.rows : To(t, j) = "dead_lettered"} \cup
    {r \in Finalized(t) : RootTo(t, r) = "dead_lettered"}

(* The parent's limit is handed down to the children it submits.           *)
ChildRow(t) == NewRow(jobs[CHOOSE p \in t.rows : TRUE].max, NoJob)

(* The rest of Complete, Fail or ReclaimExpired, finalizeRoot's UPDATE     *)
(* included; that one waits while a Cancel holds the root's row.           *)
CommitSettle(s) ==
    LET t == tx[s] IN
    /\ t.op \in {"complete", "fail", "reclaim"}
    /\ Finalized(t) \cap Locked = {}
    /\ jobs' = [j \in Job |->
           IF j \in t.rows THEN Settled(t, j)
           ELSE IF j \in New(t) THEN ChildRow(t)
           ELSE IF j \in Finalized(t)
           THEN [jobs[j] EXCEPT !.status = RootTo(t, j), !.err = RootTo(t, j) # "completed"]
           ELSE jobs[j]]
    /\ tries' = [j \in Job |-> [k \in Attempt |->
           IF j \in t.rows /\ k = Ended(t, j) THEN EndedAs(t, j) ELSE tries[j][k]]]
    /\ events' = [j \in Job |->
           IF j \in t.rows
           THEN events[j] \cup {EventOf(t, j)}
           ELSE IF j \in Finalized(t) THEN events[j] \cup {RootTo(t, j)} ELSE events[j]]
    /\ results' = results \cup Resulting(t)
    /\ dlq' = [j \in Job |-> IF j \in DeadLettered(t) THEN dlq[j] + 1 ELSE dlq[j]]
    /\ Unlock(s)
    /\ UNCHANGED replayed

(* Cancel's second UPDATE flags the running descendants: it waits for the  *)
(* ones another session has locked, and sees what was committed meanwhile. *)
CommitCancel(s) ==
    LET t == tx[s]
        r == CHOOSE q \in t.rows : q \in Root
        running == {d \in Descendants(r) : Status(d) = "running"} IN
    /\ t.op = "cancel"
    /\ running \cap Locked = {}
    /\ jobs' = [j \in Job |->
           IF j \in t.rows THEN [jobs[j] EXCEPT !.status = "cancelled", !.cancel = TRUE]
           ELSE IF j \in running THEN [jobs[j] EXCEPT !.cancel = TRUE]
           ELSE jobs[j]]
    /\ events' = [events EXCEPT ![r] = @ \cup {"cancellation_requested", "cancelled"}]
    /\ Unlock(s)
    /\ UNCHANGED <<tries, results, dlq, replayed>>

(* A deadlock victim or failed statement rolls back one session, a crashed *)
(* process all of its sessions.                                            *)
Rollback(S) ==
    /\ \E s \in S : tx[s] # NoTx
    /\ tx' = [s \in Session |-> IF s \in S THEN NoTx ELSE tx[s]]
    /\ UNCHANGED tables

(* Cancel of a queued or a running row.                                    *)
Cancel(j) ==
    /\ j \notin Locked
    /\ \/ /\ Status(j) \in Queued
          /\ jobs' = [jobs EXCEPT ![j].status = "cancelled", ![j].cancel = TRUE]
          /\ events' = [events EXCEPT ![j] = @ \cup {"cancellation_requested", "cancelled"}]
       \/ /\ Status(j) = "running"
          /\ jobs' = [jobs EXCEPT ![j].cancel = TRUE]
          /\ events' = [events EXCEPT ![j] = @ \cup {"cancellation_requested"}]
    /\ UNCHANGED <<tries, results, dlq, replayed, tx>>

(* Retry submits a copy of a failed or dead-lettered job as a new root.    *)
Retry(j, r, m) ==
    /\ Status(j) \in {"failed", "dead_lettered"}
    /\ Submit(r, m)

(* ReplayDLQ locks the entry, so two replays of it are serialized; JobApi  *)
(* has its statements one by one.                                          *)
ReplayDLQ(j, r, m) ==
    /\ j \in Root /\ dlq[j] > 0 /\ replayed[j] = NoJob
    /\ ~ Exists(r)
    /\ jobs' = [jobs EXCEPT ![r] = NewRow(m, j)]
    /\ events' = [events EXCEPT ![r] = @ \cup {"submitted", "replayed"}]
    /\ replayed' = [replayed EXCEPT ![j] = r]
    /\ UNCHANGED <<tries, results, dlq, tx>>

(* Time passes: a retry becomes due, a lease expires.                      *)
Due(j) ==
    /\ Status(j) = "retry_scheduled" /\ ~ jobs[j].due
    /\ jobs' = [jobs EXCEPT ![j].due = TRUE]
    /\ UNCHANGED <<tries, events, results, dlq, replayed, tx>>

Expire(j) ==
    /\ Status(j) = "running" /\ jobs[j].live
    /\ jobs' = [jobs EXCEPT ![j].live = FALSE]
    /\ UNCHANGED <<tries, events, results, dlq, replayed, tx>>
-----------------------------------------------------------------------------
RootOf(j) == IF j \in Root THEN j ELSE j[1]

Settle(s) ==
    \E j \in Job, n \in Attempt :
        \/ \E kids \in SUBSET Descendants(RootOf(j)), res \in BOOLEAN :
               CompleteBegin(s, j, n, kids, res)
        \/ \E kind \in Kind : FailBegin(s, j, n, kind)

Next ==
    \/ \E r \in Root, m \in Attempt : Submit(r, m)
    \/ \E j \in Job : Claim(j) \/ Cancel(j) \/ Due(j) \/ Expire(j)
    \/ \E j \in Job, n \in Attempt : Heartbeat(j, n)
    \/ \E s \in Session :
          \/ Settle(s) \/ ReclaimBegin(s) \/ CommitSettle(s)
          \/ CommitCancel(s)
    \/ \E S \in SUBSET Session : Rollback(S)
    \/ \E s \in Session, r \in Root : CancelBegin(s, r)
    \/ \E j \in Job, r \in Root, m \in Attempt : Retry(j, r, m) \/ ReplayDLQ(j, r, m)

Spec == Init /\ [][Next]_vars
-----------------------------------------------------------------------------
(***************************************************************************)
(* Safety.  ADR is docs/adr/0001-job-service-contracts.md.                 *)
(***************************************************************************)

(* No schedule of claims, retries and recoveries starts more attempts than *)
(* the job's limit: Fail and ReclaimExpired requeue a row only while an    *)
(* attempt is left, so Claim, which does not look at max_attempts, is safe *)
(* (ADR, transition invariants).                                           *)
AttemptBudget ==
    \A j \in Job :
        /\ jobs[j].attempts <= jobs[j].max
        /\ Status(j) \in Queued => jobs[j].attempts < jobs[j].max

(* Exactly the running rows hold a lease, the lease is the one of the      *)
(* latest attempt, and every transaction that clears the status clears the *)
(* lease with it (ADR: only running jobs have a lease; waiting never).     *)
LeaseDiscipline ==
    \A j \in Job : jobs[j].token = IF Status(j) = "running" THEN jobs[j].attempts ELSE 0

(* job_attempts agrees with jobs: one row per claim, every attempt but the *)
(* current one has ended, and the current one is open exactly while the    *)
(* job runs.  A stale Complete or Fail that got past the fence, or a       *)
(* recovery that missed the attempt, would break it.                       *)
AttemptLedger ==
    \A j \in Job, n \in Attempt :
        /\ tries[j][n] = "none" <=> n > jobs[j].attempts
        /\ tries[j][n] = "running" <=> Status(j) = "running" /\ n = jobs[j].attempts

(* A job is dead-lettered together with exactly one DLQ entry, by          *)
(* whichever of Fail, ReclaimExpired and finalizeRoot got there, and no    *)
(* other job has an entry (ADR, entry creation).                           *)
DeadLetterOnce ==
    \A j \in Job : dlq[j] = IF Status(j) = "dead_lettered" THEN 1 ELSE 0

(* An audit's verdict is never premature: while a descendant is active the *)
(* root waits (or was cancelled), and a root that ended by finalizeRoot    *)
(* ended with what its descendants ended with, although finalizeRoot reads *)
(* them without locks while other sessions commit.                         *)
AuditOutcomeSound ==
    \A r \in Root : LET ends == {Status(d) : d \in Descendants(r)} IN
        /\ ends \cap Active # {} => Status(r) \in {"waiting", "cancelled"}
        /\ Status(r) = "completed" => ends \subseteq {"none", "completed"}
        /\ "dead_lettered" \in ends => Status(r) \in {"waiting", "cancelled", "dead_lettered"}

(* Only completed jobs have a result, and a completed audit always has its *)
(* summary: the result that the root's own attempt returned when it went   *)
(* to waiting is not stored (ADR, result persistence).                     *)
ResultsSound ==
    /\ \A j \in results : Status(j) = "completed"
    /\ \A r \in Root : Status(r) = "completed" /\ "waiting" \in events[r] => r \in results

(* The lifecycle events of a public job account for where it is: each      *)
(* transition commits with its event, whichever transaction made it.       *)
EventTrail ==
    \A r \in Root :
        /\ Exists(r) => "submitted" \in events[r]
        /\ jobs[r].attempts > 0 => "started" \in events[r]
        /\ Status(r) \in {"waiting", "completed", "failed", "retry_scheduled"}
              => Status(r) \in events[r]
        /\ Status(r) \in {"dead_lettered", "cancelled"}
              => {Status(r), "lease_expired"} \cap events[r] # {}
        /\ Status(r) = "pending" /\ jobs[r].attempts > 0 => "lease_expired" \in events[r]

(* A terminal row never changes again, in any column, whatever late        *)
(* completions, failures, recoveries or finalizations arrive (ADR:         *)
(* terminal states never transition in place).                             *)
TerminalIsFinal ==
    [][\A j \in Job : Status(j) \in Terminal => jobs'[j] = jobs[j]]_vars

(* History is append-only: an attempt that ended is never rewritten, and   *)
(* events, results, DLQ entries and their replay links never disappear     *)
(* (ADR: lifecycle events and attempts are append-only).                   *)
Appending ==
    /\ \A j \in Job, n \in Attempt :
          tries[j][n] \notin {"none", "running"} => tries'[j][n] = tries[j][n]
    /\ \A j \in Job : /\ events[j] \subseteq events'[j] /\ dlq[j] <= dlq'[j]
                     /\ replayed[j] # NoJob => replayed'[j] = replayed[j]
    /\ results \subseteq results'
HistoryImmutable == [][Appending]_vars
-----------------------------------------------------------------------------
(***************************************************************************)
(* Statements of the documentation that the code does not keep; a run      *)
(* shows a counterexample to each.                                         *)
(***************************************************************************)

(* "When no active descendants remain, the root is finalized" (ADR, root   *)
(* behaviour): a waiting root, none of whose packages was cancelled, has a *)
(* descendant still to come.  Two transactions that end the last two       *)
(* children each count the other's as running, and neither finalizes.      *)
WaitingRootHasWork ==
    \A r \in Root : Status(r) = "waiting" =>
        {Status(d) : d \in Descendants(r)} \cap (Active \cup {"cancelled"}) # {}

(* "Cancelling the root cancels the complete audit operation" (ADR, root   *)
(* outcome): no package is added to an audit whose cancellation was        *)
(* requested.  Complete does not look at cancel_requested_at.              *)
CancelledAuditStopsGrowing ==
    [][\A r \in Root : jobs[r].cancel =>
          \A d \in Descendants(r) : Exists(d)' => Exists(d)]_vars
=============================================================================
