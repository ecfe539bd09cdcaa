------------------------ MODULE WorkerServiceProofs ------------------------
(* Theorems about the worker processes and the API running against the job *)
(* store, for any number of processes, claim loops, jobs and failures.     *)
EXTENDS WorkerService, JobHistoryProofs, FiniteSetTheorems

SlotType == [pc : {"idle", "handling", "committing", "exited"}, job : Job \cup {NoJob}, n : Nat]

CounterType ==
    /\ faults \in 0 .. MaxFaults /\ crashes \in 0 .. MaxCrashes /\ terms \in 0 .. MaxTerms
    /\ cutOff \in BOOLEAN
ProcType ==
    /\ slot \in [Slot -> SlotType]
    /\ proc \in [Worker -> {"up", "draining", "down"}]
    /\ CounterType

(* The slot has a claim.                                                   *)
Holds(s) == slot[s].pc \in {"handling", "committing"}

(* A claim names an attempt that was started, and no other slot has it.    *)
ClaimsReal ==
    \A s \in Slot : Holds(s) =>
        /\ slot[s].job \in Job /\ slot[s].n \in Attempt
        /\ Exists(slot[s].job) /\ slot[s].n <= jobs[slot[s].job].attempts
ClaimsApart ==
    \A s, u \in Slot :
        Holds(s) /\ Holds(u) /\ slot[s].job = slot[u].job /\ slot[s].n = slot[u].n => s = u

(* A slot that is committing settles its own job.                          *)
CommitsOwn ==
    \A s \in Slot : slot[s].pc = "committing" => tx[s].rows = {slot[s].job}

(* A process that is down has no claim loops.                              *)
DownIsEmpty == \A s \in Slot : proc[s[1]] = "down" => slot[s].pc = "exited"

(* Without failures every running job is some slot's.                      *)
NoneAbandoned ==
    faults = 0 /\ crashes = 0 /\ ~ cutOff =>
        \A j \in Job : Status(j) = "running" =>
            \E s \in Slot : Holds(s) /\ slot[s].job = j /\ slot[s].n = jobs[j].attempts

HolderInv ==
    StoreInv /\ ProcType /\ ClaimsReal /\ ClaimsApart /\ CommitsOwn /\ DownIsEmpty /\ NoneAbandoned

(* The sessions of the processes.                                          *)
LEMMA Sessions ==
    /\ \A s \in Slot : s \in Session /\ s \notin Worker /\ s \notin Api /\ s[1] \in Worker
    /\ \A w \in Worker : w \in Session /\ w \notin Slot /\ w \notin Api
    /\ \A a \in Api : a \in Session /\ a \notin Slot
    /\ \A w \in Worker : SlotsOf(w) \subseteq Slot /\ \A s \in Slot : s \in SlotsOf(w) <=> s[1] = w
  <1>1. \A s \in Slot : s[1] \in Worker
    BY DEF Slot
  <1>2. \A w \in Worker : SlotsOf(w) \subseteq Slot /\ \A s \in Slot : s \in SlotsOf(w) <=> s[1] = w
    BY DEF Slot, SlotsOf
  <1> QED BY <1>1, <1>2, SessionAssumption, SessionKindsAssumption

(* A slot's Complete or Fail is one that the store allows.                 *)
SettlesOwn(s) ==
    \/ \E kids \in SUBSET Descendants(RootOf(slot[s].job)), res \in BOOLEAN :
          CompleteBegin(s, slot[s].job, slot[s].n, kids, res)
    \/ \E kind \in Kind : FailBegin(s, slot[s].job, slot[s].n, kind)

(* The children that a handler returns belong to the audit of its job.     *)
LEMMA AnswerType ==
    ASSUME NEW j \in Job, NEW a \in Answer(j)
    PROVE  a.kids \in SUBSET Descendants(RootOf(j)) /\ a.res \in BOOLEAN
  <1>1. a \in DemoAnswer => a.kids = {} /\ a.res \in BOOLEAN
    BY DEF DemoAnswer
  <1>2. a \in AuditAnswer(j) => a.kids \in SUBSET Descendants(j) /\ a.res = TRUE
    BY DEF AuditAnswer
  <1>3. a \in PackageAnswer(j) => a.kids \in SUBSET Descendants(RootOf(j)) /\ a.res = TRUE
    BY DEF PackageAnswer
  <1>4. j \in Root => RootOf(j) = j
    BY DEF RootOf
  <1> QED BY <1>1, <1>2, <1>3, <1>4 DEF Answer

(* The four ways in which a slot starts to settle.                         *)
LEMMA Settling ==
    ASSUME ClaimsReal, NEW s \in Slot,
           CancelObserved(s) \/ HeartbeatError(s) \/ Respond(s) \/ ShutdownDeadline(s)
    PROVE  Holding(s) /\ Commits(s) /\ SettlesOwn(s) /\ Elsewhere /\ (NoFault \/ Fault)
  <1>1. Holding(s) /\ Commits(s) /\ Elsewhere /\ (NoFault \/ Fault)
    BY DEF CancelObserved, HeartbeatError, Respond, ShutdownDeadline
  <1>2. slot[s].job \in Job
    BY <1>1 DEF ClaimsReal, Holds, Holding
  <1>3. SettlesOwn(s)
    BY <1>2, AnswerType
    DEF CancelObserved, HeartbeatError, Respond, ShutdownDeadline, SettlesOwn, ErrorKind, Kind
  <1> QED BY <1>1, <1>3

(* No step of a worker or of the API touches a table except through an     *)
(* operation of the store.                                                 *)
LEMMA StoreCalls ==
    ASSUME TypeOK, ClaimsReal, [WNext]_wvars
    PROVE  [Next]_vars
  <1>1. ASSUME NEW s \in Slot,
               \/ \E j \in Job : ClaimJob(s, j) \/ ClaimLost(s, j)
               \/ HeartbeatTick(s)
        PROVE  Next
    <2>1. HeartbeatTick(s) => slot[s].job \in Job /\ slot[s].n \in Attempt
      BY DEF HeartbeatTick, Holding, ClaimsReal, Holds
    <2> QED BY <1>1, <2>1 DEF ClaimJob, ClaimLost, HeartbeatTick, Next
  <1>2. ASSUME NEW s \in Slot,
               CancelObserved(s) \/ HeartbeatError(s) \/ Respond(s) \/ ShutdownDeadline(s)
        PROVE  Next
    <2>1. SettlesOwn(s) /\ slot[s].job \in Job /\ slot[s].n \in Attempt
      BY <1>2, Settling DEF Holding, ClaimsReal, Holds
    <2>2. Settle(s) /\ s \in Session
      BY <2>1, Sessions DEF Settle, SettlesOwn
    <2> QED BY <2>2 DEF Next
  <1>3. ASSUME NEW s \in Slot, LeaseLost(s) \/ SettleError(s) \/ LeaveLoop(s) PROVE UNCHANGED vars
    BY <1>3 DEF LeaseLost, SettleError, LeaveLoop
  <1>4. ASSUME NEW s \in Session, CommitSettle(s) \/ CommitCancel(s) \/ ReclaimBegin(s) PROVE Next
    BY <1>4 DEF Next
  <1>5. ASSUME NEW S \in SUBSET Session, Rollback(S) PROVE Next
    BY <1>5 DEF Next
  <1>6. ASSUME NEW s \in Slot, SettleCommit(s) \/ SettleAbort(s) PROVE Next
    <2>1. s \in Session /\ {s} \in SUBSET Session
      BY Sessions
    <2>2. CommitSettle(s) \/ Rollback({s})
      BY <1>6 DEF SettleCommit, SettleAbort
    <2> QED BY <1>4, <1>5, <2>1, <2>2
  <1>7. ASSUME NEW w \in Worker, Recover(w) \/ RecoverCommit(w) \/ RecoverAbort(w) PROVE Next
    <2>1. w \in Session /\ {w} \in SUBSET Session
      BY Sessions
    <2>2. ReclaimBegin(w) \/ CommitSettle(w) \/ Rollback({w})
      BY <1>7 DEF Recover, RecoverCommit, RecoverAbort
    <2> QED BY <1>4, <1>5, <2>1, <2>2
  <1>8. ASSUME NEW w \in Worker, Terminate(w) \/ Exit(w) \/ Boot(w) PROVE UNCHANGED vars
    BY <1>8 DEF Terminate, Exit, Boot
  <1>9. ASSUME NEW w \in Worker, Crash(w) PROVE [Next]_vars
    <2> DEFINE S == SlotsOf(w) \cup {w}
    <2>1. S \in SUBSET Session
      BY Sessions
    <2>2. tx' = [s \in Session |-> IF s \in S THEN NoTx ELSE tx[s]] /\ UNCHANGED tables
      BY <1>9 DEF Crash
    <2> HIDE DEF S
    <2>3. CASE \E s \in S : tx[s] # NoTx
      <3>1. Rollback(S)
        BY <2>2, <2>3 DEF Rollback
      <3> QED BY <1>5, <2>1, <3>1
    <2>4. CASE \A s \in S : tx[s] = NoTx
      <3>1. tx' = tx
        BY <2>2, <2>4 DEF TypeOK
      <3> QED BY <2>2, <3>1 DEF tables, vars
    <2> QED BY <2>3, <2>4
  <1>10. ASSUME NEW a \in Api, ApiCancelCommit(a) \/ ApiCancelAbort(a) PROVE Next
    <2>1. a \in Session /\ {a} \in SUBSET Session
      BY Sessions
    <2>2. CommitCancel(a) \/ Rollback({a})
      BY <1>10 DEF ApiCancelCommit, ApiCancelAbort
    <2> QED BY <1>4, <1>5, <2>1, <2>2
  <1>11. CASE ApiCall
    BY <1>11, Sessions DEF ApiCall, Next
  <1>12. ASSUME NEW j \in Job, Time(j) PROVE Next
    BY <1>12 DEF Time, Next
  <1>13. CASE UNCHANGED wvars
    BY <1>13 DEF wvars
  <1> QED
    BY <1>1, <1>2, <1>3, <1>6, <1>7, <1>8, <1>9, <1>10, <1>11, <1>12, <1>13 DEF WNext
-----------------------------------------------------------------------------
(***************************************************************************)
(* Who holds the claims.                                                   *)
(***************************************************************************)

(* A row that exists stays, and its attempts are never taken back.         *)
LEMMA AttemptsGrow ==
    ASSUME StoreInv, [Next]_vars, NEW j \in Job, Exists(j)
    PROVE  Exists(j)' /\ jobs[j].attempts <= jobs'[j].attempts
  <1>1. jobs[j].attempts \in Nat
    BY Counts
  <1>2. Edge(j) /\ Status(j) # "none"
    BY Edges DEF Exists
  <1>3. Finishes(j) => Status(j)' # "none"
    BY VerdictType DEF Finishes
  <1>4. Status(j)' # "none"
    BY <1>2, <1>3 DEF Edge, Stays, Appears, Starts, Stops, Withdraws, Terminal, Queued
  <1>5. jobs'[j].attempts = jobs[j].attempts \/ jobs'[j].attempts = jobs[j].attempts + 1
    BY <1>2 DEF Edge, Stays, Appears, Starts, Stops, Withdraws, Finishes, Columns
  <1> QED BY <1>1, <1>4, <1>5 DEF Exists

(* Nothing is started: a job that runs after the step is in the attempt it *)
(* was in before.                                                          *)
RunningKept ==
    \A j \in Job : Status(j)' = "running" =>
        Status(j) = "running" /\ jobs'[j].attempts = jobs[j].attempts

(* Only Claim starts a job.                                                *)
LEMMA NotStarted ==
    ASSUME StoreInv, [Next]_vars,
           \/ jobs' = jobs
           \/ \E s \in Session : CommitSettle(s) \/ CommitCancel(s)
           \/ \E i \in Job : Cancel(i) \/ Due(i) \/ Expire(i) \/ \E n \in Attempt : Heartbeat(i, n)
           \/ \E r \in Root, m \in Attempt : Submit(r, m) \/ \E i \in Job : ReplayDLQ(i, r, m)
    PROVE  RunningKept
  <1> SUFFICES ASSUME NEW j \in Job, Status(j)' = "running" 
               PROVE  Status(j) = "running" /\ jobs'[j].attempts = jobs[j].attempts
    BY DEF RunningKept
  <1>1. AuditInv /\ jobs \in [Job -> Row] /\ jobs[j] \in Row
    BY DEF StoreInv, AuditInv, TypeInv, TypeOK
  <1>2. Status(j) = "running"
    <2>1. CASE jobs' = jobs
      BY <2>1 DEF Status
    <2>2. ASSUME NEW s \in Session, CommitSettle(s) PROVE Status(j) = "running"
      <3>1. \A i : RootTo(tx[s], i) # "running"
        BY ToType DEF Terminal
      <3>2. j \notin New(tx[s]) /\ j \notin Finalized(tx[s])
        BY <1>1, <2>2, <3>1, CommitEffect
      <3> QED BY <1>1, <2>2, <3>2, CommitEffect DEF Status
    <2>3. ASSUME NEW s \in Session, CommitCancel(s) PROVE Status(j) = "running"
      BY <1>1, <2>3, CancelEffect
    <2>4. ASSUME NEW i \in Job, Cancel(i) \/ Due(i) \/ Expire(i) \/ \E n \in Attempt : Heartbeat(i, n)
          PROVE  Status(j) = "running"
      <3>1. j # i => jobs'[j] = jobs[j]
        BY <1>1, <2>4 DEF Cancel, Due, Expire, Heartbeat
      <3>2. j = i => jobs'[j] = [jobs[j] EXCEPT !.status = "cancelled", !.cancel = TRUE]
                     \/ jobs'[j] = [jobs[j] EXCEPT !.cancel = TRUE]
                     \/ jobs'[j] = [jobs[j] EXCEPT !.due = TRUE]
                     \/ jobs'[j] = [jobs[j] EXCEPT !.live = TRUE]
                     \/ jobs'[j] = [jobs[j] EXCEPT !.live = FALSE]
        BY <1>1, <2>4 DEF Cancel, Due, Expire, Heartbeat
      <3> QED BY <1>1, <3>1, <3>2 DEF Status, Row
    <2>5. ASSUME NEW r \in Root, NEW m \in Attempt, NEW f, jobs' = [jobs EXCEPT ![r] = NewRow(m, f)]
          PROVE  Status(j) = "running"
      <3>1. CASE j = r
        <4>1. jobs'[j] = NewRow(m, f)
          BY <1>1, <2>5, <3>1
        <4> QED BY <4>1, NewRowFields DEF Status
      <3>2. CASE j # r
        BY <1>1, <2>5, <3>2 DEF Status
      <3> QED BY <3>1, <3>2
    <2>6. ASSUME NEW r \in Root, NEW m \in Attempt, Submit(r, m) PROVE Status(j) = "running"
      BY <2>5, <2>6 DEF Submit
    <2>7. ASSUME NEW r \in Root, NEW m \in Attempt, NEW i \in Job, ReplayDLQ(i, r, m)
          PROVE  Status(j) = "running"
      BY <2>5, <2>7 DEF ReplayDLQ
    <2> QED BY <2>1, <2>2, <2>3, <2>4, <2>6, <2>7
  <1>3. Edge(j)
    BY Edges
  <1>4. Stays(j)
    BY <1>2, <1>3 DEF Edge, Appears, Starts, Stops, Withdraws, Finishes, Terminal, Queued
  <1> QED BY <1>2, <1>4 DEF Stays, Columns

(* The slot keeps the claim it had, or has none after the step.            *)
Kept(s) ==
    Holds(s)' => Holds(s) /\ slot'[s].job = slot[s].job /\ slot'[s].n = slot[s].n

(* Steps that hand out no claim.                                           *)
LEMMA ClaimsKept ==
    ASSUME StoreInv, [Next]_vars, ClaimsReal, ClaimsApart, \A s \in Slot : Kept(s)
    PROVE  ClaimsReal' /\ ClaimsApart'
  <1>1. ASSUME NEW s \in Slot, Holds(s)'
        PROVE  /\ slot'[s].job \in Job /\ slot'[s].n \in Attempt
               /\ jobs'[slot'[s].job].status # "none" /\ slot'[s].n <= jobs'[slot'[s].job].attempts
    <2>1. Holds(s) /\ slot'[s].job = slot[s].job /\ slot'[s].n = slot[s].n
      BY <1>1 DEF Kept
    <2>2. PICK j \in Job, n \in Attempt :
            slot[s].job = j /\ slot[s].n = n /\ Exists(j) /\ n <= jobs[j].attempts
      BY <2>1 DEF ClaimsReal
    <2>3. Exists(j)' /\ jobs[j].attempts <= jobs'[j].attempts
      BY <2>2, AttemptsGrow
    <2>4. n \in Nat /\ jobs[j].attempts \in Nat /\ jobs'[j].attempts \in Nat
      <3>1. StoreInv'
        BY StoreStep
      <3> QED BY <3>1, MaxAttemptsAssumption
          DEF StoreInv, AuditInv, TypeInv, TypeOK, Row, Attempt
    <2> QED BY <2>1, <2>2, <2>3, <2>4 DEF Exists, Status
  <1>2. ClaimsReal'
    BY <1>1 DEF ClaimsReal, Exists, Status
  <1>3. ClaimsApart'
    BY DEF ClaimsApart, Kept
  <1> QED BY <1>2, <1>3

(* Steps that start nothing and take no current claim from a slot.         *)
LEMMA HoldersKept ==
    ASSUME NoneAbandoned, RunningKept, UNCHANGED <<faults, crashes, cutOff>>,
           \A s \in Slot :
              /\ Holds(s) /\ slot[s].job \in Job
              /\ jobs'[slot[s].job].status = "running" /\ slot[s].n = jobs[slot[s].job].attempts
              => Holds(s)' /\ slot'[s].job = slot[s].job /\ slot'[s].n = slot[s].n
    PROVE  NoneAbandoned'
  <1> SUFFICES ASSUME faults = 0, crashes = 0, ~ cutOff, NEW j \in Job, Status(j)' = "running"
               PROVE  \E s \in Slot : Holds(s)' /\ slot'[s].job = j /\ slot'[s].n = jobs'[j].attempts
    BY DEF NoneAbandoned
  <1>1. Status(j) = "running" /\ jobs'[j].attempts = jobs[j].attempts
    BY DEF RunningKept
  <1>2. PICK s \in Slot : Holds(s) /\ slot[s].job = j /\ slot[s].n = jobs[j].attempts
    BY <1>1 DEF NoneAbandoned
  <1>3. Holds(s)' /\ slot'[s].job = slot[s].job /\ slot'[s].n = slot[s].n
    BY <1>2 DEF Status
  <1> QED BY <1>1, <1>2, <1>3

(* What remains to show of a step besides its effect on the tables.        *)
SlotsOK ==
    /\ slot' \in [Slot -> SlotType] /\ CommitsOwn' /\ DownIsEmpty'
    /\ \A s \in Slot : Kept(s)

(* One slot of a live process changes, and gets no claim it had not.       *)
LEMMA OneSlot ==
    ASSUME ProcType, CommitsOwn, DownIsEmpty, NEW s \in Slot, NEW v \in SlotType,
           slot' = [slot EXCEPT ![s] = v], proc' = proc, slot[s].pc # "exited",
           v.pc \in {"handling", "committing"} =>
               Holds(s) /\ v.job = slot[s].job /\ v.n = slot[s].n,
           v.pc = "committing" => tx'[s].rows = {v.job},
           \A u \in Slot \ {s} : tx'[u] = tx[u]
    PROVE  SlotsOK
  <1>1. slot \in [Slot -> SlotType]
    BY DEF ProcType
  <1>2. slot'[s] = v /\ \A u \in Slot \ {s} : slot'[u] = slot[u]
    BY <1>1
  <1>3. slot' \in [Slot -> SlotType]
    BY <1>1
  <1>4. CommitsOwn'
    BY <1>2 DEF CommitsOwn
  <1>5. DownIsEmpty'
    BY <1>2 DEF DownIsEmpty
  <1>6. \A u \in Slot : Kept(u)
    BY <1>2 DEF Kept, Holds
  <1> QED BY <1>3, <1>4, <1>5, <1>6 DEF SlotsOK

(* No slot changes.                                                        *)
LEMMA SameSlots ==
    ASSUME ProcType, CommitsOwn, DownIsEmpty, slot' = slot,
           \A u \in Slot : tx'[u] = tx[u],
           \A u \in Slot : proc'[u[1]] = "down" => proc[u[1]] = "down" \/ slot[u].pc = "exited"
    PROVE  SlotsOK
  BY DEF ProcType, CommitsOwn, DownIsEmpty, Kept, Holds, SlotsOK

(* The records a slot can be given.                                        *)
LEMMA SlotTypes ==
    /\ IdleSlot \in SlotType /\ IdleSlot.pc = "idle"
    /\ ExitedSlot \in SlotType /\ ExitedSlot.pc = "exited"
  BY DEF IdleSlot, ExitedSlot, SlotType

(* A slot starts to settle its job.                                        *)
LEMMA SettlingStep ==
    ASSUME HolderInv, NEW s \in Slot, Holding(s), Commits(s), SettlesOwn(s), UNCHANGED proc
    PROVE  SlotsOK /\ jobs' = jobs
  <1> USE DEF HolderInv
  <1> DEFINE v == [slot[s] EXCEPT !.pc = "committing"]
  <1>1. slot \in [Slot -> SlotType] /\ slot[s] \in SlotType /\ slot[s].pc = "handling" /\ s \in Session
    BY Sessions DEF ProcType, Holding
  <1>2. v \in SlotType /\ v.pc = "committing" /\ v.job = slot[s].job /\ v.n = slot[s].n
    BY <1>1 DEF SlotType
  <1>3. slot' = [slot EXCEPT ![s] = v]
    BY <1>1 DEF Commits
  <1>4. tx \in [Session -> Tx]
    BY DEF StoreInv, AuditInv, TypeInv, TypeOK
  <1>5. UNCHANGED tables /\ \E t : t.rows = {slot[s].job} /\ Lock(s, t)
    <2>1. ASSUME NEW kids \in SUBSET Descendants(RootOf(slot[s].job)), NEW res \in BOOLEAN,
                 CompleteBegin(s, slot[s].job, slot[s].n, kids, res)
          PROVE  UNCHANGED tables /\ \E t : t.rows = {slot[s].job} /\ Lock(s, t)
      <3> DEFINE t == [NoTx EXCEPT !.op = "complete", !.rows = {slot[s].job}, !.n = slot[s].n,
                                   !.kids = kids, !.res = res]
                 u == [t EXCEPT !.idle = Idle(t)]
      <3>1. Lock(s, u) /\ UNCHANGED tables
        BY <2>1 DEF CompleteBegin
      <3>2. u.rows = {slot[s].job}
        BY DEF NoTx
      <3> QED BY <3>1, <3>2
    <2>2. ASSUME NEW kind \in Kind, FailBegin(s, slot[s].job, slot[s].n, kind)
          PROVE  UNCHANGED tables /\ \E t : t.rows = {slot[s].job} /\ Lock(s, t)
      <3> DEFINE t == [NoTx EXCEPT !.op = "fail", !.rows = {slot[s].job}, !.n = slot[s].n, !.kind = kind]
                 u == [t EXCEPT !.idle = Idle(t)]
      <3>1. Lock(s, u) /\ UNCHANGED tables
        BY <2>2 DEF FailBegin
      <3>2. u.rows = {slot[s].job}
        BY DEF NoTx
      <3> QED BY <3>1, <3>2
    <2> QED BY <2>1, <2>2 DEF SettlesOwn
  <1>6. tx'[s].rows = {slot[s].job} /\ \A u \in Slot \ {s} : tx'[u] = tx[u]
    BY <1>1, <1>4, <1>5, Sessions DEF Lock
  <1> HIDE DEF v
  <1>7. SlotsOK
    BY <1>1, <1>2, <1>3, <1>6, OneSlot DEF Holds
  <1> QED BY <1>5, <1>7 DEF tables

(* A claim is handed out: the attempt is a new one, so nobody else has it. *)
LEMMA ClaimJobStep ==
    ASSUME HolderInv, NEW s \in Slot, NEW j \in Job, ClaimJob(s, j)
    PROVE  /\ slot' \in [Slot -> SlotType] /\ CommitsOwn' /\ DownIsEmpty'
           /\ ClaimsReal' /\ ClaimsApart' /\ NoneAbandoned'
  <1> USE DEF HolderInv
  <1> DEFINE n == jobs[j].attempts + 1
             v == Handling(j, n)
             row == [jobs[j] EXCEPT !.status = "running", !.attempts = n, !.token = n, !.live = TRUE]
  <1>1. slot \in [Slot -> SlotType] /\ slot[s].pc = "idle" /\ proc[s[1]] = "up"
    BY DEF ProcType, ClaimJob, Claiming
  <1>2. /\ slot' = [slot EXCEPT ![s] = v] /\ tx' = tx
        /\ UNCHANGED <<proc, faults, crashes, cutOff>>
    BY DEF ClaimJob, Goes, NoFault, Elsewhere, Claim
  <1>3. jobs \in [Job -> Row] /\ jobs[j] \in Row
    BY DEF StoreInv, AuditInv, TypeInv, TypeOK
  <1>4. jobs' = [jobs EXCEPT ![j] = row] /\ Status(j) \in Queued
    BY <1>3 DEF ClaimJob, Claim
  <1>5. row.status = "running" /\ row.attempts = n
    BY <1>3 DEF Row
  <1>6. \A i \in Job : jobs[i].attempts \in Nat
    BY <1>3 DEF Row
  <1>7. n \in Attempt /\ n \in Nat
    <2>1. jobs[j].attempts < jobs[j].max /\ jobs[j].max \in Attempt \cup {0}
      BY <1>3, <1>4 DEF StoreInv, RowsOK, RowOK, Status, Row
    <2> QED BY <1>6, <2>1, MaxAttemptsAssumption DEF Attempt
  <1>8. v.pc = "handling" /\ v.job = j /\ v.n = n /\ v \in SlotType
    BY <1>7 DEF Handling, SlotType
  <1> HIDE DEF v, row
  <1>9. slot'[s] = v /\ \A u \in Slot \ {s} : slot'[u] = slot[u]
    BY <1>1, <1>2
  <1>10. /\ jobs'[j].status = "running" /\ jobs'[j].attempts = n
         /\ \A i \in Job : i # j => jobs'[i] = jobs[i]
    BY <1>3, <1>4, <1>5
  <1>11. slot' \in [Slot -> SlotType] /\ CommitsOwn' /\ DownIsEmpty'
    BY <1>1, <1>2, <1>8, <1>9 DEF CommitsOwn, DownIsEmpty
  <1>12. ASSUME NEW u \in Slot \ {s}, Holds(u)'
         PROVE  /\ Holds(u) /\ slot'[u] = slot[u]
                /\ slot[u].job \in Job /\ slot[u].n \in Attempt
                /\ jobs'[slot[u].job].status # "none" /\ slot[u].n <= jobs'[slot[u].job].attempts
                /\ slot[u].job = j => slot[u].n # n
    <2>1. Holds(u) /\ slot'[u] = slot[u]
      BY <1>9, <1>12 DEF Holds
    <2>2. PICK i \in Job, k \in Attempt :
            slot[u].job = i /\ slot[u].n = k /\ Exists(i) /\ k <= jobs[i].attempts
      BY <2>1 DEF ClaimsReal
    <2>3. k \in Nat
      BY MaxAttemptsAssumption DEF Attempt
    <2> QED BY <1>6, <1>10, <2>1, <2>2, <2>3 DEF Exists, Status
  <1>13. ClaimsReal'
    <2> SUFFICES ASSUME NEW u \in Slot, Holds(u)'
                 PROVE  /\ slot'[u].job \in Job /\ slot'[u].n \in Attempt
                        /\ jobs'[slot'[u].job].status # "none"
                        /\ slot'[u].n <= jobs'[slot'[u].job].attempts
      BY DEF ClaimsReal, Exists, Status
    <2>1. CASE u = s
      BY <1>7, <1>8, <1>9, <1>10, <2>1
    <2> QED BY <1>12, <2>1
  <1>14. ClaimsApart'
    BY <1>8, <1>9, <1>12 DEF ClaimsApart
  <1>15. NoneAbandoned'
    <2> SUFFICES ASSUME faults = 0, crashes = 0, ~ cutOff, NEW i \in Job, Status(i)' = "running"
                 PROVE  \E u \in Slot : Holds(u)' /\ slot'[u].job = i /\ slot'[u].n = jobs'[i].attempts
      BY <1>2 DEF NoneAbandoned
    <2>1. CASE i = j
      BY <1>8, <1>9, <1>10, <2>1 DEF Holds
    <2>2. CASE i # j
      <3>1. Status(i) = "running" /\ jobs'[i] = jobs[i]
        BY <1>10, <2>2 DEF Status
      <3>2. PICK u \in Slot : Holds(u) /\ slot[u].job = i /\ slot[u].n = jobs[i].attempts
        BY <3>1 DEF NoneAbandoned
      <3>3. u # s
        BY <1>1, <3>2 DEF Holds
      <3> QED BY <1>9, <3>1, <3>2, <3>3 DEF Holds
    <2> QED BY <2>1, <2>2
  <1> QED BY <1>11, <1>13, <1>14, <1>15

(* A failure that the premise of LeaseHolder names has happened.           *)
LEMMA Failed ==
    ASSUME ProcType, Fault \/ crashes' = crashes + 1 \/ cutOff' = TRUE
    PROVE  NoneAbandoned'
  <1>1. faults \in Nat /\ crashes \in Nat
    BY BoundAssumption DEF ProcType, CounterType
  <1> QED BY <1>1 DEF NoneAbandoned, Fault

(* Nothing starts, and all slots keep what they have.                      *)
LEMMA AllHold ==
    ASSUME NoneAbandoned, RunningKept, UNCHANGED <<slot, crashes, cutOff>>, ProcType, NoFault \/ Fault
    PROVE  NoneAbandoned'
  <1>1. CASE Fault
    BY <1>1, Failed
  <1>2. CASE NoFault
    BY <1>2, HoldersKept DEF NoFault, Holds
  <1> QED BY <1>1, <1>2

(* The steps of a slot that leave it without its claim.                    *)
LEMMA DropStep ==
    ASSUME HolderInv, [Next]_vars, NEW s \in Slot,
           LeaseLost(s) \/ SettleError(s) \/ SettleCommit(s) \/ SettleAbort(s) \/ LeaveLoop(s)
    PROVE  SlotsOK /\ NoneAbandoned'
  <1> USE DEF HolderInv
  <1>1. PICK v \in {IdleSlot, ExitedSlot} : slot' = [slot EXCEPT ![s] = v]
    BY DEF LeaseLost, SettleError, SettleCommit, SettleAbort, LeaveLoop, Goes
  <1>2. v \in SlotType /\ v.pc \in {"idle", "exited"}
    BY <1>1, SlotTypes
  <1>3. slot[s].pc # "exited" /\ proc' = proc
    BY DEF LeaseLost, SettleError, SettleCommit, SettleAbort, LeaveLoop, Holding, Elsewhere
  <1>4. slot \in [Slot -> SlotType] /\ tx \in [Session -> Tx] /\ AuditInv
    BY DEF ProcType, StoreInv, AuditInv, TypeInv, TypeOK
  <1>5. \A u \in Slot \ {s} : tx'[u] = tx[u]
    <2>1. CASE LeaseLost(s) \/ SettleError(s) \/ LeaveLoop(s)
      BY <2>1 DEF LeaseLost, SettleError, LeaveLoop, vars
    <2>2. CASE SettleCommit(s)
      BY <1>4, <2>2, CommitEffect, Sessions DEF SettleCommit
    <2>3. CASE SettleAbort(s)
      BY <2>3, Sessions DEF SettleAbort, Rollback
    <2> QED BY <2>1, <2>2, <2>3
  <1>6. SlotsOK
    BY <1>1, <1>2, <1>3, <1>5, OneSlot
  <1>7. CASE SettleError(s) \/ SettleAbort(s)
    BY <1>6, <1>7, Failed DEF SettleError, SettleAbort
  <1>8. CASE LeaseLost(s) \/ LeaveLoop(s) \/ SettleCommit(s)
    <2>1. UNCHANGED <<faults, crashes, cutOff>>
      BY <1>8 DEF LeaseLost, LeaveLoop, SettleCommit, NoFault, Elsewhere
    <2>2. RunningKept
      <3>1. jobs' = jobs \/ CommitSettle(s)
        BY <1>8 DEF LeaseLost, LeaveLoop, SettleCommit, vars
      <3> QED BY <3>1, NotStarted, Sessions
    <2>3. \A u \in Slot \ {s} : slot'[u] = slot[u]
      BY <1>1, <1>4
    <2>4. ~ (/\ Holds(s) /\ slot[s].job \in Job
             /\ jobs'[slot[s].job].status = "running" /\ slot[s].n = jobs[slot[s].job].attempts)
      <3>1. CASE LeaveLoop(s)
        BY <3>1 DEF LeaveLoop, Holds
      <3>2. CASE LeaseLost(s)
        <4>1. jobs' = jobs /\ ~ Fence(slot[s].job, slot[s].n)
          BY <3>2 DEF LeaseLost, vars
        <4>2. \A j \in Job : Status(j) = "running" => jobs[j].token = jobs[j].attempts
          BY DEF StoreInv, RowsOK, RowOK, Status
        <4> QED BY <4>1, <4>2 DEF Fence, Status
      <3>3. CASE SettleCommit(s)
        <4>1. CommitSettle(s) /\ tx[s].rows = {slot[s].job} /\ s \in Session
          BY <3>3, Sessions DEF SettleCommit, CommitsOwn
        <4>2. jobs'[slot[s].job].status = To(tx[s], slot[s].job)
          <5>1. PICK j : j = slot[s].job
            OBVIOUS
          <5>2. Status(j)' = To(tx[s], j)
            BY <1>4, <4>1, <5>1, CommitEffect
          <5> QED BY <5>1, <5>2 DEF Status
        <4>3. To(tx[s], slot[s].job) # "running"
          BY <4>1 DEF CommitSettle, To, CompleteTo, FailTo, ReclaimTo
        <4> QED BY <4>2, <4>3
      <3> QED BY <1>8, <3>1, <3>2, <3>3
    <2>5. NoneAbandoned'
      BY <2>1, <2>2, <2>3, <2>4, HoldersKept DEF Holds
    <2> QED BY <1>6, <2>5
  <1> QED BY <1>7, <1>8

(* A claim that the slot never learns of.                                  *)
LEMMA ClaimLostStep ==
    ASSUME HolderInv, NEW s \in Slot, NEW j \in Job, ClaimLost(s, j)
    PROVE  SlotsOK /\ NoneAbandoned'
  <1> USE DEF HolderInv
  <1>1. slot[s].pc = "idle" /\ tx' = tx /\ proc' = proc
    BY DEF ClaimLost, Claim
  <1>2. NoneAbandoned'
    BY Failed DEF ClaimLost
  <1>3. CASE slot' = slot
    BY <1>1, <1>2, <1>3, SameSlots
  <1>4. CASE slot' = [slot EXCEPT ![s] = ExitedSlot]
    BY <1>1, <1>2, <1>4, SlotTypes, OneSlot
  <1> QED BY <1>3, <1>4 DEF ClaimLost, Goes

(* The steps of the maintenance loops, of the API and of time.             *)
LEMMA OtherStep ==
    ASSUME HolderInv, [Next]_vars,
           \/ \E s \in Slot : HeartbeatTick(s)
           \/ \E w \in Worker : Recover(w) \/ RecoverCommit(w) \/ RecoverAbort(w)
           \/ \E a \in Api : ApiCancelCommit(a) \/ ApiCancelAbort(a)
           \/ ApiCall
           \/ \E j \in Job : Time(j)
    PROVE  SlotsOK /\ NoneAbandoned'
  <1> USE DEF HolderInv
  <1>1. UNCHANGED <<slot, proc, crashes, cutOff>> /\ (NoFault \/ Fault)
    BY DEF HeartbeatTick, Recover, RecoverCommit, RecoverAbort, ApiCancelCommit, ApiCancelAbort,
       ApiCall, Time, Elsewhere, NoFault, process
  <1>2. AuditInv /\ tx \in [Session -> Tx]
    BY DEF StoreInv, AuditInv, TypeInv, TypeOK
  <1>3. (\A u \in Slot : tx'[u] = tx[u]) /\ RunningKept
    <2>1. ASSUME NEW s \in Slot, HeartbeatTick(s) PROVE tx' = tx /\ RunningKept
      <3>1. PICK j \in Job, n \in Attempt : Heartbeat(j, n)
        BY <2>1 DEF HeartbeatTick, Holding, ClaimsReal, Holds
      <3> QED BY <3>1, NotStarted DEF Heartbeat
    <2>2. ASSUME NEW w \in Session \ Slot,
                 \/ ReclaimBegin(w) \/ CommitSettle(w) \/ CommitCancel(w) \/ Rollback({w})
                 \/ \E r \in Root : CancelBegin(w, r)
          PROVE  (\A u \in Slot : tx'[u] = tx[u]) /\ RunningKept
      <3>1. \A u \in Slot : u \in Session /\ u # w
        BY Sessions
      <3>2. CASE ReclaimBegin(w) \/ \E r \in Root : CancelBegin(w, r)
        <4>1. jobs' = jobs /\ \E t : Lock(w, t)
          BY <3>2 DEF ReclaimBegin, CancelBegin, tables
        <4> QED BY <1>2, <3>1, <4>1, NotStarted DEF Lock
      <3>3. CASE CommitSettle(w)
        BY <1>2, <3>1, <3>3, CommitEffect, NotStarted
      <3>4. CASE CommitCancel(w)
        BY <1>2, <3>1, <3>4, CancelEffect, NotStarted
      <3>5. CASE Rollback({w})
        <4>1. jobs' = jobs /\ tx' = [s \in Session |-> IF s \in {w} THEN NoTx ELSE tx[s]]
          BY <3>5 DEF Rollback, tables
        <4> QED BY <3>1, <4>1, NotStarted
      <3> QED BY <2>2, <3>2, <3>3, <3>4, <3>5
    <2>3. ASSUME NEW w \in Worker, Recover(w) \/ RecoverCommit(w) \/ RecoverAbort(w)
          PROVE  (\A u \in Slot : tx'[u] = tx[u]) /\ RunningKept
      BY <2>2, <2>3, Sessions DEF Recover, RecoverCommit, RecoverAbort
    <2>4. ASSUME NEW a \in Api, ApiCancelCommit(a) \/ ApiCancelAbort(a)
          PROVE  (\A u \in Slot : tx'[u] = tx[u]) /\ RunningKept
      BY <2>2, <2>4, Sessions DEF ApiCancelCommit, ApiCancelAbort
    <2>5. ASSUME NEW r \in Root, NEW m \in Attempt, Submit(r, m) \/ \E j \in Job : ReplayDLQ(j, r, m)
          PROVE  tx' = tx /\ RunningKept
      <3>1. tx' = tx
        BY <2>5 DEF Submit, ReplayDLQ
      <3> QED BY <2>5, <3>1, NotStarted
    <2>6. ASSUME NEW j \in Job, Cancel(j) \/ Due(j) \/ Expire(j) PROVE tx' = tx /\ RunningKept
      <3>1. tx' = tx
        BY <2>6 DEF Cancel, Due, Expire
      <3> QED BY <2>6, <3>1, NotStarted
    <2>7. ASSUME NEW a \in Api, NEW r \in Root, CancelBegin(a, r)
          PROVE  (\A u \in Slot : tx'[u] = tx[u]) /\ RunningKept
      BY <2>2, <2>7, Sessions
    <2>8. CASE ApiCall
      BY <2>5, <2>6, <2>7, <2>8 DEF ApiCall, Retry
    <2>9. ASSUME NEW j \in Job, Time(j) PROVE tx' = tx /\ RunningKept
      BY <2>6, <2>9 DEF Time
    <2> QED BY <2>1, <2>3, <2>4, <2>8, <2>9
  <1>4. SlotsOK
    BY <1>1, <1>3, SameSlots
  <1>5. NoneAbandoned'
    BY <1>1, <1>3, AllHold
  <1> QED BY <1>4, <1>5

(* A process is told to stop, stops, crashes or starts.                    *)
LEMMA ProcessStep ==
    ASSUME HolderInv, NEW w \in Worker, Terminate(w) \/ Exit(w) \/ Crash(w) \/ Boot(w)
    PROVE  SlotsOK /\ NoneAbandoned'
  <1> USE DEF HolderInv
  <1>1. slot \in [Slot -> SlotType] /\ proc \in [Worker -> {"up", "draining", "down"}]
    BY DEF ProcType
  <1>2. CASE Terminate(w) \/ Exit(w)
    <2>1. UNCHANGED vars /\ UNCHANGED <<slot, faults, crashes, cutOff>>
      BY <1>2 DEF Terminate, Exit
    <2>2. \A u \in Slot : proc'[u[1]] = "down" => proc[u[1]] = "down" \/ slot[u].pc = "exited"
      <3> SUFFICES ASSUME NEW u \in Slot, proc'[u[1]] = "down", proc[u[1]] # "down"
                   PROVE  slot[u].pc = "exited"
        OBVIOUS
      <3>1. u[1] \in Worker /\ (u[1] = w => u \in SlotsOf(w))
        BY Sessions
      <3>2. CASE Terminate(w)
        BY <1>1, <3>1, <3>2 DEF Terminate
      <3>3. CASE Exit(w)
        BY <1>1, <3>1, <3>3 DEF Exit
      <3> QED BY <1>2, <3>2, <3>3
    <2>3. jobs' = jobs /\ tx' = tx
      BY <2>1 DEF vars
    <2>4. SlotsOK
      BY <2>1, <2>2, <2>3, SameSlots
    <2>5. RunningKept
      BY <2>3 DEF RunningKept, Status
    <2>6. NoneAbandoned'
      BY <2>1, <2>5, HoldersKept DEF Holds
    <2> QED BY <2>4, <2>6
  <1>3. CASE Crash(w) \/ Boot(w)
    <2>1. PICK v \in {IdleSlot, ExitedSlot} :
            slot' = [s \in Slot |-> IF s \in SlotsOf(w) THEN v ELSE slot[s]]
      BY <1>3 DEF Crash, Boot
    <2>2. v \in SlotType /\ v.pc \in {"idle", "exited"}
      BY <2>1, SlotTypes
    <2>3. /\ \A s \in Slot : s[1] = w => slot'[s] = v
          /\ \A s \in Slot : s[1] # w => slot'[s] = slot[s]
      BY <2>1, Sessions
    <2>4. \A s \in Slot : s[1] # w => proc'[s[1]] = proc[s[1]] /\ tx'[s] = tx[s]
      BY <1>1, <1>3, Sessions DEF Crash, Boot, vars
    <2>5. \A s \in Slot : s[1] = w /\ proc'[s[1]] = "down" => v.pc = "exited"
      <3>1. CASE Crash(w)
        <4>1. slot' = [s \in Slot |-> IF s \in SlotsOf(w) THEN ExitedSlot ELSE slot[s]]
          BY <3>1 DEF Crash
        <4> QED BY <2>3, <4>1, SlotTypes, Sessions
      <3>2. CASE Boot(w)
        BY <1>1, <3>2 DEF Boot
      <3> QED BY <1>3, <3>1, <3>2
    <2>6. slot' \in [Slot -> SlotType]
      BY <1>1, <2>1, <2>2
    <2>7. CommitsOwn' /\ DownIsEmpty' /\ \A s \in Slot : Kept(s)
      BY <2>2, <2>3, <2>4, <2>5 DEF CommitsOwn, DownIsEmpty, Kept, Holds
    <2>8. NoneAbandoned'
      <3>1. CASE Crash(w)
        BY <3>1, Failed DEF Crash
      <3>2. CASE Boot(w)
        <4>1. UNCHANGED vars /\ UNCHANGED <<faults, crashes, cutOff>> /\ proc[w] = "down"
          BY <3>2 DEF Boot
        <4>2. RunningKept
          BY <4>1 DEF RunningKept, Status, vars
        <4>3. \A s \in Slot : Holds(s) => slot'[s] = slot[s]
          BY <2>3, <4>1 DEF DownIsEmpty, Holds
        <4> QED BY <4>1, <4>2, <4>3, HoldersKept DEF Holds
      <3> QED BY <1>3, <3>1, <3>2
    <2> QED BY <2>6, <2>7, <2>8 DEF SlotsOK
  <1> QED BY <1>2, <1>3

(* The states of the processes and the counters of failures.               *)
LEMMA CounterStep ==
    ASSUME ProcType, [WNext]_wvars
    PROVE  proc' \in [Worker -> {"up", "draining", "down"}] /\ CounterType' /\ faults <= faults'
  <1>1. /\ proc \in [Worker -> {"up", "draining", "down"}] /\ CounterType
        /\ faults \in Nat /\ crashes \in Nat /\ terms \in Nat
        /\ MaxFaults \in Nat /\ MaxCrashes \in Nat /\ MaxTerms \in Nat
    BY BoundAssumption DEF ProcType, CounterType
  <1> DEFINE Goal == /\ proc' \in [Worker -> {"up", "draining", "down"}]
                     /\ CounterType' /\ faults <= faults'
  <1>2. ASSUME proc' = proc, crashes' = crashes, terms' = terms, cutOff' = cutOff \/ cutOff' = TRUE,
               NoFault \/ Fault
        PROVE  Goal
    <2>1. faults' \in 0 .. MaxFaults /\ faults <= faults'
      BY <1>1, <1>2 DEF CounterType, NoFault, Fault
    <2>2. cutOff' \in BOOLEAN
      BY <1>1, <1>2 DEF CounterType
    <2> QED BY <1>1, <1>2, <2>1, <2>2 DEF CounterType
  <1>3. ASSUME NEW s \in Slot, NEW j \in Job, ClaimJob(s, j) \/ ClaimLost(s, j) PROVE Goal
    BY <1>2, <1>3 DEF ClaimJob, ClaimLost, Elsewhere
  <1>4. ASSUME NEW s \in Slot,
               \/ HeartbeatTick(s) \/ CancelObserved(s) \/ HeartbeatError(s) \/ Respond(s)
               \/ ShutdownDeadline(s) \/ LeaseLost(s) \/ SettleError(s)
               \/ SettleCommit(s) \/ SettleAbort(s) \/ LeaveLoop(s)
        PROVE  Goal
    <2>1. /\ proc' = proc /\ crashes' = crashes /\ terms' = terms
          /\ cutOff' = cutOff \/ cutOff' = TRUE
          /\ NoFault \/ Fault
      BY <1>4 DEF HeartbeatTick, CancelObserved, HeartbeatError, Respond, ShutdownDeadline, LeaseLost,
         SettleError, SettleCommit, SettleAbort, LeaveLoop, Elsewhere
    <2> QED BY <1>2, <2>1
  <1>5. ASSUME NEW w \in Worker, Recover(w) \/ RecoverCommit(w) \/ RecoverAbort(w) PROVE Goal
    BY <1>2, <1>5 DEF Recover, RecoverCommit, RecoverAbort, Elsewhere
  <1>6. ASSUME NEW w \in Worker, Terminate(w) \/ Exit(w) \/ Boot(w) \/ Crash(w) PROVE Goal
    <2>1. proc' \in [Worker -> {"up", "draining", "down"}]
      BY <1>1, <1>6 DEF Terminate, Exit, Boot, Crash
    <2>2. faults' = faults /\ cutOff' = cutOff
      BY <1>6 DEF Terminate, Exit, Boot, Crash
    <2>3. crashes' \in 0 .. MaxCrashes /\ terms' \in 0 .. MaxTerms
      BY <1>1, <1>6 DEF Terminate, Exit, Boot, Crash, CounterType
    <2> QED BY <1>1, <2>1, <2>2, <2>3 DEF CounterType
  <1>7. ASSUME UNCHANGED process PROVE Goal
    BY <1>2, <1>7 DEF process, NoFault
  <1>8. ASSUME NEW a \in Api, ApiCancelCommit(a) \/ ApiCancelAbort(a) PROVE Goal
    BY <1>2, <1>7, <1>8 DEF ApiCancelCommit, ApiCancelAbort, Elsewhere
  <1>9. CASE ApiCall \/ \E j \in Job : Time(j)
    BY <1>7, <1>9 DEF ApiCall, Time
  <1>10. CASE UNCHANGED wvars
    BY <1>7, <1>10 DEF wvars
  <1> QED BY <1>3, <1>4, <1>5, <1>6, <1>8, <1>9, <1>10 DEF WNext

(* Every step keeps the invariant: one case per kind of step.              *)
LEMMA HolderStep == HolderInv /\ [WNext]_wvars => HolderInv'
  <1> SUFFICES ASSUME HolderInv, [WNext]_wvars PROVE HolderInv'
    OBVIOUS
  <1> USE DEF HolderInv
  <1>1. [Next]_vars
    BY StoreCalls DEF StoreInv, AuditInv, TypeInv
  <1>2. StoreInv' /\ proc' \in [Worker -> {"up", "draining", "down"}] /\ CounterType'
    BY <1>1, StoreStep, CounterStep
  <1>3. ASSUME SlotsOK, NoneAbandoned' PROVE HolderInv'
    <2>1. ClaimsReal' /\ ClaimsApart'
      BY <1>1, <1>3, ClaimsKept DEF SlotsOK
    <2> QED BY <1>2, <1>3, <2>1 DEF SlotsOK, ProcType
  <1>4. ASSUME NEW s \in Slot, NEW j \in Job, ClaimJob(s, j) PROVE HolderInv'
    BY <1>2, <1>4, ClaimJobStep DEF ProcType
  <1>5. ASSUME NEW s \in Slot, NEW j \in Job, ClaimLost(s, j) PROVE HolderInv'
    BY <1>3, <1>5, ClaimLostStep
  <1>6. ASSUME NEW s \in Slot,
               CancelObserved(s) \/ HeartbeatError(s) \/ Respond(s) \/ ShutdownDeadline(s)
        PROVE  HolderInv'
    <2>1. Holding(s) /\ Commits(s) /\ SettlesOwn(s) /\ Elsewhere /\ (NoFault \/ Fault)
      BY <1>6, Settling
    <2>2. SlotsOK /\ jobs' = jobs
      BY <2>1, SettlingStep DEF Elsewhere
    <2>3. NoneAbandoned'
      <3>1. CASE Fault
        BY <3>1, Failed
      <3>2. CASE NoFault
        <4>1. RunningKept /\ UNCHANGED <<faults, crashes, cutOff>>
          BY <2>1, <2>2, <3>2 DEF RunningKept, Status, NoFault, Elsewhere
        <4>2. slot' = [slot EXCEPT ![s].pc = "committing"] /\ slot \in [Slot -> SlotType]
          BY <2>1 DEF Commits, ProcType
        <4>3. \A u \in Slot : Holds(u) =>
                 Holds(u)' /\ slot'[u].job = slot[u].job /\ slot'[u].n = slot[u].n
          BY <4>2 DEF Holds, SlotType
        <4> QED BY <4>1, <4>3, HoldersKept
      <3> QED BY <2>1, <3>1, <3>2
    <2> QED BY <1>3, <2>2, <2>3
  <1>7. ASSUME NEW s \in Slot,
               LeaseLost(s) \/ SettleError(s) \/ SettleCommit(s) \/ SettleAbort(s) \/ LeaveLoop(s)
        PROVE  HolderInv'
    BY <1>1, <1>3, <1>7, DropStep
  <1>8. CASE \/ \E s \in Slot : HeartbeatTick(s)
             \/ \E w \in Worker : Recover(w) \/ RecoverCommit(w) \/ RecoverAbort(w)
             \/ \E a \in Api : ApiCancelCommit(a) \/ ApiCancelAbort(a)
             \/ ApiCall
             \/ \E j \in Job : Time(j)
    BY <1>1, <1>3, <1>8, OtherStep
  <1>9. ASSUME NEW w \in Worker, Terminate(w) \/ Exit(w) \/ Crash(w) \/ Boot(w) PROVE HolderInv'
    BY <1>3, <1>9, ProcessStep
  <1>10. CASE UNCHANGED wvars
    <2>1. SlotsOK
      BY <1>10, SameSlots DEF wvars, vars, process
    <2>2. NoneAbandoned'
      BY <1>10 DEF wvars, vars, process, NoneAbandoned, Holds, Status
    <2> QED BY <1>3, <2>1, <2>2
  <1> QED BY <1>4, <1>5, <1>6, <1>7, <1>8, <1>9, <1>10 DEF WNext

(* Nothing is claimed when the processes start.                            *)
LEMMA HolderInit == WInit => HolderInv
  <1> SUFFICES ASSUME WInit PROVE HolderInv
    OBVIOUS
  <1>1. StoreInv
    BY AuditInit, RowsInit DEF WInit, StoreInv
  <1>2. ProcType
    <2>1. slot \in [Slot -> SlotType] /\ proc \in [Worker -> {"up", "draining", "down"}]
      BY SlotTypes DEF WInit
    <2>2. faults = 0 /\ crashes = 0 /\ terms = 0 /\ cutOff = FALSE
      BY DEF WInit
    <2>3. faults \in 0 .. MaxFaults /\ crashes \in 0 .. MaxCrashes /\ terms \in 0 .. MaxTerms
      BY <2>2, BoundAssumption
    <2>4. cutOff \in BOOLEAN
      BY <2>2
    <2> QED BY <2>1, <2>3, <2>4 DEF ProcType, CounterType
  <1>3. \A s \in Slot : slot[s].pc = "idle" /\ proc[s[1]] = "up"
    BY SlotTypes, Sessions DEF WInit
  <1>4. \A j \in Job : Status(j) = "none"
    BY DEF WInit, Init, NoRow, Status
  <1> QED BY <1>1, <1>2, <1>3, <1>4
      DEF HolderInv, ClaimsReal, ClaimsApart, CommitsOwn, DownIsEmpty, NoneAbandoned, Holds

(* The invariant holds in every reachable state.                           *)
LEMMA HolderInvariant == WSpec => []HolderInv
  BY HolderInit, HolderStep, PTL DEF WSpec

(* Type correctness of the processes and the tables they share.            *)
THEOREM WorkerTypeCorrect == WSpec => []WTypeOK
  <1>1. HolderInv => WTypeOK
    BY DEF HolderInv, StoreInv, AuditInv, TypeInv, ProcType, CounterType, SlotType, WTypeOK
  <1> QED BY <1>1, HolderInvariant, PTL

(* The processes use the store only through its operations, with claims    *)
(* that were handed out, so all theorems about the store hold of the       *)
(* running service.                                                        *)
THEOREM ServiceImplementsStore == WSpec => ImplementsStore
  <1>1. WInit => Init
    BY DEF WInit
  <1>2. HolderInv /\ [WNext]_wvars => [Next]_vars
    BY StoreCalls DEF HolderInv, StoreInv, AuditInv, TypeInv
  <1> QED BY <1>1, <1>2, HolderInvariant, PTL DEF WSpec, ImplementsStore, Spec

(* Two refinements in a row: workers, maintenance and cancelling clients,  *)
(* with their crashes and failed calls, move every job along the ADR's     *)
(* transition graph and end a waiting audit with the right verdict.        *)
THEOREM ServiceImplementsLifecycle == WSpec => ImplementsLifecycle
  <1> QED BY ServiceImplementsStore, StoreImplementsLifecycle, PTL DEF ImplementsStore

(* The verdicts of audits and the attempts of jobs are those of the store, *)
(* so they are right whatever the processes do.                            *)
THEOREM ServiceVerdictsSound == WSpec => [](AuditOutcomeSound /\ AttemptLedger /\ DeadLetterOnce)
  <1> QED BY ServiceImplementsStore, AuditSound, LedgerKept, DeadLetteredOnce, PTL DEF ImplementsStore

(* The lease of a running job has at most one holder, and without a crash, *)
(* a failed call, a deadlock victim or a claim cut off by SIGTERM it has   *)
(* one, for any number of processes and slots.                             *)
THEOREM LeaseHolderKept == WSpec => []LeaseHolder
  <1>1. HolderInv => LeaseHolder
    <2> SUFFICES ASSUME HolderInv, NEW j \in Job, Status(j) = "running"
                 PROVE  LET holders == {s \in Slot : /\ slot[s].pc \in {"handling", "committing"}
                                                     /\ slot[s].job = j /\ slot[s].n = jobs[j].token}
                        IN /\ Cardinality(holders) <= 1
                           /\ faults = 0 /\ crashes = 0 /\ ~ cutOff => holders # {}
      BY DEF LeaseHolder
    <2> DEFINE holders == {s \in Slot : /\ slot[s].pc \in {"handling", "committing"}
                                        /\ slot[s].job = j /\ slot[s].n = jobs[j].token}
    <2>1. jobs[j].token = jobs[j].attempts
      BY DEF HolderInv, StoreInv, RowsOK, RowOK, Status
    <2>2. \A s, u \in holders : s = u
      BY DEF HolderInv, ClaimsApart, Holds
    <2>3. Cardinality(holders) <= 1
      <3> HIDE DEF holders
      <3>1. CASE holders = {}
        BY <3>1, FS_EmptySet
      <3>2. CASE \E s : holders = {s}
        BY <3>2, FS_Singleton
      <3> QED BY <2>2, <3>1, <3>2
    <2>4. faults = 0 /\ crashes = 0 /\ ~ cutOff => holders # {}
      BY <2>1 DEF HolderInv, NoneAbandoned, Holds
    <2> QED BY <2>3, <2>4
  <1> QED BY <1>1, HolderInvariant, PTL
-----------------------------------------------------------------------------
(***************************************************************************)
(* Cancellations.                                                          *)
(***************************************************************************)

(* A Fail has a kind that the code knows, and as long as no store call has *)
(* failed, one of kind cancelled is about a job whose cancellation was     *)
(* requested.                                                              *)
FailOK(t) ==
    t.op = "fail" => /\ t.kind \in Kind
                     /\ faults = 0 /\ t.kind = "cancelled" => \A j \in t.rows : jobs[j].cancel
FailsOK == \A s \in Session : FailOK(tx[s])

CancelInv == FailsOK /\ CancelledOnRequest

(* What a step does to the transaction of a session: nothing, its end, or  *)
(* the beginning of one that is not a Fail or an allowed Fail.             *)
LEMMA FailStep ==
    ASSUME HolderInv, FailsOK, [WNext]_wvars, NEW s \in Session
    PROVE  tx'[s] = tx[s] \/ tx'[s].op # "fail" \/ (jobs' = jobs /\ FailOK(tx[s])')
  <1>1. tx \in [Session -> Tx] /\ AuditInv /\ StoreInv /\ NoTx.op # "fail"
    BY DEF HolderInv, StoreInv, AuditInv, TypeInv, TypeOK, NoTx
  <1> DEFINE Goal == tx'[s] = tx[s] \/ tx'[s].op # "fail" \/ (jobs' = jobs /\ FailOK(tx[s])')
  <1>2. ASSUME tx' = tx PROVE Goal
    BY <1>2
  <1>3. ASSUME NEW w \in Session, NEW t, Lock(w, t), t.op # "fail" PROVE Goal
    BY <1>1, <1>3 DEF Lock
  <1>4. ASSUME NEW w \in Session, NEW j, NEW n, NEW kids, NEW res, CompleteBegin(w, j, n, kids, res)
        PROVE  Goal
    <2> DEFINE t == [NoTx EXCEPT !.op = "complete", !.rows = {j}, !.n = n, !.kids = kids, !.res = res]
               u == [t EXCEPT !.idle = Idle(t)]
    <2>1. Lock(w, u)
      BY <1>4 DEF CompleteBegin
    <2>2. u.op # "fail"
      BY DEF NoTx
    <2> QED BY <1>3, <2>1, <2>2
  <1>5. ASSUME NEW w \in Session, ReclaimBegin(w) \/ \E r \in Root : CancelBegin(w, r) PROVE Goal
    <2>1. ASSUME ReclaimBegin(w) PROVE Goal
      <3> DEFINE t == [NoTx EXCEPT !.op = "reclaim", !.rows = {j \in Job : Expired(j)} \ Locked]
                 u == [t EXCEPT !.idle = Idle(t)]
      <3>1. Lock(w, u)
        BY <2>1 DEF ReclaimBegin
      <3>2. u.op # "fail"
        BY DEF NoTx
      <3> QED BY <1>3, <3>1, <3>2
    <2>2. ASSUME NEW r \in Root, CancelBegin(w, r) PROVE Goal
      <3> DEFINE t == [NoTx EXCEPT !.op = "cancel",
                         !.rows = {r} \cup {d \in Descendants(r) : Status(d) \in Queued}]
      <3>1. Lock(w, t)
        BY <2>2 DEF CancelBegin
      <3>2. t.op # "fail"
        BY DEF NoTx
      <3> QED BY <1>3, <3>1, <3>2
    <2> QED BY <1>5, <2>1, <2>2
  <1>6. ASSUME NEW w \in Slot, NEW kind \in Kind, FailBegin(w, slot[w].job, slot[w].n, kind),
               kind # "cancelled" \/ jobs[slot[w].job].cancel \/ Fault
        PROVE  Goal
    <2> DEFINE t == [NoTx EXCEPT !.op = "fail", !.rows = {slot[w].job}, !.n = slot[w].n, !.kind = kind]
               u == [t EXCEPT !.idle = Idle(t)]
    <2>1. Lock(w, u) /\ jobs' = jobs
      BY <1>6 DEF FailBegin, tables
    <2>2. u.kind = kind /\ u.rows = {slot[w].job}
      BY DEF NoTx
    <2> HIDE DEF u
    <2>3. w \in Session
      BY Sessions
    <2>4. CASE s # w
      BY <1>1, <2>1, <2>3, <2>4 DEF Lock
    <2>5. CASE s = w
      <3>1. tx'[s] = u
        BY <1>1, <2>1, <2>3, <2>5 DEF Lock
      <3>2. Fault => faults' # 0
        BY BoundAssumption DEF Fault, HolderInv, ProcType, CounterType
      <3>3. FailOK(tx[s])'
        BY <1>6, <2>1, <2>2, <3>1, <3>2 DEF FailOK
      <3> QED BY <2>1, <3>3
    <2> QED BY <2>4, <2>5
  <1>7. ASSUME NEW w \in Session, CommitSettle(w) PROVE Goal
    BY <1>1, <1>7, CommitEffect
  <1>8. ASSUME NEW w \in Session, CommitCancel(w) PROVE Goal
    BY <1>1, <1>8, CancelEffect
  <1>9. ASSUME NEW S, Rollback(S) PROVE Goal
    BY <1>1, <1>9 DEF Rollback
  <1>10. ASSUME NEW w \in Slot, NEW j \in Job, ClaimJob(w, j) \/ ClaimLost(w, j) PROVE Goal
    BY <1>2, <1>10 DEF ClaimJob, ClaimLost, Claim
  <1>11. ASSUME NEW w \in Slot, HeartbeatTick(w) \/ LeaseLost(w) \/ SettleError(w) \/ LeaveLoop(w)
         PROVE  Goal
    BY <1>2, <1>11 DEF HeartbeatTick, Heartbeat, LeaseLost, SettleError, LeaveLoop, vars
  <1>12. ASSUME NEW w \in Slot,
                CancelObserved(w) \/ HeartbeatError(w) \/ Respond(w) \/ ShutdownDeadline(w)
         PROVE  Goal
    <2>1. w \in Session
      BY Sessions
    <2>2. CASE CancelObserved(w) \/ HeartbeatError(w)
      BY <1>6, <2>2 DEF CancelObserved, HeartbeatError, Kind
    <2>3. CASE ShutdownDeadline(w)
      BY <1>6, <2>3 DEF ShutdownDeadline, Kind
    <2>4. CASE Respond(w)
      BY <1>4, <1>6, <2>1, <2>4 DEF Respond, ErrorKind, Kind
    <2> QED BY <1>12, <2>2, <2>3, <2>4
  <1>13. ASSUME NEW w \in Slot, SettleCommit(w) \/ SettleAbort(w) PROVE Goal
    BY <1>7, <1>9, <1>13, Sessions DEF SettleCommit, SettleAbort
  <1>14. ASSUME NEW w \in Worker, Recover(w) \/ RecoverCommit(w) \/ RecoverAbort(w) PROVE Goal
    BY <1>5, <1>7, <1>9, <1>14, Sessions DEF Recover, RecoverCommit, RecoverAbort
  <1>15. ASSUME NEW w \in Worker, Terminate(w) \/ Exit(w) \/ Boot(w) PROVE Goal
    BY <1>2, <1>15 DEF Terminate, Exit, Boot, vars
  <1>16. ASSUME NEW w \in Worker, Crash(w) PROVE Goal
    BY <1>1, <1>16 DEF Crash
  <1>17. ASSUME NEW a \in Api, ApiCancelCommit(a) \/ ApiCancelAbort(a) PROVE Goal
    BY <1>8, <1>9, <1>17, Sessions DEF ApiCancelCommit, ApiCancelAbort
  <1>18. CASE ApiCall
    <2>1. tx' = tx \/ \E a \in Api, r \in Root : CancelBegin(a, r)
      BY <1>18 DEF ApiCall, Submit, Retry, ReplayDLQ, Cancel
    <2> QED BY <1>2, <1>5, <2>1, Sessions
  <1>19. ASSUME NEW j \in Job, Time(j) PROVE Goal
    BY <1>2, <1>19 DEF Time, Due, Expire
  <1>20. CASE UNCHANGED wvars
    BY <1>2, <1>20 DEF wvars, vars
  <1> QED
    BY <1>10, <1>11, <1>12, <1>13, <1>14, <1>15, <1>16, <1>17, <1>18, <1>19, <1>20 DEF WNext

(* A request is never taken back, so an open Fail stays justified.         *)
LEMMA CancelStep == HolderInv /\ CancelInv /\ [WNext]_wvars => CancelInv'
  <1> SUFFICES ASSUME HolderInv, CancelInv, [WNext]_wvars PROVE CancelInv'
    OBVIOUS
  <1>1. StoreInv /\ [Next]_vars
    BY StoreCalls DEF HolderInv, StoreInv, AuditInv, TypeInv
  <1>2. faults' = 0 => faults = 0
    <2>1. faults \in Nat /\ faults <= faults' /\ faults' \in Nat
      BY CounterStep, BoundAssumption DEF HolderInv, ProcType, CounterType
    <2> QED BY <2>1
  <1>3. ASSUME NEW j \in Job, Exists(j), jobs[j].cancel PROVE jobs'[j].cancel
    BY <1>1, <1>3, Edges
    DEF Edge, Stays, Appears, Starts, Stops, Withdraws, Finishes, Columns, Exists
  <1>4. ASSUME NEW s \in Session PROVE FailOK(tx[s])'
    <2>1. CASE tx'[s] = tx[s] /\ tx[s].op = "fail"
      <3>1. FailOK(tx[s])
        BY DEF CancelInv, FailsOK
      <3>2. \A j \in tx[s].rows : j \in Job /\ Exists(j)
        BY <1>1, <2>1 DEF StoreInv, AuditInv, TypeInv, TypeOK, Tx, TxFacts, Exists
      <3> QED BY <1>2, <1>3, <2>1, <3>1, <3>2 DEF FailOK
    <2>2. CASE tx'[s].op # "fail"
      BY <2>2 DEF FailOK
    <2> QED BY <2>1, <2>2, FailStep DEF CancelInv
  <1>5. ASSUME faults' = 0, NEW j \in Job, Status(j)' = "cancelled" PROVE jobs'[j].cancel
    <2>1. faults = 0
      BY <1>2, <1>5
    <2>2. Status(j) = "cancelled" => jobs[j].cancel
      BY <2>1 DEF CancelInv, CancelledOnRequest
    <2>3. FailedAsCancelled(j) => jobs[j].cancel
      BY <2>1 DEF FailedAsCancelled, CancelInv, FailsOK, FailOK, Kind
    <2>4. Finishes(j) => Status(j)' # "cancelled"
      BY VerdictType DEF Finishes
    <2>5. Edge(j)
      BY <1>1, Edges
    <2> QED BY <1>5, <2>2, <2>3, <2>4, <2>5
        DEF Edge, Stays, Appears, Starts, Stops, Withdraws, Columns
  <1> QED BY <1>4, <1>5 DEF CancelInv, FailsOK, CancelledOnRequest

(* As long as no store call has failed, a job ends as cancelled only       *)
(* because its cancellation was requested, whatever leases are lost and    *)
(* processes drained or recovered from.                                    *)
THEOREM CancelledOnRequestKept == WSpec => []CancelledOnRequest
  <1>1. WInit => CancelInv
    <2> SUFFICES ASSUME WInit PROVE CancelInv
      OBVIOUS
    <2>1. \A s \in Session : tx[s].op = "none"
      BY DEF WInit, Init, NoTx
    <2>2. \A j \in Job : Status(j) = "none"
      BY DEF WInit, Init, NoRow, Status
    <2> QED BY <2>1, <2>2 DEF CancelInv, FailsOK, FailOK, CancelledOnRequest
  <1>2. CancelInv => CancelledOnRequest
    BY DEF CancelInv
  <1> QED BY <1>1, <1>2, CancelStep, HolderInvariant, PTL DEF WSpec
=============================================================================
