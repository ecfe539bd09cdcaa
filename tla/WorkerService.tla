--------------------------- MODULE WorkerService ----------------------------
(***************************************************************************)
(* The worker processes (internal/worker/service.go, cmd/worker) and the   *)
(* API's mutations (internal/httpapi/jobs.go) running against JobStore.    *)
(*                                                                         *)
(* A worker process runs Concurrency claim loops, its slots, and one       *)
(* maintenance loop.  A slot that holds a claim runs its handler in a      *)
(* goroutine and reacts to the first of: the handler's response, a         *)
(* heartbeat tick, the drain deadline.  Its reaction ends in one call of   *)
(* Complete or Fail whose error, if any, is only logged.  Deciding and     *)
(* starting that call are one action: nothing local depends on what        *)
(* happens in between, and the fence is evaluated by the call.             *)
(*                                                                         *)
(* Failures: a store call that errors, a claim whose commit is lost, a     *)
(* process crash, SIGTERM; each is bounded by a constant.                  *)
(***************************************************************************)
EXTENDS JobStore

CONSTANTS
    Worker,       \* worker processes
    Concurrency,  \* claim loops per process
    Api,          \* sessions of the API process
    MaxFaults,    \* bound: store calls that fail
    MaxCrashes,   \* bound: process crashes
    MaxTerms      \* bound: SIGTERMs delivered

Slot == Worker \X (1 .. Concurrency)

ASSUME SessionAssumption == Session = Slot \cup Worker \cup Api
ASSUME SessionKindsAssumption == Slot \cap (Worker \cup Api) = {} /\ Worker \cap Api = {}
ASSUME BoundAssumption ==
    /\ Concurrency \in Nat \ {0}
    /\ MaxFaults \in Nat /\ MaxCrashes \in Nat /\ MaxTerms \in Nat

VARIABLES
    slot,     \* what each claim loop is doing, and the claim it holds
    proc,     \* "up", "draining" after SIGTERM, "down"
    faults,   \* store calls that have failed
    crashes,  \* crashes so far
    terms,    \* SIGTERMs so far
    cutOff    \* whether a deadlock or SIGTERM has cut off a slot's store call

process == <<slot, proc, faults, crashes, terms, cutOff>>
wvars == <<vars, process>>

IdleSlot == [pc |-> "idle", job |-> NoJob, n |-> 0]
ExitedSlot == [pc |-> "exited", job |-> NoJob, n |-> 0]
Handling(j, n) == [pc |-> "handling", job |-> j, n |-> n]

WTypeOK ==
    /\ TypeOK
    /\ slot \in [Slot -> [pc : {"idle", "handling", "committing", "exited"},
                          job : Job \cup {NoJob}, n : Nat]]
    /\ proc \in [Worker -> {"up", "draining", "down"}]
    /\ faults \in 0 .. MaxFaults /\ crashes \in 0 .. MaxCrashes /\ terms \in 0 .. MaxTerms
    /\ cutOff \in BOOLEAN

WInit ==
    /\ Init
    /\ slot = [s \in Slot |-> IdleSlot]
    /\ proc = [w \in Worker |-> "up"]
    /\ faults = 0 /\ crashes = 0 /\ terms = 0 /\ cutOff = FALSE
-----------------------------------------------------------------------------
SlotsOf(w) == {w} \X (1 .. Concurrency)

Goes(s, to) == slot' = [slot EXCEPT ![s] = to]
Commits(s) == slot' = [slot EXCEPT ![s].pc = "committing"]
Fault == faults < MaxFaults /\ faults' = faults + 1
NoFault == UNCHANGED faults
Elsewhere == UNCHANGED <<proc, crashes, terms, cutOff>>

(* claimLoop: a claim loop of a process that is not draining.              *)
Claiming(s) == slot[s].pc = "idle" /\ proc[s[1]] = "up"

ClaimJob(s, j) ==
    /\ Claiming(s) /\ Claim(j)
    /\ Goes(s, Handling(j, jobs[j].attempts + 1))
    /\ NoFault /\ Elsewhere

(* The claim committed, but Claim returned an error: the connection was    *)
(* lost, or SIGTERM cancelled the context of a call in progress.           *)
ClaimLost(s, j) ==
    /\ slot[s].pc = "idle" /\ Claim(j)
    /\ \/ proc[s[1]] = "up" /\ Fault /\ UNCHANGED <<slot, cutOff>>
       \/ proc[s[1]] = "draining" /\ Goes(s, ExitedSlot) /\ cutOff' = TRUE /\ NoFault
    /\ UNCHANGED <<proc, crashes, terms>>

Holding(s) == slot[s].pc = "handling"

(* process: the heartbeat ticker.  Heartbeat reports owned = FALSE for a   *)
(* lost lease, for a requested cancellation and for any database error,    *)
(* and Fail(cancelled) follows in each case.                               *)
HeartbeatTickUnfenced(s) ==
    /\ Holding(s) /\ slot[s].job \notin Locked
    /\ jobs' = [jobs EXCEPT ![slot[s].job].live = TRUE]
    /\ UNCHANGED <<tries, events, results, dlq, replayed, tx>>
    /\ UNCHANGED slot /\ NoFault /\ Elsewhere
HeartbeatTick(s) ==
    /\ Holding(s) /\ Heartbeat(slot[s].job, slot[s].n)
    /\ UNCHANGED slot /\ NoFault /\ Elsewhere

CancelObserved(s) ==
    /\ Holding(s) /\ jobs[slot[s].job].cancel
    /\ FailBegin(s, slot[s].job, slot[s].n, "cancelled")
    /\ Commits(s) /\ NoFault /\ Elsewhere

HeartbeatError(s) ==
    /\ Holding(s)
    /\ FailBegin(s, slot[s].job, slot[s].n, "cancelled")
    /\ Commits(s) /\ Fault /\ Elsewhere

(* What the handlers return.  A demo job has no children, and may be given *)
(* null as its result; dependency_audit and the package handlers return a  *)
(* result and one submission per dependency.                               *)
DemoAnswer == [kids : {{}}, res : BOOLEAN]
AuditAnswer(r) == [kids : SUBSET Descendants(r), res : {TRUE}]
PackageAnswer(j) == [kids : SUBSET Descendants(RootOf(j)), res : {TRUE}]
Answer(j) == IF j \in Root THEN DemoAnswer \cup AuditAnswer(j) ELSE PackageAnswer(j)

(* The kinds that the handlers give their errors.  A handler's context is  *)
(* cancelled only by process itself, which no longer listens then, so a    *)
(* response never has kind cancelled.                                      *)
ErrorKind == {"transient", "permanent"}

(* process: the handler's response, and the Complete or Fail it leads to.  *)
Respond(s) ==
    /\ Holding(s)
    /\ LET j == slot[s].job  n == slot[s].n IN
       \/ \E answer \in Answer(j) : CompleteBegin(s, j, n, answer.kids, answer.res)
       \/ \E kind \in ErrorKind : FailBegin(s, j, n, kind)
    /\ Commits(s) /\ NoFault /\ Elsewhere

(* process: the drain deadline of a process that received SIGTERM.         *)
ShutdownDeadlineAsCancel(s) ==
    /\ Holding(s) /\ proc[s[1]] = "draining"
    /\ FailBegin(s, slot[s].job, slot[s].n, "cancelled")
    /\ Commits(s) /\ NoFault /\ Elsewhere
ShutdownDeadlineOnlyRetryable(s) ==
    /\ Holding(s) /\ proc[s[1]] = "draining"
    /\ slot[s].n < jobs[slot[s].job].max
    /\ FailBegin(s, slot[s].job, slot[s].n, "transient")
    /\ Commits(s) /\ NoFault /\ Elsewhere
ShutdownDeadline(s) ==
    /\ Holding(s) /\ proc[s[1]] = "draining"
    /\ FailBegin(s, slot[s].job, slot[s].n, "transient")
    /\ Commits(s) /\ NoFault /\ Elsewhere

(* Whatever process reacts to, the store answers ErrLeaseLost.             *)
LeaseLost(s) ==
    /\ Holding(s) /\ ~ Fence(slot[s].job, slot[s].n)
    /\ Goes(s, IdleSlot)
    /\ UNCHANGED vars /\ NoFault /\ Elsewhere

(* Complete inserts a job's children one by one, in the order of a Go map  *)
(* (auditor/service_handler.go).  So when two jobs of an audit submit the  *)
(* same two packages, each may hold one key and wait for the other's; one  *)
(* of them is aborted.  CompleteBegin takes the keys at once, so here it   *)
(* is slot s before its Complete, or the open Complete of u.               *)
KeysCross(s, u) ==
    /\ Holding(s) /\ Fence(slot[s].job, slot[s].n) /\ tx[u].op = "complete"
    /\ \E a, b \in Descendants(RootOf(slot[s].job)) \cap New(tx[u]) : a # b

(* Complete or Fail did not get as far as its last statement: the error is *)
(* logged and the claim is dropped.                                        *)
SettleError(s) ==
    /\ Holding(s) /\ Goes(s, IdleSlot)
    /\ \/ (\E u \in Slot \ {s} : KeysCross(s, u)) /\ cutOff' = TRUE /\ NoFault
       \/ Fault /\ UNCHANGED cutOff
    /\ UNCHANGED <<vars, proc, crashes, terms>>

SettleCommit(s) ==
    /\ slot[s].pc = "committing" /\ CommitSettle(s)
    /\ Goes(s, IdleSlot) /\ NoFault /\ Elsewhere

-----------------------------------------------------------------------------
(* Rows a session's next statement may wait for.  A child's Complete also  *)
(* takes a key-share lock on the root when its insert into audit_results   *)
(* or audit_relationships checks the foreign key.                          *)
WaitsFor(s) ==
    CASE tx[s].op = "cancel" ->
            {d \in UNION {Descendants(r) : r \in tx[s].rows \cap Root} : Status(d) = "running"}
      [] tx[s].op = "complete" -> {RootOf(j) : j \in tx[s].rows} \ tx[s].rows
      [] tx[s].op \in {"fail", "reclaim"} -> Finalized(tx[s])
      [] OTHER -> {}

(* PostgreSQL aborts one of two sessions that wait for each other: Cancel  *)
(* locks the root before its children, a settling child the other way.     *)
DeadlockVictim(s) ==
    \E u \in Session \ {s} :
        /\ WaitsFor(s) \cap LockedBy(u) # {}
        /\ WaitsFor(u) \cap LockedBy(s) # {}

SettleAbort(s) ==
    /\ slot[s].pc = "committing" /\ Rollback({s})
    /\ Goes(s, IdleSlot)
    /\ \/ /\ DeadlockVictim(s) \/ \E u \in Slot \ {s} : KeysCross(u, s)
          /\ cutOff' = TRUE /\ NoFault
       \/ Fault /\ UNCHANGED cutOff
    /\ UNCHANGED <<proc, crashes, terms>>

(* maintenanceLoop: ReclaimExpired on the process's context, which SIGTERM *)
(* cancels.                                                                *)
Recover(w) ==
    /\ proc[w] = "up" /\ ReclaimBegin(w)
    /\ UNCHANGED slot /\ NoFault /\ Elsewhere

RecoverCommit(w) ==
    /\ CommitSettle(w)
    /\ UNCHANGED slot /\ NoFault /\ Elsewhere

RecoverAbort(w) ==
    /\ Rollback({w})
    /\ ((DeadlockVictim(w) \/ proc[w] = "draining") /\ NoFault) \/ Fault
    /\ UNCHANGED slot /\ Elsewhere

(* Run: SIGTERM cancels the context; the claim loops return once they hold *)
(* no job, and the process exits when they and the maintenance loop have.  *)
Terminate(w) ==
    /\ proc[w] = "up" /\ terms < MaxTerms
    /\ proc' = [proc EXCEPT ![w] = "draining"] /\ terms' = terms + 1
    /\ UNCHANGED <<vars, slot, faults, crashes, cutOff>>

LeaveLoopAbandoning(s) ==
    /\ slot[s].pc \in {"idle", "handling"} /\ proc[s[1]] = "draining"
    /\ Goes(s, ExitedSlot)
    /\ UNCHANGED vars /\ NoFault /\ Elsewhere
LeaveLoop(s) ==
    /\ slot[s].pc = "idle" /\ proc[s[1]] = "draining"
    /\ Goes(s, ExitedSlot)
    /\ UNCHANGED vars /\ NoFault /\ Elsewhere

Exit(w) ==
    /\ proc[w] = "draining" /\ tx[w] = NoTx
    /\ \A s \in SlotsOf(w) : slot[s].pc = "exited"
    /\ proc' = [proc EXCEPT ![w] = "down"]
    /\ UNCHANGED <<vars, slot, faults, crashes, terms, cutOff>>

(* A crash rolls back the process's open transactions.                     *)
Crash(w) ==
    /\ proc[w] # "down" /\ crashes < MaxCrashes
    /\ proc' = [proc EXCEPT ![w] = "down"] /\ crashes' = crashes + 1
    /\ slot' = [s \in Slot |-> IF s \in SlotsOf(w) THEN ExitedSlot ELSE slot[s]]
    /\ tx' = [s \in Session |-> IF s \in SlotsOf(w) \cup {w} THEN NoTx ELSE tx[s]]
    /\ UNCHANGED <<tables, faults, terms, cutOff>>

Boot(w) ==
    /\ proc[w] = "down"
    /\ proc' = [proc EXCEPT ![w] = "up"]
    /\ slot' = [s \in Slot |-> IF s \in SlotsOf(w) THEN IdleSlot ELSE slot[s]]
    /\ UNCHANGED <<vars, faults, crashes, terms, cutOff>>
-----------------------------------------------------------------------------
(* The API's handlers: each is one call of the store.                      *)
ApiCancelCommit(a) == CommitCancel(a) /\ UNCHANGED process

ApiCancelAbort(a) ==
    /\ Rollback({a})
    /\ (DeadlockVictim(a) /\ NoFault) \/ Fault
    /\ UNCHANGED slot /\ Elsewhere

ApiCall ==
    /\ \/ \E r \in Root, m \in Attempt :
             \/ Submit(r, m)
             \/ \E j \in Job : Retry(j, r, m) \/ ReplayDLQ(j, r, m)
       \/ \E j \in Job : Cancel(j)
       \/ \E a \in Api, r \in Root : CancelBegin(a, r)
    /\ UNCHANGED process

Time(j) == (Due(j) \/ Expire(j)) /\ UNCHANGED process

WNext ==
    \/ \E s \in Slot :
          \/ \E j \in Job : ClaimJob(s, j) \/ ClaimLost(s, j)
          \/ HeartbeatTick(s) \/ CancelObserved(s) \/ HeartbeatError(s)
          \/ Respond(s) \/ ShutdownDeadline(s) \/ LeaseLost(s) \/ SettleError(s)
          \/ SettleCommit(s) \/ SettleAbort(s) \/ LeaveLoop(s)
    \/ \E w \in Worker :
          \/ Recover(w) \/ RecoverCommit(w) \/ RecoverAbort(w)
          \/ Terminate(w) \/ Exit(w) \/ Crash(w) \/ Boot(w)
    \/ \E a \in Api : ApiCancelCommit(a) \/ ApiCancelAbort(a)
    \/ ApiCall
    \/ \E j \in Job : Time(j)

WSpec == WInit /\ [][WNext]_wvars

(* What the scheduling of the code justifies.  Loops and timers of a live  *)
(* process keep running; PostgreSQL resolves deadlocks, and hands a row    *)
(* lock to the session that waits for it, so a commit that is unblocked    *)
(* again and again happens; time passes, so that a retry becomes due and a *)
(* lease nobody renews expires.  Nothing is assumed of handlers, SIGTERM,  *)
(* failures, API users or restarts (docker-compose.yml has no restart      *)
(* policy): what a property needs of them is its premise.                  *)
OrphanExpire(j) ==
    /\ ~ \E s \in Slot : Holding(s) /\ slot[s].job = j /\ slot[s].n = jobs[j].token
    /\ Expire(j) /\ UNCHANGED process

DeadlockAbort ==
    \/ \E s \in Slot : DeadlockVictim(s) /\ SettleAbort(s)
    \/ \E w \in Worker : DeadlockVictim(w) /\ RecoverAbort(w)
    \/ \E a \in Api : DeadlockVictim(a) /\ ApiCancelAbort(a)

Fairness ==
    /\ \A s \in Slot :
          /\ WF_wvars(\E j \in Job : ClaimJob(s, j))
          /\ WF_wvars(CancelObserved(s)) /\ WF_wvars(LeaseLost(s))
          /\ WF_wvars(ShutdownDeadline(s)) /\ SF_wvars(SettleCommit(s))
          /\ WF_wvars(LeaveLoop(s))
    /\ \A w \in Worker :
          /\ WF_wvars(Recover(w)) /\ SF_wvars(RecoverCommit(w))
          /\ WF_wvars(Exit(w))
    /\ \A a \in Api : SF_wvars(ApiCancelCommit(a))
    /\ \A j \in Job :
          WF_wvars(Due(j) /\ UNCHANGED process) /\ WF_wvars(OrphanExpire(j))
    /\ WF_wvars(DeadlockAbort)

FairSpec == WSpec /\ Fairness
-----------------------------------------------------------------------------
(* The processes use the store only as JobStore allows, so that everything *)
(* shown of JobStore for arbitrary callers holds of the running service:   *)
(* no step of a worker or of the API touches a table except through one of *)
(* the store's operations.                                                 *)
ImplementsStore == Spec

(* The current lease of a running job is held by at most one slot of all   *)
(* the processes.  Without a crash, a failed store call, a Complete or     *)
(* Fail chosen as deadlock victim or a Claim interrupted by SIGTERM it is  *)
(* held by one: no other interleaving of claims, drains, deadlines,        *)
(* cancellations and recoveries abandons work that only a lease expiry     *)
(* could bring back.                                                       *)
LeaseHolder ==
    \A j \in Job : Status(j) = "running" =>
        LET holders == {s \in Slot : /\ slot[s].pc \in {"handling", "committing"}
                                     /\ slot[s].job = j /\ slot[s].n = jobs[j].token}
        IN /\ Cardinality(holders) <= 1
           /\ faults = 0 /\ crashes = 0 /\ ~ cutOff => holders # {}

(* As long as no store call has failed, a job ends as cancelled only       *)
(* because its cancellation was requested: a lost lease, a drain or a      *)
(* recovery is never taken for a cancellation.                             *)
CancelledOnRequest ==
    faults = 0 => \A j \in Job : Status(j) = "cancelled" => jobs[j].cancel

(* The unconditional form, which the ADR states: kind cancelled means      *)
(* "Execution stopped because cancellation was requested".  process also   *)
(* takes a database error of one heartbeat for a cancellation.             *)
CancelledMeansRequested ==
    \A j \in Job : Status(j) = "cancelled" => jobs[j].cancel

(* If handlers return and processes that stopped are started again, every  *)
(* job that is queued or running comes to an end, or to waiting for its    *)
(* children, through crashes, lost claims, drains, cancellations and       *)
(* deadlocks: leases are recovered, retries become due and the attempt     *)
(* budget runs out.                                                        *)
HandlersReturn == \A s \in Slot : WF_wvars(Respond(s))
Restarted == \A w \in Worker : WF_wvars(Boot(w))
JobsSettle ==
    HandlersReturn /\ Restarted =>
        \A j \in Job : (Status(j) \in Queued \cup {"running"})
                          ~> (Status(j) \in Terminal \cup {"waiting"})

(* Under the same premises an audit that waits for its children ends: the  *)
(* last child to end, in whatever way and in whichever process, closes it. *)
(* Two things are excepted, for which the code has no recovery.  A queued  *)
(* child that a user cancels by its own id ends without finalizeRoot (a    *)
(* child that a lease recovery cancels does not: it gets another event).   *)
(* And all children that are left end in transactions open at once, each   *)
(* of which has counted another's child as active (StrandedRoot).          *)
ChildCancelled(r) ==
    \E d \in Descendants(r) :
        /\ Status(d) = "cancelled" /\ "cancelled" \in events[d]
        /\ \A k \in Attempt : tries[d][k] # "cancelled"

Ending(s, r) ==
    {d \in Descendants(r) : /\ tx[s].op \in {"complete", "fail", "reclaim"}
                            /\ d \in tx[s].rows /\ To(tx[s], d) \in Terminal}
LastOverlap(r) ==
    /\ \E s, u \in Session : s # u /\ Ending(s, r) # {} /\ Ending(u, r) # {}
    /\ \A s \in Session : Ending(s, r) # {} => r \notin tx[s].idle
    /\ \A d \in Descendants(r) : Status(d) \in Active => \E s \in Session : d \in Ending(s, r)

AuditsSettle ==
    HandlersReturn /\ Restarted =>
        \A r \in Root : <>[](Status(r) = "waiting") => <>(ChildCancelled(r) \/ LastOverlap(r))

(* A process that received SIGTERM exits, even if its handlers never       *)
(* return: the drain deadline fails what is left.                          *)
DrainEnds == \A w \in Worker : proc[w] = "draining" ~> proc[w] = "down"
=============================================================================
