-------------------------------- MODULE Pool --------------------------------
(***************************************************************************)
(* The in-process queue of the Go metadata rounds: worker.Pool             *)
(* (internal/worker/pool.go) over queue.Queue (internal/queue/queue.go),   *)
(* with or without the durable store of internal/store/postgres/           *)
(* postgres.go, and its caller, QueueRoundFetcher.runChunk                 *)
(* (internal/gomod/queue.go), which submits a chunk of jobs, starts the    *)
(* pool, waits until it is done or cancelled, and shuts it down.           *)
(*                                                                         *)
(* The processes are the caller, the worker goroutines, the poller and the *)
(* goroutine of Shutdown.  One action is what a goroutine does between two *)
(* points where it can block or where another one can interfere: a receive *)
(* or send on the channel, a call of the store, the handler, and the gap   *)
(* between decrementing inFlight and reading it in checkDone.              *)
(*                                                                         *)
(* The channel carries jobs that are already acquired and, in durable      *)
(* mode, empty jobs: a signal that some row is waiting.  The attempts of a *)
(* job travel with it; in durable mode they are a column of its row.       *)
(***************************************************************************)
EXTENDS Integers, FiniteSets, Sequences, SequencesExt

CONSTANTS
    Seed,         \* ids of jobs that the caller submits
    Kid,          \* ids of jobs that handlers return
    Worker,       \* the pool's goroutines
    ChunkSize,    \* jobs per chunk
    BufferSize,   \* of the dispatch channel
    MaxAttempts,
    MaxFaults,    \* bound: store calls that fail
    MaxRestarts,  \* bound: crashes of the process, each followed by a restart
    NoJob         \* the empty job, a signal

Job == Seed \cup Kid

ASSUME PoolAssumption ==
    /\ NoJob \notin Job /\ Seed \cap Kid = {}
    /\ {ChunkSize, BufferSize, MaxAttempts} \subseteq Nat \ {0} /\ ChunkSize <= BufferSize
    /\ {MaxFaults, MaxRestarts} \subseteq Nat

VARIABLES
    durable,   \* whether the pool and the queue have a store
    row,       \* the store: Job -> status
    attempts,  \* Job -> attempts made
    due,       \* the unfinished jobs whose scheduled_at has passed, in its order
    dlq,       \* Job -> number of DLQ entries
    chan,      \* the dispatch channel
    capacity,
    queue,     \* "open"; "closing" and "closed" are the steps of Close
    inFlight,
    counted,   \* the ids in the sync.Map
    done,      \* the done channel is closed
    stopping,  \* Shutdown was called
    worker,    \* Worker -> what it is doing
    poller,
    caller,
    todo,      \* jobs the caller has still to submit
    faults,
    restarts

store == <<row, attempts, due, dlq>>
accounts == <<inFlight, counted, done>>
vars == <<durable, store, chan, capacity, queue, accounts, stopping, worker, poller,
          caller, todo, faults, restarts>>

Status == {"none", "pending", "running", "completed", "dead_lettered"}

(* job: the job at hand; kids: its children still to submit; out: what the *)
(* worker is sending, a child or its own job for a retry.                  *)
Busy(pc, j, kids, out) == [pc |-> pc, job |-> j, kids |-> kids, out |-> out]
At(pc) == Busy(pc, NoJob, {}, NoJob)

PTypeOK ==
    /\ durable \in BOOLEAN
    /\ row \in [Job -> Status] /\ attempts \in [Job -> 0 .. MaxAttempts]
    /\ due \in Seq(Job) /\ dlq \in [Job -> Nat]
    /\ chan \in Seq(Job \cup {NoJob}) /\ capacity \in Nat /\ Len(chan) <= capacity
    /\ queue \in {"open", "closing", "closed"}
    /\ inFlight \in Int /\ counted \subseteq Job /\ done \in BOOLEAN /\ stopping \in BOOLEAN
    /\ worker \in [Worker ->
          [pc : {"new", "idle", "acquire", "handle", "kids", "send", "requeue", "release",
                 "check", "exited"},
           job : Job \cup {NoJob}, kids : SUBSET Kid, out : Job \cup {NoJob}]]
    /\ poller \in [pc : {"new", "idle", "acquire", "send", "exited"}, job : Job \cup {NoJob}]
    /\ caller \in [pc : {"submit", "send", "wait", "shutdown", "returned"}, job : Job \cup {NoJob}]
    /\ todo \in 0 .. ChunkSize
    /\ faults \in 0 .. MaxFaults /\ restarts \in 0 .. MaxRestarts

PollerAt(pc) == [pc |-> pc, job |-> NoJob]
CallerAt(pc) == [pc |-> pc, job |-> NoJob]

Init ==
    /\ durable \in BOOLEAN
    /\ row = [j \in Job |-> "none"] /\ attempts = [j \in Job |-> 0]
    /\ due = <<>> /\ dlq = [j \in Job |-> 0]
    /\ chan = <<>> /\ capacity = BufferSize /\ queue = "open"
    /\ inFlight = 0 /\ counted = {} /\ done = FALSE /\ stopping = FALSE
    /\ worker = [w \in Worker |-> At("new")]
    /\ poller = PollerAt("new") /\ caller = CallerAt("submit") /\ todo = ChunkSize
    /\ faults = 0 /\ restarts = 0
-----------------------------------------------------------------------------
Fault == faults < MaxFaults /\ faults' = faults + 1
NoFault == UNCHANGED faults

(* Ids not yet used: NewJob draws fresh UUIDs.                             *)
InHand == {worker[w].job : w \in Worker} \cup {worker[w].out : w \in Worker}
          \cup (UNION {worker[w].kids : w \in Worker}) \cup {poller.job, caller.job}
Fresh(S) == {j \in S : row[j] = "none" /\ attempts[j] = 0 /\ dlq[j] = 0
                       /\ j \notin counted \cup InHand \cup Range(chan)}

(* CreateJob, AcquireJob, CompleteJob, RetryJob and DeadLetterJob.         *)
CreateJob(j) ==
    /\ row' = [row EXCEPT ![j] = "pending"] /\ due' = Append(due, j)
    /\ UNCHANGED <<attempts, dlq>>

(* The places in due of the rows that may be acquired, and the row that    *)
(* ORDER BY scheduled_at LIMIT 1 takes.                                    *)
Eligible(rows) == {i \in DOMAIN due : rows[due[i]] = "pending"}
Oldest(j) == \E i \in Eligible(row) : due[i] = j /\ \A k \in Eligible(row) : i <= k
AcquireJob(j) ==
    /\ Oldest(j)
    /\ row' = [row EXCEPT ![j] = "running"]
    /\ UNCHANGED <<attempts, due, dlq>>

CompleteJob(j) ==
    /\ row' = [row EXCEPT ![j] = "completed"]
    /\ due' = RemoveFirst(due, j) /\ UNCHANGED <<attempts, dlq>>

RetryJob(j) ==
    /\ row' = [row EXCEPT ![j] = "pending"]
    /\ attempts' = [attempts EXCEPT ![j] = @ + 1]
    /\ due' = RemoveFirst(due, j) /\ UNCHANGED dlq

(* The entry is a row of dlq or, without a store, of Publish's own list.   *)
DeadLetterJob(j) ==
    /\ row' = IF durable THEN [row EXCEPT ![j] = "dead_lettered"] ELSE row
    /\ attempts' = [attempts EXCEPT ![j] = @ + 1]
    /\ dlq' = [dlq EXCEPT ![j] = @ + 1] /\ due' = RemoveFirst(due, j)

(* dlq.Publish; an error of DeadLetterJob is only logged.                  *)
Publish(j) == (DeadLetterJob(j) /\ NoFault) \/ (durable /\ UNCHANGED store /\ Fault)

(* A send on the dispatch channel: the select of Submit and                *)
(* DispatchAcquired either sends or, once Close has begun, gives up.       *)
Sent(x) == Len(chan) < capacity /\ queue # "closed" /\ chan' = Append(chan, x)
GivesUp == queue # "open" /\ UNCHANGED chan

(* counted.Store and inFlight.Add(1), and their inverse.                   *)
Count(j) == counted' = counted \cup {j} /\ inFlight' = inFlight + 1 /\ UNCHANGED done
Uncount(j) == counted' = counted \ {j} /\ inFlight' = inFlight - 1 /\ UNCHANGED done

Moves(w, to) == worker' = [worker EXCEPT ![w] = to]
-----------------------------------------------------------------------------
(* The caller: runChunk.                                                   *)

(* Pool.Submit up to the send, and the send.                               *)
Submit(j) ==
    /\ caller.pc = "submit" /\ todo > 0 /\ j \in Fresh(Seed)
    /\ Count(j)
    /\ IF durable THEN CreateJob(j) ELSE UNCHANGED store
    /\ caller' = [pc |-> "send", job |-> j]
    /\ UNCHANGED <<durable, chan, capacity, queue, stopping, worker, poller, todo, faults, restarts>>

SubmitSend ==
    /\ caller.pc = "send"
    /\ Sent(IF durable THEN NoJob ELSE caller.job)
    /\ caller' = CallerAt("submit") /\ todo' = todo - 1
    /\ UNCHANGED <<durable, store, capacity, queue, accounts, stopping, worker, poller, faults, restarts>>

(* CreateJob failed: runChunk closes the queue and returns the error.      *)
SubmitError ==
    /\ caller.pc = "submit" /\ todo > 0 /\ durable /\ Fault
    /\ queue' = "closed" /\ caller' = CallerAt("returned")
    /\ UNCHANGED <<durable, store, chan, capacity, accounts, stopping, worker, poller, todo, restarts>>

Start ==
    /\ caller.pc = "submit" /\ todo = 0
    /\ worker' = [w \in Worker |-> At("idle")]
    /\ poller' = IF durable THEN PollerAt("idle") ELSE poller
    /\ caller' = CallerAt("wait")
    /\ UNCHANGED <<durable, store, chan, capacity, queue, accounts, stopping, todo, faults, restarts>>

(* Done was closed or the caller's context was cancelled: Shutdown.        *)
Shutdown ==
    /\ caller.pc = "wait"
    /\ stopping' = TRUE /\ caller' = CallerAt("shutdown")
    /\ UNCHANGED <<durable, store, chan, capacity, queue, accounts, worker, poller, todo, faults, restarts>>

(* Shutdown's goroutine: it closes the queue once the poller has exited    *)
(* and no submission is in progress.                                       *)
CloseEager ==
    /\ stopping /\ queue = "open" /\ queue' = "closing"
    /\ UNCHANGED <<durable, store, chan, capacity, accounts, stopping, worker, poller, caller, todo, faults, restarts>>
Close ==
    /\ stopping /\ queue = "open"
    /\ poller.pc \in {"new", "exited"} /\ \A w \in Worker : worker[w].pc # "send"
    /\ queue' = "closing"
    /\ UNCHANGED <<durable, store, chan, capacity, accounts, stopping, worker, poller, caller, todo, faults, restarts>>

(* Close's write lock: the senders have left.                              *)
Closed ==
    /\ queue = "closing"
    /\ poller.pc # "send" /\ \A w \in Worker : worker[w].pc \notin {"send", "requeue"}
    /\ queue' = "closed"
    /\ UNCHANGED <<durable, store, chan, capacity, accounts, stopping, worker, poller, caller, todo, faults, restarts>>

Drained == queue = "closed" /\ \A w \in Worker : worker[w].pc = "exited"

(* Shutdown returns when the pool has drained or its timeout has passed.   *)
Return ==
    /\ caller.pc = "shutdown" /\ caller' = CallerAt("returned")
    /\ UNCHANGED <<durable, store, chan, capacity, queue, accounts, stopping, worker, poller, todo, faults, restarts>>
-----------------------------------------------------------------------------
(* A worker: workerLoop and Dequeue.                                       *)
Others == UNCHANGED <<durable, capacity, queue, stopping, poller, caller, todo, restarts>>

Dequeue(w) ==
    /\ worker[w].pc = "idle" /\ chan # <<>>
    /\ chan' = Tail(chan)
    /\ IF Head(chan) = NoJob
       THEN Moves(w, At("acquire")) /\ UNCHANGED counted
       ELSE Moves(w, Busy("handle", Head(chan), {}, NoJob)) /\ counted' = counted \cup {Head(chan)}
    /\ UNCHANGED <<store, inFlight, done>> /\ NoFault /\ Others

DequeueAcquire(w, j) ==
    /\ worker[w].pc = "acquire" /\ AcquireJob(j)
    /\ Moves(w, Busy("handle", j, {}, NoJob)) /\ counted' = counted \cup {j}
    /\ UNCHANGED <<chan, inFlight, done>> /\ NoFault /\ Others

(* A stale signal, or AcquireJob failed.                                   *)
DequeueStale(w) ==
    /\ worker[w].pc = "acquire"
    /\ (Eligible(row) = {} /\ NoFault) \/ Fault
    /\ Moves(w, At("idle")) /\ UNCHANGED <<store, chan, accounts>> /\ Others

Exit(w) ==
    /\ worker[w].pc = "idle" /\ chan = <<>> /\ queue = "closed"
    /\ Moves(w, At("exited")) /\ UNCHANGED <<store, chan, accounts>> /\ NoFault /\ Others

(* The handler succeeds; an error of CompleteJob is only logged.           *)
HandleOK(w, kids) ==
    LET j == worker[w].job IN
    /\ worker[w].pc = "handle" /\ kids \subseteq Fresh(Kid)
    /\ \/ durable /\ CompleteJob(j) /\ NoFault
       \/ ~ durable /\ UNCHANGED store /\ NoFault
       \/ durable /\ UNCHANGED store /\ Fault
    /\ Moves(w, Busy("kids", j, kids, NoJob))
    /\ UNCHANGED <<chan, accounts>> /\ Others

(* submitChild: counted and dispatched while the pool accepts work, else   *)
(* only persisted, which needs a store.                                    *)
CountChildNever(k) == UNCHANGED accounts
CountChild(k) == IF stopping THEN UNCHANGED accounts ELSE Count(k)

SubmitChild(w, k) ==
    LET next == [worker[w] EXCEPT !.kids = @ \ {k}] IN
    /\ worker[w].pc = "kids" /\ k \in worker[w].kids
    /\ IF durable
       THEN /\ Moves(w, next)
            /\ \/ CreateJob(k) /\ CountChild(k) /\ NoFault
               \/ UNCHANGED <<store, accounts>> /\ Fault
       ELSE /\ Moves(w, IF stopping THEN next ELSE [next EXCEPT !.pc = "send", !.out = k])
            /\ CountChild(k) /\ UNCHANGED store /\ NoFault
    /\ UNCHANGED chan /\ Others

SendChild(w) ==
    /\ worker[w].pc = "send"
    /\ \E ok \in BOOLEAN :
          IF ok THEN Sent(worker[w].out) /\ UNCHANGED accounts ELSE GivesUp /\ Uncount(worker[w].out)
    /\ Moves(w, [worker[w] EXCEPT !.pc = "kids", !.out = NoJob])
    /\ UNCHANGED store /\ NoFault /\ Others

(* The handler fails with attempts left: the retry is persisted, or, in    *)
(* memory, sent again after a sleep.  An error of RetryJob is only logged. *)
HandleRetryOffByOne(w) ==
    LET j == worker[w].job IN
    /\ worker[w].pc = "handle" /\ attempts[j] + 1 <= MaxAttempts
    /\ \/ durable /\ RetryJob(j) /\ NoFault /\ Moves(w, At("idle"))
       \/ ~ durable /\ attempts' = [attempts EXCEPT ![j] = @ + 1] /\ UNCHANGED <<row, due, dlq>>
          /\ NoFault /\ Moves(w, Busy("requeue", j, {}, j))
       \/ durable /\ UNCHANGED store /\ Fault /\ Moves(w, At("idle"))
    /\ UNCHANGED <<chan, accounts>> /\ Others
HandleRetry(w) ==
    LET j == worker[w].job IN
    /\ worker[w].pc = "handle" /\ attempts[j] + 1 < MaxAttempts
    /\ \/ durable /\ RetryJob(j) /\ NoFault /\ Moves(w, At("idle"))
       \/ ~ durable /\ attempts' = [attempts EXCEPT ![j] = @ + 1] /\ UNCHANGED <<row, due, dlq>>
          /\ NoFault /\ Moves(w, Busy("requeue", j, {}, j))
       \/ durable /\ UNCHANGED store /\ Fault /\ Moves(w, At("idle"))
    /\ UNCHANGED <<chan, accounts>> /\ Others

Requeue(w) ==
    /\ worker[w].pc = "requeue"
    /\ Sent(worker[w].out) \/ GivesUp
    /\ Moves(w, At("idle")) /\ UNCHANGED <<store, accounts>> /\ NoFault /\ Others

(* The last attempt fails: quarantine.                                     *)
HandleExhausted(w) ==
    LET j == worker[w].job IN
    /\ worker[w].pc = "handle" /\ attempts[j] + 1 >= MaxAttempts
    /\ Publish(j)
    /\ Moves(w, Busy("release", j, {}, NoJob))
    /\ UNCHANGED <<chan, accounts>> /\ Others

Finished(w) == worker[w].pc = "release" \/ (worker[w].pc = "kids" /\ worker[w].kids = {})

Release(w) ==
    /\ Finished(w) /\ Uncount(worker[w].job)
    /\ Moves(w, At("check")) /\ UNCHANGED <<store, chan>> /\ NoFault /\ Others

CheckDone(w) ==
    /\ worker[w].pc = "check" /\ done' = (done \/ inFlight = 0)
    /\ Moves(w, At("idle")) /\ UNCHANGED <<store, chan, inFlight, counted>> /\ NoFault /\ Others
-----------------------------------------------------------------------------
(* The poller: pollLoop and dispatchReady.                                 *)
PollerOnly == UNCHANGED <<durable, capacity, queue, stopping, worker, caller, todo, restarts>>

(* counted.LoadOrStore: a job this process knows stays counted once.       *)
CountAcquiredAlways(j) == Count(j)
CountAcquired(j) == IF j \in counted THEN UNCHANGED accounts ELSE Count(j)

(* A round of dispatchReady tests pollStop and then calls AcquireJob:      *)
(* Shutdown may begin in between.                                          *)
PollCheck ==
    /\ poller.pc = "idle" /\ ~ stopping
    /\ poller' = PollerAt("acquire")
    /\ UNCHANGED <<store, chan, accounts>> /\ NoFault /\ PollerOnly

PollAcquireUnclaimed(j) ==
    /\ poller.pc = "acquire" /\ Oldest(j)
    /\ CountAcquired(j)
    /\ poller' = [pc |-> "send", job |-> j] /\ UNCHANGED <<store, chan>> /\ NoFault /\ PollerOnly
PollAcquire(j) ==
    /\ poller.pc = "acquire" /\ AcquireJob(j)
    /\ CountAcquired(j)
    /\ poller' = [pc |-> "send", job |-> j] /\ UNCHANGED chan /\ NoFault /\ PollerOnly

(* No row is eligible, or AcquireJob failed.                               *)
PollNone ==
    /\ poller.pc = "acquire"
    /\ (Eligible(row) = {} /\ NoFault) \/ Fault
    /\ poller' = PollerAt("idle") /\ UNCHANGED <<store, chan, accounts>> /\ PollerOnly

PollSend ==
    /\ poller.pc = "send"
    /\ \E ok \in BOOLEAN : IF ok THEN Sent(poller.job) ELSE GivesUp
    /\ poller' = PollerAt("idle") /\ UNCHANGED <<store, accounts>> /\ NoFault /\ PollerOnly

PollExitOnDone ==
    /\ poller.pc = "idle" /\ done
    /\ poller' = PollerAt("exited") /\ UNCHANGED <<store, chan, accounts>> /\ NoFault /\ PollerOnly
PollExit ==
    /\ poller.pc = "idle" /\ (stopping \/ done)
    /\ poller' = PollerAt("exited") /\ UNCHANGED <<store, chan, accounts>> /\ NoFault /\ PollerOnly
-----------------------------------------------------------------------------
Due(j) ==
    /\ row[j] = "pending" /\ j \notin Range(due) /\ due' = Append(due, j)
    /\ UNCHANGED <<durable, row, attempts, dlq, chan, capacity, queue, accounts, stopping, worker,
                   poller, caller, todo, faults, restarts>>

ReclaimStuckJobs == [j \in Job |-> IF row[j] = "running" THEN "pending" ELSE row[j]]

(* What the loop of AcquireJob calls in queue.New has taken after n rows,  *)
(* oldest first.                                                           *)
Reloads(rows, n) ==
    {at \in [1 .. n -> Eligible(rows)] :
        /\ \A i, k \in 1 .. n : i < k => at[i] < at[k]
        /\ \A i \in Eligible(rows) \ Range(at), k \in 1 .. n : at[k] < i}

(* The process crashes and a new one runs the next chunk on the same       *)
(* store, or a process whose pool has drained goes on to its next chunk.   *)
(* queue.New returns running rows to pending and loads what is due into a  *)
(* channel that is large enough; an error of either is only logged.  A     *)
(* chunk whose Shutdown timed out has no successor in its process: the     *)
(* error goes through FetchRound and Select to the caller.                 *)
Restart(reclaims, n) ==
    LET rows == IF reclaims THEN ReclaimStuckJobs ELSE row IN
    /\ durable /\ restarts < MaxRestarts /\ restarts' = restarts + 1
    /\ Cardinality(Fresh(Seed)) >= ChunkSize
    /\ \E at \in Reloads(rows, n) :
          /\ IF reclaims /\ Range(at) = Eligible(rows) THEN NoFault ELSE Fault
          /\ chan' = [k \in 1 .. n |-> due[at[k]]]
    /\ row' = [j \in Job |-> IF j \in Range(chan') THEN "running" ELSE rows[j]]
    /\ capacity' = IF n > BufferSize THEN n ELSE BufferSize
    /\ inFlight' = n /\ counted' = {} /\ done' = FALSE
    /\ queue' = "open" /\ stopping' = FALSE
    /\ worker' = [w \in Worker |-> At("new")]
    /\ poller' = PollerAt("new") /\ caller' = CallerAt("submit") /\ todo' = ChunkSize
    /\ UNCHANGED <<durable, attempts, due, dlq>>

Handles(w) == (\E kids \in SUBSET Kid : HandleOK(w, kids)) \/ HandleRetry(w) \/ HandleExhausted(w)

Works(w) ==
    \/ Dequeue(w) \/ (\E j \in Job : DequeueAcquire(w, j)) \/ DequeueStale(w) \/ Exit(w)
    \/ (\E k \in Kid : SubmitChild(w, k)) \/ SendChild(w) \/ Requeue(w)
    \/ Release(w) \/ CheckDone(w)

Polls == PollCheck \/ (\E j \in Job : PollAcquire(j)) \/ PollNone \/ PollSend \/ PollExit

Calls == (\E j \in Seed : Submit(j)) \/ SubmitSend \/ Start

Next ==
    \/ Calls \/ SubmitError \/ Shutdown \/ Return \/ Close \/ Closed
    \/ \E w \in Worker : Works(w) \/ Handles(w)
    \/ Polls
    \/ \E j \in Job : Due(j)
    \/ \E reclaims \in BOOLEAN, n \in 0 .. Cardinality(Job) : Restart(reclaims, n)

Spec == Init /\ [][Next]_vars

(* Goroutines keep running, and time passes.  Handlers may hang, and the   *)
(* caller's context need never be cancelled.                               *)
Fairness ==
    /\ WF_vars(Calls) /\ WF_vars(Close) /\ WF_vars(Closed) /\ WF_vars(Polls)
    /\ WF_vars(done /\ Shutdown)
    /\ \A w \in Worker : WF_vars(Works(w))
    /\ \A j \in Job : WF_vars(Due(j))

FairSpec == Spec /\ Fairness
-----------------------------------------------------------------------------
(* Where a job is, besides its row.                                        *)
Places(j) ==
    ({"channel"} \X {i \in 1 .. Len(chan) : chan[i] = j})
    \cup ({"worker"} \X {w \in Worker : j \in {worker[w].job, worker[w].out}})
    \cup ({"poller"} \X ({poller.job} \cap {j}))

(* A job is delivered to one worker at a time: signals, the poller and the *)
(* startup reload all take rows through AcquireJob, and a retry goes back  *)
(* to pending only after the worker has let go of it.                      *)
OneHolder == \A j \in Job : Cardinality(Places(j)) <= 1

(* Nothing that inFlight counts is lost while no store call fails: a       *)
(* counted job is on its way to a worker or a pending row.  With a store   *)
(* this holds through shutdown, because the queue is closed only after the *)
(* poller has passed on what it acquired; without one, a retry that meets  *)
(* a closed queue is dropped.                                              *)
OutstandingHeld ==
    faults = 0 /\ (durable \/ ~ stopping) =>
        \A j \in counted : \/ Places(j) # {} \/ caller.job = j
                           \/ durable /\ row[j] = "pending"

Quiet == \A j \in Job : Places(j) = {} /\ row[j] \notin {"pending", "running"}

(* Done is closed only when nothing is left: children are counted before   *)
(* their parent is released, retries stay counted, and a poll counts a row *)
(* once, so that the gap between the decrement and the test in checkDone   *)
(* is harmless.  (In a first process only: a restarted one may acquire a   *)
(* row that it never counted, and subtracts it all the same.)              *)
DoneQuiescent ==
    done /\ ~ stopping /\ faults = 0 /\ restarts = 0 => Quiet

(* A job is quarantined exactly when it has used up its attempts, once,    *)
(* across retries, restarts and failed writes of the DLQ entry.            *)
Quarantine ==
    \A j \in Job :
        /\ dlq[j] = IF attempts[j] = MaxAttempts THEN 1 ELSE 0
        /\ durable => (row[j] = "dead_lettered" <=> dlq[j] = 1)

(* If handlers return, a chunk on a store that starts empty ends: every    *)
(* retry comes back through the poller and inFlight reaches zero, unless a *)
(* store call fails.                                                       *)
HandlersReturn == \A w \in Worker : WF_vars(Handles(w))
ChunkEnds ==
    HandlersReturn =>
        (durable /\ caller.pc = "wait" ~> caller.pc # "wait" \/ faults + restarts > 0)

(* If handlers return, Shutdown drains the durable pool, failed store      *)
(* calls or not: nobody waits for a full channel that nobody empties.      *)
ShutdownDrains ==
    HandlersReturn => (durable /\ stopping ~> Drained \/ ~ stopping)
=============================================================================
