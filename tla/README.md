# A TLA+ model of the dependency auditor and its job service

This directory models the parts of the repository that keep state and run
concurrently: the PostgreSQL job service, the worker processes and API that use
it, the in-process pool that fetches Go metadata, and the version selection that
the pool serves; and the one large pure algorithm, the resolution of Python
requirements. TLC checks them on small instances. TLAPS proves every safety property
of the runs but one, and the refinements, for every size; liveness and the meaning of
Python markers are model-checked only.

Paths are relative to the repository root, which is `src/` here. "The ADR" is
`docs/adr/0001-job-service-contracts.md`.

## 1. The system

A user submits a job to the API. Worker processes claim it from PostgreSQL, run
its handler and record the outcome. A `dependency_audit` job reads a manifest
and returns one child job per dependency; children return further children; the
root job *waits* until all of its descendants have ended, and then gets its own
verdict. Apart from that service, the `gomod` package selects the versions of a whole
Go module graph with `Select`, round by round, and its `QueueRoundFetcher`
fetches each round through a queue and worker pool inside the process,
optionally backed by a store. Neither of the two binaries calls it at this commit; its
tests do.

| Component | State | Operations | Where it is hard |
| --- | --- | --- | --- |
| Job store, `internal/store/postgres/service.go`, `db/migrations` | tables `jobs`, `job_attempts`, `job_events`, `job_results`, `dlq` | Submit, Claim, Heartbeat, Complete, Fail, ReclaimExpired, Cancel, Retry, ReplayDLQ | transactions at READ COMMITTED that decide from rows they have not locked; callers whose lease is gone |
| Worker service, `internal/worker/service.go`, `cmd/worker` | claim loops, the claim each holds, the process's drain state | claim loop, `process`, maintenance loop, SIGTERM drain | crash between commit and answer, heartbeat racing cancellation, drain deadline, deadlocks between transactions |
| Handlers, `internal/handlers`, `internal/auditor/service_handler.go`, `internal/worker/demo.go` | none | result with children, or a classified error | which errors are retried |
| Job API, `internal/httpapi/jobs.go`, with Submit, List and ListDLQ of the store | none (all state is the store's) | submit with an idempotency key, cancel, retry, replay, page through jobs and DLQ | two requests with one key or two replays of one entry, lost responses; rows that appear and move while a caller pages; cancels an audit while its jobs settle |
| Worker pool, `internal/worker/pool.go`, with `internal/gomod/queue.go` as its caller | `inFlight`, `counted`, `done`, goroutines | Submit, Start, Wait, Shutdown, worker and poll loops, `checkDone` | termination detection, shutdown order, a bounded channel |
| Dispatch queue and durable store, `internal/queue/queue.go`, `internal/store/postgres/postgres.go`, `internal/dlq/dlq.go` | the channel; rows and DLQ entries | Submit, Dequeue, DispatchAcquired, Close, startup reload; CreateJob, AcquireJob, CompleteJob, RetryJob, DeadLetterJob, ReclaimStuckJobs | rows taken by signals and by the poller; restart |
| Go version selection, `internal/gomod/selection.go` | metadata cache, load modes, selected versions | propagateLoadModes, computeSelected, a fetch round, buildSelection | a fixed point computed while its input arrives |
| Python resolution, `internal/pypi`, `internal/depfile/python.go` | none; the registry may change between two requests | parse and merge requirements, evaluate markers, list releases, resolve, fetch a release | an order with many special cases, a parser that evaluates as it reads, candidates that come out of a map |
| npm and Go clients, other manifest parsers, policy and report, dashboard | none, or one guarded map | HTTP, parsing, formatting | see section 8 |

How they interact: worker processes and the API share nothing but the store, and
each call is one transaction. A handler runs in a goroutine of the worker and
communicates by its single return value. `runChunk` shares the pool, the queue
and, in durable mode, the rows with the workers and the poller. `Select` calls the
fetcher synchronously. A Python audit is a chain of jobs: the handler of each fetches one
package and returns the dependencies of the release it found as children.

What makes each part correct:

- *store*: an attempt budget that no schedule exceeds; a lease exactly while a
  job runs; a history that agrees with the rows and is never rewritten; one DLQ
  entry per dead-lettered job; an audit verdict that is neither premature nor
  better than its descendants' outcomes, and that comes; terminal rows that stay;
- *worker service*: one holder per lease; work that is never silently abandoned; nothing
  taken for a cancellation that is not one; every job ends; a drain ends;
- *pool and queue*: one holder per job; nothing counted is lost; `Done` means
  that nothing is left; exhausted jobs are quarantined once; chunks and shutdowns end;
- *selection*: modes and build list depend on the metadata and not on the
  order of its arrival; the result is closed; the loop ends;
- *job API*: a key has one job, a DLQ entry one replay, and everyone is told the truth about it; a
  listing read page by page is complete and free of duplicates;
- *Python resolution*: versions, specifiers and markers mean what PEP 440 and
  PEP 508 say; merging loses nothing; the best release is chosen, whatever the order of
  the listing.

`PROJECT.json` lists the hazards behind these properties, each at its line.

## 2. The modules

| Module | Models | Builds on |
| --- | --- | --- |
| `JobStore` | the tables and every writing operation of `job.ServiceStore` | |
| `JobLifecycle` | the contract: states, transitions, attempt budget, audit verdicts | |
| `JobStoreRefinement` | the mapping from `JobStore` to `JobLifecycle` | EXTENDS `JobStore`, INSTANCE `JobLifecycle` |
| `JobStoreProofs` | theorems about the rows of `JobStore`: types, verdicts, budget, leases, terminal rows | EXTENDS `JobStore` |
| `JobHistoryProofs` | theorems about attempts, events, results and DLQ entries; the store implements the lifecycle | EXTENDS `JobStoreProofs`, `JobStoreRefinement` |
| `WorkerService` | worker processes and API running against the store | EXTENDS `JobStore` |
| `WorkerServiceProofs` | theorems about `WorkerService`, and that it implements the store and with it the lifecycle | EXTENDS `WorkerService`, `JobHistoryProofs` |
| `Pool` | pool, queue, durable store and the caller `runChunk` | |
| `PoolProofs` | theorems about `Pool` | EXTENDS `Pool` |
| `JobApi` | the API's calls that create public jobs or list them, statement by statement | |
| `JobApiProofs`, `JobPagesProofs` | theorems about submission and replay, and about listings and types | EXTENDS `JobApi` |
| `Selection` | `gomod.Select` over a round fetcher | |
| `SelectionProofs` | theorems about `Selection` | EXTENDS `Selection` |
| `PyPIVersion` | `version.go`: order, constraints, `ResolveVersion` | |
| `PyPIMarker` | the marker parser of `requirement.go` | EXTENDS `PyPIVersion` |
| `PyPIClient` | requirements, merging, the two requests to the registry, retries | EXTENDS `PyPIMarker`, INSTANCE `PEP440` |
| `PyPIEvaluation` | the parser's markers against their meaning | EXTENDS `PyPIClient`, INSTANCE `PEP508` |
| `PyPIProofs` | theorems about versions, clauses and `PyPIClient` | EXTENDS `PyPIClient` |
| `PEP440`, `PEP508` | reference definitions: sort keys, specifiers, the meaning of a marker | |
| `MCJobStore`, `MCWorkerService`, `MCJobApi`, `MCPool`, `MCSelection`, `MCPyPI` | instances: symmetry sets, sessions, callers, releases, requirements | |

### JobStore

A root job is a constant, a child is a pair of its root and a package: the
idempotency key of a child is the hash of exactly these two, so that a second
submission of the same package finds the first. A row keeps the columns that
decide something: status, attempts, limit, lease, cancellation, last error,
replay origin. The four lease columns are one token, which is written and cleared together in
the code; the UUID drawn per claim is represented by the attempt number, as
both are new with each claim. Time is two bits, `due` and `live`; `Due` and
`Expire` flip them at any moment.

*Atomicity.* An operation that waits for nothing after its first lock is one
action. Complete, Fail, ReclaimExpired and the Cancel of a waiting audit lock
rows, read others without locking them and write later, so they are two actions:
`...Begin` locks and reads, `CommitSettle` or `CommitCancel` writes and commits,
`Rollback` is everything that can go wrong in between. What a transaction sees
of other rows is what was committed when it read (`Seen`), and `Idle` is
the count that `finalizeRoot` takes. A second statement of the same transaction re-reads what is
committed at the time of the commit (`Finalized`, `RootTo`). For the order of reads and commits
of two sessions this is as fine as the code's own statements with one
exception: that the count and the first lock are one step means that a
commit between the two is seen by the count; the same interleaving is obtained by
beginning later. A Complete takes the idempotency keys of all its children at once, where
the code inserts them one by one in the order of a Go map; that two Completes may therefore
wait for each other is put back in `WorkerService` (`KeysCross`). ReplayDLQ is one step here, and
taken apart in `JobApi`.

*Callers.* `Settle` lets any session present any claim ever handed out, with
any outcome and any children of its audit. Whatever is shown of `JobStore` is
therefore shown of stale, duplicated and confused workers too.

### JobLifecycle and the refinement

`JobLifecycle` has no tables, leases or transactions: a job moves along the
edges of the ADR's transition table, within its budget, and a waiting audit
ends in one step with the verdict that its descendants' final states call for.
`ImplementsLifecycle` says that the store does just that, read off its
committed rows.

### WorkerService

A slot is a claim loop. It is idle, handling a claim, committing its outcome, or
exited. The reactions of `process` are actions: the handler's response
(`Respond`, any answer the handlers can give), the heartbeat tick
(`HeartbeatTick`, `CancelObserved`, `HeartbeatError`), the drain deadline
(`ShutdownDeadline`), and `LeaseLost` when the store refuses. An error of
Complete or Fail is only logged, so the claim is dropped (`SettleError`,
`SettleAbort`). `maintenanceLoop` is `Recover` and its commit or abort. Crash,
SIGTERM, failed calls, claims whose answer is lost and deadlock victims are
actions of their own; the first four are bounded by constants, the last happens
whenever two sessions wait for each other: an audit's Cancel and a job of the audit that is
settled (`DeadlockVictim`), or two jobs that submit the same two packages (`KeysCross`).
`ImplementsStore` checks that the composition uses the store only through its
operations, so that what holds of `JobStore` holds of the running service.

### Pool

One action is what a goroutine does between two points where it can block or be
interfered with. `durable` chooses the mode in `Init`, so each run covers both.
The channel carries acquired jobs and, in durable mode, empty jobs that only
signal that a row is waiting; a worker that receives a signal acquires the
*oldest due* row, not necessarily the one that sent it. The decrement of
`inFlight` (`Release`) and the test in `checkDone` (`CheckDone`) are two actions. So are the
poller's test of `pollStop` (`PollCheck`) and its AcquireJob (`PollAcquire`, `PollNone`): a shutdown may
begin in between, and the poller then still takes a row.
`Restart` is a crash followed by a new process on the same rows, or the next
chunk of the same process: `ReclaimStuckJobs`, then the reload (`Reloads`, the oldest rows in
order, all of them unless a call fails) into a channel at least as large as what is reloaded. Close is two actions, because it first
tells the senders to give up and then waits for them.

### Selection

The metadata of a coordinate is chosen when it is fetched, so one run covers all
module graphs of the bound and all the orders in which they are revealed. A pass of
`propagateLoadModes` is one action and is repeated while it changes something, as in the code;
within a pass the code promotes modes in coordinate order, so one of its passes can do the work
of several here, with the same fixed point. Versions are numbers in the order of `CompareVersions`.

A round ends with a result, a recorded failure, both or neither for each of its coordinates: a job
that uses up its attempts on errors that could be retried leaves no trace in the
collector. `Complete` is what `FetchRound` and `addFetchRound` ask before anything
enters the cache; an absent result would enter it as a module without requirements
(`ResultOf`). `served` is a history variable, the coordinates whose metadata the proxy
returned. How the jobs of a round get to their ends is `Pool`.

### JobApi

`JobStore` takes the submission of a public job for one step. `JobApi` takes it
apart: `SubmitBegin` (BEGIN, which also fixes what `NOW()` will be for
the transaction), `SubmitInsert` or `SubmitExisting` (the INSERT ... ON CONFLICT
that affects a row, or none), `SubmitCommit`, and `SubmitAbort` for whatever goes wrong in
between. The unique index is `KeyLocked`: a second inserter of a key waits for the first one's
commit or rollback. The commit may be followed by a response or by none, and then
the client does not know that there is a job; nothing stops it from sending the request
again. `submit` fills in the default of `maxAttempts` before it hashes a request, so
`RequestHash` does. Retry and ReplayDLQ insert rows without a key.

A replay is taken apart as well: `ReplayBegin`, `ReplayLock` (the SELECT ... FOR UPDATE of the
DLQ entry, which waits while another transaction has it, `EntryLocked`, and then reads whether
the entry was replayed), and `ReplayCommit` or `ReplayAbort`; again the response may be lost.

The listings are read with a keyset cursor, one query per page, by a caller that
asks for page after page (`WalkBegin`, `PageRead`) while rows are inserted and
change their status. Since `created_at` is the start of the inserting transaction, a row
can become visible behind a cursor that is already held. `steady` and `missed`
are history variables: which rows every query of the walk could have returned,
and which of them none did. `pages` keeps all pages, the last one included, also after the walk.

The rest of a job's life is `Move`, an abstraction of `JobStore`'s actions to
the states a listing filters by and a replay asks for.

### PyPIVersion, PyPIMarker, PyPIClient, PyPIEvaluation

A version is the record that `ParseVersion` returns, a constraint the set of its
clauses, a marker its sequence of tokens. `Compare`, `Matches`, `ResolveVersion`
and the parser are translated case by case. A record also tells
two spellings of one version apart (`spelling`), because `===` compares texts, and a
clause whether its text has a dot (`dotted`), which is what `~=` asks for. The parser knows a keyword by its
value alone, quoted or not, in any case (`EqualFold`). Candidates leave the map in any order and are sorted
unstably, so `ResolveVersion` is the set of the versions that it may return. The
references are written in the other style: `PEP440` compares sort keys, `PEP508` splits a
marker at its weakest connective. That is a recursive operator, so what compares the
parser with it, `MarkersExact`, is in a module of its own, `PyPIEvaluation`, which no proof
uses.

The state machine is one chain of an audit's jobs. The registry chooses its answers when
it is asked: the listing that a constraint is resolved against, an error, the
requirements of the release. `Fails` is `classifyServiceError`, `RetryFetch` the
retry of a transient failure. All requirements of one manifest or release are parsed
before any is used, so that one that is malformed fails them all, even if its marker is
false. `wanted` is a history variable: the constraints that the active requirements of a
package had before they were merged. `ResolveBest` judges the release chosen by these, and so the
chain from requirements by way of merging, parsing and listing to the release.

## 3. The runs

States are distinct states found by TLC.

| Run | Instance | Question | States |
| --- | --- | --- | --- |
| `job_store` | one audit, two packages, or two jobs, their retries and replays; two sessions, two attempts | the store's invariants, history, and refinement of the lifecycle | 414,441 |
| `submissions` | three jobs; two clients that share a key; or a client, the workers and a pager; or a client, the workers and two replayers | one job per key and true answers; one replay per entry; pages without gaps or duplicates | 654,579 |
| `worker_service` | two processes, two packages, a crash, a SIGTERM, a failed call, the API | who holds a lease; what may end as cancelled | 322,633 |
| `worker_liveness` | one process, one package, two attempts, the same failures | every job ends, a drain ends, the store is used as specified | 53,055 |
| `audits` | two processes, two packages, one attempt, a crash, the API | an audit ends with its children | 122,996 |
| `pool` | two workers, two chunks of two jobs, a restart, a failed call | one holder, nothing lost, quarantine once | 774,806 |
| `pool_liveness` | two workers, two jobs and a child, a failed call | `Done`, the end of a chunk, the end of a shutdown | 405,890 |
| `selection` | three modules of two versions, one requirement per go.mod, two for the root, any outcome of a round | fixed point, build list, graph, progress | 606,170 |
| `pypi` | fourteen releases, listings of up to three, 36 clauses, about 2,000 markers, CPython 3.12 on Linux | order, specifiers, resolution of merged requirements, markers against their references | 224,330 |

### Properties

`JobStore`:

- `AttemptBudget`, no schedule starts more attempts than the limit, although
  Claim does not look at it;
- `LeaseDiscipline`, a lease exactly on the running rows, of the latest attempt;
- `AttemptLedger`, `job_attempts` agrees with `jobs`: the fence against stale workers works;
- `DeadLetterOnce`, one entry per dead-lettered job, by whichever of three paths;
- `AuditOutcomeSound`, verdicts of audits are neither premature nor too good;
- `ResultsSound`, results belong to completed jobs, and a completed audit has its summary;
- `EventTrail`, each transition of a public job commits with its event;
- `TerminalIsFinal`, `HistoryImmutable`, what no step may do;
- `ImplementsLifecycle`, the refinement.

`JobApi`: `SubmitOnce`, `ReplayOnce`, `PagesExact`. `WorkerService`: `LeaseHolder`, `CancelledOnRequest`, `JobsSettle`,
`AuditsSettle`, `DrainEnds`, `ImplementsStore`. `Pool`: `OneHolder`, `OutstandingHeld`,
`DoneQuiescent`, `Quarantine`, `ChunkEnds`, `ShutdownDrains`. `Selection`:
`LoadModesExact`, `BuildListReachable`, `GraphSound`, `SelectionGrows`,
`RoundsAdvance`. `PyPIClient`: `CompareIsPEP440`, `SpecifiersArePEP440`,
`ResolveBest`. `PyPIEvaluation`: `MarkersExact`. Each is explained where it is
defined. For each there is a mutant in `PROJECT.json`, a plausible mistake in
the code that makes it fail.

Four properties state what the code does where it falls short of what one would wish, with
the exceptions in the formula:

- `AuditsSettle`, an audit does not wait for ever, unless one of its children was
  cancelled by itself (`ChildCancelled`: Cancel of a queued child does not
  call `finalizeRoot`) or its last children ended in overlapping transactions
  (`LastOverlap`, which is the finding of `stranded_root`: each of them has counted
  the other's child as active). A child that a lease recovery cancels is no
  exception, as ReclaimExpired calls `finalizeRoot`: its attempt has ended as
  `abandoned` and it has no `cancelled` event. Two packages in two processes, one of which may
  crash, make the last child end in either, or in a recovery; both exceptions occur.
- `SpecifiersArePEP440`, with three exceptions (`LongerThan`, `BelowDev`, `OneSegment`) that
  section 4 describes. All are reached in the run.
- `ResolveBest`, where `===` is combined with other clauses (`ArbitraryEqualityCombined`).
- `MarkersExact`, with three differences to PEP 508: keywords that are quoted or in upper case
  are read (`Proper`), `===` and some variables are rejected (`Unsupported`), and a wildcard is
  compared as a text (`HasWildcard`). The run has markers of each kind.

### Why the bounds are enough to be interesting

- Two children and two sessions are the least in which two settlements of
  one audit overlap, which is where `finalizeRoot` can go wrong. A cancel of the
  audit can overlap either. Two attempts give a retry, an exhausted budget and a stale
  claim that meets a newer one.
- In `job_store`, `RootsOrChildren` leaves out the states in which there are both two jobs and a
  child: the second job is there to be the retry or the replay of the first.
- Two replayers and three jobs give two replays of one entry at the same time, each of
  which can be rolled back or lose its response, and a replay of a replay. `ReplaysAtOnce` lets time
  stand still for them: only listings look at `created_at`.
- `worker_service` has one attempt per job so that two processes and two packages fit; the
  retries are in `worker_liveness`. No run reaches `KeysCross`, which needs two packages that run and
  two others that both submit; the theorems of `WorkerServiceProofs` include it.
- Two chunks and a restart leave rows of an earlier process, pending and
  running, for the later one; a buffer of two is filled by them.
- In `submissions`, two clients and a lost response are enough for
  every order of two transactions on one key and a resend of either; the third job
  keeps a retry or a replay possible. Two bodies tell equal requests from
  conflicting ones. A pager meets three rows in pages of one or two, so that it
  holds a cursor up to twice, and two values of `NOW()` give ties and rows that appear
  out of order. `Population` keeps the three questions apart: clients that race
  do not need a pager, replayers need a client's job that the workers dead-letter, and a pager
  needs one client and the workers, which move rows in and out of its filter. With one attempt the default limit and the explicit one are equal requests
  and there is no other; `SubmitOnce` is proved for every number.
- In `pypi`, the fourteen releases are chosen so that each rule of the order separates two of
  them: trailing zeros, post, local, alpha, rc, dev, dev of a post-release, dev of an
  alpha, an epoch, a second spelling of the alpha, and a name that is no version. At most one release of a listing is
  yanked, partly yanked or without files. Markers are all sequences of up to
  four words from two comparisons, parentheses and connectives, well-formed or not, longer
  nested ones, quoted and upper-case keywords in each position, and each kind of comparison once.
- Two versions of three modules let a module be superseded by what it requires,
  directly or through the third one, and pruning hide a requirement.

`MaxFaults`, `MaxCrashes`, `MaxTerms`, `MaxRestarts`, `MaxVersion` and
`MaxRequire` are bounds and named as such. Deadlock is not checked: the queue of
jobs ends, the caller returns, `Select` returns.

### Fairness

*Worker service* (`Fairness`). Weak fairness of loops and timers of a live
process: claim loop, heartbeat ticker, drain deadline, maintenance loop, exit.
Strong fairness of commits that may wait for a row lock, since PostgreSQL
queues the waiters of a lock. Weak fairness of deadlock detection and of
time. There is no fairness for handlers, SIGTERM, failures, or API users. A lease that a
live slot renews need not expire (`OrphanExpire`). `JobsSettle`
has two premises: handlers return, and a stopped process is started again
(`docker-compose.yml` has no restart policy, so that is an assumption about the
operator). `AuditsSettle` has the same two. `DrainEnds` has neither.

*Pool* (`Fairness`). Weak fairness of the caller, each worker, the poller and
Shutdown's goroutine, and of time. Handlers may hang; the two liveness properties
have their return as a premise, and are stated for the pool with a store.

## 4. Where the code and its documents disagree

Each of these is a run that TLC must find violated.

| Run | What the trace shows |
| --- | --- |
| `stranded_root` | The last two children of an audit end in overlapping transactions; each counts the other as still running; no one finalizes the root, which waits for ever. |
| `cancel_growth` | A job of an audit whose cancellation was requested completes and adds packages to it. |
| `heartbeat_cancel` | A heartbeat query that fails ends a healthy job as cancelled. |

Seen on the way and not made a run:

- after a restart a signal can acquire a row of the earlier process, which this one
  has not counted; finishing it takes `inFlight` to zero while a new job is pending,
  and `Done` is closed early (`DoneQuiescent` is checked without restarts);
- reloaded jobs can fill the channel, and `runChunk`, which submits before it
  starts the workers, then blocks (`ChunkEnds` is checked without restarts);

- a job that completes after a failed attempt keeps its `last_error` (the ADR, line
  171, says it has none);
- backoff is capped at 30 s (`backoff.go`), the ADR (line 284) says five minutes;
- children that are inserted, or cancelled along with their audit, get no event of their own, where
  the ADR (line 173) asks for one per transition; `EventTrail` is about public jobs;
- Cancel of a single queued child does not call `finalizeRoot`;
- a DLQ entry that was replayed is never replayed again (`service.go`, line 779), even if the replay has long
  ended; the ADR (line 451) rejects a second replay "when an active replay already exists", while
  `docs/testing.md` (line 25) speaks of a "single replay"; `ReplayOnce` states what the code does;
- a failing `Pool.Submit` decrements `inFlight` without `checkDone`, and a failing
  `RetryJob` leaves it above zero until the restart; `ChunkEnds` excludes failed calls for this reason;
- without a store, workers whose handlers return children can all wait for a full
  channel; the only handler that the pool is given, `metadataHandler`, returns none;
- `ReclaimStuckJobs` resets every running row of the table, including those that a
  worker of the job service holds, if both are pointed at one database;
- a wildcard or a `~=` that has more segments than a candidate is not
  padded with zeros: `==1.0.*` rejects the release `1`, which PEP 440 accepts
  (`LongerThan`);
- `<1.0.dev2` rejects `1.0.dev1`: the exclusion of prereleases looks at the prerelease part of
  the bound and not at its development part (`BelowDev`);
- `===` must be the only clause of a constraint, and merging joins it with the clauses of other requirements of the same
  package without looking; the package then fails permanently, when it is fetched and not when
  it is merged;
- `~=1.post1` and `~=1.a1`, with a single release segment, are accepted, `~=1post1` and `~=1-1` are not: `parseConstraint` looks for a dot in the
  text, and finds one there or not, while its error message (`version.go`, line 301) demands two
  segments, as PEP 440 does (`OneSegment`);
- `===` in a marker is read as two tokens and rejected, although `parseOperator` lists it (`requirement.go`,
  line 322), and so are `platform_machine`, `platform_release` and `platform_version`, which PEP 508 has;
- the marker parser takes a string for a keyword (`'or'`, `'and'`, `'in'`, `'not'`), and keywords in upper case, both of
  which PEP 508 rejects (`Proper`);
- `python_version == '3.*'` is a comparison of texts, and false, where PEP 508 compares versions (`HasWildcard`);
- a release that disappears between the two requests to PyPI is a 404 and a permanent
  failure, although a new listing would name another;
- `requestHash` decodes payloads into `float64`, so that two integers above 2^53 are one request;
- `Select` loads only versions that are selected at the end of a round: a
  version that is superseded within its first round is never loaded, so the
  build list can be lower than the one of the `go` command, which considers all
  reachable versions.

## 5. What is proved

| Theorem | Statement |
| --- | --- |
| *`JobStoreProofs`* | |
| `TypeCorrect` | `Spec => []TypeOK` |
| `AuditSound` | `Spec => []AuditOutcomeSound` |
| `BudgetKept` | `Spec => []AttemptBudget` |
| `LeaseKept` | `Spec => []LeaseDiscipline` |
| `TerminalKept` | `Spec => TerminalIsFinal` |
| *`JobHistoryProofs`* | |
| `LedgerKept` | `Spec => []AttemptLedger` |
| `DeadLetteredOnce` | `Spec => []DeadLetterOnce` |
| `ResultsKept` | `Spec => []ResultsSound` |
| `TrailKept` | `Spec => []EventTrail` |
| `HistoryKept` | `Spec => HistoryImmutable` |
| `StoreImplementsLifecycle` | `Spec => ImplementsLifecycle` |
| *`WorkerServiceProofs`* | |
| `WorkerTypeCorrect` | `WSpec => []WTypeOK` |
| `ServiceImplementsStore` | `WSpec => ImplementsStore` |
| `ServiceImplementsLifecycle` | `WSpec => ImplementsLifecycle` |
| `ServiceVerdictsSound` | `WSpec => [](AuditOutcomeSound /\ AttemptLedger /\ DeadLetterOnce)` |
| `LeaseHolderKept` | `WSpec => []LeaseHolder` |
| `CancelledOnRequestKept` | `WSpec => []CancelledOnRequest` |
| *`JobApiProofs`, `JobPagesProofs`* | |
| `SubmittedOnce` | `Spec => []SubmitOnce` |
| `ReplayedOnce` | `Spec => []ReplayOnce` |
| `PagesKept` | `Spec => []PagesExact` |
| `ApiTypeCorrect` | `Spec => []ATypeOK` |
| *`PoolProofs`* | |
| `PoolTypeCorrect` | `Spec => []PTypeOK` |
| `OneHolderKept` | `Spec => []OneHolder` |
| `QuarantineKept` | `Spec => []Quarantine` |
| `OutstandingKept` | `Spec => []OutstandingHeld` |
| `DoneKept` | `Spec => []DoneQuiescent` |
| *`SelectionProofs`* | |
| `SelectionTypeCorrect` | `Spec => []STypeOK` |
| `LoadModesKept` | `Spec => []LoadModesExact` |
| `BuildListKept` | `Spec => []BuildListReachable` |
| `GraphKept` | `Spec => []GraphSound` |
| `SelectionGrowsKept` | `Spec => SelectionGrows` |
| `RoundsAdvanceKept` | `Spec => RoundsAdvance` |
| *`PyPIProofs`* | |
| `CompareIs` | for any two versions, `Compare` is -1, 0 or 1 as their PEP 440 sort keys are ordered |
| `MatchesIs` | for any version and clause that parses, `Matches` is PEP 440's, but for the three cases |
| `ComparePEP440` | `PSpec => []CompareIsPEP440` |
| `ClausesPEP440` | `PSpec => []SpecifiersArePEP440` |
| `BestResolved` | `PSpec => []ResolveBest` |

*Assumptions.* Only those that the modules state for their constants, which every run
evaluates: limits and sizes are positive numbers, bounds are numbers, NULL and
the empty job are no ids, job ids are totally ordered, the kinds of ids and of sessions are disjoint, and a chunk
fits the channel. Of the registry: releases other than the legacy ones are records as `ParseVersion` returns
them, and a listing, a manifest and a constraint are finite (the first two are read from one response or file,
the third from one line). No other set has to be finite; where a proof counts, it shows that what it counts is
finite (the rows of a listing, the counted jobs of a pool).

### The job store

*The invariant* is `StoreInv == AuditInv /\ RowsOK`. `AuditOutcomeSound` is not
inductive: a transaction that has counted no active descendant will finalize the
root later, when the count may be stale. What makes it true is spread over the parts
of `AuditInv`:

- `TxFacts`, what an open transaction may rely on: the rows it settles are still
  running at the attempt it presented, those of a Cancel are still waiting or
  queued, and only a Complete inserts children, in the family of its row;
- `LocksExclusive`, two sessions never hold one row, nor insert one key;
- `FamilyOrder`, children exist only when their root has stopped running, so that a
  root and a descendant never settle concurrently;
- `IdleSound`, a count of zero remains true until its transaction ends. The
  count includes the transaction's own writes; any other transaction that could add a
  descendant, or requeue one, would hold a running row of the same audit, and
  the count would not have been zero.

`RowsOK` says of each row that its attempts are within the limit, below it when queued, and that
the lease is that of the latest attempt. It needs `TxFacts` (Fail compares the presented claim
with the limit, and only the fence makes that the current attempt), and
`AuditInv` needs `LeaseDiscipline` for the same reason, so the two are
proved together (`StoreInvariant`).

*The argument.* `AuditStep` has one case per operation. Heartbeats and time change
no deciding column (`QuietStep`); Submit, Claim, Cancel of one row and ReplayDLQ
change one row that nobody has locked (`OneRowStep`); `BeginStep` and
`RollbackStep` change only transactions, with `IdleRead` for the count; the
two commits are `CommitSettleStep` and `CommitCancelStep`, which rest on
`CommitEffect` and `CancelEffect`, the change of every row. `TerminalStep` reads
the action property off the same effects.

*History and refinement.* `Edges` says what one step may do to one job in all the tables at
once: it stays, appears, starts, stops, is withdrawn or, for an audit, finishes
with the verdict of its descendants. Everything about history, and the refinement,
follows from the edges job by job. Two strengthenings are needed: a row that does
not exist has no attempts and no origin (`Blank`; otherwise a claim could find a used number), and
an audit waits at most once (`WaitedOnce`; otherwise a `waiting` event would not
tell that a completed audit had children, on which `ResultsSound` depends).
For the refinement each edge is a step of `JobLifecycle`, and one step of the store may
take many edges at once (an audit ends with its cancelled packages).

### The worker service

`StoreCalls` shows that each action is a step of the store or leaves the store alone, which is
`ServiceImplementsStore`; every theorem about the store is thereby one about the service. `LeaseHolder` is a
property of the slots and not inductive without `HolderInv`: a claim that a slot
holds was handed out (`ClaimsReal`), no two slots hold the same one (`ClaimsApart`), a
slot that commits has a transaction of its own claim open (`CommitsOwn`), a process that is
down holds nothing (`DownIsEmpty`), and without failures each running job has its slot (`NoneAbandoned`).
`CancelInv` follows the kind of an error from the slot that observed it into the transaction
that will write it.

### The API

*Submission.* `SubmitOnce` speaks of committed rows and answers; whether it stays true
depends on what open transactions are about to commit. `SubmitInv` adds `KeyReserved`, the
meaning of the unique index between INSERT and COMMIT (no row and no other open
transaction has the key), and `HashOfRow`, that the hash of a row agrees with its columns,
so that equal hashes are equal requests. `KeyUnique` and `AllTold` are `SubmitOnce` without
cardinalities. The steps are grouped by what they change: one client's call and no row
(`CallStep`, for BEGIN, INSERT, the answer from an existing row and an abort), a row without
a key (`KeylessInsert`, for Retry and the commit of a replay), statuses and time
(`RowsKept`), and the commit (`CommitStep`).

*Replay.* `ReplayInv`: entries and replays name each other (`Linked`), a row that does not exist has no
origin (`BlankRows`), and an entry that a transaction has locked is that of a dead-lettered job, not replayed, and
locked by no other (`EntryHeld`), which is what makes the check of line 779 still true at the commit;
`Truthful` is the half about answers. `ReplayCommitStep` is the step in which all of them meet.

*Listings.* `WalkInv` says of a walk that no page has a row beyond the cursor (`NotPast`), that each
steady row is on a page or beyond the cursor (`Covered`), and that pages descend; when a walk ends, its last
page descends from those before as well (`NextDescends`, `EndedOK`). A page is a
finite upper part of the remaining rows; that it has a last row, the next cursor, is
`MaximalExists`. `RestInv` is what the type invariant needs besides.

### The pool

`PoolInv` is the type invariant with

- `Shapes`, what a worker's record holds by what it is doing;
- `Phase`, the order of a chunk: nothing runs before Start, and the queue is not closed
  while the poller could send, so that what it acquired always reaches the channel;
- `Apart`, a job is in one place; `Rowed`, its row is `running` while anyone may still handle
  it, so that AcquireJob, which takes pending rows, never takes it a second time; `DueOnce`;
- `KidsNew`, children still to be submitted are unknown to everyone else;
- `Tries`, a job that can still be handled has an attempt left, which makes `Quarantine` inductive.

`HeldInv` is `OutstandingHeld` without sets of places, with `CallerRow`: between CreateJob and the
signal the row is pending. `AccountInv` says that in a first process without faults
`inFlight` is the cardinality of `counted`, that `counted` covers everything under way, that
an outcome is in the row before the job is released (`Recorded`), and that once
Done is closed nothing is counted. The gap between decrement and test is harmless because
`counted` is a superset of what is under way at every step, and not only at the test.
There is one lemma per action for `PoolInv` (`...Step`) and one for the two others (`...Flow`);
those that move no job share `NothingMoves` and `NothingFlows`, those that count nothing new
`SameCount`.

### The selection

`SelectionInv`: the modes contain what the root forces (`Seeded`) and are within every closed set
(`Least`), each selected version is required by something loaded (`Supported`), everything fetched is on
a chain of requirements from the root (`Chained`), and outside the loop modes and selection are
computed (`Settled`), and what is in the cache was served (`Backed`). `RoundOutcome` splits a round by `Complete`: either
every coordinate has the result that was served for it, or Select fails. `Chained` is what makes `BuildListReachable` true although superseded
modules stay in the cache.

### The Python resolution

*The order.* `Compare` is a chain of comparisons, of which the first that is not zero decides; a
PEP 440 sort key has as many parts and is ordered lexicographically. So it is enough that
each comparison agrees with its part (`Agrees`: -1, 1 or 0 as the one part is before, after or
equal to the other), which is a lemma per part: `ReleaseAgrees` (segments padded
with zeros, against sequences stripped of them), `PreAgrees` (where a development release of
nothing but a release goes), `PostAgrees`, `DevAgrees` (missing last) and
`LocalAgrees` (pairs, against one flat sequence). `DecideCases` and `LexDecided` then give
`CompareIs`, and `LexTransitive` that the order is one.

*Clauses.* `MatchesIs` is a case for each operator. Its three hypotheses are the exceptions, and
each is needed in one case only: without them PEP 440 and the code differ.

*The chain of jobs.* `PInv` says that constraints are sets of clauses that
parse (`PTypes`), that the dependencies are what merging the requirements read gives
(`DepsRead`), that the constraint asked for has exactly the clauses of the active requirements
(`AskedWanted`, by `DemandsMerged`), and that the listing and the release of a job that ended are those of its
resolution (`ListingUsed`): a job that is tried again, or whose second request fails, must not keep an
older one, or `ResolveBest` would judge the wrong listing. `LatestExists` is what makes a failure mean that
nothing fits: among finitely many candidates one has the fewest after it,
and by transitivity none.

### Common arguments

*Maxima.* That a nonempty set of versions, or of rows, has a highest member is an induction;
`HighestExists` and `MaximalExists` get it from a minimal element of a well-founded order (`WFMin`), whose
statement has no operator parameter. `LeastExists` in `PyPIProofs` does the same for numbers; the first
difference of two sequences and the last segment that is not zero are such elements.

### Only model-checked

- Liveness: `JobsSettle`, `AuditsSettle`, `DrainEnds`, `ChunkEnds`, `ShutdownDrains`. The prover does
  not do fairness or ENABLED. For `Select`, `RoundsAdvanceKept` proves that each round makes progress;
  that there are finitely many coordinates is then all that its end needs.
- `MarkersExact`. The parser and the meaning of a marker are recursive over its tokens; that they agree on
  every marker is an induction over data, which is out of the prover's reach. `BestResolved` holds
  whatever value the parser computes.
- The three counterexamples of section 4.

## 6. Abstractions to keep in mind

- Claim's order (`scheduled_at, created_at, id`) is left open: any due row may be
  claimed. No property depends on the order, and `JobsSettle` holds without it.
- `job_events` keeps which types of event a job has, not how many or when.
- A child's Complete that inserts a new `audit_results` row also takes a share
  lock on the root; it only delays a Cancel, and whether it is taken depends
  on data. It is part of `WaitsFor`, which decides who can be a deadlock
  victim, and not of `LockedBy`.
- A deadlock is between two sessions. Longer cycles need a third transaction that locks in
  both orders, and only Cancel locks a root before its children.
- A handler's answer is any set of packages of its audit; what a registry says is not modelled.
- `Get` reads a job in seven queries outside a transaction. It reads the row first, and everything
  it reads later only grows or belongs to a final state (`HistoryImmutable`,
  `TerminalIsFinal`, `EventTrail`, `ResultsSound`), so that what it returns is no older than the row.
- A request's body is the JSON value that the hash sees; a DLQ entry is numbered by its job, as ids are in
  any order.
- A constraint is a set of clauses: the code joins them by commas and all must
  match. Numbers in versions have no width.
- `inFlight` in `Pool` is an integer, because the code lets it fall below zero.

## 7. Running it

    tlc -workers 2 -config MCJobStore.cfg MCJobStore
    for m in JobStore JobHistory WorkerService JobApi JobPages Pool Selection PyPI; do
      tlapm ${m}Proofs.tla
    done

`PROJECT.json` names the module and the configuration of each run.

## 8. Not modelled

- Registry, proxy and GitHub clients, `graph.go`, the parsers of `go.mod`, `package.json` and TOML: HTTP and text.
  What they can return is what the handlers of `WorkerService` and the registry of `PyPIClient` can answer.
- The texts of versions and markers (`ParseVersion`'s pattern, `tokenizeMarker`) and of licences.
- npm version ranges: a caret, a tilde and comparisons on three numbers.
- Report, policy and dashboard: no protocol state. `auditor/store.go` is a map under one mutex.
- Counts and metrics of the store; validation and decoding of requests, which reject without an effect.
- `audit_results` and `audit_relationships` beyond the locks their inserts take; the `workers` table.
- `Pool` and `JobStore` on one database, which no binary sets up.
- A second pool in a process whose first one's Shutdown timed out, with goroutines still running. The error of the
  first goes through `runChunk`, `FetchRound` and `Select` to the caller, and nothing in the repository
  calls `Select` again after one.

## 9. Plan

The order was: the store and its contract, since everything else relies on it;
the processes on top of it; the pool, and the selection it serves; then submission and
listings, and the Python resolution; then the proofs, from the store outwards. Next:

1. that `JobApi`'s submission implements the `Submit` of `JobStore`, as a refinement;
2. audit relationships and results, with the summary that `finalizeRoot` computes from them;
3. npm precedence, as `PyPIVersion` is done.
