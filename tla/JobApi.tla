------------------------------- MODULE JobApi -------------------------------
(***************************************************************************)
(* The calls of the job API that create public jobs or list them           *)
(* (internal/httpapi/jobs.go, and Submit, Retry, ReplayDLQ, List and       *)
(* ListDLQ of internal/store/postgres/service.go).                         *)
(*                                                                         *)
(* JobStore's Submit is the commit of a new row.  Here it is the end of a  *)
(* transaction that first tries to insert the idempotency key: the unique  *)
(* index makes a second inserter of the key wait for the first one's       *)
(* commit or rollback.  A response may be lost after the commit, and the   *)
(* client then sends the request again.  ReplayDLQ is taken apart in the   *)
(* same way: it locks the DLQ entry, and a second replay of the entry      *)
(* waits for the lock before it reads whether the entry was replayed.      *)
(*                                                                         *)
(* The listings are keyset-paginated, one query per page.  The column      *)
(* created_at is NOW(), the time at which the inserting transaction began, *)
(* so rows become visible in another order than they are listed in.        *)
(*                                                                         *)
(* Of a job's life, which JobStore details, only what these calls tell     *)
(* apart is kept: it may leave and re-enter the rows with a given status   *)
(* (pending, running), fail, and be dead-lettered.                         *)
(***************************************************************************)
EXTENDS Naturals, FiniteSets, Sequences

CONSTANTS
    Job,         \* ids NewJobID may give to public jobs
    Rank,        \* the order of the ids, which are random strings
    NoJob,       \* replayed_from_job_id, replayed_as_job_id is NULL
    Client,      \* callers of POST /api/jobs
    Replayer,    \* callers of POST /api/dlq/{id}/replay
    Pager,       \* callers that walk GET /api/jobs or GET /api/dlq
    Workers,     \* the worker processes, seen as one
    Population,  \* who may be at work together, and the keys in use
    Key,         \* values of the Idempotency-Key header
    NoKey,       \* no header: idempotency_key is NULL
    Body,        \* job type and payload, up to the JSON value they denote
    MaxAttempts, \* the upper bound on maxAttempts
    DefaultMax,  \* job.DefaultMaxAttempts
    Limit,       \* page sizes asked for
    MaxClock     \* bound: distinct values of NOW()

Attempt == 1 .. MaxAttempts

ASSUME RankAssumption ==
    /\ Rank \in [Job -> Nat]
    /\ \A q, r \in Job : Rank[q] = Rank[r] => q = r
ASSUME CallerAssumption ==
    /\ Client \cap Pager = {} /\ Replayer \cap (Client \cup Pager) = {}
    /\ Population \subseteq SUBSET (Client \cup Replayer \cup Pager \cup Key \cup {Workers})
ASSUME NoKeyAssumption == NoKey \notin Key
ASSUME NoJobAssumption == NoJob \notin Job
ASSUME AttemptAssumption == MaxAttempts \in Nat \ {0} /\ DefaultMax \in Attempt
ASSUME LimitAssumption == Limit \subseteq Nat \ {0}
ASSUME MaxClockAssumption == MaxClock \in Nat

VARIABLES
    status,    \* Job -> status, "none" before the row exists
    cols,      \* Job -> the columns that do not change after the insert
    replayed,  \* Job -> replayed_as_job_id of the job's DLQ entry
    clock,     \* NOW()
    call,      \* the POST /api/jobs that each client has under way
    replay,    \* the replay that each replayer has under way
    walk,      \* how far each pager is
    callers    \* who is at work, one of Population

vars == <<status, cols, replayed, clock, call, replay, walk, callers>>
-----------------------------------------------------------------------------
(* maxAttempts 0: the field is absent.                                     *)
Request == [body : Body, max : 0 .. MaxAttempts]
Hash == [body : Body, max : 0 .. MaxAttempts]

Effective(m) == IF m = 0 THEN DefaultMax ELSE m

(* submit fills in the default before it hashes the request.               *)
RequestHash(q) == [body |-> q.body, max |-> Effective(q.max)]

NoHash == <<>>
NoCols == [key |-> NoKey, hash |-> NoHash, at |-> 0, max |-> 0, from |-> NoJob]
IdleCall == [pc |-> "idle"]
IdleReplay == [pc |-> "idle"]
IdleWalk == [pc |-> "idle"]

Open == [pc : {"begun", "inserted"}, key : Key \cup {NoKey}, req : Request, at : 0 .. MaxClock]
Answered == [pc : {"answered"}, key : Key, req : Request,
             code : {202, 200, 409}, job : Job]

Replaying == [pc : {"begun", "locked"}, entry : Job, max : 0 .. MaxAttempts, at : 0 .. MaxClock]
Replied == [pc : {"answered"}, entry : Job, code : {202, 409}, job : Job \cup {NoJob}]

Filter == {"", "running", "failed"}
View == [list : {"jobs"}, filter : Filter] \cup [list : {"dlq"}, filter : {""}]
Walking == [pc : {"walking"}, view : View, limit : Limit, cursor : {<<>>} \cup (Nat \X Nat),
            pages : Seq(SUBSET Job), steady : SUBSET Job]
Walked == [pc : {"done"}, view : View, pages : Seq(SUBSET Job), missed : SUBSET Job]

ATypeOK ==
    /\ status \in [Job -> {"none", "pending", "running", "failed", "dead_lettered"}]
    /\ cols \in [Job -> [key : Key \cup {NoKey}, hash : Hash \cup {NoHash},
                         at : 0 .. clock, max : 0 .. MaxAttempts, from : Job \cup {NoJob}]]
    /\ replayed \in [Job -> Job \cup {NoJob}]
    /\ \A j \in Job : replayed[j] # NoJob => status[j] = "dead_lettered"
    /\ clock \in 0 .. MaxClock
    /\ call \in [Client -> {IdleCall} \cup Open \cup Answered]
    /\ replay \in [Replayer -> {IdleReplay} \cup Replaying \cup Replied]
    /\ walk \in [Pager -> {IdleWalk} \cup Walking \cup Walked]
    /\ callers \in Population

Init ==
    /\ status = [j \in Job |-> "none"]
    /\ cols = [j \in Job |-> NoCols]
    /\ replayed = [j \in Job |-> NoJob]
    /\ clock = 0
    /\ call = [c \in Client |-> IdleCall]
    /\ replay = [o \in Replayer |-> IdleReplay]
    /\ walk = [p \in Pager |-> IdleWalk]
    /\ callers \in Population
-----------------------------------------------------------------------------
Exists(j) == status[j] # "none"
Holders(k) == {j \in Job : Exists(j) /\ cols[j].key = k}

Goes(c, to) == call' = [call EXCEPT ![c] = to]

(* The client has its response; one without a key is not looked at again.  *)
Answers(c, code, j) ==
    Goes(c, IF call[c].key = NoKey THEN IdleCall
            ELSE [pc |-> "answered", key |-> call[c].key, req |-> call[c].req,
                  code |-> code, job |-> j])

(* A new row of the jobs table.                                            *)
Insert(j, row) ==
    /\ ~ Exists(j)
    /\ status' = [status EXCEPT ![j] = "pending"]
    /\ cols' = [cols EXCEPT ![j] = row]

(* POST /api/jobs: a valid request, and the BEGIN of Submit, which fixes   *)
(* the value of NOW() for the transaction.                                 *)
SubmitBegin(c, k, q) ==
    /\ call[c].pc \in {"idle", "answered"}
    /\ Goes(c, [pc |-> "begun", key |-> k, req |-> q, at |-> clock])
    /\ UNCHANGED <<status, cols, replayed, clock, replay, walk, callers>>

(* Another open transaction has inserted the key.                          *)
KeyLocked(c) ==
    \E d \in Client \ {c} : call[d].pc = "inserted" /\ call[d].key = call[c].key

(* INSERT ... ON CONFLICT (idempotency_key) DO NOTHING affects a row.      *)
SubmitInsertUnindexed(c) ==
    /\ call[c].pc = "begun"
    /\ call[c].key = NoKey \/ Holders(call[c].key) = {}
    /\ call' = [call EXCEPT ![c].pc = "inserted"]
    /\ UNCHANGED <<status, cols, replayed, clock, replay, walk, callers>>
SubmitInsert(c) ==
    /\ call[c].pc = "begun"
    /\ call[c].key = NoKey \/ (Holders(call[c].key) = {} /\ ~ KeyLocked(c))
    /\ call' = [call EXCEPT ![c].pc = "inserted"]
    /\ UNCHANGED <<status, cols, replayed, clock, replay, walk, callers>>

(* It affects none: the key's job is read and compared with the request.   *)
SubmitExisting(c) ==
    /\ call[c].pc = "begun" /\ call[c].key # NoKey
    /\ \E j \in Holders(call[c].key) :
          Answers(c, IF cols[j].hash = RequestHash(call[c].req) THEN 200 ELSE 409, j)
    /\ UNCHANGED <<status, cols, replayed, clock, replay, walk, callers>>

(* The commit; the client gets the response, or does not.  The hash is     *)
(* never read again in a row without a key.                                *)
SubmitCommit(c, j) ==
    /\ call[c].pc = "inserted"
    /\ Insert(j, [key |-> call[c].key, at |-> call[c].at, max |-> Effective(call[c].req.max),
                  from |-> NoJob,
                  hash |-> IF call[c].key = NoKey THEN NoHash ELSE RequestHash(call[c].req)])
    /\ Answers(c, 202, j) \/ Goes(c, IdleCall)
    /\ UNCHANGED <<replayed, clock, replay, walk, callers>>

(* A lost connection or a failed statement: 500, or no response at all.    *)
SubmitAbort(c) ==
    /\ call[c].pc \in {"begun", "inserted"} /\ Goes(c, IdleCall)
    /\ UNCHANGED <<status, cols, replayed, clock, replay, walk, callers>>

(* POST /api/jobs/{id}/retry reads the source and submits a copy without a *)
(* key, with the source's limit when none is given.                        *)
RetryOneMore(j, new, m) ==
    /\ status[j] \in {"failed", "dead_lettered"}
    /\ Insert(new, [NoCols EXCEPT !.at = clock, !.max = IF m = 0 THEN cols[j].max + 1 ELSE m])
    /\ UNCHANGED <<replayed, clock, call, replay, walk, callers>>
Retry(j, new, m) ==
    /\ status[j] \in {"failed", "dead_lettered"}
    /\ Insert(new, [NoCols EXCEPT !.at = clock, !.max = IF m = 0 THEN cols[j].max ELSE m])
    /\ UNCHANGED <<replayed, clock, call, replay, walk, callers>>

Replies(o, to) == replay' = [replay EXCEPT ![o] = to]

(* POST /api/dlq/{id}/replay: the BEGIN of ReplayDLQ.  An entry is named   *)
(* by its job.                                                             *)
ReplayBegin(o, j, m) ==
    /\ replay[o].pc \in {"idle", "answered"}
    /\ Replies(o, [pc |-> "begun", entry |-> j, max |-> m, at |-> clock])
    /\ UNCHANGED <<status, cols, replayed, clock, call, walk, callers>>

(* Another open transaction has the entry.                                 *)
EntryLocked(o) ==
    \E u \in Replayer \ {o} : replay[u].pc = "locked" /\ replay[u].entry = replay[o].entry

(* SELECT ... FOR UPDATE OF d: once the entry is free its latest committed *)
(* version is read.  There is none (404), it was replayed (409), or it is  *)
(* locked until the end of the transaction.                                *)
ReplayRead(o) ==
    LET j == replay[o].entry IN
    /\ replay[o].pc = "begun"
    /\ Replies(o, IF status[j] # "dead_lettered" THEN IdleReplay
                  ELSE IF replayed[j] # NoJob
                  THEN [pc |-> "answered", entry |-> j, code |-> 409, job |-> NoJob]
                  ELSE [replay[o] EXCEPT !.pc = "locked"])
    /\ UNCHANGED <<status, cols, replayed, clock, call, walk, callers>>

ReplayLock(o) == replay[o].pc = "begun" /\ ~ EntryLocked(o) /\ ReplayRead(o)

(* The inserts, the update of the entry and the commit; the client gets    *)
(* the response, or does not.                                              *)
ReplayCommit(o, new) ==
    LET j == replay[o].entry IN
    /\ replay[o].pc = "locked"
    /\ Insert(new, [key |-> NoKey, hash |-> NoHash, at |-> replay[o].at,
                    max |-> Effective(replay[o].max), from |-> j])
    /\ replayed' = [replayed EXCEPT ![j] = new]
    /\ \/ Replies(o, [pc |-> "answered", entry |-> j, code |-> 202, job |-> new])
       \/ Replies(o, IdleReplay)
    /\ UNCHANGED <<clock, call, walk, callers>>

ReplayAbort(o) ==
    /\ replay[o].pc \in {"begun", "locked"} /\ Replies(o, IdleReplay)
    /\ UNCHANGED <<status, cols, replayed, clock, call, walk, callers>>

(* The workers and the clock.                                              *)
Moves == {<<"pending", "running">>, <<"running", "pending">>,
          <<"running", "failed">>, <<"running", "dead_lettered">>}

Move(j) ==
    /\ \E to \in {"pending", "running", "failed", "dead_lettered"} :
          <<status[j], to>> \in Moves /\ status' = [status EXCEPT ![j] = to]
    /\ UNCHANGED <<cols, replayed, clock, call, replay, walk, callers>>

Tick ==
    /\ clock < MaxClock /\ clock' = clock + 1
    /\ UNCHANGED <<status, cols, replayed, call, replay, walk, callers>>
-----------------------------------------------------------------------------
(* The sort keys of the listings, compared as SQL compares rows: jobs by   *)
(* (created_at, id), DLQ entries by their serial number.  A serial number  *)
(* is drawn before the commit, so any order of entries is possible; ids    *)
(* are arbitrary as well, so an entry is numbered by its job's.            *)
SortKey(view, j) == IF view.list = "jobs" THEN <<cols[j].at, Rank[j]>> ELSE <<0, Rank[j]>>

LessEq(a, b) == a[1] < b[1] \/ (a[1] = b[1] /\ a[2] <= b[2])
Less(a, b) == a[1] < b[1] \/ (a[1] = b[1] /\ a[2] < b[2])

Listed(view) ==
    {j \in Job : /\ Exists(j)
                 /\ view.filter \in {"", status[j]}
                 /\ view.list = "dlq" => status[j] = "dead_lettered"}

(* The WHERE clause that the cursor adds.                                  *)
PastInclusive(view, cursor, R) ==
    {j \in R : cursor = <<>> \/ LessEq(SortKey(view, j), cursor)}
Past(view, cursor, R) ==
    {j \in R : cursor = <<>> \/ Less(SortKey(view, j), cursor)}

(* ORDER BY ... DESC LIMIT n, as a set.                                    *)
First(view, R, n) ==
    {j \in R : Cardinality({q \in R : Less(SortKey(view, j), SortKey(view, q))}) < n}

Last(view, R) == CHOOSE j \in R : \A q \in R : ~ Less(SortKey(view, q), SortKey(view, j))

(* The row whose key becomes the next cursor: Jobs[limit-1] of the         *)
(* limit + 1 rows that were fetched.                                       *)
CursorRow(view, fetched, n) == Last(view, First(view, fetched, n))

WalkBegin(p, view, n) ==
    /\ walk[p].pc = "idle"
    /\ walk' = [walk EXCEPT ![p] = [pc |-> "walking", view |-> view, limit |-> n,
                                    cursor |-> <<>>, pages |-> <<>>,
                                    steady |-> Listed(view)]]
    /\ UNCHANGED <<status, cols, replayed, clock, call, replay, callers>>

(* One GET /api/jobs or GET /api/dlq.  Three fields are not the program's: *)
(* `pages' has what was returned so far, `steady' the rows that every      *)
(* query of this walk could have returned, `missed' those of them that     *)
(* none returned.                                                          *)
PageRead(p) ==
    LET w == walk[p]
        fetched == First(w.view, Past(w.view, w.cursor, Listed(w.view)), w.limit + 1)
        more == Cardinality(fetched) > w.limit
        page == First(w.view, fetched, w.limit)
        pages == Append(w.pages, page)
        steady == w.steady \cap Listed(w.view) IN
    /\ w.pc = "walking"
    /\ walk' = [walk EXCEPT ![p] =
           IF more THEN [w EXCEPT !.pages = pages, !.steady = steady,
                                  !.cursor = SortKey(w.view, CursorRow(w.view, fetched, w.limit))]
           ELSE [pc |-> "done", view |-> w.view, pages |-> pages,
                 missed |-> steady \ UNION {pages[i] : i \in DOMAIN pages}]]
    /\ UNCHANGED <<status, cols, replayed, clock, call, replay, callers>>
-----------------------------------------------------------------------------
Next ==
    \/ \E c \in Client \cap callers :
          \/ \E k \in (Key \cap callers) \cup {NoKey}, q \in Request : SubmitBegin(c, k, q)
          \/ SubmitInsert(c) \/ SubmitExisting(c) \/ SubmitAbort(c)
          \/ \E j \in Job : SubmitCommit(c, j)
    \/ \E p \in Pager \cap callers :
          \/ \E view \in View, n \in Limit : WalkBegin(p, view, n)
          \/ PageRead(p)
    \/ \E o \in Replayer \cap callers :
          \/ \E j \in Job, m \in 0 .. MaxAttempts : ReplayBegin(o, j, m)
          \/ ReplayLock(o) \/ ReplayAbort(o)
          \/ \E new \in Job : ReplayCommit(o, new)
    \/ \E j, new \in Job, m \in 0 .. MaxAttempts : Retry(j, new, m)
    \/ Workers \in callers /\ \E j \in Job : Move(j)
    \/ Tick

Spec == Init /\ [][Next]_vars
-----------------------------------------------------------------------------
(* However requests with one key race, are rolled back, or are sent again  *)
(* because a response was lost: the key has one job; whoever is answered   *)
(* is pointed to that job; it is answered 409 exactly if the job is not    *)
(* the one asked for, and a request that spells out the default limit is   *)
(* the same as one that leaves it out (ADR, public submission).            *)
SubmitOnce ==
    /\ \A k \in Key : Cardinality(Holders(k)) <= 1
    /\ \A c \in Client : call[c].pc = "answered" /\ call[c].key # NoKey =>
          LET j == call[c].job  q == call[c].req IN
          /\ j \in Holders(call[c].key)
          /\ call[c].code = 409 <=>
                (cols[j].hash.body # q.body \/ cols[j].max # Effective(q.max))

(* However replays of one DLQ entry race, are rolled back, or are sent     *)
(* again because a response was lost, also when the entry's job was itself *)
(* a replay: the entry is replayed once, entry and replay name each other, *)
(* whoever is answered 202 is pointed to that replay, and 409 is answered  *)
(* only when there is one (ADR, replay; testing.md, "single replay").      *)
ReplayOnce ==
    /\ \A j, r \in Job : cols[r].from = j <=> replayed[j] = r
    /\ \A o \in Replayer : replay[o].pc = "answered" =>
          LET as == replayed[replay[o].entry] IN
          as # NoJob /\ (replay[o].code = 202 => as = replay[o].job)

(* A walk through a listing, page by page, while jobs are submitted, move  *)
(* in and out of the filter and are dead-lettered: no row is returned      *)
(* twice, the pages are in descending order up to the last one, and when   *)
(* the walk ends every row that each of its queries could have returned    *)
(* was returned by one (ADR, list jobs and list DLQ entries).              *)
PagesExact ==
    \A p \in Pager :
        LET w == walk[p] IN
        /\ w.pc \in {"walking", "done"} =>
              \A i, k \in DOMAIN w.pages : i < k =>
                  \A q \in w.pages[i], r \in w.pages[k] :
                      Less(SortKey(w.view, r), SortKey(w.view, q))
        /\ w.pc = "done" => w.missed = {}
=============================================================================
