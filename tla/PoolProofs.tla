----------------------------- MODULE PoolProofs -----------------------------
(* Theorems about Pool, for any number of jobs, workers, attempts, faults  *)
(* and restarts.                                                           *)
EXTENDS Pool, FiniteSetTheorems, SequenceTheorems, TLAPS

(* Where a job can be, besides its row.                                    *)
ChanHas(j) == \E i \in 1 .. Len(chan) : chan[i] = j
ChanOnce(j) == \A i, k \in 1 .. Len(chan) : chan[i] = j /\ chan[k] = j => i = k
DueHas(j) == \E i \in 1 .. Len(due) : due[i] = j
With(w, j) == worker[w].job = j \/ worker[w].out = j
Handling(w, j) == worker[w].pc = "handle" /\ worker[w].job = j
Nowhere(j) == ~ ChanHas(j) /\ poller.job # j /\ \A w \in Worker : ~ With(w, j)

(* What the fields of a worker's record are, by what it is doing.          *)
Shape(v) ==
    /\ v.pc \in {"new", "idle", "acquire", "check", "exited"} =>
          v.job = NoJob /\ v.kids = {} /\ v.out = NoJob
    /\ v.pc \in {"handle", "kids", "release", "send", "requeue"} => v.job \in Job
    /\ v.pc \in {"handle", "release", "requeue"} => v.kids = {}
    /\ v.pc \in {"handle", "kids", "release"} => v.out = NoJob
    /\ v.pc = "send" => v.out \in Kid /\ v.out # v.job /\ ~ durable
    /\ v.pc = "requeue" => v.out = v.job /\ ~ durable
Shapes == \A w \in Worker : Shape(worker[w])

(* The order of a chunk: nothing runs before Start, and the queue is not   *)
(* closed while the poller could send.                                     *)
Phase ==
    /\ poller.pc = "send" => poller.job \in Job
    /\ poller.pc # "send" => poller.job = NoJob
    /\ poller.pc \in {"idle", "acquire", "send"} => queue = "open" /\ durable
    /\ caller.pc = "send" => caller.job \in Seed /\ todo > 0
    /\ caller.pc # "send" => caller.job = NoJob
    /\ caller.pc \in {"submit", "send"} =>
          /\ \A w \in Worker : worker[w] = At("new")
          /\ poller.pc = "new" /\ ~ stopping /\ queue = "open" /\ ~ done
    /\ queue # "open" => stopping \/ (durable /\ faults > 0)

(* A job is in one place at a time.                                        *)
Apart(j) ==
    /\ ChanOnce(j)
    /\ ChanHas(j) => poller.job # j /\ \A w \in Worker : ~ With(w, j)
    /\ poller.job = j => \A w \in Worker : ~ With(w, j)
    /\ \A w, x \in Worker : With(w, j) /\ With(x, j) => w = x
    /\ ~ durable /\ caller.job = j => Nowhere(j)

(* The row of a job that someone has.                                      *)
Rowed(j) ==
    /\ durable /\ (ChanHas(j) \/ poller.job = j \/ \E w \in Worker : Handling(w, j)) =>
          row[j] = "running"
    /\ durable /\ (\E w \in Worker : With(w, j)) => row[j] \notin {"none", "pending"}
    /\ ~ durable => row[j] = "none"
    /\ DueHas(j) => row[j] \in {"pending", "running"}

(* No row is listed twice.                                                 *)
DueOnce == \A i, k \in 1 .. Len(due) : due[i] = due[k] => i = k

(* Children that are still to be submitted are as good as new.             *)
KidNew(w, k) ==
    /\ row[k] = "none" /\ attempts[k] = 0 /\ dlq[k] = 0 /\ k \notin counted /\ Nowhere(k)
    /\ \A x \in Worker : k \in worker[x].kids => x = w
KidsNew == \A w \in Worker : \A k \in worker[w].kids : KidNew(w, k)

(* A job that can still be handled has an attempt left.                    *)
Tries(j) ==
    /\ \/ ChanHas(j) \/ poller.job = j \/ caller.job = j
       \/ \E w \in Worker : Handling(w, j) \/ worker[w].out = j
       => attempts[j] < MaxAttempts
    /\ durable /\ row[j] \in {"none", "pending", "running"} => attempts[j] < MaxAttempts
    /\ dlq[j] = IF attempts[j] = MaxAttempts THEN 1 ELSE 0
    /\ durable => (row[j] = "dead_lettered" <=> dlq[j] = 1)

PoolInv ==
    /\ PTypeOK /\ Shapes /\ Phase /\ DueOnce /\ KidsNew
    /\ \A j \in Job : Apart(j) /\ Rowed(j) /\ Tries(j)

(* Nothing counted is lost; what the caller is submitting has its row.     *)
Calm == faults = 0 /\ (durable \/ ~ stopping)
Held(j) == ~ Nowhere(j) \/ caller.job = j \/ (durable /\ row[j] = "pending")
CallerRow == \A j \in Job : durable /\ caller.job = j => row[j] = "pending"
HeldInv == CallerRow /\ (Calm => \A j \in counted : Held(j))

(* In a first process without faults, inFlight counts exactly what is      *)
(* under way, and the outcome of a job is recorded before it is released.  *)
First == faults = 0 /\ ~ stopping /\ restarts = 0
Underway(j) == ~ Nowhere(j) \/ row[j] \in {"pending", "running"} \/ caller.job = j
Recorded(w) ==
    durable /\ worker[w].pc \in {"kids", "release"} => row[worker[w].job] # "running"
AccountInv ==
    First => /\ IsFiniteSet(counted) /\ inFlight = Cardinality(counted)
             /\ \A j \in Job : Underway(j) => j \in counted
             /\ \A w \in Worker : Recorded(w)
             /\ done => counted = {}

FlowInv == PoolInv /\ HeldInv /\ AccountInv
-----------------------------------------------------------------------------
(* A send on the channel, as jobs see it.                                  *)
LEMMA ChanAppend ==
    ASSUME PTypeOK, NEW x \in Job \cup {NoJob}, chan' = Append(chan, x)
    PROVE  /\ chan' \in Seq(Job \cup {NoJob}) /\ Len(chan') = Len(chan) + 1
           /\ \A j \in Job : ChanHas(j)' <=> ChanHas(j) \/ j = x
           /\ \A j \in Job : ChanOnce(j) /\ (j = x => ~ ChanHas(j)) => ChanOnce(j)'
<1>1. chan \in Seq(Job \cup {NoJob}) /\ Len(chan) \in Nat
  BY DEF PTypeOK
<1>2. /\ chan' \in Seq(Job \cup {NoJob}) /\ Len(chan') = Len(chan) + 1
      /\ \A i \in 1 .. Len(chan) : chan'[i] = chan[i]
      /\ chan'[Len(chan) + 1] = x
  BY <1>1
<1>3. \A i \in 1 .. Len(chan') : i \in 1 .. Len(chan) \/ i = Len(chan) + 1
  BY <1>1, <1>2
<1>4. 1 .. Len(chan) \subseteq 1 .. Len(chan') /\ Len(chan) + 1 \in 1 .. Len(chan')
  BY <1>1, <1>2
<1>5. \A j \in Job : ChanHas(j)' <=> ChanHas(j) \/ j = x
  BY <1>2, <1>3, <1>4 DEF ChanHas
<1>6. ASSUME NEW j \in Job, ChanOnce(j), j = x => ~ ChanHas(j) PROVE ChanOnce(j)'
  BY <1>2, <1>3, <1>6 DEF ChanOnce, ChanHas
<1> QED BY <1>2, <1>5, <1>6

(* A receive from the channel.                                             *)
LEMMA ChanTail ==
    ASSUME PTypeOK, chan # <<>>, chan' = Tail(chan)
    PROVE  /\ chan' \in Seq(Job \cup {NoJob}) /\ Len(chan') <= Len(chan)
           /\ Head(chan) \in Job \cup {NoJob} /\ ChanHas(Head(chan))
           /\ \A j \in Job : ChanHas(j)' => ChanHas(j)
           /\ \A j \in Job : ChanHas(j) /\ j # Head(chan) => ChanHas(j)'
           /\ \A j \in Job : ChanOnce(j) => ChanOnce(j)' /\ (j = Head(chan) => ~ ChanHas(j)')
<1>1. chan \in Seq(Job \cup {NoJob}) /\ Len(chan) \in Nat \ {0}
  BY DEF PTypeOK
<1>2. /\ chan' \in Seq(Job \cup {NoJob}) /\ Len(chan') = Len(chan) - 1
      /\ \A i \in 1 .. Len(chan') : chan'[i] = chan[i + 1]
      /\ Head(chan) = chan[1] /\ Head(chan) \in Job \cup {NoJob}
  BY <1>1
<1>3. /\ \A i \in 1 .. Len(chan') : i + 1 \in 1 .. Len(chan) /\ i + 1 # 1
      /\ \A i \in 1 .. Len(chan) : i = 1 \/ (i - 1 \in 1 .. Len(chan') /\ i = (i - 1) + 1)
      /\ 1 \in 1 .. Len(chan)
  BY <1>1, <1>2
<1>4. ASSUME NEW j \in Job PROVE ChanHas(j)' => ChanHas(j)
  BY <1>2, <1>3 DEF ChanHas
<1>5. ASSUME NEW j \in Job, ChanHas(j), j # Head(chan) PROVE ChanHas(j)'
  <2>1. PICK i \in 1 .. Len(chan) : chan[i] = j
    BY <1>5 DEF ChanHas
  <2>2. i - 1 \in 1 .. Len(chan') /\ chan'[i - 1] = j
    BY <1>2, <1>3, <1>5, <2>1
  <2> QED BY <2>2 DEF ChanHas
<1>6. ASSUME NEW j \in Job, ChanOnce(j) PROVE ChanOnce(j)' /\ (j = Head(chan) => ~ ChanHas(j)')
  <2>1. \A i, k \in 1 .. Len(chan') : chan'[i] = j /\ chan'[k] = j => i + 1 = k + 1
    BY <1>2, <1>3, <1>6 DEF ChanOnce
  <2>2. \A i, k \in 1 .. Len(chan') : i + 1 = k + 1 => i = k
    BY <1>2
  <2>3. j = Head(chan) => ~ ChanHas(j)'
    BY <1>2, <1>3, <1>6 DEF ChanOnce, ChanHas
  <2> QED BY <2>1, <2>2, <2>3 DEF ChanOnce
<1>7. ChanHas(Head(chan))
  BY <1>2, <1>3 DEF ChanHas
<1> QED BY <1>1, <1>2, <1>4, <1>5, <1>6, <1>7

(* A row becomes due.                                                      *)
LEMMA DueAppend ==
    ASSUME PTypeOK, DueOnce, NEW x \in Job, ~ DueHas(x), due' = Append(due, x)
    PROVE  /\ due' \in Seq(Job) /\ DueOnce'
           /\ \A j \in Job : DueHas(j)' <=> DueHas(j) \/ j = x
<1>1. due \in Seq(Job) /\ Len(due) \in Nat
  BY DEF PTypeOK
<1>2. /\ due' \in Seq(Job) /\ Len(due') = Len(due) + 1
      /\ \A i \in 1 .. Len(due) : due'[i] = due[i]
      /\ due'[Len(due) + 1] = x
  BY <1>1
<1>3. \A i \in 1 .. Len(due') : i \in 1 .. Len(due) \/ i = Len(due) + 1
  BY <1>1, <1>2
<1>4. 1 .. Len(due) \subseteq 1 .. Len(due') /\ Len(due) + 1 \in 1 .. Len(due')
  BY <1>1, <1>2
<1>5. DueOnce'
  BY <1>2, <1>3 DEF DueOnce, DueHas
<1> QED BY <1>2, <1>3, <1>4, <1>5 DEF DueHas

(* A row that is taken off the list is not on it any more.                 *)
LEMMA DueRemove ==
    ASSUME PTypeOK, DueOnce, NEW x \in Job, due' = RemoveFirst(due, x)
    PROVE  /\ due' \in Seq(Job) /\ DueOnce'
           /\ \A j \in Job : DueHas(j)' => DueHas(j) /\ j # x
<1>1. due \in Seq(Job) /\ Len(due) \in Nat /\ \A i \in 1 .. Len(due) : due[i] \in Job
  BY DEF PTypeOK
<1>2. CASE DueHas(x)
  <2>1. PICK n \in 1 .. Len(due) : due[n] = x
    BY <1>2 DEF DueHas
  <2>2. {i \in 1 .. Len(due) : due[i] = x} = {n}
    BY <2>1 DEF DueOnce
  <2>3. Min({n}) = n
    BY <1>1, <2>1 DEF Min
  <2>4. due' = RemoveAt(due, n)
    BY <1>2, <2>2, <2>3 DEF RemoveFirst, SelectInSeq, DueHas
  <2> DEFINE a == SubSeq(due, 1, n - 1)  b == SubSeq(due, n + 1, Len(due))
  <2>5. /\ a \in Seq(Job) /\ Len(a) = n - 1 /\ \A i \in 1 .. n - 1 : a[i] = due[i]
    <3>1. \A i \in 1 .. n - 1 : due[i] \in Job
      BY <1>1
    <3> QED BY <1>1, <3>1, SubSeqProperties
  <2>6. /\ b \in Seq(Job) /\ Len(b) = Len(due) - n
        /\ \A i \in 1 .. Len(due) - n : b[i] = due[n + i]
    <3>1. \A i \in n + 1 .. Len(due) : due[i] \in Job
      BY <1>1
    <3>2. /\ b \in Seq(Job)
          /\ Len(b) = IF n + 1 <= Len(due) THEN Len(due) - (n + 1) + 1 ELSE 0
          /\ \A i \in 1 .. Len(due) - (n + 1) + 1 : b[i] = due[n + 1 + i - 1]
      BY <1>1, <3>1, SubSeqProperties
    <3> QED BY <1>1, <3>2
  <2>7. due' = a \o b
    BY <2>4 DEF RemoveAt
  <2> HIDE DEF a, b
  <2>8. /\ due' \in Seq(Job) /\ Len(due') = Len(due) - 1
        /\ \A i \in 1 .. Len(due') : due'[i] = IF i < n THEN due[i] ELSE due[i + 1]
    <3>0. Len(a) \in Nat /\ Len(b) \in Nat /\ Len(a) + Len(b) = Len(due) - 1 /\ n \in Nat
      BY <1>1, <2>5, <2>6
    <3>1. /\ a \o b \in Seq(Job) /\ Len(a \o b) = Len(a) + Len(b)
          /\ \A i \in 1 .. Len(a) + Len(b) : (a \o b)[i] = IF i <= Len(a) THEN a[i] ELSE b[i - Len(a)]
      <4>1. a \in Seq(Job) /\ b \in Seq(Job)
        BY <2>5, <2>6
      <4> QED BY <4>1, ConcatProperties
    <3>2. due' \in Seq(Job) /\ Len(due') = Len(due) - 1
      BY <2>7, <3>0, <3>1
    <3>3. ASSUME NEW i \in 1 .. Len(due') PROVE due'[i] = IF i < n THEN due[i] ELSE due[i + 1]
      <4>1. due'[i] = IF i <= n - 1 THEN a[i] ELSE b[i - (n - 1)]
        BY <2>5, <2>7, <3>0, <3>1, <3>2
      <4>2. CASE i < n
        BY <2>5, <3>0, <4>1, <4>2
      <4>3. CASE ~ (i < n)
        <5>1. i - (n - 1) \in 1 .. Len(due) - n /\ n + (i - (n - 1)) = i + 1 /\ ~ (i <= n - 1)
          BY <1>1, <3>0, <3>2, <4>3
        <5>2. due'[i] = b[i - (n - 1)]
          BY <4>1, <5>1
        <5>3. b[i - (n - 1)] = due[n + (i - (n - 1))]
          BY <2>6, <5>1
        <5> QED BY <4>3, <5>1, <5>2, <5>3
      <4> QED BY <4>2, <4>3
    <3> QED BY <3>2, <3>3
  <2>9. DueOnce'
    BY <1>1, <2>8 DEF DueOnce
  <2>10. ASSUME NEW j \in Job, DueHas(j)' PROVE DueHas(j) /\ j # x
    <3>1. PICK i \in 1 .. Len(due') : due'[i] = j
      BY <2>10 DEF DueHas
    <3>2. PICK k \in 1 .. Len(due) : due[k] = j /\ k # n
      BY <1>1, <2>8, <3>1
    <3> QED BY <2>1, <3>2 DEF DueHas, DueOnce
  <2> QED BY <2>8, <2>9, <2>10
<1>3. CASE ~ DueHas(x)
  <2>1. due' = due
    BY <1>3 DEF RemoveFirst, DueHas
  <2> QED BY <1>1, <1>3, <2>1 DEF DueHas, DueOnce
<1> QED BY <1>2, <1>3

(* A move of one worker.                                                   *)
LEMMA WorkerMoves ==
    ASSUME PTypeOK, NEW w \in Worker, NEW to, Moves(w, to)
    PROVE  worker'[w] = to /\ \A x \in Worker : x # w => worker'[x] = worker[x]
BY DEF PTypeOK, Moves

(* Jobs that Fresh gives are new.                                          *)
LEMMA FreshIsNew ==
    ASSUME PTypeOK, NEW S, NEW j \in Fresh(S)
    PROVE  /\ j \in S /\ row[j] = "none" /\ attempts[j] = 0 /\ dlq[j] = 0 /\ j \notin counted
           /\ Nowhere(j) /\ caller.job # j /\ \A w \in Worker : j \notin worker[w].kids
<1>1. /\ j \in S /\ row[j] = "none" /\ attempts[j] = 0 /\ dlq[j] = 0 /\ j \notin counted
      /\ j \notin InHand /\ j \notin Range(chan)
  BY DEF Fresh
<1>2. DOMAIN chan = 1 .. Len(chan)
  BY DEF PTypeOK
<1>3. ~ ChanHas(j)
  BY <1>1, <1>2 DEF ChanHas, Range
<1>4. j # poller.job /\ j # caller.job
  <2>1. poller.job \in InHand /\ caller.job \in InHand
    BY DEF InHand
  <2> QED BY <1>1, <2>1
<1>5. ASSUME NEW w \in Worker PROVE worker[w].job # j /\ worker[w].out # j /\ j \notin worker[w].kids
  <2>1. worker[w].job \in InHand /\ worker[w].out \in InHand
    BY DEF InHand
  <2>2. worker[w].kids \subseteq InHand
    BY DEF InHand
  <2> QED BY <1>1, <2>1, <2>2
<1> QED BY <1>1, <1>3, <1>4, <1>5 DEF Nowhere, With

WorkerRec ==
    [pc : {"new", "idle", "acquire", "handle", "kids", "send", "requeue", "release",
           "check", "exited"},
     job : Job \cup {NoJob}, kids : SUBSET Kid, out : Job \cup {NoJob}]

(* A worker's record.                                                      *)
LEMMA BusyType ==
    ASSUME NEW pc \in {"new", "idle", "acquire", "handle", "kids", "send", "requeue", "release",
                       "check", "exited"},
           NEW j \in Job \cup {NoJob}, NEW kids \in SUBSET Kid, NEW out \in Job \cup {NoJob}
    PROVE  /\ Busy(pc, j, kids, out) \in WorkerRec
           /\ Busy(pc, j, kids, out).pc = pc /\ Busy(pc, j, kids, out).job = j
           /\ Busy(pc, j, kids, out).kids = kids /\ Busy(pc, j, kids, out).out = out
BY DEF Busy, WorkerRec
(* The record of a worker without a job.                                   *)
LEMMA AtType ==
    ASSUME NEW pc \in {"new", "idle", "acquire", "check", "exited"}
    PROVE  /\ At(pc) \in WorkerRec /\ At(pc).pc = pc
           /\ At(pc).job = NoJob /\ At(pc).kids = {} /\ At(pc).out = NoJob
           /\ Shape(At(pc))
<1>1. /\ At(pc) \in WorkerRec /\ At(pc).pc = pc
      /\ At(pc).job = NoJob /\ At(pc).kids = {} /\ At(pc).out = NoJob
  BY BusyType DEF At
<1> QED BY <1>1 DEF Shape

(* The workers' types and shapes after a move of one.                      *)
LEMMA WorkerTyped ==
    ASSUME PTypeOK, Shapes, durable' = durable, NEW w \in Worker, NEW to \in WorkerRec, Shape(to),
           Moves(w, to)
    PROVE  worker' \in [Worker -> WorkerRec] /\ Shapes'
<1>1. worker \in [Worker -> WorkerRec]
  BY DEF PTypeOK, WorkerRec
<1>2. worker' \in [Worker -> WorkerRec]
  BY <1>1 DEF Moves
<1>3. \A x \in Worker : Shape(worker'[x])
  BY WorkerMoves DEF Shapes
<1>4. ASSUME NEW x \in Worker PROVE Shape(worker[x])'
  <2>1. Shape(worker'[x])
    BY <1>3
  <2> QED BY <2>1 DEF Shape
<1> QED BY <1>2, <1>4 DEF Shapes

(* The invariant holds when the caller starts.                             *)
LEMMA PoolInit == Init => PoolInv
<1> SUFFICES ASSUME Init PROVE PoolInv
  OBVIOUS
<1>1. PTypeOK
  <2>1. /\ row \in [Job -> Status] /\ attempts \in [Job -> 0 .. MaxAttempts] /\ dlq \in [Job -> Nat]
        /\ due \in Seq(Job)
    BY PoolAssumption DEF Init, Status
  <2>2. chan \in Seq(Job \cup {NoJob}) /\ capacity \in Nat /\ Len(chan) <= capacity
    BY PoolAssumption DEF Init
  <2>3. inFlight \in Int /\ counted \subseteq Job /\ faults \in 0 .. MaxFaults
        /\ restarts \in 0 .. MaxRestarts /\ todo \in 0 .. ChunkSize
    BY PoolAssumption DEF Init
  <2>4. worker \in [Worker -> WorkerRec]
    BY AtType DEF Init
  <2>5. /\ poller \in [pc : {"new", "idle", "acquire", "send", "exited"}, job : Job \cup {NoJob}]
        /\ caller \in [pc : {"submit", "send", "wait", "shutdown", "returned"}, job : Job \cup {NoJob}]
    BY DEF Init, PollerAt, CallerAt
  <2>6. durable \in BOOLEAN /\ done \in BOOLEAN /\ stopping \in BOOLEAN /\ queue \in {"open", "closing", "closed"}
    BY DEF Init
  <2> QED BY <2>1, <2>2, <2>3, <2>4, <2>5, <2>6 DEF PTypeOK, WorkerRec
<1>2. \A w \in Worker : worker[w] = At("new")
  BY DEF Init
<1>3. Shapes
  BY <1>2, AtType DEF Shapes
<1>4. /\ poller.pc = "new" /\ poller.job = NoJob /\ caller.pc = "submit" /\ caller.job = NoJob
  BY DEF Init, PollerAt, CallerAt
<1>5. Phase
  BY <1>2, <1>4 DEF Phase, Init
<1>6. \A j : ~ ChanHas(j) /\ ~ DueHas(j) /\ ChanOnce(j)
  BY DEF Init, ChanHas, DueHas, ChanOnce
<1>7. DueOnce
  BY DEF Init, DueOnce
<1>8. KidsNew
  BY <1>2, AtType DEF KidsNew
<1>9. \A w \in Worker, j \in Job : ~ With(w, j) /\ ~ Handling(w, j) /\ worker[w].out # j
  BY <1>2, AtType, PoolAssumption DEF With, Handling
<1>10. \A j \in Job : poller.job # j /\ caller.job # j
  BY <1>4, PoolAssumption
<1>11. \A j \in Job : Apart(j)
  BY <1>6, <1>9, <1>10 DEF Apart
<1>12. \A j \in Job : row[j] = "none" /\ attempts[j] = 0 /\ dlq[j] = 0
  BY DEF Init
<1>13. \A j \in Job : Rowed(j)
  BY <1>6, <1>9, <1>10, <1>12 DEF Rowed
<1>14. \A j \in Job : Tries(j)
  BY <1>6, <1>9, <1>10, <1>12, PoolAssumption DEF Tries
<1> QED BY <1>1, <1>3, <1>5, <1>7, <1>8, <1>11, <1>13, <1>14 DEF PoolInv

(* A step that moves no job: nobody's job changes, nor any row.            *)
LEMMA NothingMoves ==
    ASSUME PoolInv, UNCHANGED <<durable, row, attempts, dlq, chan, counted>>,
           poller'.job = poller.job, caller'.job = caller.job,
           \A w \in Worker :
               /\ worker'[w].job = worker[w].job /\ worker'[w].out = worker[w].out
               /\ worker'[w].kids = worker[w].kids
               /\ worker'[w].pc = "handle" => worker[w].pc = "handle",
           \A j \in Job : DueHas(j)' => DueHas(j) \/ row[j] = "pending"
    PROVE  KidsNew' /\ \A j \in Job : Apart(j)' /\ Rowed(j)' /\ Tries(j)'
<1>1. /\ \A j : ChanHas(j)' = ChanHas(j) /\ ChanOnce(j)' = ChanOnce(j)
      /\ \A w \in Worker : \A j : (With(w, j)' <=> With(w, j)) /\ (Handling(w, j)' => Handling(w, j))
      /\ \A j : Nowhere(j)' <=> Nowhere(j)
  BY DEF ChanHas, ChanOnce, With, Handling, Nowhere
<1>2. KidsNew'
  BY <1>1 DEF PoolInv, KidsNew, KidNew
<1>3. \A j \in Job : Apart(j)'
  BY <1>1 DEF PoolInv, Apart
<1>4. \A j \in Job : Rowed(j)'
  BY <1>1 DEF PoolInv, Rowed
<1>5. \A j \in Job : Tries(j)'
  BY <1>1 DEF PoolInv, Tries
<1> QED BY <1>2, <1>3, <1>4, <1>5

(* Start, Shutdown and Close, and the ways they end.                       *)
LEMMA CallerStep ==
    ASSUME PoolInv, Start \/ Shutdown \/ Close \/ Closed \/ Return \/ SubmitError
    PROVE  PoolInv'
<1>0. PTypeOK /\ Shapes /\ Phase /\ DueOnce
  BY DEF PoolInv
<1>1. /\ UNCHANGED <<durable, row, attempts, dlq, due, chan, capacity, counted, inFlight, done, restarts, todo>>
      /\ caller' = caller \/ caller' \in {CallerAt("wait"), CallerAt("shutdown"), CallerAt("returned")}
      /\ caller.pc # "send" \/ caller' = caller
      /\ poller' = poller \/ (poller' = PollerAt("idle") /\ Start /\ durable)
      /\ worker' = worker \/ (worker' = [w \in Worker |-> At("idle")] /\ Start)
      /\ queue' \in {"open", "closing", "closed"} /\ (stopping' = stopping \/ stopping' = TRUE)
      /\ faults' = faults \/ (faults < MaxFaults /\ faults' = faults + 1)
  BY <1>0 DEF Start, Shutdown, Close, Closed, Return, SubmitError, store, accounts, Fault, PTypeOK
<1>2. PTypeOK'
  <2>1. worker' \in [Worker -> WorkerRec]
    BY <1>0, <1>1, AtType DEF PTypeOK, WorkerRec
  <2>2. /\ poller' \in [pc : {"new", "idle", "acquire", "send", "exited"}, job : Job \cup {NoJob}]
        /\ caller' \in [pc : {"submit", "send", "wait", "shutdown", "returned"}, job : Job \cup {NoJob}]
    BY <1>0, <1>1 DEF PTypeOK, PollerAt, CallerAt
  <2>3. faults' \in 0 .. MaxFaults
    <3>1. faults \in 0 .. MaxFaults /\ MaxFaults \in Nat
      BY <1>0, PoolAssumption DEF PTypeOK
    <3> QED BY <1>1, <3>1
  <2>4. stopping' \in BOOLEAN
    BY <1>0, <1>1 DEF PTypeOK
  <2> QED BY <1>0, <1>1, <2>1, <2>2, <2>3, <2>4 DEF PTypeOK, WorkerRec
<1>3. Start => \A w \in Worker : worker[w] = At("new")
  BY <1>0 DEF Start, Phase
<1>4. ASSUME NEW w \in Worker
      PROVE  /\ worker'[w].job = worker[w].job /\ worker'[w].out = worker[w].out
             /\ worker'[w].kids = worker[w].kids
             /\ worker'[w].pc = "handle" => worker[w].pc = "handle"
             /\ Shape(worker'[w])
  BY <1>0, <1>1, <1>3, AtType DEF Shapes
<1>5. Shapes'
  BY <1>1, <1>4 DEF Shapes, Shape
<1>6. poller'.job = poller.job /\ caller'.job = caller.job
  BY <1>0, <1>1 DEF Phase, PollerAt, CallerAt, Start
<1>7. Phase'
  <2>1. CASE Start
    <3>1. /\ caller' = CallerAt("wait") /\ UNCHANGED <<queue, stopping, faults, done, durable>>
          /\ poller' = IF durable THEN PollerAt("idle") ELSE poller
          /\ poller.pc = "new" /\ poller.job = NoJob /\ queue = "open"
      BY <1>0, <2>1 DEF Start, Phase, accounts
    <3> QED BY <3>1, <1>0 DEF Phase, PollerAt, CallerAt
  <2>2. CASE Shutdown
    BY <1>0, <2>2 DEF Shutdown, Phase, CallerAt, store, accounts
  <2>3. CASE Close \/ Closed
    <3>1. stopping \/ (durable /\ faults > 0)
      BY <1>0, <2>3 DEF Close, Closed, Phase
    <3>2. caller.pc \notin {"submit", "send"}
      BY <1>0, <2>3 DEF Close, Closed, Phase
    <3>3. poller.pc \notin {"idle", "acquire", "send"}
      BY <1>0, <2>3 DEF Close, Closed, Phase
    <3>4. UNCHANGED <<poller, caller, stopping, faults, durable, worker, todo, done>>
      BY <2>3 DEF Close, Closed, accounts
    <3> QED BY <1>0, <3>1, <3>2, <3>3, <3>4 DEF Phase
  <2>4. CASE Return
    BY <1>0, <2>4 DEF Return, Phase, CallerAt, store, accounts
  <2>5. CASE SubmitError
    <3>1. /\ caller' = CallerAt("returned") /\ poller' = poller /\ poller.pc = "new" /\ poller.job = NoJob
          /\ durable' = TRUE /\ faults' = faults + 1 /\ faults \in Nat
      BY <1>0, <2>5, PoolAssumption DEF SubmitError, Phase, Fault, PTypeOK
    <3>2. faults' > 0
      BY <3>1
    <3> QED BY <3>1, <3>2 DEF Phase, CallerAt
  <2> QED BY <2>1, <2>2, <2>3, <2>4, <2>5
<1>8. DueOnce' /\ \A j \in Job : DueHas(j)' => DueHas(j)
  BY <1>0, <1>1 DEF DueOnce, DueHas
<1>9. KidsNew' /\ \A j \in Job : Apart(j)' /\ Rowed(j)' /\ Tries(j)'
  <2>1. UNCHANGED <<durable, row, attempts, dlq, chan, counted>>
    BY <1>1
  <2> QED BY <1>4, <1>6, <1>8, <2>1, NothingMoves
<1> QED BY <1>2, <1>5, <1>7, <1>8, <1>9 DEF PoolInv

(* The poller turns to the store, finds nothing there, or leaves.          *)
LEMMA PollMoveStep ==
    ASSUME PoolInv, PollCheck \/ PollNone \/ PollExit
    PROVE  PoolInv'
<1>0. PTypeOK /\ Shapes /\ Phase /\ DueOnce
  BY DEF PoolInv
<1>1. /\ UNCHANGED <<durable, row, attempts, dlq, due, chan, capacity, counted, inFlight, done, restarts, todo,
                     caller, worker, queue, stopping>>
      /\ faults' = faults \/ Fault
      /\ poller.pc \in {"idle", "acquire"} /\ poller' \in {PollerAt("idle"), PollerAt("acquire"), PollerAt("exited")}
  BY DEF PollCheck, PollNone, PollExit, NoFault, PollerOnly, store, accounts
<1>2. PTypeOK'
  <2>1. faults' \in 0 .. MaxFaults
    <3>1. faults \in 0 .. MaxFaults /\ MaxFaults \in Nat
      BY <1>0, PoolAssumption DEF PTypeOK
    <3>2. CASE faults' = faults
      BY <3>1, <3>2
    <3>3. CASE Fault
      BY <3>1, <3>3 DEF Fault
    <3> QED BY <1>1, <3>2, <3>3
  <2>2. poller' \in [pc : {"new", "idle", "acquire", "send", "exited"}, job : Job \cup {NoJob}]
    BY <1>1 DEF PollerAt
  <2> QED BY <1>0, <1>1, <2>1, <2>2 DEF PTypeOK
<1>3. Shapes'
  BY <1>0, <1>1 DEF Shapes, Shape
<1>4. Phase'
  BY <1>0, <1>1 DEF Phase, PollerAt
<1>5. DueOnce' /\ \A j \in Job : DueHas(j)' => DueHas(j)
  BY <1>0, <1>1 DEF DueOnce, DueHas
<1>6. poller'.job = poller.job
  BY <1>0, <1>1 DEF Phase, PollerAt
<1>7. KidsNew' /\ \A j \in Job : Apart(j)' /\ Rowed(j)' /\ Tries(j)'
  BY <1>1, <1>5, <1>6, NothingMoves
<1> QED BY <1>2, <1>3, <1>4, <1>5, <1>7 DEF PoolInv

(* A pending row becomes due again.                                        *)
LEMMA DueStep ==
    ASSUME PoolInv, NEW j \in Job, Due(j)
    PROVE  PoolInv'
<1>0. PTypeOK /\ Shapes /\ Phase /\ DueOnce
  BY DEF PoolInv
<1>1. /\ UNCHANGED <<durable, row, attempts, dlq, chan, capacity, counted, inFlight, done, restarts, todo,
                     caller, worker, poller, queue, stopping, faults>>
      /\ row[j] = "pending" /\ due' = Append(due, j) /\ j \notin Range(due)
  BY DEF Due, accounts
<1>2. ~ DueHas(j)
  <2>1. DOMAIN due = 1 .. Len(due)
    BY <1>0 DEF PTypeOK
  <2> QED BY <1>1, <2>1 DEF DueHas, Range
<1>3. due' \in Seq(Job) /\ DueOnce' /\ \A q \in Job : DueHas(q)' => DueHas(q) \/ row[q] = "pending"
  BY <1>0, <1>1, <1>2, DueAppend
<1>4. PTypeOK'
  BY SMTT(30), <1>0, <1>1, <1>3 DEF PTypeOK
<1>5. Shapes'
  BY <1>0, <1>1 DEF Shapes, Shape
<1>6. Phase'
  BY <1>0, <1>1 DEF Phase
<1>7. KidsNew' /\ \A q \in Job : Apart(q)' /\ Rowed(q)' /\ Tries(q)'
  BY <1>1, <1>3, NothingMoves
<1> QED BY <1>3, <1>4, <1>5, <1>6, <1>7 DEF PoolInv
-----------------------------------------------------------------------------
(* Workers move after Start only, and leave the phase of the chunk alone.  *)
LEMMA WorkerPhase ==
    ASSUME PTypeOK, Phase, Others, NEW w \in Worker, worker[w].pc # "new",
           faults' = faults \/ Fault
    PROVE  Phase' /\ faults' \in 0 .. MaxFaults
<1>1. faults' = faults \/ (faults' = faults + 1 /\ faults < MaxFaults)
  BY DEF Fault
<1>2. faults' \in 0 .. MaxFaults /\ (faults > 0 => faults' > 0)
  <2>1. faults \in 0 .. MaxFaults /\ MaxFaults \in Nat
    BY PoolAssumption DEF PTypeOK
  <2> QED BY <1>1, <2>1
<1>3. caller.pc \notin {"submit", "send"}
  BY AtType DEF Phase
<1> QED BY <1>2, <1>3 DEF Phase, Others

(* A worker's step is well typed when what it changes is.                  *)
LEMMA WorkerRetyped ==
    ASSUME PTypeOK,
           UNCHANGED <<durable, capacity, done, restarts, todo, caller, poller, queue, stopping>>,
           row' \in [Job -> Status], attempts' \in [Job -> 0 .. MaxAttempts],
           due' \in Seq(Job), dlq' \in [Job -> Nat],
           chan' \in Seq(Job \cup {NoJob}), Len(chan') <= capacity,
           inFlight' \in Int, counted' \subseteq Job,
           worker' \in [Worker -> WorkerRec], faults' \in 0 .. MaxFaults
    PROVE  PTypeOK'
<1>1. durable' \in BOOLEAN /\ done' \in BOOLEAN /\ stopping' \in BOOLEAN
  BY DEF PTypeOK
<1>2. /\ capacity' \in Nat /\ Len(chan') <= capacity' /\ queue' \in {"open", "closing", "closed"}
      /\ todo' \in 0 .. ChunkSize /\ restarts' \in 0 .. MaxRestarts
  BY DEF PTypeOK
<1>3. /\ poller' \in [pc : {"new", "idle", "acquire", "send", "exited"}, job : Job \cup {NoJob}]
      /\ caller' \in [pc : {"submit", "send", "wait", "shutdown", "returned"}, job : Job \cup {NoJob}]
  BY DEF PTypeOK
<1> QED BY <1>1, <1>2, <1>3 DEF PTypeOK, WorkerRec

(* A worker finds nothing to take, exits, or tests inFlight.               *)
LEMMA IdleStep ==
    ASSUME PoolInv, NEW w \in Worker, DequeueStale(w) \/ Exit(w) \/ CheckDone(w)
    PROVE  PoolInv'
<1>0. PTypeOK /\ Shapes /\ Phase /\ DueOnce
  BY DEF PoolInv
<1>1. /\ UNCHANGED <<durable, row, attempts, dlq, due, chan, capacity, counted, inFlight, restarts, todo,
                     caller, poller, queue, stopping>>
      /\ worker[w].pc \in {"acquire", "idle", "check"} /\ (faults' = faults \/ Fault) /\ Others
      /\ done' \in BOOLEAN
  <2>1. CASE DequeueStale(w) \/ Exit(w)
    BY <1>0, <2>1 DEF DequeueStale, Exit, Others, store, accounts, NoFault, PTypeOK
  <2>2. CASE CheckDone(w)
    <3>1. done' \in BOOLEAN
      BY <2>2 DEF CheckDone
    <3> QED BY <2>2, <3>1 DEF CheckDone, Others, store, NoFault
  <2> QED BY <2>1, <2>2
<1>2. PICK pc \in {"idle", "exited"} : Moves(w, At(pc))
  BY DEF DequeueStale, Exit, CheckDone
<1>3. Phase' /\ faults' \in 0 .. MaxFaults
  BY <1>0, <1>1, WorkerPhase
<1>4. worker' \in [Worker -> WorkerRec] /\ Shapes'
  BY <1>0, <1>1, <1>2, AtType, WorkerTyped
<1>5. PTypeOK'
  BY <1>0, <1>1, <1>3, <1>4 DEF PTypeOK, WorkerRec
<1>6. DueOnce' /\ \A j \in Job : DueHas(j)' => DueHas(j)
  BY <1>0, <1>1 DEF DueOnce, DueHas
<1>7. worker[w].job = NoJob /\ worker[w].kids = {} /\ worker[w].out = NoJob
  BY <1>0, <1>1 DEF Shapes, Shape
<1>8. ASSUME NEW x \in Worker
      PROVE  /\ worker'[x].job = worker[x].job /\ worker'[x].out = worker[x].out
             /\ worker'[x].kids = worker[x].kids
             /\ worker'[x].pc = "handle" => worker[x].pc = "handle"
  BY SMTT(30), <1>0, <1>2, <1>7, AtType, WorkerMoves
<1>9. KidsNew' /\ \A j \in Job : Apart(j)' /\ Rowed(j)' /\ Tries(j)'
  BY <1>1, <1>6, <1>8, NothingMoves
<1> QED BY <1>3, <1>4, <1>5, <1>6, <1>9 DEF PoolInv

(* A worker receives from the channel: a signal, or an acquired job.       *)
LEMMA DequeueStep ==
    ASSUME PoolInv, NEW w \in Worker, Dequeue(w)
    PROVE  PoolInv'
<1>0. PTypeOK /\ Shapes /\ Phase /\ DueOnce /\ KidsNew /\ \A j \in Job : Apart(j) /\ Rowed(j) /\ Tries(j)
  BY DEF PoolInv
<1> DEFINE h == Head(chan)
<1>1. /\ UNCHANGED <<durable, row, attempts, dlq, due, capacity, inFlight, done, restarts, todo,
                     caller, poller, queue, stopping, faults>>
      /\ worker[w].pc = "idle" /\ Others /\ chan # <<>> /\ chan' = Tail(chan)
      /\ IF h = NoJob THEN Moves(w, At("acquire")) /\ counted' = counted
                      ELSE Moves(w, Busy("handle", h, {}, NoJob)) /\ counted' = counted \cup {h}
  BY DEF Dequeue, Others, store, NoFault
<1>2. /\ chan' \in Seq(Job \cup {NoJob}) /\ Len(chan') <= Len(chan)
      /\ h \in Job \cup {NoJob} /\ ChanHas(h)
      /\ \A j \in Job : ChanHas(j)' => ChanHas(j)
      /\ \A j \in Job : ChanOnce(j)' /\ (j = h => ~ ChanHas(j)')
  BY <1>0, <1>1, ChanTail DEF Apart
<1> HIDE DEF h
<1>3. PICK to \in WorkerRec :
          /\ Moves(w, to) /\ Shape(to) /\ to.kids = {} /\ to.out = NoJob /\ to.job = h
          /\ h # NoJob => to.pc = "handle"
          /\ h = NoJob => to.pc = "acquire"
  <2>1. CASE h = NoJob
    BY <1>1, <2>1, AtType
  <2>2. CASE h \in Job
    <3>1. Shape(Busy("handle", h, {}, NoJob))
      BY <2>2, BusyType DEF Shape
    <3> QED BY <1>1, <2>2, <3>1, BusyType, PoolAssumption
  <2> QED BY <1>2, <2>1, <2>2
<1>4. Phase' /\ faults' \in 0 .. MaxFaults
  BY <1>0, <1>1, WorkerPhase
<1>5. worker' \in [Worker -> WorkerRec] /\ Shapes'
  BY <1>0, <1>1, <1>3, WorkerTyped
<1>6. PTypeOK'
  <2>1. Len(chan') <= capacity
    BY <1>0, <1>2 DEF PTypeOK
  <2>2. counted' \subseteq Job
    BY <1>0, <1>1, <1>2 DEF PTypeOK
  <2>3. /\ row' \in [Job -> Status] /\ attempts' \in [Job -> 0 .. MaxAttempts]
        /\ due' \in Seq(Job) /\ dlq' \in [Job -> Nat] /\ inFlight' \in Int
        /\ chan' \in Seq(Job \cup {NoJob})
    BY <1>0, <1>1, <1>2 DEF PTypeOK
  <2> QED BY <1>0, <1>1, <1>2, <1>4, <1>5, <2>1, <2>2, <2>3, WorkerRetyped
<1>7. worker[w].job = NoJob /\ worker[w].kids = {} /\ worker[w].out = NoJob
  BY <1>0, <1>1 DEF Shapes, Shape
<1>8. worker'[w] = to /\ \A x \in Worker : x # w => worker'[x] = worker[x]
  BY <1>0, <1>3, WorkerMoves
<1>9. DueOnce' /\ \A j \in Job : DueHas(j)' => DueHas(j)
  BY <1>0, <1>1 DEF DueOnce, DueHas
<1>10. /\ \A j \in Job, x \in Worker : With(x, j)' => With(x, j) \/ (x = w /\ j = h)
       /\ \A j \in Job, x \in Worker : Handling(x, j)' => Handling(x, j) \/ (x = w /\ j = h)
       /\ \A j \in Job, x \in Worker : worker'[x].out = j => worker[x].out = j
       /\ \A x \in Worker : worker'[x].kids \subseteq worker[x].kids
  BY <1>3, <1>7, <1>8, PoolAssumption DEF With, Handling
<1>11. h \in Job => \A x \in Worker : ~ With(x, h)
  BY <1>0, <1>2 DEF Apart
<1>12. h \in Job => poller.job # h /\ (~ durable => caller.job # h)
  BY <1>0, <1>2 DEF Apart, Nowhere
<1>13. KidsNew'
  <2> SUFFICES ASSUME NEW x \in Worker, NEW k \in worker'[x].kids PROVE KidNew(x, k)'
    BY DEF KidsNew
  <2>1. KidNew(x, k) /\ k \in Job
    BY <1>0, <1>10 DEF KidsNew, PTypeOK, Job
  <2>2. k # h
    BY <1>2, <2>1 DEF KidNew, Nowhere
  <2> QED BY <1>1, <1>2, <1>10, <2>1, <2>2 DEF KidNew, Nowhere
<1>14. ASSUME NEW j \in Job PROVE Apart(j)'
  BY <1>0, <1>1, <1>2, <1>10, <1>11, <1>12 DEF Apart, Nowhere
<1>15. ASSUME NEW j \in Job PROVE Rowed(j)'
  BY <1>0, <1>1, <1>2, <1>9, <1>10 DEF Rowed
<1>16. ASSUME NEW j \in Job PROVE Tries(j)'
  BY <1>0, <1>1, <1>2, <1>10 DEF Tries
<1> QED BY <1>4, <1>5, <1>6, <1>9, <1>13, <1>14, <1>15, <1>16 DEF PoolInv

(* The row that AcquireJob takes was pending, and nobody had it.           *)
LEMMA AcquiredRow ==
    ASSUME PoolInv, NEW j \in Job, AcquireJob(j)
    PROVE  /\ row[j] = "pending" /\ row' = [row EXCEPT ![j] = "running"]
           /\ row' \in [Job -> Status] /\ UNCHANGED <<attempts, due, dlq>>
           /\ durable /\ Nowhere(j) /\ attempts[j] < MaxAttempts
<1>1. row[j] = "pending" /\ row' = [row EXCEPT ![j] = "running"] /\ UNCHANGED <<attempts, due, dlq>>
  BY DEF AcquireJob, Oldest, Eligible
<1>2. row' \in [Job -> Status]
  BY <1>1 DEF PoolInv, PTypeOK, Status
<1>3. Rowed(j) /\ Tries(j)
  BY DEF PoolInv
<1> QED BY <1>1, <1>2, <1>3 DEF Rowed, Tries, Nowhere

(* A worker follows a signal to the oldest row.                            *)
LEMMA DequeueAcquireStep ==
    ASSUME PoolInv, NEW w \in Worker, NEW h \in Job, DequeueAcquire(w, h)
    PROVE  PoolInv'
<1>0. PTypeOK /\ Shapes /\ Phase /\ DueOnce /\ KidsNew /\ \A j \in Job : Apart(j) /\ Rowed(j) /\ Tries(j)
  BY DEF PoolInv
<1> DEFINE to == Busy("handle", h, {}, NoJob)
<1>1. /\ UNCHANGED <<durable, capacity, inFlight, done, restarts, todo,
                     caller, poller, queue, stopping, faults, chan>>
      /\ worker[w].pc = "acquire" /\ Others
      /\ Moves(w, to) /\ counted' = counted \cup {h} /\ AcquireJob(h)
  BY DEF DequeueAcquire, Others, NoFault
<1>2. /\ row[h] = "pending" /\ row' = [row EXCEPT ![h] = "running"]
      /\ row' \in [Job -> Status] /\ UNCHANGED <<attempts, due, dlq>>
      /\ durable /\ Nowhere(h) /\ attempts[h] < MaxAttempts
  BY <1>1, AcquiredRow
<1>3. /\ to \in WorkerRec /\ Shape(to) /\ to.kids = {} /\ to.out = NoJob /\ to.job = h
      /\ to.pc = "handle"
  BY BusyType DEF Shape
<1> HIDE DEF to
<1>4. Phase' /\ faults' \in 0 .. MaxFaults
  BY <1>0, <1>1, WorkerPhase
<1>5. worker' \in [Worker -> WorkerRec] /\ Shapes'
  BY <1>0, <1>1, <1>3, WorkerTyped
<1>6. PTypeOK'
  <2>1. counted' \subseteq Job
    BY <1>0, <1>1, <1>2 DEF PTypeOK
  <2> QED BY <1>0, <1>1, <1>2, <1>4, <1>5, <2>1 DEF PTypeOK, WorkerRec
<1>7. worker[w].job = NoJob /\ worker[w].kids = {} /\ worker[w].out = NoJob
  BY <1>0, <1>1 DEF Shapes, Shape
<1>8. worker'[w] = to /\ \A x \in Worker : x # w => worker'[x] = worker[x]
  BY <1>0, <1>1, WorkerMoves
<1>9. DueOnce' /\ \A j \in Job : DueHas(j)' => DueHas(j)
  BY <1>0, <1>2 DEF DueOnce, DueHas
<1>10. /\ \A j \in Job, x \in Worker : With(x, j)' => With(x, j) \/ (x = w /\ j = h)
       /\ \A j \in Job, x \in Worker : Handling(x, j)' => Handling(x, j) \/ (x = w /\ j = h)
       /\ \A j \in Job, x \in Worker : worker'[x].out = j => worker[x].out = j
       /\ \A x \in Worker : worker'[x].kids \subseteq worker[x].kids
       /\ \A j : (ChanHas(j)' <=> ChanHas(j)) /\ (ChanOnce(j)' <=> ChanOnce(j))
  BY <1>1, <1>3, <1>7, <1>8, PoolAssumption DEF With, Handling, ChanHas, ChanOnce
<1>11. \A j \in Job : row'[j] = IF j = h THEN "running" ELSE row[j]
  BY <1>0, <1>2 DEF PTypeOK
<1>13. KidsNew'
  <2> SUFFICES ASSUME NEW x \in Worker, NEW k \in worker'[x].kids PROVE KidNew(x, k)'
    BY DEF KidsNew
  <2>1. KidNew(x, k) /\ k \in Job
    BY <1>0, <1>10 DEF KidsNew, PTypeOK, Job
  <2>2. k # h
    BY <1>2, <2>1 DEF KidNew
  <2> QED BY <1>1, <1>2, <1>10, <1>11, <2>1, <2>2 DEF KidNew, Nowhere
<1>14. ASSUME NEW j \in Job PROVE Apart(j)'
  BY <1>0, <1>1, <1>2, <1>10 DEF Apart, Nowhere
<1>15. ASSUME NEW j \in Job PROVE Rowed(j)'
  BY <1>0, <1>1, <1>2, <1>9, <1>10, <1>11 DEF Rowed
<1>16. ASSUME NEW j \in Job PROVE Tries(j)'
  BY <1>0, <1>1, <1>2, <1>10, <1>11 DEF Tries
<1> QED BY <1>4, <1>5, <1>6, <1>9, <1>13, <1>14, <1>15, <1>16 DEF PoolInv

(* A handler succeeds: the row is completed, and the children are chosen.  *)
LEMMA HandleOKStep ==
    ASSUME PoolInv, NEW w \in Worker, NEW kids \in SUBSET Kid, HandleOK(w, kids)
    PROVE  PoolInv'
<1>0. PTypeOK /\ Shapes /\ Phase /\ DueOnce /\ KidsNew /\ \A j \in Job : Apart(j) /\ Rowed(j) /\ Tries(j)
  BY DEF PoolInv
<1>1. PICK h : h = worker[w].job
  OBVIOUS
<1> DEFINE to == Busy("kids", h, kids, NoJob)
<1>2. /\ UNCHANGED <<durable, capacity, inFlight, done, restarts, todo, counted,
                     caller, poller, queue, stopping, chan>>
      /\ worker[w].pc = "handle" /\ Others /\ kids \subseteq Fresh(Kid)
      /\ Moves(w, to) /\ (faults' = faults \/ Fault)
      /\ (durable /\ CompleteJob(h)) \/ UNCHANGED <<row, attempts, due, dlq>>
  BY <1>1 DEF HandleOK, Others, NoFault, store, accounts
<1>3. h \in Job /\ Handling(w, h) /\ worker[w].kids = {} /\ worker[w].out = NoJob
  BY <1>0, <1>1, <1>2 DEF Shapes, Shape, Handling
<1>4. /\ to \in WorkerRec /\ Shape(to) /\ to.kids = kids /\ to.out = NoJob /\ to.job = h
      /\ to.pc = "kids"
  BY <1>3, BusyType DEF Shape
<1> HIDE DEF to
<1>5. Phase' /\ faults' \in 0 .. MaxFaults
  BY <1>0, <1>2, WorkerPhase
<1>6. worker' \in [Worker -> WorkerRec] /\ Shapes'
  BY <1>0, <1>2, <1>4, WorkerTyped
<1>7. /\ row' \in [Job -> Status] /\ due' \in Seq(Job) /\ DueOnce' /\ UNCHANGED <<attempts, dlq>>
      /\ \A j \in Job : j # h => row'[j] = row[j]
      /\ row'[h] = row[h] \/ (row'[h] = "completed" /\ durable)
      /\ \A j \in Job : DueHas(j)' => DueHas(j) /\ (j = h => row'[h] = row[h])
  <2>1. CASE UNCHANGED <<row, attempts, due, dlq>>
    BY <1>0, <2>1 DEF PTypeOK, DueOnce, DueHas
  <2>2. CASE durable /\ CompleteJob(h)
    <3>1. row' = [row EXCEPT ![h] = "completed"] /\ due' = RemoveFirst(due, h) /\ UNCHANGED <<attempts, dlq>>
      BY <2>2 DEF CompleteJob
    <3>2. due' \in Seq(Job) /\ DueOnce' /\ \A j \in Job : DueHas(j)' => DueHas(j) /\ j # h
      BY <1>0, <1>3, <3>1, DueRemove
    <3> QED BY <1>0, <1>3, <2>2, <3>1, <3>2 DEF PTypeOK, Status
  <2> QED BY <1>2, <2>1, <2>2
<1>8. PTypeOK'
  BY <1>0, <1>2, <1>5, <1>6, <1>7 DEF PTypeOK, WorkerRec
<1>9. worker'[w] = to /\ \A x \in Worker : x # w => worker'[x] = worker[x]
  BY <1>0, <1>2, WorkerMoves
<1>10. /\ \A j \in Job, x \in Worker : With(x, j)' <=> With(x, j)
       /\ \A j \in Job, x \in Worker : Handling(x, j)' => Handling(x, j) /\ x # w
       /\ \A j \in Job, x \in Worker : worker'[x].out = j => worker[x].out = j
       /\ \A j : (ChanHas(j)' <=> ChanHas(j)) /\ (ChanOnce(j)' <=> ChanOnce(j))
  BY <1>2, <1>3, <1>4, <1>9 DEF With, Handling, ChanHas, ChanOnce
<1>11. With(w, h) /\ \A x \in Worker : With(x, h) => x = w
  BY <1>0, <1>1, <1>3 DEF With, Apart
<1>12. durable => row[h] = "running" /\ ~ ChanHas(h) /\ poller.job # h
  BY <1>0, <1>3, <1>11 DEF Rowed, Apart
<1>13. KidsNew'
  <2> SUFFICES ASSUME NEW x \in Worker, NEW k \in worker'[x].kids PROVE KidNew(x, k)'
    BY DEF KidsNew
  <2>0. k \in Job
    BY <1>6 DEF WorkerRec, Job
  <2>1. CASE x # w
    <3>1. k \in worker[x].kids /\ KidNew(x, k)
      BY <1>0, <1>9, <2>1 DEF KidsNew
    <3>2. k \notin kids
      BY <1>0, <1>2, <3>1, FreshIsNew
    <3>3. k # h
      BY <1>11, <3>1 DEF KidNew, Nowhere
    <3> QED BY <1>2, <1>4, <1>7, <1>9, <1>10, <2>0, <3>1, <3>2, <3>3 DEF KidNew, Nowhere
  <2>2. CASE x = w
    <3>1. k \in Fresh(Kid)
      BY <1>2, <1>4, <1>9, <2>2
    <3>2. /\ row[k] = "none" /\ attempts[k] = 0 /\ dlq[k] = 0 /\ k \notin counted
          /\ Nowhere(k) /\ \A y \in Worker : k \notin worker[y].kids
      BY <1>0, <3>1, FreshIsNew
    <3>3. k # h
      BY <1>11, <3>2 DEF Nowhere
    <3> QED BY <1>2, <1>7, <1>9, <1>10, <2>0, <2>2, <3>2, <3>3 DEF KidNew, Nowhere
  <2> QED BY <2>1, <2>2
<1>14. ASSUME NEW j \in Job PROVE Apart(j)'
  BY <1>0, <1>2, <1>10 DEF Apart, Nowhere
<1>15. ASSUME NEW j \in Job PROVE Rowed(j)'
  <2>1. CASE j # h
    BY <1>0, <1>2, <1>7, <1>10, <2>1 DEF Rowed
  <2>2. CASE j = h
    <3>1. \A x \in Worker : ~ Handling(x, h)'
      BY <1>3, <1>10, <1>11 DEF Handling, With
    <3>2. DueHas(h)' => DueHas(h) /\ row'[h] = row[h]
      BY <1>3, <1>7
    <3> QED BY <1>0, <1>2, <1>3, <1>7, <1>10, <1>12, <2>2, <3>1, <3>2 DEF Rowed
  <2> QED BY <2>1, <2>2
<1>16. ASSUME NEW j \in Job PROVE Tries(j)'
  <2>1. CASE j # h
    BY <1>0, <1>2, <1>7, <1>10, <2>1 DEF Tries
  <2>2. CASE j = h
    BY <1>0, <1>2, <1>3, <1>7, <1>10, <1>12, <2>2 DEF Tries
  <2> QED BY <2>1, <2>2
<1> QED BY <1>5, <1>6, <1>7, <1>8, <1>13, <1>14, <1>15, <1>16 DEF PoolInv

(* A handler fails with attempts left: the row goes back to pending and    *)
(* the worker lets go of it, or the worker keeps it to send it again.      *)
LEMMA HandleRetryStep ==
    ASSUME PoolInv, NEW w \in Worker, HandleRetry(w)
    PROVE  PoolInv'
<1>0. PTypeOK /\ Shapes /\ Phase /\ DueOnce /\ KidsNew /\ \A j \in Job : Apart(j) /\ Rowed(j) /\ Tries(j)
  BY DEF PoolInv
<1>1. PICK h : h = worker[w].job
  OBVIOUS
<1>2. /\ UNCHANGED <<durable, capacity, inFlight, done, restarts, todo, counted,
                     caller, poller, queue, stopping, chan>>
      /\ worker[w].pc = "handle" /\ Others /\ (faults' = faults \/ Fault)
      /\ attempts[h] + 1 < MaxAttempts
      /\ \/ durable /\ RetryJob(h) /\ Moves(w, At("idle"))
         \/ durable /\ UNCHANGED <<row, attempts, due, dlq>> /\ Moves(w, At("idle"))
         \/ ~ durable /\ attempts' = [attempts EXCEPT ![h] = @ + 1] /\ UNCHANGED <<row, due, dlq>>
            /\ Moves(w, Busy("requeue", h, {}, h))
  BY <1>1 DEF HandleRetry, Others, NoFault, store, accounts
<1>3. h \in Job /\ Handling(w, h) /\ worker[w].kids = {} /\ worker[w].out = NoJob
  BY <1>0, <1>1, <1>2 DEF Shapes, Shape, Handling
<1>4. PICK to \in WorkerRec :
          /\ Moves(w, to) /\ Shape(to) /\ to.kids = {} /\ to.pc # "handle"
          /\ durable => to.job = NoJob /\ to.out = NoJob
          /\ ~ durable => to.job = h /\ to.out = h
  <2>1. CASE durable
    BY <1>2, <2>1, AtType
  <2>2. CASE ~ durable
    <3>1. Shape(Busy("requeue", h, {}, h))
      BY <1>3, <2>2, BusyType DEF Shape
    <3> QED BY <1>2, <1>3, <2>2, <3>1, BusyType
  <2> QED BY <2>1, <2>2
<1>5. Phase' /\ faults' \in 0 .. MaxFaults
  BY <1>0, <1>2, WorkerPhase
<1>6. worker' \in [Worker -> WorkerRec] /\ Shapes'
  BY <1>0, <1>2, <1>4, WorkerTyped
<1>7. /\ row' \in [Job -> Status] /\ due' \in Seq(Job) /\ DueOnce' /\ UNCHANGED dlq
      /\ attempts' \in [Job -> 0 .. MaxAttempts] /\ attempts'[h] < MaxAttempts /\ attempts[h] < MaxAttempts
      /\ \A j \in Job : j # h => row'[j] = row[j] /\ attempts'[j] = attempts[j]
      /\ row'[h] = row[h] \/ (row'[h] = "pending" /\ durable)
      /\ \A j \in Job : DueHas(j)' => DueHas(j) /\ (j = h => row'[h] = row[h])
  <2>0. attempts[h] \in 0 .. MaxAttempts /\ MaxAttempts \in Nat
    BY <1>0, <1>3, PoolAssumption DEF PTypeOK
  <2>1. CASE durable /\ UNCHANGED <<row, attempts, due, dlq>>
    BY SMTT(30), <1>0, <1>2, <2>0, <2>1 DEF PTypeOK, DueOnce, DueHas
  <2>2. CASE durable /\ RetryJob(h)
    <3>1. /\ row' = [row EXCEPT ![h] = "pending"] /\ due' = RemoveFirst(due, h)
          /\ attempts' = [attempts EXCEPT ![h] = @ + 1] /\ UNCHANGED dlq
      BY <2>2 DEF RetryJob
    <3>2. due' \in Seq(Job) /\ DueOnce' /\ \A j \in Job : DueHas(j)' => DueHas(j) /\ j # h
      BY <1>0, <1>3, <3>1, DueRemove
    <3>3. attempts[h] + 1 \in 0 .. MaxAttempts
      BY <1>2, <2>0
    <3>4. attempts' \in [Job -> 0 .. MaxAttempts] /\ attempts'[h] < MaxAttempts
      BY <1>0, <1>2, <1>3, <3>1, <3>3 DEF PTypeOK
    <3> QED BY SMTT(30), <1>0, <1>2, <1>3, <2>0, <2>2, <3>1, <3>2, <3>4 DEF PTypeOK, Status
  <2>3. CASE ~ durable /\ attempts' = [attempts EXCEPT ![h] = @ + 1] /\ UNCHANGED <<row, due, dlq>>
    <3>3. attempts[h] + 1 \in 0 .. MaxAttempts
      BY <1>2, <2>0
    <3>4. attempts' \in [Job -> 0 .. MaxAttempts] /\ attempts'[h] < MaxAttempts
      BY <1>0, <1>2, <1>3, <2>3, <3>3 DEF PTypeOK
    <3> QED BY <1>0, <1>2, <1>3, <2>0, <2>3, <3>4 DEF PTypeOK, DueOnce, DueHas
  <2> QED BY <1>2, <2>1, <2>2, <2>3
<1>8. PTypeOK'
  <2>1. /\ chan' \in Seq(Job \cup {NoJob}) /\ Len(chan') <= capacity
        /\ inFlight' \in Int /\ counted' \subseteq Job /\ dlq' \in [Job -> Nat]
    BY <1>0, <1>2, <1>7 DEF PTypeOK
  <2> QED BY <1>0, <1>2, <1>5, <1>6, <1>7, <2>1, WorkerRetyped
<1>9. worker'[w] = to /\ \A x \in Worker : x # w => worker'[x] = worker[x]
  BY <1>0, <1>4, WorkerMoves
<1>10. /\ \A j \in Job, x \in Worker : With(x, j)' => With(x, j) /\ (x = w => ~ durable)
       /\ \A j \in Job, x \in Worker : Handling(x, j)' => Handling(x, j) /\ x # w
       /\ \A j \in Job, x \in Worker : worker'[x].out = j => worker[x].out = j \/ j = h
       /\ \A j : (ChanHas(j)' <=> ChanHas(j)) /\ (ChanOnce(j)' <=> ChanOnce(j))
       /\ \A x \in Worker : worker'[x].kids \subseteq worker[x].kids
  BY <1>1, <1>2, <1>3, <1>4, <1>9, PoolAssumption DEF With, Handling, ChanHas, ChanOnce
<1>11. With(w, h) /\ \A x \in Worker : With(x, h) => x = w
  BY <1>0, <1>1, <1>3 DEF With, Apart
<1>12. ~ ChanHas(h) /\ poller.job # h /\ (durable => row[h] = "running")
  BY <1>0, <1>3, <1>11 DEF Rowed, Apart
<1>13. KidsNew'
  <2> SUFFICES ASSUME NEW x \in Worker, NEW k \in worker'[x].kids PROVE KidNew(x, k)'
    BY DEF KidsNew
  <2>1. KidNew(x, k) /\ k \in Job
    BY <1>0, <1>10 DEF KidsNew, PTypeOK, Job
  <2>2. k # h
    BY <1>11, <2>1 DEF KidNew, Nowhere
  <2> QED BY <1>2, <1>7, <1>10, <2>1, <2>2 DEF KidNew, Nowhere
<1>14. ASSUME NEW j \in Job PROVE Apart(j)'
  BY <1>0, <1>2, <1>10 DEF Apart, Nowhere
<1>15. ASSUME NEW j \in Job PROVE Rowed(j)'
  <2>1. CASE j # h
    BY <1>0, <1>2, <1>7, <1>10, <2>1 DEF Rowed
  <2>2. CASE j = h
    <3>1. /\ \A x \in Worker : ~ Handling(x, h)'
          /\ durable => \A x \in Worker : ~ With(x, h)'
      BY <1>3, <1>10, <1>11 DEF Handling, With
    <3>2. DueHas(h)' => DueHas(h) /\ row'[h] = row[h]
      BY <1>3, <1>7
    <3> QED BY <1>0, <1>2, <1>3, <1>7, <1>10, <1>12, <2>2, <3>1, <3>2 DEF Rowed
  <2> QED BY <2>1, <2>2
<1>16. ASSUME NEW j \in Job PROVE Tries(j)'
  <2>1. CASE j # h
    BY <1>0, <1>2, <1>7, <1>10, <2>1 DEF Tries
  <2>2. CASE j = h
    <3>1. dlq[h] = 0 /\ (durable => row[h] = "running")
      BY <1>0, <1>3, <1>7, <1>12, PoolAssumption DEF Tries
    <3>2. attempts'[h] # MaxAttempts
      BY <1>3, <1>7, PoolAssumption
    <3> QED BY <1>2, <1>7, <2>2, <3>1, <3>2 DEF Tries
  <2> QED BY <2>1, <2>2
<1> QED BY <1>5, <1>6, <1>7, <1>8, <1>13, <1>14, <1>15, <1>16 DEF PoolInv

(* The last attempt fails: the job is quarantined, or the write fails and  *)
(* the row stays as it is.                                                 *)
LEMMA HandleExhaustedStep ==
    ASSUME PoolInv, NEW w \in Worker, HandleExhausted(w)
    PROVE  PoolInv'
<1>0. PTypeOK /\ Shapes /\ Phase /\ DueOnce /\ KidsNew /\ \A j \in Job : Apart(j) /\ Rowed(j) /\ Tries(j)
  BY DEF PoolInv
<1>1. PICK h : h = worker[w].job
  OBVIOUS
<1> DEFINE to == Busy("release", h, {}, NoJob)
<1>2. /\ UNCHANGED <<durable, capacity, inFlight, done, restarts, todo, counted,
                     caller, poller, queue, stopping, chan>>
      /\ worker[w].pc = "handle" /\ Others /\ (faults' = faults \/ Fault)
      /\ attempts[h] + 1 >= MaxAttempts /\ Moves(w, to)
      /\ DeadLetterJob(h) \/ (durable /\ UNCHANGED <<row, attempts, due, dlq>>)
  BY <1>1 DEF HandleExhausted, Publish, Others, NoFault, store, accounts
<1>3. h \in Job /\ Handling(w, h) /\ worker[w].kids = {} /\ worker[w].out = NoJob
  BY <1>0, <1>1, <1>2 DEF Shapes, Shape, Handling
<1>4. /\ to \in WorkerRec /\ Shape(to) /\ to.kids = {} /\ to.out = NoJob /\ to.job = h
      /\ to.pc = "release"
  BY <1>3, BusyType DEF Shape
<1> HIDE DEF to
<1>5. Phase' /\ faults' \in 0 .. MaxFaults
  BY <1>0, <1>2, WorkerPhase
<1>6. worker' \in [Worker -> WorkerRec] /\ Shapes'
  BY <1>0, <1>2, <1>4, WorkerTyped
<1>7. attempts[h] < MaxAttempts /\ attempts[h] + 1 = MaxAttempts /\ dlq[h] = 0
  <2>1. attempts[h] < MaxAttempts /\ dlq[h] = IF attempts[h] = MaxAttempts THEN 1 ELSE 0
    BY <1>0, <1>3 DEF Tries
  <2>2. attempts[h] \in Nat /\ MaxAttempts \in Nat
    BY <1>0, <1>3, PoolAssumption DEF PTypeOK
  <2> QED BY <1>2, <2>1, <2>2
<1>8. /\ row' \in [Job -> Status] /\ due' \in Seq(Job) /\ DueOnce' /\ dlq' \in [Job -> Nat]
      /\ attempts' \in [Job -> 0 .. MaxAttempts]
      /\ \A j \in Job : j # h => row'[j] = row[j] /\ attempts'[j] = attempts[j] /\ dlq'[j] = dlq[j]
      /\ \A j \in Job : DueHas(j)' => DueHas(j)
      /\ \/ /\ row'[h] = (IF durable THEN "dead_lettered" ELSE row[h]) /\ attempts'[h] = MaxAttempts
            /\ dlq'[h] = 1 /\ ~ DueHas(h)'
         \/ durable /\ row'[h] = row[h] /\ attempts'[h] = attempts[h] /\ dlq'[h] = dlq[h]
  <2>1. CASE durable /\ UNCHANGED <<row, attempts, due, dlq>>
    BY <1>0, <2>1 DEF PTypeOK, DueOnce, DueHas
  <2>2. CASE DeadLetterJob(h)
    <3>1. /\ row' = IF durable THEN [row EXCEPT ![h] = "dead_lettered"] ELSE row
          /\ attempts' = [attempts EXCEPT ![h] = @ + 1] /\ dlq' = [dlq EXCEPT ![h] = @ + 1]
          /\ due' = RemoveFirst(due, h)
      BY <2>2 DEF DeadLetterJob
    <3>2. due' \in Seq(Job) /\ DueOnce' /\ \A j \in Job : DueHas(j)' => DueHas(j) /\ j # h
      BY <1>0, <1>3, <3>1, DueRemove
    <3>3. row' \in [Job -> Status]
      BY <1>0, <3>1 DEF PTypeOK, Status
    <3>4. attempts' \in [Job -> 0 .. MaxAttempts] /\ dlq' \in [Job -> Nat]
      <4>1. attempts \in [Job -> 0 .. MaxAttempts] /\ dlq \in [Job -> Nat]
        BY <1>0 DEF PTypeOK
      <4>2. MaxAttempts \in Nat
        BY PoolAssumption
      <4> QED BY <1>3, <1>7, <3>1, <4>1, <4>2
    <3>5. /\ \A j \in Job : j # h => row'[j] = row[j] /\ attempts'[j] = attempts[j] /\ dlq'[j] = dlq[j]
          /\ attempts'[h] = MaxAttempts /\ dlq'[h] = 1
          /\ row'[h] = (IF durable THEN "dead_lettered" ELSE row[h])
      BY <1>0, <1>3, <1>7, <3>1 DEF PTypeOK
    <3> QED BY <1>3, <3>2, <3>3, <3>4, <3>5
  <2> QED BY <1>2, <2>1, <2>2
<1>9. PTypeOK'
  <2>1. /\ chan' \in Seq(Job \cup {NoJob}) /\ Len(chan') <= capacity
        /\ inFlight' \in Int /\ counted' \subseteq Job
    BY <1>0, <1>2 DEF PTypeOK
  <2> QED BY <1>0, <1>2, <1>5, <1>6, <1>8, <2>1, WorkerRetyped
<1>10. worker'[w] = to /\ \A x \in Worker : x # w => worker'[x] = worker[x]
  BY <1>0, <1>2, WorkerMoves
<1>11. /\ \A j \in Job, x \in Worker : With(x, j)' <=> With(x, j)
       /\ \A j \in Job, x \in Worker : Handling(x, j)' => Handling(x, j) /\ x # w
       /\ \A j \in Job, x \in Worker : worker'[x].out = j => worker[x].out = j
       /\ \A j : (ChanHas(j)' <=> ChanHas(j)) /\ (ChanOnce(j)' <=> ChanOnce(j))
       /\ \A x \in Worker : worker'[x].kids \subseteq worker[x].kids
  BY <1>1, <1>2, <1>3, <1>4, <1>10 DEF With, Handling, ChanHas, ChanOnce
<1>12. With(w, h) /\ \A x \in Worker : With(x, h) => x = w
  BY <1>0, <1>1, <1>3 DEF With, Apart
<1>13. ~ ChanHas(h) /\ poller.job # h /\ (durable => row[h] = "running") /\ (~ durable => caller.job # h)
  BY <1>0, <1>3, <1>12 DEF Rowed, Apart, Nowhere
<1>14. KidsNew'
  <2> SUFFICES ASSUME NEW x \in Worker, NEW k \in worker'[x].kids PROVE KidNew(x, k)'
    BY DEF KidsNew
  <2>1. KidNew(x, k) /\ k \in Job
    BY <1>0, <1>11 DEF KidsNew, PTypeOK, Job
  <2>2. k # h
    BY <1>12, <2>1 DEF KidNew, Nowhere
  <2> QED BY <1>2, <1>8, <1>11, <2>1, <2>2 DEF KidNew, Nowhere
<1>15. ASSUME NEW j \in Job PROVE Apart(j)'
  BY <1>0, <1>2, <1>11 DEF Apart, Nowhere
<1>16. \A x \in Worker : ~ Handling(x, h)' /\ worker'[x].out # h
  <2>1. \A x \in Worker : ~ Handling(x, h)'
    BY <1>3, <1>11, <1>12 DEF Handling, With
  <2>2. \A x \in Worker : worker'[x].out # h
    BY <1>3, <1>4, <1>10, <1>12, PoolAssumption DEF With
  <2> QED BY <2>1, <2>2
<1>17. ASSUME NEW j \in Job PROVE Rowed(j)'
  <2>1. CASE j # h
    BY <1>0, <1>2, <1>8, <1>11, <2>1 DEF Rowed
  <2>2. CASE j = h
    BY <1>0, <1>2, <1>3, <1>8, <1>11, <1>13, <1>16, <2>2 DEF Rowed
  <2> QED BY <2>1, <2>2
<1>18. ASSUME NEW j \in Job PROVE Tries(j)'
  <2>1. CASE j # h
    <3>1. /\ row'[j] = row[j] /\ attempts'[j] = attempts[j] /\ dlq'[j] = dlq[j]
          /\ durable' = durable /\ poller' = poller /\ caller' = caller
      BY <1>2, <1>8, <2>1
    <3>2. /\ ChanHas(j)' => ChanHas(j)
          /\ \A x \in Worker : /\ Handling(x, j)' => Handling(x, j)
                               /\ worker'[x].out = j => worker[x].out = j
      BY <1>11
    <3> QED BY <1>0, <3>1, <3>2 DEF Tries
  <2>2. CASE j = h
    <3>0. caller.pc \notin {"submit", "send"}
      BY <1>0, <1>2, AtType DEF Phase
    <3>1. caller.job # h
      BY <1>0, <1>3, <3>0, PoolAssumption DEF Phase
    <3> QED BY <1>0, <1>2, <1>3, <1>7, <1>8, <1>11, <1>13, <1>16, <2>2, <3>1 DEF Tries
  <2> QED BY <2>1, <2>2
<1> QED BY <1>5, <1>6, <1>8, <1>9, <1>14, <1>15, <1>17, <1>18 DEF PoolInv

(* A child is submitted: its row is created, or the worker is to send it.  *)
LEMMA SubmitChildStep ==
    ASSUME PoolInv, NEW w \in Worker, NEW c \in Kid, SubmitChild(w, c)
    PROVE  PoolInv'
<1>0. PTypeOK /\ Shapes /\ Phase /\ DueOnce /\ KidsNew /\ \A j \in Job : Apart(j) /\ Rowed(j) /\ Tries(j)
  BY DEF PoolInv
<1>1. /\ UNCHANGED <<durable, capacity, done, restarts, todo, caller, poller, queue, stopping, chan>>
      /\ worker[w].pc = "kids" /\ c \in worker[w].kids /\ Others /\ (faults' = faults \/ Fault)
      /\ (durable /\ CreateJob(c)) \/ UNCHANGED <<row, attempts, due, dlq>>
      /\ counted' = counted \/ counted' = counted \cup {c}
      /\ inFlight' = inFlight \/ inFlight' = inFlight + 1
  BY DEF SubmitChild, CountChild, Count, Others, NoFault, store, accounts
<1>2. /\ c \in Job /\ KidNew(w, c) /\ worker[w] \in WorkerRec /\ Shape(worker[w])
      /\ worker[w].job \in Job /\ worker[w].out = NoJob
  BY <1>0, <1>1 DEF KidsNew, Job, Shapes, Shape, PTypeOK, WorkerRec
<1>3. PICK to \in WorkerRec :
          /\ Moves(w, to) /\ Shape(to) /\ to.job = worker[w].job /\ to.kids = worker[w].kids \ {c}
          /\ to.pc \in {"kids", "send"} /\ (to.out = NoJob \/ (~ durable /\ to.out = c))
  <2> DEFINE next == [worker[w] EXCEPT !.kids = @ \ {c}]
             sends == [next EXCEPT !.pc = "send", !.out = c]
  <2>1. /\ next \in WorkerRec /\ next.pc = "kids" /\ next.job = worker[w].job
        /\ next.kids = worker[w].kids \ {c} /\ next.out = NoJob
    BY <1>1, <1>2 DEF WorkerRec
  <2>2. /\ sends \in WorkerRec /\ sends.pc = "send" /\ sends.job = worker[w].job
        /\ sends.kids = worker[w].kids \ {c} /\ sends.out = c
    BY <1>1, <1>2 DEF WorkerRec
  <2>3. Moves(w, next) \/ (~ durable /\ Moves(w, sends))
    BY DEF SubmitChild
  <2> HIDE DEF next, sends
  <2>4. Shape(next) /\ (~ durable => Shape(sends))
    <3>1. worker[w].job # c
      BY <1>2 DEF KidNew, Nowhere, With
    <3> QED BY <1>2, <2>1, <2>2, <3>1 DEF Shape
  <2> QED BY <2>1, <2>2, <2>3, <2>4
<1>4. Phase' /\ faults' \in 0 .. MaxFaults
  BY <1>0, <1>1, WorkerPhase
<1>5. worker' \in [Worker -> WorkerRec] /\ Shapes'
  BY <1>0, <1>1, <1>3, WorkerTyped
<1>6. /\ row' \in [Job -> Status] /\ due' \in Seq(Job) /\ DueOnce' /\ UNCHANGED <<attempts, dlq>>
      /\ \A j \in Job : j # c => row'[j] = row[j]
      /\ row'[c] = row[c] \/ (row'[c] = "pending" /\ durable)
      /\ \A j \in Job : DueHas(j)' => DueHas(j) \/ (j = c /\ row'[c] = "pending")
  <2>1. CASE UNCHANGED <<row, attempts, due, dlq>>
    BY <1>0, <2>1 DEF PTypeOK, DueOnce, DueHas
  <2>2. CASE durable /\ CreateJob(c)
    <3>1. row' = [row EXCEPT ![c] = "pending"] /\ due' = Append(due, c) /\ UNCHANGED <<attempts, dlq>>
      BY <2>2 DEF CreateJob
    <3>2. ~ DueHas(c)
      BY <1>0, <1>2 DEF Rowed, KidNew
    <3>3. due' \in Seq(Job) /\ DueOnce' /\ \A j \in Job : DueHas(j)' => DueHas(j) \/ j = c
      BY <1>0, <1>2, <3>1, <3>2, DueAppend
    <3> QED BY <1>0, <1>2, <2>2, <3>1, <3>3 DEF PTypeOK, Status
  <2> QED BY <1>1, <2>1, <2>2
<1>7. PTypeOK'
  <2>1. counted' \subseteq Job
    BY <1>0, <1>1, <1>2 DEF PTypeOK
  <2>2. inFlight' \in Int
    BY <1>0, <1>1 DEF PTypeOK
  <2>3. /\ chan' \in Seq(Job \cup {NoJob}) /\ Len(chan') <= capacity
        /\ attempts' \in [Job -> 0 .. MaxAttempts] /\ dlq' \in [Job -> Nat]
    BY <1>0, <1>1, <1>6 DEF PTypeOK
  <2> QED BY <1>0, <1>1, <1>4, <1>5, <1>6, <2>1, <2>2, <2>3, WorkerRetyped
<1>8. worker'[w] = to /\ \A x \in Worker : x # w => worker'[x] = worker[x]
  BY <1>0, <1>3, WorkerMoves
<1>9. /\ \A j \in Job, x \in Worker : With(x, j)' => With(x, j) \/ (x = w /\ j = c /\ ~ durable)
      /\ \A j \in Job, x \in Worker : Handling(x, j)' => Handling(x, j)
      /\ \A j \in Job, x \in Worker : worker'[x].out = j => worker[x].out = j \/ j = c
      /\ \A x \in Worker : worker'[x].kids \subseteq worker[x].kids /\ (x = w => c \notin worker'[x].kids)
      /\ \A j : (ChanHas(j)' <=> ChanHas(j)) /\ (ChanOnce(j)' <=> ChanOnce(j))
  BY <1>1, <1>2, <1>3, <1>8, PoolAssumption DEF With, Handling, ChanHas, ChanOnce
<1>10. /\ Nowhere(c) /\ row[c] = "none" /\ attempts[c] = 0 /\ dlq[c] = 0
       /\ \A x \in Worker : c \notin worker'[x].kids
  <2>1. \A x \in Worker : c \in worker[x].kids => x = w
    BY <1>2 DEF KidNew
  <2> QED BY <1>2, <1>9, <2>1 DEF KidNew
<1>11. caller.job \notin Job
  <2>1. caller.pc \notin {"submit", "send"}
    BY <1>0, <1>1, AtType DEF Phase
  <2> QED BY <1>0, <2>1, PoolAssumption DEF Phase
<1>12. KidsNew'
  <2> SUFFICES ASSUME NEW x \in Worker, NEW k \in worker'[x].kids PROVE KidNew(x, k)'
    BY DEF KidsNew
  <2>1. KidNew(x, k) /\ k \in Job
    BY <1>0, <1>9 DEF KidsNew, PTypeOK, Job
  <2>2. k # c
    BY <1>10
  <2> QED BY <1>1, <1>6, <1>9, <2>1, <2>2 DEF KidNew, Nowhere
<1>13. ASSUME NEW j \in Job PROVE Apart(j)'
  BY <1>0, <1>1, <1>9, <1>10, <1>11 DEF Apart, Nowhere
<1>14. ASSUME NEW j \in Job PROVE Rowed(j)'
  <2>1. CASE j # c
    BY <1>0, <1>1, <1>6, <1>9, <2>1 DEF Rowed
  <2>2. CASE j = c
    <3>1. \A x \in Worker : ~ Handling(x, c)' /\ (durable => ~ With(x, c)')
      BY <1>2, <1>9, <1>10 DEF Nowhere, Handling, With
    <3>2. ~ ChanHas(c)' /\ poller'.job # c
      BY <1>1, <1>9, <1>10 DEF Nowhere
    <3> QED BY <1>0, <1>1, <1>2, <1>6, <1>10, <2>2, <3>1, <3>2 DEF Rowed
  <2> QED BY <2>1, <2>2
<1>15. ASSUME NEW j \in Job PROVE Tries(j)'
  <2>1. CASE j # c
    BY <1>0, <1>1, <1>6, <1>9, <2>1 DEF Tries
  <2>2. CASE j = c
    <3>1. attempts'[c] < MaxAttempts /\ attempts'[c] # MaxAttempts /\ dlq'[c] = 0
      BY <1>6, <1>10, PoolAssumption
    <3>2. row'[c] # "dead_lettered"
      BY <1>6, <1>10
    <3> QED BY <2>2, <3>1, <3>2 DEF Tries
  <2> QED BY <2>1, <2>2
<1> QED BY <1>4, <1>5, <1>6, <1>7, <1>12, <1>13, <1>14, <1>15 DEF PoolInv

(* What a worker holds goes to the channel or is dropped: a child, after   *)
(* which it turns to the next one, or its own job, of which it lets go.    *)
LEMMA WorkerSendStep ==
    ASSUME PoolInv, NEW w \in Worker, SendChild(w) \/ Requeue(w)
    PROVE  PoolInv'
<1>0. PTypeOK /\ Shapes /\ Phase /\ DueOnce /\ KidsNew /\ \A j \in Job : Apart(j) /\ Rowed(j) /\ Tries(j)
  BY DEF PoolInv
<1>1. PICK c : c = worker[w].out
  OBVIOUS
<1>2. /\ UNCHANGED <<durable, capacity, done, restarts, todo, caller, poller, queue, stopping,
                     row, attempts, due, dlq, faults>>
      /\ worker[w].pc \in {"send", "requeue"} /\ Others
      /\ (Len(chan) < capacity /\ chan' = Append(chan, c)) \/ chan' = chan
      /\ counted' = counted \/ counted' = counted \ {c}
      /\ inFlight' = inFlight \/ inFlight' = inFlight - 1
  BY <1>1 DEF SendChild, Requeue, Sent, GivesUp, Uncount, Others, NoFault, store, accounts
<1>3. /\ c \in Job /\ worker[w] \in WorkerRec /\ Shape(worker[w]) /\ worker[w].job \in Job
      /\ ~ durable /\ With(w, c)
  BY <1>0, <1>1, <1>2 DEF Job, Shapes, Shape, PTypeOK, WorkerRec, With
<1>4. PICK to \in WorkerRec :
          /\ Moves(w, to) /\ Shape(to) /\ to.kids \subseteq worker[w].kids
          /\ to.pc # "handle" /\ to.out = NoJob
          /\ to.job = NoJob \/ (to.job = worker[w].job /\ worker[w].pc = "send")
  <2>1. CASE Requeue(w)
    BY <2>1, AtType DEF Requeue
  <2>2. CASE SendChild(w)
    <3> DEFINE next == [worker[w] EXCEPT !.pc = "kids", !.out = NoJob]
    <3>1. /\ next \in WorkerRec /\ next.pc = "kids" /\ next.job = worker[w].job
          /\ next.kids = worker[w].kids /\ next.out = NoJob
      BY <1>3 DEF WorkerRec
    <3>2. Moves(w, next) /\ worker[w].pc = "send"
      BY <2>2 DEF SendChild
    <3> HIDE DEF next
    <3>3. Shape(next)
      BY <1>3, <3>1 DEF Shape
    <3> QED BY <3>1, <3>2, <3>3
  <2> QED BY <2>1, <2>2
<1>5. Phase' /\ faults' \in 0 .. MaxFaults
  BY <1>0, <1>2, WorkerPhase
<1>6. worker' \in [Worker -> WorkerRec] /\ Shapes'
  BY <1>0, <1>2, <1>4, WorkerTyped
<1>7. Nowhere(c) \/ (~ ChanHas(c) /\ poller.job # c /\ \A x \in Worker : With(x, c) => x = w)
  BY <1>0, <1>3 DEF Apart, Nowhere
<1>8. /\ chan' \in Seq(Job \cup {NoJob}) /\ Len(chan') <= capacity
      /\ \A j \in Job : ChanHas(j)' => ChanHas(j) \/ j = c
      /\ \A j \in Job : ChanOnce(j)'
  <2>1. CASE chan' = chan
    BY <1>0, <2>1 DEF PTypeOK, ChanHas, ChanOnce, Apart
  <2>2. CASE Len(chan) < capacity /\ chan' = Append(chan, c)
    <3>1. ~ ChanHas(c)
      BY <1>7 DEF Nowhere
    <3>2. /\ chan' \in Seq(Job \cup {NoJob}) /\ Len(chan') = Len(chan) + 1
          /\ \A j \in Job : ChanHas(j)' <=> ChanHas(j) \/ j = c
          /\ \A j \in Job : ChanOnce(j) /\ (j = c => ~ ChanHas(j)) => ChanOnce(j)'
      BY <1>0, <1>3, <2>2, ChanAppend
    <3>3. Len(chan) + 1 <= capacity
      BY <1>0, <2>2 DEF PTypeOK
    <3> QED BY <1>0, <3>1, <3>2, <3>3 DEF Apart
  <2> QED BY <1>2, <2>1, <2>2
<1>9. PTypeOK'
  <2>1. counted' \subseteq Job
    BY <1>0, <1>2 DEF PTypeOK
  <2>2. inFlight' \in Int
    BY <1>0, <1>2 DEF PTypeOK
  <2>3. /\ row' \in [Job -> Status] /\ attempts' \in [Job -> 0 .. MaxAttempts]
        /\ due' \in Seq(Job) /\ dlq' \in [Job -> Nat]
    BY <1>0, <1>2 DEF PTypeOK
  <2> QED BY <1>0, <1>2, <1>5, <1>6, <1>8, <2>1, <2>2, <2>3, WorkerRetyped
<1>10. worker'[w] = to /\ \A x \in Worker : x # w => worker'[x] = worker[x]
  BY <1>0, <1>4, WorkerMoves
<1>11. /\ \A j \in Job, x \in Worker : With(x, j)' => With(x, j) /\ ((x = w) => worker[w].pc = "send" /\ j = worker[w].job)
       /\ \A j \in Job, x \in Worker : Handling(x, j)' => Handling(x, j)
       /\ \A j \in Job, x \in Worker : worker'[x].out = j => worker[x].out = j
       /\ \A x \in Worker : worker'[x].kids \subseteq worker[x].kids
  BY <1>4, <1>10, PoolAssumption DEF With, Handling
<1>12. caller.job \notin Job
  <2>1. caller.pc \notin {"submit", "send"}
    BY <1>0, <1>2, AtType DEF Phase
  <2> QED BY <1>0, <2>1, PoolAssumption DEF Phase
<1>13. DueOnce' /\ \A j \in Job : DueHas(j)' => DueHas(j)
  BY <1>0, <1>2 DEF DueOnce, DueHas
<1>14. ~ ChanHas(c) /\ poller.job # c /\ \A x \in Worker : With(x, c) => x = w
  BY <1>0, <1>3, <1>7 DEF Apart, Nowhere
<1>15. \A x \in Worker : ~ With(x, c)'
  BY <1>1, <1>3, <1>11, <1>14 DEF Shape
<1>16. KidsNew'
  <2> SUFFICES ASSUME NEW x \in Worker, NEW k \in worker'[x].kids PROVE KidNew(x, k)'
    BY DEF KidsNew
  <2>1. KidNew(x, k) /\ k \in Job
    BY <1>0, <1>11 DEF KidsNew, PTypeOK, Job
  <2>2. k # c
    BY <1>3, <2>1 DEF KidNew, Nowhere
  <2> QED BY <1>2, <1>8, <1>11, <2>1, <2>2 DEF KidNew, Nowhere
<1>17. ASSUME NEW j \in Job PROVE Apart(j)'
  BY <1>0, <1>2, <1>8, <1>11, <1>12, <1>14, <1>15 DEF Apart, Nowhere
<1>18. ASSUME NEW j \in Job PROVE Rowed(j)'
  BY <1>0, <1>2, <1>3, <1>13 DEF Rowed
<1>19. ASSUME NEW j \in Job PROVE Tries(j)'
  <2>1. attempts[c] < MaxAttempts
    BY <1>0, <1>1, <1>3 DEF Tries
  <2> QED BY <1>0, <1>2, <1>8, <1>11, <2>1 DEF Tries
<1> QED BY <1>5, <1>6, <1>9, <1>13, <1>16, <1>17, <1>18, <1>19 DEF PoolInv

(* A worker has finished with its job and lets go of it.                   *)
LEMMA ReleaseStep ==
    ASSUME PoolInv, NEW w \in Worker, Release(w)
    PROVE  PoolInv'
<1>0. PTypeOK /\ Shapes /\ Phase /\ DueOnce /\ KidsNew /\ \A j \in Job : Apart(j) /\ Rowed(j) /\ Tries(j)
  BY DEF PoolInv
<1>1. /\ UNCHANGED <<durable, capacity, done, restarts, todo, caller, poller, queue, stopping,
                     row, attempts, due, dlq, faults, chan>>
      /\ worker[w].pc \in {"release", "kids"} /\ Others
      /\ counted' \subseteq counted /\ inFlight' = inFlight - 1
      /\ Moves(w, At("check"))
  BY DEF Release, Finished, Uncount, Others, NoFault, store
<1>2. Phase' /\ faults' \in 0 .. MaxFaults
  BY <1>0, <1>1, WorkerPhase
<1>3. worker' \in [Worker -> WorkerRec] /\ Shapes'
  BY <1>0, <1>1, AtType, WorkerTyped
<1>4. PTypeOK'
  <2>1. counted' \subseteq Job
    BY <1>0, <1>1 DEF PTypeOK
  <2>2. inFlight' \in Int
    BY <1>0, <1>1 DEF PTypeOK
  <2> QED BY <1>0, <1>1, <1>2, <1>3, <2>1, <2>2 DEF PTypeOK, WorkerRec
<1>5. worker'[w] = At("check") /\ \A x \in Worker : x # w => worker'[x] = worker[x]
  BY <1>0, <1>1, WorkerMoves
<1>6. DueOnce' /\ \A j \in Job : DueHas(j)' => DueHas(j)
  BY <1>0, <1>1 DEF DueOnce, DueHas
<1>7. /\ \A j \in Job, x \in Worker : With(x, j)' => With(x, j)
      /\ \A j \in Job, x \in Worker : Handling(x, j)' => Handling(x, j)
      /\ \A j \in Job, x \in Worker : worker'[x].out = j => worker[x].out = j
      /\ \A x \in Worker : worker'[x].kids \subseteq worker[x].kids
      /\ \A j : (ChanHas(j)' <=> ChanHas(j)) /\ (ChanOnce(j)' <=> ChanOnce(j))
  BY <1>1, <1>5, AtType, PoolAssumption DEF With, Handling, ChanHas, ChanOnce
<1>8. KidsNew'
  <2> SUFFICES ASSUME NEW x \in Worker, NEW k \in worker'[x].kids PROVE KidNew(x, k)'
    BY DEF KidsNew
  <2>1. KidNew(x, k) /\ k \in Job
    BY <1>0, <1>7 DEF KidsNew, PTypeOK, Job
  <2> QED BY <1>1, <1>7, <2>1 DEF KidNew, Nowhere
<1>9. ASSUME NEW j \in Job PROVE Apart(j)'
  BY <1>0, <1>1, <1>7 DEF Apart, Nowhere
<1>10. ASSUME NEW j \in Job PROVE Rowed(j)'
  BY <1>0, <1>1, <1>6, <1>7 DEF Rowed
<1>11. ASSUME NEW j \in Job PROVE Tries(j)'
  BY <1>0, <1>1, <1>7 DEF Tries
<1> QED BY <1>2, <1>3, <1>4, <1>6, <1>8, <1>9, <1>10, <1>11 DEF PoolInv
-----------------------------------------------------------------------------
(* The caller submits a job, before any worker runs.                       *)
LEMMA SubmitStep ==
    ASSUME PoolInv, NEW c \in Seed, Submit(c)
    PROVE  PoolInv'
<1>0. PTypeOK /\ Shapes /\ Phase /\ DueOnce /\ KidsNew /\ \A j \in Job : Apart(j) /\ Rowed(j) /\ Tries(j)
  BY DEF PoolInv
<1>1. /\ UNCHANGED <<durable, capacity, done, restarts, todo, poller, queue, stopping,
                     faults, chan, worker>>
      /\ caller.pc = "submit" /\ todo > 0 /\ c \in Fresh(Seed) /\ caller' = [pc |-> "send", job |-> c]
      /\ counted' = counted \cup {c} /\ inFlight' = inFlight + 1
      /\ IF durable THEN CreateJob(c) ELSE UNCHANGED <<row, attempts, due, dlq>>
  BY DEF Submit, Count, store
<1>2. /\ c \in Job /\ row[c] = "none" /\ attempts[c] = 0 /\ dlq[c] = 0 /\ c \notin counted
      /\ Nowhere(c)
  BY <1>0, <1>1, FreshIsNew DEF Job
<1>3. /\ \A w \in Worker : worker[w] = At("new")
      /\ poller.pc = "new" /\ ~ stopping /\ queue = "open" /\ ~ done
  BY <1>0, <1>1 DEF Phase
<1>4. Phase' /\ caller'.pc = "send" /\ caller'.job = c
  BY <1>0, <1>1, <1>3 DEF Phase
<1>5. Shapes'
  BY <1>0, <1>1 DEF Shapes, Shape
<1>6. /\ row' \in [Job -> Status] /\ due' \in Seq(Job) /\ DueOnce' /\ UNCHANGED <<attempts, dlq>>
      /\ \A j \in Job : j # c => row'[j] = row[j]
      /\ row'[c] = IF durable THEN "pending" ELSE "none"
      /\ \A j \in Job : DueHas(j)' => DueHas(j) \/ (j = c /\ durable)
  <2>1. CASE ~ durable
    BY <1>0, <1>1, <1>2, <2>1 DEF PTypeOK, DueOnce, DueHas
  <2>2. CASE durable
    <3>1. row' = [row EXCEPT ![c] = "pending"] /\ due' = Append(due, c) /\ UNCHANGED <<attempts, dlq>>
      BY <1>1, <2>2 DEF CreateJob
    <3>2. ~ DueHas(c)
      BY <1>0, <1>2 DEF Rowed
    <3>3. due' \in Seq(Job) /\ DueOnce' /\ \A j \in Job : DueHas(j)' => DueHas(j) \/ j = c
      BY <1>0, <1>2, <3>1, <3>2, DueAppend
    <3> QED BY <1>0, <1>2, <2>2, <3>1, <3>3 DEF PTypeOK, Status
  <2> QED BY <2>1, <2>2
<1>7. PTypeOK'
  <2>1. counted' \subseteq Job
    BY <1>0, <1>1, <1>2 DEF PTypeOK
  <2>2. inFlight' \in Int
    BY <1>0, <1>1 DEF PTypeOK
  <2>3. caller' \in [pc : {"submit", "send", "wait", "shutdown", "returned"}, job : Job \cup {NoJob}]
    BY <1>1, <1>2
  <2> QED BY <1>0, <1>1, <1>6, <2>1, <2>2, <2>3 DEF PTypeOK
<1>8. /\ \A w \in Worker, j \in Job : ~ With(w, j)' /\ ~ Handling(w, j)' /\ worker'[w].out # j
      /\ \A w \in Worker : worker'[w].kids = {}
      /\ \A j : (ChanHas(j)' <=> ChanHas(j)) /\ (ChanOnce(j)' <=> ChanOnce(j))
  BY <1>1, <1>3, AtType, PoolAssumption DEF With, Handling, ChanHas, ChanOnce
<1>9. KidsNew'
  BY <1>8 DEF KidsNew
<1>10. ASSUME NEW j \in Job PROVE Apart(j)'
  BY <1>0, <1>1, <1>2, <1>4, <1>8 DEF Apart, Nowhere
<1>11. ASSUME NEW j \in Job PROVE Rowed(j)'
  <2>1. CASE j # c
    BY <1>0, <1>1, <1>6, <1>8, <2>1 DEF Rowed
  <2>2. CASE j = c
    <3>1. ~ ChanHas(c)' /\ poller'.job # c
      BY <1>1, <1>2, <1>8 DEF Nowhere
    <3>2. DueHas(c) => durable
      BY <1>0, <1>2 DEF Rowed
    <3> QED BY <1>1, <1>2, <1>6, <1>8, <2>2, <3>1, <3>2 DEF Rowed
  <2> QED BY <2>1, <2>2
<1>12. ASSUME NEW j \in Job PROVE Tries(j)'
  <2>1. CASE j # c
    BY <1>0, <1>1, <1>4, <1>6, <1>8, <2>1 DEF Tries
  <2>2. CASE j = c
    <3>1. attempts'[c] < MaxAttempts /\ attempts'[c] # MaxAttempts /\ dlq'[c] = 0
      BY <1>2, <1>6, PoolAssumption
    <3> QED BY <1>6, <2>2, <3>1 DEF Tries
  <2> QED BY <2>1, <2>2
<1> QED BY <1>4, <1>5, <1>6, <1>7, <1>9, <1>10, <1>11, <1>12 DEF PoolInv

(* The caller sends a signal, or, without a store, the job itself.         *)
LEMMA SubmitSendStep ==
    ASSUME PoolInv, SubmitSend
    PROVE  PoolInv'
<1>0. PTypeOK /\ Shapes /\ Phase /\ DueOnce /\ KidsNew /\ \A j \in Job : Apart(j) /\ Rowed(j) /\ Tries(j)
  BY DEF PoolInv
<1>1. PICK c : c = IF durable THEN NoJob ELSE caller.job
  OBVIOUS
<1>2. /\ UNCHANGED <<durable, capacity, done, restarts, poller, queue, stopping, counted, inFlight,
                     faults, worker, row, attempts, due, dlq>>
      /\ caller.pc = "send" /\ caller' = CallerAt("submit") /\ todo' = todo - 1
      /\ Len(chan) < capacity /\ chan' = Append(chan, c)
  BY <1>1 DEF SubmitSend, Sent, store, accounts
<1>3. /\ \A w \in Worker : worker[w] = At("new")
      /\ poller.pc = "new" /\ ~ stopping /\ queue = "open" /\ ~ done /\ todo > 0 /\ caller.job \in Job
  BY <1>0, <1>2 DEF Phase, Job
<1>4. c \in Job \cup {NoJob} /\ (c \in Job => ~ durable /\ Nowhere(c) /\ caller.job = c)
  BY <1>0, <1>1, <1>3, PoolAssumption DEF Apart
<1>5. /\ chan' \in Seq(Job \cup {NoJob}) /\ Len(chan') = Len(chan) + 1
      /\ \A j \in Job : ChanHas(j)' <=> ChanHas(j) \/ j = c
      /\ \A j \in Job : ChanOnce(j) /\ (j = c => ~ ChanHas(j)) => ChanOnce(j)'
  BY <1>0, <1>2, <1>4, ChanAppend
<1>6. /\ Phase' /\ caller'.job = NoJob
  BY <1>0, <1>2, <1>3 DEF Phase, CallerAt
<1>7. Shapes'
  BY <1>0, <1>2 DEF Shapes, Shape
<1>8. PTypeOK'
  <2>1. Len(chan') <= capacity
    BY <1>0, <1>2, <1>5 DEF PTypeOK
  <2>2. todo' \in 0 .. ChunkSize
    BY <1>0, <1>2, <1>3, PoolAssumption DEF PTypeOK
  <2>3. caller' \in [pc : {"submit", "send", "wait", "shutdown", "returned"}, job : Job \cup {NoJob}]
    BY <1>2 DEF CallerAt
  <2> QED BY <1>0, <1>2, <1>5, <2>1, <2>2, <2>3 DEF PTypeOK
<1>9. /\ \A w \in Worker, j \in Job : ~ With(w, j)' /\ ~ Handling(w, j)' /\ worker'[w].out # j
      /\ \A w \in Worker : worker'[w].kids = {}
  BY <1>2, <1>3, AtType, PoolAssumption DEF With, Handling
<1>10. DueOnce' /\ \A j \in Job : DueHas(j)' => DueHas(j)
  BY <1>0, <1>2 DEF DueOnce, DueHas
<1>11. KidsNew'
  BY <1>9 DEF KidsNew
<1>12. \A j \in Job : poller'.job # j /\ caller'.job # j
  BY <1>0, <1>2, <1>3, <1>6, PoolAssumption DEF Phase
<1>13. ASSUME NEW j \in Job PROVE Apart(j)'
  BY <1>0, <1>4, <1>5, <1>9, <1>12 DEF Apart, Nowhere
<1>14. ASSUME NEW j \in Job PROVE Rowed(j)'
  BY <1>0, <1>2, <1>4, <1>5, <1>9, <1>10, <1>12 DEF Rowed
<1>15. ASSUME NEW j \in Job PROVE Tries(j)'
  <2>1. c \in Job => attempts[c] < MaxAttempts
    BY <1>0, <1>4 DEF Tries
  <2> QED BY <1>0, <1>2, <1>5, <1>9, <1>12, <2>1 DEF Tries
<1> QED BY <1>6, <1>7, <1>8, <1>10, <1>11, <1>13, <1>14, <1>15 DEF PoolInv
-----------------------------------------------------------------------------
(* The poller takes the oldest row.                                        *)
LEMMA PollAcquireStep ==
    ASSUME PoolInv, NEW h \in Job, PollAcquire(h)
    PROVE  PoolInv'
<1>0. PTypeOK /\ Shapes /\ Phase /\ DueOnce /\ KidsNew /\ \A j \in Job : Apart(j) /\ Rowed(j) /\ Tries(j)
  BY DEF PoolInv
<1>1. /\ UNCHANGED <<durable, capacity, done, restarts, todo, caller, queue, stopping, faults, chan, worker>>
      /\ poller.pc = "acquire" /\ poller' = [pc |-> "send", job |-> h] /\ AcquireJob(h)
      /\ counted' = counted \cup {h} /\ (inFlight' = inFlight \/ inFlight' = inFlight + 1)
  BY DEF PollAcquire, NoFault, PollerOnly, CountAcquired, Count, accounts
<1>2. /\ row[h] = "pending" /\ row' = [row EXCEPT ![h] = "running"]
      /\ row' \in [Job -> Status] /\ UNCHANGED <<attempts, due, dlq>>
      /\ durable /\ Nowhere(h) /\ attempts[h] < MaxAttempts
  BY <1>1, AcquiredRow
<1>3. poller'.pc = "send" /\ poller'.job = h
  BY <1>1
<1>4. Phase'
  BY <1>0, <1>1, <1>3 DEF Phase
<1>5. Shapes'
  BY <1>0, <1>1 DEF Shapes, Shape
<1>6. PTypeOK'
  <2>1. counted' \subseteq Job
    BY <1>0, <1>1 DEF PTypeOK
  <2>2. inFlight' \in Int
    BY <1>0, <1>1 DEF PTypeOK
  <2>3. poller' \in [pc : {"new", "idle", "acquire", "send", "exited"}, job : Job \cup {NoJob}]
    BY <1>1
  <2> QED BY <1>0, <1>1, <1>2, <2>1, <2>2, <2>3 DEF PTypeOK
<1>7. DueOnce' /\ \A j \in Job : DueHas(j)' => DueHas(j)
  BY <1>0, <1>2 DEF DueOnce, DueHas
<1>8. /\ \A j, x : (With(x, j)' <=> With(x, j)) /\ (Handling(x, j)' <=> Handling(x, j))
      /\ \A j : (ChanHas(j)' <=> ChanHas(j)) /\ (ChanOnce(j)' <=> ChanOnce(j))
  BY <1>1 DEF With, Handling, ChanHas, ChanOnce
<1>9. \A j \in Job : row'[j] = IF j = h THEN "running" ELSE row[j]
  BY <1>0, <1>2 DEF PTypeOK
<1>10. poller.job \notin Job
  BY <1>0, <1>1, PoolAssumption DEF Phase
<1>11. KidsNew'
  <2> SUFFICES ASSUME NEW x \in Worker, NEW k \in worker'[x].kids PROVE KidNew(x, k)'
    BY DEF KidsNew
  <2>1. KidNew(x, k) /\ k \in Job
    BY <1>0, <1>1 DEF KidsNew, PTypeOK, Job
  <2>2. k # h
    BY <1>2, <2>1 DEF KidNew
  <2> QED BY <1>1, <1>2, <1>3, <1>8, <1>9, <2>1, <2>2 DEF KidNew, Nowhere
<1>12. ASSUME NEW j \in Job PROVE Apart(j)'
  BY <1>0, <1>1, <1>2, <1>3, <1>8 DEF Apart, Nowhere
<1>13. ASSUME NEW j \in Job PROVE Rowed(j)'
  BY <1>0, <1>1, <1>2, <1>3, <1>7, <1>8, <1>9 DEF Rowed, Nowhere
<1>14. ASSUME NEW j \in Job PROVE Tries(j)'
  BY <1>0, <1>1, <1>2, <1>3, <1>8, <1>9 DEF Tries
<1> QED BY <1>4, <1>5, <1>6, <1>7, <1>11, <1>12, <1>13, <1>14 DEF PoolInv

(* The poller passes on what it acquired: the queue is open as long as it  *)
(* has something to send.                                                  *)
LEMMA PollSendStep ==
    ASSUME PoolInv, PollSend
    PROVE  PoolInv'
<1>0. PTypeOK /\ Shapes /\ Phase /\ DueOnce /\ KidsNew /\ \A j \in Job : Apart(j) /\ Rowed(j) /\ Tries(j)
  BY DEF PoolInv
<1>1. PICK h : h = poller.job
  OBVIOUS
<1>2. poller.pc = "send" /\ queue = "open" /\ h \in Job /\ durable
  BY <1>0, <1>1 DEF PollSend, Phase
<1>3. /\ UNCHANGED <<durable, capacity, done, restarts, todo, caller, queue, stopping, faults, worker,
                     counted, inFlight, row, attempts, due, dlq>>
      /\ poller' = PollerAt("idle") /\ Len(chan) < capacity /\ chan' = Append(chan, h)
  BY <1>1, <1>2 DEF PollSend, NoFault, PollerOnly, Sent, GivesUp, store, accounts
<1>4. /\ ~ ChanHas(h) /\ (\A w \in Worker : ~ With(w, h)) /\ row[h] = "running" /\ attempts[h] < MaxAttempts
  BY <1>0, <1>1, <1>2 DEF Apart, Rowed, Tries
<1>5. /\ chan' \in Seq(Job \cup {NoJob}) /\ Len(chan') = Len(chan) + 1
      /\ \A j \in Job : ChanHas(j)' <=> ChanHas(j) \/ j = h
      /\ \A j \in Job : ChanOnce(j) /\ (j = h => ~ ChanHas(j)) => ChanOnce(j)'
  BY <1>0, <1>2, <1>3, ChanAppend
<1>6. Phase' /\ poller'.job = NoJob
  BY <1>0, <1>2, <1>3 DEF Phase, PollerAt
<1>7. Shapes'
  BY <1>0, <1>3 DEF Shapes, Shape
<1>8. PTypeOK'
  <2>1. Len(chan') <= capacity
    BY <1>0, <1>3, <1>5 DEF PTypeOK
  <2>2. poller' \in [pc : {"new", "idle", "acquire", "send", "exited"}, job : Job \cup {NoJob}]
    BY <1>3 DEF PollerAt
  <2> QED BY <1>0, <1>3, <1>5, <2>1, <2>2 DEF PTypeOK
<1>9. \A j, x : (With(x, j)' <=> With(x, j)) /\ (Handling(x, j)' <=> Handling(x, j))
  BY <1>3 DEF With, Handling
<1>10. DueOnce' /\ \A j \in Job : DueHas(j)' => DueHas(j)
  BY <1>0, <1>3 DEF DueOnce, DueHas
<1>11. \A j \in Job : poller'.job # j
  BY <1>6, PoolAssumption
<1>12. KidsNew'
  <2> SUFFICES ASSUME NEW x \in Worker, NEW k \in worker'[x].kids PROVE KidNew(x, k)'
    BY DEF KidsNew
  <2>1. KidNew(x, k) /\ k \in Job
    BY <1>0, <1>3 DEF KidsNew, PTypeOK, Job
  <2>2. k # h
    BY <1>4, <2>1 DEF KidNew
  <2> QED BY <1>3, <1>5, <1>9, <1>11, <2>1, <2>2 DEF KidNew, Nowhere
<1>13. ASSUME NEW j \in Job PROVE Apart(j)'
  BY <1>0, <1>2, <1>3, <1>4, <1>5, <1>9, <1>11 DEF Apart
<1>14. ASSUME NEW j \in Job PROVE Rowed(j)'
  BY <1>0, <1>3, <1>4, <1>5, <1>9, <1>10, <1>11 DEF Rowed
<1>15. ASSUME NEW j \in Job PROVE Tries(j)'
  BY <1>0, <1>3, <1>4, <1>5, <1>9, <1>11 DEF Tries
<1> QED BY <1>6, <1>7, <1>8, <1>10, <1>12, <1>13, <1>14, <1>15 DEF PoolInv

(* The rows that queue.New loads: different rows that are due, running     *)
(* from then on.                                                           *)
LEMMA RestartLoads ==
    ASSUME PoolInv, NEW reclaims \in BOOLEAN, NEW n \in Nat, Restart(reclaims, n)
    PROVE  /\ durable /\ durable' = durable /\ UNCHANGED <<attempts, due, dlq>>
           /\ chan' \in Seq(Job \cup {NoJob}) /\ Len(chan') = n
           /\ row' \in [Job -> Status] /\ (faults' = faults \/ Fault)
           /\ \A j \in Job : ChanOnce(j)' /\ (ChanHas(j)' => row'[j] = "running")
           /\ \A j \in Job : ChanHas(j)' => row[j] \in {"pending", "running"}
           /\ \A j \in Job : \/ row'[j] = row[j]
                             \/ row[j] \in {"pending", "running"} /\ row'[j] \in {"pending", "running"}
<1>0. PTypeOK /\ DueOnce
  BY DEF PoolInv
<1> DEFINE rows == IF reclaims THEN ReclaimStuckJobs ELSE row
<1>1. PICK at \in Reloads(rows, n) :
          /\ chan' = [k \in 1 .. n |-> due[at[k]]] /\ (faults' = faults \/ Fault)
  BY DEF Restart, NoFault
<1>2. /\ row' = [j \in Job |-> IF j \in Range(chan') THEN "running" ELSE rows[j]]
      /\ durable /\ durable' = durable /\ UNCHANGED <<attempts, due, dlq>>
  BY DEF Restart
<1>3. rows \in [Job -> Status]
      /\ \A j \in Job : rows[j] = row[j] \/ (row[j] = "running" /\ rows[j] = "pending")
  BY <1>0 DEF PTypeOK, ReclaimStuckJobs, Status
<1>4. /\ at \in [1 .. n -> Eligible(rows)]
      /\ \A i, k \in 1 .. n : i < k => at[i] < at[k]
  BY <1>1 DEF Reloads
<1> HIDE DEF rows
<1>5. \A i \in 1 .. n : at[i] \in 1 .. Len(due) /\ due[at[i]] \in Job /\ rows[due[at[i]]] = "pending"
  <2>1. due \in Seq(Job) /\ DOMAIN due = 1 .. Len(due) /\ \A i \in 1 .. Len(due) : due[i] \in Job
    BY <1>0 DEF PTypeOK
  <2> QED BY <1>4, <2>1 DEF Eligible
<1>6. chan' \in Seq(Job \cup {NoJob}) /\ Len(chan') = n /\ \A i \in 1 .. n : chan'[i] = due[at[i]]
  <2>1. chan' \in [1 .. n -> Job \cup {NoJob}]
    BY <1>1, <1>5
  <2>2. chan' \in Seq(Job \cup {NoJob})
    BY <2>1, SeqDef
  <2>3. Len(chan') = n
    BY <1>1, <2>2, LenProperties
  <2> QED BY <1>1, <2>2, <2>3
<1>7. ASSUME NEW j \in Job, ChanHas(j)' PROVE row'[j] = "running" /\ rows[j] = "pending"
  <2>1. PICK i \in 1 .. n : chan'[i] = j
    BY <1>6, <1>7 DEF ChanHas
  <2>2. j \in Range(chan') /\ rows[j] = "pending"
    BY <1>1, <1>5, <1>6, <2>1 DEF Range
  <2> QED BY <1>2, <2>2
<1>8. ASSUME NEW j \in Job PROVE ChanOnce(j)'
  <2> SUFFICES ASSUME NEW i \in 1 .. n, NEW k \in 1 .. n, chan'[i] = j, chan'[k] = j PROVE i = k
    BY <1>6 DEF ChanOnce
  <2>1. at[i] = at[k] /\ at[i] \in Nat
    BY <1>0, <1>5, <1>6 DEF DueOnce
  <2>2. ~ (i < k) /\ ~ (k < i)
    BY <1>4, <2>1
  <2> QED BY <2>2
<1>9. \A j \in Job : j \in Range(chan') => ChanHas(j)'
  BY <1>1, <1>6 DEF Range, ChanHas
<1>10. row' \in [Job -> Status]
  BY <1>2, <1>3 DEF Status
<1>11. ASSUME NEW j \in Job
       PROVE  \/ row'[j] = row[j]
              \/ row[j] \in {"pending", "running"} /\ row'[j] \in {"pending", "running"}
  BY <1>2, <1>3, <1>7, <1>9
<1> QED BY <1>1, <1>2, <1>3, <1>6, <1>7, <1>8, <1>10, <1>11

(* A new process starts on the store that the last one left.               *)
LEMMA RestartStep ==
    ASSUME PoolInv, NEW reclaims \in BOOLEAN, NEW n \in Nat, Restart(reclaims, n)
    PROVE  PoolInv'
<1>0. PTypeOK /\ Shapes /\ Phase /\ DueOnce /\ KidsNew /\ \A j \in Job : Apart(j) /\ Rowed(j) /\ Tries(j)
  BY DEF PoolInv
<1>1. /\ durable /\ durable' = durable /\ UNCHANGED <<attempts, due, dlq>>
      /\ chan' \in Seq(Job \cup {NoJob}) /\ Len(chan') = n
      /\ row' \in [Job -> Status] /\ (faults' = faults \/ Fault)
      /\ \A j \in Job : ChanOnce(j)' /\ (ChanHas(j)' => row'[j] = "running")
      /\ \A j \in Job : ChanHas(j)' => row[j] \in {"pending", "running"}
      /\ \A j \in Job : \/ row'[j] = row[j]
                        \/ row[j] \in {"pending", "running"} /\ row'[j] \in {"pending", "running"}
  BY RestartLoads
<1>2. /\ restarts < MaxRestarts /\ restarts' = restarts + 1
      /\ capacity' = (IF n > BufferSize THEN n ELSE BufferSize)
      /\ inFlight' = n /\ counted' = {} /\ done' = FALSE
      /\ queue' = "open" /\ stopping' = FALSE
      /\ worker' = [w \in Worker |-> At("new")]
      /\ poller' = PollerAt("new") /\ caller' = CallerAt("submit") /\ todo' = ChunkSize
  BY DEF Restart
<1>3. \A w \in Worker : worker'[w] = At("new")
  BY <1>2
<1>4. poller'.pc = "new" /\ poller'.job = NoJob /\ caller'.pc = "submit" /\ caller'.job = NoJob
  BY <1>2 DEF PollerAt, CallerAt
<1>5. Phase'
  BY <1>2, <1>3, <1>4 DEF Phase
<1>6. Shapes'
  <2>1. \A w \in Worker : Shape(worker'[w])
    BY <1>3, AtType
  <2> QED BY <1>1, <2>1 DEF Shapes, Shape
<1>7. PTypeOK'
  <2>1. capacity' \in Nat /\ Len(chan') <= capacity' /\ inFlight' \in Int
    BY <1>1, <1>2, PoolAssumption
  <2>2. faults' \in 0 .. MaxFaults /\ restarts' \in 0 .. MaxRestarts /\ todo' \in 0 .. ChunkSize
    <3>1. /\ faults \in 0 .. MaxFaults /\ restarts \in 0 .. MaxRestarts
          /\ MaxFaults \in Nat /\ MaxRestarts \in Nat /\ ChunkSize \in Nat
      BY <1>0, PoolAssumption DEF PTypeOK
    <3>2. faults' = faults \/ (faults < MaxFaults /\ faults' = faults + 1)
      BY <1>1 DEF Fault
    <3>3. restarts < MaxRestarts /\ restarts' = restarts + 1 /\ todo' = ChunkSize
      BY <1>2
    <3> QED BY <3>1, <3>2, <3>3
  <2>3. worker' \in [Worker -> WorkerRec]
    BY <1>2, AtType
  <2>4. /\ poller' \in [pc : {"new", "idle", "acquire", "send", "exited"}, job : Job \cup {NoJob}]
        /\ caller' \in [pc : {"submit", "send", "wait", "shutdown", "returned"}, job : Job \cup {NoJob}]
    BY <1>2 DEF PollerAt, CallerAt
  <2> QED BY <1>0, <1>1, <1>2, <2>1, <2>2, <2>3, <2>4 DEF PTypeOK, WorkerRec
<1>8. /\ \A w \in Worker, j \in Job : ~ With(w, j)' /\ ~ Handling(w, j)' /\ worker'[w].out # j
      /\ \A w \in Worker : worker'[w].kids = {}
  BY <1>3, AtType, PoolAssumption DEF With, Handling
<1>9. \A j \in Job : poller'.job # j /\ caller'.job # j
  BY <1>4, PoolAssumption
<1>10. DueOnce' /\ \A j \in Job : DueHas(j)' => DueHas(j)
  BY <1>0, <1>1 DEF DueOnce, DueHas
<1>11. KidsNew'
  BY <1>8 DEF KidsNew
<1>12. ASSUME NEW j \in Job PROVE Apart(j)'
  BY <1>1, <1>8, <1>9 DEF Apart
<1>13. ASSUME NEW j \in Job PROVE Rowed(j)'
  BY <1>0, <1>1, <1>8, <1>9, <1>10 DEF Rowed
<1>14. ASSUME NEW j \in Job PROVE Tries(j)'
  BY <1>0, <1>1, <1>8, <1>9 DEF Tries
<1> QED BY <1>5, <1>6, <1>7, <1>10, <1>11, <1>12, <1>13, <1>14 DEF PoolInv
-----------------------------------------------------------------------------
(* Every step of the pool, its caller and its poller keeps the invariant.  *)
LEMMA PoolStep == PoolInv /\ [Next]_vars => PoolInv'
<1> SUFFICES ASSUME PoolInv, [Next]_vars PROVE PoolInv'
  OBVIOUS
<1>1. CASE UNCHANGED vars
  <2>1. /\ UNCHANGED <<durable, row, attempts, due, dlq, chan, capacity, queue, inFlight, counted, done,
                       stopping, worker, poller, caller, todo, faults, restarts>>
    BY <1>1 DEF vars, store, accounts
  <2>2. PTypeOK' /\ Shapes' /\ Phase' /\ DueOnce'
    BY <2>1 DEF PoolInv, PTypeOK, Shapes, Shape, Phase, DueOnce
  <2>3. \A j \in Job : DueHas(j)' => DueHas(j)
    BY <2>1 DEF DueHas
  <2>4. KidsNew' /\ \A j \in Job : Apart(j)' /\ Rowed(j)' /\ Tries(j)'
    BY <2>1, <2>3, NothingMoves
  <2> QED BY <2>2, <2>4 DEF PoolInv
<1>2. CASE Calls \/ SubmitError \/ Shutdown \/ Return \/ Close \/ Closed
  <2>1. CASE \E j \in Seed : Submit(j)
    BY <2>1, SubmitStep
  <2>2. CASE SubmitSend
    BY <2>2, SubmitSendStep
  <2>3. CASE Start \/ Shutdown \/ Close \/ Closed \/ Return \/ SubmitError
    BY <2>3, CallerStep
  <2> QED BY <1>2, <2>1, <2>2, <2>3 DEF Calls
<1>3. ASSUME NEW w \in Worker, Works(w) PROVE PoolInv'
  <2>1. CASE Dequeue(w)
    BY <2>1, DequeueStep
  <2>2. CASE \E j \in Job : DequeueAcquire(w, j)
    BY <2>2, DequeueAcquireStep
  <2>3. CASE DequeueStale(w) \/ Exit(w) \/ CheckDone(w)
    BY <2>3, IdleStep
  <2>4. CASE \E k \in Kid : SubmitChild(w, k)
    BY <2>4, SubmitChildStep
  <2>5. CASE SendChild(w) \/ Requeue(w)
    BY <2>5, WorkerSendStep
  <2>6. CASE Release(w)
    BY <2>6, ReleaseStep
  <2> QED BY <1>3, <2>1, <2>2, <2>3, <2>4, <2>5, <2>6 DEF Works
<1>4. ASSUME NEW w \in Worker, Handles(w) PROVE PoolInv'
  BY <1>4, HandleOKStep, HandleRetryStep, HandleExhaustedStep DEF Handles
<1>5. CASE Polls
  BY <1>5, PollAcquireStep, PollSendStep, PollMoveStep DEF Polls
<1>6. CASE \E j \in Job : Due(j)
  BY <1>6, DueStep
<1>7. CASE \E reclaims \in BOOLEAN, n \in 0 .. Cardinality(Job) : Restart(reclaims, n)
  <2>1. \A n \in 0 .. Cardinality(Job) : n \in Nat
    OBVIOUS
  <2> QED BY <1>7, <2>1, RestartStep
<1> QED BY <1>1, <1>2, <1>3, <1>4, <1>5, <1>6, <1>7 DEF Next

(* PoolInv holds at every state.                                           *)
LEMMA PoolInvariant == Spec => []PoolInv
<1> QED BY PoolInit, PoolStep, PTL DEF Spec

(* Every variable keeps its type: in particular the channel never holds    *)
(* more than its capacity, and no job uses more than MaxAttempts.          *)
THEOREM PoolTypeCorrect == Spec => []PTypeOK
<1>1. PoolInv => PTypeOK
  BY DEF PoolInv
<1> QED BY <1>1, PoolInvariant, PTL

(* A job is quarantined exactly when it has used up its attempts, once     *)
(* (HandleExhausted, Publish and the store's DeadLetterJob).               *)
THEOREM QuarantineKept == Spec => []Quarantine
<1>1. PoolInv => Quarantine
  BY DEF PoolInv, Tries, Quarantine
<1> QED BY <1>1, PoolInvariant, PTL

(* The places of a job, in the terms of the invariant.                     *)
LEMMA PlacesOf ==
    ASSUME PoolInv, NEW j \in Job
    PROVE  /\ Places(j) = {} <=> Nowhere(j)
           /\ \A p, q \in Places(j) : p = q
<1>1. Apart(j)
  BY DEF PoolInv
<1>2. /\ \A i \in 1 .. Len(chan) : chan[i] = j => <<"channel", i>> \in Places(j)
      /\ \A w \in Worker : With(w, j) => <<"worker", w>> \in Places(j)
      /\ poller.job = j => <<"poller", j>> \in Places(j)
  BY DEF Places, With
<1>3. ASSUME NEW p \in Places(j)
      PROVE  \/ \E i \in 1 .. Len(chan) : chan[i] = j /\ p = <<"channel", i>>
             \/ \E w \in Worker : With(w, j) /\ p = <<"worker", w>>
             \/ poller.job = j /\ p = <<"poller", j>>
  BY DEF Places, With
<1>4. Places(j) = {} <=> Nowhere(j)
  BY <1>2, <1>3 DEF Nowhere, ChanHas
<1>5. ASSUME NEW p \in Places(j), NEW q \in Places(j) PROVE p = q
  <2>1. CASE \E i \in 1 .. Len(chan) : chan[i] = j /\ p = <<"channel", i>>
    BY <1>1, <1>3, <2>1 DEF Apart, ChanHas, ChanOnce
  <2>2. CASE \E w \in Worker : With(w, j) /\ p = <<"worker", w>>
    BY <1>1, <1>3, <2>2 DEF Apart, ChanHas
  <2>3. CASE poller.job = j /\ p = <<"poller", j>>
    BY <1>1, <1>3, <2>3 DEF Apart, ChanHas
  <2> QED BY <1>3, <2>1, <2>2, <2>3
<1> QED BY <1>4, <1>5

(* No job is in two places: in the channel twice, with two workers, or     *)
(* with a worker while the channel or the poller still has it.             *)
THEOREM OneHolderKept == Spec => []OneHolder
<1>1. ASSUME PoolInv, NEW j \in Job PROVE Cardinality(Places(j)) <= 1
  <2>1. CASE Places(j) = {}
    BY <2>1, FS_EmptySet
  <2>2. CASE Places(j) # {}
    <3>1. PICK p \in Places(j) : TRUE
      BY <2>2
    <3>2. Places(j) = {p}
      BY <1>1, <3>1, PlacesOf
    <3>3. Cardinality({p}) = 1
      BY FS_Singleton
    <3> QED BY <3>2, <3>3
  <2> QED BY <2>1, <2>2
<1>2. PoolInv => OneHolder
  BY <1>1 DEF OneHolder
<1> QED BY <1>2, PoolInvariant, PTL
-----------------------------------------------------------------------------
(* Steps that count nothing new: it is enough that no counted job drops    *)
(* out and that nothing uncounted comes up.                                *)
LEMMA SameCount ==
    ASSUME HeldInv, AccountInv, CallerRow',
           UNCHANGED inFlight, done' => done \/ inFlight = 0,
           Calm' => Calm /\ \A j \in counted' : (j \in counted /\ (Held(j) => Held(j)')) \/ Held(j)',
           First' => /\ First
                     /\ counted \subseteq counted' /\ \A j \in counted' : j \in counted \/ (j \in Job /\ Underway(j))
                     /\ \A j \in Job : Underway(j)' => Underway(j)
                     /\ \A w \in Worker : Recorded(w)'
    PROVE  HeldInv' /\ AccountInv'
<1>1. HeldInv'
  BY DEF HeldInv
<1>2. ASSUME First' PROVE counted' = counted
  BY <1>2 DEF AccountInv
<1>3. ASSUME First', done' PROVE counted = {}
  BY <1>3, FS_EmptySet DEF AccountInv
<1>4. AccountInv'
  BY <1>2, <1>3 DEF AccountInv
<1> QED BY <1>1, <1>4

(* A failed store call leaves its mark.                                    *)
LEMMA FaultShows ==
    ASSUME PTypeOK, faults' = faults \/ Fault
    PROVE  faults' = 0 => faults = 0 /\ ~ Fault
<1>1. faults \in Nat
  BY PoolAssumption DEF PTypeOK
<1>2. Fault => faults' = faults + 1
  BY DEF Fault
<1>3. Fault => faults' # 0
  BY <1>1, <1>2
<1> QED BY <1>3

(* At the start nothing is counted.                                        *)
LEMMA FlowInit == Init => FlowInv
<1> SUFFICES ASSUME Init PROVE FlowInv
  OBVIOUS
<1>1. PoolInv
  BY PoolInit
<1>2. counted = {} /\ inFlight = 0 /\ ~ done /\ row = [j \in Job |-> "none"]
  BY DEF Init
<1>3. \A j \in Job : caller.job # j
  BY PoolAssumption DEF Init, CallerAt
<1>4. HeldInv
  BY <1>2, <1>3 DEF HeldInv, CallerRow
<1>5. \A j \in Job : ~ Underway(j)
  <2>1. \A w \in Worker, j \in Job : ~ With(w, j)
    BY AtType, PoolAssumption DEF Init, With
  <2>2. \A j \in Job : ~ ChanHas(j) /\ poller.job # j
    BY PoolAssumption DEF Init, ChanHas, PollerAt
  <2> QED BY <1>2, <1>3, <2>1, <2>2 DEF Underway, Nowhere
<1>6. \A w \in Worker : Recorded(w)
  BY AtType DEF Init, Recorded
<1>7. AccountInv
  BY <1>2, <1>5, <1>6, FS_EmptySet DEF AccountInv
<1> QED BY <1>1, <1>4, <1>7 DEF FlowInv

(* Steps that move no job.                                                 *)
LEMMA NothingFlows ==
    ASSUME FlowInv, UNCHANGED <<durable, row, chan, counted, inFlight, restarts>>,
           poller'.job = poller.job, caller'.job = caller.job,
           faults' = faults \/ Fault, stopping => stopping', done' => done \/ inFlight = 0,
           \A w \in Worker :
               /\ worker'[w].job = worker[w].job /\ worker'[w].out = worker[w].out
               /\ worker'[w].pc \in {"kids", "release"} => worker[w].pc \in {"kids", "release"}
    PROVE  HeldInv' /\ AccountInv'
<1>1. /\ \A j : ChanHas(j)' <=> ChanHas(j)
      /\ \A w \in Worker : \A j : With(w, j)' <=> With(w, j)
  BY DEF ChanHas, With
<1>2. \A j : Nowhere(j)' <=> Nowhere(j)
  BY <1>1 DEF Nowhere
<1>3. \A j : (Held(j)' <=> Held(j)) /\ (Underway(j)' <=> Underway(j))
  BY <1>2 DEF Held, Underway
<1>4. (Calm' => Calm) /\ (First' => First)
  BY FaultShows DEF FlowInv, PoolInv, Calm, First
<1>5. CallerRow'
  BY DEF FlowInv, HeldInv, CallerRow
<1>6. First' => \A w \in Worker : Recorded(w)'
  BY <1>4 DEF FlowInv, AccountInv, Recorded
<1> QED BY <1>3, <1>4, <1>5, <1>6, SameCount DEF FlowInv

(* Steps of the caller, the poller and time that move no job.              *)
LEMMA QuietFlow ==
    ASSUME FlowInv,
           \/ Start \/ Shutdown \/ Close \/ Closed \/ Return \/ SubmitError
           \/ PollCheck \/ PollNone \/ PollExit \/ \E j \in Job : Due(j)
    PROVE  HeldInv' /\ AccountInv'
<1>0. PTypeOK /\ Phase
  BY DEF FlowInv, PoolInv
<1>1. /\ UNCHANGED <<durable, row, chan, counted, inFlight, restarts, done>>
      /\ faults' = faults \/ Fault
      /\ worker' = worker \/ (Start /\ worker' = [w \in Worker |-> At("idle")])
      /\ stopping' = stopping \/ stopping' = TRUE
  BY DEF Start, Shutdown, Close, Closed, Return, SubmitError, PollCheck, PollNone,
         PollExit, NoFault, PollerOnly, Due, store, accounts
<1>2. caller'.job = caller.job
  BY <1>0 DEF Phase, Start, Shutdown, Close, Closed, Return, SubmitError, PollCheck, PollNone,
                  PollExit, PollerOnly, Due, CallerAt
<1>3. poller'.job = poller.job
  BY <1>0 DEF Phase, Start, Shutdown, Close, Closed, Return, SubmitError, PollCheck, PollNone,
                  PollExit, Due, PollerAt
<1>4. Start => \A w \in Worker : worker[w] = At("new")
  BY <1>0 DEF Start, Phase
<1>5. ASSUME NEW w \in Worker
      PROVE  /\ worker'[w].job = worker[w].job /\ worker'[w].out = worker[w].out
             /\ worker'[w].pc \in {"kids", "release"} => worker[w].pc \in {"kids", "release"}
  BY <1>1, <1>4, AtType
<1> QED BY <1>1, <1>2, <1>3, <1>5, NothingFlows

(* A worker finds nothing to take, exits, or closes Done because inFlight  *)
(* is zero.                                                                *)
LEMMA IdleFlow ==
    ASSUME FlowInv, NEW w \in Worker, DequeueStale(w) \/ Exit(w) \/ CheckDone(w)
    PROVE  HeldInv' /\ AccountInv'
<1>0. PTypeOK /\ Shapes
  BY DEF FlowInv, PoolInv
<1>1. /\ UNCHANGED <<durable, row, chan, counted, inFlight, restarts, poller, caller, stopping>>
      /\ (faults' = faults \/ Fault) /\ (done' => done \/ inFlight = 0)
      /\ worker[w].pc \in {"acquire", "idle", "check"}
  <2>1. CASE DequeueStale(w)
    BY <2>1 DEF DequeueStale, Others, store, accounts, NoFault
  <2>2. CASE Exit(w)
    BY <2>2 DEF Exit, Others, store, accounts, NoFault
  <2>3. CASE CheckDone(w)
    <3>1. done' => done \/ inFlight = 0
      BY <2>3 DEF CheckDone
    <3> QED BY <2>3, <3>1 DEF CheckDone, Others, store, NoFault
  <2> QED BY <2>1, <2>2, <2>3
<1>2. PICK pc \in {"idle", "exited"} : Moves(w, At(pc))
  BY DEF DequeueStale, Exit, CheckDone
<1>3. worker[w].job = NoJob /\ worker[w].kids = {} /\ worker[w].out = NoJob
  BY <1>0, <1>1 DEF Shapes, Shape
<1>4. ASSUME NEW x \in Worker
      PROVE  /\ worker'[x].job = worker[x].job /\ worker'[x].out = worker[x].out
             /\ worker'[x].pc \in {"kids", "release"} => worker[x].pc \in {"kids", "release"}
  BY <1>0, <1>2, <1>3, AtType, WorkerMoves
<1> QED BY <1>1, <1>4, NothingFlows

(* A receive: what was in the channel is with the worker.                  *)
LEMMA DequeueFlow ==
    ASSUME FlowInv, NEW w \in Worker, Dequeue(w)
    PROVE  HeldInv' /\ AccountInv'
<1>0. /\ PTypeOK /\ Shapes /\ Phase /\ HeldInv /\ AccountInv
  BY DEF FlowInv, PoolInv
<1>1. PICK h : h = Head(chan)
  OBVIOUS
<1>2. /\ UNCHANGED <<durable, row, inFlight, done, restarts, caller, poller, stopping, faults>>
      /\ worker[w].pc = "idle" /\ chan # <<>> /\ chan' = Tail(chan)
      /\ IF h = NoJob THEN Moves(w, At("acquire")) /\ counted' = counted
                      ELSE Moves(w, Busy("handle", h, {}, NoJob)) /\ counted' = counted \cup {h}
  BY <1>1 DEF Dequeue, Others, store, NoFault
<1>3. /\ h \in Job \cup {NoJob} /\ ChanHas(h)
      /\ \A j \in Job : ChanHas(j)' => ChanHas(j)
      /\ \A j \in Job : ChanHas(j) /\ j # h => ChanHas(j)'
  BY <1>0, <1>1, <1>2, ChanTail
<1>4. PICK to : /\ Moves(w, to) /\ to.job = h /\ to.out = NoJob /\ to.pc \in {"acquire", "handle"}
  <2>1. CASE h = NoJob
    BY <1>2, <2>1, AtType
  <2>2. CASE h # NoJob
    <3>1. h \in Job
      BY <1>3, <2>2
    <3> QED BY <1>2, <2>2, <3>1, BusyType
  <2> QED BY <2>1, <2>2
<1>5. worker'[w] = to /\ \A x \in Worker : x # w => worker'[x] = worker[x]
  BY <1>0, <1>4, WorkerMoves
<1>6. worker[w].job = NoJob /\ worker[w].out = NoJob
  BY <1>0, <1>2 DEF Shapes, Shape
<1>7. \A j \in Job : Nowhere(j)' <=> Nowhere(j)
  <2>1. \A j \in Job, x \in Worker : With(x, j)' <=> With(x, j) \/ (x = w /\ j = h)
    BY <1>4, <1>5, <1>6, PoolAssumption DEF With
  <2> QED BY <1>2, <1>3, <2>1 DEF Nowhere
<1>8. h \in Job => ~ Nowhere(h)
  BY <1>3 DEF Nowhere
<1>9. \A j \in Job : (Held(j)' <=> Held(j)) /\ (Underway(j)' <=> Underway(j))
  BY <1>2, <1>7 DEF Held, Underway
<1>10. (Calm' => Calm) /\ (First' => First) /\ CallerRow'
  BY <1>0, <1>2 DEF Calm, First, HeldInv, CallerRow
<1>11. counted \subseteq counted' /\ counted \subseteq Job /\ \A j \in counted' : j \in counted \/ (j = h /\ h \in Job)
  BY <1>0, <1>2, <1>3 DEF PTypeOK
<1>12. \A j \in counted' : (j \in counted /\ (Held(j) => Held(j)')) \/ Held(j)'
  BY <1>7, <1>8, <1>9, <1>11 DEF Held
<1>13. \A j \in counted' : j \in counted \/ (j \in Job /\ Underway(j))
  BY <1>8, <1>11 DEF Underway
<1>14. First' => \A x \in Worker : Recorded(x)'
  BY <1>0, <1>2, <1>4, <1>5, <1>10 DEF AccountInv, Recorded
<1> QED BY <1>0, <1>2, <1>9, <1>10, <1>11, <1>12, <1>13, <1>14, SameCount

(* A worker follows a signal to a row that was pending, hence counted.     *)
LEMMA DequeueAcquireFlow ==
    ASSUME FlowInv, NEW w \in Worker, NEW h \in Job, DequeueAcquire(w, h)
    PROVE  HeldInv' /\ AccountInv'
<1>0. /\ PTypeOK /\ Shapes /\ Phase /\ HeldInv /\ AccountInv /\ PoolInv
  BY DEF FlowInv, PoolInv
<1>1. PICK to : to = Busy("handle", h, {}, NoJob)
  OBVIOUS
<1>2. /\ UNCHANGED <<durable, chan, inFlight, done, restarts, caller, poller, stopping, faults>>
      /\ worker[w].pc = "acquire" /\ Moves(w, to) /\ counted' = counted \cup {h} /\ AcquireJob(h)
  BY <1>1 DEF DequeueAcquire, Others, NoFault
<1>3. row[h] = "pending" /\ row' = [row EXCEPT ![h] = "running"] /\ Nowhere(h)
  BY <1>0, <1>2, AcquiredRow
<1>4. to.job = h /\ to.out = NoJob /\ to.pc = "handle"
  BY <1>1, BusyType
<1>5. worker'[w] = to /\ \A x \in Worker : x # w => worker'[x] = worker[x]
  BY <1>0, <1>2, WorkerMoves
<1>6. worker[w].job = NoJob /\ worker[w].out = NoJob
  BY <1>0, <1>2 DEF Shapes, Shape
<1>7. \A j \in Job : Nowhere(j)' <=> Nowhere(j) /\ j # h
  <2>1. \A j \in Job, x \in Worker : With(x, j)' <=> With(x, j) \/ (x = w /\ j = h)
    BY <1>4, <1>5, <1>6, PoolAssumption DEF With
  <2>2. \A j : ChanHas(j)' <=> ChanHas(j)
    BY <1>2 DEF ChanHas
  <2> QED BY <1>2, <1>3, <2>1, <2>2 DEF Nowhere
<1>8. \A j \in Job : row'[j] = IF j = h THEN "running" ELSE row[j]
  BY <1>0, <1>3 DEF PTypeOK
<1>9. \A j \in Job : (Held(j) => Held(j)') /\ (Underway(j)' => Underway(j)) /\ (j = h => Held(j)' /\ Underway(j))
  BY <1>2, <1>3, <1>7, <1>8 DEF Held, Underway
<1>10. caller.pc \notin {"submit", "send"}
  BY <1>0, <1>2, AtType DEF Phase
<1>11. (Calm' => Calm) /\ (First' => First)
  BY <1>2 DEF Calm, First
<1>12. CallerRow'
  BY <1>0, <1>2, <1>10, PoolAssumption DEF CallerRow, Phase
<1>13. counted \subseteq counted' /\ counted \subseteq Job /\ \A j \in counted' : j \in counted \/ j = h
  BY <1>0, <1>2 DEF PTypeOK
<1>14. First' => \A x \in Worker : Recorded(x)'
  <2> SUFFICES ASSUME First', NEW x \in Worker, durable, worker'[x].pc \in {"kids", "release"}
               PROVE  row'[worker'[x].job] # "running"
    BY <1>2 DEF Recorded
  <2>1. worker'[x] = worker[x] /\ worker[x].job \in Job
    BY <1>0, <1>4, <1>5 DEF Shapes, Shape
  <2>2. worker[x].job # h
    BY <1>3, <2>1 DEF Nowhere, With
  <2> QED BY <1>0, <1>8, <1>11, <2>1, <2>2 DEF AccountInv, Recorded
<1> QED BY <1>0, <1>2, <1>9, <1>11, <1>12, <1>13, <1>14, SameCount

(* A handler has ended for good: the worker still has the job, and its row *)
(* is settled unless the write failed.                                     *)
LEMMA SettleFlow ==
    ASSUME FlowInv, NEW w \in Worker, (\E kids \in SUBSET Kid : HandleOK(w, kids)) \/ HandleExhausted(w)
    PROVE  HeldInv' /\ AccountInv'
<1>0. /\ PTypeOK /\ Shapes /\ Phase /\ HeldInv /\ AccountInv
  BY DEF FlowInv, PoolInv
<1>1. PICK h : h = worker[w].job
  OBVIOUS
<1>2. /\ UNCHANGED <<durable, chan, inFlight, counted, done, restarts, caller, poller, stopping>>
      /\ worker[w].pc = "handle" /\ (faults' = faults \/ Fault)
      /\ \/ durable /\ row' \in {[row EXCEPT ![h] = "completed"], [row EXCEPT ![h] = "dead_lettered"]}
         \/ ~ durable /\ row' = row
         \/ durable /\ row' = row /\ Fault
  <2>1. CASE \E kids \in SUBSET Kid : HandleOK(w, kids)
    BY <1>1, <2>1 DEF HandleOK, CompleteJob, Others, NoFault, store, accounts
  <2>2. CASE HandleExhausted(w)
    BY <1>1, <2>2 DEF HandleExhausted, Publish, DeadLetterJob, Others, NoFault, store, accounts
  <2> QED BY <2>1, <2>2
<1>3. h \in Job /\ worker[w].out = NoJob
  BY <1>0, <1>1, <1>2 DEF Shapes, Shape
<1>4. PICK to : Moves(w, to) /\ to.job = h /\ to.out = NoJob /\ to.pc \in {"kids", "release"}
  BY <1>1, <1>3, BusyType DEF HandleOK, HandleExhausted
<1>5. worker'[w] = to /\ \A x \in Worker : x # w => worker'[x] = worker[x]
  BY <1>0, <1>4, WorkerMoves
<1>6. With(w, h) /\ \A x \in Worker : With(x, h) => x = w
  BY <1>1, <1>3 DEF With, FlowInv, PoolInv, Apart
<1>7. \A j \in Job : Nowhere(j)' <=> Nowhere(j)
  <2>1. \A j \in Job, x \in Worker : With(x, j)' <=> With(x, j)
    BY <1>1, <1>3, <1>4, <1>5 DEF With
  <2>2. \A j : ChanHas(j)' <=> ChanHas(j)
    BY <1>2 DEF ChanHas
  <2> QED BY <1>2, <2>1, <2>2 DEF Nowhere
<1>8. \A j \in Job : row'[j] = row[j] \/ (j = h /\ row'[j] \in {"completed", "dead_lettered"})
  BY <1>0, <1>2 DEF PTypeOK
<1>9. \A j \in Job : (Held(j) => Held(j)') /\ (Underway(j)' => Underway(j))
  BY <1>2, <1>6, <1>7, <1>8 DEF Held, Underway, Nowhere
<1>10. caller.pc \notin {"submit", "send"}
  BY <1>0, <1>2, AtType DEF Phase
<1>11. (Calm' => Calm) /\ (First' => First) /\ (faults' = 0 => ~ Fault)
  BY <1>0, <1>2, FaultShows DEF Calm, First
<1>12. CallerRow'
  BY <1>0, <1>2, <1>10, PoolAssumption DEF CallerRow, Phase
<1>13. counted \subseteq Job
  BY <1>0 DEF PTypeOK
<1>14. First' => \A x \in Worker : Recorded(x)'
  <2> SUFFICES ASSUME First', NEW x \in Worker, durable, worker'[x].pc \in {"kids", "release"}
               PROVE  row'[worker'[x].job] # "running"
    BY <1>2 DEF Recorded
  <2>1. CASE x = w
    <3>1. row' \in {[row EXCEPT ![h] = "completed"], [row EXCEPT ![h] = "dead_lettered"]}
      BY <1>2, <1>11 DEF First
    <3> QED BY <1>0, <1>3, <1>4, <1>5, <2>1, <3>1 DEF PTypeOK
  <2>2. CASE x # w
    <3>1. worker'[x] = worker[x] /\ worker[x].job \in Job /\ worker[x].job # h
      BY <1>0, <1>5, <1>6, <2>2 DEF Shapes, Shape, With
    <3> QED BY <1>0, <1>8, <1>11, <3>1 DEF AccountInv, Recorded
  <2> QED BY <2>1, <2>2
<1> QED BY <1>0, <1>2, <1>9, <1>11, <1>12, <1>13, <1>14, SameCount

(* A handler fails with attempts left: the job is with the worker still,   *)
(* or pending.                                                             *)
LEMMA RetryFlow ==
    ASSUME FlowInv, NEW w \in Worker, HandleRetry(w)
    PROVE  HeldInv' /\ AccountInv'
<1>0. /\ PTypeOK /\ Shapes /\ Phase /\ HeldInv /\ AccountInv
  BY DEF FlowInv, PoolInv
<1>1. PICK h : h = worker[w].job
  OBVIOUS
<1>2. /\ UNCHANGED <<durable, chan, inFlight, counted, done, restarts, caller, poller, stopping>>
      /\ worker[w].pc = "handle" /\ (faults' = faults \/ Fault)
      /\ \/ durable /\ row' = [row EXCEPT ![h] = "pending"] /\ Moves(w, At("idle"))
         \/ ~ durable /\ row' = row /\ Moves(w, Busy("requeue", h, {}, h))
         \/ durable /\ row' = row /\ Fault /\ Moves(w, At("idle"))
  BY <1>1 DEF HandleRetry, RetryJob, Others, NoFault, store, accounts
<1>3. h \in Job /\ worker[w].out = NoJob
  BY <1>0, <1>1, <1>2 DEF Shapes, Shape
<1>4. PICK to : /\ Moves(w, to) /\ to.pc \in {"idle", "requeue"} /\ to.out = to.job
                /\ to.job = IF durable THEN NoJob ELSE h
  BY <1>2, <1>3, AtType, BusyType
<1>5. worker'[w] = to /\ \A x \in Worker : x # w => worker'[x] = worker[x]
  BY <1>0, <1>4, WorkerMoves
<1>6. With(w, h) /\ ~ Nowhere(h) /\ \A x \in Worker : With(x, h) => x = w
  BY <1>1, <1>3 DEF With, FlowInv, PoolInv, Apart, Nowhere
<1>7. \A j \in Job : Nowhere(j)' <=> Nowhere(j) \/ (j = h /\ durable)
  <2>1. \A j \in Job, x \in Worker : With(x, j)' <=> With(x, j) /\ (x = w => ~ durable)
    BY <1>1, <1>3, <1>4, <1>5, PoolAssumption DEF With
  <2>2. \A j : ChanHas(j)' <=> ChanHas(j)
    BY <1>2 DEF ChanHas
  <2>3. ~ ChanHas(h) /\ poller.job # h
    BY <1>3, <1>6 DEF FlowInv, PoolInv, Apart
  <2>4. \A j \in Job : With(w, j) => j = h
    BY <1>1, <1>3, PoolAssumption DEF With
  <2> QED BY <1>2, <1>3, <1>6, <2>1, <2>2, <2>3, <2>4 DEF Nowhere
<1>8. \A j \in Job : row'[j] = row[j] \/ (j = h /\ row'[j] = "pending")
  BY <1>0, <1>2 DEF PTypeOK
<1>9. faults' = 0 /\ durable => row'[h] = "pending"
  <2>1. faults' = 0 /\ durable => row' = [row EXCEPT ![h] = "pending"]
    BY <1>0, <1>2, FaultShows
  <2> QED BY <1>0, <1>3, <2>1 DEF PTypeOK
<1>10. ASSUME NEW j \in Job
       PROVE  (faults' = 0 /\ Held(j) => Held(j)') /\ (Underway(j)' => Underway(j))
  BY <1>2, <1>6, <1>7, <1>8, <1>9 DEF Held, Underway
<1>11. caller.pc \notin {"submit", "send"}
  BY <1>0, <1>2, AtType DEF Phase
<1>12. (Calm' => Calm) /\ (First' => First)
  BY <1>0, <1>2, FaultShows DEF Calm, First
<1>13. CallerRow'
  BY <1>0, <1>2, <1>11, PoolAssumption DEF CallerRow, Phase
<1>14. counted \subseteq Job /\ (Calm' => faults' = 0)
  BY <1>0 DEF PTypeOK, Calm
<1>15. First' => \A x \in Worker : Recorded(x)'
  <2> SUFFICES ASSUME First', NEW x \in Worker, durable, worker'[x].pc \in {"kids", "release"}
               PROVE  row'[worker'[x].job] # "running"
    BY <1>2 DEF Recorded
  <2>1. x # w
    BY <1>4, <1>5
  <2>2. worker'[x] = worker[x] /\ worker[x].job \in Job /\ worker[x].job # h
    BY <1>0, <1>5, <1>6, <2>1 DEF Shapes, Shape, With
  <2> QED BY <1>0, <1>8, <1>12, <2>2 DEF AccountInv, Recorded
<1> QED BY <1>0, <1>2, <1>10, <1>12, <1>13, <1>14, <1>15, SameCount

(* Without a store: while the pool is not stopping the queue is open, so a *)
(* child or a retry reaches the channel; after that a child is uncounted.  *)
LEMMA WorkerSendFlow ==
    ASSUME FlowInv, NEW w \in Worker, SendChild(w) \/ Requeue(w)
    PROVE  HeldInv' /\ AccountInv'
<1>0. /\ PTypeOK /\ Shapes /\ Phase /\ HeldInv /\ AccountInv
  BY DEF FlowInv, PoolInv
<1>1. PICK c : c = worker[w].out
  OBVIOUS
<1>2. /\ UNCHANGED <<durable, row, done, restarts, caller, poller, stopping, faults>>
      /\ worker[w].pc \in {"send", "requeue"}
      /\ \/ chan' = Append(chan, c) /\ UNCHANGED <<counted, inFlight>>
         \/ queue # "open"
  <2>1. CASE SendChild(w)
    <3>1. \/ Sent(c) /\ UNCHANGED accounts
          \/ GivesUp /\ Uncount(c)
      BY <1>1, <2>1 DEF SendChild
    <3>2. UNCHANGED done
      BY <3>1 DEF Uncount, accounts
    <3>3. UNCHANGED <<durable, row, restarts, caller, poller, stopping, faults>> /\ worker[w].pc = "send"
      BY <2>1 DEF SendChild, Others, NoFault, store
    <3> QED BY <3>1, <3>2, <3>3 DEF Sent, GivesUp, accounts
  <2>2. CASE Requeue(w)
    <3>1. Sent(c) \/ GivesUp
      BY <1>1, <2>2 DEF Requeue
    <3>2. /\ UNCHANGED <<durable, row, done, restarts, caller, poller, stopping, faults, counted, inFlight>>
          /\ worker[w].pc = "requeue"
      BY <2>2 DEF Requeue, Others, NoFault, store, accounts
    <3> QED BY <3>1, <3>2 DEF Sent, GivesUp
  <2> QED BY <2>1, <2>2
<1>3. c \in Job /\ worker[w].job \in Job /\ ~ durable
  BY <1>0, <1>1, <1>2 DEF Job, Shapes, Shape
<1>4. caller.pc \notin {"submit", "send"}
  BY <1>0, <1>2, AtType DEF Phase
<1>5. CallerRow'
  BY <1>0, <1>2, <1>4, PoolAssumption DEF CallerRow, Phase
<1>6. CASE ~ Calm'
  <2>1. ~ First'
    BY <1>6 DEF Calm, First
  <2> QED BY <1>5, <1>6, <2>1 DEF HeldInv, AccountInv
<1>7. CASE Calm'
  <2>1. ~ stopping /\ faults = 0 /\ Calm
    BY <1>2, <1>3, <1>7 DEF Calm
  <2>2. chan' = Append(chan, c) /\ UNCHANGED <<counted, inFlight>>
    BY <1>0, <1>2, <1>3, <2>1 DEF Phase
  <2>3. \A j \in Job : ChanHas(j)' <=> ChanHas(j) \/ j = c
    BY <1>0, <1>3, <2>2, ChanAppend
  <2>4. PICK to : /\ Moves(w, to) /\ to.out = NoJob
                  /\ to.job = IF worker[w].pc = "send" THEN worker[w].job ELSE NoJob
    <3>1. CASE Requeue(w)
      BY <3>1, AtType DEF Requeue
    <3>2. CASE SendChild(w)
      <4> DEFINE next == [worker[w] EXCEPT !.pc = "kids", !.out = NoJob]
      <4>1. next.job = worker[w].job /\ next.out = NoJob
        BY <1>0 DEF PTypeOK
      <4>2. Moves(w, next) /\ worker[w].pc = "send"
        BY <3>2 DEF SendChild
      <4> HIDE DEF next
      <4> QED BY <4>1, <4>2
    <3> QED BY <3>1, <3>2
  <2>5. worker'[w] = to /\ \A x \in Worker : x # w => worker'[x] = worker[x]
    BY <1>0, <2>4, WorkerMoves
  <2>6. worker[w].pc = "requeue" => worker[w].job = c
    BY <1>0, <1>1 DEF Shapes, Shape
  <2>7. \A j \in Job, x \in Worker : /\ With(x, j)' => With(x, j)
                                     /\ With(x, j) => With(x, j)' \/ j = c
    BY <1>1, <1>2, <2>4, <2>5, <2>6, PoolAssumption DEF With
  <2>8. With(w, c)
    BY <1>1 DEF With
  <2>9. \A j \in Job : Nowhere(j)' <=> Nowhere(j)
    BY <1>2, <2>3, <2>7, <2>8 DEF Nowhere
  <2>10. \A j \in Job : (Held(j)' <=> Held(j)) /\ (Underway(j)' <=> Underway(j))
    BY <1>2, <2>9 DEF Held, Underway
  <2>11. (First' => First) /\ \A x \in Worker : Recorded(x)'
    BY <1>2, <1>3 DEF First, Recorded
  <2>12. counted \subseteq Job
    BY <1>0 DEF PTypeOK
  <2> QED BY <1>0, <1>2, <1>5, <2>1, <2>2, <2>10, <2>11, <2>12, SameCount
<1> QED BY <1>6, <1>7

(* A child is counted before it can be seen, and before its parent is      *)
(* released.                                                               *)
LEMMA SubmitChildFlow ==
    ASSUME FlowInv, NEW w \in Worker, NEW c \in Kid, SubmitChild(w, c)
    PROVE  HeldInv' /\ AccountInv'
<1>0. /\ PTypeOK /\ Shapes /\ Phase /\ KidsNew /\ HeldInv /\ AccountInv
  BY DEF FlowInv, PoolInv
<1>1. /\ UNCHANGED <<durable, chan, done, restarts, caller, poller, stopping>>
      /\ worker[w].pc = "kids" /\ c \in worker[w].kids /\ (faults' = faults \/ Fault)
  BY DEF SubmitChild, CountChild, Count, Others, NoFault, accounts
<1>2. /\ c \in Job /\ KidNew(w, c) /\ worker[w].job \in Job /\ worker[w].out = NoJob
  BY <1>0, <1>1 DEF KidsNew, Job, Shapes, Shape
<1>3. row[c] = "none" /\ c \notin counted /\ Nowhere(c) /\ worker[w].job # c
  BY <1>2 DEF KidNew, Nowhere, With
<1>4. caller.pc \notin {"submit", "send"}
  BY <1>0, <1>1, AtType DEF Phase
<1>5. CallerRow'
  BY <1>0, <1>1, <1>4, PoolAssumption DEF CallerRow, Phase
<1>6. CASE ~ Calm'
  <2>1. ~ First'
    BY <1>6 DEF Calm, First
  <2> QED BY <1>5, <1>6, <2>1 DEF HeldInv, AccountInv
<1>7. CASE Calm'
  <2>1. faults' = 0 /\ faults = 0 /\ ~ Fault /\ Calm /\ (durable \/ ~ stopping)
    BY <1>0, <1>1, <1>7, FaultShows DEF Calm
  <2>2. /\ IF durable THEN row' = [row EXCEPT ![c] = "pending"] ELSE row' = row
        /\ IF stopping THEN UNCHANGED <<counted, inFlight>>
           ELSE counted' = counted \cup {c} /\ inFlight' = inFlight + 1
    BY <2>1 DEF SubmitChild, CreateJob, CountChild, Count, store, accounts
  <2>3. PICK to : /\ Moves(w, to) /\ to.job = worker[w].job /\ to.out = (IF durable THEN NoJob ELSE c)
                  /\ to.pc \in {"kids", "send"}
    <3> DEFINE next == [worker[w] EXCEPT !.kids = @ \ {c}]
               sends == [next EXCEPT !.pc = "send", !.out = c]
    <3>1. /\ next.job = worker[w].job /\ next.out = NoJob /\ next.pc = "kids"
          /\ sends.job = worker[w].job /\ sends.out = c /\ sends.pc = "send"
      BY <1>0, <1>1, <1>2 DEF PTypeOK
    <3>2. IF durable THEN Moves(w, next) ELSE Moves(w, sends)
      BY <2>1 DEF SubmitChild
    <3> HIDE DEF next, sends
    <3> QED BY <3>1, <3>2
  <2>4. worker'[w] = to /\ \A x \in Worker : x # w => worker'[x] = worker[x]
    BY <1>0, <2>3, WorkerMoves
  <2>5. \A j \in Job : Nowhere(j)' <=> Nowhere(j) /\ (j = c => durable)
    <3>1. \A j \in Job, x \in Worker : With(x, j)' <=> With(x, j) \/ (x = w /\ j = c /\ ~ durable)
      BY <1>2, <2>3, <2>4, PoolAssumption DEF With
    <3>2. \A j : ChanHas(j)' <=> ChanHas(j)
      BY <1>1 DEF ChanHas
    <3> QED BY <1>1, <1>3, <3>1, <3>2 DEF Nowhere
  <2>6. \A j \in Job : row'[j] = IF j = c /\ durable THEN "pending" ELSE row[j]
    BY <1>0, <2>2 DEF PTypeOK
  <2>7. \A j \in Job : /\ (Held(j) => Held(j)') /\ (j = c => Held(j)')
                       /\ Underway(j)' => Underway(j) \/ j = c
    BY <1>1, <1>2, <1>3, <2>5, <2>6 DEF Held, Underway
  <2>8. counted \subseteq Job /\ counted' \subseteq counted \cup {c}
    BY <1>0, <2>2 DEF PTypeOK
  <2>9. HeldInv'
    BY <1>0, <1>2, <1>5, <2>1, <2>7, <2>8 DEF HeldInv
  <2>10. ASSUME First' PROVE AccountInv'
    <3>1. First /\ ~ stopping
      BY <1>1, <2>1, <2>10 DEF First
    <3>2. counted' = counted \cup {c} /\ inFlight' = inFlight + 1
      BY <2>2, <3>1
    <3>3. IsFiniteSet(counted) /\ inFlight = Cardinality(counted)
      BY <1>0, <3>1 DEF AccountInv
    <3>4. IsFiniteSet(counted') /\ inFlight' = Cardinality(counted')
      BY <1>3, <3>2, <3>3, FS_AddElement
    <3>5. worker[w].job \in counted
      <4>1. ~ Nowhere(worker[w].job)
        BY DEF Nowhere, With
      <4> QED BY <1>0, <1>2, <3>1, <4>1 DEF AccountInv, Underway
    <3>6. ~ done'
      BY <1>0, <1>1, <3>1, <3>5 DEF AccountInv
    <3>7. \A j \in Job : Underway(j)' => j \in counted'
      BY <1>0, <2>7, <3>1, <3>2 DEF AccountInv
    <3>8. ASSUME NEW x \in Worker, durable, worker'[x].pc \in {"kids", "release"}
          PROVE  row'[worker'[x].job] # "running"
      <4>1. worker'[x].job = worker[x].job /\ worker[x].pc \in {"kids", "release"}
        BY <1>1, <2>3, <2>4, <3>8
      <4>2. worker[x].job \in Job /\ row[worker[x].job] # "running"
        BY <1>0, <3>1, <3>8, <4>1 DEF Shapes, Shape, AccountInv, Recorded
      <4> QED BY <2>6, <4>1, <4>2
    <3>9. \A x \in Worker : Recorded(x)'
      BY <1>1, <3>8 DEF Recorded
    <3> QED BY <3>4, <3>6, <3>7, <3>9 DEF AccountInv
  <2>11. AccountInv'
    BY <2>10 DEF AccountInv
  <2> QED BY <2>9, <2>11
<1> QED BY <1>6, <1>7

(* A job that is released is under way no more.                            *)
LEMMA ReleaseFlow ==
    ASSUME FlowInv, NEW w \in Worker, Release(w)
    PROVE  HeldInv' /\ AccountInv'
<1>0. /\ PTypeOK /\ Shapes /\ Phase /\ HeldInv /\ AccountInv
  BY DEF FlowInv, PoolInv
<1>1. PICK h : h = worker[w].job
  OBVIOUS
<1>2. /\ UNCHANGED <<durable, row, done, restarts, caller, poller, stopping, faults, chan>>
      /\ worker[w].pc \in {"release", "kids"}
      /\ counted' = counted \ {h} /\ inFlight' = inFlight - 1 /\ Moves(w, At("check"))
  BY <1>1 DEF Release, Finished, Uncount, Others, NoFault, store
<1>3. h \in Job /\ worker[w].out = NoJob /\ With(w, h) /\ ~ Nowhere(h)
  BY <1>0, <1>1, <1>2 DEF Shapes, Shape, With, Nowhere
<1>4. /\ \A x \in Worker : With(x, h) => x = w
      /\ ~ ChanHas(h) /\ poller.job # h /\ Rowed(h)
  BY <1>3 DEF FlowInv, PoolInv, Apart
<1>5. worker'[w] = At("check") /\ \A x \in Worker : x # w => worker'[x] = worker[x]
  BY <1>0, <1>2, WorkerMoves
<1>6. \A j \in Job : Nowhere(j)' <=> Nowhere(j) \/ j = h
  <2>1. \A j \in Job, x \in Worker : With(x, j)' <=> With(x, j) /\ j # h
    BY <1>1, <1>3, <1>4, <1>5, AtType, PoolAssumption DEF With
  <2>2. \A j : ChanHas(j)' <=> ChanHas(j)
    BY <1>2 DEF ChanHas
  <2> QED BY <1>2, <1>4, <2>1, <2>2 DEF Nowhere
<1>7. \A j \in Job : j # h => (Held(j)' <=> Held(j)) /\ (Underway(j)' <=> Underway(j))
  BY <1>2, <1>6 DEF Held, Underway
<1>8. caller.pc \notin {"submit", "send"}
  BY <1>0, <1>2, AtType DEF Phase
<1>9. CallerRow' /\ caller.job # h
  BY <1>0, <1>2, <1>3, <1>8, PoolAssumption DEF CallerRow, Phase
<1>10. (Calm' <=> Calm) /\ (First' <=> First) /\ counted \subseteq Job
  BY <1>0, <1>2 DEF Calm, First, PTypeOK
<1>11. HeldInv'
  BY <1>0, <1>2, <1>7, <1>9, <1>10 DEF HeldInv
<1>12. ASSUME First' PROVE AccountInv'
  <2>1. IsFiniteSet(counted) /\ inFlight = Cardinality(counted) /\ Recorded(w) /\ First
    BY <1>0, <1>10, <1>12 DEF AccountInv
  <2>2. h \in counted
    BY <1>0, <1>3, <2>1 DEF AccountInv, Underway
  <2>3. IsFiniteSet(counted') /\ inFlight' = Cardinality(counted')
    BY <1>2, <2>1, <2>2, FS_RemoveElement
  <2>4. ~ Underway(h)'
    <3>1. row[h] \notin {"pending", "running"}
      BY <1>1, <1>2, <1>3, <1>4, <2>1 DEF Recorded, Rowed
    <3> QED BY <1>2, <1>3, <1>6, <1>9, <3>1 DEF Underway
  <2>5. \A j \in Job : Underway(j)' => j \in counted'
    BY <1>0, <1>2, <1>7, <2>1, <2>4 DEF AccountInv
  <2>6. \A x \in Worker : Recorded(x)'
    BY <1>0, <1>2, <1>5, <2>1, AtType DEF AccountInv, Recorded
  <2>7. ~ done'
    BY <1>0, <1>2, <2>1, <2>2 DEF AccountInv
  <2> QED BY <2>3, <2>5, <2>6, <2>7 DEF AccountInv
<1>13. AccountInv'
  BY <1>12 DEF AccountInv
<1> QED BY <1>11, <1>13

(* The caller counts the job that it submits.                              *)
LEMMA SubmitFlow ==
    ASSUME FlowInv, NEW c \in Seed, Submit(c)
    PROVE  HeldInv' /\ AccountInv'
<1>0. /\ PTypeOK /\ Shapes /\ Phase /\ HeldInv /\ AccountInv
  BY DEF FlowInv, PoolInv
<1>1. /\ UNCHANGED <<durable, done, restarts, poller, stopping, faults, chan, worker>>
      /\ caller.pc = "submit" /\ c \in Fresh(Seed) /\ caller' = [pc |-> "send", job |-> c]
      /\ counted' = counted \cup {c} /\ inFlight' = inFlight + 1
      /\ IF durable THEN row' = [row EXCEPT ![c] = "pending"] ELSE row' = row
  BY DEF Submit, Count, CreateJob, store
<1>2. c \in Job /\ row[c] = "none" /\ c \notin counted /\ Nowhere(c)
  BY <1>0, <1>1, FreshIsNew DEF Job
<1>3. caller.job = NoJob /\ caller'.job = c /\ ~ done /\ \A w \in Worker : worker[w].pc = "new"
  BY <1>0, <1>1, AtType DEF Phase
<1>4. \A j \in Job : Nowhere(j)' <=> Nowhere(j)
  BY <1>1 DEF Nowhere, ChanHas, With
<1>5. \A j \in Job : row'[j] = IF j = c /\ durable THEN "pending" ELSE row[j]
  BY <1>0, <1>1 DEF PTypeOK
<1>6. \A j \in Job : /\ (Held(j) => Held(j)') /\ (j = c => Held(j)')
                     /\ Underway(j)' => Underway(j) \/ j = c
  BY <1>1, <1>2, <1>3, <1>4, <1>5, PoolAssumption DEF Held, Underway
<1>7. CallerRow'
  BY <1>1, <1>3, <1>5 DEF CallerRow
<1>8. (Calm' <=> Calm) /\ (First' <=> First) /\ counted \subseteq Job
  BY <1>0, <1>1 DEF Calm, First, PTypeOK
<1>9. HeldInv'
  BY <1>0, <1>1, <1>2, <1>6, <1>7, <1>8 DEF HeldInv
<1>10. ASSUME First' PROVE AccountInv'
  <2>1. IsFiniteSet(counted) /\ inFlight = Cardinality(counted)
    BY <1>0, <1>8, <1>10 DEF AccountInv
  <2>2. IsFiniteSet(counted') /\ inFlight' = Cardinality(counted')
    BY <1>1, <1>2, <2>1, FS_AddElement
  <2>3. \A j \in Job : Underway(j)' => j \in counted'
    BY <1>0, <1>1, <1>6, <1>8, <1>10 DEF AccountInv
  <2>4. \A x \in Worker : Recorded(x)'
    BY <1>1, <1>3 DEF Recorded
  <2>5. ~ done'
    BY <1>1, <1>3
  <2> QED BY <2>2, <2>3, <2>4, <2>5 DEF AccountInv
<1>11. AccountInv'
  BY <1>10 DEF AccountInv
<1> QED BY <1>9, <1>11

(* The job that the caller lets go of is in the channel, or pending.       *)
LEMMA SubmitSendFlow ==
    ASSUME FlowInv, SubmitSend
    PROVE  HeldInv' /\ AccountInv'
<1>0. /\ PTypeOK /\ Shapes /\ Phase /\ HeldInv /\ AccountInv
  BY DEF FlowInv, PoolInv
<1>1. PICK c : c = IF durable THEN NoJob ELSE caller.job
  OBVIOUS
<1>2. /\ UNCHANGED <<durable, row, done, restarts, poller, stopping, faults, worker, counted, inFlight>>
      /\ caller.pc = "send" /\ caller' = CallerAt("submit") /\ chan' = Append(chan, c)
  BY <1>1 DEF SubmitSend, Sent, store, accounts
<1>3. caller.job \in Job /\ c \in Job \cup {NoJob} /\ caller'.job = NoJob
  BY <1>0, <1>1, <1>2 DEF Phase, Job, CallerAt
<1>4. \A j \in Job : ChanHas(j)' <=> ChanHas(j) \/ j = c
  BY <1>0, <1>2, <1>3, ChanAppend
<1>5. \A j \in Job : Nowhere(j)' <=> Nowhere(j) /\ j # c
  BY <1>2, <1>4 DEF Nowhere, With
<1>6. durable => row[caller.job] = "pending"
  BY <1>0, <1>3 DEF HeldInv, CallerRow
<1>7. \A j \in Job : (Held(j) => Held(j)') /\ (Underway(j)' => Underway(j))
  BY <1>1, <1>2, <1>3, <1>5, <1>6, PoolAssumption DEF Held, Underway
<1>8. (Calm' <=> Calm) /\ (First' <=> First) /\ counted \subseteq Job
  BY <1>0, <1>2 DEF Calm, First, PTypeOK
<1>9. CallerRow'
  BY <1>3, PoolAssumption DEF CallerRow
<1>10. First' => \A x \in Worker : Recorded(x)'
  BY <1>0, <1>2, <1>8 DEF AccountInv, Recorded
<1> QED BY <1>0, <1>2, <1>7, <1>8, <1>9, <1>10, SameCount

(* The poller takes a pending row: one that this process counts already,   *)
(* unless an earlier process left it.                                      *)
LEMMA PollAcquireFlow ==
    ASSUME FlowInv, NEW h \in Job, PollAcquire(h)
    PROVE  HeldInv' /\ AccountInv'
<1>0. /\ PTypeOK /\ Shapes /\ Phase /\ HeldInv /\ AccountInv /\ PoolInv
  BY DEF FlowInv, PoolInv
<1>1. /\ UNCHANGED <<durable, done, restarts, caller, stopping, faults, chan, worker>>
      /\ poller.pc = "acquire" /\ poller' = [pc |-> "send", job |-> h] /\ AcquireJob(h)
      /\ counted' = counted \cup {h} /\ (h \in counted => inFlight' = inFlight)
  BY DEF PollAcquire, NoFault, PollerOnly, CountAcquired, Count, accounts
<1>2. row[h] = "pending" /\ row' = [row EXCEPT ![h] = "running"] /\ Nowhere(h)
  BY <1>0, <1>1, AcquiredRow
<1>3. poller'.job = h /\ poller.job \notin Job /\ caller.job \notin Job
  <2>1. caller.pc \notin {"submit", "send"}
    BY <1>0, <1>1 DEF Phase
  <2> QED BY <1>0, <1>1, <2>1, PoolAssumption DEF Phase
<1>4. \A j \in Job : Nowhere(j)' <=> Nowhere(j) /\ j # h
  BY <1>1, <1>2, <1>3 DEF Nowhere, ChanHas, With
<1>5. \A j \in Job : row'[j] = IF j = h THEN "running" ELSE row[j]
  BY <1>0, <1>2 DEF PTypeOK
<1>6. \A j \in Job : (Held(j) => Held(j)') /\ (Underway(j)' => Underway(j)) /\ (j = h => Held(j)' /\ Underway(j))
  BY <1>1, <1>2, <1>4, <1>5 DEF Held, Underway
<1>7. (Calm' <=> Calm) /\ (First' <=> First) /\ counted \subseteq Job
  BY <1>0, <1>1 DEF Calm, First, PTypeOK
<1>8. CallerRow'
  BY <1>1, <1>3 DEF CallerRow
<1>9. HeldInv'
  BY <1>0, <1>1, <1>6, <1>7, <1>8 DEF HeldInv
<1>10. ASSUME First' PROVE AccountInv'
  <2>1. h \in counted /\ First
    BY <1>0, <1>6, <1>7, <1>10 DEF AccountInv
  <2>2. counted' = counted /\ inFlight' = inFlight
    BY <1>1, <2>1
  <2>3. ASSUME NEW x \in Worker, durable, worker[x].pc \in {"kids", "release"}
        PROVE  row'[worker[x].job] # "running"
    <3>1. worker[x].job \in Job /\ worker[x].job # h
      BY <1>0, <1>2, <2>3 DEF Shapes, Shape, Nowhere, With
    <3> QED BY <1>0, <1>5, <2>1, <2>3, <3>1 DEF AccountInv, Recorded
  <2>4. \A x \in Worker : Recorded(x)'
    BY <1>1, <2>3 DEF Recorded
  <2> QED BY <1>0, <1>1, <1>6, <2>1, <2>2, <2>4 DEF AccountInv
<1>11. AccountInv'
  BY <1>10 DEF AccountInv
<1> QED BY <1>9, <1>11

(* The poller passes on what it acquired.                                  *)
LEMMA PollSendFlow ==
    ASSUME FlowInv, PollSend
    PROVE  HeldInv' /\ AccountInv'
<1>0. /\ PTypeOK /\ Shapes /\ Phase /\ HeldInv /\ AccountInv
  BY DEF FlowInv, PoolInv
<1>1. PICK h : h = poller.job
  OBVIOUS
<1>2. poller.pc = "send" /\ queue = "open" /\ h \in Job
  BY <1>0, <1>1 DEF PollSend, Phase
<1>3. /\ UNCHANGED <<durable, row, done, restarts, caller, stopping, faults, worker, counted, inFlight>>
      /\ poller' = PollerAt("idle") /\ chan' = Append(chan, h)
  BY <1>1, <1>2 DEF PollSend, NoFault, PollerOnly, Sent, GivesUp, store, accounts
<1>4. \A j \in Job : ChanHas(j)' <=> ChanHas(j) \/ j = h
  BY <1>0, <1>2, <1>3, ChanAppend
<1>5. \A j \in Job : poller'.job # j
  BY <1>3, PoolAssumption DEF PollerAt
<1>6. \A j \in Job : Nowhere(j)' <=> Nowhere(j)
  BY <1>1, <1>3, <1>4, <1>5 DEF Nowhere, With
<1>7. \A j \in Job : (Held(j)' <=> Held(j)) /\ (Underway(j)' <=> Underway(j))
  BY <1>3, <1>6 DEF Held, Underway
<1>8. (Calm' <=> Calm) /\ (First' <=> First) /\ counted \subseteq Job
  BY <1>0, <1>3 DEF Calm, First, PTypeOK
<1>9. CallerRow'
  BY <1>0, <1>3 DEF HeldInv, CallerRow
<1>10. First' => \A x \in Worker : Recorded(x)'
  BY <1>0, <1>3, <1>8 DEF AccountInv, Recorded
<1> QED BY <1>0, <1>3, <1>7, <1>8, <1>9, <1>10, SameCount

(* A restarted process has an empty map of counted jobs, and is not the    *)
(* first.                                                                  *)
LEMMA RestartFlow ==
    ASSUME FlowInv, NEW reclaims \in BOOLEAN, NEW n, Restart(reclaims, n)
    PROVE  HeldInv' /\ AccountInv'
<1>1. counted' = {} /\ caller' = CallerAt("submit") /\ restarts' = restarts + 1
  BY DEF Restart
<1>2. restarts' # 0
  BY <1>1, PoolAssumption DEF FlowInv, PoolInv, PTypeOK
<1>3. caller'.job = NoJob
  BY <1>1 DEF CallerAt
<1>4. CallerRow'
  BY <1>3, PoolAssumption DEF CallerRow
<1> QED BY <1>1, <1>2, <1>4 DEF HeldInv, AccountInv, First

(* Every step keeps the books.                                             *)
LEMMA FlowStep == FlowInv /\ [Next]_vars => FlowInv'
<1> SUFFICES ASSUME FlowInv, [Next]_vars PROVE FlowInv'
  OBVIOUS
<1>0. PoolInv'
  BY PoolStep DEF FlowInv
<1> SUFFICES HeldInv' /\ AccountInv'
  BY <1>0 DEF FlowInv
<1>1. CASE UNCHANGED vars
  <2>1. UNCHANGED <<durable, row, chan, inFlight, counted, done, stopping, worker, poller, caller, faults, restarts>>
    BY <1>1 DEF vars, store, accounts
  <2> QED BY <2>1, NothingFlows
<1>2. CASE Calls \/ SubmitError \/ Shutdown \/ Return \/ Close \/ Closed
  <2>1. CASE \E j \in Seed : Submit(j)
    BY <2>1, SubmitFlow
  <2>2. CASE SubmitSend
    BY <2>2, SubmitSendFlow
  <2>3. CASE Start \/ Shutdown \/ Close \/ Closed \/ Return \/ SubmitError
    BY <2>3, QuietFlow
  <2> QED BY <1>2, <2>1, <2>2, <2>3 DEF Calls
<1>3. ASSUME NEW w \in Worker, Works(w) PROVE HeldInv' /\ AccountInv'
  <2>1. CASE Dequeue(w)
    BY <2>1, DequeueFlow
  <2>2. CASE \E j \in Job : DequeueAcquire(w, j)
    BY <2>2, DequeueAcquireFlow
  <2>3. CASE DequeueStale(w) \/ Exit(w) \/ CheckDone(w)
    BY <2>3, IdleFlow
  <2>4. CASE \E k \in Kid : SubmitChild(w, k)
    BY <2>4, SubmitChildFlow
  <2>5. CASE SendChild(w) \/ Requeue(w)
    BY <2>5, WorkerSendFlow
  <2>6. CASE Release(w)
    BY <2>6, ReleaseFlow
  <2> QED BY <1>3, <2>1, <2>2, <2>3, <2>4, <2>5, <2>6 DEF Works
<1>4. ASSUME NEW w \in Worker, Handles(w) PROVE HeldInv' /\ AccountInv'
  BY <1>4, SettleFlow, RetryFlow DEF Handles
<1>5. CASE Polls
  BY <1>5, PollAcquireFlow, PollSendFlow, QuietFlow DEF Polls
<1>6. CASE \E j \in Job : Due(j)
  BY <1>6, QuietFlow
<1>7. CASE \E reclaims \in BOOLEAN, n \in 0 .. Cardinality(Job) : Restart(reclaims, n)
  BY <1>7, RestartFlow
<1> QED BY <1>1, <1>2, <1>3, <1>4, <1>5, <1>6, <1>7 DEF Next

(* FlowInv holds at every state.                                           *)
LEMMA FlowInvariant == Spec => []FlowInv
<1> QED BY FlowInit, FlowStep, PTL DEF Spec

(* As long as no store call fails, every counted job is in the channel,    *)
(* with a worker, the poller or the caller, or a pending row (Submit,      *)
(* submitChild, retry, dispatchReady and Shutdown of worker.Pool).         *)
THEOREM OutstandingKept == Spec => []OutstandingHeld
<1>1. ASSUME FlowInv PROVE OutstandingHeld
  <2>1. counted \subseteq Job /\ PoolInv
    BY <1>1 DEF FlowInv, PoolInv, PTypeOK
  <2>2. \A j \in counted : ~ Nowhere(j) => Places(j) # {}
    BY <2>1, PlacesOf
  <2> QED BY <1>1, <2>2 DEF FlowInv, HeldInv, Calm, Held, OutstandingHeld
<1> QED BY <1>1, FlowInvariant, PTL

(* Done is closed only when no job is left anywhere: inFlight counts       *)
(* exactly the ids in the map, and these cover all that is under way       *)
(* (checkDone of worker.Pool).                                             *)
THEOREM DoneKept == Spec => []DoneQuiescent
<1>1. ASSUME FlowInv PROVE DoneQuiescent
  <2> SUFFICES ASSUME done, First, NEW j \in Job
               PROVE  Places(j) = {} /\ row[j] \notin {"pending", "running"}
    BY DEF DoneQuiescent, Quiet, First
  <2>1. ~ Underway(j)
    BY <1>1 DEF FlowInv, AccountInv
  <2>2. PoolInv
    BY <1>1 DEF FlowInv
  <2> QED BY <2>1, <2>2, PlacesOf DEF Underway
<1> QED BY <1>1, FlowInvariant, PTL
=============================================================================
