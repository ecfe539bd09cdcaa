---------------------------- MODULE JobApiProofs ----------------------------
(* Theorems about JobApi, for any number of jobs, clients, keys, bodies    *)
(* and attempts.                                                           *)
EXTENDS JobApi, FiniteSetTheorems, TLAPS

Status == {"none", "pending", "running", "failed", "dead_lettered"}
Cols == [key : Key \cup {NoKey}, hash : Hash \cup {NoHash}, at : Nat, max : 0 .. MaxAttempts,
         from : Job \cup {NoJob}]

(* The types of what submissions read and write.                           *)
SubmitType ==
    /\ status \in [Job -> Status]
    /\ cols \in [Job -> Cols]
    /\ clock \in 0 .. MaxClock
    /\ call \in [Client -> {IdleCall} \cup Open \cup Answered]

(* A key has one row.                                                      *)
KeyUnique ==
    \A j, q \in Job :
        Exists(j) /\ Exists(q) /\ cols[j].key \in Key /\ cols[j].key = cols[q].key => j = q

(* A transaction that has inserted a key is the only one, and no row has   *)
(* the key yet: what the unique index guarantees until the commit.         *)
KeyReserved ==
    \A c \in Client : call[c].pc = "inserted" /\ call[c].key \in Key =>
        /\ \A j \in Job : Exists(j) => cols[j].key # call[c].key
        /\ \A d \in Client : call[d].pc = "inserted" /\ call[d].key = call[c].key => d = c

(* The hash of a row with a key is that of its own request.                *)
HashOfRow ==
    \A j \in Job : Exists(j) /\ cols[j].key \in Key =>
        cols[j].hash \in Hash /\ cols[j].hash.max = cols[j].max

(* An answer agrees with the rows; what a client was told is still so.     *)
Says(v) ==
    LET j == v.job  q == v.req IN
    /\ j \in Holders(v.key)
    /\ v.code = 409 <=> (cols[j].hash.body # q.body \/ cols[j].max # Effective(q.max))
Told(c) == Says(call[c])
AllTold == \A c \in Client : call[c].pc = "answered" => Told(c)

SubmitInv == SubmitType /\ KeyUnique /\ KeyReserved /\ HashOfRow /\ AllTold

(* A client's call is one of three kinds of record.                        *)
LEMMA CallCases ==
    ASSUME SubmitType, NEW c \in Client
    PROVE  /\ call[c].pc \in {"begun", "inserted"} => call[c] \in Open
           /\ call[c].pc = "answered" => call[c] \in Answered
           /\ call[c].pc \in {"idle", "begun", "inserted", "answered"}
  <1>1. call[c] \in {IdleCall} \cup Open \cup Answered
    BY DEF SubmitType
  <1>2. CASE call[c] = IdleCall
    BY <1>2 DEF IdleCall
  <1>3. CASE call[c] \in Open
    BY <1>3 DEF Open
  <1>4. CASE call[c] \in Answered
    BY <1>4 DEF Answered
  <1> QED BY <1>1, <1>2, <1>3, <1>4

(* The limit a request gets, and its hash.                                 *)
LEMMA HashType ==
    ASSUME NEW q \in Request
    PROVE  /\ Effective(q.max) \in Attempt
           /\ RequestHash(q) \in Hash
           /\ RequestHash(q).max = Effective(q.max) /\ RequestHash(q).body = q.body
  <1>1. q.max \in 0 .. MaxAttempts /\ q.body \in Body
    BY DEF Request
  <1>2. Effective(q.max) \in Attempt /\ Effective(q.max) \in 0 .. MaxAttempts
    BY <1>1, AttemptAssumption DEF Effective, Attempt
  <1> QED BY <1>1, <1>2 DEF RequestHash, Hash

(* It holds before anything was submitted.                                 *)
LEMMA SubmitInit == Init => SubmitInv
  <1> SUFFICES ASSUME Init PROVE SubmitInv
    OBVIOUS
  <1>1. SubmitType
    BY AttemptAssumption, MaxClockAssumption
    DEF Init, SubmitType, Status, Cols, NoCols, IdleCall
  <1>2. \A j \in Job : ~ Exists(j)
    BY DEF Init, Exists
  <1>3. \A c \in Client : call[c].pc = "idle"
    BY DEF Init, IdleCall
  <1> QED BY <1>1, <1>2, <1>3 DEF SubmitInv, KeyUnique, KeyReserved, HashOfRow, AllTold

(* A new row without a key, of a retry or a replay.                        *)
LEMMA KeylessInsert ==
    ASSUME SubmitInv, NEW new \in Job, NEW row \in Cols, row.key = NoKey,
           Insert(new, row), UNCHANGED <<clock, call>>
    PROVE  SubmitInv'
  <1> USE DEF SubmitInv
  <1>1. /\ status' \in [Job -> Status] /\ cols' \in [Job -> Cols]
        /\ \A j \in Job : j # new => status'[j] = status[j] /\ cols'[j] = cols[j]
        /\ status[new] = "none" /\ cols'[new] = row /\ status'[new] = "pending"
    BY DEF SubmitType, Insert, Status, Exists
  <1>2. SubmitType'
    BY <1>1 DEF SubmitType
  <1>3. \A j \in Job : j # new => (Exists(j)' <=> Exists(j))
    BY <1>1 DEF Exists
  <1>4. cols'[new].key \notin Key
    BY <1>1, NoKeyAssumption
  <1>5. KeyUnique'
    BY <1>1, <1>3, <1>4 DEF KeyUnique
  <1>6. KeyReserved'
    BY <1>1, <1>3, <1>4 DEF KeyReserved
  <1>7. HashOfRow'
    BY <1>1, <1>3, <1>4 DEF HashOfRow
  <1>8. AllTold'
    <2> SUFFICES ASSUME NEW c \in Client, call[c].pc = "answered" PROVE Told(c)'
      BY DEF AllTold
    <2>1. Told(c)
      BY DEF AllTold
    <2>2. call[c].job \in Job /\ Exists(call[c].job) /\ cols[call[c].job].key = call[c].key
      BY <2>1 DEF Told, Says, Holders
    <2>3. call[c].job # new
      BY <2>2, <1>1 DEF Exists
    <2>4. call[c].job \in Holders(call[c].key)'
      BY <2>2, <2>3, <1>1, <1>3 DEF Holders
    <2> QED BY <2>1, <2>2, <2>3, <2>4, <1>1 DEF Told, Says
  <1> QED BY <1>2, <1>5, <1>6, <1>7, <1>8

(* A step that changes neither rows' keys nor calls.                       *)
LEMMA RowsKept ==
    ASSUME SubmitInv, status' \in [Job -> Status], UNCHANGED <<cols, call>>,
           clock' \in 0 .. MaxClock, \A j \in Job : status'[j] = "none" <=> status[j] = "none"
    PROVE  SubmitInv'
  <1> USE DEF SubmitInv
  <1>1. \A j \in Job : Exists(j)' <=> Exists(j)
    BY DEF Exists
  <1>2. SubmitType'
    BY DEF SubmitType
  <1>3. KeyUnique' /\ KeyReserved' /\ HashOfRow'
    BY <1>1 DEF KeyUnique, KeyReserved, HashOfRow
  <1>4. AllTold'
    BY <1>1 DEF AllTold, Told, Says, Holders
  <1> QED BY <1>2, <1>3, <1>4

(* A step of one client that touches no row: what it says next has to be   *)
(* true of the rows, and a key it inserts has to be free.                  *)
LEMMA CallStep ==
    ASSUME SubmitInv, UNCHANGED <<status, cols, clock>>, NEW c \in Client,
           NEW v \in {IdleCall} \cup Open \cup Answered,
           call' = [call EXCEPT ![c] = v],
           v.pc = "inserted" /\ v.key \in Key =>
               /\ \A j \in Job : Exists(j) => cols[j].key # v.key
               /\ \A d \in Client \ {c} : ~ (call[d].pc = "inserted" /\ call[d].key = v.key),
           v.pc = "answered" => Says(v)
    PROVE  SubmitInv'
  <1> USE DEF SubmitInv
  <1>1. /\ call' \in [Client -> {IdleCall} \cup Open \cup Answered]
        /\ call'[c] = v /\ \A d \in Client : d # c => call'[d] = call[d]
    BY DEF SubmitType
  <1>2. SubmitType'
    BY <1>1 DEF SubmitType
  <1>3. KeyUnique' /\ HashOfRow'
    BY DEF KeyUnique, HashOfRow, Exists
  <1>4. KeyReserved'
    <2> SUFFICES ASSUME NEW e \in Client, call'[e].pc = "inserted", call'[e].key \in Key
                 PROVE  /\ \A j \in Job : Exists(j) => cols[j].key # call'[e].key
                        /\ \A d \in Client :
                              call'[d].pc = "inserted" /\ call'[d].key = call'[e].key => d = e
      BY DEF KeyReserved, Exists
    <2>1. CASE e = c
      BY <2>1, <1>1
    <2>2. CASE e # c
      <3>1. call'[e] = call[e]
        BY <2>2, <1>1
      <3>2. /\ \A j \in Job : Exists(j) => cols[j].key # call[e].key
            /\ \A d \in Client : call[d].pc = "inserted" /\ call[d].key = call[e].key => d = e
        BY <3>1 DEF KeyReserved
      <3>3. ~ (v.pc = "inserted" /\ v.key = call[e].key)
        BY <3>1, <2>2
      <3> QED BY <3>1, <3>2, <3>3, <1>1
    <2> QED BY <2>1, <2>2
  <1>5. AllTold'
    <2> SUFFICES ASSUME NEW e \in Client, call'[e].pc = "answered" PROVE Told(e)'
      BY DEF AllTold
    <2>1. CASE e = c
      <3>1. call'[e] = v
        BY <2>1, <1>1
      <3> QED BY <3>1 DEF Told, Says, Holders, Exists
    <2>2. CASE e # c
      <3>1. call'[e] = call[e]
        BY <2>2, <1>1
      <3>2. Told(e)
        BY <3>1 DEF AllTold
      <3> QED BY <3>1, <3>2 DEF Told, Says, Holders, Exists
    <2> QED BY <2>1, <2>2
  <1> QED BY <1>2, <1>3, <1>4, <1>5

(* BEGIN, and a call that ends without a response.                         *)
LEMMA BeginStep ==
    ASSUME SubmitInv, NEW c \in Client,
           \/ \E k \in Key \cup {NoKey}, q \in Request : SubmitBegin(c, k, q)
           \/ SubmitAbort(c)
    PROVE  SubmitInv'
  <1>1. CASE SubmitAbort(c)
    <2>1. IdleCall.pc = "idle"
      BY DEF IdleCall
    <2> QED BY <1>1, <2>1, CallStep DEF SubmitAbort, Goes
  <1>2. CASE \E k \in Key \cup {NoKey}, q \in Request : SubmitBegin(c, k, q)
    <2> PICK k \in Key \cup {NoKey}, q \in Request : SubmitBegin(c, k, q)
      BY <1>2
    <2> DEFINE v == [pc |-> "begun", key |-> k, req |-> q, at |-> clock]
    <2>1. v \in Open /\ v.pc = "begun"
      BY DEF Open, SubmitInv, SubmitType
    <2>2. call' = [call EXCEPT ![c] = v] /\ UNCHANGED <<status, cols, clock>>
      BY DEF SubmitBegin, Goes
    <2> HIDE DEF v
    <2> QED BY <2>1, <2>2, CallStep
  <1> QED BY <1>1, <1>2

(* The INSERT that affects a row: the unique index let it through.         *)
LEMMA InsertStep ==
    ASSUME SubmitInv, NEW c \in Client, SubmitInsert(c)
    PROVE  SubmitInv'
  <1> DEFINE v == [call[c] EXCEPT !.pc = "inserted"]
  <1>1. call[c] \in Open /\ call[c].pc = "begun"
    BY CallCases DEF SubmitInsert, SubmitInv
  <1>2. v \in Open /\ v.pc = "inserted" /\ v.key = call[c].key
    BY <1>1 DEF Open
  <1>3. call' = [call EXCEPT ![c] = v] /\ UNCHANGED <<status, cols, clock>>
    BY DEF SubmitInsert
  <1>4. ASSUME v.key \in Key
        PROVE  /\ \A j \in Job : Exists(j) => cols[j].key # v.key
               /\ \A d \in Client \ {c} : ~ (call[d].pc = "inserted" /\ call[d].key = v.key)
    BY <1>2, <1>4, NoKeyAssumption DEF SubmitInsert, Holders, KeyLocked
  <1> HIDE DEF v
  <1> QED BY <1>2, <1>3, <1>4, CallStep

(* The INSERT that affects none: equal hashes are equal requests.          *)
LEMMA ExistingStep ==
    ASSUME SubmitInv, NEW c \in Client, SubmitExisting(c)
    PROVE  SubmitInv'
  <1>1. call[c] \in Open /\ call[c].pc = "begun" /\ call[c].key \in Key
    <2>1. call[c] \in Open /\ call[c].pc = "begun" /\ call[c].key # NoKey
      BY CallCases DEF SubmitExisting, SubmitInv
    <2> QED BY <2>1 DEF Open
  <1>2. call[c].req \in Request
    BY <1>1 DEF Open
  <1>3. PICK j \in Holders(call[c].key) :
          Answers(c, IF cols[j].hash = RequestHash(call[c].req) THEN 200 ELSE 409, j)
    BY DEF SubmitExisting
  <1> DEFINE code == IF cols[j].hash = RequestHash(call[c].req) THEN 200 ELSE 409
             v == [pc |-> "answered", key |-> call[c].key, req |-> call[c].req,
                   code |-> code, job |-> j]
  <1>4. j \in Job /\ Exists(j) /\ cols[j].key = call[c].key
    BY DEF Holders
  <1>5. v \in Answered
    BY <1>1, <1>2, <1>4 DEF Answered
  <1>6. call' = [call EXCEPT ![c] = v] /\ UNCHANGED <<status, cols, clock>>
    BY <1>1, <1>3, NoKeyAssumption DEF Answers, Goes, SubmitExisting
  <1>7. cols[j].hash \in Hash /\ cols[j].hash.max = cols[j].max
    BY <1>1, <1>4 DEF SubmitInv, HashOfRow
  <1>8. code = 409 <=> \/ cols[j].hash.body # call[c].req.body
                      \/ cols[j].max # Effective(call[c].req.max)
    <2> DEFINE h == RequestHash(call[c].req)
    <2>1. h \in Hash /\ h.max = Effective(call[c].req.max) /\ h.body = call[c].req.body
      BY <1>2, HashType
    <2>2. cols[j].hash = h <=> cols[j].hash.body = h.body /\ cols[j].hash.max = h.max
      BY <2>1, <1>7 DEF Hash
    <2>3. code = 409 <=> cols[j].hash # h
      OBVIOUS
    <2> HIDE DEF h, code
    <2> QED BY <2>1, <2>2, <2>3, <1>7
  <1>9. PICK w \in Answered :
          /\ w.pc = "answered" /\ w.job = j /\ w.key = call[c].key
          /\ w.req = call[c].req /\ w.code = code
          /\ call' = [call EXCEPT ![c] = w]
    BY <1>5, <1>6
  <1> HIDE DEF v, code
  <1>10. Says(w)
    BY <1>8, <1>9 DEF Says
  <1> QED BY <1>6, <1>9, <1>10, CallStep

(* The COMMIT.  The key of the new row was reserved, so no other row has   *)
(* it; the row's hash is that of the request, which is answered 202.       *)
LEMMA CommitStep ==
    ASSUME SubmitInv, NEW c \in Client, NEW j \in Job, SubmitCommit(c, j)
    PROVE  SubmitInv'
  <1> DEFINE key == call[c].key
             q == call[c].req
  <1>1. /\ call[c] \in Open /\ call[c].pc = "inserted"
        /\ key \in Key \cup {NoKey} /\ q \in Request /\ call[c].at \in 0 .. MaxClock
    <2>1. call[c] \in Open /\ call[c].pc = "inserted"
      BY CallCases DEF SubmitCommit, SubmitInv
    <2> QED BY <2>1 DEF Open
  <1> DEFINE row == [key |-> key, at |-> call[c].at, max |-> Effective(q.max), from |-> NoJob,
                     hash |-> IF key = NoKey THEN NoHash ELSE RequestHash(q)]
  <1>2. /\ Effective(q.max) \in 0 .. MaxAttempts /\ RequestHash(q) \in Hash
        /\ RequestHash(q).max = Effective(q.max) /\ RequestHash(q).body = q.body
    BY <1>1, HashType, AttemptAssumption DEF Attempt
  <1>3. /\ row \in Cols
        /\ row.key = key /\ row.max = Effective(q.max)
        /\ key # NoKey => row.hash = RequestHash(q)
    BY <1>1, <1>2, MaxClockAssumption DEF Cols
  <1>4. Insert(j, row) /\ clock' = clock
    BY DEF SubmitCommit
  <1> HIDE DEF row
  <1>5. /\ status' \in [Job -> Status] /\ cols' \in [Job -> Cols]
        /\ \A i \in Job : i # j => status'[i] = status[i] /\ cols'[i] = cols[i]
        /\ status[j] = "none" /\ cols'[j] = row /\ status'[j] = "pending"
    BY <1>3, <1>4 DEF SubmitInv, SubmitType, Insert, Status, Exists
  <1>6. /\ \A i \in Job : i # j => (Exists(i)' <=> Exists(i))
        /\ Exists(j)' /\ ~ Exists(j)
    BY <1>5 DEF Exists
  <1> DEFINE told == [pc |-> "answered", key |-> key, req |-> q, code |-> 202, job |-> j]
  <1>7. PICK v \in {IdleCall, told} : /\ call' = [call EXCEPT ![c] = v]
                                      /\ v # IdleCall => key \in Key
    BY <1>1 DEF SubmitCommit, Answers, Goes
  <1>8. v \in {IdleCall} \cup Open \cup Answered /\ v.pc \in {"idle", "answered"}
    <2>1. CASE v = IdleCall
      BY <2>1 DEF IdleCall
    <2>2. CASE v = told /\ key \in Key
      BY <2>2, <1>1 DEF Answered
    <2> QED BY <2>1, <2>2, <1>7
  <1>9. v.pc = "answered" =>
          v.job = j /\ v.key = key /\ v.req = q /\ v.code = 202 /\ key \in Key
    BY <1>7 DEF IdleCall
  <1> HIDE DEF told
  <1>10. /\ call' \in [Client -> {IdleCall} \cup Open \cup Answered]
         /\ call'[c] = v /\ \A d \in Client : d # c => call'[d] = call[d]
    BY <1>7, <1>8 DEF SubmitInv, SubmitType
  <1>11. SubmitType'
    BY <1>4, <1>5, <1>10 DEF SubmitInv, SubmitType
  <1>12. key \in Key =>
           /\ \A i \in Job : Exists(i) => cols[i].key # key
           /\ \A d \in Client : call[d].pc = "inserted" /\ call[d].key = key => d = c
    BY <1>1 DEF SubmitInv, KeyReserved
  <1>13. KeyUnique'
    <2> SUFFICES ASSUME NEW i \in Job, NEW l \in Job, Exists(i)', Exists(l)',
                        cols'[i].key \in Key, cols'[i].key = cols'[l].key
                 PROVE  i = l
      BY DEF KeyUnique
    <2>1. CASE i = j
      BY <2>1, <1>3, <1>5, <1>6, <1>12
    <2>2. CASE l = j
      BY <2>2, <1>3, <1>5, <1>6, <1>12
    <2>3. CASE i # j /\ l # j
      BY <2>3, <1>5, <1>6 DEF SubmitInv, KeyUnique
    <2> QED BY <2>1, <2>2, <2>3
  <1>14. HashOfRow'
    <2> SUFFICES ASSUME NEW i \in Job, Exists(i)', cols'[i].key \in Key
                 PROVE  cols'[i].hash \in Hash /\ cols'[i].hash.max = cols'[i].max
      BY DEF HashOfRow
    <2>1. CASE i = j
      BY <2>1, <1>2, <1>3, <1>5, NoKeyAssumption
    <2>2. CASE i # j
      BY <2>2, <1>5, <1>6 DEF SubmitInv, HashOfRow
    <2> QED BY <2>1, <2>2
  <1>15. KeyReserved'
    <2> SUFFICES ASSUME NEW e \in Client, call'[e].pc = "inserted", call'[e].key \in Key
                 PROVE  /\ \A i \in Job : Exists(i)' => cols'[i].key # call'[e].key
                        /\ \A d \in Client :
                              call'[d].pc = "inserted" /\ call'[d].key = call'[e].key => d = e
      BY DEF KeyReserved
    <2>1. e # c /\ call'[e] = call[e]
      BY <1>8, <1>10
    <2>2. /\ \A i \in Job : Exists(i) => cols[i].key # call[e].key
          /\ \A d \in Client : call[d].pc = "inserted" /\ call[d].key = call[e].key => d = e
      BY <2>1 DEF SubmitInv, KeyReserved
    <2>3. call[e].key # key
      BY <2>1, <1>1, <2>2
    <2>4. \A i \in Job : Exists(i)' => cols'[i].key # call'[e].key
      BY <2>1, <2>2, <2>3, <1>3, <1>5, <1>6
    <2>5. ASSUME NEW d \in Client, call'[d].pc = "inserted", call'[d].key = call'[e].key
          PROVE  d = e
      <3>1. d # c
        BY <2>5, <1>8, <1>10
      <3> QED BY <3>1, <2>5, <2>1, <2>2, <1>10
    <2> QED BY <2>4, <2>5
  <1>16. AllTold'
    <2> SUFFICES ASSUME NEW e \in Client, call'[e].pc = "answered" PROVE Told(e)'
      BY DEF AllTold
    <2>1. CASE e = c
      <3>1. /\ call'[e].job = j /\ call'[e].key = key /\ call'[e].req = q
            /\ call'[e].code = 202 /\ key \in Key
        BY <2>1, <1>9, <1>10
      <3>2. cols'[j].key = key
        BY <1>3, <1>5
      <3>3. cols'[j].hash.body = q.body /\ cols'[j].max = Effective(q.max)
        BY <3>1, <1>2, <1>3, <1>5, NoKeyAssumption
      <3> HIDE DEF key, q
      <3>4. (call[e].job \in Holders(call[e].key))'
        BY <3>1, <3>2, <1>6 DEF Holders
      <3>5. /\ cols'[call'[e].job].hash.body = call'[e].req.body
            /\ cols'[call'[e].job].max = Effective(call'[e].req.max)
        BY <3>1, <3>3
      <3> QED BY <3>1, <3>4, <3>5 DEF Told, Says
    <2>2. CASE e # c
      <3>1. call'[e] = call[e]
        BY <2>2, <1>10
      <3>2. Told(e)
        BY <3>1 DEF SubmitInv, AllTold
      <3>3. call[e].job \in Job /\ call[e].job # j
        BY <3>2, <1>6 DEF Told, Says, Holders
      <3> QED BY <3>1, <3>2, <3>3, <1>5, <1>6 DEF Told, Says, Holders
    <2> QED BY <2>1, <2>2
  <1> QED BY <1>11, <1>13, <1>14, <1>15, <1>16 DEF SubmitInv

(* The types of what replays read and write.                               *)
ReplayType ==
    /\ replayed \in [Job -> Job \cup {NoJob}]
    /\ replay \in [Replayer -> {IdleReplay} \cup Replaying \cup Replied]

(* A replay is one of three kinds of record.                               *)
LEMMA ReplayCases ==
    ASSUME ReplayType, NEW o \in Replayer
    PROVE  /\ replay[o].pc \in {"begun", "locked"} => replay[o] \in Replaying
           /\ replay[o].pc = "answered" => replay[o] \in Replied
           /\ replay[o].pc \in {"idle", "begun", "locked", "answered"}
  <1>1. replay[o] \in {IdleReplay} \cup Replaying \cup Replied
    BY DEF ReplayType
  <1>2. CASE replay[o] = IdleReplay
    BY <1>2 DEF IdleReplay
  <1>3. CASE replay[o] \in Replaying
    BY <1>3 DEF Replaying
  <1>4. CASE replay[o] \in Replied
    BY <1>4 DEF Replied
  <1> QED BY <1>1, <1>2, <1>3, <1>4

(* The row that a replay inserts.                                          *)
LEMMA ReplayRow ==
    ASSUME ReplayType, NEW o \in Replayer, NEW new \in Job, ReplayCommit(o, new)
    PROVE  \E row \in Cols : /\ row.key = NoKey /\ row.at = replay[o].at
                             /\ row.from = replay[o].entry /\ Insert(new, row)
  <1>1. /\ replay[o].at \in 0 .. MaxClock /\ replay[o].entry \in Job
        /\ replay[o].max \in 0 .. MaxAttempts
    <2>1. replay[o] \in Replaying
      BY ReplayCases DEF ReplayCommit
    <2> QED BY <2>1 DEF Replaying
  <1>2. Effective(replay[o].max) \in 0 .. MaxAttempts
    BY <1>1, AttemptAssumption DEF Effective, Attempt
  <1> DEFINE row == [key |-> NoKey, hash |-> NoHash, at |-> replay[o].at,
                     max |-> Effective(replay[o].max), from |-> replay[o].entry]
  <1>3. row \in Cols /\ row.key = NoKey /\ row.at = replay[o].at /\ row.from = replay[o].entry
    <2>1. replay[o].at \in Nat
      BY <1>1, MaxClockAssumption
    <2> QED BY <1>1, <1>2, <2>1 DEF Cols
  <1>4. Insert(new, row)
    BY DEF ReplayCommit
  <1> HIDE DEF row
  <1> QED BY <1>3, <1>4

(* Every step of a replay leads to another record of the type.             *)
LEMMA ReplayTypeStep ==
    ASSUME SubmitType, ReplayType, [Next]_vars
    PROVE  ReplayType'
  <1>1. CASE UNCHANGED <<replayed, replay>>
    BY <1>1 DEF ReplayType
  <1>2. ASSUME NEW o \in Replayer, NEW v \in {IdleReplay} \cup Replaying \cup Replied,
               Replies(o, v), replayed' \in [Job -> Job \cup {NoJob}]
        PROVE  ReplayType'
    BY <1>2 DEF ReplayType, Replies
  <1>3. ASSUME NEW o \in Replayer, NEW j \in Job, NEW m \in 0 .. MaxAttempts, ReplayBegin(o, j, m)
        PROVE  ReplayType'
    <2> DEFINE v == [pc |-> "begun", entry |-> j, max |-> m, at |-> clock]
    <2>1. v \in Replaying
      BY DEF Replaying, SubmitType
    <2>2. Replies(o, v) /\ replayed' = replayed
      BY <1>3 DEF ReplayBegin
    <2> HIDE DEF v
    <2> QED BY <1>2, <2>1, <2>2 DEF ReplayType
  <1>4. ASSUME NEW o \in Replayer, ReplayLock(o)
        PROVE  ReplayType'
    <2>1. replay[o] \in Replaying /\ replay[o].entry \in Job
      <3>1. replay[o] \in Replaying
        BY <1>4, ReplayCases DEF ReplayLock
      <3> QED BY <3>1 DEF Replaying
    <2> DEFINE a == [pc |-> "answered", entry |-> replay[o].entry, code |-> 409, job |-> NoJob]
               b == [replay[o] EXCEPT !.pc = "locked"]
    <2>2. a \in Replied /\ b \in Replaying
      BY <2>1 DEF Replied, Replaying
    <2>3. Replies(o, IdleReplay) \/ Replies(o, a) \/ Replies(o, b)
      BY <1>4 DEF ReplayLock, ReplayRead
    <2>4. replayed' = replayed
      BY <1>4 DEF ReplayLock, ReplayRead
    <2> HIDE DEF a, b
    <2> QED BY <1>2, <2>2, <2>3, <2>4 DEF ReplayType
  <1>5. ASSUME NEW o \in Replayer, ReplayAbort(o)
        PROVE  ReplayType'
    BY <1>2, <1>5 DEF ReplayAbort, ReplayType
  <1>6. ASSUME NEW o \in Replayer, NEW new \in Job, ReplayCommit(o, new)
        PROVE  ReplayType'
    <2>1. replay[o].entry \in Job
      <3>1. replay[o] \in Replaying
        BY <1>6, ReplayCases DEF ReplayCommit
      <3> QED BY <3>1 DEF Replaying
    <2> DEFINE a == [pc |-> "answered", entry |-> replay[o].entry, code |-> 202, job |-> new]
    <2>2. a \in Replied
      BY <2>1 DEF Replied
    <2>3. Replies(o, IdleReplay) \/ Replies(o, a)
      BY <1>6 DEF ReplayCommit
    <2>4. replayed' \in [Job -> Job \cup {NoJob}]
      BY <1>6 DEF ReplayCommit, ReplayType
    <2> HIDE DEF a
    <2> QED BY <1>2, <2>2, <2>3, <2>4
  <1>7. CASE \E c \in Client :
               \/ \E k \in (Key \cap callers) \cup {NoKey}, q \in Request : SubmitBegin(c, k, q)
               \/ SubmitInsert(c) \/ SubmitExisting(c) \/ SubmitAbort(c)
               \/ \E j \in Job : SubmitCommit(c, j)
    BY <1>1, <1>7 DEF SubmitBegin, SubmitInsert, SubmitExisting, SubmitAbort, SubmitCommit
  <1>8. CASE \E p \in Pager : (\E view \in View, n \in Limit : WalkBegin(p, view, n)) \/ PageRead(p)
    BY <1>1, <1>8 DEF WalkBegin, PageRead
  <1>9. CASE \E j, new \in Job, m \in 0 .. MaxAttempts : Retry(j, new, m)
    BY <1>1, <1>9 DEF Retry
  <1>10. CASE Tick \/ UNCHANGED vars \/ \E j \in Job : Move(j)
    BY <1>1, <1>10 DEF Tick, vars, Move
  <1> QED BY <1>3, <1>4, <1>5, <1>6, <1>7, <1>8, <1>9, <1>10 DEF Next

(* Every step preserves the invariant.                                     *)
LEMMA SubmitStep == SubmitInv /\ ReplayType /\ [Next]_vars => SubmitInv' /\ ReplayType'
  <1> SUFFICES ASSUME SubmitInv, ReplayType, [Next]_vars PROVE SubmitInv'
    BY ReplayTypeStep DEF SubmitInv
  <1>1. CASE \E c \in Client : SubmitInsert(c)
    BY <1>1, InsertStep
  <1>2. CASE \E c \in Client : SubmitExisting(c)
    BY <1>2, ExistingStep
  <1>3. CASE \E c \in Client, j \in Job : SubmitCommit(c, j)
    BY <1>3, CommitStep
  <1>4. CASE \E c \in Client :
               \/ \E k \in Key \cup {NoKey}, q \in Request : SubmitBegin(c, k, q)
               \/ SubmitAbort(c)
    BY <1>4, BeginStep
  <1>5. CASE \E j, new \in Job, m \in 0 .. MaxAttempts : Retry(j, new, m)
    <2> PICK j \in Job, new \in Job, m \in 0 .. MaxAttempts : Retry(j, new, m)
      BY <1>5
    <2>1. cols[j].max \in 0 .. MaxAttempts /\ clock \in Nat
      BY MaxClockAssumption DEF SubmitInv, SubmitType, Cols
    <2> DEFINE row == [NoCols EXCEPT !.at = clock, !.max = IF m = 0 THEN cols[j].max ELSE m]
    <2>2. row \in Cols /\ row.key = NoKey
      BY <2>1 DEF NoCols, Cols
    <2>3. Insert(new, row) /\ UNCHANGED <<clock, call>>
      BY DEF Retry
    <2> HIDE DEF row
    <2> QED BY <2>2, <2>3, KeylessInsert
  <1>6. CASE \E j \in Job : Move(j)
    <2> PICK j \in Job : Move(j)
      BY <1>6
    <2>1. PICK to \in {"pending", "running", "failed", "dead_lettered"} :
            <<status[j], to>> \in Moves /\ status' = [status EXCEPT ![j] = to]
      BY DEF Move
    <2>2. status[j] # "none"
      BY <2>1 DEF Moves
    <2>3. /\ status' \in [Job -> Status]
          /\ \A i \in Job : status'[i] = "none" <=> status[i] = "none"
      BY <2>1, <2>2 DEF SubmitInv, SubmitType, Status
    <2>4. UNCHANGED <<cols, call>> /\ clock' \in 0 .. MaxClock
      BY DEF Move, SubmitInv, SubmitType
    <2> QED BY <2>3, <2>4, RowsKept
  <1>7. CASE Tick
    <2>1. clock' \in 0 .. MaxClock
      BY <1>7, MaxClockAssumption DEF Tick, SubmitInv, SubmitType
    <2>2. UNCHANGED <<status, cols, call>> /\ status \in [Job -> Status]
      BY <1>7 DEF Tick, SubmitInv, SubmitType
    <2> QED BY <2>1, <2>2, RowsKept
  <1>8. CASE UNCHANGED <<status, cols, clock, call>>
    <2>1. clock' \in 0 .. MaxClock /\ status' \in [Job -> Status]
      BY <1>8 DEF SubmitInv, SubmitType
    <2> QED BY <2>1, <1>8, RowsKept
  <1>9. CASE \E p \in Pager : \/ \E view \in View, n \in Limit : WalkBegin(p, view, n)
                             \/ PageRead(p)
    BY <1>9, <1>8 DEF WalkBegin, PageRead
  <1>10. CASE \E o \in Replayer :
                \/ \E j \in Job, m \in 0 .. MaxAttempts : ReplayBegin(o, j, m)
                \/ ReplayLock(o) \/ ReplayAbort(o)
    BY <1>10, <1>8 DEF ReplayBegin, ReplayLock, ReplayRead, ReplayAbort
  <1>11. ASSUME NEW o \in Replayer, NEW new \in Job, ReplayCommit(o, new)
         PROVE  SubmitInv'
    <2>1. PICK row \in Cols : /\ row.key = NoKey /\ row.at = replay[o].at
                             /\ row.from = replay[o].entry /\ Insert(new, row)
      BY <1>11, ReplayRow
    <2>2. UNCHANGED <<clock, call>>
      BY <1>11 DEF ReplayCommit
    <2> QED BY <2>1, <2>2, KeylessInsert
  <1> QED BY <1>1, <1>2, <1>3, <1>4, <1>5, <1>6, <1>7, <1>8, <1>9, <1>10, <1>11 DEF Next, vars

(* The invariant is enough: a set with at most one member is empty or a    *)
(* singleton.                                                              *)
LEMMA SubmitInvEnough == SubmitInv => SubmitOnce
  <1> SUFFICES ASSUME SubmitInv PROVE SubmitOnce
    OBVIOUS
  <1>1. ASSUME NEW k \in Key PROVE Cardinality(Holders(k)) <= 1
    <2>1. CASE Holders(k) = {}
      BY <2>1, FS_EmptySet
    <2>2. CASE \E j \in Job : Holders(k) = {j}
      BY <2>2, FS_Singleton
    <2>3. \A i, l \in Holders(k) : i = l
      BY DEF SubmitInv, KeyUnique, Holders
    <2>4. Holders(k) \subseteq Job
      BY DEF Holders
    <2> QED BY <2>1, <2>2, <2>3, <2>4
  <1>2. \A c \in Client : call[c].pc = "answered" => Told(c)
    BY DEF SubmitInv, AllTold
  <1> QED BY <1>1, <1>2 DEF SubmitOnce, Told, Says

(* For any number of clients, keys, bodies and jobs: an idempotency key    *)
(* has one job, everyone answered is pointed to it, and the answer is 409  *)
(* exactly when the job is not the one asked for (Submit).                 *)
THEOREM SubmittedOnce == Spec => []SubmitOnce
  <1>1. Init => SubmitInv /\ ReplayType
    BY SubmitInit DEF Init, ReplayType
  <1>2. SubmitInv /\ ReplayType /\ [Next]_vars => (SubmitInv /\ ReplayType)'
    BY SubmitStep
  <1>3. SubmitInv => SubmitOnce
    BY SubmitInvEnough
  <1> QED BY <1>1, <1>2, <1>3, PTL DEF Spec
-----------------------------------------------------------------------------
(* Entry and replay name each other.                                       *)
Linked == \A j, r \in Job : cols[r].from = j <=> replayed[j] = r
BlankRows == \A j \in Job : ~ Exists(j) => cols[j].from = NoJob

(* A transaction that has locked an entry is the only one, and the entry   *)
(* has not been replayed: what the row lock guarantees until the commit.   *)
EntryHeld ==
    \A o \in Replayer : replay[o].pc = "locked" =>
        /\ replayed[replay[o].entry] = NoJob
        /\ \A u \in Replayer : replay[u].pc = "locked" /\ replay[u].entry = replay[o].entry => u = o

(* What a replayer was told is still so.                                   *)
Truthful(v) ==
    v.pc = "answered" =>
        LET as == replayed[v.entry] IN as # NoJob /\ (v.code = 202 => as = v.job)

ReplayInv == Linked /\ BlankRows /\ EntryHeld /\ \A o \in Replayer : Truthful(replay[o])

(* A new row that is not a replay, and a step of the rows' statuses.       *)
LEMMA UnlinkedStep ==
    ASSUME SubmitType, ReplayInv, UNCHANGED <<replayed, replay>>,
           \/ \E new \in Job, row \in Cols : Insert(new, row) /\ row.from = NoJob
           \/ cols' = cols /\ \A j \in Job : status'[j] = "none" <=> status[j] = "none"
    PROVE  ReplayInv'
  <1> USE DEF ReplayInv
  <1>1. \A j \in Job : cols'[j].from = cols[j].from /\ (Exists(j) => Exists(j)')
    <2>1. ASSUME NEW new \in Job, NEW row \in Cols, Insert(new, row), row.from = NoJob
          PROVE  \A j \in Job : cols'[j].from = cols[j].from /\ (Exists(j) => Exists(j)')
      BY <2>1 DEF Insert, SubmitType, Exists, BlankRows
    <2> QED BY <2>1 DEF Exists
  <1>2. Linked' /\ BlankRows'
    BY <1>1 DEF Linked, BlankRows
  <1> QED BY <1>2 DEF EntryHeld, Truthful

(* A step of one replayer that writes no row.                              *)
LEMMA ReplierStep ==
    ASSUME ReplayType, ReplayInv, UNCHANGED <<status, cols, replayed>>, NEW o \in Replayer, NEW v,
           Replies(o, v), Truthful(v),
           v.pc = "locked" =>
               /\ replayed[v.entry] = NoJob
               /\ \A u \in Replayer \ {o} : ~ (replay[u].pc = "locked" /\ replay[u].entry = v.entry)
    PROVE  ReplayInv'
  <1> USE DEF ReplayInv
  <1>1. \A u \in Replayer : replay'[u] = IF u = o THEN v ELSE replay[u]
    BY DEF ReplayType, Replies
  <1>2. Linked' /\ BlankRows'
    BY DEF Linked, BlankRows, Exists
  <1>3. EntryHeld'
    BY <1>1 DEF EntryHeld
  <1>4. ASSUME NEW u \in Replayer PROVE Truthful(replay[u])'
    <2>1. Truthful(v)'
      BY DEF Truthful
    <2> QED BY <1>1, <2>1 DEF Truthful
  <1> QED BY <1>2, <1>3, <1>4

(* The SELECT ... FOR UPDATE.                                              *)
LEMMA LockStep ==
    ASSUME ReplayType, ReplayInv, NEW o \in Replayer, ReplayLock(o)
    PROVE  ReplayInv'
  <1>1. replay[o] \in Replaying /\ replay[o].pc = "begun"
    BY ReplayCases DEF ReplayLock
  <1> DEFINE e == replay[o].entry
             a == [pc |-> "answered", entry |-> e, code |-> 409, job |-> NoJob]
             b == [replay[o] EXCEPT !.pc = "locked"]
  <1>2. IdleReplay.pc = "idle"
    BY DEF IdleReplay
  <1>3. b.pc = "locked" /\ b.entry = e
    BY <1>1 DEF Replaying
  <1>4. UNCHANGED <<status, cols, replayed>>
    BY DEF ReplayLock, ReplayRead
  <1>5. \A u \in Replayer \ {o} : ~ (replay[u].pc = "locked" /\ replay[u].entry = e)
    BY DEF ReplayLock, EntryLocked
  <1>6. \/ Replies(o, IdleReplay)
        \/ Replies(o, a) /\ replayed[e] # NoJob
        \/ Replies(o, b) /\ replayed[e] = NoJob
    BY DEF ReplayLock, ReplayRead
  <1>7. CASE Replies(o, IdleReplay)
    BY <1>2, <1>4, <1>7, ReplierStep DEF Truthful
  <1>8. CASE Replies(o, a) /\ replayed[e] # NoJob
    <2>1. a.pc = "answered" /\ a.entry = e /\ a.code = 409
      OBVIOUS
    <2> HIDE DEF a, e
    <2>2. Truthful(a)
      BY <1>8, <2>1 DEF Truthful
    <2> QED BY <1>4, <1>8, <2>1, <2>2, ReplierStep
  <1>9. CASE Replies(o, b) /\ replayed[e] = NoJob
    <2> HIDE DEF b, e
    <2>1. Truthful(b)
      BY <1>3 DEF Truthful
    <2> QED BY <1>3, <1>4, <1>5, <1>9, <2>1, ReplierStep
  <1> QED BY <1>6, <1>7, <1>8, <1>9

(* The COMMIT.  The entry was locked and not replayed, so no row names it  *)
(* yet, and nobody who was answered or holds a lock refers to it.          *)
LEMMA ReplayCommitStep ==
    ASSUME SubmitType, ReplayType, ReplayInv, NEW o \in Replayer, NEW new \in Job,
           ReplayCommit(o, new)
    PROVE  ReplayInv'
  <1> DEFINE e == replay[o].entry
             a == [pc |-> "answered", entry |-> e, code |-> 202, job |-> new]
  <1>1. e \in Job /\ replay[o].pc = "locked" /\ replayed[e] = NoJob
    <2>1. replay[o] \in Replaying
      BY ReplayCases DEF ReplayCommit
    <2> QED BY <2>1 DEF Replaying, ReplayCommit, ReplayInv, EntryHeld
  <1>2. PICK row \in Cols : row.from = e /\ Insert(new, row)
    BY ReplayRow
  <1>3. /\ \A j \in Job : cols'[j].from = IF j = new THEN e ELSE cols[j].from
        /\ \A j \in Job : Exists(j) => Exists(j)'
        /\ Exists(new)' /\ ~ Exists(new)
    BY <1>2 DEF Insert, SubmitType, Exists
  <1>4. \A j \in Job : replayed'[j] = IF j = e THEN new ELSE replayed[j]
    BY <1>1 DEF ReplayCommit, ReplayType
  <1>5. PICK v \in {IdleReplay, a} : Replies(o, v)
    BY DEF ReplayCommit
  <1>6. v.pc # "locked" /\ (v.pc = "answered" => v.entry = e /\ v.job = new)
    BY <1>5 DEF IdleReplay
  <1>7. \A u \in Replayer : replay'[u] = IF u = o THEN v ELSE replay[u]
    BY <1>5 DEF ReplayType, Replies
  <1>8. \A u \in Replayer \ {o} : ~ (replay[u].pc = "locked" /\ replay[u].entry = e)
    BY <1>1 DEF ReplayInv, EntryHeld
  <1>9. \A u \in Replayer : replay[u].pc \in {"locked", "answered"} => replay[u].entry \in Job
    BY ReplayCases DEF Replaying, Replied
  <1> HIDE DEF e, a
  <1>10. cols[new].from = NoJob /\ new # NoJob
    BY <1>3, NoJobAssumption DEF ReplayInv, BlankRows
  <1>11. Linked'
    <2> SUFFICES ASSUME NEW j \in Job, NEW r \in Job
                 PROVE  cols'[r].from = j <=> replayed'[j] = r
      BY DEF Linked
    <2>1. cols[r].from = j <=> replayed[j] = r
      BY DEF ReplayInv, Linked
    <2>2. cols[new].from = j <=> replayed[j] = new
      BY DEF ReplayInv, Linked
    <2>3. j # NoJob /\ r # NoJob
      BY NoJobAssumption
    <2> QED BY <1>1, <1>3, <1>4, <1>10, <2>1, <2>2, <2>3
  <1>12. BlankRows'
    BY <1>3 DEF ReplayInv, BlankRows
  <1>13. EntryHeld'
    BY <1>4, <1>6, <1>7, <1>8, <1>9 DEF ReplayInv, EntryHeld
  <1>14. ASSUME NEW u \in Replayer PROVE Truthful(replay[u])'
    <2>1. CASE u = o
      BY <1>1, <1>4, <1>6, <1>7, <1>10, <2>1 DEF Truthful
    <2>2. CASE u # o
      BY <1>1, <1>4, <1>7, <1>9, <2>2 DEF Truthful, ReplayInv
    <2> QED BY <2>1, <2>2
  <1> QED BY <1>11, <1>12, <1>13, <1>14 DEF ReplayInv

(* Every step keeps what replays keep.                                     *)
LEMMA ReplayStep ==
    ASSUME SubmitType, ReplayType, ReplayInv, [Next]_vars
    PROVE  ReplayInv'
  <1>1. CASE UNCHANGED <<status, cols, replayed, replay>>
    BY <1>1, UnlinkedStep
  <1>2. CASE \E c \in Client :
               \/ \E k \in (Key \cap callers) \cup {NoKey}, q \in Request : SubmitBegin(c, k, q)
               \/ SubmitInsert(c) \/ SubmitExisting(c) \/ SubmitAbort(c)
    BY <1>1, <1>2 DEF SubmitBegin, SubmitInsert, SubmitExisting, SubmitAbort
  <1>3. ASSUME NEW c \in Client, NEW j \in Job, SubmitCommit(c, j)
        PROVE  ReplayInv'
    <2>1. /\ call[c].key \in Key \cup {NoKey} /\ call[c].req \in Request
          /\ call[c].at \in 0 .. MaxClock
      <3>1. call[c] \in Open
        BY <1>3, CallCases DEF SubmitCommit
      <3> QED BY <3>1 DEF Open
    <2> DEFINE row == [key |-> call[c].key, at |-> call[c].at, max |-> Effective(call[c].req.max),
                       from |-> NoJob,
                       hash |-> IF call[c].key = NoKey THEN NoHash ELSE RequestHash(call[c].req)]
    <2>2. row \in Cols /\ row.from = NoJob
      BY <2>1, HashType, AttemptAssumption, MaxClockAssumption DEF Cols, Attempt
    <2>3. Insert(j, row) /\ UNCHANGED <<replayed, replay>>
      BY <1>3 DEF SubmitCommit
    <2> HIDE DEF row
    <2> QED BY <2>2, <2>3, UnlinkedStep
  <1>4. ASSUME NEW j \in Job, NEW new \in Job, NEW m \in 0 .. MaxAttempts, Retry(j, new, m)
        PROVE  ReplayInv'
    <2> DEFINE row == [NoCols EXCEPT !.at = clock, !.max = IF m = 0 THEN cols[j].max ELSE m]
    <2>1. cols[j].max \in 0 .. MaxAttempts /\ clock \in Nat
      BY MaxClockAssumption DEF SubmitType, Cols
    <2>2. row \in Cols /\ row.from = NoJob
      BY <2>1 DEF NoCols, Cols
    <2>3. Insert(new, row) /\ UNCHANGED <<replayed, replay>>
      BY <1>4 DEF Retry
    <2> HIDE DEF row
    <2> QED BY <2>2, <2>3, UnlinkedStep
  <1>5. ASSUME NEW j \in Job, Move(j)
        PROVE  ReplayInv'
    <2>1. \A i \in Job : status'[i] = "none" <=> status[i] = "none"
      BY <1>5 DEF Move, Moves, SubmitType
    <2> QED BY <1>5, <2>1, UnlinkedStep DEF Move
  <1>6. ASSUME NEW o \in Replayer, NEW j \in Job, NEW m \in 0 .. MaxAttempts, ReplayBegin(o, j, m)
        PROVE  ReplayInv'
    <2> DEFINE v == [pc |-> "begun", entry |-> j, max |-> m, at |-> clock]
    <2>1. Replies(o, v) /\ v.pc = "begun" /\ UNCHANGED <<status, cols, replayed>>
      BY <1>6 DEF ReplayBegin
    <2> HIDE DEF v
    <2> QED BY <2>1, ReplierStep DEF Truthful
  <1>7. ASSUME NEW o \in Replayer, ReplayAbort(o)
        PROVE  ReplayInv'
    <2>1. IdleReplay.pc = "idle"
      BY DEF IdleReplay
    <2> QED BY <1>7, <2>1, ReplierStep DEF ReplayAbort, Truthful
  <1>8. CASE \E o \in Replayer : ReplayLock(o)
    BY <1>8, LockStep
  <1>9. CASE \E o \in Replayer, new \in Job : ReplayCommit(o, new)
    BY <1>9, ReplayCommitStep
  <1>10. CASE \E p \in Pager : (\E view \in View, n \in Limit : WalkBegin(p, view, n)) \/ PageRead(p)
    BY <1>1, <1>10 DEF WalkBegin, PageRead
  <1>11. CASE Tick \/ UNCHANGED vars
    BY <1>1, <1>11 DEF Tick, vars
  <1> QED BY <1>2, <1>3, <1>4, <1>5, <1>6, <1>7, <1>8, <1>9, <1>10, <1>11 DEF Next

(* For any number of replayers and of entries: however replays of an entry *)
(* overlap, wait for each other's lock, are rolled back or repeated, the   *)
(* entry is replayed once, entry and replay name each other, and whoever   *)
(* was answered was told the truth about it (ReplayDLQ).                   *)
THEOREM ReplayedOnce == Spec => []ReplayOnce
  <1>1. Init => SubmitInv /\ ReplayType /\ ReplayInv
    <2>1. ASSUME Init PROVE ReplayType /\ ReplayInv
      <3>1. ReplayType
        BY <2>1 DEF Init, ReplayType
      <3>2. \A j \in Job : cols[j].from = NoJob /\ replayed[j] = NoJob
        BY <2>1 DEF Init, NoCols
      <3>3. \A o \in Replayer : replay[o].pc = "idle"
        BY <2>1 DEF Init, IdleReplay
      <3> QED BY <3>1, <3>2, <3>3, NoJobAssumption
              DEF ReplayInv, Linked, BlankRows, EntryHeld, Truthful
    <2> QED BY <2>1, SubmitInit
  <1>2. SubmitInv /\ ReplayType /\ ReplayInv /\ [Next]_vars => (SubmitInv /\ ReplayType /\ ReplayInv)'
    BY SubmitStep, ReplayStep DEF SubmitInv
  <1>3. ReplayInv => ReplayOnce
    BY DEF ReplayInv, Linked, Truthful, ReplayOnce
  <1> QED BY <1>1, <1>2, <1>3, PTL DEF Spec
=============================================================================
