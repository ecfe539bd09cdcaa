---------------------------- MODULE JobLifecycle ----------------------------
(***************************************************************************)
(* What the job service promises about the lives of jobs, with no tables,  *)
(* leases or transactions: the states and valid transitions of             *)
(* docs/adr/0001-job-service-contracts.md, the attempt budget, and audits  *)
(* whose verdict is taken in one step from descendants that have all       *)
(* ended.  Several jobs may move in one step, each along an edge of the    *)
(* transition graph.                                                       *)
(***************************************************************************)
EXTENDS Naturals

CONSTANTS Root, Package, MaxAttempts

VARIABLES
    status,    \* Job -> lifecycle state, "none" before submission
    attempts,  \* Job -> attempts started
    limit      \* Job -> maxAttempts

lifecycle == <<status, attempts, limit>>

Job == Root \cup (Root \X Package)
Descendants(r) == {r} \X Package
Family(r) == {r} \cup Descendants(r)

Queued == {"pending", "retry_scheduled"}
Ended == {"completed", "failed", "dead_lettered", "cancelled"}

Init ==
    /\ status = [j \in Job |-> "none"]
    /\ attempts = [j \in Job |-> 0]
    /\ limit = [j \in Job |-> 0]

(* A public job is submitted at any time; a child appears when a running   *)
(* job of its family finishes successfully.                                *)
Appear(j) ==
    /\ status[j] = "none" /\ status'[j] = "pending"
    /\ attempts'[j] = 0 /\ limit'[j] \in 1 .. MaxAttempts
    /\ \A r \in Root : j \in Descendants(r) =>
          \E p \in Family(r) : status[p] = "running" /\ status'[p] \in {"waiting", "completed"}

Start(j) ==
    /\ status[j] \in Queued /\ status'[j] = "running"
    /\ attempts'[j] = attempts[j] + 1 /\ attempts'[j] <= limit[j]
    /\ limit'[j] = limit[j]

(* A running job stops: it is requeued only while attempts are left, and   *)
(* dead-lettered only when none is.                                        *)
Stop(j) ==
    /\ status[j] = "running"
    /\ status'[j] \in Ended \cup Queued \cup {"waiting"}
    /\ status'[j] \in Queued => attempts[j] < limit[j]
    /\ status'[j] = "dead_lettered" => attempts[j] = limit[j]
    /\ status'[j] = "waiting" => j \in Root
    /\ attempts'[j] = attempts[j] /\ limit'[j] = limit[j]

Cancel(j) ==
    /\ status[j] \in Queued \cup {"waiting"} /\ status'[j] = "cancelled"
    /\ attempts'[j] = attempts[j] /\ limit'[j] = limit[j]

(* A waiting audit ends with its last descendant.                          *)
Finish(r) ==
    LET ends == {status'[d] : d \in Descendants(r)} IN
    /\ status[r] = "waiting"
    /\ ends \subseteq Ended \cup {"none"}
    /\ status'[r] = IF "dead_lettered" \in ends THEN "dead_lettered"
                    ELSE IF ends \cap {"failed", "cancelled"} # {} THEN "failed"
                    ELSE "completed"
    /\ attempts'[r] = attempts[r] /\ limit'[r] = limit[r]

Stay(j) == status'[j] = status[j] /\ attempts'[j] = attempts[j] /\ limit'[j] = limit[j]

Next ==
    \A j \in Job :
        \/ Stay(j) \/ Appear(j) \/ Start(j) \/ Stop(j) \/ Cancel(j)
        \/ j \in Root /\ Finish(j)

Spec == Init /\ [][Next]_lifecycle
=============================================================================
