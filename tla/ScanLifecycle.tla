---------------------------- MODULE ScanLifecycle ----------------------------
(***************************************************************************)
(* What the scan pipeline promises to a reader of scan_status: the columns *)
(* of a row follow one life cycle, one account at a time is scanned, and   *)
(* rules are evaluated only between scans.                                 *)
(***************************************************************************)
CONSTANT Accounts

VARIABLES status,  \* the scan_status of each account, "NONE" without a row
          phase    \* what the backend is doing

Phases == {"down", "idle", "scanning", "evaluating"}
InProgress == {"RUNNING", "CARTOGRAPHY_PASSED", "FAILED", "RULES_RUNNING"}

Become(a, new) == status' = [status EXCEPT ![a] = new]
MoveAll(old, new) ==
    status' = [a \in Accounts |-> IF status[a] = old THEN new ELSE status[a]]

Init == status = [a \in Accounts |-> "NONE"] /\ phase = "down"

(* Users may register, remove and queue accounts whenever the backend is up*)
User(a) ==
    /\ phase # "down" /\ UNCHANGED phase
    /\ \/ status[a] = "NONE" /\ Become(a, "READY")
       \/ status[a] # "NONE" /\ \E new \in {"NONE", "READY"} : Become(a, new)

(* Work that was not completed is queued again, between scans only.        *)
Requeue ==
    /\ phase \in {"idle", "down"} /\ phase' = "idle"
    /\ status' = [a \in Accounts |-> IF status[a] \in InProgress THEN "READY"
                                     ELSE status[a]]

StartScan == phase = "idle" /\ phase' = "scanning" /\ UNCHANGED status

(* A scan moves one row, and none that has been evaluated or is about to.  *)
Progress(a) ==
    /\ phase = "scanning" /\ UNCHANGED phase
    /\ \/ status[a] = "READY"
             /\ \E new \in {"RUNNING", "CARTOGRAPHY_PASSED", "FAILED"} : Become(a, new)
       \/ status[a] = "RUNNING"
             /\ \E new \in {"READY", "CARTOGRAPHY_PASSED", "FAILED"} : Become(a, new)

EndScan ==
    /\ phase = "scanning" /\ phase' = "idle"
    /\ MoveAll("CARTOGRAPHY_PASSED", "RULES_RUNNING") \/ UNCHANGED status

Evaluate ==
    /\ phase = "idle" /\ phase' = "evaluating"
    /\ \E a \in Accounts : status[a] = "RULES_RUNNING"
    /\ UNCHANGED status

EndEvaluation ==
    /\ phase = "evaluating" /\ phase' = "idle"
    /\ MoveAll("RULES_RUNNING", "PASSED") \/ UNCHANGED status

Up == phase = "down" /\ phase' = "idle" /\ UNCHANGED status
Down == phase # "down" /\ phase' = "down" /\ UNCHANGED status

Next ==
    \/ \E a \in Accounts : User(a) \/ Progress(a)
    \/ Requeue \/ StartScan \/ EndScan \/ Evaluate \/ EndEvaluation
    \/ Up \/ Down

Spec == Init /\ [][Next]_<<status, phase>>
=============================================================================
