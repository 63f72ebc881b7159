--------------------------- MODULE MCScanPipeline ---------------------------
(* Instances of ScanPipeline for TLC. The limits of a run are the numbers  *)
(* of faults, crashes and requests that may occur, at any time.            *)
EXTENDS ScanPipeline, TLC

NoEvents == [k \in Kinds |-> 0]
Symmetry == Permutations(Accounts)

(* Everything the environment can do, once or twice.                       *)
StormLimits ==
    [NoEvents EXCEPT !["db"] = 1, !["http"] = 1, !["job"] = 1, !["rule"] = 1,
                     !["crash"] = 1, !["restart"] = 1, !["request"] = 3,
                     !["delete"] = 1]

(* Faults that do not stop a loop for ever: the server keeps its jobs.     *)
LiveLimits == [StormLimits EXCEPT !["restart"] = 0]

RuleFaultLimits == [NoEvents EXCEPT !["rule"] = 1, !["request"] = 2]
QuietLimits == [NoEvents EXCEPT !["request"] = 3]
DeleteLimits == [NoEvents EXCEPT !["request"] = 3, !["delete"] = 1]
=============================================================================
