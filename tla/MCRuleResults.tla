---------------------------- MODULE MCRuleResults ----------------------------
(* Instances of RuleResults for TLC.                                       *)
EXTENDS RuleResults, TLC, FiniteSets

Reports(r) ==
    {x \in Resources :
        \/ alerts[r][x] # NoRow \/ latest[r][x] # "absent"
        \/ r = at /\ results[x] # "absent"}

(* No more than two resources are reported at a time, by both rules or by  *)
(* one of them; a third execution is left to the first rule, by itself.    *)
FewReports ==
    /\ Cardinality(UNION {{r} \X Reports(r) : r \in Rules}) <= 2
    /\ clock > 2 => known \subseteq {1} /\ \A r \in Rules \ {1} : Reports(r) = {}

Symmetry == Permutations(Resources)
=============================================================================
