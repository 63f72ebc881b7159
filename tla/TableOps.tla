------------------------------ MODULE TableOps ------------------------------
(***************************************************************************)
(* What the tables of rules and of alerts share (TableOpsUtils.tsx,        *)
(* Table.tsx): the filters, the comparators and the headers that sort.     *)
(* A row is a record with its place in the list, severity, risks, the      *)
(* words of its searched columns, and its number of alerts.                *)
(***************************************************************************)
EXTENDS Integers, FiniteSets, Sequences, SequencesExt

Severities == {"Critical", "High", "Moderate", "Low"}
SortValues == {"None", "Dec", "Inc"}
Categories == {"misconfiguration", "attackpath", "vulnerability"}

severityFilterFn(rows, value) ==
    IF value \in {"", "All"} THEN rows ELSE {row \in rows : row.severity = value}

risksFilterFn(rows, value) ==
    IF value \in {"", "All"} THEN rows ELSE {row \in rows : value \in row.risks}

\* A severity must be typed in full; of other columns a part is enough.
searchFilterFn(rows, value) ==
    IF value = "" THEN rows ELSE {row \in rows : value \in row.words \/ value = row.severity}

zeroAlertFilter(rows) == {row \in rows : row.alerts > 0}

alertNumberSortTypeFn(a, b) ==
    CASE a.alerts = b.alerts -> 0 [] a.alerts > b.alerts -> 1 [] OTHER -> -1

\* Mutant: high and critical the other way round.
SeveritySortSwapped(a, b) ==
    IF a.severity = b.severity THEN 0
    ELSE IF \/ a.severity = "Low"
            \/ a.severity = "Moderate" /\ b.severity \in {"High", "Critical"}
            \/ a.severity = "Critical" /\ b.severity = "High"
    THEN -1 ELSE 1

severitySortTypeFn(a, b) ==
    IF a.severity = b.severity THEN 0
    ELSE IF \/ a.severity = "Low"
            \/ a.severity = "Moderate" /\ b.severity \in {"High", "Critical"}
            \/ a.severity = "High" /\ b.severity = "Critical"
    THEN -1 ELSE 1

\* The rows in an order, given by its pairs: each has as many before it as
\* precede it.
Sorted(rows, order) ==
    [i \in 1 .. Cardinality(rows) |->
        CHOOSE row \in rows : Cardinality({r \in rows : <<r, row>> \in order}) = i - 1]

\* Array.sort keeps the order of rows that compare equal.
Arranged(rows, cmp(_, _), sign) ==
    Sorted(rows, {p \in rows \X rows :
                      \/ sign * cmp(p[1], p[2]) < 0
                      \/ cmp(p[1], p[2]) = 0 /\ p[1].place < p[2].place})
Unsorted(rows) == Sorted(rows, {p \in rows \X rows : p[1].place < p[2].place})

\* A click on a header: none, decreasing, increasing, none.
NextSort(value) ==
    CASE value = "None" -> "Dec" [] value = "Dec" -> "Inc" [] OTHER -> "None"

\* The severities from the most severe on, for the properties.
Rank == [Low |-> 1, Moderate |-> 2, High |-> 3, Critical |-> 4]
InOrder(seq, value, key(_)) ==
    \A i, j \in DOMAIN seq : i < j =>
        /\ value = "Dec" => key(seq[i]) >= key(seq[j])
        /\ value = "Inc" => key(seq[i]) =< key(seq[j])
=============================================================================
