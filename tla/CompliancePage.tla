--------------------------- MODULE CompliancePage ---------------------------
(***************************************************************************)
(* Compliance: the cards with the percentage of rules that pass            *)
(* (get_compliance_framework_stats.go, one statement per rule), and the    *)
(* report of a framework (get_compliance_framework.go, Compliance*.tsx),   *)
(* while scans and users change the results as AlertBoard allows.          *)
(*                                                                         *)
(* A framework is a sequence of groups, a group one of controls, a control *)
(* one of rules: a rule counts once for each control it is in.             *)
(***************************************************************************)
EXTENDS CompliancePercent, Sequences, SequencesExt, FiniteSetsExt

CONSTANTS
    Rules, Resources,
    Frameworks,  \* the groups of each framework
    Known,       \* the rules with a row in rule_data
    MaxWrites,   \* changes of the results
    MaxFaults    \* requests that fail

Verdicts == {"failed", "passed"}

VARIABLES
    board, latest,  \* as in AlertBoard
    writes, faults,
    page,     \* "cards", or the framework whose report is open
    stats,    \* the request of each card
    cards,    \* what each card shows
    report,   \* the request of the report and what it has brought
    open      \* the controls and the rules of controls that are open

vars == <<board, latest, writes, faults, page, stats, cards, report, open>>

Alerts == INSTANCE AlertBoard

-----------------------------------------------------------------------------
Ids == DOMAIN Frameworks
Controls(f) == FlattenSeq(Frameworks[f])
RulesOf(f) == FlattenSeq(Controls(f))

ConstantsFit ==
    /\ IsFiniteSet(Resources) /\ Known \subseteq Rules
    /\ MaxWrites \in Nat /\ MaxFaults \in Nat
    /\ "cards" \notin Ids
    /\ \A f \in Ids : Controls(f) \in Seq(Seq(Rules)) /\ RulesOf(f) \in Seq(Rules)

Occurrences(f, S) == Cardinality({i \in DOMAIN RulesOf(f) : RulesOf(f)[i] \in S})

\* Mutant: a rule needs an alert that passed.
HasPassedAlert(b, r) == \E x \in Resources : b[r][x].verdict = "passed"

\* The backend: no alert of the rule has failed.
Passes(b, r) == \A x \in Resources : b[r][x].verdict # "failed"
Passing(b) == {r \in Rules : Passes(b, r)}

\* The page: the same of the alerts it was answered, and a row for each.
Of(b, r, status) == {x \in Resources : b[r][x].verdict = status}
computePassingRules(b, rules) ==
    Cardinality({i \in DOMAIN rules : Of(b, rules[i], "failed") = {}})
computePassingAlerts(b, r) ==
    [passing |-> Cardinality(Of(b, r, "passed")),
     total |-> Cardinality(Of(b, r, "passed") \cup Of(b, r, "failed"))]
ResourceRows(b, r) ==
    {[resource |-> x, status |-> b[r][x].verdict] :
        x \in {y \in Resources : b[r][y].verdict # "absent"}}

Idle == [state |-> "none", at |-> 1, passing |-> 0, ever |-> {}, always |-> {}]
Asked == [Idle EXCEPT !.state = "asked", !.ever = Passing(board), !.always = Passing(board)]
NoCard == [percent |-> 0, loading |-> TRUE]
NoReport == [state |-> "none", got |-> board]

TypeOK ==
    /\ page \in Ids \cup {"cards"}
    /\ stats \in [Ids -> [state: {"none", "asked", "answered"}, at: Nat, passing: Nat,
                          ever: SUBSET Rules, always: SUBSET Rules]]
    /\ \A f \in Ids : stats[f].at <= Len(RulesOf(f)) + 1
    /\ cards \in [Ids -> [percent: 0 .. 100, loading: BOOLEAN]]
    /\ report.state \in {"none", "asked", "read", "answered", "shown"}
    /\ open # {} => report.state = "shown"
    /\ writes \in 0 .. MaxWrites /\ faults \in 0 .. MaxFaults

Init ==
    /\ Alerts!Init /\ writes = 0 /\ faults = 0
    /\ page = "cards" /\ stats = [f \in Ids |-> Asked]
    /\ cards = [f \in Ids |-> NoCard] /\ report = NoReport /\ open = {}

-----------------------------------------------------------------------------
\* A scan reports or retires alerts, or a user mutes one.
Write ==
    /\ writes < MaxWrites /\ writes' = writes + 1
    /\ Alerts!Next
    /\ stats' = [f \in Ids |->
          IF stats[f].state # "asked" THEN stats[f]
          ELSE [stats[f] EXCEPT !.ever = @ \cup Passing(board'),
                                !.always = @ \cap Passing(board')]]
    /\ UNCHANGED <<faults, page, cards, report, open>>

\* Mutant: every alert that passed counts.
CountAlerts(f) ==
    /\ stats[f].state = "asked" /\ stats[f].at <= Len(RulesOf(f))
    /\ stats' = [stats EXCEPT ![f].at = @ + 1, ![f].passing = @ +
          Cardinality(Of(board, RulesOf(f)[stats[f].at], "passed"))]
    /\ UNCHANGED <<board, latest, writes, faults, page, cards, report, open>>

\* GetComplianceFrameworkStats: one statement for the next rule.
CountRule(f) ==
    /\ stats[f].state = "asked" /\ stats[f].at <= Len(RulesOf(f))
    /\ stats' = [stats EXCEPT ![f].at = @ + 1,
          ![f].passing = @ + IF Passes(board, RulesOf(f)[stats[f].at]) THEN 1 ELSE 0]
    /\ UNCHANGED <<board, latest, writes, faults, page, cards, report, open>>

StatsAnswer(f) ==
    /\ stats[f].state = "asked" /\ stats[f].at = Len(RulesOf(f)) + 1
    /\ stats' = [stats EXCEPT ![f].state = "answered"]
    /\ UNCHANGED <<board, latest, writes, faults, page, cards, report, open>>

getComplianceFrameworkStats(f) ==
    /\ page = "cards" /\ stats[f].state = "answered" /\ cards[f].loading
    /\ cards' = [cards EXCEPT ![f] =
          [percent |-> Percent(stats[f].passing, Len(RulesOf(f))), loading |-> FALSE]]
    /\ UNCHANGED <<board, latest, writes, faults, page, stats, report, open>>

StatsFail(f) ==
    /\ faults < MaxFaults /\ faults' = faults + 1
    /\ stats[f].state = "asked" /\ stats' = [stats EXCEPT ![f] = Idle]
    /\ cards' = [cards EXCEPT ![f] = [percent |-> 0, loading |-> FALSE]]
    /\ UNCHANGED <<board, latest, writes, page, report, open>>

\* GetComplianceFramework: all results, then the rules; a rule of the
\* framework without a row ends it with an error.
ReadResults ==
    /\ report.state = "asked" /\ report' = [state |-> "read", got |-> board]
    /\ UNCHANGED <<board, latest, writes, faults, page, stats, cards, open>>

\* Mutant: a rule without alerts is an error as well.
ReadRulesWithAlerts ==
    /\ report.state = "read"
    /\ report' = IF \A r \in Range(RulesOf(page)) : ResourceRows(report.got, r) # {}
                 THEN [report EXCEPT !.state = "answered"] ELSE NoReport
    /\ UNCHANGED <<board, latest, writes, faults, page, stats, cards, open>>

ReadRules ==
    /\ report.state = "read"
    /\ report' = IF Range(RulesOf(page)) \subseteq Known
                 THEN [report EXCEPT !.state = "answered"] ELSE NoReport
    /\ UNCHANGED <<board, latest, writes, faults, page, stats, cards, open>>

getComplianceFramework ==
    /\ report.state = "answered" /\ report' = [report EXCEPT !.state = "shown"]
    /\ UNCHANGED <<board, latest, writes, faults, page, stats, cards, open>>

ReportFails ==
    /\ faults < MaxFaults /\ faults' = faults + 1
    /\ report.state \in {"asked", "read"} /\ report' = NoReport
    /\ UNCHANGED <<board, latest, writes, page, stats, cards, open>>

-----------------------------------------------------------------------------
\* Both pages are reached by links that load the page anew.
OpenReport(f) ==
    /\ page = "cards" /\ page' = f
    /\ stats' = [g \in Ids |-> Idle] /\ cards' = [g \in Ids |-> NoCard]
    /\ report' = [state |-> "asked", got |-> board] /\ open' = {}
    /\ UNCHANGED <<board, latest, writes, faults>>

OpenCards ==
    /\ page # "cards" /\ page' = "cards"
    /\ stats' = [f \in Ids |-> Asked] /\ report' = NoReport /\ open' = {}
    /\ UNCHANGED <<board, latest, writes, faults, cards>>

\* What goes with control c: its table of rules is unmounted.
Closed(c) == {o \in open : o.control = c}

flipOpenControl(c) ==
    /\ open' = IF [control |-> c, rule |-> 0] \in open THEN open \ Closed(c)
               ELSE open \cup {[control |-> c, rule |-> 0]}
    /\ UNCHANGED <<board, latest, writes, faults, page, stats, cards, report>>

flipOpenRule(c, i) ==
    LET o == [control |-> c, rule |-> i] IN
    /\ [control |-> c, rule |-> 0] \in open
    /\ open' = IF o \in open THEN open \ {o} ELSE open \cup {o}
    /\ UNCHANGED <<board, latest, writes, faults, page, stats, cards, report>>

Backend ==
    \/ \E f \in Ids : CountRule(f) \/ StatsAnswer(f) \/ getComplianceFrameworkStats(f)
    \/ ReadResults \/ ReadRules \/ getComplianceFramework

Next ==
    \/ Write \/ Backend \/ ReportFails
    \/ \E f \in Ids : StatsFail(f) \/ OpenReport(f)
    \/ OpenCards
    \/ /\ report.state = "shown"
       /\ \E c \in DOMAIN Controls(page) :
              \/ flipOpenControl(c)
              \/ \E i \in DOMAIN Controls(page)[c] : flipOpenRule(c, i)

Spec == Init /\ [][Next]_vars

-----------------------------------------------------------------------------
\* Although a scan may write between the statements, the answer counts at
\* least the rules that passed all along and at most those that passed at
\* some moment of the request (get_compliance_framework_stats.go:51).
PercentIsWitnessed ==
    \A f \in Ids : stats[f].state = "answered" =>
        /\ stats[f].passing >= Occurrences(f, stats[f].always)
        /\ stats[f].passing <= Occurrences(f, stats[f].ever)

\* A card says 100% only if every rule of the framework passed at some moment
\* of the request, and 0% only if each did not at some other.
NoFalseEnds ==
    \A f \in Ids : stats[f].state = "answered" /\ ~cards[f].loading =>
        /\ cards[f].percent = 100 => Range(RulesOf(f)) \subseteq stats[f].ever
        /\ cards[f].percent = 0 => Range(RulesOf(f)) \cap stats[f].always = {}

\* The three tables of a report and the backend's count agree: a rule
\* passes for its control iff all its resources do, and so for the backend.
TablesAgree ==
    report.state = "shown" => \A c \in DOMAIN Controls(page) :
        LET rules == Controls(page)[c]
            full == {i \in DOMAIN rules :
                LET n == computePassingAlerts(report.got, rules[i])
                IN  n.passing = n.total}
        IN  /\ \A i \in DOMAIN rules :
                  LET rows == ResourceRows(report.got, rules[i]) IN
                  computePassingAlerts(report.got, rules[i]) =
                      [passing |-> Cardinality({row \in rows : row.status = "passed"}),
                       total |-> Cardinality(rows)]
            /\ computePassingRules(report.got, rules) = Cardinality(full)
            /\ full = {i \in DOMAIN rules : Passes(report.got, rules[i])}

\* A report is asked for; it is there, or the user is back at the cards.
ReportAsked == report.state = "asked"
ReportIsUp == report.state = "shown" \/ (report.state = "none" /\ page = "cards")
=============================================================================
