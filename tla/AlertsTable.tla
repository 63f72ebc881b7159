---------------------------- MODULE AlertsTable ----------------------------
(***************************************************************************)
(* The table of alerts (AlertsTableOps.tsx, GeneratedAlertsTable.tsx): one *)
(* row for each rule with its number of alerts, a nested table of these    *)
(* alerts, filters over both, and links to a single alert that carry the   *)
(* filters in the address.  Effects run to their end in one step.          *)
(***************************************************************************)
EXTENDS TableOps

CONSTANTS
    Rules,      \* in the order of the answer
    Category, Severity, Risks, Words,  \* of each rule
    Alerts, Rule, Account, Status,     \* the alerts, and these of each
    Terms       \* what a user may search for

ConstantsFit ==
    /\ Category \in [Range(Rules) -> Categories] /\ Severity \in [Range(Rules) -> Severities]
    /\ Rules \in Seq(Range(Rules)) /\ IsFiniteSet(Alerts) /\ DOMAIN Account = Alerts
    /\ Rule \in [Alerts -> Range(Rules)] /\ Status \in [Alerts -> {"failed", "passed"}]
    \* queries of vulnerabilities report what failed
    /\ \A a \in Alerts : Category[Rule[a]] = "vulnerability" => Status[a] = "failed"

VARIABLES
    category,   \* the tab
    muted,      \* the alerts shown as muted
    filters,    \* what queryParams carries, the sort state included
    opened,     \* the rules whose nested table is open
    slide       \* the alert whose panel is open, or "none"

vars == <<category, muted, filters, opened, slide>>

Filters == [severity: {"All", "Critical", "High", "Medium", "Low"}, risk: {"All", "Vulnerability"},
            search: {""} \cup Terms, muted: {"Muted", "Unmuted"}, status: {"Failed", "All"},
            account: {"All"} \cup Range(Account),
            sort: [severity: SortValues, alerts: SortValues]]
Default == [severity |-> "All", risk |-> "All", search |-> "", muted |-> "Unmuted",
            status |-> "Failed", account |-> "All",
            sort |-> [severity |-> "Dec", alerts |-> "None"]]

TypeOK ==
    /\ category \in Categories
    /\ muted \subseteq Alerts
    /\ filters \in Filters
    /\ opened \subseteq Range(Rules)
    /\ slide \in Alerts \cup {"none"}

Init ==
    /\ category \in Categories /\ muted = {} /\ filters = Default
    /\ opened = {} /\ slide = "none"

-----------------------------------------------------------------------------
\* Rows.

\* The alerts of the nested table.
NestedAlerts(r) ==
    {a \in Alerts :
        /\ Rule[a] = r
        /\ (a \in muted) = (filters.muted = "Muted")
        /\ filters.status = "All" \/ Status[a] = "failed"
        /\ filters.account \in {"All", Account[a]}}

\* Mutant: the number counts passed alerts as well, in every category.
CountWithoutStatus(r) ==
    Cardinality({a \in Alerts :
        /\ Rule[a] = r
        /\ (a \in muted) = (filters.muted = "Muted")
        /\ filters.account \in {"All", Account[a]}})

\* The number of alerts, which the code computes anew; that of a
\* vulnerability does not look at the status.
Count(r) ==
    Cardinality({a \in Alerts :
        /\ Rule[a] = r
        /\ (a \in muted) = (filters.muted = "Muted")
        /\ category = "vulnerability" \/ filters.status = "All" \/ Status[a] = "failed"
        /\ filters.account \in {"All", Account[a]}})

AllRows ==
    {[place |-> i, rule |-> Rules[i], severity |-> Severity[Rules[i]], risks |-> Risks[Rules[i]],
      words |-> Words[Rules[i]], alerts |-> Count(Rules[i])] :
         i \in {i \in DOMAIN Rules : Category[Rules[i]] = category}}

DisplayedTableRows ==
    LET rows == zeroAlertFilter(searchFilterFn(risksFilterFn(severityFilterFn(AllRows,
                    filters.severity), filters.risk), filters.search))
        sign(value) == IF value = "Dec" THEN -1 ELSE 1
    IN  IF filters.sort.alerts # "None"
        THEN Arranged(rows, alertNumberSortTypeFn, sign(filters.sort.alerts))
        ELSE IF filters.sort.severity # "None"
        THEN Arranged(rows, severitySortTypeFn, sign(filters.sort.severity))
        ELSE Unsorted(rows)

Shown == {row.rule : row \in Range(DisplayedTableRows)}

\* The columns of a row and the headers above them, which are written apart.
Columns(c) ==
    CASE c = "misconfiguration" -> <<"description", "severity", "risk_categories", "service", "alerts">>
      [] c = "attackpath"       -> <<"description", "severity", "risk_categories", "alerts">>
      [] c = "vulnerability"    -> <<"name", "cve_identifier", "description", "severity",
                                     "cvss_score", "risk_categories", "alerts">>

TableColumnHeaders(c) ==
    CASE c = "misconfiguration" -> <<"description", "severity", "risk_categories", "service", "alerts">>
      [] c = "attackpath"       -> <<"description", "severity", "risk_categories", "alerts">>
      [] c = "vulnerability"    -> <<"name", "cve_identifier", "description", "severity",
                                     "cvss_score", "risk_categories", "alerts">>
TableHeaderCSS(c) == CASE c = "misconfiguration" -> 5 [] c = "attackpath" -> 4 [] OTHER -> 7

-----------------------------------------------------------------------------
\* What a user does.

Select(field, options) ==
    \E v \in options : v # filters[field] /\ filters' = [filters EXCEPT ![field] = v]

\* Accounts on offer are those of the alerts that were received.
Filter ==
    /\ slide = "none"
    /\ \/ Select("severity", {"All", "Critical", "High", "Medium", "Low"})
       \/ Select("risk", {"All", "Vulnerability"})
       \/ Select("search", {""} \cup Terms)
       \/ Select("muted", {"Muted", "Unmuted"})
       \/ Select("account", {"All"} \cup {Account[a] : a \in {a \in Alerts : Category[Rule[a]] = category}})
       \/ category # "vulnerability" /\ Select("status", {"Failed", "All"})
    /\ UNCHANGED <<category, muted, opened, slide>>

ClickHeader(column) ==
    /\ slide = "none"
    /\ filters' = [filters EXCEPT !.sort =
           [c \in {"severity", "alerts"} |->
               IF c = column THEN NextSort(filters.sort[c]) ELSE "None"]]
    /\ UNCHANGED <<category, muted, opened, slide>>

FlipRow(r) ==
    /\ slide = "none" /\ r \in Shown
    /\ opened' = IF r \in opened THEN opened \ {r} ELSE opened \cup {r}
    /\ UNCHANGED <<category, muted, filters, slide>>

toggleAlertMuteState(a) ==
    /\ slide = "none" /\ Rule[a] \in Shown \cap opened /\ a \in NestedAlerts(Rule[a])
    /\ muted' = IF a \in muted THEN muted \ {a} ELSE muted \cup {a}
    /\ UNCHANGED <<category, filters, opened, slide>>

\* What an address carries of the filters; innerAlerts and sort are written as
\* JSON.
InnerAlerts(f) == [muted |-> f.muted, status |-> f.status, account |-> f.account]

\* Mutant: the sort state is left out of the address.
ParamsWithoutSort(f) ==
    [severity |-> f.severity, risk |-> f.risk, search |-> f.search, innerAlerts |-> InnerAlerts(f)]

QueryParams(f) ==
    [severity |-> f.severity, risk |-> f.risk, search |-> f.search,
     innerAlerts |-> InnerAlerts(f), sort |-> f.sort]

\* What the page reads from an address again, a default for what is missing.
SearchParams(p) ==
    LET Get(key, default) == IF key \in DOMAIN p THEN p[key] ELSE default
        inner == Get("innerAlerts", InnerAlerts(Default))
    IN [severity |-> Get("severity", "All"), risk |-> Get("risk", "All"),
        search |-> Get("search", ""), muted |-> inner.muted, status |-> inner.status,
        account |-> inner.account, sort |-> Get("sort", Default.sort)]

\* A click on an alert: the page is built anew from the address, with the
\* rule of the alert open.
NavigateSlideover(a) ==
    /\ slide = "none" /\ Rule[a] \in Shown \cap opened /\ a \in NestedAlerts(Rule[a])
    /\ slide' = a /\ opened' = {Rule[a]} /\ filters' = SearchParams(QueryParams(filters))
    /\ UNCHANGED <<category, muted>>

\* Its close button: the list is fetched again, and every row closed.
NavigateOnSideBarClose ==
    /\ slide # "none"
    /\ slide' = "none" /\ opened' = {} /\ filters' = SearchParams(QueryParams(filters))
    /\ UNCHANGED <<category, muted>>

\* Another tab starts from an address without parameters.
NavigateOnTabClick(c) ==
    /\ slide = "none" /\ c # category
    /\ category' = c /\ filters' = SearchParams(<<>>) /\ opened' = {}
    /\ UNCHANGED <<muted, slide>>

Next ==
    \/ Filter
    \/ \E column \in {"severity", "alerts"} : ClickHeader(column)
    \/ \E r \in Range(Rules) : FlipRow(r)
    \/ \E a \in Alerts : toggleAlertMuteState(a) \/ NavigateSlideover(a)
    \/ NavigateOnSideBarClose
    \/ \E c \in Categories : NavigateOnTabClick(c)

Spec == Init /\ [][Next]_vars

-----------------------------------------------------------------------------
\* Rows are sorted by one column at a time.
SortInv == TypeOK /\ (filters.sort.severity = "None" \/ filters.sort.alerts = "None")

\* The number of a row is that of the alerts below it.
CountsAreNested == \A row \in Range(DisplayedTableRows) : row.alerts = Cardinality(NestedAlerts(row.rule))

\* With every filter wide open, what is not displayed as muted is displayed as
\* unmuted: no alert is lost between the filters of rows and those of alerts.
WideOpen == /\ filters.severity = "All" /\ filters.risk = "All" /\ filters.search = ""
            /\ filters.account = "All" /\ filters.status = "All"
AlertsOf(c) == {a \in Alerts : Category[Rule[a]] = c}
NothingIsLost ==
    WideOpen => UNION {NestedAlerts(r) : r \in Shown}
                  = IF filters.muted = "Muted" THEN AlertsOf(category) \cap muted
                    ELSE AlertsOf(category) \ muted

\* Rows are in the order that the two headers show.
RowsInOrder ==
    /\ InOrder(DisplayedTableRows, filters.sort.severity, LAMBDA row : Rank[row.severity])
    /\ InOrder(DisplayedTableRows, filters.sort.alerts, LAMBDA row : row.alerts)

\* Each column stands below its header, and each header has its style: the
\* table fails to render otherwise.
ColumnsUnderHeaders ==
    /\ Columns(category) = TableColumnHeaders(category)
    /\ Len(TableColumnHeaders(category)) =< TableHeaderCSS(category)

\* (Of a step.) A look at an alert and back leaves filters and order as they were.
FiltersSurviveAlert == slide # slide' => filters' = filters
=============================================================================
