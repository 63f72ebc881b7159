---------------------------- MODULE RulesTable ----------------------------
(***************************************************************************)
(* The page of rules (Pages/Rules.tsx, RulesTableOps.tsx, RuleToggle.tsx): *)
(* a table for each category, filtered and sorted, with a switch in each   *)
(* row.  A switch keeps its own state while its row is displayed; what it  *)
(* posts is answered in any order and may fail.                            *)
(***************************************************************************)
EXTENDS TableOps, Requests

CONSTANTS
    Rules,      \* in the order of the answer
    Category, Severity, Risks, Words,   \* of each rule
    Terms,      \* what a user may search for
    Home,       \* the tab the page opens with
    Waits,      \* whether the user waits for a request to end
    Refilters,  \* whether the user filters a table after switching a rule
    MaxPosts,   \* how many posts may be under way at once
    MaxFaults   \* how many requests may fail

RuleSet == Range(Rules)

ConstantsFit ==
    /\ Category \in [RuleSet -> Categories] /\ Severity \in [RuleSet -> Severities]
    /\ Rules \in Seq(RuleSet) /\ Home \in Categories /\ Waits \in BOOLEAN /\ Refilters \in BOOLEAN
    /\ MaxPosts \in Nat \ {0} /\ MaxFaults \in Nat

VARIABLES
    category,   \* the tab
    fetch,      \* the request for its rules: "none", "asked", "served"
    answer,     \* what the backend served it
    data,       \* rulesInfo.data, the rules with their column active
    filters,    \* the filters and the order of the table
    switch,     \* state of each RuleToggle on the page
    posts,      \* toggleRuleActive requests under way
    active,     \* rule_data.active in the database
    faults

vars == <<category, fetch, answer, data, filters, switch, posts, active, faults>>

Filters == [severity: {"All"} \cup Severities, risk: {"All", "Vulnerability"},
            search: {""} \cup Terms, sort: SortValues]
Default == [severity |-> "All", risk |-> "All", search |-> "", sort |-> "Dec"]

RulesOf(c) == {r \in RuleSet : Category[r] = c}
NoRules == [r \in {} |-> FALSE]
PartsOf(S) == UNION {[T -> BOOLEAN] : T \in SUBSET S}

FieldsOK ==
    /\ category \in Categories
    /\ fetch \in {"none", "asked", "served"}
    /\ answer \in {NoRules} \cup [RulesOf(category) -> BOOLEAN]
    /\ data \in {NoRules} \cup [RulesOf(category) -> BOOLEAN]
    /\ filters \in Filters
    /\ switch \in PartsOf(DOMAIN data)
    /\ IsABag(posts) /\ BagToSet(posts) \subseteq [rule: RuleSet, active: BOOLEAN]
    /\ active \in [RuleSet -> BOOLEAN]
    /\ faults \in 0 .. MaxFaults
TypeOK == FieldsOK /\ UnderWay(posts) <= MaxPosts

-----------------------------------------------------------------------------
\* The table.

AllRows(rules) ==
    {[place |-> i, rule |-> Rules[i], severity |-> Severity[Rules[i]],
      risks |-> Risks[Rules[i]], words |-> Words[Rules[i]]] :
         i \in {i \in DOMAIN Rules : Rules[i] \in rules}}

DisplayedTableRows(rules, f) ==
    LET rows == searchFilterFn(risksFilterFn(severityFilterFn(AllRows(rules), f.severity),
                                             f.risk), f.search)
    IN CASE f.sort = "None" -> Unsorted(rows)
         [] f.sort = "Dec"  -> Arranged(rows, severitySortTypeFn, -1)
         [] OTHER           -> Arranged(rows, severitySortTypeFn, 1)

\* Rows are keyed by rule: a switch lives as long as its row is displayed, and
\* a new one starts from the rule as it was fetched.
Render(d, f) ==
    [r \in {row.rule : row \in Range(DisplayedTableRows(DOMAIN d, f))} |->
        IF r \in DOMAIN switch THEN switch[r] ELSE d[r]]

Columns(c) ==
    CASE c = "misconfiguration" -> <<"description", "severity", "risk_categories", "service", "active">>
      [] c = "attackpath"       -> <<"description", "severity", "risk_categories", "active">>
      [] OTHER -> <<"name", "cve_identifier", "description", "severity", "cvss_score",
                    "risk_categories", "active">>

TableColumnHeaders(c) ==
    CASE c = "misconfiguration" -> <<"description", "severity", "risk_categories", "service", "active">>
      [] c = "attackpath"       -> <<"description", "severity", "risk_categories", "active">>
      [] OTHER -> <<"name", "cve_identifier", "description", "severity", "cvss_score",
                    "risk_categories", "active">>
TableHeaderCSS(c) == CASE c = "misconfiguration" -> 5 [] c = "attackpath" -> 4 [] OTHER -> 7

-----------------------------------------------------------------------------
Init ==
    /\ category = Home /\ fetch = "asked" /\ answer = NoRules /\ data = NoRules
    /\ filters = Default /\ switch = NoRules /\ posts = EmptyBag
    /\ active \in [RuleSet -> BOOLEAN] /\ faults = 0

\* Mutant: the table of the tab before stays.
MountKeepsTable(c) ==
    /\ category' = c /\ fetch' = "asked" /\ answer' = NoRules
    /\ UNCHANGED <<data, filters, switch>>

\* A table is mounted anew with its tab.
Mount(c) ==
    /\ category' = c /\ fetch' = "asked" /\ answer' = NoRules /\ data' = NoRules
    /\ filters' = Default /\ switch' = NoRules

\* Another tab, or another page and back to the first tab.  An answer that was
\* still to come finds no table.
OpenTab(c) ==
    /\ c # category \/ c = Home
    /\ Waits => posts = EmptyBag
    /\ Mount(c)
    /\ UNCHANGED <<posts, active, faults>>

ServeRules ==
    /\ fetch = "asked"
    /\ fetch' = "served" /\ answer' = [r \in RulesOf(category) |-> active[r]]
    /\ UNCHANGED <<category, data, filters, switch, posts, active, faults>>

getRulesInfoData ==
    /\ fetch = "served"
    /\ fetch' = "none" /\ data' = answer /\ answer' = NoRules
    /\ switch' = Render(answer, filters)
    /\ UNCHANGED <<category, filters, posts, active, faults>>

\* The table stays empty; the message is kept but not displayed.
FetchFails ==
    /\ fetch = "asked" /\ faults < MaxFaults
    /\ fetch' = "none" /\ data' = NoRules /\ faults' = faults + 1
    /\ UNCHANGED <<category, answer, filters, switch, posts, active>>

\* Mutant: the request carries the state before the click.
PostsOld(r, value) == [rule |-> r, active |-> ~value]

TogglePostUpdate(r, value) == [rule |-> r, active |-> value]

\* handleToggle: the switch turns at once, nobody looks at the answer.
handleToggle(r) ==
    /\ r \in DOMAIN switch
    /\ (Waits => posts = EmptyBag) /\ UnderWay(posts) < MaxPosts
    /\ LET value == ~switch[r] IN
       /\ switch' = [switch EXCEPT ![r] = value]
       /\ posts' = posts (+) SetToBag({TogglePostUpdate(r, value)})
    /\ UNCHANGED <<category, fetch, answer, data, filters, active, faults>>

\* Mutant: the statement has no condition.
UpdateWithoutWhere(p) ==
    /\ active' = [r \in RuleSet |-> p.active]
    /\ posts' = posts (-) SetToBag({p})
    /\ UNCHANGED <<category, fetch, answer, data, filters, switch, faults>>

ToggleRuleActive(p) ==
    /\ active' = [active EXCEPT ![p.rule] = p.active]
    /\ posts' = posts (-) SetToBag({p})
    /\ UNCHANGED <<category, fetch, answer, data, filters, switch, faults>>

PostFails(p) ==
    /\ faults < MaxFaults
    /\ faults' = faults + 1 /\ posts' = posts (-) SetToBag({p})
    /\ UNCHANGED <<category, fetch, answer, data, filters, switch, active>>

Refilter(f) ==
    /\ f # filters
    /\ filters' = f /\ switch' = Render(data, f)
    /\ UNCHANGED <<category, fetch, answer, data, posts, active, faults>>

Filter ==
    /\ Refilters \/ \A r \in DOMAIN switch : switch[r] = data[r]
    /\ \/ \E v \in {"All"} \cup Severities : Refilter([filters EXCEPT !.severity = v])
       \/ \E v \in {"All", "Vulnerability"} : Refilter([filters EXCEPT !.risk = v])
       \/ \E v \in {""} \cup Terms : Refilter([filters EXCEPT !.search = v])

ClickHeader == Refilter([filters EXCEPT !.sort = NextSort(@)])

Next ==
    \/ \E c \in Categories : OpenTab(c)
    \/ ServeRules \/ getRulesInfoData \/ FetchFails
    \/ \E r \in RuleSet : handleToggle(r)
    \/ \E p \in BagToSet(posts) : ToggleRuleActive(p) \/ PostFails(p)
    \/ Filter \/ ClickHeader

Spec == Init /\ [][Next]_vars

-----------------------------------------------------------------------------
\* There is a switch for each row that is displayed, and no row before the
\* answer.
RowsInv ==
    /\ FieldsOK
    /\ fetch # "none" => data = NoRules
    /\ DOMAIN switch = {row.rule : row \in Range(DisplayedTableRows(DOMAIN data, filters))}

\* What a rule will be once the request under way is done.  Of a user who
\* waits, each switch shows it, and each hidden rule will show it again.
Due(r) ==
    IF \E p \in BagToSet(posts) : p.rule = r
    THEN (CHOOSE p \in BagToSet(posts) : p.rule = r).active
    ELSE active[r]

\* With no request under way the switches on the page show the rules as they
\* are: for a user who waits and does not filter after switching, as long as
\* no request fails; refuted otherwise.
SwitchShowsRule == posts = EmptyBag => \A r \in DOMAIN switch : switch[r] = active[r]

\* The rows that are displayed are in the order that the header shows, and of
\* the severity that was chosen, in every tab and after every change of tabs.
RowsInOrder ==
    LET rows == DisplayedTableRows(DOMAIN data, filters) IN
    /\ InOrder(rows, filters.sort, LAMBDA row : Rank[row.severity])
    /\ \A row \in Range(rows) :
           /\ row.rule \in DOMAIN switch /\ Category[row.rule] = category
           /\ filters.severity \in {"All", row.severity}

\* Each column stands below its header, and each header has its style.
ColumnsUnderHeaders ==
    /\ Columns(category) = TableColumnHeaders(category)
    /\ Len(TableColumnHeaders(category)) =< TableHeaderCSS(category)

\* (Of a step.) Only a click switches a rule: neither tabs nor filters nor an
\* answer, early or late, cause a request, and every change in the database is
\* of a request.
OnlyClicksSwitch ==
    /\ \A p \in BagToSet(posts' (-) posts) : p.rule \in DOMAIN switch /\ p.active # switch[p.rule]
    /\ \A r \in RuleSet : active'[r] # active[r] =>
           \E p \in BagToSet(posts (-) posts') : p.rule = r /\ p.active = active'[r]
=============================================================================
