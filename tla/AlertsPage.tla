---------------------------- MODULE AlertsPage ----------------------------
(***************************************************************************)
(* The page of alerts (Pages/Alerts.tsx) around its table and the panel of *)
(* one alert (AlertsSlideover.tsx): the address names a category and may   *)
(* name an alert, which the page looks up in an answer that may be late,   *)
(* older than another, or missing.  The effects of a change run to their   *)
(* end in one step, so what the page computes from its state is a function *)
(* of it here: NotFound and IsSlideOver.                                   *)
(***************************************************************************)
EXTENDS Naturals, FiniteSets

CONSTANTS
    Alerts,      \* resources a rule may report; each belongs to one rule
    CategoryOf,  \* of its rule
    NoRule,      \* an address with a rule that does not exist
    MaxAsks,     \* requests under way, of the page and of the table each
    MaxScans,    \* how often the set of alerts changes
    Appearing,   \* whether a scan adds alerts as well
    MaxFaults    \* how many requests fail

Categories == {"misconfiguration", "attackpath", "vulnerability"}
None == "none"
URLs == [category: {CategoryOf[a] : a \in Alerts} \cup {"nosuch"}, alert: Alerts \cup {None, NoRule}]

ConstantsFit ==
    /\ CategoryOf \in [Alerts -> Categories] /\ {None, NoRule, "init", "undefined"} \cap Alerts = {}
    /\ MaxAsks \in Nat \ {0} /\ MaxScans \in Nat /\ MaxFaults \in Nat /\ Appearing \in BOOLEAN

VARIABLES
    url,       \* useParams
    lists,     \* the page's requests for all alerts, served or not
    group,     \* ruleAlertGroup: "init", "found" or "undefined"
    inst,      \* alertInstance: "init", "undefined" or an alert
    table,     \* the table below: mounted, with rows, its requests under way
    panel,     \* the alert that the panel was opened with, and its graph
    alerts,    \* in the database
    scans, faults

vars == <<url, lists, group, inst, table, panel, alerts, scans, faults>>

Unmounted == [mounted |-> FALSE, rows |-> FALSE, asks |-> 0]
NoPanel == [alert |-> None, graph |-> "none"]
Asked(i) == [id |-> i, served |-> FALSE, got |-> {}]
Lists == [id: 1 .. MaxAsks, served: BOOLEAN, got: SUBSET Alerts]

TypeOK ==
    /\ url \in URLs
    /\ lists \subseteq Lists
    /\ group \in {"init", "found", "undefined"}
    /\ inst \in {"init", "undefined"} \cup Alerts
    /\ table \in [mounted: BOOLEAN, rows: BOOLEAN, asks: 0 .. MaxAsks]
    /\ panel \in {NoPanel} \cup [alert: Alerts, graph: {"asked", "drawn", "empty"}]
    /\ alerts \subseteq Alerts /\ scans \in 0 .. MaxScans /\ faults \in 0 .. MaxFaults

-----------------------------------------------------------------------------
\* Mutant: what has not been looked up yet counts as missing.
NotFoundAtFirst(u, g, i) ==
    IF u.category = "nosuch" \/ (u.alert # None /\ (g # "found" \/ i \notin Alerts))
    THEN "yes" ELSE "no"

NotFound(u, g, i) ==
    IF u.category = "nosuch" \/ (u.alert # None /\ "undefined" \in {g, i}) THEN "yes"
    ELSE IF u.alert # None /\ "init" \in {g, i} THEN "unknown"
    ELSE "no"
IsSlideOver(u, g, i) == g # "undefined" /\ i # "undefined" /\ u.alert # None

\* The panel is part of a table with rows; it asks for its graph when it is
\* mounted, and never again.
PanelOf(u, i, slide, rows) ==
    IF ~slide \/ ~rows THEN NoPanel
    ELSE IF panel = NoPanel THEN [alert |-> i, graph |-> "asked"]
    ELSE panel

\* The page and its table after a change of url, ruleAlertGroup or
\* alertInstance.  The table belongs to its tab, is not there while the page
\* is blank or not found, and asks for its rows again whenever the group, a
\* new object each time, or isSlideOver changes.
Settled(u, g, i) ==
    LET was == NotFound(url, group, inst) = "no"
        is == NotFound(u, g, i) = "no"
        same == was /\ is /\ u.category = url.category
        asks == IF same THEN table.asks + 1 ELSE 1
    IN /\ url' = u /\ group' = g /\ inst' = i
       /\ is => asks =< MaxAsks
       /\ table' = IF is THEN [mounted |-> TRUE, rows |-> same /\ table.rows, asks |-> asks]
                         ELSE Unmounted
       /\ panel' = PanelOf(u, i, is /\ IsSlideOver(u, g, i), table'.rows)

\* Mutant: nothing is asked for while an earlier answer is at hand.
AskListOnce(u, under) ==
    IF u.alert = None \/ group # "init" THEN lists' = under
    ELSE \E id \in 1 .. MaxAsks :
             /\ \A l \in under : l.id # id
             /\ lists' = under \cup {Asked(id)}

\* setRuleAlertsInfoState, for an address with an alert.
AskList(u, under) ==
    IF u.alert = None THEN lists' = under
    ELSE \E id \in 1 .. MaxAsks :
             /\ \A l \in under : l.id # id
             /\ \A k \in 1 .. id - 1 : \E l \in under : l.id = k
             /\ lists' = under \cup {Asked(id)}

\* Mutant: the alert and the group of the address before stay.
NavigateKeepsAlert(u) ==
    /\ u # url /\ AskList(u, lists)
    /\ Settled(u, group, inst)
    /\ UNCHANGED <<alerts, scans, faults>>

\* The effect on [rule_uid, alert_resource_id] runs if one of them changes.
Navigate(u) ==
    /\ u # url
    /\ IF u.alert = url.alert THEN lists' = lists /\ Settled(u, group, inst)
                              ELSE AskList(u, lists) /\ Settled(u, "init", "init")
    /\ UNCHANGED <<alerts, scans, faults>>

\* The page is entered from elsewhere: nothing of an earlier visit is left.
FirstPage(u) ==
    LET is == NotFound(u, "init", "init") = "no" IN
    [mounted |-> is, rows |-> FALSE, asks |-> IF is THEN 1 ELSE 0]

Init ==
    /\ url \in URLs
    /\ lists = IF url.alert = None THEN {} ELSE {Asked(1)}
    /\ group = "init" /\ inst = "init" /\ table = FirstPage(url) /\ panel = NoPanel
    /\ alerts \in SUBSET Alerts /\ scans = 0 /\ faults = 0

Enter(u) ==
    /\ u # url
    /\ AskList(u, {})
    /\ url' = u
    /\ group' = "init" /\ inst' = "init" /\ table' = FirstPage(u) /\ panel' = NoPanel
    /\ UNCHANGED <<alerts, scans, faults>>

\* A click on an alert of the table, which may be older than the database.
AlertClick(a) ==
    /\ table.rows /\ url.alert = None /\ CategoryOf[a] = url.category
    /\ Navigate([url EXCEPT !.alert = a])

handleSideBarClose ==
    /\ panel # NoPanel
    /\ Navigate([url EXCEPT !.alert = None])

navigateOnTabClick(c) ==
    /\ table.mounted /\ panel = NoPanel
    /\ Navigate([category |-> c, alert |-> None])

\* Back and Forward, to any address that the page led to.
HistoryGo(u) == u.category # "nosuch" /\ u.alert # NoRule /\ Navigate(u)

-----------------------------------------------------------------------------
ServeList ==
    \E l \in lists :
        /\ ~l.served
        /\ lists' = (lists \ {l}) \cup {[l EXCEPT !.served = TRUE, !.got = alerts]}
        /\ UNCHANGED <<url, group, inst, table, panel, alerts, scans, faults>>

\* Mutant: the address is taken for granted.
TakeListUnchecked ==
    \E l \in lists :
        /\ l.served
        /\ lists' = lists \ {l}
        /\ Settled(url, "found", url.alert)
        /\ UNCHANGED <<alerts, scans, faults>>

\* The group is looked up by the rule of the address as it is now, and the
\* alert in the group; without a rule in the address nothing is found.
TakeList ==
    \E l \in lists :
        /\ l.served
        /\ lists' = lists \ {l}
        /\ IF url.alert \in {None, NoRule}
           THEN Settled(url, "undefined", inst)
           ELSE Settled(url, "found", IF url.alert \in l.got THEN url.alert ELSE "undefined")
        /\ UNCHANGED <<alerts, scans, faults>>

\* An answer with an error has no groups, and nothing is looked up.
ListFails ==
    \E l \in lists :
        /\ ~l.served /\ faults < MaxFaults
        /\ lists' = lists \ {l} /\ faults' = faults + 1
        /\ UNCHANGED <<url, group, inst, table, panel, alerts, scans>>

\* A request of the table ends; after a failure it has no rows, and the page
\* below the tabs is empty.
TableAnswer(ok) ==
    /\ table.asks > 0
    /\ ok \/ faults < MaxFaults
    /\ faults' = IF ok THEN faults ELSE faults + 1
    /\ table' = [table EXCEPT !.rows = ok, !.asks = @ - 1]
    /\ panel' = PanelOf(url, inst, IsSlideOver(url, group, inst), ok)
    /\ UNCHANGED <<url, lists, group, inst, alerts, scans>>

GraphAnswer(ok) ==
    /\ panel # NoPanel /\ panel.graph = "asked"
    /\ ok \/ faults < MaxFaults
    /\ faults' = IF ok THEN faults ELSE faults + 1
    /\ panel' = [panel EXCEPT !.graph = IF ok THEN "drawn" ELSE "empty"]
    /\ UNCHANGED <<url, lists, group, inst, table, alerts, scans>>

Scan ==
    /\ scans < MaxScans /\ scans' = scans + 1
    /\ \/ \E a \in alerts : alerts' = alerts \ {a}
       \/ Appearing /\ \E a \in Alerts \ alerts : alerts' = alerts \cup {a}
    /\ UNCHANGED <<url, lists, group, inst, table, panel, faults>>

User ==
    \/ \E u \in URLs : Enter(u) \/ HistoryGo(u)
    \/ \E a \in Alerts : AlertClick(a)
    \/ handleSideBarClose
    \/ \E c \in {CategoryOf[a] : a \in Alerts} : navigateOnTabClick(c)

Backend ==
    \/ ServeList \/ TakeList \/ ListFails
    \/ \E ok \in BOOLEAN : TableAnswer(ok) \/ GraphAnswer(ok)

Next == User \/ Backend \/ Scan

Spec == Init /\ [][Next]_vars

-----------------------------------------------------------------------------
\* The panel and its graph are of the alert that the address names, although
\* the panel asks for its graph only once.
PanelOfAddress == panel # NoPanel => panel.alert = url.alert /\ inst = url.alert

\* A page is not found when its category, its rule or its alert is invalid,
\* as the comment in the code says: as long as no scan reports new alerts.
OnlyInvalidIsNotFound ==
    NotFound(url, group, inst) = "yes" =>
        url.category = "nosuch" \/ url.alert \notin alerts

\* The page is not blank, and the alert of the address is gone or in the panel.
ComesUp ==
    /\ NotFound(url, group, inst) # "unknown"
    /\ url.alert \in alerts /\ url.category # "nosuch" => panel.alert = url.alert
=============================================================================
