--------------------------- MODULE AlertsPageProofs ---------------------------
(***************************************************************************)
(* What the page of alerts owes to the address, for every set of alerts,   *)
(* any number of requests under way and any number of them that fail. The  *)
(* panel asks for its graph once, when it is mounted, and the page looks   *)
(* an alert up in an answer that was asked for another address: both are   *)
(* right because every change of the alert in the address starts the       *)
(* lookup anew.                                                            *)
(***************************************************************************)
EXTENDS AlertsPage, TLAPS

(* A lookup and its outcome are of the address as it is.                   *)
Looked(u, g, i) ==
    /\ i \in {"init", "undefined"} \/ (i \in Alerts /\ i = u.alert)
    /\ g = "undefined" => u.alert \in {None, NoRule}

(* The panel is of the alert of the address, and while its table has       *)
(* requests under way, the page shows the table.                           *)
PageInv ==
    /\ TypeOK
    /\ Looked(url, group, inst)
    /\ PanelOfAddress
    /\ table.asks > 0 => NotFound(url, group, inst) = "no"

-----------------------------------------------------------------------------
LEMMA Constants ==
    ConstantsFit => /\ MaxAsks \in Nat \ {0} /\ MaxFaults \in Nat /\ MaxScans \in Nat
                    /\ None \notin Alerts /\ NoRule \notin Alerts /\ "undefined" \notin Alerts
  BY DEF ConstantsFit

LEMMA AlertAddresses ==
    /\ \A u \in URLs : u.alert \in Alerts \cup {None, NoRule}
    /\ \A u \in URLs, a \in Alerts : [u EXCEPT !.alert = a] \in URLs
    /\ \A u \in URLs : [u EXCEPT !.alert = None] \in URLs
    /\ \A a \in Alerts : [category |-> CategoryOf[a], alert |-> None] \in URLs
  BY DEF URLs

(* Where the page has a panel, it has found the alert of the address.      *)
LEMMA PanelIsFound ==
    ASSUME NEW u, NEW g, NEW i, Looked(u, g, i),
           NotFound(u, g, i) = "no", IsSlideOver(u, g, i)
    PROVE  g \notin {"init", "undefined"} /\ i \in Alerts /\ i = u.alert
  BY DEF Looked, NotFound, IsSlideOver

LEMMA PanelType ==
    ASSUME TypeOK, NEW u, NEW i, NEW slide, NEW rows, slide => i \in Alerts
    PROVE  PanelOf(u, i, slide, rows) \in {NoPanel} \cup [alert: Alerts, graph: {"asked", "drawn", "empty"}]
  BY DEF TypeOK, PanelOf

(* The page after a change of its address or of its lookup. A change of    *)
(* the alert in the address starts the lookup anew.                        *)
LEMMA SettledPage ==
    ASSUME ConstantsFit, PageInv,
           NEW u \in URLs, NEW g \in {"init", "found", "undefined"}, NEW i,
           Looked(u, g, i), u.alert = url.alert \/ g = "init",
           Settled(u, g, i)
    PROVE  /\ url' \in URLs /\ group' \in {"init", "found", "undefined"}
           /\ inst' \in {"init", "undefined"} \cup Alerts
           /\ table' \in [mounted: BOOLEAN, rows: BOOLEAN, asks: 0 .. MaxAsks]
           /\ panel' \in {NoPanel} \cup [alert: Alerts, graph: {"asked", "drawn", "empty"}]
           /\ Looked(url, group, inst)' /\ PanelOfAddress'
           /\ (table.asks > 0 => NotFound(url, group, inst) = "no")'
  <1> USE DEF PageInv
  <1> DEFINE is == NotFound(u, g, i) = "no"
             slide == is /\ IsSlideOver(u, g, i)
  <1>1. url' = u /\ group' = g /\ inst' = i /\ panel' = PanelOf(u, i, slide, table'.rows)
    BY DEF Settled
  <1>2. slide => g # "init" /\ i \in Alerts /\ i = u.alert
    BY PanelIsFound
  <1>3. panel' \in {NoPanel} \cup [alert: Alerts, graph: {"asked", "drawn", "empty"}]
    <2> HIDE DEF slide
    <2> QED
      BY <1>1, <1>2, PanelType
  <1>4. PanelOfAddress'
    <2> SUFFICES ASSUME panel' # NoPanel PROVE panel'.alert = u.alert /\ i = u.alert
      BY <1>1 DEF PanelOfAddress
    <2>1. slide /\ (panel' = [alert |-> i, graph |-> "asked"] \/ (panel # NoPanel /\ panel' = panel))
      BY <1>1 DEF PanelOf
    <2>2. CASE panel' = [alert |-> i, graph |-> "asked"]
      BY <2>1, <2>2, <1>2
    <2>3. CASE panel # NoPanel /\ panel' = panel
      BY <2>1, <2>3, <1>2 DEF PanelOfAddress
    <2> QED
      BY <2>1, <2>2, <2>3
  <1>5. /\ table' \in [mounted: BOOLEAN, rows: BOOLEAN, asks: 0 .. MaxAsks]
        /\ table'.asks > 0 => is
    <2>1. CASE is
      <3> DEFINE same == NotFound(url, group, inst) = "no" /\ u.category = url.category
                 asks == IF same THEN table.asks + 1 ELSE 1
      <3>1. /\ table' = [mounted |-> TRUE, rows |-> same /\ table.rows, asks |-> asks]
            /\ asks <= MaxAsks
        BY <2>1 DEF Settled
      <3>2. table.asks \in Nat
        BY DEF TypeOK
      <3>3. asks \in 0 .. MaxAsks
        BY <3>1, <3>2, Constants
      <3> QED
        BY <2>1, <3>1, <3>3
    <2>2. CASE ~is
      <3>1. table' = Unmounted
        BY <2>2 DEF Settled
      <3>2. MaxAsks \in Nat
        BY Constants
      <3> QED
        BY <3>1, <3>2 DEF Unmounted
    <2> QED
      BY <2>1, <2>2
  <1>6. i \in {"init", "undefined"} \cup Alerts
    BY DEF Looked
  <1> QED
    BY <1>1, <1>3, <1>4, <1>5, <1>6

(* Requests are numbered from 1; a new one takes a number that is free.    *)
LEMMA RequestIsOne == \A i \in 1 .. MaxAsks : Asked(i) \in Lists
  <1> SUFFICES ASSUME NEW i \in 1 .. MaxAsks PROVE Asked(i) \in Lists
    OBVIOUS
  <1>1. {} \in SUBSET Alerts /\ FALSE \in BOOLEAN
    OBVIOUS
  <1> QED
    BY <1>1, Zenon DEF Asked, Lists

LEMMA AskedAreLists ==
    ASSUME NEW u, NEW under \in SUBSET Lists, AskList(u, under)
    PROVE  lists' \subseteq Lists
  BY RequestIsOne DEF AskList

LEMMA PageInit == ConstantsFit /\ Init => PageInv
  <1> SUFFICES ASSUME ConstantsFit, Init PROVE PageInv
    OBVIOUS
  <1>1. MaxAsks \in Nat \ {0} /\ MaxScans \in Nat /\ MaxFaults \in Nat
    BY Constants
  <1>2. url \in URLs /\ group = "init" /\ inst = "init" /\ panel = NoPanel
    BY DEF Init
  <1>3. lists \subseteq Lists
    <2>1. 1 \in 1 .. MaxAsks
      BY <1>1
    <2> QED
      BY <2>1, RequestIsOne DEF Init
  <1>4. /\ table \in [mounted: BOOLEAN, rows: BOOLEAN, asks: 0 .. MaxAsks]
        /\ table.asks > 0 => NotFound(url, group, inst) = "no"
    BY <1>1 DEF Init, FirstPage
  <1>5. alerts \subseteq Alerts /\ scans \in 0 .. MaxScans /\ faults \in 0 .. MaxFaults
    BY <1>1 DEF Init
  <1>6. TypeOK
    BY <1>2, <1>3, <1>4, <1>5 DEF TypeOK
  <1> QED
    BY <1>2, <1>4, <1>6 DEF PageInv, Looked, PanelOfAddress

LEMMA NavigatePreserves ==
    ASSUME ConstantsFit, PageInv, NEW u \in URLs, Navigate(u)
    PROVE  PageInv'
  <1> USE DEF PageInv
  <1>1. UNCHANGED <<alerts, scans, faults>>
    BY DEF Navigate
  <1>2. CASE u.alert = url.alert
    <2>1. lists' = lists /\ Settled(u, group, inst)
      BY <1>2 DEF Navigate
    <2>2. Looked(u, group, inst) /\ group \in {"init", "found", "undefined"}
      BY <1>2 DEF Looked, TypeOK
    <2> QED
      BY <1>1, <1>2, <2>1, <2>2, SettledPage DEF TypeOK
  <1>3. CASE u.alert # url.alert
    <2>1. AskList(u, lists) /\ Settled(u, "init", "init")
      BY <1>3 DEF Navigate
    <2>2. lists' \subseteq Lists
      BY <2>1, AskedAreLists DEF TypeOK
    <2>3. Looked(u, "init", "init")
      BY DEF Looked
    <2> QED
      BY <1>1, <2>1, <2>2, <2>3, SettledPage DEF TypeOK
  <1> QED
    BY <1>2, <1>3

LEMMA EnterPreserves ==
    ASSUME ConstantsFit, PageInv, NEW u \in URLs, Enter(u)
    PROVE  PageInv'
  <1> USE DEF PageInv
  <1>1. /\ AskList(u, {}) /\ url' = u /\ group' = "init" /\ inst' = "init"
        /\ table' = FirstPage(u) /\ panel' = NoPanel /\ UNCHANGED <<alerts, scans, faults>>
    BY DEF Enter
  <1>2. lists' \subseteq Lists
    BY <1>1, AskedAreLists
  <1>3. MaxAsks \in Nat \ {0}
    BY Constants
  <1>4. /\ table' \in [mounted: BOOLEAN, rows: BOOLEAN, asks: 0 .. MaxAsks]
        /\ table'.asks > 0 => NotFound(u, "init", "init") = "no"
    BY <1>1, <1>3 DEF FirstPage
  <1>5. TypeOK'
    BY <1>1, <1>2, <1>4 DEF TypeOK
  <1> QED
    BY <1>1, <1>4, <1>5 DEF Looked, PanelOfAddress

LEMMA UserPreserves == ConstantsFit /\ PageInv /\ User => PageInv'
  <1> SUFFICES ASSUME ConstantsFit, PageInv, User PROVE PageInv'
    OBVIOUS
  <1>1. url \in URLs
    BY DEF PageInv, TypeOK
  <1>2. ASSUME NEW u \in URLs, Enter(u) \/ HistoryGo(u) PROVE PageInv'
    BY <1>2, EnterPreserves, NavigatePreserves DEF HistoryGo
  <1>3. ASSUME NEW a \in Alerts, AlertClick(a) PROVE PageInv'
    BY <1>1, <1>3, AlertAddresses, NavigatePreserves DEF AlertClick
  <1>4. CASE handleSideBarClose
    BY <1>1, <1>4, AlertAddresses, NavigatePreserves DEF handleSideBarClose
  <1>5. ASSUME NEW a \in Alerts, navigateOnTabClick(CategoryOf[a]) PROVE PageInv'
    BY <1>5, AlertAddresses, NavigatePreserves DEF navigateOnTabClick
  <1> QED
    BY <1>2, <1>3, <1>4, <1>5 DEF User

LEMMA TakeListPreserves == ConstantsFit /\ PageInv /\ TakeList => PageInv'
  <1> SUFFICES ASSUME ConstantsFit, PageInv, TakeList PROVE PageInv'
    OBVIOUS
  <1> USE DEF PageInv
  <1>1. PICK l \in lists :
          /\ lists' = lists \ {l}
          /\ IF url.alert \in {None, NoRule}
             THEN Settled(url, "undefined", inst)
             ELSE Settled(url, "found", IF url.alert \in l.got THEN url.alert ELSE "undefined")
          /\ UNCHANGED <<alerts, scans, faults>>
    BY DEF TakeList
  <1>2. url \in URLs /\ lists' \subseteq Lists
    BY <1>1 DEF TypeOK
  <1>3. CASE url.alert \in {None, NoRule}
    <2>1. Looked(url, "undefined", inst) /\ Settled(url, "undefined", inst)
      BY <1>1, <1>3 DEF Looked
    <2> QED
      BY <1>1, <1>2, <2>1, SettledPage DEF TypeOK
  <1>4. CASE url.alert \notin {None, NoRule}
    <2> DEFINE i == IF url.alert \in l.got THEN url.alert ELSE "undefined"
    <2>1. url.alert \in Alerts
      BY <1>2, <1>4, AlertAddresses
    <2>2. Looked(url, "found", i) /\ Settled(url, "found", i)
      BY <1>1, <1>4, <2>1 DEF Looked
    <2> HIDE DEF i
    <2> QED
      BY <1>1, <1>2, <2>2, SettledPage DEF TypeOK
  <1> QED
    BY <1>3, <1>4

LEMMA BackendPreserves == ConstantsFit /\ PageInv /\ Backend => PageInv'
  <1> SUFFICES ASSUME ConstantsFit, PageInv, Backend PROVE PageInv'
    OBVIOUS
  <1> USE DEF PageInv
  <1>1. CASE ServeList
    <2>1. PICK l \in lists : /\ lists' = (lists \ {l}) \cup {[l EXCEPT !.served = TRUE, !.got = alerts]}
                             /\ UNCHANGED <<url, group, inst, table, panel, alerts, scans, faults>>
      BY <1>1 DEF ServeList
    <2>2. lists' \subseteq Lists
      BY <2>1 DEF TypeOK, Lists
    <2> QED
      BY <2>1, <2>2 DEF TypeOK, Looked, PanelOfAddress
  <1>2. CASE TakeList
    BY <1>2, TakeListPreserves
  <1>3. CASE ListFails
    <2>1. /\ lists' \subseteq lists /\ faults < MaxFaults /\ faults' = faults + 1
          /\ UNCHANGED <<url, group, inst, table, panel, alerts, scans>>
      BY <1>3 DEF ListFails
    <2>2. faults' \in 0 .. MaxFaults
      BY <2>1, Constants DEF TypeOK
    <2> QED
      BY <2>1, <2>2 DEF TypeOK, Looked, PanelOfAddress
  <1>4. ASSUME NEW ok \in BOOLEAN, TableAnswer(ok) PROVE PageInv'
    <2> DEFINE slide == IsSlideOver(url, group, inst)
    <2>1. /\ table.asks > 0 /\ (ok \/ faults < MaxFaults)
          /\ faults' = IF ok THEN faults ELSE faults + 1
          /\ table' = [table EXCEPT !.rows = ok, !.asks = @ - 1]
          /\ panel' = PanelOf(url, inst, slide, ok)
          /\ UNCHANGED <<url, lists, group, inst, alerts, scans>>
      BY <1>4 DEF TableAnswer
    <2>2. faults' \in 0 .. MaxFaults
      BY <2>1, Constants DEF TypeOK
    <2>3. table' \in [mounted: BOOLEAN, rows: BOOLEAN, asks: 0 .. MaxAsks]
      <3>1. table.asks - 1 \in 0 .. MaxAsks
        BY <2>1, Constants DEF TypeOK
      <3> QED
        BY <2>1, <3>1 DEF TypeOK
    <2>4. slide => inst \in Alerts /\ inst = url.alert
      BY <2>1, PanelIsFound
    <2> HIDE DEF slide
    <2>5. panel' \in {NoPanel} \cup [alert: Alerts, graph: {"asked", "drawn", "empty"}]
      BY <2>1, <2>4, PanelType
    <2>6. PanelOfAddress'
      BY <2>1, <2>4 DEF PanelOf, PanelOfAddress
    <2> QED
      BY <2>1, <2>2, <2>3, <2>5, <2>6 DEF TypeOK, Looked
  <1>5. ASSUME NEW ok \in BOOLEAN, GraphAnswer(ok) PROVE PageInv'
    <2>1. /\ panel # NoPanel /\ (ok \/ faults < MaxFaults)
          /\ faults' = IF ok THEN faults ELSE faults + 1
          /\ panel' = [panel EXCEPT !.graph = IF ok THEN "drawn" ELSE "empty"]
          /\ UNCHANGED <<url, lists, group, inst, table, alerts, scans>>
      BY <1>5 DEF GraphAnswer
    <2>2. faults' \in 0 .. MaxFaults
      BY <2>1, Constants DEF TypeOK
    <2>3. /\ panel' \in [alert: Alerts, graph: {"asked", "drawn", "empty"}]
          /\ panel'.alert = panel.alert
      BY <2>1 DEF TypeOK
    <2> QED
      BY <2>1, <2>2, <2>3 DEF TypeOK, Looked, PanelOfAddress
  <1> QED
    BY <1>1, <1>2, <1>3, <1>4, <1>5 DEF Backend

LEMMA ScanPreserves == ConstantsFit /\ PageInv /\ Scan => PageInv'
  <1> SUFFICES ASSUME ConstantsFit, PageInv, Scan PROVE PageInv'
    OBVIOUS
  <1>1. scans' \in 0 .. MaxScans /\ alerts' \subseteq Alerts
    BY Constants DEF Scan, PageInv, TypeOK
  <1> QED
    BY <1>1 DEF Scan, PageInv, TypeOK, Looked, PanelOfAddress

LEMMA PageStep == ConstantsFit /\ PageInv /\ [Next]_vars => PageInv'
  <1> SUFFICES ASSUME ConstantsFit, PageInv, [Next]_vars PROVE PageInv'
    OBVIOUS
  <1>1. CASE UNCHANGED vars
    BY <1>1 DEF vars, PageInv, TypeOK, Looked, PanelOfAddress
  <1> QED
    BY <1>1, UserPreserves, BackendPreserves, ScanPreserves DEF Next

-----------------------------------------------------------------------------
(* In every state of the page what it has looked up is of its address, and *)
(* so is its panel.                                                        *)
THEOREM PageInvariant == ConstantsFit => (Spec => []PageInv)
  <1> SUFFICES ASSUME ConstantsFit PROVE Spec => []PageInv
    OBVIOUS
  <1>1. Init => PageInv
    BY PageInit
  <1>2. PageInv /\ [Next]_vars => PageInv'
    BY PageStep
  <1> QED
    BY <1>1, <1>2, PTL DEF Spec

(* The panel and its graph are of the alert that the address names,        *)
(* whichever answers are late, lost or of an earlier address.              *)
THEOREM PanelShowsAddress == ConstantsFit => (Spec => []PanelOfAddress)
  BY PageInvariant, PTL DEF PageInv

-----------------------------------------------------------------------------
(* If scans report no new alerts, an answer holds every alert that there   *)
(* still is, so that what is not found in it is gone.                      *)
FoundInv ==
    /\ \A l \in lists : l.served => alerts \subseteq l.got
    /\ inst = "undefined" => url.alert \notin alerts

LEMMA FoundStep ==
    ConstantsFit /\ ~Appearing /\ PageInv /\ FoundInv /\ [Next]_vars => FoundInv'
  <1> SUFFICES ASSUME ConstantsFit, ~Appearing, PageInv, FoundInv, [Next]_vars PROVE FoundInv'
    OBVIOUS
  <1> USE DEF FoundInv
  <1>1. ASSUME NEW u, NEW under \in SUBSET lists, AskList(u, under), alerts' = alerts
        PROVE  \A l \in lists' : l.served => alerts' \subseteq l.got
    BY <1>1 DEF AskList, Asked
  <1>2. ASSUME NEW u, Navigate(u) PROVE FoundInv'
    <2>1. alerts' = alerts /\ url' = u
      BY <1>2 DEF Navigate, Settled
    <2>2. CASE u.alert = url.alert
      BY <1>2, <2>1, <2>2 DEF Navigate, Settled
    <2>3. CASE u.alert # url.alert
      <3>1. AskList(u, lists) /\ inst' = "init"
        BY <1>2, <2>3 DEF Navigate, Settled
      <3> QED
        BY <1>1, <2>1, <3>1
    <2> QED
      BY <2>2, <2>3
  <1>3. ASSUME NEW u, Enter(u) PROVE FoundInv'
    BY <1>1, <1>3 DEF Enter
  <1>4. CASE User
    BY <1>2, <1>3, <1>4 DEF User, HistoryGo, AlertClick, handleSideBarClose, navigateOnTabClick
  <1>5. CASE ServeList
    <2>1. PICK l \in lists : /\ lists' = (lists \ {l}) \cup {[l EXCEPT !.served = TRUE, !.got = alerts]}
                             /\ UNCHANGED <<url, group, inst, table, panel, alerts, scans, faults>>
      BY <1>5 DEF ServeList
    <2>2. [l EXCEPT !.served = TRUE, !.got = alerts].got = alerts
      BY DEF PageInv, TypeOK, Lists
    <2> QED
      BY <2>1, <2>2
  <1>6. CASE TakeList
    <2>1. PICK l \in lists :
            /\ l.served
            /\ lists' = lists \ {l}
            /\ IF url.alert \in {None, NoRule}
               THEN Settled(url, "undefined", inst)
               ELSE Settled(url, "found", IF url.alert \in l.got THEN url.alert ELSE "undefined")
            /\ UNCHANGED <<alerts, scans, faults>>
      BY <1>6 DEF TakeList
    <2>2. url' = url
      BY <2>1 DEF Settled
    <2>3. inst' = "undefined" => url.alert \notin alerts
      <3>1. CASE url.alert \in {None, NoRule}
        BY <2>1, <3>1 DEF Settled
      <3>2. CASE url.alert \notin {None, NoRule} /\ url.alert \in l.got
        <4>1. inst' = url.alert
          BY <2>1, <3>2 DEF Settled
        <4>2. "undefined" \notin alerts
          BY Constants DEF PageInv, TypeOK
        <4> QED
          BY <4>1, <4>2
      <3>3. CASE url.alert \notin l.got
        BY <2>1, <3>3
      <3> QED
        BY <3>1, <3>2, <3>3
    <2> QED
      BY <2>1, <2>2, <2>3
  <1>7. CASE ListFails \/ \E ok \in BOOLEAN : TableAnswer(ok) \/ GraphAnswer(ok)
    BY <1>7 DEF ListFails, TableAnswer, GraphAnswer
  <1>8. CASE Scan
    BY <1>8 DEF Scan
  <1>9. CASE UNCHANGED vars
    BY <1>9 DEF vars
  <1> QED
    BY <1>4, <1>5, <1>6, <1>7, <1>8, <1>9 DEF Next, Backend

LEMMA FoundInit == Init => FoundInv
  BY DEF Init, FoundInv, Asked

LEMMA FoundIsValid == ConstantsFit /\ PageInv /\ FoundInv => OnlyInvalidIsNotFound
  <1>1. ConstantsFit => None \notin Alerts /\ NoRule \notin Alerts
    BY Constants
  <1> QED
    BY <1>1 DEF PageInv, FoundInv, TypeOK, Looked, NotFound, OnlyInvalidIsNotFound

(* A page that is not found has an invalid category, rule or alert in its  *)
(* address, as the comment in the code says, if scans report no new        *)
(* alerts; they may delete any.                                            *)
THEOREM NotFoundIsInvalid ==
    ConstantsFit /\ ~Appearing => (Spec => []OnlyInvalidIsNotFound)
  <1> SUFFICES ASSUME ConstantsFit, ~Appearing PROVE Spec => []OnlyInvalidIsNotFound
    OBVIOUS
  <1>1. Init => FoundInv
    BY FoundInit
  <1>2. PageInv /\ FoundInv /\ [Next]_vars => FoundInv'
    BY FoundStep
  <1>3. PageInv /\ FoundInv => OnlyInvalidIsNotFound
    BY FoundIsValid
  <1>4. Spec => []PageInv
    BY PageInvariant
  <1> QED
    BY <1>1, <1>2, <1>3, <1>4, PTL DEF Spec
=============================================================================
