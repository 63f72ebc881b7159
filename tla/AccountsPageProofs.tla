-------------------------- MODULE AccountsPageProofs --------------------------
(***************************************************************************)
(* The table of accounts, for every set of accounts, any number of polls   *)
(* and dialogs under way, and any number of requests that fail: it has one *)
(* interval and leaves none behind, and a dialog that removed an account   *)
(* does not close on a list that still has it, although the backend may    *)
(* move any row between the two requests of the dialog, and requests of    *)
(* tables that were left may be served at any time.                        *)
(***************************************************************************)
EXTENDS AccountsPage, TLAPS

(* Tabs exist on the settings page only.                                   *)
TabsOfSettings == at # "/settings" => tab = "none"

(* As long as no request of a dialog has failed, one that removes has      *)
(* removed its account once it is answered, and the list it asked for      *)
(* after that has no such account.                                         *)
RemovalsAreKnown ==
    postFaults = 0 =>
        \A d \in Dialogs : d[2] = "remove" =>
            /\ busy[d] \in {"posted", "listing", "listed"} => status[d[1]] = "NONE"
            /\ busy[d] = "listed" => reply[d][d[1]].status = "NONE"

(* A request that is sent may still become one without its table.          *)
RoomForOrphans == \A d \in Dialogs : busy[d] = "posting" => orphans[d] < MaxOrphans

TabInv == TabsOfSettings /\ TimersMatchTab

AccountsInv == TypeOK /\ TabInv /\ RoomForOrphans /\ RemovalsAreKnown

-----------------------------------------------------------------------------
(* The backend.                                                            *)

LEMMA RowsAreRows ==
    /\ NoRows \in Rows
    /\ \A t \in Times : status \in [Accounts -> Statuses \cup {"NONE"}] => Listed(t) \in Rows
    /\ \A t \in Times, a \in Accounts : Listed(t)[a].status = status[a]
  BY DEF NoRows, Rows, Listed

(* Scans move rows; they neither register accounts nor remove them.        *)
LEMMA ScansKeepRows ==
    ASSUME TypeOK, BackendStep
    PROVE  /\ status' \in [Accounts -> Statuses \cup {"NONE"}]
           /\ phase' \in {"down", "idle", "scanning", "evaluating"}
           /\ \A a \in Accounts : status'[a] = "NONE" <=> status[a] = "NONE"
  <1> USE DEF TypeOK, Statuses
  <1>1. CASE Backend!Requeue
    BY <1>1 DEF Backend!Requeue, Backend!InProgress
  <1>2. CASE Backend!StartScan
    BY <1>2 DEF Backend!StartScan
  <1>3. CASE Backend!EndScan
    BY <1>3 DEF Backend!EndScan, Backend!MoveAll
  <1>4. CASE Backend!Evaluate
    BY <1>4 DEF Backend!Evaluate
  <1>5. CASE Backend!EndEvaluation
    BY <1>5 DEF Backend!EndEvaluation, Backend!MoveAll
  <1>6. ASSUME NEW a \in Accounts, Backend!Progress(a)
        PROVE  /\ status' \in [Accounts -> Statuses \cup {"NONE"}]
               /\ phase' \in {"down", "idle", "scanning", "evaluating"}
               /\ \A b \in Accounts : status'[b] = "NONE" <=> status[b] = "NONE"
    <2>1. PICK new \in Statuses : status' = [status EXCEPT ![a] = new] /\ status[a] # "NONE"
      BY <1>6 DEF Backend!Progress, Backend!Become
    <2>2. phase' = phase /\ new # "NONE"
      BY <1>6, <2>1 DEF Backend!Progress
    <2> QED
      BY <2>1, <2>2
  <1> QED
    BY <1>1, <1>2, <1>3, <1>4, <1>5, <1>6 DEF BackendStep

-----------------------------------------------------------------------------
(* Types. What belongs to the table, and what to the backend, the address  *)
(* and the bounds.                                                         *)
TableTyped ==
    /\ shown \in Rows /\ late \in BOOLEAN
    /\ polls \in [Slots -> {Unsent, Sent} \cup Answers]
    /\ open \in SUBSET Dialogs /\ busy \in [Dialogs -> Steps] /\ reply \in [Dialogs -> Rows]
    /\ orphans \in [Dialogs -> 0..MaxOrphans]

RestTyped ==
    /\ status \in [Accounts -> Statuses \cup {"NONE"}]
    /\ phase \in {"down", "idle", "scanning", "evaluating"}
    /\ at \in {"/", "/settings", "/alerts/misconfiguration", "/alerts"}
    /\ tab \in {"none", "Add New Account", "Connected Accounts"}
    /\ postFaults \in 0 .. PostFaults /\ listFaults \in 0 .. ListFaults

LEMMA TypesInParts == TypeOK <=> TableTyped /\ RestTyped /\ ticking \in 0 .. 1
  BY DEF TypeOK, TableTyped, RestTyped

LEMMA TypesAfter == TableTyped' /\ RestTyped' /\ ticking' \in {0, 1} => TypeOK'
  <1>1. {0, 1} = 0 .. 1
    OBVIOUS
  <1> QED
    BY <1>1 DEF TypeOK, TableTyped, RestTyped

LEMMA MountTyped == TableTyped /\ Mount => TableTyped'
  <1> SUFFICES ASSUME TableTyped, Mount PROVE TableTyped'
    OBVIOUS
  <1>1. polls' \in [Slots -> {Unsent, Sent} \cup Answers]
    BY DEF TableTyped, Mount
  <1>2. late' \in BOOLEAN
    BY DEF Mount
  <1> QED
    BY <1>1, <1>2 DEF TableTyped, Mount, dialogs

LEMMA MountTicks == Mount /\ ticking = 0 => ticking' = IF Demo THEN 0 ELSE 1
  <1>1. CASE Demo
    BY <1>1 DEF Mount
  <1>2. CASE ~Demo
    BY <1>2 DEF Mount
  <1> QED
    BY <1>1, <1>2

LEMMA Counted ==
    ASSUME NEW m \in Nat, NEW n \in 0 .. m
    PROVE  (n < m => n + 1 \in 0 .. m) /\ (n > 0 => n - 1 \in 0 .. m /\ n - 1 < m)
  OBVIOUS

LEMMA ResetTyped == ConstantsFit /\ TableTyped /\ RoomForOrphans /\ Reset => TableTyped'
  <1> SUFFICES ASSUME ConstantsFit, TableTyped, RoomForOrphans, Reset PROVE TableTyped'
    OBVIOUS
  <1>1. polls' \in [Slots -> {Unsent, Sent} \cup Answers]
    BY DEF Reset
  <1>2. busy' \in [Dialogs -> Steps] /\ reply' \in [Dialogs -> Rows]
    BY RowsAreRows DEF Reset, Steps
  <1>3. orphans' \in [Dialogs -> 0..MaxOrphans]
    <2>1. MaxOrphans \in Nat /\ orphans \in [Dialogs -> 0..MaxOrphans]
      BY DEF ConstantsFit, TableTyped
    <2>2. \A d \in Dialogs :
            (IF busy[d] = "posting" THEN orphans[d] + 1 ELSE orphans[d]) \in 0..MaxOrphans
      BY <2>1, Counted DEF RoomForOrphans
    <2> QED
      BY <2>2 DEF Reset
  <1>4. late' \in BOOLEAN /\ shown' \in Rows /\ open' \in SUBSET Dialogs
    BY RowsAreRows DEF Reset
  <1> QED
    BY <1>1, <1>2, <1>3, <1>4 DEF TableTyped

(* A step of one dialog that leaves the table as it is.                    *)
LEMMA DialogTyped ==
    ASSUME TableTyped, NEW d \in Dialogs, NEW step \in Steps \ {"idle"},
           busy' = [busy EXCEPT ![d] = step], reply' \in [Dialogs -> Rows],
           UNCHANGED <<shown, late, polls, open, orphans>>
    PROVE  TableTyped'
  <1>1. busy' \in [Dialogs -> Steps]
    BY DEF TableTyped
  <1> QED
    BY <1>1 DEF TableTyped

-----------------------------------------------------------------------------
(* Pages.                                                                  *)

LEMMA UnmountPreserves ==
    ASSUME ConstantsFit, AccountsInv, Unmount, UNCHANGED <<backend, faults>>,
           at' \in {"/", "/settings", "/alerts/misconfiguration", "/alerts"},
           tab' \in {"none", "Add New Account"}, at' # "/settings" => tab' = "none"
    PROVE  AccountsInv'
  <1> USE DEF AccountsInv
  <1>1. TableTyped' /\ RestTyped' /\ ticking' = 0
    BY TypesInParts, ResetTyped DEF Unmount, RestTyped, backend, faults
  <1>2. TypeOK'
    BY <1>1, TypesAfter
  <1>3. TabInv'
    BY <1>1 DEF TabInv, TabsOfSettings, TimersMatchTab, Mounted
  <1>4. RoomForOrphans' /\ RemovalsAreKnown'
    <2>1. \A d \in Dialogs : busy'[d] = "idle"
      BY DEF Unmount, Reset
    <2> QED
      BY <2>1 DEF RoomForOrphans, RemovalsAreKnown
  <1> QED
    BY <1>2, <1>3, <1>4

(* Nothing that the dialogs know is touched.                               *)
LEMMA DialogsStay ==
    ASSUME RoomForOrphans, RemovalsAreKnown, UNCHANGED <<backend, dialogs, faults>>
    PROVE  RoomForOrphans' /\ RemovalsAreKnown'
  BY DEF RoomForOrphans, RemovalsAreKnown, backend, dialogs, faults

LEMMA OpenSettingsPreserves ==
    ASSUME ConstantsFit, AccountsInv, NEW t \in {"Add New Account", "Connected Accounts"},
           OpenSettings(t), tab = "none", UNCHANGED <<backend, faults>>
    PROVE  AccountsInv'
  <1> USE DEF AccountsInv
  <1>1. ticking = 0 /\ at' = "/settings" /\ tab' = t
    BY DEF TabInv, TimersMatchTab, Mounted, OpenSettings
  <1>2. CASE t = "Connected Accounts"
    <2>1. Mount
      BY <1>2 DEF OpenSettings
    <2>2. ticking' = IF Demo THEN 0 ELSE 1
      BY <1>1, <2>1, MountTicks
    <2>3. TableTyped' /\ RestTyped'
      BY <1>1, <2>1, TypesInParts, MountTyped DEF RestTyped, backend, faults
    <2>4. TypeOK'
      BY <2>2, <2>3, TypesAfter
    <2>5. TabInv'
      BY <1>1, <1>2, <2>2 DEF TabInv, TabsOfSettings, TimersMatchTab, Mounted
    <2>6. RoomForOrphans' /\ RemovalsAreKnown'
      BY <2>1, DialogsStay DEF Mount
    <2> QED
      BY <2>4, <2>5, <2>6
  <1>3. CASE t = "Add New Account"
    <2>1. UNCHANGED <<shown, late, ticking, polls, dialogs>>
      BY <1>3 DEF OpenSettings
    <2>2. TypeOK'
      BY <1>1, <2>1 DEF TypeOK, backend, faults, dialogs
    <2>3. TabInv'
      BY <1>1, <1>3, <2>1 DEF TabInv, TabsOfSettings, TimersMatchTab, Mounted
    <2>4. RoomForOrphans' /\ RemovalsAreKnown'
      BY <2>1, DialogsStay
    <2> QED
      BY <2>2, <2>3, <2>4
  <1> QED
    BY <1>2, <1>3

LEMMA PagesPreserve ==
    ASSUME ConstantsFit, AccountsInv,
           \/ HomeResolver \/ NavLink
           \/ \E t \in {"Add New Account", "Connected Accounts"} : SwitchTab(t)
           \/ \E a \in Accounts : ViewResults(a)
    PROVE  AccountsInv'
  <1> USE DEF AccountsInv
  <1>1. CASE HomeResolver
    <2>1. at = "/" /\ tab = "none" /\ UNCHANGED <<backend, faults>>
      BY <1>1 DEF HomeResolver, TabInv, TabsOfSettings
    <2>2. CASE \E t \in {"Add New Account", "Connected Accounts"} : OpenSettings(t)
      BY <2>1, <2>2, OpenSettingsPreserves
    <2>3. CASE at' = "/alerts/misconfiguration" /\ UNCHANGED <<tab, shown, late, ticking, polls, dialogs>>
      <3>1. TypeOK'
        BY <2>1, <2>3 DEF TypeOK, backend, faults, dialogs
      <3>2. TabInv'
        BY <2>1, <2>3 DEF TabInv, TabsOfSettings, TimersMatchTab, Mounted
      <3>3. RoomForOrphans' /\ RemovalsAreKnown'
        BY <2>1, <2>3, DialogsStay
      <3> QED
        BY <3>1, <3>2, <3>3
    <2> QED
      BY <1>1, <2>2, <2>3 DEF HomeResolver
  <1>2. ASSUME NEW to \in {"/alerts/misconfiguration", "/alerts"}, Leave(to) PROVE AccountsInv'
    BY <1>2, UnmountPreserves DEF Leave
  <1>3. CASE NavLink
    <2>1. CASE Leave("/alerts/misconfiguration")
      BY <1>2, <2>1
    <2>2. CASE at \notin {"/", "/settings"} /\ OpenSettings("Add New Account") /\ UNCHANGED <<backend, faults>>
      <3>1. tab = "none"
        BY <2>2 DEF TabInv, TabsOfSettings
      <3> QED
        BY <2>2, <3>1, OpenSettingsPreserves
    <2> QED
      BY <1>3, <2>1, <2>2 DEF NavLink
  <1>4. ASSUME NEW t \in {"Add New Account", "Connected Accounts"}, SwitchTab(t) PROVE AccountsInv'
    <2>1. /\ at = "/settings" /\ at' = at /\ tab # t /\ tab' = t /\ UNCHANGED <<backend, faults>>
      BY <1>4 DEF SwitchTab
    <2>2. CASE t = "Add New Account"
      <3>1. Unmount
        BY <1>4, <2>2 DEF SwitchTab
      <3> QED
        BY <2>1, <2>2, <3>1, UnmountPreserves
    <2>3. CASE t = "Connected Accounts"
      <3>1. Mount
        BY <1>4, <2>3 DEF SwitchTab
      <3>2. ticking = 0
        BY <2>1, <2>3 DEF TabInv, TimersMatchTab, Mounted
      <3>3. ticking' = IF Demo THEN 0 ELSE 1
        BY <3>1, <3>2, MountTicks
      <3>4. TableTyped' /\ RestTyped'
        BY <2>1, <2>3, <3>1, TypesInParts, MountTyped DEF RestTyped, backend, faults
      <3>5. TypeOK'
        BY <3>3, <3>4, TypesAfter
      <3>6. TabInv'
        BY <2>1, <2>3, <3>3 DEF TabInv, TabsOfSettings, TimersMatchTab, Mounted
      <3>7. RoomForOrphans' /\ RemovalsAreKnown'
        BY <2>1, <3>1, DialogsStay DEF Mount
      <3> QED
        BY <3>5, <3>6, <3>7
    <2> QED
      BY <2>2, <2>3
  <1>5. ASSUME NEW a \in Accounts, ViewResults(a) PROVE AccountsInv'
    BY <1>2, <1>5 DEF ViewResults
  <1> QED
    BY <1>1, <1>3, <1>4, <1>5

-----------------------------------------------------------------------------
(* The backend and the polls.                                              *)

(* A step that leaves the dialogs and the address alone.                   *)
LEMMA AsideStep ==
    ASSUME AccountsInv, TypeOK', UNCHANGED <<at, tab, ticking, busy, reply, orphans, postFaults>>,
           \A a \in Accounts : status[a] = "NONE" => status'[a] = "NONE"
    PROVE  AccountsInv'
  <1>1. TabInv'
    BY DEF AccountsInv, TabInv, TabsOfSettings, TimersMatchTab, Mounted
  <1>2. RoomForOrphans' /\ RemovalsAreKnown'
    BY DEF AccountsInv, RoomForOrphans, RemovalsAreKnown, Dialogs
  <1> QED
    BY <1>1, <1>2 DEF AccountsInv

LEMMA BackendPreserves == AccountsInv /\ BackendStep => AccountsInv'
  <1> SUFFICES ASSUME AccountsInv, BackendStep PROVE AccountsInv'
    OBVIOUS
  <1>1. UNCHANGED <<page, faults>>
    BY DEF BackendStep
  <1>2. TypeOK'
    BY <1>1, ScansKeepRows DEF AccountsInv, TypeOK, page, dialogs, faults
  <1> QED
    BY <1>1, <1>2, AsideStep, ScansKeepRows DEF page, dialogs, faults, AccountsInv

LEMMA AnswersBringRows ==
    ASSUME NEW p \in {Unsent, Sent} \cup Answers, p.is = "answer"
    PROVE  p.rows \in Rows
  <1>1. Unsent.is = "not sent" /\ Sent.is = "sent"
    BY DEF Unsent, Sent
  <1>2. p \in Answers
    BY <1>1
  <1> QED
    BY <1>2 DEF Answers

LEMMA PollsPreserve ==
    ASSUME ConstantsFit, AccountsInv, NEW s \in Slots, PollStep(s) \/ PollFails(s)
    PROVE  AccountsInv'
  <1>1. TableTyped /\ RestTyped /\ ticking \in {0, 1}
    <2>1. {0, 1} = 0 .. 1
      OBVIOUS
    <2> QED
      BY <2>1, TypesInParts DEF AccountsInv
  <1>2. /\ UNCHANGED <<backend, at, tab, ticking, busy, reply, orphans, postFaults>>
        /\ listFaults' # listFaults => listFaults < ListFaults /\ listFaults' = listFaults + 1
    BY DEF PollStep, PollFails, Poll, ServePoll, TakePoll, dialogs, faults
  <1>3. RestTyped'
    <2>1. listFaults' \in 0 .. ListFaults
      <3>1. listFaults \in 0 .. ListFaults /\ ListFaults \in Nat
        BY <1>1 DEF RestTyped, ConstantsFit
      <3> QED
        BY ONLY <1>2, <3>1
    <2> QED
      BY <1>1, <1>2, <2>1 DEF RestTyped, backend
  <1>4. TableTyped'
    <2>1. polls' \in [Slots -> {Unsent, Sent} \cup Answers]
      <3>1. CASE Poll(s) \/ PollFails(s) \/ TakePoll(s)
        BY <1>1, <3>1 DEF Poll, PollFails, TakePoll, TableTyped
      <3>2. CASE ServePoll(s)
        <4>1. PICK t \in Times : polls' = [polls EXCEPT ![s] = [is |-> "answer", rows |-> Listed(t)]]
          BY <3>2 DEF ServePoll
        <4>2. [is |-> "answer", rows |-> Listed(t)] \in Answers
          BY <1>1, RowsAreRows DEF RestTyped, Answers
        <4> QED
          BY <1>1, <4>1, <4>2 DEF TableTyped
      <3> QED
        BY <3>1, <3>2 DEF PollStep
    <2>2. shown' \in Rows /\ open' \in SUBSET Dialogs
      <3>1. CASE TakePoll(s)
        <4>1. polls[s].rows \in Rows
          BY <1>1, <3>1, AnswersBringRows DEF TakePoll, TableTyped
        <4> QED
          BY <1>1, <3>1, <4>1 DEF TakePoll, TableTyped, DialogsOf
      <3>2. CASE ~TakePoll(s)
        BY <1>1, <3>2 DEF PollStep, Poll, ServePoll, PollFails, dialogs, TableTyped
      <3> QED
        BY <3>1, <3>2
    <2>3. late' \in BOOLEAN /\ orphans' = orphans
      BY <1>1 DEF TableTyped, PollStep, Poll, ServePoll, TakePoll, PollFails, dialogs
    <2> QED
      BY <1>1, <1>2, <2>1, <2>2, <2>3 DEF TableTyped
  <1>5. TypeOK'
    BY <1>1, <1>2, <1>3, <1>4, TypesAfter
  <1> QED
    BY <1>2, <1>5, AsideStep DEF backend

-----------------------------------------------------------------------------
(* The dialogs.                                                            *)

LEMMA DialogsOpen ==
    ASSUME AccountsInv, NEW d \in Dialogs, OpenDialog(d) \/ Cancel(d)
    PROVE  AccountsInv'
  <1>1. /\ open' \in SUBSET Dialogs
        /\ UNCHANGED <<backend, at, tab, shown, late, ticking, polls, busy, reply, orphans, faults>>
    BY DEF OpenDialog, Cancel, AccountsInv, TypeOK
  <1>2. TypeOK'
    BY <1>1 DEF AccountsInv, TypeOK, backend, faults
  <1> QED
    BY <1>1, <1>2, AsideStep DEF backend, faults

(* A step of a dialog that goes on, short of taking the new list: one that *)
(* removes knows that its account is gone, unless a request has failed.    *)
LEMMA DialogGoesOn ==
    ASSUME AccountsInv, NEW d \in Dialogs, NEW step \in Steps \ {"idle"},
           busy' = [busy EXCEPT ![d] = step],
           UNCHANGED <<at, tab, shown, late, ticking, polls, open, orphans>>,
           RestTyped', reply' \in [Dialogs -> Rows],
           \A e \in Dialogs : e # d => reply'[e] = reply[e],
           step = "posting" => orphans[d] < MaxOrphans,
           \A a \in Accounts : status[a] = "NONE" => status'[a] = "NONE",
           postFaults' = 0 => postFaults = 0,
           postFaults' = 0 /\ d[2] = "remove" =>
               /\ step \in {"posted", "listing", "listed"} => status'[d[1]] = "NONE"
               /\ step = "listed" => reply'[d][d[1]].status = "NONE"
    PROVE  AccountsInv'
  <1>1. TableTyped /\ ticking \in {0, 1}
    <2>1. {0, 1} = 0 .. 1
      OBVIOUS
    <2> QED
      BY <2>1, TypesInParts DEF AccountsInv
  <1>2. TypeOK'
    BY <1>1, DialogTyped, TypesAfter
  <1>3. TabInv'
    BY DEF AccountsInv, TabInv, TabsOfSettings, TimersMatchTab, Mounted
  <1>4. \A e \in Dialogs : busy'[e] = IF e = d THEN step ELSE busy[e]
    BY <1>1 DEF TableTyped
  <1>5. RoomForOrphans'
    BY <1>4 DEF AccountsInv, RoomForOrphans
  <1>6. RemovalsAreKnown'
    <2> SUFFICES ASSUME postFaults' = 0, NEW e \in Dialogs, e[2] = "remove"
                 PROVE  /\ busy'[e] \in {"posted", "listing", "listed"} => status'[e[1]] = "NONE"
                        /\ busy'[e] = "listed" => reply'[e][e[1]].status = "NONE"
      BY DEF RemovalsAreKnown
    <2>1. CASE e = d
      BY <1>4, <2>1
    <2>2. CASE e # d
      <3>1. e[1] \in Accounts /\ busy'[e] = busy[e] /\ reply'[e] = reply[e]
        BY <1>4, <2>2 DEF Dialogs
      <3> QED
        BY <3>1 DEF AccountsInv, RemovalsAreKnown
    <2> QED
      BY <2>1, <2>2
  <1> QED
    BY <1>2, <1>3, <1>5, <1>6 DEF AccountsInv

(* A request is served whose table is gone.                                *)
LEMMA OrphanServed ==
    ASSUME ConstantsFit, AccountsInv, NEW d \in Dialogs,
           orphans[d] > 0, orphans' = [orphans EXCEPT ![d] = @ - 1],
           UNCHANGED <<at, tab, shown, late, ticking, polls, open, busy, reply>>, RestTyped',
           \A a \in Accounts : status[a] = "NONE" => status'[a] = "NONE",
           postFaults' = 0 => postFaults = 0
    PROVE  AccountsInv'
  <1>1. TableTyped /\ ticking \in {0, 1}
    <2>1. {0, 1} = 0 .. 1
      OBVIOUS
    <2> QED
      BY <2>1, TypesInParts DEF AccountsInv
  <1>2. orphans \in [Dialogs -> 0..MaxOrphans] /\ MaxOrphans \in Nat
    BY <1>1 DEF TableTyped, ConstantsFit
  <1>3. orphans[d] - 1 \in 0..MaxOrphans /\ orphans[d] - 1 < MaxOrphans
    BY <1>2, Counted
  <1>4. orphans' \in [Dialogs -> 0..MaxOrphans]
    BY <1>2, <1>3
  <1>5. TypeOK'
    BY <1>1, <1>4, TypesAfter DEF TableTyped
  <1>6. TabInv'
    BY DEF AccountsInv, TabInv, TabsOfSettings, TimersMatchTab, Mounted
  <1>7. RoomForOrphans'
    BY <1>2, <1>3 DEF AccountsInv, RoomForOrphans
  <1>8. RemovalsAreKnown'
    BY DEF AccountsInv, RemovalsAreKnown, Dialogs
  <1> QED
    BY <1>5, <1>6, <1>7, <1>8 DEF AccountsInv

(* What is answered is the request of the dialog, or an earlier one.       *)
LEMMA AnsweredGoesOn ==
    ASSUME ConstantsFit, AccountsInv, NEW d \in Dialogs, Answered(d),
           UNCHANGED <<at, tab, shown, late, ticking, polls, open, reply>>, RestTyped',
           \A a \in Accounts : status[a] = "NONE" => status'[a] = "NONE",
           postFaults' = 0 => postFaults = 0,
           postFaults' = 0 /\ d[2] = "remove" => status'[d[1]] = "NONE"
    PROVE  AccountsInv'
  <1>1. CASE busy' = [busy EXCEPT ![d] = "posted"] /\ UNCHANGED orphans
    <2>1. "posted" \in Steps \ {"idle"} /\ reply \in [Dialogs -> Rows]
      BY DEF Steps, AccountsInv, TypeOK
    <2> QED
      BY <1>1, <2>1, DialogGoesOn
  <1>2. CASE orphans[d] > 0 /\ orphans' = [orphans EXCEPT ![d] = @ - 1] /\ UNCHANGED busy
    BY <1>2, OrphanServed
  <1> QED
    BY <1>1, <1>2 DEF Answered, Goto

LEMMA DialogsPreserve ==
    ASSUME ConstantsFit, AccountsInv, NEW d \in Dialogs,
           \/ Confirm(d) \/ rescan(d) \/ deleteAccountDetails(d) \/ PostFails(d)
           \/ AskList(d) \/ ServeList(d) \/ ListThrows(d)
    PROVE  AccountsInv'
  <1>1. TableTyped /\ RestTyped /\ d[1] \in Accounts
    BY TypesInParts DEF AccountsInv, Dialogs
  <1>2. Steps = {"idle", "posting", "posted", "listing", "listed", "threw"}
    BY DEF Steps
  <1>3. reply \in [Dialogs -> Rows] /\ PostFaults \in Nat /\ ListFaults \in Nat
    BY <1>1 DEF TableTyped, ConstantsFit
  <1>4. CASE Confirm(d) \/ AskList(d)
    <2>2. UNCHANGED <<backend, at, tab, shown, late, ticking, polls, open, reply, orphans, faults>>
      BY <1>4 DEF Confirm, AskList
    <2>3. RestTyped'
      BY <1>1, <2>2 DEF RestTyped, backend, faults
    <2>4. busy[d] = "posted" => (postFaults = 0 /\ d[2] = "remove" => status[d[1]] = "NONE")
      BY DEF AccountsInv, RemovalsAreKnown
    <2>5. CASE Confirm(d)
      <3>1. busy' = [busy EXCEPT ![d] = "posting"] /\ orphans[d] < MaxOrphans
        BY <2>5 DEF Confirm, Goto
      <3> QED
        BY <1>2, <1>3, <2>2, <2>3, <3>1, DialogGoesOn DEF backend, faults
    <2>6. CASE AskList(d)
      <3>1. busy' = [busy EXCEPT ![d] = "listing"] /\ busy[d] = "posted"
        BY <2>6 DEF AskList, Goto
      <3> QED
        BY <1>2, <1>3, <2>2, <2>3, <2>4, <3>1, DialogGoesOn DEF backend, faults
    <2> QED
      BY <1>4, <2>5, <2>6
  <1>5. CASE rescan(d)
    <2>1. /\ Answered(d) /\ d[2] = "scan"
          /\ status' = [status EXCEPT ![d[1]] = IF @ = "NONE" THEN @ ELSE "READY"]
          /\ UNCHANGED <<phase, at, tab, shown, late, ticking, polls, open, reply, faults>>
      BY <1>5 DEF rescan
    <2>2. status' \in [Accounts -> Statuses \cup {"NONE"}]
      BY <1>1, <2>1 DEF RestTyped, Statuses
    <2>3. \A a \in Accounts : status[a] = "NONE" => status'[a] = "NONE"
      BY <1>1, <2>1 DEF RestTyped
    <2>4. RestTyped'
      BY <1>1, <2>1, <2>2 DEF RestTyped, faults
    <2> QED
      BY <2>1, <2>3, <2>4, AnsweredGoesOn DEF faults
  <1>6. CASE deleteAccountDetails(d)
    <2>1. /\ Answered(d) /\ status' = [status EXCEPT ![d[1]] = "NONE"]
          /\ UNCHANGED <<phase, at, tab, shown, late, ticking, polls, open, reply, faults>>
      BY <1>6 DEF deleteAccountDetails
    <2>2. status' \in [Accounts -> Statuses \cup {"NONE"}]
      BY <1>1, <2>1 DEF RestTyped
    <2>3. /\ \A a \in Accounts : status[a] = "NONE" => status'[a] = "NONE"
          /\ status'[d[1]] = "NONE"
      BY <1>1, <2>1 DEF RestTyped
    <2>4. RestTyped'
      BY <1>1, <2>1, <2>2 DEF RestTyped, faults
    <2> QED
      BY <2>1, <2>3, <2>4, AnsweredGoesOn DEF faults
  <1>7. CASE PostFails(d)
    <2>1. /\ Answered(d)
          /\ postFaults < PostFaults /\ postFaults' = postFaults + 1
          /\ UNCHANGED <<backend, at, tab, shown, late, ticking, polls, open, reply, listFaults>>
      BY <1>7 DEF PostFails
    <2>2. postFaults' \in 0 .. PostFaults /\ postFaults' # 0
      <3>1. postFaults \in 0 .. PostFaults
        BY <1>1 DEF RestTyped
      <3> QED
        BY <1>3, <2>1, <3>1
    <2>3. RestTyped'
      BY <1>1, <2>1, <2>2 DEF RestTyped, backend
    <2> QED
      BY <2>1, <2>2, <2>3, AnsweredGoesOn DEF backend
  <1>8. CASE ListThrows(d)
    <2>1. /\ busy' = [busy EXCEPT ![d] = "threw"]
          /\ listFaults < ListFaults /\ listFaults' = listFaults + 1
          /\ UNCHANGED <<backend, at, tab, shown, late, ticking, polls, open, reply, orphans, postFaults>>
      BY <1>8 DEF ListThrows, Goto
    <2>2. listFaults' \in 0 .. ListFaults
      BY <1>1, <1>3, <2>1, Counted DEF RestTyped
    <2>3. RestTyped'
      BY <1>1, <2>1, <2>2 DEF RestTyped, backend
    <2> QED
      BY <1>2, <1>3, <2>1, <2>3, DialogGoesOn DEF backend
  <1>9. CASE ServeList(d)
    <2>1. PICK t \in Times : reply' = [reply EXCEPT ![d] = Listed(t)]
      BY <1>9 DEF ServeList
    <2>2. /\ busy' = [busy EXCEPT ![d] = "listed"] /\ busy[d] = "listing"
          /\ UNCHANGED <<backend, at, tab, shown, late, ticking, polls, open, orphans, faults>>
      BY <1>9 DEF ServeList, Goto
    <2>3. RestTyped'
      BY <1>1, <2>2 DEF RestTyped, backend, faults
    <2>4. /\ reply' \in [Dialogs -> Rows] /\ reply'[d] = Listed(t)
          /\ \A e \in Dialogs : e # d => reply'[e] = reply[e]
      BY <1>1, <1>3, <2>1, RowsAreRows DEF RestTyped
    <2>5. postFaults = 0 /\ d[2] = "remove" => status[d[1]] = "NONE"
      BY <2>2 DEF AccountsInv, RemovalsAreKnown
    <2>6. reply'[d][d[1]].status = status[d[1]]
      BY <1>1, <2>4, RowsAreRows
    <2> QED
      BY <1>2, <2>2, <2>3, <2>4, <2>5, <2>6, DialogGoesOn DEF backend, faults
  <1> QED
    BY <1>4, <1>5, <1>6, <1>7, <1>8, <1>9

LEMMA ClosePreserves == ASSUME AccountsInv, NEW d \in Dialogs, Close(d) PROVE AccountsInv'
  <1>1. TableTyped /\ RestTyped /\ ticking \in {0, 1}
    <2>1. {0, 1} = 0 .. 1
      OBVIOUS
    <2> QED
      BY <2>1, TypesInParts DEF AccountsInv
  <1>2. /\ busy' = [busy EXCEPT ![d] = "idle"] /\ reply' = [reply EXCEPT ![d] = NoRows]
        /\ UNCHANGED <<backend, at, tab, late, ticking, polls, orphans, faults>>
    BY DEF Close, Done, Goto
  <1>3. shown' \in Rows /\ open' \in SUBSET Dialogs
    BY <1>1 DEF Close, TableTyped, DialogsOf
  <1>4. busy' \in [Dialogs -> Steps] /\ reply' \in [Dialogs -> Rows]
    BY <1>1, <1>2, RowsAreRows DEF TableTyped, Steps
  <1>6. TableTyped' /\ RestTyped'
    BY <1>1, <1>2, <1>3, <1>4 DEF TableTyped, RestTyped, backend, faults
  <1>7. TypeOK'
    BY <1>1, <1>2, <1>6, TypesAfter
  <1>8. TabInv'
    BY <1>2 DEF AccountsInv, TabInv, TabsOfSettings, TimersMatchTab, Mounted
  <1>9. RoomForOrphans' /\ RemovalsAreKnown'
    <2>1. \A e \in Dialogs : busy'[e] # "idle" => busy'[e] = busy[e] /\ reply'[e] = reply[e]
      BY <1>1, <1>2 DEF TableTyped
    <2> QED
      BY <1>2, <2>1 DEF AccountsInv, RoomForOrphans, RemovalsAreKnown, backend, faults
  <1> QED
    BY <1>7, <1>8, <1>9 DEF AccountsInv

-----------------------------------------------------------------------------
(* The theorems.                                                           *)

LEMMA AccountsInit == ConstantsFit /\ Init => AccountsInv
  <1> SUFFICES ASSUME ConstantsFit, Init PROVE AccountsInv
    OBVIOUS
  <1>1. status \in [Accounts -> Statuses \cup {"NONE"}]
    BY DEF Init, Statuses
  <1>2. /\ polls \in [Slots -> {Unsent, Sent} \cup Answers]
        /\ reply \in [Dialogs -> Rows] /\ shown \in Rows
        /\ busy \in [Dialogs -> Steps]
    BY RowsAreRows DEF Init, Steps
  <1>3. postFaults \in 0 .. PostFaults /\ listFaults \in 0 .. ListFaults /\ ticking \in 0 .. 1
    BY DEF Init, ConstantsFit
  <1>4. late \in BOOLEAN /\ orphans \in [Dialogs -> 0..MaxOrphans]
    <2>1. 0 \in 0..MaxOrphans
      BY DEF ConstantsFit
    <2> QED
      BY <2>1 DEF Init
  <1>5. TypeOK
    BY <1>1, <1>2, <1>3, <1>4 DEF Init, TypeOK
  <1>6. TabInv
    BY DEF Init, TabInv, TabsOfSettings, TimersMatchTab, Mounted
  <1>7. RoomForOrphans /\ RemovalsAreKnown
    BY DEF Init, RoomForOrphans, RemovalsAreKnown
  <1> QED
    BY <1>5, <1>6, <1>7 DEF AccountsInv

LEMMA AccountsStep == ConstantsFit /\ AccountsInv /\ [Next]_vars => AccountsInv'
  <1> SUFFICES ASSUME ConstantsFit, AccountsInv, [Next]_vars PROVE AccountsInv'
    OBVIOUS
  <1>1. CASE UNCHANGED vars
    <2>1. TypeOK'
      BY <1>1 DEF AccountsInv, TypeOK, vars, backend, page, dialogs, faults
    <2> QED
      BY <1>1, <2>1, AsideStep DEF vars, backend, page, dialogs, faults
  <1>2. CASE UserStep
    BY <1>2, PagesPreserve, DialogsOpen, DialogsPreserve DEF UserStep
  <1> QED
    BY <1>1, <1>2, BackendPreserves, PollsPreserve, DialogsPreserve, ClosePreserves
    DEF Next, DialogStep

(* The types of the page, one interval for each mounted table, and dialogs *)
(* that know of removals.                                                  *)
THEOREM AccountsInvariant == ConstantsFit => (Spec => []AccountsInv)
  <1> SUFFICES ASSUME ConstantsFit PROVE Spec => []AccountsInv
    OBVIOUS
  <1>1. Init => AccountsInv
    BY AccountsInit
  <1>2. AccountsInv /\ [Next]_vars => AccountsInv'
    BY AccountsStep
  <1> QED
    BY <1>1, <1>2, PTL DEF Spec

(* There is one interval while the table is mounted, and none otherwise    *)
(* (ConnectedAccounts.tsx:312).                                            *)
THEOREM NoTimerIsLeft == ConstantsFit => (Spec => []TimersMatchTab)
  <1> SUFFICES ASSUME ConstantsFit PROVE Spec => []TimersMatchTab
    OBVIOUS
  <1>1. AccountsInv => TimersMatchTab
    BY DEF AccountsInv, TabInv
  <1> QED
    BY <1>1, AccountsInvariant, PTL

LEMMA RemovalsStep ==
    ConstantsFit /\ "remove" \in Kinds /\ AccountsInv /\ Next => RemovedIsGone
  <1> SUFFICES ASSUME ConstantsFit, "remove" \in Kinds, AccountsInv, Next, NEW a \in Accounts,
                      NEW d, d = <<a, "remove">>,
                      busy[d] = "listed", busy'[d] = "idle", status[a] = "NONE", postFaults = 0
               PROVE  shown'[a].status = "NONE"
    BY DEF RemovedIsGone
  <1>1. d \in Dialogs /\ d[1] = a /\ d[2] = "remove"
    BY DEF Dialogs
  <1>2. busy \in [Dialogs -> Steps]
    BY DEF AccountsInv, TypeOK
  <1>3. ~UNCHANGED busy /\ ~Mount /\ ~UNCHANGED dialogs
    BY DEF Mount, dialogs
  <1>4. CASE Reset
    BY <1>4 DEF Reset, NoRows
  <1>5. CASE UserStep
    <2>1. ASSUME NEW e \in Dialogs, Confirm(e) PROVE FALSE
      BY <1>1, <1>2, <2>1 DEF Confirm, Goto
    <2>2. \A e \in Dialogs : ~OpenDialog(e) /\ ~Cancel(e)
      BY <1>3 DEF OpenDialog, Cancel
    <2>3. /\ \A t : ~OpenSettings(t)
          /\ \A to : Leave(to) => Reset
      BY <1>3 DEF OpenSettings, Leave, Unmount
    <2>4. ~HomeResolver /\ (NavLink => Reset)
      BY <1>3, <2>3 DEF HomeResolver, NavLink
    <2>5. \A t : SwitchTab(t) => Reset
      BY <1>3 DEF SwitchTab, Unmount
    <2>6. \A b \in Accounts : ViewResults(b) => Reset
      BY <2>3 DEF ViewResults
    <2> QED
      BY <1>4, <1>5, <2>1, <2>2, <2>4, <2>5, <2>6 DEF UserStep
  <1>6. ~BackendStep /\ \A s \in Slots : ~PollStep(s) /\ ~PollFails(s)
    BY <1>3 DEF BackendStep, page, dialogs, PollStep, Poll, ServePoll, TakePoll, PollFails
  <1>7. \A e \in Dialogs : /\ ~PostFails(e) /\ ~ListThrows(e) /\ ~rescan(e)
                           /\ ~deleteAccountDetails(e) /\ ~AskList(e) /\ ~ServeList(e)
    BY <1>1, <1>2, <1>3
       DEF PostFails, ListThrows, rescan, deleteAccountDetails, AskList, ServeList, Goto, Answered
  <1>8. ASSUME NEW e \in Dialogs, Close(e) PROVE shown'[a].status = "NONE"
    <2>1. e = d
      BY <1>1, <1>2, <1>8 DEF Close, Done, Goto
    <2>2. shown' = reply[d]
      BY <1>8, <2>1 DEF Close
    <2>3. reply[d][a].status = "NONE"
      BY <1>1 DEF AccountsInv, RemovalsAreKnown
    <2> QED
      BY <2>2, <2>3
  <1> QED
    BY <1>5, <1>6, <1>7, <1>8 DEF Next, DialogStep

(* When the dialog that removed an account closes, the account is gone     *)
(* from the table, whatever polls are on the way and whatever tables were  *)
(* left, as long as no request of a dialog has failed                      *)
(* (ConnectedAccounts.tsx:219).                                            *)
THEOREM RemovedStaysAway ==
    ConstantsFit /\ "remove" \in Kinds => (Spec => [][RemovedIsGone]_vars)
  <1> SUFFICES ASSUME ConstantsFit, "remove" \in Kinds PROVE Spec => [][RemovedIsGone]_vars
    OBVIOUS
  <1>1. AccountsInv /\ [Next]_vars => [RemovedIsGone]_vars
    BY RemovalsStep
  <1>2. Spec => []AccountsInv
    BY AccountsInvariant
  <1> QED
    BY <1>1, <1>2, PTL DEF Spec
=============================================================================
