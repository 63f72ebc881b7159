---------------------------- MODULE AccountsPage ----------------------------
(***************************************************************************)
(* The settings page of the frontend beside a running backend: the start   *)
(* page that redirects (App.tsx), the table of accounts that polls the     *)
(* backend and its two dialogs (ConnectedAccounts.tsx).  The backend is    *)
(* the abstract ScanLifecycle.  Requests take time, and their answers may  *)
(* arrive in any order.                                                    *)
(***************************************************************************)
EXTENDS Naturals

CONSTANTS
    Accounts,
    Kinds,       \* of dialogs, out of scan and remove
    Times,       \* running times of a job that runs, in seconds
    Slots,       \* polls that may be on the way at once
    Demo,        \* the read-only demo environment does not poll
    MaxOrphans,  \* handlers of one dialog that may outlive its table
    PostFaults,  \* requests of the dialogs that may fail
    ListFaults   \* requests for the list that may fail

ConstantsFit ==
    /\ Kinds \subseteq {"scan", "remove"} /\ Times \in SUBSET Nat /\ Demo \in BOOLEAN
    /\ MaxOrphans \in Nat \ {0} /\ PostFaults \in Nat /\ ListFaults \in Nat

VARIABLES
    status, phase, \* the backend
    at,            \* the page of the browser
    tab,           \* the tab of the settings page
    shown,         \* accountDetailsList
    late,          \* the poll four seconds after the mount is still to come
    ticking,       \* number of intervals that are set
    polls,         \* polls on the way: not sent, sent, or the answer
    open,          \* dialogs that are open
    busy,          \* what the button of a dialog is waiting for; idle = not loading
    reply,         \* the list a dialog was answered
    orphans,       \* requests of each dialog whose handler outlived its table
    postFaults, listFaults

Backend == INSTANCE ScanLifecycle
backend == <<status, phase>>

Statuses == {"READY", "RUNNING", "CARTOGRAPHY_PASSED", "RULES_RUNNING", "FAILED", "PASSED"}
Dialogs == Accounts \X Kinds
Rows == [Accounts -> [status: Statuses \cup {"NONE"}, time: Times \cup {0}]]
NoRows == [a \in Accounts |-> [status |-> "NONE", time |-> 0]]
Unsent == [is |-> "not sent"]
Sent   == [is |-> "sent"]
Answers == [is: {"answer"}, rows: Rows]
Steps == {"idle", "posting", "posted", "listing", "listed", "threw"}

dialogs == <<open, busy, reply, orphans>>
faults == <<postFaults, listFaults>>
page == <<at, tab, shown, late, ticking, polls, dialogs>>
vars == <<backend, page, faults>>

TypeOK ==
    /\ status \in [Accounts -> Statuses \cup {"NONE"}]
    /\ phase \in {"down", "idle", "scanning", "evaluating"}
    /\ at \in {"/", "/settings", "/alerts/misconfiguration", "/alerts"}
    /\ tab \in {"none", "Add New Account", "Connected Accounts"}
    /\ shown \in Rows
    /\ late \in BOOLEAN /\ ticking \in 0..1
    /\ orphans \in [Dialogs -> 0..MaxOrphans]
    /\ polls \in [Slots -> {Unsent, Sent} \cup Answers]
    /\ open \in SUBSET Dialogs
    /\ busy \in [Dialogs -> Steps]
    /\ reply \in [Dialogs -> Rows]
    /\ postFaults \in 0..PostFaults /\ listFaults \in 0..ListFaults

Init ==
    /\ status \in [Accounts -> {"READY", "PASSED"}] /\ phase = "idle"
    /\ at = "/" /\ tab = "none"
    /\ shown = NoRows /\ late = FALSE /\ ticking = 0 /\ polls = [s \in Slots |-> Unsent]
    /\ open = {} /\ orphans = [d \in Dialogs |-> 0]
    /\ busy = [d \in Dialogs |-> "idle"] /\ reply = [d \in Dialogs |-> NoRows]
    /\ postFaults = 0 /\ listFaults = 0

-----------------------------------------------------------------------------
\* Pages.

\* The statuses that count as a scan in progress, also for the buttons.
Waiting == {"READY", "RUNNING", "CARTOGRAPHY_PASSED", "RULES_RUNNING"}

\* The effect of ConnectedAccounts at its mount: a poll now, one after four
\* seconds, and an interval unless this is the demo.
Mount ==
    /\ polls' = [polls EXCEPT ![CHOOSE s \in Slots : TRUE] = Sent]
    /\ late' = TRUE
    /\ ticking' = ticking + (IF Demo THEN 0 ELSE 1)
    /\ UNCHANGED <<shown, dialogs>>

\* What the next mount starts from: every button is usable.  A handler of a
\* dialog runs on without its table, of which the backend sees the request
\* that it has sent.
Reset ==
    /\ shown' = NoRows /\ late' = FALSE
    /\ polls' = [s \in Slots |-> Unsent]
    /\ open' = {} /\ reply' = [d \in Dialogs |-> NoRows]
    /\ busy' = [d \in Dialogs |-> "idle"]
    /\ orphans' = [d \in Dialogs |-> IF busy[d] = "posting" THEN orphans[d] + 1 ELSE orphans[d]]

\* Mutant: the interval outlives the table.
UnmountKeepsInterval == Reset /\ UNCHANGED ticking

\* The cleanup clears both timers; answers that come later find no component.
Unmount == Reset /\ ticking' = 0

OpenSettings(t) ==
    /\ at' = "/settings" /\ tab' = t
    /\ IF t = "Connected Accounts" THEN Mount
       ELSE UNCHANGED <<shown, late, ticking, polls, dialogs>>

HomeResolver ==
    /\ at = "/"
    /\ LET rows == {a \in Accounts : status[a] # "NONE"} IN
       \/ rows = {} /\ OpenSettings("Add New Account")
       \/ (\E a \in rows : status[a] \in Waiting) /\ OpenSettings("Connected Accounts")
       \/ /\ rows # {} /\ \A a \in rows : status[a] \notin Waiting
          /\ at' = "/alerts/misconfiguration"
          /\ UNCHANGED <<tab, shown, late, ticking, polls, dialogs>>
    /\ UNCHANGED <<backend, faults>>

\* Another tab of the settings page; GenerateReport has no state to keep.
SwitchTab(t) ==
    /\ at = "/settings" /\ t # tab /\ open = {}
    /\ tab' = t
    /\ IF t = "Connected Accounts" THEN Mount ELSE Unmount
    /\ UNCHANGED <<backend, at, faults>>

\* Away from the settings page, and back to it.
Leave(to) ==
    /\ open = {} /\ at' = to /\ tab' = "none"
    /\ Unmount
    /\ UNCHANGED <<backend, faults>>

\* A link of the navigation bar.
NavLink ==
    \/ at # "/alerts/misconfiguration" /\ at # "/" /\ Leave("/alerts/misconfiguration")
    \/ /\ at \notin {"/", "/settings"} /\ OpenSettings("Add New Account")
       /\ UNCHANGED <<backend, faults>>

\* The button that is disabled while the scan of its account is in progress.
ViewResults(a) ==
    /\ tab = "Connected Accounts"
    /\ shown[a].status \notin Waiting \cup {"NONE"}
    /\ Leave("/alerts")

-----------------------------------------------------------------------------
\* Polls.

Mounted == tab = "Connected Accounts"

\* Mutant: no interval, only the poll four seconds after the mount.
PollOnce(s) ==
    /\ Mounted /\ polls[s] = Unsent
    /\ late /\ late' = FALSE
    /\ polls' = [polls EXCEPT ![s] = Sent]
    /\ UNCHANGED <<backend, at, tab, shown, ticking, dialogs, faults>>

\* The poll four seconds after the mount, and those of the interval.
Poll(s) ==
    /\ Mounted /\ polls[s] = Unsent
    /\ \/ late /\ late' = FALSE
       \/ ticking > 0 /\ UNCHANGED late
    /\ polls' = [polls EXCEPT ![s] = Sent]
    /\ UNCHANGED <<backend, at, tab, shown, ticking, dialogs, faults>>

\* The rows as the backend sends them; running_time is reported by the
\* cartography server while it runs.
Listed(t) ==
    [a \in Accounts |-> [status |-> status[a],
                         time   |-> IF status[a] \in {"RUNNING", "CARTOGRAPHY_PASSED"} THEN t ELSE 0]]

ServePoll(s) ==
    /\ polls[s] = Sent
    /\ \E t \in Times : polls' = [polls EXCEPT ![s] = [is |-> "answer", rows |-> Listed(t)]]
    /\ UNCHANGED <<backend, at, tab, shown, late, ticking, dialogs, faults>>

\* The dialogs of rows that are still listed.
DialogsOf(rows) == {d \in open : rows[d[1]].status # "NONE"}

\* The answer replaces the list, and a row that is gone takes its dialogs with
\* it; an error leaves the list.
TakePoll(s) ==
    /\ polls[s].is = "answer"
    /\ polls' = [polls EXCEPT ![s] = Unsent]
    /\ shown' = polls[s].rows /\ open' = DialogsOf(polls[s].rows)
    /\ UNCHANGED <<backend, at, tab, late, ticking, busy, reply, orphans, faults>>

PollFails(s) ==
    /\ polls[s] = Sent /\ listFaults < ListFaults
    /\ listFaults' = listFaults + 1
    /\ polls' = [polls EXCEPT ![s] = Unsent]
    /\ UNCHANGED <<backend, at, tab, shown, late, ticking, dialogs, postFaults>>

-----------------------------------------------------------------------------
\* The dialogs TriggerScan and RemoveAccount.

Goto(d, step) == busy' = [busy EXCEPT ![d] = step]

OpenDialog(d) ==
    /\ Mounted /\ open = {}
    /\ shown[d[1]].status \notin Waiting \cup {"NONE"}
    /\ open' = {d}
    /\ UNCHANGED <<backend, at, tab, shown, late, ticking, polls, busy, reply, orphans, faults>>

\* Cancel does not stop a request that is under way.
Cancel(d) ==
    /\ d \in open
    /\ open' = open \ {d}
    /\ UNCHANGED <<backend, at, tab, shown, late, ticking, polls, busy, reply, orphans, faults>>

Confirm(d) ==
    /\ d \in open /\ busy[d] = "idle" /\ orphans[d] < MaxOrphans
    /\ Goto(d, "posting")
    /\ UNCHANGED <<backend, at, tab, shown, late, ticking, polls, open, reply, orphans, faults>>

\* A request of the dialog is answered, or one that it has left behind.
Answered(d) ==
    \/ busy[d] = "posting" /\ Goto(d, "posted") /\ UNCHANGED orphans
    \/ /\ orphans[d] > 0 /\ orphans' = [orphans EXCEPT ![d] = @ - 1]
       /\ UNCHANGED busy

\* The backend takes the request, or refuses it for an account that is gone.
rescan(d) ==
    /\ d[2] = "scan" /\ Answered(d)
    /\ status' = [status EXCEPT ![d[1]] = IF @ = "NONE" THEN @ ELSE "READY"]
    /\ UNCHANGED <<phase, at, tab, shown, late, ticking, polls, open, reply, faults>>

deleteAccountDetails(d) ==
    /\ d[2] = "remove" /\ Answered(d)
    /\ status' = [status EXCEPT ![d[1]] = "NONE"]
    /\ UNCHANGED <<phase, at, tab, shown, late, ticking, polls, open, reply, faults>>

\* Mutant: an error of the request is thrown, not returned.
PostThrows(d) ==
    /\ busy[d] = "posting" /\ postFaults < PostFaults
    /\ postFaults' = postFaults + 1
    /\ Goto(d, "threw")
    /\ UNCHANGED <<backend, at, tab, shown, late, ticking, polls, open, reply, orphans, listFaults>>

\* An error is returned as a message nobody reads: the dialog goes on.
PostFails(d) ==
    /\ Answered(d) /\ postFaults < PostFaults
    /\ postFaults' = postFaults + 1
    /\ UNCHANGED <<backend, at, tab, shown, late, ticking, polls, open, reply, listFaults>>

AskList(d) ==
    /\ busy[d] = "posted" /\ Goto(d, "listing")
    /\ UNCHANGED <<backend, at, tab, shown, late, ticking, polls, open, reply, orphans, faults>>

ServeList(d) ==
    /\ busy[d] = "listing" /\ Goto(d, "listed")
    /\ \E t \in Times : reply' = [reply EXCEPT ![d] = Listed(t)]
    /\ UNCHANGED <<backend, at, tab, shown, late, ticking, polls, open, orphans, faults>>

\* Nobody catches the error: the dialog stays open, its button disabled.
ListThrows(d) ==
    /\ busy[d] = "listing" /\ listFaults < ListFaults
    /\ listFaults' = listFaults + 1
    /\ Goto(d, "threw")
    /\ UNCHANGED <<backend, at, tab, shown, late, ticking, polls, open, reply, orphans, postFaults>>

Done(d) ==
    /\ busy[d] = "listed" /\ Goto(d, "idle")
    /\ reply' = [reply EXCEPT ![d] = NoRows]
    /\ UNCHANGED <<backend, at, tab, late, ticking, polls, orphans, faults>>

\* Mutant: the dialog closes and leaves the list to the next poll.
CloseOnly(d) == Done(d) /\ open' = open \ {d} /\ UNCHANGED shown

\* The new list is shown, the dialog closes, and its button is usable again
\* half a second later.
Close(d) == Done(d) /\ shown' = reply[d] /\ open' = DialogsOf(reply[d]) \ {d}

BackendStep ==
    /\ \/ Backend!Requeue \/ Backend!StartScan \/ Backend!EndScan
       \/ Backend!Evaluate \/ Backend!EndEvaluation
       \/ \E a \in Accounts : Backend!Progress(a)
    /\ UNCHANGED <<page, faults>>

PollStep(s) == Poll(s) \/ ServePoll(s) \/ TakePoll(s)
DialogStep(d) == rescan(d) \/ deleteAccountDetails(d) \/ AskList(d) \/ ServeList(d) \/ Close(d)

UserStep ==
    \/ HomeResolver \/ NavLink
    \/ \E t \in {"Add New Account", "Connected Accounts"} : SwitchTab(t)
    \/ \E a \in Accounts : ViewResults(a)
    \/ \E d \in Dialogs : OpenDialog(d) \/ Cancel(d) \/ Confirm(d)

Next ==
    \/ BackendStep \/ UserStep
    \/ \E s \in Slots : PollStep(s) \/ PollFails(s)
    \/ \E d \in Dialogs : DialogStep(d) \/ PostFails(d) \/ ListThrows(d)

Spec == Init /\ [][Next]_vars

-----------------------------------------------------------------------------
\* There is one interval while the table is mounted, and none otherwise: no
\* way of leaving the table leaves a timer behind.
TimersMatchTab == ticking = IF Mounted /\ ~Demo THEN 1 ELSE 0

\* (Of a step.) When the dialog that removed an account closes, the account is
\* gone from the table, whatever polls and whatever requests of earlier tables
\* are on the way, if none of these requests has failed: the list of a dialog
\* whose own request failed may be older than the removal by another.
RemovedIsGone ==
    \A a \in Accounts :
        LET d == <<a, "remove">> IN
        busy[d] = "listed" /\ busy'[d] = "idle" /\ status[a] = "NONE" /\ postFaults = 0
            => shown'[a].status = "NONE"

\* The backend has finished its work and users leave it alone; the table shows
\* it as it is.
Settled ==
    /\ Mounted /\ open = {} /\ \A d \in Dialogs : busy[d] = "idle"
    /\ \A a \in Accounts : status[a] \in {"PASSED", "NONE"}
ShowsRows == \A a \in Accounts : shown[a].status = status[a]

\* A dialog waits for its request; its button is usable; or it stays disabled
\* as the list that was asked for after the request never came.
Pending(d) == busy[d] = "posting"
Usable(d) == busy[d] = "idle"
Stuck(d) == busy[d] = "threw" /\ listFaults > 0
=============================================================================
