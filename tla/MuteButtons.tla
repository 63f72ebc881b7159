---------------------------- MODULE MuteButtons ----------------------------
(***************************************************************************)
(* The buttons that mute an alert (ToggleMuteButton.tsx) in a table that   *)
(* asks for all alerts again when the panel of one is opened or closed     *)
(* (AlertsTableOps.tsx:165).  A click changes the table at once and posts; *)
(* posts and answers come in any order, and either may fail.               *)
(***************************************************************************)
EXTENDS Requests

CONSTANTS
    Alerts,
    MaxPosts,   \* posts under way at once
    MaxAsks,    \* requests for the alerts under way at once
    MaxFaults,  \* requests that fail
    Waits       \* whether the user waits for requests to end

ConstantsFit ==
    /\ MaxPosts \in Nat \ {0} /\ MaxAsks \in Nat \ {0} /\ MaxFaults \in Nat
    /\ Waits \in BOOLEAN

VARIABLES
    shown,   \* activeAlertsInfo: whether there are alerts, and those muted
    asks,    \* getAllAlerts requests under way, with what they were served
    posts,   \* toggleAlertMuted requests under way
    muted,   \* rule_results.muted
    faults

vars == <<shown, asks, posts, muted, faults>>

Empty == [filled |-> FALSE, muted |-> {}]
Ask == [served |-> FALSE, got |-> {}]

FieldsOK ==
    /\ shown \in {Empty} \cup [filled: {TRUE}, muted: SUBSET Alerts]
    /\ IsABag(asks) /\ BagToSet(asks) \subseteq [served: BOOLEAN, got: SUBSET Alerts]
    /\ IsABag(posts) /\ BagToSet(posts) \subseteq [alert: Alerts, muted: BOOLEAN]
    /\ muted \subseteq Alerts /\ faults \in 0 .. MaxFaults
TypeOK ==
    FieldsOK /\ UnderWay(asks) <= MaxAsks /\ UnderWay(posts) <= MaxPosts

Quiet == asks = EmptyBag /\ posts = EmptyBag
With(S, a, in) == IF in THEN S \cup {a} ELSE S \ {a}

Init ==
    /\ shown = Empty /\ asks = One(Ask) /\ posts = EmptyBag
    /\ muted \in SUBSET Alerts /\ faults = 0

NewMutedValue(a) == a \notin shown.muted

onClickToggleFn(a) ==
    /\ shown.filled /\ (Waits => Quiet)
    /\ UnderWay(posts) < MaxPosts
    /\ posts' = posts (+) One([alert |-> a, muted |-> NewMutedValue(a)])
    /\ shown' = [shown EXCEPT !.muted = With(@, a, a \notin @)]
    /\ UNCHANGED <<asks, muted, faults>>

ToggleAlertMuted(p) ==
    /\ muted' = With(muted, p.alert, p.muted)
    /\ posts' = posts (-) One(p)
    /\ UNCHANGED <<shown, asks, faults>>

PostFails(p) ==
    /\ faults < MaxFaults /\ faults' = faults + 1
    /\ posts' = posts (-) One(p)
    /\ UNCHANGED <<shown, asks, muted>>

\* The panel of an alert opens or closes: the table keeps what it has.
AskAgain ==
    /\ shown.filled /\ (Waits => Quiet)
    /\ UnderWay(asks) < MaxAsks /\ asks' = asks (+) One(Ask)
    /\ UNCHANGED <<shown, posts, muted, faults>>

\* The table is mounted anew, with another tab or from another page.
Remount ==
    /\ Waits => Quiet
    /\ shown' = Empty /\ asks' = One(Ask)
    /\ UNCHANGED <<posts, muted, faults>>

GetAllAlerts(q) ==
    /\ ~q.served
    /\ asks' = (asks (-) One(q)) (+) One([q EXCEPT !.served = TRUE, !.got = muted])
    /\ UNCHANGED <<shown, posts, muted, faults>>

TakeAnswer(q) ==
    /\ q.served
    /\ asks' = asks (-) One(q) /\ shown' = [filled |-> TRUE, muted |-> q.got]
    /\ UNCHANGED <<posts, muted, faults>>

AskFails(q) ==
    /\ ~q.served /\ faults < MaxFaults /\ faults' = faults + 1
    /\ asks' = asks (-) One(q) /\ shown' = Empty
    /\ UNCHANGED <<posts, muted>>

Next ==
    \/ AskAgain \/ Remount
    \/ \E a \in Alerts : onClickToggleFn(a)
    \/ \E p \in BagToSet(posts) : ToggleAlertMuted(p) \/ PostFails(p)
    \/ \E q \in BagToSet(asks) : GetAllAlerts(q) \/ TakeAnswer(q) \/ AskFails(q)

Spec == Init /\ [][Next]_vars

-----------------------------------------------------------------------------
\* Of a user who waits one request is under way at most, and what it leads to
\* is what the table shows or will show.
ButtonsInv ==
    /\ FieldsOK
    /\ \/ Quiet /\ (shown.filled => shown.muted = muted)
       \/ /\ asks = EmptyBag
          /\ \E p \in [alert: Alerts, muted: BOOLEAN] :
                posts = One(p) /\ shown.muted = With(muted, p.alert, p.muted)
       \/ /\ posts = EmptyBag
          /\ \E q \in [served: BOOLEAN, got: SUBSET Alerts] :
                asks = One(q) /\ (q.served => q.got = muted)

\* With no request under way the table shows what is muted: for a user who
\* waits, as long as no request fails; refuted otherwise.
MutedIsShown == Quiet /\ shown.filled => shown.muted = muted

\* (Of a step.) Only clicks mute, each its own alert; and between clicks the
\* table changes only to something the backend answered.
OnlyClicksMute ==
    /\ \A a \in Alerts : (a \in muted) # (a \in muted') =>
           \E p \in BagToSet(posts (-) posts') : p.alert = a /\ p.muted = (a \in muted')
    /\ \A p \in BagToSet(posts' (-) posts) : p.muted = (p.alert \in shown'.muted)
    /\ shown'.filled /\ shown' # shown =>
           posts' # posts \/ \E q \in BagToSet(asks (-) asks') : shown'.muted = q.got
=============================================================================
