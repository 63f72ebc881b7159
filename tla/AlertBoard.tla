----------------------------- MODULE AlertBoard -----------------------------
(***************************************************************************)
(* What the rule results promise to a reader of the alerts: the alerts of  *)
(* a rule are those of its latest report, to which the alerts of earlier   *)
(* reports may still be added until they are retired; an alert stays muted *)
(* as long as it is reported, and only a user mutes or unmutes it.         *)
(***************************************************************************)
CONSTANTS Rules, Resources, Verdicts

VARIABLES board,   \* the alerts of each rule: resource -> NoAlert or an alert
          latest   \* what the latest report of each rule says of a resource

NoAlert == [verdict |-> "absent", muted |-> FALSE]

Init ==
    /\ board = [r \in Rules |-> [x \in Resources |-> NoAlert]]
    /\ latest = [r \in Rules |-> [x \in Resources |-> "absent"]]

(* A report replaces verdicts and adds alerts, unmuted, but removes none.  *)
Report(r) ==
    \E found \in [Resources -> Verdicts \cup {"absent"}] :
        /\ latest' = [latest EXCEPT ![r] = found]
        /\ board' = [board EXCEPT ![r] =
              [x \in Resources |-> IF found[x] = "absent" THEN @[x]
                                   ELSE [@[x] EXCEPT !.verdict = found[x]]]]

(* Exactly the alerts that the latest report no longer contains go away.   *)
Retire(r) ==
    /\ board' = [board EXCEPT ![r] =
          [x \in Resources |-> IF latest[r][x] = "absent" THEN NoAlert ELSE @[x]]]
    /\ UNCHANGED latest

Mute(r, x) ==
    /\ board[r][x] # NoAlert
    /\ \E m \in BOOLEAN : board' = [board EXCEPT ![r][x].muted = m]
    /\ UNCHANGED latest

Next == \E r \in Rules : Report(r) \/ Retire(r) \/ \E x \in Resources : Mute(r, x)

Spec == Init /\ [][Next]_<<board, latest>>
=============================================================================
