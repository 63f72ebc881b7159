----------------------------- MODULE RulesProofs -----------------------------
(***************************************************************************)
(* Proofs about what the package rules leaves behind: the results of rules *)
(* (RuleResults), for any number of rules, resources and executions, all   *)
(* but the types on a host whose clock is not set back; and the graph that *)
(* is drawn of a result (DisplayGraph), for any answer of the database.    *)
(* The two share no state.                                                 *)
(***************************************************************************)
EXTENDS RuleResults, DisplayGraph, SequenceTheorems, WellFoundedInduction, TLAPS

-----------------------------------------------------------------------------
(* Results.                                                                *)

LEMMA NoRowType == NoRow \in Rows
BY RulesAssumption DEF NoRow, Rows

(* What the conflict clause makes of a row: the verdict and the time are   *)
(* those of the upsert, the mute of an existing row is kept.               *)
LEMMA UpsertedRow ==
    ASSUME NEW row \in Rows, NEW verdict \in Verdicts, NEW now \in 0 .. MaxTime
    PROVE  /\ Upserted(row, verdict, now) \in Rows
           /\ Upserted(row, verdict, now).status = verdict
           /\ Upserted(row, verdict, now).lastSeen = now
<1>1. CASE row = NoRow
  BY <1>1 DEF Upserted, Rows
<1>2. CASE row # NoRow
  BY <1>2 DEF Upserted, Rows
<1>3. QED
  BY <1>1, <1>2

LEMMA ContinueType ==
    ASSUME TypeOK, Continue
    PROVE  /\ pc' \in {"idle", "check"}
           /\ at' \in Rules
           /\ results' \in [Resources -> Verdicts \cup {"absent", "twice"}]
           /\ rd' \in 0 .. NotFound
BY RulesAssumption DEF TypeOK, Continue, Rules, Nothing, NotFound

(* The effect of the upsert on the row of every resource.                  *)
LEMMA UpsertEffect ==
    ASSUME TypeOK, ReadsOwnStamp, UnknownRuleHasNoAlerts, UpsertRuleResults
    PROVE  /\ alerts' \in [Rules -> [Resources -> Rows]]
           /\ latest' \in [Rules -> [Resources -> Verdicts \cup {"absent"}]]
           /\ latest' = [latest EXCEPT ![at] = results]
           /\ \A r \in Rules, x \in Resources :
                 IF r = at /\ results[x] # "absent"
                 THEN /\ r \in known
                      /\ alerts'[r][x].status = results[x]
                      /\ alerts'[r][x].lastSeen = clock
                 ELSE alerts'[r][x] = alerts[r][x]
<1> USE DEF TypeOK
<1>1. \A x \in Resources : results[x] \in Verdicts \cup {"absent"}
  BY DEF UpsertRuleResults, Nothing
<1>2. ASSUME NEW x \in Resources, results[x] # "absent"
      PROVE  at \in known /\ rd = clock /\ rd \in 0 .. MaxTime
  BY <1>2 DEF UpsertRuleResults, Nothing, ReadsOwnStamp
<1>3. \A x \in Resources : alerts[at][x] \in Rows
  OBVIOUS
<1>4. DEFINE New(x) == IF results[x] = "absent" THEN alerts[at][x]
                       ELSE Upserted(alerts[at][x], results[x], rd)
<1>5. ASSUME NEW x \in Resources
      PROVE  /\ New(x) \in Rows
             /\ results[x] # "absent" => /\ New(x).status = results[x]
                                         /\ New(x).lastSeen = rd
  BY <1>1, <1>2, <1>3, UpsertedRow
<1>6. alerts' = [alerts EXCEPT ![at] = [x \in Resources |-> New(x)]]
  BY DEF UpsertRuleResults
<1> HIDE DEF New
<1>7. alerts' \in [Rules -> [Resources -> Rows]]
  BY <1>5, <1>6
<1>8. latest' = [latest EXCEPT ![at] = results]
  BY DEF UpsertRuleResults
<1>9. latest' \in [Rules -> [Resources -> Verdicts \cup {"absent"}]]
  BY <1>1, <1>8
<1>10. ASSUME NEW r \in Rules, NEW x \in Resources
       PROVE  IF r = at /\ results[x] # "absent"
              THEN /\ r \in known
                   /\ alerts'[r][x].status = results[x]
                   /\ alerts'[r][x].lastSeen = clock
              ELSE alerts'[r][x] = alerts[r][x]
  <2>1. CASE r = at /\ results[x] # "absent"
    BY <1>2, <1>5, <1>6, <2>1
  <2>2. CASE r = at /\ results[x] = "absent"
    BY <1>6, <2>2 DEF New
  <2>3. CASE r # at
    BY <1>6, <2>3
  <2>4. QED
    BY <2>1, <2>2, <2>3
<1>11. QED
  BY <1>7, <1>8, <1>9, <1>10

(* The effect of the deletion on the row of every resource.                *)
LEMMA DeleteEffect ==
    ASSUME TypeOK, DeleteStaleRuleResults
    PROVE  /\ alerts' \in [Rules -> [Resources -> Rows]]
           /\ \A r \in Rules, x \in Resources :
                 alerts'[r][x] =
                    IF r = at /\ rd # NotFound /\ alerts[r][x].lastSeen < rd
                    THEN NoRow ELSE alerts[r][x]
BY NoRowType DEF TypeOK, DeleteStaleRuleResults, Stale

LEMMA MuteEffect ==
    ASSUME TypeOK, ToggleAlertMuted
    PROVE  /\ alerts' \in [Rules -> [Resources -> Rows]]
           /\ \A r \in Rules, x \in Resources :
                 /\ alerts'[r][x].status = alerts[r][x].status
                 /\ alerts'[r][x].lastSeen = alerts[r][x].lastSeen
<1>1. PICK r \in Rules, new \in BOOLEAN, x \in Resources :
          alerts' = [alerts EXCEPT ![r][x].muted = new]
  BY DEF ToggleAlertMuted, Reported
<1>2. alerts[r][x] \in Rows
  BY DEF TypeOK
<1>3. DEFINE row == [alerts[r][x] EXCEPT !.muted = new]
<1>4. /\ row \in Rows
      /\ row.status = alerts[r][x].status
      /\ row.lastSeen = alerts[r][x].lastSeen
  BY <1>2 DEF Rows
<1>5. \A s \in Rules, y \in Resources :
          alerts'[s][y] = IF s = r /\ y = x THEN row ELSE alerts[s][y]
  BY <1>1 DEF TypeOK
<1>6. alerts' \in [Rules -> [Resources -> Rows]]
  BY <1>1, <1>4 DEF TypeOK
<1>7. QED
  BY <1>4, <1>5, <1>6

-----------------------------------------------------------------------------
(* The steps that leave the tables of results and the history alone.       *)

LEMMA QuietStep ==
    ASSUME MirrorInv, TypeOK', UNCHANGED <<alerts, latest, clean>>,
           known \subseteq known', clock' = clock,
           pc' \notin {"read", "upsert", "delete"}
    PROVE  MirrorInv'
BY DEF MirrorInv, RowsNotFromFuture, ReadsOwnStamp, UnknownRuleHasNoAlerts,
   UpsertedCarryStamp, AlertsMirrorResults, TypeOK

LEMMA StampStep ==
    ASSUME MirrorInv, ~ClockStepsBack, Stamp
    PROVE  MirrorInv'
<1> USE DEF MirrorInv
<1>1. clock' \in (clock + 1) .. MaxTime /\ clock' \in 0 .. MaxTime /\ clock < clock'
  BY RulesAssumption DEF Stamp, TypeOK
<1>2. TypeOK'
  BY <1>1 DEF Stamp, TypeOK
<1>3. RowsNotFromFuture'
  <2> SUFFICES ASSUME NEW r \in Rules, NEW x \in Resources
               PROVE  alerts[r][x].lastSeen < clock'
    BY RulesAssumption DEF RowsNotFromFuture, Stamp, TypeOK, Rows
  <2>1. alerts[r][x].lastSeen \in 0 .. MaxTime /\ alerts[r][x].lastSeen <= clock
    BY DEF RowsNotFromFuture, TypeOK, Rows
  <2>2. QED
    BY <1>1, <2>1, RulesAssumption DEF TypeOK
<1>4. ReadsOwnStamp'
  BY DEF ReadsOwnStamp, Stamp, TypeOK
<1>5. UpsertedCarryStamp' /\ UnknownRuleHasNoAlerts' /\ AlertsMirrorResults'
  BY DEF UpsertedCarryStamp, UnknownRuleHasNoAlerts, AlertsMirrorResults, Stamp
<1>6. QED
  BY <1>2, <1>3, <1>4, <1>5

LEMMA ReadStep ==
    ASSUME MirrorInv, Read
    PROVE  MirrorInv'
<1> USE DEF MirrorInv
<1>1. /\ pc = "read" /\ pc' = "upsert"
      /\ rd' = IF at \in known THEN lastRun[at] ELSE NotFound
      /\ UNCHANGED <<known, active, lastRun, alerts, clock, at, results, latest, clean>>
  BY DEF Read, ruleVars
<1>2. TypeOK'
  BY <1>1, RulesAssumption DEF TypeOK, NotFound
<1>3. RowsNotFromFuture' /\ ReadsOwnStamp'
  BY <1>1 DEF RowsNotFromFuture, ReadsOwnStamp
<1>4. UpsertedCarryStamp' /\ UnknownRuleHasNoAlerts' /\ AlertsMirrorResults'
  BY <1>1 DEF UpsertedCarryStamp, UnknownRuleHasNoAlerts, AlertsMirrorResults
<1>5. QED
  BY <1>2, <1>3, <1>4

LEMMA UpsertStep ==
    ASSUME MirrorInv, UpsertRuleResults
    PROVE  MirrorInv'
<1> USE DEF MirrorInv
<1>1. /\ pc = "upsert" /\ pc' = "delete"
      /\ UNCHANGED <<known, active, lastRun, clock, at, results, rd>>
      /\ clean' = clean \ {at}
  BY DEF UpsertRuleResults, ruleVars
<1>2. TypeOK'
  BY <1>1, UpsertEffect DEF TypeOK
<1>3. clock \in Nat
  BY RulesAssumption DEF TypeOK
<1>4. RowsNotFromFuture'
  BY <1>1, <1>3, UpsertEffect DEF RowsNotFromFuture
<1>5. ReadsOwnStamp'
  BY <1>1 DEF ReadsOwnStamp
<1>6. at \in Rules /\ latest'[at] = results
      /\ \A r \in Rules : r # at => latest'[r] = latest[r]
  BY UpsertEffect DEF TypeOK
<1>7. UnknownRuleHasNoAlerts'
  BY <1>1, <1>6, UpsertEffect DEF UnknownRuleHasNoAlerts
<1>8. UpsertedCarryStamp'
  <2>1. \A x \in Resources : alerts[at][x].lastSeen < clock
    BY <1>1, <1>6 DEF RowsNotFromFuture
  <2>2. \A x \in Resources : alerts[at][x].lastSeen \in Nat
    BY <1>6, RulesAssumption DEF TypeOK, Rows
  <2>3. QED
    BY <1>1, <1>3, <1>6, <2>1, <2>2, UpsertEffect DEF UpsertedCarryStamp
<1>9. AlertsMirrorResults'
  BY <1>1, <1>6, UpsertEffect DEF AlertsMirrorResults
<1>10. QED
  BY <1>2, <1>4, <1>5, <1>7, <1>8, <1>9

LEMMA DeleteStep ==
    ASSUME MirrorInv, DeleteStaleRuleResults
    PROVE  MirrorInv'
<1> USE DEF MirrorInv
<1>1. /\ pc = "delete" /\ pc' \in {"idle", "check"}
      /\ UNCHANGED <<known, active, lastRun, clock, latest>>
      /\ clean' = clean \cup {at}
      /\ at \in Rules
  BY ContinueType DEF DeleteStaleRuleResults, ruleVars, TypeOK
<1>2. TypeOK'
  BY <1>1, ContinueType, DeleteEffect DEF DeleteStaleRuleResults, TypeOK
<1>3. NoRow.status = "absent" /\ NoRow.lastSeen = 0
  BY DEF NoRow
<1>4. clock \in Nat
  BY RulesAssumption DEF TypeOK
<1>5. RowsNotFromFuture'
  BY <1>1, <1>3, <1>4, DeleteEffect DEF RowsNotFromFuture
<1>6. ReadsOwnStamp' /\ UpsertedCarryStamp'
  BY <1>1 DEF ReadsOwnStamp, UpsertedCarryStamp
<1>7. UnknownRuleHasNoAlerts'
  BY <1>1, <1>3, DeleteEffect DEF UnknownRuleHasNoAlerts
<1>8. \A x \in Resources :
          alerts'[at][x].status = latest[at][x]
  <2> SUFFICES ASSUME NEW x \in Resources
               PROVE  alerts'[at][x].status = latest[at][x]
    OBVIOUS
  <2>1. CASE at \notin known
    <3>1. latest[at][x] = "absent" /\ alerts[at][x].status = "absent"
      BY <1>1, <2>1 DEF UnknownRuleHasNoAlerts
    <3>2. QED
      BY <1>1, <1>3, <3>1, DeleteEffect
  <2>2. CASE at \in known
    <3>1. rd = clock /\ rd # NotFound
      BY <1>1, <1>4, <2>2, RulesAssumption DEF ReadsOwnStamp, NotFound, TypeOK
    <3>2. alerts[at][x].lastSeen \in Nat /\ alerts[at][x].lastSeen <= clock
      BY <1>1, RulesAssumption DEF RowsNotFromFuture, TypeOK, Rows
    <3>3. latest[at][x] # "absent" <=> alerts[at][x].lastSeen = clock
      BY <1>1, <2>2 DEF UpsertedCarryStamp
    <3>4. latest[at][x] # "absent" => alerts[at][x].status = latest[at][x]
      BY <1>1 DEF AlertsMirrorResults
    <3>5. alerts'[at][x] = IF alerts[at][x].lastSeen < clock THEN NoRow
                           ELSE alerts[at][x]
      BY <1>1, <3>1, DeleteEffect
    <3>6. QED
      BY <1>3, <1>4, <3>2, <3>3, <3>4, <3>5
  <2>3. QED
    BY <2>1, <2>2
<1>9. AlertsMirrorResults'
  BY <1>1, <1>8, DeleteEffect DEF AlertsMirrorResults
<1>10. QED
  BY <1>2, <1>5, <1>6, <1>7, <1>9

LEMMA MuteStep ==
    ASSUME MirrorInv, ToggleAlertMuted
    PROVE  MirrorInv'
<1> USE DEF MirrorInv
<1>1. UNCHANGED <<known, active, lastRun, clock, pc, at, results, rd, latest, clean>>
  BY DEF ToggleAlertMuted, ruleVars, loopVars
<1>2. TypeOK'
  BY <1>1, MuteEffect DEF TypeOK
<1>3. RowsNotFromFuture' /\ UnknownRuleHasNoAlerts' /\ AlertsMirrorResults'
  BY <1>1, MuteEffect DEF RowsNotFromFuture, UnknownRuleHasNoAlerts,
     AlertsMirrorResults
<1>4. ReadsOwnStamp' /\ UpsertedCarryStamp'
  BY <1>1, MuteEffect DEF ReadsOwnStamp, UpsertedCarryStamp, TypeOK
<1>5. QED
  BY <1>2, <1>3, <1>4

(* A rule switched on or off by a user, in the middle of its execution or  *)
(* not, changes nothing the invariant speaks of.                           *)
LEMMA ToggleStep ==
    ASSUME MirrorInv, ToggleRuleActive
    PROVE  MirrorInv'
<1> USE DEF MirrorInv
<1>1. UNCHANGED <<known, lastRun, alerts, clock, pc, at, results, rd, latest, clean>>
  BY DEF ToggleRuleActive, loopVars
<1>2. active' \in [Rules -> BOOLEAN]
  <2>1. PICK r \in known, new \in BOOLEAN : active' = [active EXCEPT ![r] = new]
    BY DEF ToggleRuleActive
  <2>2. QED
    BY <2>1, Zenon DEF TypeOK
<1>3. TypeOK'
  BY <1>1, <1>2, Zenon DEF TypeOK
<1>4. QED
  BY <1>1, <1>3 DEF RowsNotFromFuture, UnknownRuleHasNoAlerts, AlertsMirrorResults,
     ReadsOwnStamp, UpsertedCarryStamp

LEMMA LoopStep ==
    ASSUME MirrorInv, ~ClockStepsBack, Loop
    PROVE  MirrorInv'
<1>1. CASE Begin
  <2>1. TypeOK'
    BY <1>1, RulesAssumption DEF MirrorInv, TypeOK, Begin, ruleVars, Rules
  <2>2. QED
    BY <1>1, <2>1, QuietStep DEF Begin, ruleVars
<1>2. CASE StatementFails
  <2>1. TypeOK'
    BY <1>2, ContinueType DEF MirrorInv, TypeOK, StatementFails, ruleVars
  <2>2. QED
    BY <1>2, <2>1, ContinueType, QuietStep DEF MirrorInv, StatementFails, ruleVars
<1>3. CASE Check
  <2>1. TypeOK' /\ pc' \in {"idle", "check", "execute"}
    BY <1>3, ContinueType DEF MirrorInv, TypeOK, Check, ruleVars
  <2>2. QED
    BY <1>3, <2>1, QuietStep DEF Check, ruleVars
<1>4. CASE ExecuteRule
  <2>1. TypeOK'
    BY <1>4 DEF MirrorInv, TypeOK, ExecuteRule, ruleVars
  <2>2. QED
    BY <1>4, <2>1, QuietStep DEF ExecuteRule, ruleVars
<1>5. QED
  BY <1>1, <1>2, <1>3, <1>4, StampStep, ReadStep, UpsertStep, DeleteStep DEF Loop

LEMMA ProcessStep ==
    ASSUME MirrorInv, Boot \/ Crash
    PROVE  MirrorInv'
<1>1. CASE Boot
  <2>1. PICK written \in SUBSET Rules :
            /\ known' = known \cup written
            /\ active' = [r \in Rules |-> r \in written \/ active[r]]
            /\ lastRun' = [r \in Rules |-> IF r \in written THEN 0 ELSE lastRun[r]]
    BY <1>1 DEF Boot, UpsertRuleData
  <2>2. active' \in [Rules -> BOOLEAN]
    BY <2>1, Zenon
  <2>3. known' \subseteq Rules /\ lastRun' \in [Rules -> 0 .. MaxTime]
    BY <2>1, RulesAssumption DEF MirrorInv, TypeOK
  <2>4. TypeOK'
    BY <1>1, <2>2, <2>3 DEF MirrorInv, TypeOK, Boot
  <2>5. QED
    BY <1>1, <2>1, <2>4, QuietStep DEF Boot
<1>2. CASE Crash
  <2>1. TypeOK'
    BY <1>2, RulesAssumption DEF MirrorInv, TypeOK, Crash, ruleVars, Rules, Nothing,
       NotFound
  <2>2. QED
    BY <1>2, <2>1, QuietStep DEF Crash, ruleVars
<1>3. QED
  BY <1>1, <1>2

LEMMA MirrorInit == Init => MirrorInv
<1> SUFFICES ASSUME Init PROVE MirrorInv
  OBVIOUS
<1> USE RulesAssumption DEF Init
<1>1. /\ \A r \in Rules, x \in Resources : alerts[r][x] = NoRow
      /\ \A r \in Rules, x \in Resources : latest[r][x] = "absent"
      /\ NoRow.status = "absent" /\ NoRow.lastSeen = 0
  BY DEF Nothing, NoRow
<1>2. active \in [Rules -> BOOLEAN]
  BY Zenon
<1>3. TypeOK
  BY <1>2, NoRowType DEF TypeOK, Rules, Nothing, NotFound
<1>4. RowsNotFromFuture
  BY <1>1 DEF RowsNotFromFuture
<1>5. QED
  BY <1>1, <1>3, <1>4 DEF MirrorInv, ReadsOwnStamp, UnknownRuleHasNoAlerts,
     UpsertedCarryStamp, AlertsMirrorResults

(* The times of rows and of the execution under way are in such an order   *)
(* that the deletion of older rows deletes exactly the stale ones.         *)
THEOREM MirrorInvariant ==
    ASSUME ~ClockStepsBack
    PROVE  Spec => []MirrorInv
<1>1. MirrorInv /\ UNCHANGED vars => MirrorInv'
  <2> SUFFICES ASSUME MirrorInv, UNCHANGED vars PROVE MirrorInv'
    OBVIOUS
  <2>1. UNCHANGED <<known, active, lastRun, alerts, clock, pc, at, results, rd,
                    latest, clean>>
    BY DEF vars, ruleVars, loopVars
  <2>2. TypeOK'
    BY <2>1, Zenon DEF MirrorInv, TypeOK
  <2>3. QED
    BY <2>1, <2>2 DEF MirrorInv, RowsNotFromFuture, ReadsOwnStamp,
       UnknownRuleHasNoAlerts, UpsertedCarryStamp, AlertsMirrorResults
<1>2. MirrorInv /\ [Next]_vars => MirrorInv'
  BY <1>1, LoopStep, ProcessStep, MuteStep, ToggleStep DEF Next
<1>3. QED
  BY <1>2, MirrorInit, PTL DEF Spec

LEMMA UpsertType ==
    ASSUME TypeOK, UpsertRuleResults
    PROVE  /\ alerts' \in [Rules -> [Resources -> Rows]]
           /\ latest' \in [Rules -> [Resources -> Verdicts \cup {"absent"}]]
<1> USE DEF TypeOK
<1>1. \A x \in Resources : results[x] \in Verdicts \cup {"absent"}
  BY DEF UpsertRuleResults, Nothing
<1>2. (\E x \in Resources : results[x] # "absent") => rd \in 0 .. MaxTime
  BY RulesAssumption DEF UpsertRuleResults, Nothing, NotFound
<1>3. DEFINE New(x) == IF results[x] = "absent" THEN alerts[at][x]
                       ELSE Upserted(alerts[at][x], results[x], rd)
<1>4. \A x \in Resources : New(x) \in Rows
  BY <1>1, <1>2, UpsertedRow
<1>5. alerts' = [alerts EXCEPT ![at] = [x \in Resources |-> New(x)]]
  BY DEF UpsertRuleResults
<1> HIDE DEF New
<1>6. alerts' \in [Rules -> [Resources -> Rows]]
  BY <1>4, <1>5
<1>7. QED
  BY <1>1, <1>6 DEF UpsertRuleResults

(* Every row of rule_data and rule_results keeps its type, whatever the    *)
(* clock does: an upsert without a time of its own writes no row.          *)
THEOREM ResultsTypeCorrect == Spec => []TypeOK
<1>1. Init => TypeOK
  BY MirrorInit DEF MirrorInv
<1>2. ASSUME TypeOK, Next
      PROVE  TypeOK'
  <2> USE <1>2 DEF TypeOK
  <2>1. CASE Boot
    <3>1. PICK written \in SUBSET Rules :
              /\ known' = known \cup written
              /\ active' = [r \in Rules |-> r \in written \/ active[r]]
              /\ lastRun' = [r \in Rules |-> IF r \in written THEN 0 ELSE lastRun[r]]
      BY <2>1 DEF Boot, UpsertRuleData
    <3>2. active' \in [Rules -> BOOLEAN]
      BY <3>1, Zenon
    <3>3. known' \subseteq Rules /\ lastRun' \in [Rules -> 0 .. MaxTime]
      BY <3>1, RulesAssumption
    <3>4. QED
      BY <2>1, <3>2, <3>3 DEF Boot
  <2>2. CASE Crash \/ Begin
    <3>1. /\ pc' \in {"boot", "check"} /\ at' = 1
          /\ results' \in {results, Nothing} /\ rd' \in {rd, NotFound}
          /\ UNCHANGED <<ruleVars, alerts, clock, latest, clean>>
      BY <2>2 DEF Crash, Begin
    <3>2. at' \in Rules /\ NotFound \in 0 .. NotFound
      BY <3>1, RulesAssumption DEF Rules, NotFound
    <3>3. QED
      BY <3>1, <3>2, Zenon DEF ruleVars, Nothing
  <2>3. CASE StatementFails \/ Check
    BY <2>3, ContinueType DEF StatementFails, Check, ruleVars
  <2>4. CASE ExecuteRule
    BY <2>4 DEF ExecuteRule, ruleVars
  <2>5. CASE Stamp
    <3>1. clock' \in 0 .. MaxTime
      BY <2>5, RulesAssumption, ClockAssumption DEF Stamp
    <3>2. QED
      BY <2>5, <3>1 DEF Stamp
  <2>6. CASE Read
    <3>1. rd' \in 0 .. NotFound
      BY <2>6, RulesAssumption DEF Read, NotFound
    <3>2. QED
      BY <2>6, <3>1 DEF Read, ruleVars
  <2>7. CASE UpsertRuleResults
    BY <2>7, UpsertType DEF UpsertRuleResults, ruleVars
  <2>8. CASE DeleteStaleRuleResults
    BY <2>8, ContinueType, DeleteEffect DEF DeleteStaleRuleResults, ruleVars
  <2>9. CASE ToggleRuleActive
    <3>1. PICK r \in known, new \in BOOLEAN : active' = [active EXCEPT ![r] = new]
      BY <2>9 DEF ToggleRuleActive
    <3>2. active' \in [Rules -> BOOLEAN]
      BY <3>1, Zenon
    <3>3. QED
      BY <2>9, <3>2, Zenon DEF ToggleRuleActive, loopVars
  <2>10. CASE ToggleAlertMuted
    BY <2>10, MuteEffect DEF ToggleAlertMuted, ruleVars, loopVars
  <2>11. QED
    BY <1>2, <2>1, <2>2, <2>3, <2>4, <2>5, <2>6, <2>7, <2>8, <2>9, <2>10
       DEF Next, Loop
<1>3. TypeOK /\ UNCHANGED vars => TypeOK'
  <2> SUFFICES ASSUME TypeOK, UNCHANGED vars PROVE TypeOK'
    OBVIOUS
  <2>1. UNCHANGED <<known, active, lastRun, alerts, clock, pc, at, results, rd,
                    latest, clean>>
    BY DEF vars, ruleVars, loopVars
  <2>2. QED
    BY <2>1, Zenon DEF TypeOK
<1>4. QED
  BY <1>1, <1>2, <1>3, PTL DEF Spec

(* The alerts of a rule contain its latest results and, once the stale     *)
(* ones are deleted, nothing else: for any number of rules, resources and  *)
(* executions, whatever fails or stops between the statements.             *)
THEOREM AlertsAreLatestResults ==
    ASSUME ~ClockStepsBack
    PROVE  Spec => []AlertsMirrorResults
BY MirrorInvariant, PTL DEF MirrorInv

-----------------------------------------------------------------------------
(* What becomes of an alert that stays reported.                           *)

(* The upsert of a resource that already has a row keeps the columns the   *)
(* conflict clause leaves out.                                             *)
LEMMA UpsertKeepsRow ==
    ASSUME TypeOK, ReadsOwnStamp, UnknownRuleHasNoAlerts, UpsertRuleResults,
           NEW r \in Rules, NEW x \in Reported(r)
    PROVE  /\ alerts'[r][x].firstSeen = alerts[r][x].firstSeen
           /\ alerts'[r][x].muted = alerts[r][x].muted
           /\ alerts'[r][x].lastSeen \in {alerts[r][x].lastSeen, clock}
<1>1. alerts[r][x] \in Rows /\ alerts[r][x].status # "absent"
  BY DEF TypeOK, Reported
<1>2. alerts[r][x] # NoRow
  BY <1>1 DEF NoRow
<1>3. x \in Resources
  BY DEF Reported
<1>4. CASE r = at /\ results[x] # "absent"
  <2>1. alerts'[r][x] = Upserted(alerts[r][x], results[x], rd)
    BY <1>3, <1>4 DEF UpsertRuleResults, TypeOK
  <2>2. alerts'[r][x] = [alerts[r][x] EXCEPT !.status = results[x], !.lastSeen = rd]
    BY <1>2, <2>1 DEF Upserted
  <2>3. alerts'[r][x].lastSeen = clock
    BY <1>3, <1>4, UpsertEffect
  <2>4. QED
    BY <1>1, <2>2, <2>3 DEF Rows
<1>5. CASE ~(r = at /\ results[x] # "absent")
  BY <1>3, <1>5, UpsertEffect
<1>6. QED
  BY <1>4, <1>5

LEMMA MuteKeepsTimes ==
    ASSUME TypeOK, ToggleAlertMuted
    PROVE  \A r \in Rules, x \in Resources :
              /\ alerts'[r][x].firstSeen = alerts[r][x].firstSeen
              /\ alerts'[r][x].lastSeen = alerts[r][x].lastSeen
<1>1. PICK r \in Rules, new \in BOOLEAN, x \in Resources :
          alerts' = [alerts EXCEPT ![r][x].muted = new]
  BY DEF ToggleAlertMuted, Reported
<1>2. alerts[r][x] \in Rows
  BY DEF TypeOK
<1>3. DEFINE row == [alerts[r][x] EXCEPT !.muted = new]
<1>4. row.firstSeen = alerts[r][x].firstSeen /\ row.lastSeen = alerts[r][x].lastSeen
  BY <1>2 DEF Rows
<1>5. \A s \in Rules, y \in Resources :
          alerts'[s][y] = IF s = r /\ y = x THEN row ELSE alerts[s][y]
  BY <1>1 DEF TypeOK
<1>6. QED
  BY <1>4, <1>5

(* Only three statements write rule_results.                               *)
LEMMA AlertWriters ==
    ASSUME [Next]_vars
    PROVE  \/ UpsertRuleResults
           \/ DeleteStaleRuleResults
           \/ ToggleAlertMuted
           \/ UNCHANGED <<alerts, latest>>
BY DEF Next, Loop, Boot, Crash, Begin, StatementFails, Check, ExecuteRule, Stamp,
   Read, ToggleRuleActive, vars

(* As long as an alert stays reported it keeps the time it was first seen, *)
(* it is never seen earlier than before, and no execution, failed          *)
(* statement or restart of the backend changes whether it is muted.        *)
THEOREM AlertsKeepHistory ==
    ASSUME ~ClockStepsBack
    PROVE  Spec => AlertKeepsHistory
<1> DEFINE Kept(r, x) ==
        /\ alerts'[r][x].firstSeen = alerts[r][x].firstSeen
        /\ alerts'[r][x].lastSeen >= alerts[r][x].lastSeen
        /\ alerts'[r][x].muted # alerts[r][x].muted => ToggleAlertMuted
<1>1. ASSUME MirrorInv, [Next]_vars, NEW r \in Rules,
             NEW x \in Reported(r) \cap Reported(r)'
      PROVE  Kept(r, x)
  <2> USE DEF MirrorInv
  <2>1. x \in Resources /\ alerts[r][x] \in Rows
    BY <1>1 DEF TypeOK, Reported
  <2>2. /\ alerts[r][x].lastSeen \in Nat /\ clock \in Nat
        /\ alerts[r][x].lastSeen <= clock
    BY <1>1, <2>1, RulesAssumption DEF RowsNotFromFuture, TypeOK, Rows
  <2>3. CASE UpsertRuleResults
    BY <1>1, <2>2, <2>3, UpsertKeepsRow
  <2>4. CASE DeleteStaleRuleResults
    <3>1. alerts'[r][x] = alerts[r][x]
      BY <1>1, <2>1, <2>4, DeleteEffect DEF Reported, NoRow
    <3>2. QED
      BY <2>2, <3>1
  <2>5. CASE ToggleAlertMuted
    BY <1>1, <2>1, <2>2, <2>5, MuteKeepsTimes
  <2>6. CASE UNCHANGED <<alerts, latest>>
    BY <2>2, <2>6
  <2>7. QED
    BY <1>1, <2>3, <2>4, <2>5, <2>6, AlertWriters
<1>2. MirrorInv /\ [Next]_vars =>
         [\A r \in Rules : \A x \in Reported(r) \cap Reported(r)' :
             /\ alerts'[r][x].firstSeen = alerts[r][x].firstSeen
             /\ alerts'[r][x].lastSeen >= alerts[r][x].lastSeen
             /\ alerts'[r][x].muted # alerts[r][x].muted => ToggleAlertMuted]_vars
  BY <1>1
<1>3. QED
  BY <1>2, MirrorInvariant, PTL DEF Spec, AlertKeepsHistory

-----------------------------------------------------------------------------
(* The rows, without their times, are an AlertBoard.                       *)

(* A row that is not reported carries nothing: no statement leaves a mute  *)
(* behind for an alert that comes back.                                    *)
AbsentRowsAreBlank ==
    \A r \in Rules, x \in Resources :
        alerts[r][x].status = "absent" => alerts[r][x] = NoRow

LEMMA BlankInvariant ==
    ASSUME ~ClockStepsBack
    PROVE  Spec => []AbsentRowsAreBlank
<1>1. Init => AbsentRowsAreBlank
  BY DEF Init, AbsentRowsAreBlank
<1>2. ASSUME MirrorInv, AbsentRowsAreBlank, [Next]_vars
      PROVE  AbsentRowsAreBlank'
  <2> USE <1>2 DEF MirrorInv, AbsentRowsAreBlank
  <2>1. CASE UpsertRuleResults
    BY <2>1, UpsertEffect
  <2>2. CASE DeleteStaleRuleResults
    BY <2>2, DeleteEffect
  <2>3. CASE ToggleAlertMuted
    <3>1. PICK r \in Rules, new \in BOOLEAN, x \in Resources :
              /\ alerts[r][x].status # "absent"
              /\ alerts' = [alerts EXCEPT ![r][x].muted = new]
      BY <2>3 DEF ToggleAlertMuted, Reported
    <3>2. \A s \in Rules, y \in Resources :
              ~(s = r /\ y = x) => alerts'[s][y] = alerts[s][y]
      BY <3>1 DEF TypeOK
    <3>3. alerts'[r][x].status # "absent"
      BY <2>3, <3>1, MuteEffect
    <3>4. QED
      BY <3>2, <3>3
  <2>4. CASE UNCHANGED <<alerts, latest>>
    BY <2>4
  <2>5. QED
    BY <2>1, <2>2, <2>3, <2>4, AlertWriters
<1>3. QED
  BY <1>1, <1>2, MirrorInvariant, PTL DEF Spec

LEMMA ReportStep ==
    ASSUME MirrorInv, AbsentRowsAreBlank, UpsertRuleResults
    PROVE  Abstract!Report(at)
<1> USE DEF MirrorInv
<1>1. results \in [Resources -> Verdicts \cup {"absent"}] /\ at \in Rules
  BY DEF UpsertRuleResults, Nothing, TypeOK
<1>2. latest' = [latest EXCEPT ![at] = results]
  BY DEF UpsertRuleResults
<1>3. ASSUME NEW x \in Resources, results[x] # "absent"
      PROVE  Board'[at][x] = [Board[at][x] EXCEPT !.verdict = results[x]]
  <2>1. /\ alerts'[at][x] = Upserted(alerts[at][x], results[x], rd)
        /\ alerts[at][x] \in Rows
    BY <1>1, <1>3 DEF UpsertRuleResults, TypeOK
  <2>2. alerts'[at][x].status = results[x]
    BY <1>1, <1>3, UpsertEffect
  <2>3. alerts'[at][x].muted = alerts[at][x].muted
    <3>1. CASE alerts[at][x] = NoRow
      BY <1>3, <2>1, <3>1 DEF Upserted, NoRow
    <3>2. CASE alerts[at][x] # NoRow
      BY <2>1, <3>2 DEF Upserted, Rows
    <3>3. QED
      BY <3>1, <3>2
  <2>4. /\ Board[at][x] = [verdict |-> alerts[at][x].status, muted |-> alerts[at][x].muted]
        /\ Board'[at][x] = [verdict |-> results[x], muted |-> alerts[at][x].muted]
    BY <1>1, <2>2, <2>3 DEF Board
  <2>5. QED
    BY <2>4
<1>4. ASSUME NEW r \in Rules, NEW x \in Resources, ~(r = at /\ results[x] # "absent")
      PROVE  Board'[r][x] = Board[r][x]
  <2>1. alerts'[r][x] = alerts[r][x]
    BY <1>4, UpsertEffect
  <2>2. QED
    BY <2>1 DEF Board
<1>5. Board' = [Board EXCEPT ![at] =
          [x \in Resources |-> IF results[x] = "absent" THEN @[x]
                               ELSE [@[x] EXCEPT !.verdict = results[x]]]]
  <2> DEFINE New == [x \in Resources |->
                        IF results[x] = "absent" THEN Board[at][x]
                        ELSE [Board[at][x] EXCEPT !.verdict = results[x]]]
  <2>1. /\ Board = [r \in Rules |-> Board[r]] /\ Board' = [r \in Rules |-> Board'[r]]
        /\ \A r \in Rules : /\ Board[r] = [x \in Resources |-> Board[r][x]]
                            /\ Board'[r] = [x \in Resources |-> Board'[r][x]]
    BY DEF Board
  <2>2. Board'[at] = New
    BY <1>1, <1>3, <1>4, <2>1
  <2>3. \A r \in Rules \ {at} : Board'[r] = Board[r]
    BY <1>4, <2>1
  <2> HIDE DEF New
  <2>4. Board' = [Board EXCEPT ![at] = New]
    BY <2>1, <2>2, <2>3
  <2>5. QED
    BY <2>4 DEF New
<1>6. QED
  BY <1>1, <1>2, <1>5 DEF Abstract!Report

LEMMA RetireStep ==
    ASSUME MirrorInv, AbsentRowsAreBlank, AbsentRowsAreBlank', DeleteStaleRuleResults
    PROVE  Abstract!Retire(at)
<1>1. MirrorInv' /\ at \in Rules /\ latest' = latest /\ at \in clean'
  BY DeleteStep DEF DeleteStaleRuleResults, MirrorInv, TypeOK
<1>2. ASSUME NEW x \in Resources
      PROVE  Board'[at][x] = IF latest[at][x] = "absent" THEN Abstract!NoAlert
                             ELSE Board[at][x]
  <2>1. alerts'[at][x].status = latest[at][x]
    BY <1>1 DEF MirrorInv, AlertsMirrorResults
  <2>2. CASE latest[at][x] = "absent"
    <3>1. alerts'[at][x] = NoRow
      BY <1>1, <2>1, <2>2 DEF AbsentRowsAreBlank
    <3>2. Board'[at][x] = [verdict |-> NoRow.status, muted |-> NoRow.muted]
      BY <1>1, <3>1 DEF Board
    <3>3. [verdict |-> NoRow.status, muted |-> NoRow.muted] = Abstract!NoAlert
      BY DEF NoRow, Abstract!NoAlert
    <3>4. QED
      BY <2>2, <3>2, <3>3
  <2>3. CASE latest[at][x] # "absent"
    <3>1. alerts'[at][x] = alerts[at][x]
      BY <1>1, <2>1, <2>3, DeleteEffect DEF NoRow, MirrorInv
    <3>2. QED
      BY <1>1, <2>3, <3>1 DEF Board
  <2>4. QED
    BY <2>2, <2>3
<1>3. ASSUME NEW r \in Rules \ {at}, NEW x \in Resources
      PROVE  Board'[r][x] = Board[r][x]
  <2>1. alerts'[r][x] = alerts[r][x]
    BY DeleteEffect DEF MirrorInv
  <2>2. QED
    BY <2>1 DEF Board
<1>4. Board' = [Board EXCEPT ![at] =
          [x \in Resources |-> IF latest[at][x] = "absent" THEN Abstract!NoAlert
                               ELSE @[x]]]
  <2> DEFINE New == [x \in Resources |->
                        IF latest[at][x] = "absent" THEN Abstract!NoAlert
                        ELSE Board[at][x]]
  <2>1. /\ Board = [r \in Rules |-> Board[r]] /\ Board' = [r \in Rules |-> Board'[r]]
        /\ \A r \in Rules : /\ Board[r] = [x \in Resources |-> Board[r][x]]
                            /\ Board'[r] = [x \in Resources |-> Board'[r][x]]
    BY DEF Board
  <2>2. Board'[at] = New
    BY <1>1, <1>2, <2>1
  <2>3. \A r \in Rules \ {at} : Board'[r] = Board[r]
    BY <1>3, <2>1
  <2> HIDE DEF New
  <2>4. Board' = [Board EXCEPT ![at] = New]
    BY <2>1, <2>2, <2>3
  <2>5. QED
    BY <2>4 DEF New
<1>5. QED
  BY <1>1, <1>4 DEF Abstract!Retire

LEMMA UserMuteStep ==
    ASSUME MirrorInv, ToggleAlertMuted
    PROVE  \E r \in Rules, x \in Resources : Abstract!Mute(r, x)
<1>1. PICK r \in Rules, new \in BOOLEAN, x \in Resources :
          /\ alerts[r][x].status # "absent"
          /\ alerts' = [alerts EXCEPT ![r][x].muted = new]
  BY DEF ToggleAlertMuted, Reported
<1>2. alerts[r][x].status # "absent" /\ alerts[r][x] \in Rows
  BY <1>1 DEF MirrorInv, TypeOK
<1>3. Board[r][x] # Abstract!NoAlert
  <2>1. Board[r][x].verdict = alerts[r][x].status
    BY DEF Board
  <2>2. QED
    BY <1>2, <2>1 DEF Abstract!NoAlert
<1>4. \A s \in Rules, y \in Resources :
          alerts'[s][y] = IF s = r /\ y = x THEN [alerts[r][x] EXCEPT !.muted = new]
                          ELSE alerts[s][y]
  BY <1>1, <1>2 DEF MirrorInv, TypeOK
<1>5. \A s \in Rules, y \in Resources :
          Board'[s][y] = IF s = r /\ y = x THEN [Board[r][x] EXCEPT !.muted = new]
                         ELSE Board[s][y]
  <2> SUFFICES ASSUME NEW s \in Rules, NEW y \in Resources
               PROVE  Board'[s][y] = IF s = r /\ y = x
                                     THEN [Board[r][x] EXCEPT !.muted = new]
                                     ELSE Board[s][y]
    OBVIOUS
  <2>1. CASE s = r /\ y = x
    <3>1. /\ alerts'[r][x].status = alerts[r][x].status
          /\ alerts'[r][x].muted = new
      BY <1>2, <1>4, <2>1 DEF Rows
    <3>2. /\ Board[r][x] = [verdict |-> alerts[r][x].status,
                            muted |-> alerts[r][x].muted]
          /\ Board'[r][x] = [verdict |-> alerts[r][x].status, muted |-> new]
      BY <3>1 DEF Board
    <3>3. QED
      BY <2>1, <3>2
  <2>2. CASE ~(s = r /\ y = x)
    <3>1. alerts'[s][y] = alerts[s][y]
      BY <1>4, <2>2
    <3>2. Board'[s][y] = Board[s][y]
      BY <3>1 DEF Board
    <3>3. QED
      BY <2>2, <3>2
  <2>3. QED
    BY <2>1, <2>2
<1>6. Board' = [Board EXCEPT ![r][x].muted = new]
  <2> DEFINE New == [Board[r][x] EXCEPT !.muted = new]
  <2>1. /\ Board = [s \in Rules |-> Board[s]] /\ Board' = [s \in Rules |-> Board'[s]]
        /\ \A s \in Rules : /\ Board[s] = [y \in Resources |-> Board[s][y]]
                            /\ Board'[s] = [y \in Resources |-> Board'[s][y]]
    BY DEF Board
  <2> HIDE DEF New
  <2>2. Board'[r] = [Board[r] EXCEPT ![x] = New]
    BY <1>5, <2>1 DEF New
  <2>3. \A s \in Rules \ {r} : Board'[s] = Board[s]
    BY <1>5, <2>1
  <2>4. Board' = [Board EXCEPT ![r] = [Board[r] EXCEPT ![x] = New]]
    BY <2>1, <2>2, <2>3
  <2>5. QED
    BY <2>4 DEF New
<1>7. latest' = latest
  BY DEF ToggleAlertMuted
<1>8. QED
  BY <1>2, <1>3, <1>6, <1>7 DEF Abstract!Mute

(* The rows of rule_results keep the promise of AlertBoard: a report       *)
(* changes verdicts and adds unmuted alerts, the deletion retires exactly  *)
(* those the latest report lacks, although it only compares times, and     *)
(* nothing but a user's request mutes or unmutes.                          *)
THEOREM ResultsImplementAlertBoard ==
    ASSUME ~ClockStepsBack
    PROVE  Spec => ImplementsAlertBoard
<1>1. Init => Abstract!Init
  BY DEF Init, Abstract!Init, Abstract!NoAlert, Board, NoRow, Nothing
<1>2. ASSUME MirrorInv, AbsentRowsAreBlank, AbsentRowsAreBlank', [Next]_vars
      PROVE  [Abstract!Next]_<<Board, latest>>
  <2>1. at \in Rules
    BY <1>2 DEF MirrorInv, TypeOK
  <2>2. CASE UpsertRuleResults
    BY <1>2, <2>1, <2>2, ReportStep DEF Abstract!Next
  <2>3. CASE DeleteStaleRuleResults
    BY <1>2, <2>1, <2>3, RetireStep DEF Abstract!Next
  <2>4. CASE ToggleAlertMuted
    BY <1>2, <2>4, UserMuteStep DEF Abstract!Next
  <2>5. CASE UNCHANGED <<alerts, latest>>
    BY <2>5 DEF Board
  <2>6. QED
    BY <1>2, <2>2, <2>3, <2>4, <2>5, AlertWriters
<1>3. QED
  BY <1>1, <1>2, MirrorInvariant, BlankInvariant, PTL
     DEF Spec, ImplementsAlertBoard, Abstract!Spec

-----------------------------------------------------------------------------
(***************************************************************************)
(* The display graph. First removeCycles, for every graph, every choice of *)
(* starting nodes and every order of the edges: it leaves no cycle and     *)
(* loses no node. The argument is the usual one of depth-first search: a   *)
(* kept edge leads to a node that is done, or further up the stack, and a  *)
(* node is done only after all that its kept edges lead to. Then the graph *)
(* that is drawn: it shows every path that a query returned, for every     *)
(* choice of the nodes that are compressed away and every answer of the    *)
(* database. The proof starts from what removeCycles guarantees, and       *)
(* follows a path along its drawn edges.                                   *)
(***************************************************************************)

(* What pushing a node on the stack and popping one leave in place.        *)
LEMMA Pushed ==
    ASSUME NEW s \in Seq(Nodes), NEW n \in Nodes
    PROVE  /\ Append(s, n) \in Seq(Nodes)
           /\ Len(Append(s, n)) = Len(s) + 1
           /\ Append(s, n)[Len(s) + 1] = n
           /\ \A i \in 1 .. Len(s) : Append(s, n)[i] = s[i]
  OBVIOUS

LEMMA Popped ==
    ASSUME NEW s \in Seq(Nodes), s # <<>>
    PROVE  /\ SubSeq(s, 1, Len(s) - 1) \in Seq(Nodes)
           /\ Len(s) \in Nat \ {0}
           /\ Len(SubSeq(s, 1, Len(s) - 1)) = Len(s) - 1
           /\ \A i \in 1 .. Len(s) - 1 : SubSeq(s, 1, Len(s) - 1)[i] = s[i]
  <1>1. Len(s) \in Nat \ {0} /\ \A i \in 1 .. Len(s) - 1 : s[i] \in Nodes
    OBVIOUS
  <1> DEFINE m == Len(s) - 1
  <1>2. m \in Nat /\ \A i \in 1 .. m : s[i] \in Nodes
    BY <1>1
  <1>3. SubSeq(s, 1, m) \in Seq(Nodes) /\ Len(SubSeq(s, 1, m)) = m
    <2> HIDE DEF m
    <2> QED
      BY <1>2, SubSeqProperties
  <1>4. ASSUME NEW i \in 1 .. m PROVE SubSeq(s, 1, m)[i] = s[i]
    <2>1. m - 1 + 1 = m /\ 1 + i - 1 = i
      BY <1>2
    <2> QED
      BY <1>1, <1>2, <2>1, SubSeqProperties
  <1> QED
    BY <1>1, <1>3, <1>4

-----------------------------------------------------------------------------
LEMMA InitEstablishes == DfsInit => DfsInv
  <1> SUFFICES ASSUME DfsInit PROVE DfsInv
    OBVIOUS
  <1> USE DEF DfsInit, Begun
  <1>1. DfsTypeOK
    BY InputsAssumption DEF DfsTypeOK
  <1>2. StackIsMarked /\ BeforeIsDone /\ KeptEdgesDescend
    BY DEF StackIsMarked, BeforeIsDone, KeptEdgesDescend
  <1> QED
    BY <1>1, <1>2 DEF DfsInv

(* dfs begins for a node that is not visited, while some edges may have    *)
(* been added to the result that lead from the top of the stack to it.     *)
LEMMA EnterPreserves ==
    ASSUME DfsInv, NEW n \in Nodes, NEW rest, rest \subseteq edges,
           mark[n] = 0, Enter(n, rest),
           kept' \subseteq edges,
           \A e \in kept' : e \in kept \/ (stack # <<>> /\ e[1] = Top /\ e[2] = n),
           UNCHANGED <<edges, starts, before>>
    PROVE  DfsInv'
  <1> USE DEF DfsInv, Enter
  <1>1. DfsTypeOK'
    BY Pushed DEF DfsTypeOK, EdgesOf
  <1>2. /\ Len(stack) \in Nat
        /\ Len(stack') = Len(stack) + 1
        /\ stack'[Len(stack) + 1] = n
        /\ \A i \in 1 .. Len(stack) : stack'[i] = stack[i] /\ stack[i] \in Nodes
    BY Pushed DEF DfsTypeOK
  <1>3. \A m \in Nodes : mark'[m] = IF m = n THEN 1 ELSE mark[m]
    BY DEF DfsTypeOK
  <1>4. \A i \in 1 .. Len(stack) : stack[i] # n
    BY DEF StackIsMarked
  <1>5. StackIsMarked'
    <2>1. \A i \in 1 .. Len(stack') : mark'[stack'[i]] = 1
      BY <1>2, <1>3 DEF StackIsMarked
    <2>2. \A i, j \in 1 .. Len(stack') : stack'[i] = stack'[j] => i = j
      BY <1>2, <1>4 DEF StackIsMarked
    <2>3. ASSUME NEW m \in Nodes, mark'[m] = 1
          PROVE  \E i \in 1 .. Len(stack') : stack'[i] = m
      <3>1. CASE m = n
        BY <3>1, <1>2
      <3>2. CASE m # n
        BY <3>2, <2>3, <1>2, <1>3 DEF StackIsMarked
      <3> QED
        BY <3>1, <3>2
    <2> QED
      BY <2>1, <2>2, <2>3 DEF StackIsMarked
  <1>6. BeforeIsDone'
    BY <1>3 DEF BeforeIsDone, Done, DfsTypeOK
  <1>7. KeptEdgesDescend'
    <2> SUFFICES ASSUME NEW e \in kept'
                 PROVE  \/ /\ mark'[e[1]] = 2
                           /\ e[2] \in before[e[1]]
                           /\ before[e[2]] \subseteq before[e[1]]
                        \/ mark'[e[1]] = 1 /\ mark'[e[2]] = 2
                        \/ OnStackAbove(e[1], e[2])'
      BY DEF KeptEdgesDescend
    <2>1. e[1] \in Nodes /\ e[2] \in Nodes
      BY DEF DfsTypeOK
    <2>2. CASE e \in kept
      <3>1. CASE OnStackAbove(e[1], e[2])
        BY <3>1, <1>2 DEF OnStackAbove
      <3>2. CASE ~OnStackAbove(e[1], e[2])
        BY <3>2, <2>1, <2>2, <1>3 DEF KeptEdgesDescend
      <3> QED
        BY <3>1, <3>2
    <2>3. CASE stack # <<>> /\ e[1] = Top /\ e[2] = n
      <3>1. Len(stack) \in 1 .. Len(stack)
        BY <2>3, Popped DEF DfsTypeOK
      <3>2. OnStackAbove(e[1], e[2])'
        BY <2>3, <3>1, <1>2 DEF OnStackAbove, Top
      <3> QED
        BY <3>2
    <2> QED
      BY <2>2, <2>3
  <1> QED
    BY <1>1, <1>5, <1>6, <1>7

LEMMA StartPreserves == DfsInv /\ Start => DfsInv'
  <1> SUFFICES ASSUME DfsInv, Start PROVE DfsInv'
    OBVIOUS
  <1>1. PICK n \in starts : mark[n] = 0 /\ Enter(n, left)
    BY DEF Start
  <1>2. n \in Nodes /\ left \subseteq edges /\ kept' = kept /\ kept \subseteq edges
    BY DEF DfsInv, DfsTypeOK, Start
  <1> QED
    BY <1>1, <1>2, EnterPreserves DEF Start

LEMMA LookPreserves == DfsInv /\ Look => DfsInv'
  <1> SUFFICES ASSUME DfsInv, Look PROVE DfsInv'
    OBVIOUS
  <1>1. PICK e \in left :
          /\ e[1] = Top
          /\ kept' = IF Keeps(e[2]) THEN kept \cup {e} ELSE kept
          /\ IF mark[e[2]] = 0 THEN Enter(e[2], left \ {e})
                               ELSE left' = left \ {e} /\ UNCHANGED <<mark, stack>>
    BY DEF Look
  <1>2. stack # <<>> /\ UNCHANGED <<edges, starts, before>>
    BY DEF Look
  <1>3. /\ e \in edges /\ e[1] \in Nodes /\ e[2] \in Nodes
        /\ left \ {e} \subseteq edges /\ kept' \subseteq edges
    BY <1>1 DEF DfsInv, DfsTypeOK
  <1>4. CASE mark[e[2]] = 0
    <2>1. Enter(e[2], left \ {e})
      BY <1>1, <1>4
    <2>2. \A f \in kept' : f \in kept \/ (stack # <<>> /\ f[1] = Top /\ f[2] = e[2])
      BY <1>1, <1>2
    <2> QED
      BY <2>1, <2>2, <1>2, <1>3, <1>4, EnterPreserves
  <1>5. CASE mark[e[2]] # 0
    <2>1. UNCHANGED <<mark, stack>> /\ left' = left \ {e}
      BY <1>1, <1>5
    <2>2. DfsTypeOK'
      BY <2>1, <1>2, <1>3 DEF DfsInv, DfsTypeOK
    <2>3. StackIsMarked' /\ BeforeIsDone'
      BY <2>1, <1>2 DEF DfsInv, StackIsMarked, BeforeIsDone, Done
    <2>4. mark[e[1]] = 1
      BY <1>1, <1>2, Popped DEF DfsInv, DfsTypeOK, StackIsMarked, Top
    <2>5. \A f \in kept' : f \in kept \/ (f = e /\ mark[e[2]] = 2)
      BY <1>1, <1>5 DEF Keeps
    <2>6. KeptEdgesDescend'
      BY <2>1, <2>4, <2>5, <1>2 DEF DfsInv, KeptEdgesDescend, OnStackAbove
    <2> QED
      BY <2>2, <2>3, <2>6 DEF DfsInv
  <1> QED
    BY <1>4, <1>5

LEMMA ReturnPreserves == DfsInv /\ Return => DfsInv'
  <1> SUFFICES ASSUME DfsInv, Return PROVE DfsInv'
    OBVIOUS
  <1> USE DEF DfsInv
  <1>1. /\ stack # <<>> /\ UNCHANGED <<edges, starts, kept, left>>
        /\ mark' = [mark EXCEPT ![Top] = 2]
        /\ before' = [before EXCEPT ![Top] = Done]
        /\ stack' = SubSeq(stack, 1, Len(stack) - 1)
    BY DEF Return
  <1>2. /\ Len(stack) \in Nat \ {0}
        /\ stack' \in Seq(Nodes)
        /\ Len(stack') = Len(stack) - 1
        /\ \A i \in 1 .. Len(stack') : stack'[i] = stack[i]
        /\ \A i \in 1 .. Len(stack) : stack[i] \in Nodes
    BY <1>1, Popped DEF DfsTypeOK
  <1>3. Top \in Nodes /\ mark[Top] = 1 /\ Top \notin Done
    BY <1>2 DEF Top, StackIsMarked, Done
  <1>4. \A m \in Nodes : /\ mark'[m] = IF m = Top THEN 2 ELSE mark[m]
                         /\ before'[m] = IF m = Top THEN Done ELSE before[m]
    BY <1>1 DEF DfsTypeOK
  <1>5. DfsTypeOK'
    BY <1>1, <1>2, <1>3 DEF DfsTypeOK, Done
  <1>6. \A i \in 1 .. Len(stack') : i \in 1 .. Len(stack) /\ stack[i] # Top
    BY <1>2 DEF Top, StackIsMarked
  <1>7. StackIsMarked'
    <2>1. \A i \in 1 .. Len(stack') : mark'[stack'[i]] = 1
      BY <1>2, <1>4, <1>6 DEF StackIsMarked
    <2>2. \A i, j \in 1 .. Len(stack') : stack'[i] = stack'[j] => i = j
      BY <1>2, <1>6 DEF StackIsMarked
    <2>3. ASSUME NEW m \in Nodes, mark'[m] = 1
          PROVE  \E i \in 1 .. Len(stack') : stack'[i] = m
      <3>1. m # Top /\ mark[m] = 1
        BY <2>3, <1>4
      <3>2. PICK i \in 1 .. Len(stack) : stack[i] = m
        BY <3>1 DEF StackIsMarked
      <3>3. i \in 1 .. Len(stack')
        BY <3>1, <3>2, <1>2 DEF Top
      <3> QED
        BY <3>2, <3>3, <1>2
    <2> QED
      BY <2>1, <2>2, <2>3 DEF StackIsMarked
  <1>8. Done' = Done \cup {Top}
    BY <1>3, <1>4 DEF Done
  <1>9. BeforeIsDone'
    BY <1>3, <1>4, <1>8 DEF BeforeIsDone
  <1>10. KeptEdgesDescend'
    <2> SUFFICES ASSUME NEW e \in kept
                 PROVE  \/ /\ mark'[e[1]] = 2
                           /\ e[2] \in before'[e[1]]
                           /\ before'[e[2]] \subseteq before'[e[1]]
                        \/ mark'[e[1]] = 1 /\ mark'[e[2]] = 2
                        \/ OnStackAbove(e[1], e[2])'
      BY <1>1 DEF KeptEdgesDescend
    <2>1. e[1] \in Nodes /\ e[2] \in Nodes
      BY DEF DfsTypeOK
    <2>2. CASE /\ mark[e[1]] = 2
               /\ e[2] \in before[e[1]]
               /\ before[e[2]] \subseteq before[e[1]]
      <3>1. e[1] # Top /\ e[2] # Top
        BY <2>1, <2>2, <1>3 DEF BeforeIsDone
      <3> QED
        BY <3>1, <2>1, <2>2, <1>4
    <2>3. CASE mark[e[1]] = 1 /\ mark[e[2]] = 2
      <3>1. e[2] \in Done /\ e[2] # Top /\ before[e[2]] \subseteq Done
        BY <2>1, <2>3, <1>3 DEF Done, BeforeIsDone
      <3> QED
        BY <3>1, <2>1, <2>3, <1>4
    <2>4. CASE OnStackAbove(e[1], e[2])
      <3>1. PICK i, j \in 1 .. Len(stack) : i < j /\ stack[i] = e[1] /\ stack[j] = e[2]
        BY <2>4 DEF OnStackAbove
      <3>2. i \in 1 .. Len(stack') /\ e[1] # Top /\ mark'[e[1]] = 1
        BY <3>1, <2>1, <1>2, <1>4, <1>6 DEF StackIsMarked
      <3>3. CASE j = Len(stack)
        BY <3>1, <3>2, <3>3, <2>1, <1>4 DEF Top
      <3>4. CASE j # Len(stack)
        BY <3>1, <3>2, <3>4, <1>2 DEF OnStackAbove
      <3> QED
        BY <3>3, <3>4
    <2> QED
      BY <2>2, <2>3, <2>4 DEF KeptEdgesDescend
  <1> QED
    BY <1>5, <1>7, <1>9, <1>10

LEMMA DfsStep == DfsInv /\ [DfsNext]_dfsVars => DfsInv'
  <1> SUFFICES ASSUME DfsInv, [DfsNext]_dfsVars PROVE DfsInv'
    OBVIOUS
  <1>1. CASE Start
    BY <1>1, StartPreserves
  <1>2. CASE Look
    BY <1>2, LookPreserves
  <1>3. CASE Return
    BY <1>3, ReturnPreserves
  <1>4. CASE UNCHANGED dfsVars
    BY <1>4 DEF dfsVars, DfsInv, DfsTypeOK, StackIsMarked, BeforeIsDone, Done,
                KeptEdgesDescend, OnStackAbove
  <1> QED
    BY <1>1, <1>2, <1>3, <1>4 DEF DfsNext

(* DfsInv holds in every state of removeCycles: the type of each variable, *)
(* that a node is marked as being visited exactly while dfs is active for  *)
(* it, and the order along the kept edges.                                 *)
THEOREM DfsInvariant == DfsSpec => []DfsInv
  BY DfsStep, InitEstablishes, PTL DEF DfsSpec

(* The variables of removeCycles keep their types; in particular it keeps  *)
(* only edges it was given.                                                *)
THEOREM CyclesTypeCorrect == DfsSpec => []DfsTypeOK
  BY DfsInvariant, PTL DEF DfsInv

LEMMA FinishedDescends == DfsInv => ResultDescends
  <1> SUFFICES ASSUME DfsInv, Finished, NEW e \in kept
               PROVE  before[e[2]] \subseteq before[e[1]] /\ before[e[2]] # before[e[1]]
    BY DEF ResultDescends
  <1>1. e[1] \in Nodes /\ e[2] \in Nodes
    BY DEF DfsInv, DfsTypeOK
  <1>2. Len(stack) = 0
    BY DEF Finished
  <1>3. ~OnStackAbove(e[1], e[2]) /\ mark[e[1]] # 1
    BY <1>1, <1>2 DEF OnStackAbove, DfsInv, StackIsMarked
  <1> QED
    BY <1>1, <1>3 DEF DfsInv, KeptEdgesDescend, BeforeIsDone

(* When removeCycles returns, its graph has no cycle.                      *)
THEOREM NoCycleIsDrawn == DfsSpec => []ResultDescends
  BY FinishedDescends, DfsInvariant, PTL

-----------------------------------------------------------------------------
(* removeCycles loses no node: what the edges led to from the starting     *)
(* nodes, the kept ones lead to. Each visited node is reached by kept      *)
(* edges, and each edge that a call of dfs has looked at leads to a        *)
(* visited node. An edge that is not kept leads to a node that is deeper   *)
(* on the stack, from which kept edges lead back.                          *)

(* Only the nodes that are being visited have edges to look at.            *)
LeftIsOpen == \A e \in left : mark[e[1]] = 1

EdgesAreLookedAt ==
    \A e \in edges :
        mark[e[1]] # 0 /\ e \notin left
            => mark[e[2]] # 0 /\ (e \in kept \/ e[1] \in ReachedFrom({e[2]}, kept))

VisitedAreReached == \A n \in Nodes : mark[n] # 0 => n \in ReachedFrom(starts, kept)

StackIsPath ==
    \A i, j \in 1 .. Len(stack) : i <= j => stack[j] \in ReachedFrom({stack[i]}, kept)

ReachInv == LeftIsOpen /\ EdgesAreLookedAt /\ VisitedAreReached /\ StackIsPath

(* What it means to be reached: the starting nodes are, what an edge leads *)
(* to is, nothing outside a set that no edge leaves is, and with more      *)
(* edges no less is.                                                       *)
LEMMA ReachedBasics ==
    ASSUME NEW S \in SUBSET Nodes, NEW E \in SUBSET (Nodes \X Nodes)
    PROVE  /\ S \subseteq ReachedFrom(S, E)
           /\ \A e \in E : e[1] \in ReachedFrom(S, E) => e[2] \in ReachedFrom(S, E)
           /\ \A C \in SUBSET Nodes :
                 S \subseteq C /\ Closed(C, E) => ReachedFrom(S, E) \subseteq C
           /\ \A F \in SUBSET E : ReachedFrom(S, F) \subseteq ReachedFrom(S, E)
  BY DEF ReachedFrom, Closed

LEMMA InitReached == DfsInit => ReachInv
  BY InputsAssumption
     DEF DfsInit, Begun, ReachInv, LeftIsOpen, EdgesAreLookedAt, VisitedAreReached, StackIsPath

(* The edges that calls have dealt with stay dealt with when more is kept. *)
LEMMA DealtWithStays ==
    ASSUME DfsTypeOK, NEW more \in SUBSET edges, kept \subseteq more, NEW e \in edges,
           e \in kept \/ e[1] \in ReachedFrom({e[2]}, kept)
    PROVE  e \in more \/ e[1] \in ReachedFrom({e[2]}, more)
  <1>1. {e[2]} \in SUBSET Nodes /\ more \in SUBSET (Nodes \X Nodes) /\ kept \in SUBSET more
    BY DEF DfsTypeOK
  <1> QED
    BY <1>1, ReachedBasics

(* dfs begins for a node that the kept edges reach, from the starting      *)
(* nodes and from every node on the stack.                                 *)
LEMMA EnterReaches ==
    ASSUME DfsInv, ReachInv, NEW n \in Nodes, NEW rest \in SUBSET left,
           mark[n] = 0, Enter(n, rest),
           kept \subseteq kept', kept' \subseteq edges,
           \A f \in left \ rest : f \in kept' /\ f[2] = n,
           n \in ReachedFrom(starts, kept'),
           \A i \in 1 .. Len(stack) : n \in ReachedFrom({stack[i]}, kept'),
           UNCHANGED <<edges, starts>>
    PROVE  ReachInv'
  <1> USE DEF DfsInv, ReachInv, Enter
  <1>1. \A m \in Nodes : mark'[m] = IF m = n THEN 1 ELSE mark[m]
    BY DEF DfsTypeOK
  <1>2. /\ edges \subseteq Nodes \X Nodes /\ starts \in SUBSET Nodes
        /\ \A e \in edges : e[1] \in Nodes /\ e[2] \in Nodes
        /\ kept \in SUBSET kept' /\ kept' \in SUBSET (Nodes \X Nodes)
        /\ left \subseteq edges
    BY DEF DfsTypeOK
  <1>3. LeftIsOpen'
    BY <1>1, <1>2 DEF LeftIsOpen, EdgesOf
  <1>4. EdgesAreLookedAt'
    <2> SUFFICES ASSUME NEW e \in edges, mark'[e[1]] # 0, e \notin left'
                 PROVE  mark'[e[2]] # 0 /\ (e \in kept' \/ e[1] \in ReachedFrom({e[2]}, kept'))
      BY DEF EdgesAreLookedAt
    <2>1. e[1] # n /\ mark[e[1]] # 0 /\ e \notin rest
      BY <1>1, <1>2 DEF EdgesOf
    <2>2. CASE e \in left
      BY <1>1, <1>2, <2>1, <2>2
    <2>3. CASE e \notin left
      <3>1. mark[e[2]] # 0 /\ (e \in kept \/ e[1] \in ReachedFrom({e[2]}, kept))
        BY <2>1, <2>3 DEF EdgesAreLookedAt
      <3>2. e \in kept' \/ e[1] \in ReachedFrom({e[2]}, kept')
        BY <3>1, DealtWithStays
      <3> QED
        BY <1>1, <1>2, <3>1, <3>2
    <2> QED
      BY <2>2, <2>3
  <1>5. VisitedAreReached'
    <2>1. ReachedFrom(starts, kept) \subseteq ReachedFrom(starts, kept')
      BY <1>2, ReachedBasics
    <2> QED
      BY <1>1, <2>1 DEF VisitedAreReached
  <1>6. StackIsPath'
    <2>1. /\ Len(stack) \in Nat
          /\ Len(stack') = Len(stack) + 1
          /\ stack'[Len(stack) + 1] = n
          /\ \A i \in 1 .. Len(stack) : stack'[i] = stack[i] /\ stack[i] \in Nodes
      BY Pushed DEF DfsTypeOK
    <2> SUFFICES ASSUME NEW i \in 1 .. Len(stack'), NEW j \in 1 .. Len(stack'), i <= j
                 PROVE  stack'[j] \in ReachedFrom({stack'[i]}, kept')
      BY DEF StackIsPath
    <2>2. CASE j \in 1 .. Len(stack)
      <3>1. i \in 1 .. Len(stack) /\ stack[j] \in ReachedFrom({stack[i]}, kept)
        BY <2>1, <2>2 DEF StackIsPath
      <3>2. {stack[i]} \in SUBSET Nodes
        BY <2>1, <3>1
      <3>3. ReachedFrom({stack[i]}, kept) \subseteq ReachedFrom({stack[i]}, kept')
        BY <1>2, <3>2, ReachedBasics
      <3> QED
        BY <2>1, <2>2, <3>1, <3>3
    <2>3. CASE j = Len(stack) + 1 /\ i \in 1 .. Len(stack)
      BY <2>1, <2>3
    <2>4. CASE j = Len(stack) + 1 /\ i = Len(stack) + 1
      <3>1. {n} \subseteq ReachedFrom({n}, kept')
        BY <1>2, ReachedBasics
      <3> QED
        BY <2>1, <2>4, <3>1
    <2>5. \/ j \in 1 .. Len(stack)
          \/ j = Len(stack) + 1 /\ (i \in 1 .. Len(stack) \/ i = Len(stack) + 1)
      BY <2>1
    <2> QED
      BY <2>2, <2>3, <2>4, <2>5
  <1> QED
    BY <1>3, <1>4, <1>5, <1>6

LEMMA StartReaches == DfsInv /\ ReachInv /\ Start => ReachInv'
  <1> SUFFICES ASSUME DfsInv, ReachInv, Start PROVE ReachInv'
    OBVIOUS
  <1>1. PICK n \in starts : mark[n] = 0 /\ Enter(n, left)
    BY DEF Start
  <1>2. /\ stack = <<>> /\ UNCHANGED <<edges, starts, kept>>
        /\ starts \in SUBSET Nodes /\ kept \in SUBSET (Nodes \X Nodes) /\ kept \subseteq edges
    BY DEF Start, DfsInv, DfsTypeOK
  <1>3. n \in ReachedFrom(starts, kept)
    BY <1>2, ReachedBasics
  <1>4. n \in Nodes /\ left \in SUBSET left /\ left \ left = {} /\ 1 .. Len(stack) = {}
    BY <1>2
  <1> QED
    BY <1>1, <1>2, <1>3, <1>4, EnterReaches

LEMMA LookReaches == DfsInv /\ ReachInv /\ Look => ReachInv'
  <1> SUFFICES ASSUME DfsInv, ReachInv, Look PROVE ReachInv'
    OBVIOUS
  <1> USE DEF DfsInv, ReachInv
  <1>1. PICK e \in left :
          /\ e[1] = Top
          /\ kept' = IF Keeps(e[2]) THEN kept \cup {e} ELSE kept
          /\ IF mark[e[2]] = 0 THEN Enter(e[2], left \ {e})
                               ELSE left' = left \ {e} /\ UNCHANGED <<mark, stack>>
    BY DEF Look
  <1>2. stack # <<>> /\ UNCHANGED <<edges, starts>>
    BY DEF Look
  <1>3. /\ e \in edges /\ e[1] \in Nodes /\ e[2] \in Nodes /\ starts \in SUBSET Nodes
        /\ kept \in SUBSET kept' /\ kept' \subseteq edges /\ kept' \in SUBSET (Nodes \X Nodes)
    BY <1>1 DEF DfsTypeOK
  <1>4. /\ Len(stack) \in Nat \ {0} /\ mark[e[1]] = 1
        /\ \A i \in 1 .. Len(stack) : stack[i] \in Nodes
    BY <1>1, <1>2, Popped DEF DfsTypeOK, StackIsMarked, Top
  <1>5. \A i \in 1 .. Len(stack) : e[1] \in ReachedFrom({stack[i]}, kept)
    BY <1>1, <1>4 DEF StackIsPath, Top
  <1>6. \A i \in 1 .. Len(stack) :
          ReachedFrom({stack[i]}, kept) \subseteq ReachedFrom({stack[i]}, kept')
    <2> TAKE i \in 1 .. Len(stack)
    <2>1. {stack[i]} \in SUBSET Nodes
      BY <1>4
    <2> QED
      BY <2>1, <1>3, ReachedBasics
  <1>7. ReachedFrom(starts, kept) \subseteq ReachedFrom(starts, kept')
    BY <1>3, ReachedBasics
  <1>8. CASE mark[e[2]] = 0
    <2>1. e \in kept'
      BY <1>1, <1>8 DEF Keeps
    <2>2. e[2] \in ReachedFrom(starts, kept')
      <3>1. e[1] \in ReachedFrom(starts, kept')
        BY <1>3, <1>4, <1>7 DEF VisitedAreReached
      <3> QED
        BY <2>1, <3>1, <1>3, ReachedBasics
    <2>3. ASSUME NEW i \in 1 .. Len(stack)
          PROVE  e[2] \in ReachedFrom({stack[i]}, kept')
      <3>1. e[1] \in ReachedFrom({stack[i]}, kept') /\ {stack[i]} \in SUBSET Nodes
        BY <1>4, <1>5, <1>6
      <3> QED
        BY <2>1, <3>1, <1>3, ReachedBasics
    <2>4. Enter(e[2], left \ {e}) /\ left \ {e} \in SUBSET left
      BY <1>1, <1>8
    <2>5. \A f \in left \ (left \ {e}) : f \in kept' /\ f[2] = e[2]
      BY <2>1
    <2> QED
      BY <2>2, <2>3, <2>4, <2>5, <1>2, <1>3, <1>8, EnterReaches
  <1>9. CASE mark[e[2]] # 0
    <2>1. left' = left \ {e} /\ UNCHANGED <<mark, stack>>
      BY <1>1, <1>9
    <2>2. LeftIsOpen'
      BY <2>1 DEF LeftIsOpen
    <2>3. e \in kept' \/ e[1] \in ReachedFrom({e[2]}, kept')
      <3>1. CASE mark[e[2]] = 2
        BY <3>1, <1>1 DEF Keeps
      <3>2. CASE mark[e[2]] = 1
        BY <3>2, <1>3, <1>5, <1>6 DEF StackIsMarked
      <3> QED
        BY <3>1, <3>2, <1>3, <1>9 DEF DfsTypeOK
    <2>4. EdgesAreLookedAt'
      <3> SUFFICES ASSUME NEW f \in edges, mark[f[1]] # 0, f \notin left'
                   PROVE  mark[f[2]] # 0 /\ (f \in kept' \/ f[1] \in ReachedFrom({f[2]}, kept'))
        BY <2>1, <1>2 DEF EdgesAreLookedAt
      <3>1. CASE f = e
        BY <3>1, <2>3, <1>9
      <3>2. CASE f # e
        <4>1. mark[f[2]] # 0 /\ (f \in kept \/ f[1] \in ReachedFrom({f[2]}, kept))
          BY <3>2, <2>1 DEF EdgesAreLookedAt
        <4> QED
          BY <4>1, <1>3, DealtWithStays
      <3> QED
        BY <3>1, <3>2
    <2>5. VisitedAreReached'
      BY <2>1, <1>2, <1>7 DEF VisitedAreReached
    <2>6. StackIsPath'
      BY <2>1, <1>6 DEF StackIsPath
    <2> QED
      BY <2>2, <2>4, <2>5, <2>6
  <1> QED
    BY <1>8, <1>9

LEMMA ReturnReaches == DfsInv /\ ReachInv /\ Return => ReachInv'
  <1> SUFFICES ASSUME DfsInv, ReachInv, Return PROVE ReachInv'
    OBVIOUS
  <1> USE DEF DfsInv, ReachInv
  <1>1. /\ stack # <<>> /\ UNCHANGED <<edges, starts, kept, left>>
        /\ \A e \in left : e[1] # Top
        /\ mark' = [mark EXCEPT ![Top] = 2]
        /\ stack' = SubSeq(stack, 1, Len(stack) - 1)
    BY DEF Return
  <1>2. /\ Len(stack) \in Nat \ {0}
        /\ Len(stack') = Len(stack) - 1
        /\ \A i \in 1 .. Len(stack') : stack'[i] = stack[i] /\ i \in 1 .. Len(stack)
    BY <1>1, Popped DEF DfsTypeOK
  <1>3. mark[Top] = 1
    BY <1>2 DEF Top, StackIsMarked
  <1>4. \A m \in Nodes : mark'[m] = IF m = Top THEN 2 ELSE mark[m]
    BY <1>1 DEF DfsTypeOK
  <1>5. \A e \in edges : e[1] \in Nodes /\ e[2] \in Nodes
    BY DEF DfsTypeOK
  <1>6. LeftIsOpen'
    BY <1>1, <1>4, <1>5 DEF LeftIsOpen, DfsTypeOK
  <1>7. EdgesAreLookedAt'
    <2> SUFFICES ASSUME NEW e \in edges, mark'[e[1]] # 0, e \notin left
                 PROVE  mark'[e[2]] # 0 /\ (e \in kept \/ e[1] \in ReachedFrom({e[2]}, kept))
      BY <1>1 DEF EdgesAreLookedAt
    <2>1. mark[e[1]] # 0
      BY <1>3, <1>4, <1>5
    <2>2. mark[e[2]] # 0 /\ (e \in kept \/ e[1] \in ReachedFrom({e[2]}, kept))
      BY <2>1 DEF EdgesAreLookedAt
    <2> QED
      BY <2>2, <1>4, <1>5
  <1>8. VisitedAreReached'
    BY <1>1, <1>3, <1>4 DEF VisitedAreReached
  <1>9. StackIsPath'
    BY <1>1, <1>2 DEF StackIsPath
  <1> QED
    BY <1>6, <1>7, <1>8, <1>9

LEMMA ReachStep == DfsInv /\ ReachInv /\ [DfsNext]_dfsVars => ReachInv'
  <1> SUFFICES ASSUME DfsInv, ReachInv, [DfsNext]_dfsVars PROVE ReachInv'
    OBVIOUS
  <1>1. CASE UNCHANGED dfsVars
    BY <1>1 DEF dfsVars, ReachInv, LeftIsOpen, EdgesAreLookedAt, VisitedAreReached, StackIsPath
  <1> QED
    BY <1>1, StartReaches, LookReaches, ReturnReaches DEF DfsNext

(* In every state of removeCycles the visited nodes are those that kept    *)
(* edges reach, and what dfs has looked at is visited.                     *)
THEOREM ReachInvariant == DfsSpec => []ReachInv
  BY ReachStep, InitReached, DfsInvariant, PTL DEF DfsSpec

(* When removeCycles returns, dfs has looked at every edge of a visited    *)
(* node, and the visited nodes hold the starting ones.                     *)
LEMMA FinishedLooking ==
    ASSUME DfsInv, ReachInv, Finished
    PROVE  /\ left = {}
           /\ ReachedFrom(starts, edges) \subseteq {n \in Nodes : mark[n] # 0}
  <1> USE DEF DfsInv, ReachInv
  <1>1. /\ starts \in SUBSET Nodes /\ edges \in SUBSET (Nodes \X Nodes)
        /\ \A e \in edges : e[1] \in Nodes /\ e[2] \in Nodes
    BY DEF DfsTypeOK
  <1>2. Len(stack) = 0
    BY DEF Finished
  <1>3. ASSUME NEW n \in Nodes PROVE mark[n] # 1
    <2>1. \A i \in 1 .. Len(stack) : stack[i] # n
      BY <1>2
    <2> QED
      BY <2>1 DEF StackIsMarked
  <1>4. left = {}
    BY <1>1, <1>3 DEF LeftIsOpen, DfsTypeOK
  <1> DEFINE Visited == {n \in Nodes : mark[n] # 0}
  <1>5. starts \subseteq Visited
    BY <1>1 DEF Finished
  <1>6. Closed(Visited, edges)
    BY <1>1, <1>4 DEF EdgesAreLookedAt, Closed
  <1>7. ReachedFrom(starts, edges) \subseteq Visited
    <2> HIDE DEF Visited
    <2>1. Visited \in SUBSET Nodes
      BY DEF Visited
    <2> QED
      BY <2>1, <1>1, <1>5, <1>6, ReachedBasics
  <1> QED
    BY <1>4, <1>7

LEMMA FinishedReaches == DfsInv /\ ReachInv => ResultReachesTheSame
  <1> SUFFICES ASSUME DfsInv, ReachInv, Finished
               PROVE  ReachedFrom(starts, kept) = ReachedFrom(starts, edges)
    BY DEF ResultReachesTheSame
  <1>1. ReachedFrom(starts, kept) \subseteq ReachedFrom(starts, edges)
    <2>1. starts \in SUBSET Nodes /\ edges \in SUBSET (Nodes \X Nodes) /\ kept \in SUBSET edges
      BY DEF DfsInv, DfsTypeOK
    <2> QED
      BY <2>1, ReachedBasics
  <1>2. ReachedFrom(starts, edges) \subseteq ReachedFrom(starts, kept)
    BY FinishedLooking DEF ReachInv, VisitedAreReached
  <1> QED
    BY <1>1, <1>2

(* When removeCycles returns, its graph leads from the starting nodes to   *)
(* exactly the nodes that the graph it was given led to.                   *)
THEOREM NoNodeIsLost == DfsSpec => []ResultReachesTheSame
  BY FinishedReaches, DfsInvariant, ReachInvariant, PTL

(* When removeCycles returns, every edge it left out, of those the         *)
(* starting nodes led to, would have closed a cycle of the edges it kept.  *)
THEOREM OnlyBackEdgesAreLeftOut == DfsSpec => []OnlyCyclesRemoved
  <1>1. DfsInv /\ ReachInv => OnlyCyclesRemoved
    <2> SUFFICES ASSUME DfsInv, ReachInv, Finished, NEW e \in edges \ kept,
                        e[1] \in ReachedFrom(starts, edges)
                 PROVE  e[1] \in ReachedFrom({e[2]}, kept)
      BY DEF OnlyCyclesRemoved
    <2>1. mark[e[1]] # 0 /\ e \notin left
      BY FinishedLooking
    <2> QED
      BY <2>1 DEF ReachInv, EdgesAreLookedAt
  <1> QED
    BY <1>1, DfsInvariant, ReachInvariant, PTL

-----------------------------------------------------------------------------
(* Induction over the natural numbers for a set: a set with 0 that has the *)
(* successor of each of its numbers has them all.                          *)
LEMMA SetInduction ==
    ASSUME NEW T, 0 \in T, \A n \in Nat : n \in T => n + 1 \in T
    PROVE  Nat \subseteq T
  <1> SUFFICES ASSUME Nat \ T # {} PROVE FALSE
    OBVIOUS
  <1>1. \E R : IsWellFoundedOn(R, Nat) /\ \A k, m \in Nat : <<k, m>> \in R <=> k < m
    BY NatLessThanWellFounded DEF OpToRel
  <1>2. PICK R : IsWellFoundedOn(R, Nat) /\ \A k, m \in Nat : <<k, m>> \in R <=> k < m
    BY <1>1
  <1> DEFINE Missing == Nat \ T
  <1>3. PICK m \in Missing : \A k \in Missing : <<k, m>> \notin R
    <2>1. Missing \subseteq Nat /\ Missing # {}
      OBVIOUS
    <2> HIDE DEF Missing
    <2>2. IsWellFoundedOn(R, Nat)
      BY <1>2
    <2> QED
      BY ONLY <2>1, <2>2, WFMin, Zenon
  <1>4. m # 0 /\ m - 1 \in Nat /\ m - 1 + 1 = m /\ m - 1 < m
    BY <1>3
  <1>5. m - 1 \notin T
    BY <1>3, <1>4
  <1> QED
    BY <1>2, <1>3, <1>4, <1>5

-----------------------------------------------------------------------------
(* One turn of the loop of CompressPaths, from the lists of the turns      *)
(* before it.                                                              *)
Turn(path, nodesList, i) ==
    IF i = 0 THEN <<>>
    ELSE IF CompressNodeBool(path[i]) THEN nodesList[i - 1]
    ELSE Append(nodesList[i - 1], path[i])

Turns(path, nodesList, m) == nodesList = [i \in 0 .. m |-> Turn(path, nodesList, i)]

LEMMA LoopGoesOn ==
    ASSUME NEW path, NEW m \in Nat, NEW f, Turns(path, f, m)
    PROVE  \E g : Turns(path, g, m + 1)
  <1> DEFINE g == [i \in 0 .. m + 1 |-> IF i = m + 1 THEN Turn(path, f, m + 1) ELSE f[i]]
  <1>1. \A i \in 0 .. m : g[i] = f[i] /\ f[i] = Turn(path, f, i)
    BY DEF Turns
  <1>2. g[m + 1] = Turn(path, f, m + 1)
    OBVIOUS
  <1>3. g = [i \in 0 .. m + 1 |-> g[i]]
    OBVIOUS
  <1> HIDE DEF g
  <1>4. ASSUME NEW i \in 0 .. m + 1 PROVE g[i] = Turn(path, g, i)
    <2>1. CASE i = 0
      BY <2>1, <1>1 DEF Turn
    <2>2. CASE i # 0
      <3>1. i - 1 \in 0 .. m /\ g[i - 1] = f[i - 1]
        BY <2>2, <1>1
      <3>2. g[i] = Turn(path, f, i)
        BY <2>2, <1>1, <1>2
      <3> QED
        BY <2>2, <3>1, <3>2 DEF Turn
    <2> QED
      BY <2>1, <2>2
  <1> QED
    BY <1>3, <1>4 DEF Turns

LEMMA LoopEnds == \A path, m : m \in Nat => \E f : Turns(path, f, m)
  <1> SUFFICES ASSUME NEW path, NEW n \in Nat PROVE \E f : Turns(path, f, n)
    OBVIOUS
  <1> DEFINE Some == {m \in Nat : \E f : Turns(path, f, m)}
  <1>1. 0 \in Some
    <2>1. Turns(path, [i \in 0 .. 0 |-> <<>>], 0)
      BY DEF Turns, Turn
    <2> QED
      BY <2>1
  <1>2. \A m \in Nat : m \in Some => m + 1 \in Some
    BY LoopGoesOn
  <1> HIDE DEF Some
  <1>3. n \in Some
    BY <1>1, <1>2, SetInduction
  <1> QED
    BY <1>3 DEF Some

(* The loop of CompressPaths yields a list of nodes.                       *)
LEMMA CompressedIsPath ==
    ASSUME NEW path \in Seq(Nodes)
    PROVE  Compressed(path) \in Seq(Nodes)
  <1>1. Len(path) \in Nat /\ \A i \in 1 .. Len(path) : path[i] \in Nodes
    OBVIOUS
  <1> DEFINE d == CHOOSE f : Turns(path, f, Len(path))
  <1>2. Turns(path, d, Len(path))
    BY <1>1, LoopEnds
  <1>3. Compressed(path) = d[Len(path)]
    BY DEF Compressed, Turns, Turn
  <1> HIDE DEF d
  <1>4. \A i \in 0 .. Len(path) : d[i] = Turn(path, d, i)
    BY <1>2 DEF Turns
  <1> DEFINE Lists == {m \in Nat : m <= Len(path) => d[m] \in Seq(Nodes)}
  <1>5. 0 \in Lists
    <2>1. d[0] = <<>>
      BY <1>1, <1>4 DEF Turn
    <2>2. <<>> \in Seq(Nodes)
      OBVIOUS
    <2>3. d[0] \in Seq(Nodes)
      BY <2>1, <2>2, Zenon
    <2> QED
      BY <2>3
  <1>6. ASSUME NEW m \in Nat, m \in Lists PROVE m + 1 \in Lists
    <2> SUFFICES ASSUME m + 1 <= Len(path) PROVE d[m + 1] \in Seq(Nodes)
      OBVIOUS
    <2>1. d[m] \in Seq(Nodes) /\ path[m + 1] \in Nodes
      BY <1>1, <1>6
    <2>2. d[m + 1] = Turn(path, d, m + 1) /\ m + 1 # 0 /\ m + 1 - 1 = m
      BY <1>1, <1>4
    <2> QED
      BY <2>1, <2>2 DEF Turn
  <1>7. Nat \subseteq Lists
    <2> HIDE DEF Lists
    <2> QED
      BY <1>5, <1>6, SetInduction
  <1> QED
    BY <1>1, <1>3, <1>7

-----------------------------------------------------------------------------
(* What ConvertToDisplayGraph hands to removeCycles is a graph.            *)
LEMMA GraphOfPaths ==
    ASSUME NEW list \in PathLists
    PROVE  /\ CompressPaths(list) \subseteq Seq(Nodes)
           /\ AdjacencyList(list) \subseteq Nodes \X Nodes
           /\ StartingNodeIds(list) \subseteq Nodes
  <1>1. \A i \in DOMAIN list : list[i] \in Seq(Nodes)
    BY PathsAssumption
  <1>2. CompressPaths(list) \subseteq Seq(Nodes)
    BY <1>1, CompressedIsPath DEF CompressPaths
  <1>3. ASSUME NEW p \in CompressPaths(list)
        PROVE  \A i \in 1 .. Len(p) - 1 : p[i] \in Nodes /\ p[i + 1] \in Nodes
    BY <1>2
  <1>4. AdjacencyList(list) \subseteq Nodes \X Nodes
    <2> SUFFICES ASSUME NEW e \in AdjacencyList(list) PROVE e \in Nodes \X Nodes
      OBVIOUS
    <2>1. PICK p \in CompressPaths(list) : e \in {<<p[i], p[i + 1]>> : i \in 1 .. Len(p) - 1}
      BY DEF AdjacencyList
    <2> QED
      BY <1>3, <2>1
  <1>5. ASSUME NEW p \in CompressPaths(list), p # <<>> PROVE p[1] \in Nodes
    BY <1>2, <1>5
  <1>6. StartingNodeIds(list) \subseteq Nodes
    BY <1>5 DEF StartingNodeIds
  <1> QED
    BY <1>2, <1>4, <1>6

(* The graph of the call stays the one of the paths.                       *)
GraphIsOfPaths ==
    /\ paths \in PathLists
    /\ edges = AdjacencyList(paths)
    /\ starts = StartingNodeIds(paths)

DisplayInv == GraphIsOfPaths /\ DfsInv /\ ReachInv

LEMMA DisplayInitEstablishes == DisplayInit => DisplayInv
  <1> SUFFICES ASSUME DisplayInit PROVE DisplayInv
    OBVIOUS
  <1> USE DEF DisplayInit, Begun
  <1>1. GraphIsOfPaths
    BY DEF GraphIsOfPaths, ConvertToDisplayGraph
  <1>2. DfsTypeOK
    BY <1>1, GraphOfPaths DEF GraphIsOfPaths, DfsTypeOK
  <1>3. StackIsMarked /\ BeforeIsDone /\ KeptEdgesDescend
    BY DEF StackIsMarked, BeforeIsDone, KeptEdgesDescend
  <1>4. ReachInv
    BY <1>2 DEF ReachInv, LeftIsOpen, EdgesAreLookedAt, VisitedAreReached, StackIsPath, DfsTypeOK
  <1> QED
    BY <1>1, <1>2, <1>3, <1>4 DEF DisplayInv, DfsInv

LEMMA DisplayStep == DisplayInv /\ [DfsNext /\ UNCHANGED paths]_<<dfsVars, paths>> => DisplayInv'
  <1> SUFFICES ASSUME DisplayInv, [DfsNext /\ UNCHANGED paths]_<<dfsVars, paths>> PROVE DisplayInv'
    OBVIOUS
  <1>1. [DfsNext]_dfsVars /\ UNCHANGED paths
    BY DEF dfsVars
  <1>2. UNCHANGED <<edges, starts>>
    BY <1>1 DEF DfsNext, Start, Look, Return, dfsVars
  <1>3. DfsInv' /\ ReachInv'
    BY <1>1, DfsStep, ReachStep DEF DisplayInv
  <1> QED
    BY <1>1, <1>2, <1>3 DEF DisplayInv, GraphIsOfPaths

(* A set that holds the starting nodes and that no drawn edge leaves holds *)
(* every node of every path.                                               *)
LEMMA PathsAreFollowed ==
    ASSUME NEW list \in PathLists, NEW C,
           StartingNodeIds(list) \subseteq C, Closed(C, AdjacencyList(list)),
           NEW p \in CompressPaths(list)
    PROVE  ToSet(p) \subseteq C
  <1>1. p \in Seq(Nodes) /\ Len(p) \in Nat /\ DOMAIN p = 1 .. Len(p)
    BY GraphOfPaths
  <1> DEFINE Followed == {m \in Nat : m + 1 <= Len(p) => p[m + 1] \in C}
  <1>2. 0 \in Followed
    <2>1. 1 <= Len(p) => p # <<>>
      BY <1>1
    <2>2. p # <<>> => p[1] \in StartingNodeIds(list)
      BY DEF StartingNodeIds
    <2> QED
      BY <2>1, <2>2
  <1>3. ASSUME NEW m \in Nat, m \in Followed PROVE m + 1 \in Followed
    <2> SUFFICES ASSUME m + 2 <= Len(p) PROVE p[m + 2] \in C
      OBVIOUS
    <2>1. m + 1 \in 1 .. Len(p) - 1 /\ m + 1 + 1 = m + 2 /\ p[m + 1] \in C
      BY <1>1, <1>3
    <2>2. <<p[m + 1], p[m + 2]>> \in AdjacencyList(list)
      BY <2>1 DEF AdjacencyList
    <2> QED
      BY <2>1, <2>2 DEF Closed
  <1>4. Nat \subseteq Followed
    <2> HIDE DEF Followed
    <2> QED
      BY <1>2, <1>3, SetInduction
  <1>5. ASSUME NEW i \in 1 .. Len(p) PROVE p[i] \in C
    <2>1. i - 1 \in Nat /\ i - 1 + 1 = i /\ i <= Len(p)
      BY <1>1
    <2>2. i - 1 \in Followed
      BY <2>1, <1>4
    <2> QED
      BY <2>1, <2>2
  <1> QED
    BY <1>1, <1>5 DEF ToSet

(* In every state removeCycles works on the graph of the paths, and its    *)
(* own invariants hold.                                                    *)
THEOREM DisplayInvariant == DisplaySpec => []DisplayInv
  BY DisplayInitEstablishes, DisplayStep, PTL DEF DisplaySpec

(* What ConvertToDisplayGraph draws leads from the starting nodes to every *)
(* node of every path that is drawn, and it has no cycle.                  *)
THEOREM PathsAreDrawn == DisplaySpec => [](EveryPathIsFollowed /\ ResultDescends)
  <1>1. DisplayInv => EveryPathIsFollowed
    <2> SUFFICES ASSUME DisplayInv, Finished, NEW p \in CompressPaths(paths)
                 PROVE  ToSet(p) \subseteq ReachedFrom(starts, kept)
      BY DEF EveryPathIsFollowed
    <2>1. /\ starts \in SUBSET Nodes /\ edges \in SUBSET (Nodes \X Nodes)
          /\ paths \in PathLists
          /\ edges = AdjacencyList(paths) /\ starts = StartingNodeIds(paths)
      BY DEF DisplayInv, GraphIsOfPaths, DfsInv, DfsTypeOK
    <2>2. ReachedFrom(starts, kept) = ReachedFrom(starts, edges)
      BY FinishedReaches DEF DisplayInv, ResultReachesTheSame
    <2>3. /\ starts \subseteq ReachedFrom(starts, edges)
          /\ Closed(ReachedFrom(starts, edges), edges)
      BY <2>1, ReachedBasics DEF Closed
    <2> QED
      BY <2>1, <2>2, <2>3, PathsAreFollowed
  <1>2. DisplayInv => ResultDescends
    BY FinishedDescends DEF DisplayInv
  <1> QED
    BY <1>1, <1>2, DisplayInvariant, PTL
=============================================================================
