----------------------------- MODULE RuleResults -----------------------------
(***************************************************************************)
(* What one rule after another does to the tables rule_data and            *)
(* rule_results (src/backend/rules/rules.go and the body of ExecuteRules), *)
(* while users mute alerts and switch rules on and off and while the       *)
(* backend may stop between any two statements. The executions happen      *)
(* under the mutex of ScanPipeline; the handlers do not.                   *)
(*                                                                         *)
(* A rule is its number in rulesToExecute. Its query is any function of    *)
(* the asset graph: a resource it returns has a verdict, one it does not   *)
(* return is "absent", and one it returns in two rows is "twice".          *)
(***************************************************************************)
EXTENDS Naturals

CONSTANTS
    NumRules,       \* the length of rulesToExecute
    Resources,      \* the resources the rules may report
    MaxTime,        \* how often the clock is read: bounds the executions
    ClockStepsBack  \* whether time.Now() may return an earlier time

ASSUME RulesAssumption == NumRules \in Nat \ {0} /\ MaxTime \in Nat
ASSUME ClockAssumption == ClockStepsBack \in BOOLEAN

Rules == 1 .. NumRules
Verdicts == {"failed", "passed"}

VARIABLES
    known,     \* the rules that have a row in rule_data
    active,    \* column active
    lastRun,   \* column last_run; 0 is the zero time of a rule not yet run
    alerts,    \* rule_results: rule, resource -> row, status "absent" if none
    clock,     \* the latest time time.Now() has returned
    pc,        \* where ExecuteRules is in its loop over the rules
    at,        \* the rule it has come to
    results,   \* its local variable results
    rd,        \* its local variable rd: the LastRun of the rule it read, or
               \* NotFound where Find left rd empty
    latest,    \* history: the results of each rule that were upserted last
    clean      \* history: the rules whose stale results were deleted since

ruleVars == <<known, active, lastRun>>
loopVars == <<pc, at, results, rd>>
vars == <<ruleVars, alerts, clock, loopVars, latest, clean>>

NotFound == MaxTime + 1
Nothing == [x \in Resources |-> "absent"]
NoRow == [status |-> "absent", firstSeen |-> 0, lastSeen |-> 0, muted |-> FALSE]
Rows == [status : Verdicts \cup {"absent"}, firstSeen : 0 .. MaxTime,
         lastSeen : 0 .. MaxTime, muted : BOOLEAN]

TypeOK ==
    /\ known \subseteq Rules
    /\ active \in [Rules -> BOOLEAN]
    /\ lastRun \in [Rules -> 0 .. MaxTime]
    /\ alerts \in [Rules -> [Resources -> Rows]]
    /\ clock \in 0 .. MaxTime
    /\ pc \in {"boot", "idle", "check", "execute", "stamp", "read", "upsert", "delete"}
    /\ at \in Rules
    /\ results \in [Resources -> Verdicts \cup {"absent", "twice"}]
    /\ rd \in 0 .. NotFound
    /\ latest \in [Rules -> [Resources -> Verdicts \cup {"absent"}]]
    /\ clean \subseteq Rules

Reported(r) == {x \in Resources : alerts[r][x].status # "absent"}

-----------------------------------------------------------------------------
Init ==
    /\ known = {}
    /\ active = [r \in Rules |-> TRUE]
    /\ lastRun = [r \in Rules |-> 0]
    /\ alerts = [r \in Rules |-> [x \in Resources |-> NoRow]]
    /\ clock = 0
    /\ pc = "boot" /\ at = 1 /\ results = Nothing /\ rd = NotFound
    /\ latest = [r \in Rules |-> Nothing]
    /\ clean = {}

(* UpsertRuleData for every rule: the row is written anew, switched on and *)
(* with no last_run. A rule whose statement fails keeps the row it had.    *)
UpsertRuleData ==
    \E written \in SUBSET Rules :
        /\ known' = known \cup written
        /\ active' = [r \in Rules |-> r \in written \/ active[r]]
        /\ lastRun' = [r \in Rules |-> IF r \in written THEN 0 ELSE lastRun[r]]

Boot ==
    /\ pc = "boot"
    /\ UpsertRuleData
    /\ pc' = "idle"
    /\ UNCHANGED <<alerts, clock, at, results, rd, latest, clean>>

Crash ==
    /\ pc # "boot"
    /\ pc' = "boot" /\ at' = 1 /\ results' = Nothing /\ rd' = NotFound
    /\ UNCHANGED <<ruleVars, alerts, clock, latest, clean>>

-----------------------------------------------------------------------------
(* The loop over the rules. Any statement may fail: the error is logged    *)
(* and the loop continues with the next rule.                              *)

Begin ==
    /\ pc = "idle"
    /\ pc' = "check" /\ at' = 1
    /\ UNCHANGED <<ruleVars, alerts, clock, results, rd, latest, clean>>

(* Mutant: the loop does not stop after its last rule.                     *)
ContinuePastEnd ==
    /\ IF at > NumRules THEN pc' = "idle" /\ at' = 1
                        ELSE pc' = "check" /\ at' = at + 1
    /\ results' = Nothing /\ rd' = NotFound

Continue ==
    /\ IF at = NumRules THEN pc' = "idle" /\ at' = 1
                        ELSE pc' = "check" /\ at' = at + 1
    /\ results' = Nothing /\ rd' = NotFound

StatementFails ==
    /\ pc \in {"check", "execute", "stamp", "read", "upsert", "delete"}
    /\ Continue
    /\ UNCHANGED <<ruleVars, alerts, clock, latest, clean>>

(* A rule without a row counts as active.                                  *)
IsRuleActive(r) == ~(r \in known /\ ~active[r])

Check ==
    /\ pc = "check"
    /\ \/ IsRuleActive(at) /\ pc' = "execute" /\ UNCHANGED <<at, results, rd>>
       \/ ~IsRuleActive(at) /\ Continue
    /\ UNCHANGED <<ruleVars, alerts, clock, latest, clean>>

ExecuteRule ==
    /\ pc = "execute"
    /\ results' \in [Resources -> Verdicts \cup {"absent", "twice"}]
    /\ pc' = "stamp"
    /\ UNCHANGED <<ruleVars, alerts, clock, at, rd, latest, clean>>

(* last_run = time.Now(): no two readings of the clock are equal, and they *)
(* increase unless the clock of the host is set back.                      *)
Stamp ==
    /\ pc = "stamp"
    /\ clock' \in IF ClockStepsBack THEN 1 .. MaxTime
                                    ELSE (clock + 1) .. MaxTime
    /\ lastRun' = [r \in Rules |-> IF r = at /\ r \in known THEN clock' ELSE lastRun[r]]
    /\ pc' = "read"
    /\ UNCHANGED <<known, active, alerts, at, results, rd, latest, clean>>

Read ==
    /\ pc = "read"
    /\ rd' = IF at \in known THEN lastRun[at] ELSE NotFound
    /\ pc' = "upsert"
    /\ UNCHANGED <<ruleVars, alerts, clock, at, results, latest, clean>>

(* Mutant: the conflict clause updates every column.                       *)
UpsertedAllColumns(row, verdict, now) ==
    [status |-> verdict, firstSeen |-> now, lastSeen |-> now, muted |-> FALSE]

(* INSERT ... ON CONFLICT (rule_data_uid, resource_id) DO UPDATE of every  *)
(* column but first_seen and muted.                                        *)
Upserted(row, verdict, now) ==
    IF row = NoRow
    THEN [status |-> verdict, firstSeen |-> now, lastSeen |-> now, muted |-> FALSE]
    ELSE [row EXCEPT !.status = verdict, !.lastSeen = now]

(* UpsertRuleResults: one statement for all results. The database refuses  *)
(* it if a resource occurs twice, or if the rule has no row in rule_data   *)
(* (foreign key); StatementFails is then the only step.                    *)
UpsertRuleResults ==
    /\ pc = "upsert"
    /\ results # Nothing => rd # NotFound /\ \A x \in Resources : results[x] # "twice"
    /\ alerts' = [alerts EXCEPT ![at] =
          [x \in Resources |-> IF results[x] = "absent" THEN @[x]
                               ELSE Upserted(@[x], results[x], rd)]]
    /\ latest' = [latest EXCEPT ![at] = results]
    /\ clean' = clean \ {at}
    /\ pc' = "delete"
    /\ UNCHANGED <<ruleVars, clock, at, results, rd>>

(* Mutant: the comparison of times is not strict.                          *)
StaleOrSeenNow(row) == row.lastSeen <= rd

Stale(row) == row.lastSeen < rd

(* Mutant: the statement has lost its rule_data_uid.                       *)
DeleteOfEveryRule ==
    /\ pc = "delete"
    /\ alerts' = [r \in Rules |->
          [x \in Resources |-> IF rd # NotFound /\ Stale(alerts[r][x]) THEN NoRow
                               ELSE alerts[r][x]]]
    /\ clean' = clean \cup {at}
    /\ Continue
    /\ UNCHANGED <<ruleVars, clock, latest>>

(* DeleteStaleRuleResults. With an empty rd the statement names no rule.   *)
DeleteStaleRuleResults ==
    /\ pc = "delete"
    /\ alerts' = [alerts EXCEPT ![at] =
          [x \in Resources |-> IF rd # NotFound /\ Stale(@[x]) THEN NoRow ELSE @[x]]]
    /\ clean' = clean \cup {at}
    /\ Continue
    /\ UNCHANGED <<ruleVars, clock, latest>>

Loop ==
    \/ Begin \/ StatementFails
    \/ Check \/ ExecuteRule \/ Stamp \/ Read
    \/ UpsertRuleResults \/ DeleteStaleRuleResults

-----------------------------------------------------------------------------
(* The handlers: one statement each; without a row they answer 400.        *)

ToggleRuleActive ==
    /\ pc # "boot"
    /\ \E r \in known, new \in BOOLEAN : active' = [active EXCEPT ![r] = new]
    /\ UNCHANGED <<known, lastRun, alerts, clock, loopVars, latest, clean>>

ToggleAlertMuted ==
    /\ pc # "boot"
    /\ \E r \in Rules, new \in BOOLEAN : \E x \in Reported(r) :
           alerts' = [alerts EXCEPT ![r][x].muted = new]
    /\ UNCHANGED <<ruleVars, clock, loopVars, latest, clean>>

Next == Boot \/ Crash \/ Loop \/ ToggleRuleActive \/ ToggleAlertMuted

Spec == Init /\ [][Next]_vars

-----------------------------------------------------------------------------
(* Safety.                                                                 *)

(* The alerts of a rule contain its latest results with their verdicts,    *)
(* and once the stale ones have been deleted they contain nothing else.    *)
(* The deletion knows the stale rows only by a comparison of times, after  *)
(* failures, crashes and executions that stopped between the statements.   *)
AlertsMirrorResults ==
    \A r \in Rules, x \in Resources :
        /\ latest[r][x] # "absent" => alerts[r][x].status = latest[r][x]
        /\ r \in clean => alerts[r][x].status = latest[r][x]

(* Why this holds while the clock only advances. Before the upsert all     *)
(* rows are older than the time of this execution; after it, exactly the   *)
(* rows of the results carry that time.                                    *)
RowsNotFromFuture ==
    \A r \in Rules, x \in Resources :
        /\ alerts[r][x].lastSeen <= clock
        /\ pc \in {"read", "upsert"} => alerts[r][x].lastSeen < clock

ReadsOwnStamp ==
    /\ pc = "read" /\ at \in known => lastRun[at] = clock
    /\ pc \in {"upsert", "delete"} => rd = IF at \in known THEN clock ELSE NotFound

UnknownRuleHasNoAlerts ==
    \A r \in Rules \ known, x \in Resources :
        alerts[r][x].status = "absent" /\ latest[r][x] = "absent"

UpsertedCarryStamp ==
    pc = "delete" =>
        /\ latest[at] = results
        /\ \A x \in Resources : at \in known =>
              (results[x] # "absent" <=> alerts[at][x].lastSeen = clock)

MirrorInv ==
    /\ TypeOK
    /\ RowsNotFromFuture
    /\ ReadsOwnStamp
    /\ UnknownRuleHasNoAlerts
    /\ UpsertedCarryStamp
    /\ AlertsMirrorResults

(* As long as an alert is reported it keeps the time it was first seen,    *)
(* and its mute changes only in ToggleAlertMuted: executions, failures and *)
(* restarts of the backend do not unmute it. lastSeen never goes back.     *)
AlertKeepsHistory ==
    [][\A r \in Rules : \A x \in Reported(r) \cap Reported(r)' :
          /\ alerts'[r][x].firstSeen = alerts[r][x].firstSeen
          /\ alerts'[r][x].lastSeen >= alerts[r][x].lastSeen
          /\ alerts'[r][x].muted # alerts[r][x].muted => ToggleAlertMuted]_vars

(* The row of a known rule gets another last_run only from a run of the    *)
(* rule. UpsertRuleData writes it anew without one, so a restart forgets   *)
(* when the rules were run.                                                *)
LastRunIsOfARun ==
    [][\A r \in known : lastRun'[r] # lastRun[r] => Stamp]_vars

(* The promise to the reader of the alerts, without times.                 *)
Board ==
    [r \in Rules |-> [x \in Resources |->
        [verdict |-> alerts[r][x].status, muted |-> alerts[r][x].muted]]]

Abstract == INSTANCE AlertBoard WITH board <- Board

ImplementsAlertBoard == Abstract!Spec
=============================================================================
