---------------------------- MODULE ScanPipeline ----------------------------
(***************************************************************************)
(* The scan pipeline of the ZeusCloud backend (src/backend/control): the   *)
(* account_details table, the goroutine CartographyExecutionLoop that has  *)
(* accounts scanned one at a time, the goroutine ExecuteRules that         *)
(* evaluates the rules on what was scanned, the mutex both loops take, the *)
(* HTTP handlers that change the table without taking it, and the external *)
(* cartography server that runs the scans.                                 *)
(*                                                                         *)
(* Every database statement and every HTTP call is a step of its own, so   *)
(* that handlers, the other loop, the server and a crash of the backend    *)
(* fall between any two of them.                                           *)
(***************************************************************************)
EXTENDS Naturals, Sequences

CONSTANTS
    Accounts,   \* the account names users may register
    NoAccount,  \* the value of "no account"
    NumRules,   \* the length of rulesToExecute
    Limits,     \* how many faults, crashes and requests of each kind occur
    Timely      \* whether the loops' sleeps keep their relative lengths

Kinds == {"db", "http", "job", "rule", "crash", "restart", "request", "delete"}

ASSUME NoAccountAssumption == NoAccount \notin Accounts
ASSUME NumRulesAssumption == NumRules \in Nat
ASSUME LimitsAssumption == Limits \in [Kinds -> Nat]
ASSUME TimelyAssumption == Timely \in BOOLEAN

VARIABLES
    status,     \* column scan_status; "NONE" where the account has no row
    completed,  \* column last_scan_completed is not null
    holder,     \* the loop that holds ExecuteRulesMutex, or "nobody"
    cartPc,     \* where CartographyExecutionLoop is
    account,    \* its local variable account
    scanStatus, \* the monitor's local variable scanStatus
    reply,      \* the monitor's local variable sr.Status
    rulesPc,    \* where ExecuteRules is
    rulesLeft,  \* how many rules the current execution still has to run
    ruleErrors, \* history: how many rules of this execution ended in an error
    jobs,       \* server: the rows whose jobs are queued or running, in order
    report,     \* server: how the last job ended, or "READY"
    outcome,    \* history: the fate of the latest job started for each row
    budget      \* the faults, crashes and requests still to come

tableVars == <<status, completed>>
cartVars == <<cartPc, account, scanStatus, reply>>
rulesVars == <<rulesPc, rulesLeft, ruleErrors>>
serverVars == <<jobs, report>>
vars == <<tableVars, holder, cartVars, rulesVars, serverVars, outcome, budget>>

JobStatuses == {"READY", "RUNNING", "CARTOGRAPHY_PASSED", "FAILED"}
Statuses == JobStatuses \cup {"RULES_RUNNING", "PASSED", "NONE"}
Terminal == {"CARTOGRAPHY_PASSED", "FAILED"}
(* Mutants: a reset that forgets rows waiting for rules, or failed rows.   *)
ResetNotRules == {"RUNNING", "FAILED", "CARTOGRAPHY_PASSED"}
ResetNotFailed == {"RULES_RUNNING", "RUNNING", "CARTOGRAPHY_PASSED"}

ResetStatuses == {"RULES_RUNNING", "RUNNING", "FAILED", "CARTOGRAPHY_PASSED"}
Outcomes == {"none", "started", "lost", "CARTOGRAPHY_PASSED", "FAILED"}

CartCritical == {"reset", "pick", "start", "poll", "write", "stamp", "promote"}
RulesCritical == {"check", "rules"}

TypeOK ==
    /\ status \in [Accounts -> Statuses]
    /\ completed \in [Accounts -> BOOLEAN]
    /\ holder \in {"nobody", "cart", "rules"}
    /\ cartPc \in {"boot", "sleep", "lock"} \cup CartCritical
    /\ account \in Accounts \cup {NoAccount}
    /\ scanStatus \in JobStatuses
    /\ reply \in JobStatuses
    /\ rulesPc \in {"boot", "sleep", "lock"} \cup RulesCritical
    /\ rulesLeft \in 0 .. NumRules
    /\ ruleErrors \in Nat
    /\ jobs \in Seq(Accounts \cup {NoAccount})
    /\ report \in JobStatuses \ {"RUNNING"}
    /\ outcome \in [Accounts -> Outcomes]
    /\ budget \in [Kinds -> Nat]

Registered == {a \in Accounts : status[a] # "NONE"}
WithStatus(s) == {a \in Accounts : status[a] = s}

(* An event of kind k happens: a fault, a crash or a request of a user.    *)
Spend(k) ==
    /\ budget[k] > 0
    /\ budget' = [budget EXCEPT ![k] = @ - 1]

(* UPDATE account_details SET scan_status = new WHERE scan_status IN (old).*)
Move(old, new) ==
    status' = [a \in Accounts |-> IF status[a] \in old THEN new ELSE status[a]]

-----------------------------------------------------------------------------
(* The process starts and, until main has launched both loops, is at       *)
(* "boot". The table is empty at the very first start.                     *)

Init ==
    /\ status = [a \in Accounts |-> "NONE"]
    /\ completed = [a \in Accounts |-> FALSE]
    /\ holder = "nobody"
    /\ cartPc = "boot" /\ rulesPc = "boot"
    /\ account = NoAccount
    /\ scanStatus = "READY" /\ reply = "READY"
    /\ rulesLeft = 0 /\ ruleErrors = 0
    /\ jobs = <<>> /\ report = "READY"
    /\ outcome = [a \in Accounts |-> "none"]
    /\ budget = Limits

(* ResetCartographyStatus: what a scan left unfinished is to be redone.    *)
ResetCartographyStatus == Move(ResetStatuses, "READY")

(* main resets the statuses, logs an error of that and launches the loops. *)
Boot ==
    /\ cartPc = "boot"
    /\ \/ ResetCartographyStatus /\ UNCHANGED budget
       \/ Spend("db") /\ UNCHANGED status
    /\ cartPc' = "sleep" /\ rulesPc' = "sleep"
    /\ UNCHANGED <<completed, holder, account, scanStatus, reply, rulesLeft,
                   ruleErrors, serverVars, outcome>>

(* The backend process dies: the table and the server outlive it.          *)
Crash ==
    /\ cartPc # "boot"
    /\ Spend("crash")
    /\ cartPc' = "boot" /\ rulesPc' = "boot"
    /\ holder' = "nobody"
    /\ account' = NoAccount /\ scanStatus' = "READY" /\ reply' = "READY"
    /\ rulesLeft' = 0 /\ ruleErrors' = 0
    /\ UNCHANGED <<tableVars, serverVars, outcome>>

-----------------------------------------------------------------------------
(* The mutex. Where Timely, a five-second sleep does not end before a loop *)
(* blocked on a free mutex has taken it: the Go runtime hands a mutex to a *)
(* goroutine that has been waiting for more than a millisecond.            *)

LockIsFree == holder = "nobody"

CartWake ==
    /\ cartPc = "sleep"
    /\ Timely => ~(LockIsFree /\ rulesPc = "lock")
    /\ cartPc' = "lock"
    /\ UNCHANGED <<tableVars, holder, account, scanStatus, reply, rulesVars,
                   serverVars, outcome, budget>>

CartLock ==
    /\ cartPc = "lock" /\ LockIsFree
    /\ cartPc' = "reset" /\ holder' = "cart"
    /\ UNCHANGED <<tableVars, account, scanStatus, reply, rulesVars,
                   serverVars, outcome, budget>>

(* ExecuteRulesMutex.Unlock() and the next time.Sleep of the loop.         *)
CartUnlock ==
    /\ cartPc' = "sleep" /\ holder' = "nobody"
    /\ account' = NoAccount /\ scanStatus' = "READY" /\ reply' = "READY"

RulesWake ==
    /\ rulesPc = "sleep"
    /\ Timely => ~(LockIsFree /\ cartPc = "lock")
    /\ rulesPc' = "lock"
    /\ UNCHANGED <<tableVars, holder, cartVars, rulesLeft, ruleErrors,
                   serverVars, outcome, budget>>

RulesLock ==
    /\ rulesPc = "lock" /\ LockIsFree
    /\ rulesPc' = "check" /\ holder' = "rules"
    /\ UNCHANGED <<tableVars, cartVars, rulesLeft, ruleErrors, serverVars,
                   outcome, budget>>

RulesUnlock ==
    /\ rulesPc' = "sleep" /\ holder' = "nobody"
    /\ rulesLeft' = 0 /\ ruleErrors' = 0

-----------------------------------------------------------------------------
(* CartographyExecutionLoop.                                               *)

CartReset ==
    /\ cartPc = "reset"
    /\ \/ /\ ResetCartographyStatus
          /\ cartPc' = "pick"
          /\ UNCHANGED <<holder, account, scanStatus, reply, budget>>
       \/ Spend("db") /\ CartUnlock /\ UNCHANGED status
    /\ UNCHANGED <<completed, rulesVars, serverVars, outcome>>

(* Mutant: the early return on an empty queue forgets to unlock.           *)
PickKeepsMutex ==
    /\ cartPc = "pick"
    /\ \/ /\ account' \in WithStatus("READY")
          /\ cartPc' = "start"
          /\ UNCHANGED <<holder, scanStatus, reply, budget>>
       \/ /\ WithStatus("READY") = {}
          /\ cartPc' = "sleep"
          /\ UNCHANGED <<holder, account, scanStatus, reply, budget>>
    /\ UNCHANGED <<tableVars, rulesVars, serverVars, outcome>>

(* getAccountReadyToBeScanned: some READY row, in no order.                *)
CartPick ==
    /\ cartPc = "pick"
    /\ \/ /\ account' \in WithStatus("READY")
          /\ cartPc' = "start"
          /\ UNCHANGED <<holder, scanStatus, reply, budget>>
       \/ WithStatus("READY") = {} /\ CartUnlock /\ UNCHANGED budget
       \/ Spend("db") /\ CartUnlock
    /\ UNCHANGED <<tableVars, rulesVars, serverVars, outcome>>

(* The server takes the job. The row may have been deleted since the pick. *)
Accept ==
    /\ jobs' = Append(jobs, IF account \in Registered THEN account ELSE NoAccount)
    /\ outcome' = [a \in Accounts |-> IF a = account /\ a \in Registered
                                      THEN "started" ELSE outcome[a]]

(* StartCartographyJob: the job is taken and the monitor begins, or it is  *)
(* taken but the answer is lost, or it is refused. A server that is still  *)
(* busy with a job started before a crash may refuse any number of times.  *)
CartStart ==
    /\ cartPc = "start"
    /\ \/ /\ Accept
          /\ cartPc' = "poll" /\ scanStatus' = "READY"
          /\ UNCHANGED <<holder, account, reply, budget>>
       \/ Spend("http") /\ CartUnlock /\ Accept
       \/ Spend("http") /\ CartUnlock /\ UNCHANGED <<jobs, outcome>>
       \/ jobs # <<>> /\ CartUnlock /\ UNCHANGED <<jobs, outcome, budget>>
    /\ UNCHANGED <<tableVars, rulesVars, report>>

(* What /get_status answers; it is asked of the server, not of an account. *)
GetScanStatus == IF jobs # <<>> THEN "RUNNING" ELSE report

(* Mutant: the monitor polls sooner than ExecuteRules can wake up.         *)
PollAtOnce ==
    /\ cartPc = "poll"
    /\ reply' = GetScanStatus
    /\ cartPc' = IF reply' # scanStatus THEN "write" ELSE "poll"
    /\ UNCHANGED <<tableVars, holder, account, scanStatus, rulesVars,
                   serverVars, outcome, budget>>

(* monitorCartographyJobStatusLoop polls after each ten-second sleep.      *)
(* Where Timely, that sleep outlasts a five-second sleep of ExecuteRules,  *)
(* which cannot begin another one while this loop holds the mutex.         *)
CartPoll ==
    /\ cartPc = "poll"
    /\ Timely => rulesPc # "sleep"
    /\ \/ /\ reply' = GetScanStatus
          /\ cartPc' = IF reply' # scanStatus THEN "write" ELSE "poll"
          /\ UNCHANGED budget
       \/ Spend("http") /\ UNCHANGED <<cartPc, reply>>
    /\ UNCHANGED <<tableVars, holder, account, scanStatus, rulesVars,
                   serverVars, outcome>>

(* Mutant: the update has lost its WHERE account_name.                     *)
WriteEveryRow ==
    /\ cartPc = "write"
    /\ status' = [a \in Accounts |-> IF a \in Registered THEN reply ELSE "NONE"]
    /\ scanStatus' = reply
    /\ cartPc' = CASE reply = "FAILED" -> "stamp"
                   [] reply = "CARTOGRAPHY_PASSED" -> "promote"
                   [] OTHER -> "poll"
    /\ UNCHANGED <<completed, holder, account, reply, rulesVars, serverVars,
                   outcome, budget>>

(* The row of that name takes the server's status; the loop ends on a      *)
(* terminal one. An update of a deleted row affects nothing and succeeds.  *)
CartWrite ==
    /\ cartPc = "write"
    /\ \/ /\ status' = [a \in Accounts |-> IF a = account /\ a \in Registered
                                           THEN reply ELSE status[a]]
          /\ scanStatus' = reply
          /\ cartPc' = CASE reply = "FAILED" -> "stamp"
                         [] reply = "CARTOGRAPHY_PASSED" -> "promote"
                         [] OTHER -> "poll"
          /\ UNCHANGED budget
       \/ Spend("db") /\ cartPc' = "poll" /\ UNCHANGED <<status, scanStatus>>
    /\ UNCHANGED <<completed, holder, account, reply, rulesVars, serverVars,
                   outcome>>

(* After a failed job last_scan_completed is set; an error is only logged. *)
CartStamp ==
    /\ cartPc = "stamp"
    /\ \/ /\ completed' = [a \in Accounts |-> IF a = account /\ a \in Registered
                                              THEN TRUE ELSE completed[a]]
          /\ UNCHANGED budget
       \/ Spend("db") /\ UNCHANGED completed
    /\ cartPc' = "promote"
    /\ UNCHANGED <<status, holder, account, scanStatus, reply, rulesVars,
                   serverVars, outcome>>

(* Mutant: the rules are run for failed scans, too.                        *)
PromoteFailed ==
    /\ cartPc = "promote"
    /\ Move(Terminal, "RULES_RUNNING")
    /\ CartUnlock
    /\ UNCHANGED <<completed, rulesVars, serverVars, outcome, budget>>

(* Every CARTOGRAPHY_PASSED row becomes RULES_RUNNING.                     *)
CartPromote ==
    /\ cartPc = "promote"
    /\ \/ Move({"CARTOGRAPHY_PASSED"}, "RULES_RUNNING") /\ UNCHANGED budget
       \/ Spend("db") /\ UNCHANGED status
    /\ CartUnlock
    /\ UNCHANGED <<completed, rulesVars, serverVars, outcome>>

CartStep ==
    \/ CartWake \/ CartLock \/ CartReset \/ CartPick \/ CartStart
    \/ CartPoll \/ CartWrite \/ CartStamp \/ CartPromote

-----------------------------------------------------------------------------
(* ExecuteRules. What a rule does to the results is in RuleResults; here   *)
(* it ends well (an inactive rule is skipped) or in an error that is       *)
(* logged before the loop goes on to the next rule.                        *)

RulesCheck ==
    /\ rulesPc = "check"
    /\ \/ /\ WithStatus("RULES_RUNNING") # {}
          /\ rulesPc' = "rules" /\ rulesLeft' = NumRules
          /\ UNCHANGED <<holder, ruleErrors, budget>>
       \/ WithStatus("RULES_RUNNING") = {} /\ RulesUnlock /\ UNCHANGED budget
       \/ Spend("db") /\ RulesUnlock
    /\ UNCHANGED <<tableVars, cartVars, serverVars, outcome>>

(* Mutant: the loop runs one rule too many.                                *)
RunOneRuleMore ==
    /\ rulesPc = "rules"
    /\ rulesLeft' = rulesLeft - 1
    /\ UNCHANGED <<tableVars, holder, cartVars, rulesPc, ruleErrors, serverVars,
                   outcome, budget>>

RunRule ==
    /\ rulesPc = "rules" /\ rulesLeft > 0
    /\ rulesLeft' = rulesLeft - 1
    /\ \/ UNCHANGED <<ruleErrors, budget>>
       \/ Spend("rule") /\ ruleErrors' = ruleErrors + 1
    /\ UNCHANGED <<tableVars, holder, cartVars, rulesPc, serverVars, outcome>>

(* One UPDATE: RULES_RUNNING rows become PASSED and get their time.        *)
RulesFinish ==
    /\ rulesPc = "rules" /\ rulesLeft = 0
    /\ \/ /\ Move({"RULES_RUNNING"}, "PASSED")
          /\ completed' = [a \in Accounts |-> IF status[a] = "RULES_RUNNING"
                                              THEN TRUE ELSE completed[a]]
          /\ UNCHANGED budget
       \/ Spend("db") /\ UNCHANGED tableVars
    /\ RulesUnlock
    /\ UNCHANGED <<cartVars, serverVars, outcome>>

RulesStep ==
    \/ RulesWake \/ RulesLock \/ RulesCheck \/ RunRule \/ RulesFinish

-----------------------------------------------------------------------------
(* The HTTP handlers. Each is one statement on one row and takes no lock;  *)
(* a request that fails or finds no row (or, to add, finds one) changes    *)
(* nothing.                                                                *)

Serving == cartPc # "boot"

AddAccountDetails(a) ==
    /\ Serving /\ status[a] = "NONE"
    /\ Spend("request")
    /\ status' = [status EXCEPT ![a] = "READY"]
    /\ UNCHANGED <<completed, holder, cartVars, rulesVars, serverVars, outcome>>

(* The job of a deleted row goes on, but is no longer the job of a row.    *)
DeleteAccountDetails(a) ==
    /\ Serving /\ a \in Registered
    /\ Spend("delete")
    /\ status' = [status EXCEPT ![a] = "NONE"]
    /\ completed' = [completed EXCEPT ![a] = FALSE]
    /\ jobs' = [i \in 1 .. Len(jobs) |-> IF jobs[i] = a THEN NoAccount ELSE jobs[i]]
    /\ outcome' = [outcome EXCEPT ![a] = "none"]
    /\ UNCHANGED <<holder, cartVars, rulesVars, report>>

Rescan(a) ==
    /\ Serving /\ a \in Registered
    /\ Spend("request")
    /\ status' = [status EXCEPT ![a] = "READY"]
    /\ UNCHANGED <<completed, holder, cartVars, rulesVars, serverVars, outcome>>

UserStep ==
    \E a \in Accounts :
        AddAccountDetails(a) \/ DeleteAccountDetails(a) \/ Rescan(a)

-----------------------------------------------------------------------------
(* The cartography server (external), as the backend's calls describe it:  *)
(* jobs are executed in order, each ends well or with an exception, and a  *)
(* container that restarts has forgotten them.                             *)

JobEnds ==
    /\ jobs # <<>>
    /\ \/ report' = "CARTOGRAPHY_PASSED" /\ UNCHANGED budget
       \/ report' = "FAILED" /\ Spend("job")
    /\ jobs' = Tail(jobs)
    /\ outcome' = [a \in Accounts |-> IF a = Head(jobs) THEN report'
                                      ELSE outcome[a]]
    /\ UNCHANGED <<tableVars, holder, cartVars, rulesVars>>

ServerRestart ==
    /\ Spend("restart")
    /\ jobs' = <<>> /\ report' = "READY"
    /\ outcome' = [a \in Accounts |-> IF outcome[a] = "started" THEN "lost"
                                      ELSE outcome[a]]
    /\ UNCHANGED <<tableVars, holder, cartVars, rulesVars>>

-----------------------------------------------------------------------------
Next ==
    \/ Boot \/ Crash
    \/ CartStep
    \/ RulesStep
    \/ UserStep
    \/ JobEnds \/ ServerRestart

Spec == Init /\ [][Next]_vars

(* Every goroutine is eventually scheduled and every job eventually ends.  *)
(* A sleep ends whatever the other loop does meanwhile, though not in the  *)
(* instant in which that loop is about to take the mutex: hence the strong *)
(* fairness. Users, faults and crashes owe nothing.                        *)
Fairness ==
    /\ WF_vars(Boot)
    /\ WF_vars(CartStep) /\ SF_vars(CartWake)
    /\ WF_vars(RulesStep) /\ SF_vars(RulesWake)
    /\ WF_vars(JobEnds)

FairSpec == Spec /\ Fairness
-----------------------------------------------------------------------------
(* Safety.                                                                 *)

(* Why RulesSeeFinishedScan below holds: the invariant that makes it       *)
(* inductive. A row is "scanned" while it waits for its rules or has them  *)
(* running; no job may start, or be left in the server, beside such a row. *)
NoScannedRow ==
    \A a \in Accounts : status[a] \notin {"CARTOGRAPHY_PASSED", "RULES_RUNNING"}

BootTogether == cartPc = "boot" <=> rulesPc = "boot"
ResetBeforeStart == cartPc \in {"pick", "start"} => NoScannedRow
TerminalReplyFromIdleServer ==
    cartPc = "write" /\ reply \in Terminal => jobs = <<>>
JobsExcludeScannedRows == jobs # <<>> => NoScannedRow

(* Every early return of a loop gives the mutex back: a loop holds         *)
(* ExecuteRulesMutex exactly while it is between its Lock and its Unlock,  *)
(* whichever of the "continue"s ends the iteration.                        *)
MutexMatchesLoops ==
    /\ holder = "cart" <=> cartPc \in CartCritical
    /\ holder = "rules" <=> rulesPc \in RulesCritical

(* The rules are never evaluated while cartography is rewriting the asset  *)
(* graph, not even when the backend crashed during a scan and the server   *)
(* still runs the job of the previous process: rows reach RULES_RUNNING    *)
(* only through a monitor that saw the server idle, and the reset at the   *)
(* start of every iteration clears them before another job starts.         *)
RulesSeeFinishedScan == rulesPc = "rules" => jobs = <<>>

ScanInv ==
    /\ TypeOK
    /\ BootTogether
    /\ MutexMatchesLoops
    /\ ResetBeforeStart
    /\ TerminalReplyFromIdleServer
    /\ JobsExcludeScannedRows
    /\ RulesSeeFinishedScan

(* A row says that cartography passed or failed, or that its rules run or  *)
(* ran, only if the latest job started for that very row ended that way,   *)
(* and it has a time of completion only if a job was started for it. The   *)
(* server reports one status for all accounts, so this rests on the        *)
(* monitor asking only for the account whose job it started. It holds as   *)
(* long as no account is deleted and added again while its job runs.       *)
StatusBackedByJob ==
    \A a \in Accounts :
        /\ status[a] \in {"CARTOGRAPHY_PASSED", "RULES_RUNNING", "PASSED"}
              => outcome[a] = "CARTOGRAPHY_PASSED"
        /\ status[a] = "FAILED" => outcome[a] = "FAILED"
        /\ completed[a] => outcome[a] # "none"

(* That, as long as no account has been deleted.                           *)
UndeletedRowsAreBacked == budget["delete"] = Limits["delete"] => StatusBackedByJob

(* The reset at the start of an iteration never throws away a scan that    *)
(* passed and waits for its rules, unless a database error made a loop     *)
(* give up. The two loops do not hand over explicitly: this rests on the   *)
(* lengths of their sleeps and on the mutex being handed to the waiter.    *)
PassedScanNotDiscarded ==
    Timely /\ cartPc = "reset" /\ budget["db"] = Limits["db"]
        => WithStatus("RULES_RUNNING") \cup WithStatus("CARTOGRAPHY_PASSED") = {}

(* The comment on StatusResponse: "PASSED - the rule execution is          *)
(* successfully completed".                                                *)
PassedMeansRulesSucceeded ==
    [][\A a \in Accounts :
          status[a] = "RULES_RUNNING" /\ status'[a] = "PASSED" => ruleErrors = 0]_vars

(* The comment on StatusResponse: "READY - the cartography job is not      *)
(* present in the queue and is ready to be pushed to the queue"; stated    *)
(* only of a job the monitor has already recorded as RUNNING.              *)
ReadyMeansNotQueued ==
    scanStatus = "RUNNING" =>
        \A i \in 1 .. Len(jobs) : jobs[i] = account => status[account] # "READY"

(* Liveness.                                                               *)

(* Once users, faults and crashes have ceased, every registered account    *)
(* ends up PASSED and stays so: failed, refused and interrupted scans are  *)
(* retried without anyone's asking, every iteration picks up an account,   *)
(* and ExecuteRules gets the mutex before the next iteration resets what   *)
(* it was to evaluate.                                                     *)
QueueDrains == <>[](\A a \in Registered : status[a] = "PASSED")

-----------------------------------------------------------------------------
(* The status protocol this implements (see ScanLifecycle).                *)
Phase ==
    CASE cartPc \in {"poll", "write", "stamp", "promote"} -> "scanning"
      [] rulesPc = "rules" -> "evaluating"
      [] cartPc = "boot" -> "down"
      [] OTHER -> "idle"

Lifecycle == INSTANCE ScanLifecycle WITH phase <- Phase

ImplementsLifecycle == Lifecycle!Spec
=============================================================================
