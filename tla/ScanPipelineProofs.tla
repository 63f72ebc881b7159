------------------------- MODULE ScanPipelineProofs -------------------------
(***************************************************************************)
(* Proofs about ScanPipeline for every set of accounts, every number of    *)
(* rules and every number of faults, crashes and requests.                 *)
(***************************************************************************)
EXTENDS ScanPipeline, TLAPS

-----------------------------------------------------------------------------
(* Type correctness.                                                       *)

LEMMA SpendType ==
    ASSUME budget \in [Kinds -> Nat], NEW k \in Kinds, Spend(k)
    PROVE  budget' \in [Kinds -> Nat]
BY DEF Spend

LEMMA CartType ==
    ASSUME TypeOK, CartStep
    PROVE  TypeOK'
<1> USE DEF TypeOK
<1>1. CASE CartWake
  BY <1>1 DEF CartWake, rulesVars, serverVars, tableVars
<1>2. CASE CartLock
  BY <1>2 DEF CartLock, rulesVars, serverVars, tableVars, CartCritical
<1>3. CASE CartReset
  BY <1>3, SpendType DEF CartReset, CartUnlock, ResetCartographyStatus, Move,
     rulesVars, serverVars, CartCritical, Kinds, Statuses, JobStatuses
<1>4. CASE CartPick
  BY <1>4, SpendType DEF CartPick, CartUnlock, WithStatus, rulesVars, serverVars,
     tableVars, CartCritical, Kinds, JobStatuses
<1>5. CASE CartStart
  <2>1. Accept => /\ jobs' \in Seq(Accounts \cup {NoAccount})
                  /\ outcome' \in [Accounts -> Outcomes]
    BY DEF Accept, Registered, Outcomes
  <2>2. QED
    BY <1>5, <2>1, SpendType DEF CartStart, CartUnlock, rulesVars, tableVars,
       CartCritical, Kinds, JobStatuses
<1>6. CASE CartPoll
  BY <1>6, SpendType DEF CartPoll, GetScanStatus, rulesVars, serverVars, tableVars,
     CartCritical, Kinds, JobStatuses
<1>7. CASE CartWrite
  <2>1. /\ status' \in [Accounts -> Statuses]
        /\ scanStatus' \in JobStatuses
        /\ cartPc' \in CartCritical
        /\ budget' \in [Kinds -> Nat]
    BY <1>7, SpendType, Zenon DEF CartWrite, CartCritical, Kinds, Statuses, JobStatuses
  <2>2. QED
    BY <1>7, <2>1 DEF CartWrite, rulesVars, serverVars
<1>8. CASE CartStamp
  BY <1>8, SpendType DEF CartStamp, Registered, rulesVars, serverVars, CartCritical,
     Kinds
<1>9. CASE CartPromote
  BY <1>9, SpendType DEF CartPromote, CartUnlock, Move, rulesVars, serverVars,
     CartCritical, Kinds, Statuses, JobStatuses
<1>10. QED
  BY <1>1, <1>2, <1>3, <1>4, <1>5, <1>6, <1>7, <1>8, <1>9 DEF CartStep

LEMMA RulesType ==
    ASSUME TypeOK, RulesStep
    PROVE  TypeOK'
<1> USE NumRulesAssumption DEF TypeOK
<1>1. CASE RulesWake
  BY <1>1 DEF RulesWake, cartVars, serverVars, tableVars
<1>2. CASE RulesLock
  BY <1>2 DEF RulesLock, cartVars, serverVars, tableVars, RulesCritical
<1>3. CASE RulesCheck
  <2>1. rulesPc' \in {"sleep", "rules"} /\ rulesLeft' \in 0 .. NumRules
    BY <1>3 DEF RulesCheck, RulesUnlock
  <2>2. holder' \in {"nobody", "cart", "rules"} /\ ruleErrors' \in Nat
    BY <1>3 DEF RulesCheck, RulesUnlock
  <2>3. budget' \in [Kinds -> Nat]
    BY <1>3, SpendType DEF RulesCheck, Kinds
  <2>4. QED
    BY <1>3, <2>1, <2>2, <2>3 DEF RulesCheck, cartVars, serverVars, tableVars,
       RulesCritical
<1>4. CASE RunRule
  <2>1. rulesLeft' \in 0 .. NumRules /\ ruleErrors' \in Nat
    BY <1>4 DEF RunRule
  <2>2. budget' \in [Kinds -> Nat]
    BY <1>4, SpendType DEF RunRule, Kinds
  <2>3. QED
    BY <1>4, <2>1, <2>2 DEF RunRule, cartVars, serverVars, tableVars
<1>5. CASE RulesFinish
  BY <1>5, SpendType DEF RulesFinish, RulesUnlock, Move, cartVars, serverVars,
     tableVars, Kinds, Statuses
<1>6. QED
  BY <1>1, <1>2, <1>3, <1>4, <1>5 DEF RulesStep

LEMMA EnvironmentType ==
    ASSUME TypeOK, Boot \/ Crash \/ UserStep \/ JobEnds \/ ServerRestart
    PROVE  TypeOK'
<1> USE NumRulesAssumption DEF TypeOK
<1>1. CASE Boot
  BY <1>1, SpendType DEF Boot, ResetCartographyStatus, Move, serverVars, Kinds,
     Statuses, JobStatuses
<1>2. CASE Crash
  BY <1>2, SpendType DEF Crash, serverVars, tableVars, Kinds, JobStatuses
<1>3. ASSUME NEW a \in Accounts, AddAccountDetails(a) \/ Rescan(a)
      PROVE  TypeOK'
  BY <1>3, SpendType DEF AddAccountDetails, Rescan, cartVars, rulesVars, serverVars,
     Kinds, Statuses, JobStatuses
<1>4. ASSUME NEW a \in Accounts, DeleteAccountDetails(a)
      PROVE  TypeOK'
  <2>1. jobs' \in Seq(Accounts \cup {NoAccount})
    BY <1>4 DEF DeleteAccountDetails
  <2>2. QED
    BY <1>4, <2>1, SpendType DEF DeleteAccountDetails, cartVars, rulesVars, Kinds,
       Statuses, Outcomes
<1>5. CASE JobEnds
  <2>1. jobs # <<>> /\ jobs' = Tail(jobs)
    BY <1>5 DEF JobEnds
  <2>2. jobs' \in Seq(Accounts \cup {NoAccount})
    BY <2>1
  <2>3. report' \in {"CARTOGRAPHY_PASSED", "FAILED"} /\ budget' \in [Kinds -> Nat]
    BY <1>5, SpendType DEF JobEnds, Kinds
  <2>4. outcome' \in [Accounts -> Outcomes]
    BY <1>5, <2>3 DEF JobEnds, Outcomes
  <2>5. UNCHANGED <<tableVars, holder, cartVars, rulesVars>>
    BY <1>5 DEF JobEnds
  <2>6. QED
    BY <2>2, <2>3, <2>4, <2>5 DEF cartVars, rulesVars, tableVars, JobStatuses
<1>6. CASE ServerRestart
  BY <1>6, SpendType DEF ServerRestart, cartVars, rulesVars, tableVars, Kinds,
     Outcomes, JobStatuses
<1>7. QED
  BY <1>1, <1>2, <1>3, <1>4, <1>5, <1>6 DEF UserStep

LEMMA StutterType == TypeOK /\ UNCHANGED vars => TypeOK'
BY DEF TypeOK, vars, tableVars, cartVars, rulesVars, serverVars

(* Every variable keeps its type: in particular the row of an account      *)
(* never takes a status outside the documented ones, whatever the server   *)
(* answers and whenever the handlers run.                                  *)
THEOREM TypeCorrect == Spec => []TypeOK
<1>1. Init => TypeOK
  BY LimitsAssumption, NumRulesAssumption DEF Init, TypeOK, Statuses, JobStatuses,
     Outcomes
<1>2. TypeOK /\ [Next]_vars => TypeOK'
  BY CartType, RulesType, EnvironmentType, StutterType DEF Next
<1>3. QED
  BY <1>1, <1>2, PTL DEF Spec

-----------------------------------------------------------------------------
(* The rules never run beside a job.                                       *)

LEMMA DeleteKeepsJobs ==
    ASSUME TypeOK, NEW a \in Accounts, DeleteAccountDetails(a)
    PROVE  jobs' = <<>> <=> jobs = <<>>
<1>1. jobs \in Seq(Accounts \cup {NoAccount})
  BY DEF TypeOK
<1>2. /\ jobs' \in Seq(Accounts \cup {NoAccount})
      /\ Len(jobs') = Len(jobs)
  BY <1>1 DEF DeleteAccountDetails
<1>3. QED
  BY <1>1, <1>2

LEMMA CartInv ==
    ASSUME ScanInv, CartStep
    PROVE  ScanInv'
<1>1. TypeOK'
  BY CartType DEF ScanInv
<1>2. /\ BootTogether' /\ MutexMatchesLoops'
  <2> USE DEF ScanInv, BootTogether, MutexMatchesLoops, CartCritical, RulesCritical
  <2>1. CASE CartWake
    BY <2>1 DEF CartWake, rulesVars
  <2>2. CASE CartLock
    BY <2>2 DEF CartLock, rulesVars, LockIsFree
  <2>3. CASE CartReset
    BY <2>3 DEF CartReset, CartUnlock, rulesVars
  <2>4. CASE CartPick
    BY <2>4 DEF CartPick, CartUnlock, rulesVars
  <2>5. CASE CartStart
    BY <2>5 DEF CartStart, CartUnlock, rulesVars
  <2>6. CASE CartPoll
    BY <2>6 DEF CartPoll, rulesVars
  <2>7. CASE CartWrite
    BY <2>7 DEF CartWrite, rulesVars
  <2>8. CASE CartStamp
    BY <2>8 DEF CartStamp, rulesVars
  <2>9. CASE CartPromote
    BY <2>9 DEF CartPromote, CartUnlock, rulesVars
  <2>10. QED
    BY <2>1, <2>2, <2>3, <2>4, <2>5, <2>6, <2>7, <2>8, <2>9 DEF CartStep
<1>3. ResetBeforeStart' /\ TerminalReplyFromIdleServer' /\ JobsExcludeScannedRows'
  <2> USE DEF ScanInv, TypeOK, ResetBeforeStart, TerminalReplyFromIdleServer,
              JobsExcludeScannedRows, NoScannedRow
  <2>1. CASE CartWake \/ CartLock
    BY <2>1 DEF CartWake, CartLock, tableVars, serverVars
  <2>2. CASE CartReset
    BY <2>2 DEF CartReset, CartUnlock, ResetCartographyStatus, Move, ResetStatuses,
       serverVars
  <2>3. CASE CartPick
    BY <2>3 DEF CartPick, CartUnlock, tableVars, serverVars
  <2>4. CASE CartStart
    BY <2>4 DEF CartStart, CartUnlock, tableVars
  <2>5. CASE CartPoll
    BY <2>5 DEF CartPoll, GetScanStatus, tableVars, serverVars, Terminal, JobStatuses
  <2>6. CASE CartWrite
    <3>1. cartPc' \in {"stamp", "promote", "poll"}
      BY <2>6, Zenon DEF CartWrite
    <3>2. cartPc = "write" /\ jobs' = jobs
      BY <2>6 DEF CartWrite, serverVars
    <3>3. jobs # <<>> => \A a \in Accounts : status'[a] \in {status[a], reply}
      BY <2>6, Zenon DEF CartWrite
    <3>4. jobs # <<>> => reply \notin Terminal /\ reply # "RULES_RUNNING"
      BY <3>2 DEF JobStatuses
    <3>5. QED
      BY <3>1, <3>2, <3>3, <3>4 DEF Terminal
  <2>7. CASE CartStamp
    BY <2>7 DEF CartStamp, serverVars
  <2>8. CASE CartPromote
    BY <2>8 DEF CartPromote, CartUnlock, Move, serverVars
  <2>9. QED
    BY <2>1, <2>2, <2>3, <2>4, <2>5, <2>6, <2>7, <2>8 DEF CartStep
<1>4. RulesSeeFinishedScan'
  <2>1. rulesPc' = rulesPc
    BY DEF CartStep, CartWake, CartLock, CartReset, CartPick, CartStart, CartPoll,
       CartWrite, CartStamp, CartPromote, rulesVars
  <2>2. CASE CartStart
    BY <2>1, <2>2 DEF ScanInv, RulesSeeFinishedScan, MutexMatchesLoops, CartStart,
       CartCritical, RulesCritical
  <2>3. CASE ~CartStart
    BY <2>1, <2>3 DEF ScanInv, RulesSeeFinishedScan, CartStep, CartWake, CartLock,
       CartReset, CartPick, CartPoll, CartWrite, CartStamp, CartPromote, serverVars
  <2>4. QED
    BY <2>2, <2>3
<1>5. QED
  BY <1>1, <1>2, <1>3, <1>4 DEF ScanInv

LEMMA RulesInv ==
    ASSUME ScanInv, RulesStep
    PROVE  ScanInv'
<1>1. TypeOK'
  BY RulesType DEF ScanInv
<1>2. UNCHANGED <<cartPc, reply, jobs>>
  BY DEF RulesStep, RulesWake, RulesLock, RulesCheck, RunRule, RulesFinish, cartVars,
     serverVars
<1>3. BootTogether' /\ MutexMatchesLoops'
  BY <1>2 DEF ScanInv, BootTogether, MutexMatchesLoops, CartCritical, RulesCritical,
     RulesStep, RulesWake, RulesLock, RulesCheck, RunRule, RulesFinish, RulesUnlock,
     LockIsFree
<1>4. NoScannedRow => NoScannedRow'
  BY DEF ScanInv, TypeOK, NoScannedRow, RulesStep, RulesWake, RulesLock, RulesCheck,
     RunRule, RulesFinish, Move, tableVars
<1>5. RulesSeeFinishedScan'
  <2>1. CASE RulesCheck
    BY <1>2, <2>1 DEF ScanInv, JobsExcludeScannedRows, NoScannedRow, WithStatus,
       RulesCheck, RulesUnlock, RulesSeeFinishedScan
  <2>2. CASE ~RulesCheck
    BY <1>2, <2>2 DEF ScanInv, RulesSeeFinishedScan, RulesStep, RulesWake, RulesLock,
       RunRule, RulesFinish, RulesUnlock
  <2>3. QED
    BY <2>1, <2>2
<1>6. QED
  BY <1>1, <1>2, <1>3, <1>4, <1>5 DEF ScanInv, ResetBeforeStart,
     TerminalReplyFromIdleServer, JobsExcludeScannedRows

LEMMA EnvironmentInv ==
    ASSUME ScanInv, Boot \/ Crash \/ UserStep \/ JobEnds \/ ServerRestart
    PROVE  ScanInv'
<1>1. TypeOK'
  BY EnvironmentType DEF ScanInv
<1>2. BootTogether' /\ MutexMatchesLoops'
  BY DEF ScanInv, BootTogether, MutexMatchesLoops, CartCritical, RulesCritical, Boot,
     Crash, UserStep, AddAccountDetails, DeleteAccountDetails, Rescan, JobEnds,
     ServerRestart, cartVars, rulesVars
<1>3. NoScannedRow => NoScannedRow'
  BY DEF ScanInv, TypeOK, NoScannedRow, Boot, ResetCartographyStatus, Move, Crash,
     UserStep, AddAccountDetails, DeleteAccountDetails, Rescan, JobEnds,
     ServerRestart, tableVars
<1>4. jobs = <<>> => jobs' = <<>>
  BY DeleteKeepsJobs DEF ScanInv, Boot, Crash, UserStep, AddAccountDetails, Rescan,
     JobEnds, ServerRestart, serverVars
<1>5. /\ cartPc' \in {cartPc, "boot", "sleep"}
      /\ rulesPc' \in {rulesPc, "boot", "sleep"}
      /\ reply' \in {reply, "READY"}
  BY DEF Boot, Crash, UserStep, AddAccountDetails, DeleteAccountDetails, Rescan,
     JobEnds, ServerRestart, cartVars, rulesVars
<1>6. QED
  BY <1>1, <1>2, <1>3, <1>4, <1>5 DEF ScanInv, ResetBeforeStart, RulesSeeFinishedScan,
     TerminalReplyFromIdleServer, JobsExcludeScannedRows, Terminal

LEMMA ScanInvNext ==
    ASSUME ScanInv, [Next]_vars
    PROVE  ScanInv'
<1>1. CASE UNCHANGED vars
  BY <1>1, StutterType DEF ScanInv, vars, tableVars, cartVars, rulesVars, serverVars,
     BootTogether, MutexMatchesLoops, ResetBeforeStart, TerminalReplyFromIdleServer,
     JobsExcludeScannedRows, RulesSeeFinishedScan, NoScannedRow
<1>2. CASE Next
  BY <1>2, CartInv, RulesInv, EnvironmentInv DEF Next
<1>3. QED
  BY <1>1, <1>2

LEMMA ScanInvInit == Init => ScanInv
<1>1. Init => TypeOK
  BY LimitsAssumption, NumRulesAssumption DEF Init, TypeOK, Statuses, JobStatuses,
     Outcomes
<1>2. QED
  BY <1>1 DEF Init, ScanInv, BootTogether, MutexMatchesLoops, CartCritical,
     RulesCritical, ResetBeforeStart, TerminalReplyFromIdleServer,
     JobsExcludeScannedRows, RulesSeeFinishedScan

(* The inductive invariant from which the safety theorems below follow.    *)
THEOREM ScanInvariant == Spec => []ScanInv
BY ScanInvInit, ScanInvNext, PTL DEF Spec

(* The mutex is held by a loop exactly while that loop is between its Lock *)
(* and its Unlock, so the two critical sections exclude each other and no  *)
(* early return keeps the mutex.                                           *)
THEOREM MutexRespected == Spec => []MutexMatchesLoops
BY ScanInvariant, PTL DEF ScanInv

(* No rule is evaluated while the server has a job, for any number of      *)
(* accounts, crashes, server restarts, lost answers and database errors.   *)
THEOREM RulesNeverDuringScan == Spec => []RulesSeeFinishedScan
BY ScanInvariant, PTL DEF ScanInv

-----------------------------------------------------------------------------
(* What the column scan_status tells its readers: the life cycle of a row  *)
(* (ScanLifecycle), that a status is backed by a job of that very row, and *)
(* that no passed scan is thrown away.                                     *)

(* The account the monitor is about to scan, or scans, has a row that was  *)
(* not yet scanned, or none since a user deleted it.                       *)
MonitoredRowIsUnscanned ==
    cartPc \in {"start", "poll", "write"} =>
        account \in Accounts /\ status[account] \in {"NONE", "READY", "RUNNING"}

(* A row whose job the server still has was not scanned meanwhile, not     *)
(* even if the job was started by a backend that crashed or gave up.       *)
QueuedRowsAreUnscanned ==
    \A i \in 1 .. Len(jobs) :
        jobs[i] \in Accounts => status[jobs[i]] \in {"READY", "RUNNING"}

RowsInv == ScanInv /\ MonitoredRowIsUnscanned /\ QueuedRowsAreUnscanned

Undeleted == budget["delete"] = Limits["delete"]

(* While no account was deleted, the monitor asks the server only about    *)
(* the job it started last: the status the server reports once it is idle  *)
(* is the outcome of that job, unless the server has forgotten all jobs.   *)
MonitorFollowsItsJob ==
    /\ cartPc \in {"start", "poll", "write", "stamp"} => account \in Registered
    /\ cartPc \in {"poll", "write"} =>
          IF jobs = <<>> THEN report \in {"READY", outcome[account]}
                         ELSE jobs[Len(jobs)] = account
    /\ cartPc \in {"poll", "write", "stamp"} => outcome[account] # "none"
    /\ cartPc = "write" /\ reply \in Terminal => outcome[account] = reply

BackedInv ==
    /\ RowsInv
    /\ budget["delete"] <= Limits["delete"]
    /\ Undeleted => MonitorFollowsItsJob /\ StatusBackedByJob

NoDbError == budget["db"] = Limits["db"]

(* Where Timely and without database errors: ExecuteRules waits for the    *)
(* mutex before a scan can end, and a row that waits for its rules keeps   *)
(* the other loop from waking up before they are run.                      *)
RulesTakeOver ==
    /\ cartPc \in {"write", "stamp", "promote"} => rulesPc = "lock"
    /\ WithStatus("CARTOGRAPHY_PASSED") # {} => cartPc \in {"boot", "promote"}
    /\ WithStatus("RULES_RUNNING") # {} =>
          \/ cartPc = "boot"
          \/ cartPc = "sleep" /\ rulesPc = "lock"
          \/ cartPc \in {"sleep", "lock"} /\ rulesPc \in RulesCritical

HandOverInv ==
    /\ ScanInv
    /\ budget["db"] <= Limits["db"]
    /\ Timely /\ NoDbError => RulesTakeOver

-----------------------------------------------------------------------------
(* Rows that are queued or monitored.                                      *)

(* In any step, a row that was not scanned yet stays so, unless it is the  *)
(* row CartWrite writes.                                                   *)
LEMMA UnscannedStays ==
    ASSUME TypeOK, [Next]_vars, ~CartWrite, NEW a \in Accounts,
           status[a] \in {"READY", "RUNNING"}
    PROVE  status'[a] \in {"READY", "RUNNING"} \/ DeleteAccountDetails(a)
<1> USE DEF TypeOK
<1>1. CASE Boot \/ CartReset
  BY <1>1 DEF Boot, CartReset, ResetCartographyStatus, Move
<1>2. CASE CartPromote
  BY <1>2 DEF CartPromote, Move
<1>3. CASE RulesFinish
  BY <1>3 DEF RulesFinish, Move, tableVars
<1>4. CASE UserStep
  BY <1>4 DEF UserStep, AddAccountDetails, DeleteAccountDetails, Rescan
<1>5. CASE UNCHANGED status
  BY <1>5
<1>6. QED
  BY <1>1, <1>2, <1>3, <1>4, <1>5 DEF Next, CartStep, RulesStep, Crash, CartWake,
     CartLock, CartPick, CartStart, CartPoll, CartStamp, RulesWake, RulesLock,
     RulesCheck, RunRule, JobEnds, ServerRestart, vars, tableVars

(* A row that is gone stays so until it is added again, ready to be scanned*)
LEMMA AddedReady ==
    ASSUME TypeOK, [Next]_vars, NEW a \in Accounts, status[a] = "NONE"
    PROVE  status'[a] \in {"NONE", "READY"}
<1> USE DEF TypeOK
<1>1. CASE Boot \/ CartReset
  BY <1>1 DEF Boot, CartReset, ResetCartographyStatus, Move, ResetStatuses
<1>2. CASE CartPromote
  BY <1>2 DEF CartPromote, Move
<1>3. CASE RulesFinish
  BY <1>3 DEF RulesFinish, Move, tableVars
<1>4. CASE UserStep
  BY <1>4 DEF UserStep, AddAccountDetails, DeleteAccountDetails, Rescan
<1>5. CASE CartWrite
  BY <1>5, Zenon DEF CartWrite, Registered
<1>6. CASE UNCHANGED status
  BY <1>6
<1>7. QED
  BY <1>1, <1>2, <1>3, <1>4, <1>5, <1>6 DEF Next, CartStep, RulesStep, Crash,
     CartWake, CartLock, CartPick, CartStart, CartPoll, CartStamp, RulesWake,
     RulesLock, RulesCheck, RunRule, JobEnds, ServerRestart, vars, tableVars

(* What CartWrite leaves of the loop's state and of the table.             *)
LEMMA WriteEffect ==
    ASSUME TypeOK, CartWrite
    PROVE  /\ cartPc = "write" /\ UNCHANGED <<account, reply, jobs, report, outcome>>
           /\ \/ /\ \A a \in Accounts :
                       status'[a] = IF a = account /\ status[a] # "NONE" THEN reply
                                    ELSE status[a]
                 /\ UNCHANGED budget
                 /\ reply = "FAILED" => cartPc' = "stamp"
                 /\ reply = "CARTOGRAPHY_PASSED" => cartPc' = "promote"
                 /\ reply \notin Terminal => cartPc' = "poll"
              \/ /\ UNCHANGED status /\ cartPc' = "poll"
                 /\ Spend("db")
<1>1. cartPc = "write" /\ UNCHANGED <<account, reply, jobs, report, outcome>>
  BY DEF CartWrite, serverVars
<1>2. CASE Spend("db") /\ cartPc' = "poll" /\ UNCHANGED <<status, scanStatus>>
  BY <1>1, <1>2
<1>3. CASE /\ status' = [a \in Accounts |-> IF a = account /\ a \in Registered
                                            THEN reply ELSE status[a]]
           /\ cartPc' = CASE reply = "FAILED" -> "stamp"
                          [] reply = "CARTOGRAPHY_PASSED" -> "promote"
                          [] OTHER -> "poll"
           /\ UNCHANGED budget
  <2>1. /\ reply = "FAILED" => cartPc' = "stamp"
        /\ reply = "CARTOGRAPHY_PASSED" => cartPc' = "promote"
        /\ reply \notin Terminal => cartPc' = "poll"
    BY <1>3 DEF Terminal
  <2>2. \A a \in Accounts :
           status'[a] = IF a = account /\ status[a] # "NONE" THEN reply ELSE status[a]
    BY <1>3 DEF Registered
  <2>3. QED
    BY <1>1, <1>3, <2>1, <2>2
<1>4. QED
  BY <1>2, <1>3 DEF CartWrite

LEMMA MonitoredStep ==
    ASSUME RowsInv, [Next]_vars
    PROVE  MonitoredRowIsUnscanned'
<1> USE DEF RowsInv, ScanInv
<1>1. CASE CartPick
  BY <1>1 DEF CartPick, CartUnlock, WithStatus, MonitoredRowIsUnscanned, tableVars
<1>2. CASE CartWrite
  BY <1>2, WriteEffect DEF MonitoredRowIsUnscanned, TypeOK, JobStatuses, Terminal
<1>3. CASE ~CartPick /\ ~CartWrite
  <2>1. SUFFICES ASSUME cartPc' \in {"start", "poll", "write"}
                 PROVE  /\ account' \in Accounts
                        /\ status'[account'] \in {"NONE", "READY", "RUNNING"}
    BY DEF MonitoredRowIsUnscanned
  <2>2. account' = account /\ cartPc \in {"start", "poll", "write"}
    BY <1>3, <2>1 DEF Next, CartStep, RulesStep, UserStep, Boot, Crash, CartWake,
       CartLock, CartReset, CartStart, CartPoll, CartStamp, CartPromote, CartUnlock,
       RulesWake, RulesLock, RulesCheck, RunRule, RulesFinish, AddAccountDetails,
       DeleteAccountDetails, Rescan, JobEnds, ServerRestart, vars, cartVars
  <2>3. account \in Accounts /\ status[account] \in {"NONE", "READY", "RUNNING"}
    BY <2>2 DEF MonitoredRowIsUnscanned
  <2>4. DeleteAccountDetails(account) => status'[account] = "NONE"
    BY <2>3 DEF DeleteAccountDetails, TypeOK
  <2>5. QED
    BY <1>3, <2>2, <2>3, <2>4, UnscannedStays, AddedReady
<1>4. QED
  BY <1>1, <1>2, <1>3

LEMMA QueuedStep ==
    ASSUME RowsInv, [Next]_vars
    PROVE  QueuedRowsAreUnscanned'
<1> USE DEF RowsInv, ScanInv
<1>1. jobs \in Seq(Accounts \cup {NoAccount})
  BY DEF TypeOK
<1>2. ASSUME NEW a \in Accounts, status[a] \in {"READY", "RUNNING"}, CartWrite,
             jobs # <<>>
      PROVE  status'[a] \in {"READY", "RUNNING"}
  BY <1>2, WriteEffect DEF TerminalReplyFromIdleServer, TypeOK, JobStatuses, Terminal
<1>3. CASE jobs' = jobs /\ ~UserStep
  BY <1>2, <1>3, UnscannedStays DEF QueuedRowsAreUnscanned, UserStep
<1>4. CASE UserStep
  <2>1. PICK b \in Accounts :
            AddAccountDetails(b) \/ DeleteAccountDetails(b) \/ Rescan(b)
    BY <1>4 DEF UserStep
  <2>2. CASE AddAccountDetails(b) \/ Rescan(b)
    BY <2>1, <2>2 DEF AddAccountDetails, Rescan, serverVars, QueuedRowsAreUnscanned,
       TypeOK
  <2>3. CASE DeleteAccountDetails(b)
    <3>1. /\ Len(jobs') = Len(jobs)
          /\ \A i \in 1 .. Len(jobs) :
                jobs'[i] = IF jobs[i] = b THEN NoAccount ELSE jobs[i]
      BY <1>1, <2>3 DEF DeleteAccountDetails
    <3>2. \A a \in Accounts \ {b} : status'[a] = status[a]
      BY <2>3 DEF DeleteAccountDetails, TypeOK
    <3>3. QED
      BY <3>1, <3>2, NoAccountAssumption DEF QueuedRowsAreUnscanned
  <2>4. QED
    BY <2>1, <2>2, <2>3
<1>5. CASE CartStart
  <2>1. CASE Accept
    <3>1. /\ Len(jobs') = Len(jobs) + 1
          /\ \A i \in 1 .. Len(jobs) : jobs'[i] = jobs[i]
          /\ jobs'[Len(jobs) + 1] \in {NoAccount, account}
          /\ jobs'[Len(jobs) + 1] = account =>
                account \in Registered \/ account = NoAccount
      BY <1>1, <2>1 DEF Accept, TypeOK
    <3>2. status' = status /\ cartPc = "start"
      BY <1>5 DEF CartStart, tableVars
    <3>3. account \in Registered => status[account] \in {"READY", "RUNNING"}
      BY <3>2 DEF MonitoredRowIsUnscanned, Registered
    <3>4. Len(jobs) \in Nat
      BY <1>1
    <3>5. QED
      BY <3>1, <3>2, <3>3, <3>4, NoAccountAssumption DEF QueuedRowsAreUnscanned
  <2>2. CASE jobs' = jobs
    BY <1>3, <1>4, <2>2
  <2>3. QED
    BY <1>5, <2>1, <2>2 DEF CartStart
<1>6. CASE JobEnds
  <2>1. jobs # <<>> /\ jobs' = Tail(jobs) /\ status' = status
    BY <1>6 DEF JobEnds, tableVars
  <2>2. /\ Len(jobs') = Len(jobs) - 1 /\ Len(jobs) \in Nat
        /\ \A i \in 1 .. Len(jobs') : jobs'[i] = jobs[i + 1]
    BY <1>1, <2>1
  <2>3. QED
    BY <2>1, <2>2 DEF QueuedRowsAreUnscanned
<1>7. CASE ServerRestart
  BY <1>7 DEF ServerRestart, QueuedRowsAreUnscanned
<1>8. QED
  BY <1>3, <1>4, <1>5, <1>6, <1>7 DEF Next, CartStep, RulesStep, Boot, Crash, CartWake,
     CartLock, CartReset, CartPick, CartPoll, CartWrite, CartStamp, CartPromote,
     RulesWake, RulesLock, RulesCheck, RunRule, RulesFinish, vars, serverVars

LEMMA RowsInvariant == Spec => []RowsInv
<1>1. Init => MonitoredRowIsUnscanned /\ QueuedRowsAreUnscanned
  BY DEF Init, MonitoredRowIsUnscanned, QueuedRowsAreUnscanned
<1>2. RowsInv /\ [Next]_vars =>
         MonitoredRowIsUnscanned' /\ QueuedRowsAreUnscanned'
  BY MonitoredStep, QueuedStep
<1>3. QED
  BY <1>1, <1>2, ScanInvariant, PTL DEF Spec, RowsInv

-----------------------------------------------------------------------------
(* The life cycle of a row.                                                *)

Scanning == {"poll", "write", "stamp", "promote"}

LEMMA SamePhase ==
    ASSUME ScanInv, ScanInv',
           cartPc \in Scanning <=> cartPc' \in Scanning,
           rulesPc = "rules" <=> rulesPc' = "rules",
           cartPc = "boot" <=> cartPc' = "boot"
    PROVE  Phase' = Phase
BY DEF ScanInv, Phase, Scanning, BootTogether, MutexMatchesLoops, CartCritical,
   RulesCritical

LEMMA CartLifecycle ==
    ASSUME RowsInv, RowsInv', CartStep
    PROVE  Lifecycle!Next \/ UNCHANGED <<status, Phase>>
<1> USE DEF RowsInv
<1>1. rulesPc' = rulesPc
  BY DEF CartStep, CartWake, CartLock, CartReset, CartPick, CartStart, CartPoll,
     CartWrite, CartStamp, CartPromote, rulesVars
<1>2. CASE CartWake \/ CartLock \/ CartPick \/ CartPoll \/ CartStamp
  <2>1. /\ status' = status
        /\ cartPc \in Scanning <=> cartPc' \in Scanning
        /\ cartPc = "boot" <=> cartPc' = "boot"
    BY <1>2, Zenon DEF CartWake, CartLock, CartPick, CartPoll, CartStamp, CartUnlock,
       Scanning, tableVars
  <2>2. QED
    BY <1>1, <2>1, SamePhase
<1>3. CASE CartReset
  <2>1. cartPc = "reset" /\ cartPc' \in {"pick", "sleep"}
    BY <1>3 DEF CartReset, CartUnlock
  <2>2. Phase = "idle" /\ Phase' = "idle"
    BY <1>1, <2>1 DEF ScanInv, MutexMatchesLoops, CartCritical, RulesCritical, Phase,
       BootTogether
  <2>3. CASE status' = status
    BY <2>2, <2>3
  <2>4. CASE ResetCartographyStatus
    BY <2>2, <2>4 DEF Lifecycle!Next, Lifecycle!Requeue, Lifecycle!InProgress,
       ResetCartographyStatus, Move, ResetStatuses
  <2>5. QED
    BY <1>3, <2>3, <2>4 DEF CartReset
<1>4. CASE CartStart
  <2>1. cartPc = "start" /\ cartPc' \in {"poll", "sleep"} /\ status' = status
    BY <1>4 DEF CartStart, CartUnlock, tableVars
  <2>2. Phase = "idle" /\ Phase' \in {"scanning", "idle"}
    BY <1>1, <2>1 DEF ScanInv, MutexMatchesLoops, CartCritical, RulesCritical, Phase,
       BootTogether
  <2>3. CASE Phase' = "scanning"
    BY <2>1, <2>2, <2>3 DEF Lifecycle!Next, Lifecycle!StartScan
  <2>4. CASE Phase' = "idle"
    BY <2>1, <2>2, <2>4
  <2>5. QED
    BY <2>2, <2>3, <2>4
<1>5. CASE CartWrite
  <2>1. cartPc = "write" /\ cartPc' \in {"poll", "stamp", "promote"}
    BY <1>5, WriteEffect DEF ScanInv, Terminal
  <2>2. Phase = "scanning" /\ Phase' = "scanning"
    BY <1>1, <2>1 DEF ScanInv, MutexMatchesLoops, CartCritical, RulesCritical, Phase
  <2>3. CASE status' = status
    BY <2>2, <2>3
  <2>4. CASE status' # status
    <3>1. /\ account \in Accounts
          /\ status[account] \in {"READY", "RUNNING"}
          /\ \A a \in Accounts : status'[a] = IF a = account THEN reply ELSE status[a]
      <4>1. /\ account \in Accounts
            /\ status[account] \in {"NONE", "READY", "RUNNING"}
        BY <2>1 DEF MonitoredRowIsUnscanned
      <4>2. \A a \in Accounts :
               status'[a] = IF a = account /\ status[a] # "NONE" THEN reply
                            ELSE status[a]
        BY <1>5, <2>4, WriteEffect DEF ScanInv
      <4>3. status[account] # "NONE"
        <5>1. SUFFICES ASSUME status[account] = "NONE" PROVE status' = status
          BY <2>4
        <5>2. \A a \in Accounts : status'[a] = status[a]
          BY <4>2, <5>1
        <5>3. QED
          BY <5>2 DEF ScanInv, TypeOK
      <4>4. QED
        BY <4>1, <4>2, <4>3
    <3>2. status' = [status EXCEPT ![account] = reply]
      BY <3>1 DEF ScanInv, TypeOK
    <3>3. reply \in {"READY", "RUNNING", "CARTOGRAPHY_PASSED", "FAILED"}
      BY DEF ScanInv, TypeOK, JobStatuses
    <3>4. reply # status[account]
      BY <2>4, <3>1, <3>2 DEF ScanInv, TypeOK
    <3>5. Lifecycle!Progress(account)
      <4>1. Phase = "scanning" /\ UNCHANGED Phase
        BY <2>2
      <4>2. CASE status[account] = "READY"
        <5>1. reply \in {"RUNNING", "CARTOGRAPHY_PASSED", "FAILED"}
          BY <3>3, <3>4, <4>2
        <5>2. QED
          BY <3>2, <4>1, <4>2, <5>1, Zenon DEF Lifecycle!Progress, Lifecycle!Become
      <4>3. CASE status[account] = "RUNNING"
        <5>1. reply \in {"READY", "CARTOGRAPHY_PASSED", "FAILED"}
          BY <3>3, <3>4, <4>3
        <5>2. QED
          BY <3>2, <4>1, <4>3, <5>1, Zenon DEF Lifecycle!Progress, Lifecycle!Become
      <4>4. QED
        BY <3>1, <4>2, <4>3
    <3>6. QED
      BY <3>1, <3>5 DEF Lifecycle!Next
  <2>5. QED
    BY <2>3, <2>4
<1>6. CASE CartPromote
  <2>1. cartPc = "promote" /\ cartPc' = "sleep"
    BY <1>6 DEF CartPromote, CartUnlock
  <2>2. Phase = "scanning" /\ Phase' = "idle"
    BY <1>1, <2>1 DEF ScanInv, MutexMatchesLoops, CartCritical, RulesCritical, Phase,
       BootTogether
  <2>3. \/ status' = status
        \/ status' = [a \in Accounts |-> IF status[a] = "CARTOGRAPHY_PASSED"
                                         THEN "RULES_RUNNING" ELSE status[a]]
    BY <1>6 DEF CartPromote, Move
  <2>4. QED
    BY <2>2, <2>3 DEF Lifecycle!Next, Lifecycle!EndScan, Lifecycle!MoveAll
<1>7. QED
  BY <1>2, <1>3, <1>4, <1>5, <1>6 DEF CartStep

LEMMA RulesLifecycle ==
    ASSUME RowsInv, RowsInv', RulesStep
    PROVE  Lifecycle!Next \/ UNCHANGED <<status, Phase>>
<1> USE DEF RowsInv
<1>1. cartPc' = cartPc
  BY DEF RulesStep, RulesWake, RulesLock, RulesCheck, RunRule, RulesFinish, cartVars
<1>2. CASE RulesWake \/ RulesLock \/ RunRule
  <2>1. status' = status /\ (rulesPc = "rules" <=> rulesPc' = "rules")
    BY <1>2 DEF RulesWake, RulesLock, RunRule, tableVars
  <2>2. QED
    BY <1>1, <2>1, SamePhase
<1>3. CASE RulesCheck
  <2>1. rulesPc = "check" /\ status' = status
    BY <1>3 DEF RulesCheck, tableVars
  <2>2. Phase = "idle"
    BY <2>1 DEF ScanInv, MutexMatchesLoops, CartCritical, RulesCritical, Phase,
       BootTogether
  <2>3. CASE rulesPc' = "rules"
    <3>1. WithStatus("RULES_RUNNING") # {}
      BY <1>3, <2>3 DEF RulesCheck, RulesUnlock
    <3>2. Phase' = "evaluating"
      BY <1>1, <2>1, <2>3 DEF ScanInv, MutexMatchesLoops, CartCritical,
         RulesCritical, Phase, BootTogether
    <3>3. QED
      BY <2>1, <2>2, <3>1, <3>2 DEF Lifecycle!Next, Lifecycle!Evaluate, WithStatus
  <2>4. CASE rulesPc' # "rules"
    BY <1>1, <2>1, <2>4, SamePhase
  <2>5. QED
    BY <2>3, <2>4
<1>4. CASE RulesFinish
  <2>1. rulesPc = "rules" /\ rulesPc' = "sleep"
    BY <1>4 DEF RulesFinish, RulesUnlock
  <2>2. Phase = "evaluating" /\ Phase' = "idle"
    BY <1>1, <2>1 DEF ScanInv, MutexMatchesLoops, CartCritical, RulesCritical, Phase,
       BootTogether
  <2>3. \/ status' = status
        \/ status' = [a \in Accounts |-> IF status[a] = "RULES_RUNNING"
                                         THEN "PASSED" ELSE status[a]]
    BY <1>4 DEF RulesFinish, Move, tableVars
  <2>4. QED
    BY <2>2, <2>3 DEF Lifecycle!Next, Lifecycle!EndEvaluation, Lifecycle!MoveAll
<1>5. QED
  BY <1>2, <1>3, <1>4 DEF RulesStep

LEMMA EnvironmentLifecycle ==
    ASSUME RowsInv, RowsInv', Boot \/ Crash \/ UserStep \/ JobEnds \/ ServerRestart
    PROVE  Lifecycle!Next \/ UNCHANGED <<status, Phase>>
<1> USE DEF RowsInv
<1>1. CASE Boot
  <2>1. cartPc = "boot" /\ cartPc' = "sleep" /\ rulesPc' = "sleep"
    BY <1>1 DEF Boot
  <2>2. Phase = "down" /\ Phase' = "idle"
    BY <2>1 DEF ScanInv, BootTogether, Phase
  <2>3. CASE status' = status
    BY <2>2, <2>3 DEF Lifecycle!Next, Lifecycle!Up
  <2>4. CASE ResetCartographyStatus
    BY <2>2, <2>4 DEF Lifecycle!Next, Lifecycle!Requeue, Lifecycle!InProgress,
       ResetCartographyStatus, Move, ResetStatuses
  <2>5. QED
    BY <1>1, <2>3, <2>4 DEF Boot
<1>2. CASE Crash
  <2>1. /\ cartPc # "boot" /\ cartPc' = "boot" /\ rulesPc' = "boot"
        /\ status' = status
    BY <1>2 DEF Crash, tableVars
  <2>2. Phase # "down" /\ Phase' = "down"
    BY <2>1 DEF Phase
  <2>3. QED
    BY <2>1, <2>2 DEF Lifecycle!Next, Lifecycle!Down
<1>3. CASE UserStep
  <2>1. PICK a \in Accounts :
            AddAccountDetails(a) \/ DeleteAccountDetails(a) \/ Rescan(a)
    BY <1>3 DEF UserStep
  <2>2. cartPc # "boot" /\ UNCHANGED <<cartPc, rulesPc>>
    BY <2>1 DEF AddAccountDetails, DeleteAccountDetails, Rescan, Serving, cartVars,
       rulesVars
  <2>3. Phase # "down" /\ Phase' = Phase
    BY <2>2 DEF Phase
  <2>4. Lifecycle!User(a)
    BY <2>1, <2>3 DEF Lifecycle!User, Lifecycle!Become, AddAccountDetails,
       DeleteAccountDetails, Rescan, Registered
  <2>5. QED
    BY <2>4 DEF Lifecycle!Next
<1>4. CASE JobEnds \/ ServerRestart
  <2>1. UNCHANGED <<status, cartPc, rulesPc>>
    BY <1>4 DEF JobEnds, ServerRestart, tableVars, cartVars, rulesVars
  <2>2. QED
    BY <2>1 DEF Phase
<1>5. QED
  BY <1>1, <1>2, <1>3, <1>4

(* The statuses of all accounts follow the life cycle of ScanLifecycle:    *)
(* one row at a time moves from READY through RUNNING to the end of its    *)
(* scan, rows are evaluated between scans only, and unfinished work is     *)
(* queued again between scans only; whatever the server answers, users     *)
(* request, and database errors or crashes interrupt.                      *)
THEOREM ScansFollowLifecycle == Spec => ImplementsLifecycle
<1>1. Init => Lifecycle!Init
  BY DEF Init, Lifecycle!Init, Phase
<1>2. ASSUME RowsInv, RowsInv', [Next]_vars
      PROVE  [Lifecycle!Next]_<<status, Phase>>
  <2>1. CASE UNCHANGED vars
    BY <2>1 DEF vars, tableVars, cartVars, rulesVars, Phase
  <2>2. CASE Next
    BY <1>2, <2>2, CartLifecycle, RulesLifecycle, EnvironmentLifecycle DEF Next
  <2>3. QED
    BY <1>2, <2>1, <2>2
<1>3. QED
  BY <1>1, <1>2, RowsInvariant, PTL DEF Spec, ImplementsLifecycle, Lifecycle!Spec

-----------------------------------------------------------------------------
(* A status is backed by a job of that row.                                *)

(* Events are only ever used up.                                           *)
LEMMA BudgetStep ==
    ASSUME TypeOK, [Next]_vars, NEW k \in Kinds
    PROVE  /\ budget'[k] <= budget[k]
           /\ Spend(k) => budget'[k] < budget[k]
<1>1. budget' = budget \/ \E j \in Kinds : Spend(j)
  BY DEF Next, CartStep, RulesStep, UserStep, Boot, Crash, CartWake, CartLock,
     CartReset, CartPick, CartStart, CartPoll, CartWrite, CartStamp, CartPromote,
     RulesWake, RulesLock, RulesCheck, RunRule, RulesFinish, AddAccountDetails,
     DeleteAccountDetails, Rescan, JobEnds, ServerRestart, vars, Kinds
<1>2. budget \in [Kinds -> Nat]
  BY DEF TypeOK
<1>3. ASSUME NEW j \in Kinds, Spend(j)
      PROVE  budget'[j] = budget[j] - 1 /\ \A i \in Kinds \ {j} : budget'[i] = budget[i]
  BY <1>2, <1>3 DEF Spend
<1>4. budget'[k] <= budget[k]
  BY <1>1, <1>2, <1>3
<1>5. Spend(k) => budget'[k] < budget[k]
  BY <1>2, <1>3
<1>6. QED
  BY <1>4, <1>5

LEMMA UndeletedStep ==
    ASSUME BackedInv, [Next]_vars
    PROVE  /\ budget'["delete"] <= Limits["delete"]
           /\ Undeleted' => Undeleted /\ \A a \in Accounts : ~DeleteAccountDetails(a)
<1>1. /\ TypeOK /\ "delete" \in Kinds
      /\ budget["delete"] <= Limits["delete"]
      /\ budget["delete"] \in Nat /\ Limits["delete"] \in Nat
  BY LimitsAssumption DEF BackedInv, RowsInv, ScanInv, TypeOK, Kinds
<1>2. /\ budget'["delete"] <= budget["delete"]
      /\ Spend("delete") => budget'["delete"] < budget["delete"]
  BY <1>1, BudgetStep
<1>3. budget'["delete"] \in Nat
  BY <1>1, <1>2, CartType, RulesType, EnvironmentType, StutterType
     DEF Next, TypeOK
<1>4. \A a \in Accounts : DeleteAccountDetails(a) => Spend("delete")
  BY DEF DeleteAccountDetails
<1>5. QED
  BY <1>1, <1>2, <1>3, <1>4 DEF Undeleted

(* The steps that leave the monitor, its job and the history alone.        *)
LEMMA MonitorQuiet ==
    ASSUME MonitorFollowsItsJob,
           UNCHANGED <<account, jobs, report, outcome>>,
           cartPc' \in {cartPc, "boot", "sleep", "lock", "reset", "pick", "promote"},
           \A a \in Accounts : status[a] # "NONE" => status'[a] # "NONE",
           cartPc' = "write" => reply' = reply
    PROVE  MonitorFollowsItsJob'
BY DEF MonitorFollowsItsJob, Registered

LEMMA BackedQuiet ==
    ASSUME StatusBackedByJob, UNCHANGED <<completed, outcome>>,
           \A a \in Accounts : \/ status'[a] = status[a]
                               \/ status'[a] \in {"NONE", "READY", "RUNNING"}
                               \/ /\ status'[a] \in {"RULES_RUNNING", "PASSED"}
                                  /\ status[a] \in {"CARTOGRAPHY_PASSED", "RULES_RUNNING"}
    PROVE  StatusBackedByJob'
BY DEF StatusBackedByJob

LEMMA CartBacked ==
    ASSUME BackedInv, Undeleted, CartStep
    PROVE  MonitorFollowsItsJob' /\ StatusBackedByJob'
<1> USE DEF BackedInv
<1>1. TypeOK /\ MonitorFollowsItsJob /\ StatusBackedByJob
  BY DEF RowsInv, ScanInv
<1>2. CASE CartWake \/ CartLock
  <2>1. /\ UNCHANGED <<status, completed, account, reply, jobs, report, outcome>>
        /\ cartPc' \in {"lock", "reset"}
    BY <1>2 DEF CartWake, CartLock, tableVars, serverVars
  <2>2. QED
    BY <1>1, <2>1, MonitorQuiet, BackedQuiet
<1>3. CASE CartReset
  <2>1. /\ UNCHANGED <<completed, jobs, report, outcome>>
        /\ cartPc' \in {"pick", "sleep"}
        /\ \A a \in Accounts : status'[a] \in {status[a], "READY"}
    BY <1>1, <1>3 DEF CartReset, CartUnlock, ResetCartographyStatus, Move, serverVars,
       TypeOK
  <2>2. MonitorFollowsItsJob'
    BY <2>1 DEF MonitorFollowsItsJob
  <2>3. QED
    BY <1>1, <2>1, <2>2, BackedQuiet
<1>4. CASE CartPick
  <2>1. /\ UNCHANGED <<status, completed, jobs, report, outcome>>
        /\ \/ cartPc' = "start" /\ account' \in WithStatus("READY")
           \/ cartPc' = "sleep"
    BY <1>4 DEF CartPick, CartUnlock, tableVars, serverVars
  <2>2. MonitorFollowsItsJob'
    BY <2>1 DEF MonitorFollowsItsJob, Registered, WithStatus
  <2>3. QED
    BY <1>1, <2>1, <2>2, BackedQuiet
<1>5. CASE CartStart
  <2>1. /\ cartPc = "start" /\ account \in Registered /\ account \in Accounts
        /\ status[account] \in {"READY", "RUNNING"}
        /\ UNCHANGED <<status, completed, report>>
    BY <1>1, <1>5 DEF CartStart, tableVars, MonitorFollowsItsJob, Registered, RowsInv,
       MonitoredRowIsUnscanned
  <2>2. CASE Accept
    <3>1. jobs' = Append(jobs, account) /\ jobs \in Seq(Accounts \cup {NoAccount})
      BY <1>1, <2>1, <2>2 DEF Accept, TypeOK
    <3>2. jobs' # <<>> /\ jobs'[Len(jobs')] = account
      BY <2>1, <3>1
    <3>3. \A a \in Accounts : outcome'[a] = IF a = account THEN "started"
                                            ELSE outcome[a]
      BY <2>1, <2>2 DEF Accept
    <3>4. (cartPc' = "poll" /\ account' = account) \/ cartPc' = "sleep"
      BY <1>5 DEF CartStart, CartUnlock
    <3>5. MonitorFollowsItsJob'
      BY <2>1, <3>2, <3>3, <3>4 DEF MonitorFollowsItsJob, Registered
    <3>6. StatusBackedByJob'
      BY <1>1, <2>1, <3>3 DEF StatusBackedByJob
    <3>7. QED
      BY <3>5, <3>6
  <2>3. CASE UNCHANGED <<jobs, outcome>> /\ cartPc' = "sleep"
    BY <1>1, <2>1, <2>3 DEF MonitorFollowsItsJob, StatusBackedByJob
  <2>4. QED
    BY <1>5, <2>2, <2>3 DEF CartStart, CartUnlock
<1>6. CASE CartPoll
  <2>1. /\ cartPc = "poll" /\ cartPc' \in {"poll", "write"}
        /\ UNCHANGED <<status, completed, account, jobs, report, outcome>>
        /\ cartPc' = "write" => reply' = GetScanStatus
    BY <1>6 DEF CartPoll, tableVars, serverVars
  <2>2. cartPc' = "write" /\ reply' \in Terminal => outcome[account] = reply'
    BY <1>1, <2>1 DEF GetScanStatus, Terminal, MonitorFollowsItsJob
  <2>3. MonitorFollowsItsJob'
    BY <1>1, <2>1, <2>2 DEF MonitorFollowsItsJob, Registered
  <2>4. QED
    BY <1>1, <2>1, <2>3, BackedQuiet
<1>7. CASE CartWrite
  <2>1. /\ cartPc = "write" /\ UNCHANGED <<account, jobs, report, outcome, completed>>
        /\ account \in Registered /\ account \in Accounts
        /\ outcome[account] # "none" /\ reply \in JobStatuses
        /\ reply \in Terminal => outcome[account] = reply
    BY <1>1, <1>7, WriteEffect DEF MonitorFollowsItsJob, Registered, CartWrite, TypeOK
  <2>2. /\ cartPc' \in {"poll", "stamp", "promote"}
        /\ \A a \in Accounts :
              status'[a] = status[a] \/ (a = account /\ status'[a] = reply)
    BY <1>1, <1>7, WriteEffect DEF Terminal
  <2>3. account \in Registered'
    BY <2>1, <2>2 DEF Registered, JobStatuses
  <2>4. MonitorFollowsItsJob'
    BY <1>1, <2>1, <2>2, <2>3 DEF MonitorFollowsItsJob
  <2>5. StatusBackedByJob'
    BY <1>1, <2>1, <2>2 DEF StatusBackedByJob, JobStatuses, Terminal
  <2>6. QED
    BY <2>4, <2>5
<1>8. CASE CartStamp
  <2>1. /\ UNCHANGED <<status, account, jobs, report, outcome>>
        /\ cartPc = "stamp" /\ cartPc' = "promote"
        /\ \A a \in Accounts : completed'[a] => completed[a] \/ a = account
    BY <1>1, <1>8 DEF CartStamp, serverVars, TypeOK
  <2>2. MonitorFollowsItsJob'
    BY <2>1 DEF MonitorFollowsItsJob
  <2>3. StatusBackedByJob'
    BY <1>1, <2>1 DEF StatusBackedByJob, MonitorFollowsItsJob
  <2>4. QED
    BY <2>2, <2>3
<1>9. CASE CartPromote
  <2>1. /\ UNCHANGED <<completed, outcome>> /\ cartPc' = "sleep"
        /\ \A a \in Accounts :
              \/ status'[a] = status[a]
              \/ status[a] = "CARTOGRAPHY_PASSED" /\ status'[a] = "RULES_RUNNING"
    BY <1>9 DEF CartPromote, CartUnlock, Move
  <2>2. MonitorFollowsItsJob'
    BY <2>1 DEF MonitorFollowsItsJob
  <2>3. QED
    BY <1>1, <2>1, <2>2, BackedQuiet
<1>10. QED
  BY <1>2, <1>3, <1>4, <1>5, <1>6, <1>7, <1>8, <1>9 DEF CartStep

LEMMA RulesBacked ==
    ASSUME BackedInv, Undeleted, RulesStep
    PROVE  MonitorFollowsItsJob' /\ StatusBackedByJob'
<1>1. TypeOK /\ MonitorFollowsItsJob /\ StatusBackedByJob
  BY DEF BackedInv, RowsInv, ScanInv
<1>2. UNCHANGED <<cartPc, account, reply, jobs, report, outcome>>
  BY DEF RulesStep, RulesWake, RulesLock, RulesCheck, RunRule, RulesFinish, cartVars,
     serverVars
<1>3. \A a \in Accounts :
         \/ status'[a] = status[a] /\ completed'[a] = completed[a]
         \/ status[a] = "RULES_RUNNING" /\ status'[a] = "PASSED"
  <2>1. CASE RulesFinish
    BY <2>1 DEF RulesFinish, Move, tableVars
  <2>2. CASE ~RulesFinish
    BY <2>2 DEF RulesStep, RulesWake, RulesLock, RulesCheck, RunRule, tableVars
  <2>3. QED
    BY <2>1, <2>2
<1>4. MonitorFollowsItsJob'
  <2>1. \A a \in Accounts : status[a] # "NONE" => status'[a] # "NONE"
    BY <1>3
  <2>2. QED
    BY <1>1, <1>2, <2>1, MonitorQuiet
<1>5. StatusBackedByJob'
  BY <1>1, <1>2, <1>3 DEF StatusBackedByJob
<1>6. QED
  BY <1>4, <1>5

LEMMA EnvironmentBacked ==
    ASSUME BackedInv, Undeleted, Boot \/ Crash \/ UserStep \/ JobEnds \/ ServerRestart,
           \A a \in Accounts : ~DeleteAccountDetails(a)
    PROVE  MonitorFollowsItsJob' /\ StatusBackedByJob'
<1>1. TypeOK /\ MonitorFollowsItsJob /\ StatusBackedByJob /\ QueuedRowsAreUnscanned
  BY DEF BackedInv, RowsInv, ScanInv
<1>2. CASE Boot \/ Crash
  <2>1. /\ UNCHANGED <<completed, outcome>> /\ cartPc' \in {"sleep", "boot"}
        /\ \A a \in Accounts : status'[a] \in {status[a], "READY"}
    BY <1>1, <1>2 DEF Boot, Crash, ResetCartographyStatus, Move, tableVars, TypeOK
  <2>2. MonitorFollowsItsJob'
    BY <2>1 DEF MonitorFollowsItsJob
  <2>3. QED
    BY <1>1, <2>1, <2>2, BackedQuiet
<1>3. CASE UserStep
  <2>1. PICK b \in Accounts : AddAccountDetails(b) \/ Rescan(b)
    BY <1>3 DEF UserStep
  <2>2. /\ UNCHANGED <<completed, outcome, cartPc, account, reply, jobs, report>>
        /\ \A a \in Accounts : status'[a] \in {status[a], "READY"}
    BY <1>1, <2>1 DEF AddAccountDetails, Rescan, cartVars, serverVars, TypeOK
  <2>3. \A a \in Accounts : status[a] # "NONE" => status'[a] # "NONE"
    BY <2>2
  <2>4. MonitorFollowsItsJob'
    BY <1>1, <2>2, <2>3, MonitorQuiet
  <2>5. QED
    BY <1>1, <2>2, <2>4, BackedQuiet
<1>4. CASE JobEnds
  <2>1. /\ jobs # <<>> /\ jobs' = Tail(jobs) /\ jobs \in Seq(Accounts \cup {NoAccount})
        /\ UNCHANGED <<status, completed, cartPc, account, reply>>
        /\ report' \in Terminal
    BY <1>1, <1>4 DEF JobEnds, tableVars, cartVars, Terminal, TypeOK
  <2>2. \A a \in Accounts : outcome'[a] = IF a = jobs[1] THEN report' ELSE outcome[a]
    BY <1>4, <2>1 DEF JobEnds
  <2>3. /\ Len(jobs) \in Nat \ {0} /\ Len(jobs') = Len(jobs) - 1
        /\ jobs' = <<>> => Len(jobs) = 1
        /\ jobs' # <<>> => jobs'[Len(jobs')] = jobs[Len(jobs)]
    <3>1. /\ Len(jobs) \in Nat \ {0} /\ Len(jobs') = Len(jobs) - 1
          /\ \A i \in 1 .. Len(jobs') : jobs'[i] = jobs[i + 1]
          /\ jobs' \in Seq(Accounts \cup {NoAccount})
      BY <2>1
    <3>2. jobs' # <<>> => Len(jobs') \in 1 .. Len(jobs')
      BY <3>1
    <3>3. QED
      BY <3>1, <3>2
  <2>4. MonitorFollowsItsJob'
    <3>1. CASE cartPc \in {"poll", "write"}
      <4>1. /\ account \in Registered /\ account \in Accounts
            /\ jobs[Len(jobs)] = account /\ outcome[account] # "none"
        BY <1>1, <2>1, <3>1 DEF MonitorFollowsItsJob, Registered
      <4>2. jobs' = <<>> => outcome'[account] = report'
        BY <2>2, <2>3, <4>1
      <4>3. outcome'[account] # "none"
        BY <2>1, <2>2, <4>1 DEF Terminal
      <4>4. ~(cartPc = "write" /\ reply \in Terminal)
        BY <2>1 DEF BackedInv, RowsInv, ScanInv, TerminalReplyFromIdleServer
      <4>5. QED
        BY <2>1, <2>3, <3>1, <4>1, <4>2, <4>3, <4>4 DEF MonitorFollowsItsJob, Registered
    <3>2. CASE cartPc = "stamp"
      <4>1. /\ account \in Registered /\ account \in Accounts
            /\ outcome[account] # "none"
        BY <1>1, <3>2 DEF MonitorFollowsItsJob, Registered
      <4>2. outcome'[account] # "none"
        BY <2>1, <2>2, <4>1 DEF Terminal
      <4>3. QED
        BY <2>1, <3>2, <4>1, <4>2 DEF MonitorFollowsItsJob, Registered
    <3>3. CASE cartPc \notin {"poll", "write", "stamp"}
      BY <1>1, <2>1, <3>3 DEF MonitorFollowsItsJob, Registered
    <3>4. QED
      BY <3>1, <3>2, <3>3
  <2>5. StatusBackedByJob'
    <3>1. jobs[1] \in Accounts => status[jobs[1]] \in {"READY", "RUNNING"}
      BY <1>1, <2>3 DEF QueuedRowsAreUnscanned
    <3>2. QED
      BY <1>1, <2>1, <2>2, <3>1 DEF StatusBackedByJob, Terminal
  <2>6. QED
    BY <2>4, <2>5
<1>5. CASE ServerRestart
  <2>1. /\ jobs' = <<>> /\ report' = "READY"
        /\ UNCHANGED <<status, completed, cartPc, account, reply>>
        /\ \A a \in Accounts : outcome'[a] = IF outcome[a] = "started" THEN "lost"
                                             ELSE outcome[a]
    BY <1>5 DEF ServerRestart, tableVars, cartVars
  <2>2. MonitorFollowsItsJob'
    <3>1. cartPc \in {"start", "poll", "write", "stamp"} =>
             account \in Registered' /\ account' \in Accounts
      BY <1>1, <2>1 DEF MonitorFollowsItsJob, Registered
    <3>2. QED
      BY <1>1, <2>1, <3>1 DEF MonitorFollowsItsJob, Terminal
  <2>3. StatusBackedByJob'
    BY <1>1, <2>1 DEF StatusBackedByJob
  <2>4. QED
    BY <2>2, <2>3
<1>6. QED
  BY <1>2, <1>3, <1>4, <1>5

LEMMA BackedInvariant == Spec => []BackedInv
<1>1. Init => BackedInv
  <2>1. Init => RowsInv
    BY ScanInvInit DEF RowsInv, Init, MonitoredRowIsUnscanned,
       QueuedRowsAreUnscanned
  <2>2. Init => budget["delete"] <= Limits["delete"]
    BY LimitsAssumption DEF Init, Kinds
  <2>3. Init => MonitorFollowsItsJob /\ StatusBackedByJob
    BY DEF Init, MonitorFollowsItsJob, StatusBackedByJob
  <2>4. QED
    BY <2>1, <2>2, <2>3 DEF BackedInv
<1>2. ASSUME BackedInv, RowsInv', [Next]_vars
      PROVE  BackedInv'
  <2>1. budget'["delete"] <= Limits["delete"]
    BY <1>2, UndeletedStep
  <2>2. ASSUME Undeleted'
        PROVE  MonitorFollowsItsJob' /\ StatusBackedByJob'
    <3>1. Undeleted /\ \A a \in Accounts : ~DeleteAccountDetails(a)
      BY <1>2, <2>2, UndeletedStep
    <3>2. CASE UNCHANGED vars
      <4>1. UNCHANGED <<status, completed, cartPc, account, reply, jobs, report, outcome>>
        BY <3>2 DEF vars, tableVars, cartVars, serverVars
      <4>2. QED
        BY <1>2, <3>1, <4>1, MonitorQuiet, BackedQuiet DEF BackedInv
    <3>3. CASE Next
      BY <1>2, <3>1, <3>3, CartBacked, RulesBacked, EnvironmentBacked DEF Next
    <3>4. QED
      BY <1>2, <3>2, <3>3
  <2>3. QED
    BY <1>2, <2>1, <2>2 DEF BackedInv
<1>3. QED
  BY <1>1, <1>2, RowsInvariant, PTL DEF Spec

(* As long as no account was deleted, a row says that its scan passed or   *)
(* failed, or that its rules run or ran, only if the latest job started    *)
(* for that very row ended that way: though the server reports one status  *)
(* for all accounts, restarts, and takes jobs whose start the backend      *)
(* believes to have failed.                                                *)
THEOREM StatusesAreBacked == Spec => []UndeletedRowsAreBacked
<1>1. BackedInv => UndeletedRowsAreBacked
  BY DEF BackedInv, UndeletedRowsAreBacked, Undeleted
<1>2. QED
  BY <1>1, BackedInvariant, PTL

-----------------------------------------------------------------------------
(* No passed scan is thrown away.                                          *)

LEMMA NoDbErrorStep ==
    ASSUME HandOverInv, [Next]_vars
    PROVE  /\ budget'["db"] <= Limits["db"]
           /\ NoDbError' => NoDbError /\ ~Spend("db")
<1>1. /\ TypeOK /\ "db" \in Kinds
      /\ budget["db"] <= Limits["db"]
      /\ budget["db"] \in Nat /\ Limits["db"] \in Nat
  BY LimitsAssumption DEF HandOverInv, ScanInv, TypeOK, Kinds
<1>2. /\ budget'["db"] <= budget["db"]
      /\ Spend("db") => budget'["db"] < budget["db"]
  BY <1>1, BudgetStep
<1>3. budget'["db"] \in Nat
  BY <1>1, <1>2, CartType, RulesType, EnvironmentType, StutterType
     DEF Next, TypeOK
<1>4. QED
  BY <1>1, <1>2, <1>3 DEF NoDbError

(* Rows begin to wait for their rules only in the step that ends a scan.   *)
LEMMA WaitingStep ==
    ASSUME TypeOK, [Next]_vars, NEW a \in Accounts
    PROVE  /\ status'[a] = "CARTOGRAPHY_PASSED" =>
                 status[a] = "CARTOGRAPHY_PASSED" \/ (CartWrite /\ cartPc' = "promote")
           /\ status'[a] = "RULES_RUNNING" => status[a] = "RULES_RUNNING" \/ CartPromote
<1> USE DEF TypeOK
<1>1. CASE Boot \/ CartReset
  BY <1>1 DEF Boot, CartReset, ResetCartographyStatus, Move
<1>2. CASE CartPromote
  BY <1>2 DEF CartPromote, Move
<1>3. CASE RulesFinish
  BY <1>3 DEF RulesFinish, Move, tableVars
<1>4. CASE UserStep
  BY <1>4 DEF UserStep, AddAccountDetails, DeleteAccountDetails, Rescan
<1>5. CASE CartWrite
  BY <1>5, WriteEffect DEF JobStatuses
<1>6. CASE UNCHANGED status
  BY <1>6
<1>7. QED
  BY <1>1, <1>2, <1>3, <1>4, <1>5, <1>6 DEF Next, CartStep, RulesStep, Crash,
     CartWake, CartLock, CartPick, CartStart, CartPoll, CartStamp, RulesWake,
     RulesLock, RulesCheck, RunRule, JobEnds, ServerRestart, vars, tableVars

(* The steps that begin no waiting and move the loops as RulesTakeOver     *)
(* allows.                                                                 *)
LEMMA TakeOverQuiet ==
    ASSUME RulesTakeOver, TypeOK, [Next]_vars, ~CartWrite, ~CartPromote,
           UNCHANGED <<cartPc, rulesPc>>
    PROVE  RulesTakeOver'
BY WaitingStep DEF RulesTakeOver, WithStatus

LEMMA CartTakeOver ==
    ASSUME HandOverInv, Timely, RulesTakeOver, CartStep, ~Spend("db")
    PROVE  RulesTakeOver'
<1> USE DEF HandOverInv, ScanInv
<1>1. rulesPc' = rulesPc /\ [Next]_vars
  BY DEF Next, CartStep, CartWake, CartLock, CartReset, CartPick, CartStart, CartPoll,
     CartWrite, CartStamp, CartPromote, rulesVars
<1>2. CASE CartWake
  <2>1. cartPc = "sleep" /\ cartPc' = "lock" /\ status' = status
    BY <1>2 DEF CartWake, tableVars
  <2>2. rulesPc # "lock"
    BY <1>2, <2>1 DEF CartWake, LockIsFree, MutexMatchesLoops, CartCritical,
       RulesCritical, TypeOK
  <2>3. QED
    BY <1>1, <2>1, <2>2 DEF RulesTakeOver, WithStatus
<1>3. CASE CartLock
  <2>1. /\ cartPc = "lock" /\ cartPc' = "reset" /\ status' = status
        /\ rulesPc \notin RulesCritical
    BY <1>3 DEF CartLock, tableVars, LockIsFree, MutexMatchesLoops
  <2>2. QED
    BY <1>1, <2>1 DEF RulesTakeOver, WithStatus
<1>4. CASE CartReset
  <2>1. cartPc' = "pick" /\ ResetCartographyStatus
    BY <1>4 DEF CartReset
  <2>2. WithStatus("CARTOGRAPHY_PASSED")' = {} /\ WithStatus("RULES_RUNNING")' = {}
    BY <2>1 DEF ResetCartographyStatus, Move, ResetStatuses, WithStatus
  <2>3. QED
    BY <2>1, <2>2 DEF RulesTakeOver
<1>5. CASE CartPick \/ CartStart
  <2>1. /\ cartPc \in {"pick", "start"} /\ cartPc' \in {"start", "poll", "sleep"}
        /\ status' = status
    BY <1>5 DEF CartPick, CartStart, CartUnlock, tableVars
  <2>2. QED
    BY <2>1 DEF RulesTakeOver, WithStatus, RulesCritical
<1>6. CASE CartPoll
  <2>1. /\ cartPc = "poll" /\ cartPc' \in {"poll", "write"} /\ rulesPc # "sleep"
        /\ status' = status
    BY <1>6 DEF CartPoll, tableVars
  <2>2. rulesPc = "lock"
    BY <2>1 DEF MutexMatchesLoops, CartCritical, RulesCritical, BootTogether, TypeOK
  <2>3. QED
    BY <1>1, <2>1, <2>2 DEF RulesTakeOver, WithStatus
<1>7. CASE CartWrite
  <2>1. cartPc = "write" /\ cartPc' \in {"poll", "stamp", "promote"}
    BY <1>7, WriteEffect DEF Terminal
  <2>2. rulesPc = "lock" /\ WithStatus("CARTOGRAPHY_PASSED") = {}
                        /\ WithStatus("RULES_RUNNING") = {}
    BY <2>1 DEF RulesTakeOver
  <2>3. WithStatus("CARTOGRAPHY_PASSED")' # {} => cartPc' = "promote"
    BY <1>1, <2>2, WaitingStep DEF WithStatus
  <2>4. WithStatus("RULES_RUNNING")' = {}
    BY <1>1, <1>7, <2>1, <2>2, WaitingStep DEF WithStatus, CartPromote
  <2>5. QED
    BY <1>1, <2>1, <2>2, <2>3, <2>4 DEF RulesTakeOver
<1>8. CASE CartStamp
  <2>1. cartPc = "stamp" /\ cartPc' = "promote" /\ status' = status
    BY <1>8 DEF CartStamp
  <2>2. QED
    BY <1>1, <2>1 DEF RulesTakeOver, WithStatus
<1>9. CASE CartPromote
  <2>1. /\ cartPc = "promote" /\ cartPc' = "sleep" /\ rulesPc = "lock"
        /\ Move({"CARTOGRAPHY_PASSED"}, "RULES_RUNNING")
    BY <1>9 DEF CartPromote, CartUnlock, RulesTakeOver
  <2>2. WithStatus("CARTOGRAPHY_PASSED")' = {}
    BY <2>1 DEF Move, WithStatus
  <2>3. QED
    BY <1>1, <2>1, <2>2 DEF RulesTakeOver
<1>10. QED
  BY <1>2, <1>3, <1>4, <1>5, <1>6, <1>7, <1>8, <1>9 DEF CartStep

LEMMA RulesTakeOverStep ==
    ASSUME HandOverInv, RulesTakeOver, RulesStep, ~Spend("db")
    PROVE  RulesTakeOver'
<1> USE DEF HandOverInv, ScanInv
<1>1. cartPc' = cartPc /\ [Next]_vars
  BY DEF Next, RulesStep, RulesWake, RulesLock, RulesCheck, RunRule, RulesFinish,
     cartVars
<1>2. CASE RulesWake
  BY <1>1, <1>2 DEF RulesWake, RulesTakeOver, RulesCritical, WithStatus, tableVars
<1>3. CASE RulesLock
  <2>1. /\ rulesPc' = "check" /\ status' = status /\ cartPc \notin CartCritical
    BY <1>3 DEF RulesLock, LockIsFree, MutexMatchesLoops, tableVars
  <2>2. QED
    BY <1>1, <2>1 DEF RulesTakeOver, WithStatus, CartCritical, RulesCritical
<1>4. CASE RulesCheck
  <2>1. /\ rulesPc = "check" /\ status' = status /\ cartPc \notin CartCritical
        /\ \/ rulesPc' = "rules"
           \/ rulesPc' = "sleep" /\ WithStatus("RULES_RUNNING") = {}
    BY <1>4 DEF RulesCheck, RulesUnlock, MutexMatchesLoops, RulesCritical, tableVars
  <2>2. QED
    BY <1>1, <2>1 DEF RulesTakeOver, WithStatus, CartCritical, RulesCritical
<1>5. CASE RunRule
  BY <1>1, <1>5 DEF RunRule, RulesTakeOver, WithStatus, tableVars
<1>6. CASE RulesFinish
  <2>1. /\ rulesPc = "rules" /\ Move({"RULES_RUNNING"}, "PASSED")
        /\ cartPc \notin CartCritical
    BY <1>6 DEF RulesFinish, MutexMatchesLoops, RulesCritical
  <2>2. /\ WithStatus("RULES_RUNNING")' = {}
        /\ WithStatus("CARTOGRAPHY_PASSED")' = WithStatus("CARTOGRAPHY_PASSED")
    BY <2>1 DEF Move, WithStatus
  <2>3. QED
    BY <1>1, <2>1, <2>2 DEF RulesTakeOver, CartCritical
<1>7. QED
  BY <1>2, <1>3, <1>4, <1>5, <1>6 DEF RulesStep

LEMMA EnvironmentTakeOver ==
    ASSUME HandOverInv, RulesTakeOver, ~Spend("db"),
           Boot \/ Crash \/ UserStep \/ JobEnds \/ ServerRestart
    PROVE  RulesTakeOver'
<1> USE DEF HandOverInv, ScanInv
<1>1. CASE Boot
  <2>1. cartPc' = "sleep" /\ ResetCartographyStatus
    BY <1>1 DEF Boot
  <2>2. WithStatus("CARTOGRAPHY_PASSED")' = {} /\ WithStatus("RULES_RUNNING")' = {}
    BY <2>1 DEF ResetCartographyStatus, Move, ResetStatuses, WithStatus
  <2>3. QED
    BY <2>1, <2>2 DEF RulesTakeOver
<1>2. CASE Crash
  BY <1>2 DEF Crash, RulesTakeOver
<1>3. CASE UserStep \/ JobEnds \/ ServerRestart
  <2>1. UNCHANGED <<cartPc, rulesPc>> /\ Next
    BY <1>3 DEF Next, UserStep, AddAccountDetails, DeleteAccountDetails, Rescan, JobEnds,
       ServerRestart, cartVars, rulesVars
  <2>2. (cartPc = "write" \/ cartPc = "promote") => ~CartWrite /\ ~CartPromote
    BY <2>1 DEF CartWrite, CartPromote, CartUnlock
  <2>3. QED
    BY <2>1, <2>2, TakeOverQuiet DEF CartWrite, CartPromote
<1>4. QED
  BY <1>1, <1>2, <1>3

LEMMA HandOverInvariant == Spec => []HandOverInv
<1>1. Init => HandOverInv
  BY ScanInvInit, LimitsAssumption DEF Init, HandOverInv, RulesTakeOver, WithStatus,
     Kinds
<1>2. ASSUME HandOverInv, ScanInv', [Next]_vars
      PROVE  HandOverInv'
  <2>1. budget'["db"] <= Limits["db"]
    BY <1>2, NoDbErrorStep
  <2>2. ASSUME Timely, NoDbError'
        PROVE  RulesTakeOver'
    <3>1. NoDbError /\ ~Spend("db") /\ RulesTakeOver
      BY <1>2, <2>2, NoDbErrorStep DEF HandOverInv
    <3>2. CASE UNCHANGED vars
      BY <3>1, <3>2 DEF vars, tableVars, cartVars, rulesVars, RulesTakeOver, WithStatus
    <3>3. CASE Next
      BY <1>2, <2>2, <3>1, <3>3, CartTakeOver, RulesTakeOverStep, EnvironmentTakeOver
         DEF Next
    <3>4. QED
      BY <1>2, <3>2, <3>3
  <2>3. QED
    BY <1>2, <2>1, <2>2 DEF HandOverInv
<1>3. QED
  BY <1>1, <1>2, ScanInvariant, PTL DEF Spec

(* The reset at the start of an iteration throws away no passed scan that  *)
(* waits for its rules, as long as the sleeps of the two loops keep their  *)
(* relative lengths and no database error makes a loop give up: crashes,   *)
(* server restarts and requests of users do not matter.                    *)
THEOREM PassedScansAreKept == Spec => []PassedScanNotDiscarded
<1>1. HandOverInv => PassedScanNotDiscarded
  <2> SUFFICES ASSUME HandOverInv, Timely, cartPc = "reset", NoDbError
               PROVE  /\ WithStatus("RULES_RUNNING") = {}
                      /\ WithStatus("CARTOGRAPHY_PASSED") = {}
    BY DEF PassedScanNotDiscarded, NoDbError
  <2>1. RulesTakeOver
    BY DEF HandOverInv
  <2>2. QED
    BY <2>1 DEF RulesTakeOver
<1>2. QED
  BY <1>1, HandOverInvariant, PTL
=============================================================================
