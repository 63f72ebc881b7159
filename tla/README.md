# A verification project for ZeusCloud

ZeusCloud scans AWS accounts into an asset graph (cartography, Neo4j),
evaluates rules on the graph, keeps their results in Postgres and shows them
in a web frontend. This directory holds TLA+ specifications of its backend and
its frontend, TLC configurations that check them on small instances, and
proofs for every value of the constants. Paths are relative to the repository.

## 1. Inventory

| part | state it keeps | operations | interacts with |
|---|---|---|---|
| scan pipeline (`backend/control/control.go`, started by `backend/main.go`) | table `account_details`; `ExecuteRulesMutex`; local variables of two goroutines | `CartographyExecutionLoop`, `monitorCartographyJobStatusLoop`, `ExecuteRules`, `ResetCartographyStatus` | cartography server over HTTP; Postgres; the handlers through the table |
| account handlers (`backend/handlers/settings.go`) | the same table | add, delete, rescan, list | the loops, without taking the mutex |
| rule execution (`backend/rules/rules.go`, body of `ExecuteRules`) | tables `rule_data`, `rule_results` | upsert rule data, execute, stamp `last_run`, upsert results, delete stale results | graph; `toggle_rule_active.go`, `toggle_alert_muted.go` through the tables |
| rule catalogue (`backend/rules/*/*.go`, some ninety files; vulnerability rules from the server) | none | one query each, rows to results | graph |
| display graph (`backend/rules/processgraph/build_graph.go`) | none | compress paths, convert nodes and edges, remove cycles | called by two graph handlers |
| graph and inventory handlers (`backend/handlers`, `backend/inventory`) | none | one read query per request | graph |
| alerts, rules, compliance handlers (`backend/handlers`, `backend/compliance`) | static tables of controls | read and join `rule_data` and `rule_results` | Postgres |
| startup (`backend/main.go`, `backend/db`) | none | connect, write rules, wait for the server, launch loops, serve | all of the above |
| cartography server (not in the repository) | queue of jobs, status of the last one | `/start_job`, `/get_status` | graph |
| accounts (`frontend/src/Components/Settings`, `App.tsx`) | table of accounts, an interval, the state of each dialog, the form | redirect of the start page, polling, scan and remove dialogs, adding an account | account handlers |
| alerts (`Pages/Alerts.tsx`, `Components/Alerts`) | address, answers, filters, orders, open rows, panel | look up the address in an answer, filter, sort, open an alert, mute | alerts and graph handlers |
| rules (`Pages/Rules.tsx`, `Components/Rules`) | rows, filters, a switch in each row | filter, sort, switch | rules handlers |
| explorer (`Pages/Explore.tsx`) | category, query, action, asset, graph, two panels | choose, clear, draw, click nodes and edges | graph handlers |
| inventory (`Pages/AssetsInventory.tsx`, `Components/AssetsInventory`) | category, item of the sidebar, search, rows | choose, search, follow links between thirteen classes of assets | inventory handler |
| compliance (`Pages/Compliance.tsx`, `Components/Compliance`) | cards, report, open rows | ask for percentages and for a report, unfold it | compliance handlers |
| sample infrastructure (`cdk`), proxy, containers | AWS resources, a secret | declarations | AWS |

Hard behaviour and what correctness means:

* *Scan pipeline.* Two loops share a mutex and a table that handlers change
  without the mutex; every statement and call may fail and ends an iteration
  early; the backend may stop anywhere while the server goes on; the server
  has one status for all accounts. Correct: the mutex is given back on every
  path; no rule is evaluated on a graph that is being written; a row's status
  is that of a job started for that row; work that was interrupted is redone
  and work that succeeded is not thrown away; every account is scanned in the end.
* *Rule results.* Five statements per rule without a transaction, each of
  which may fail; stale rows are recognised by a time. Correct: alerts are the
  latest results of their rule, none missing and none stale; a mute and the
  time of first sight outlive rescans, failures and restarts.
* *Display graph.* Correct: what is drawn has no cycle, and whoever follows it
  comes upon everything the paths contain.
* *Frontend.* Every page asks in an effect and takes whatever answer comes,
  in any order; nothing is aborted. Clicks change the page before the backend
  has agreed. State is spread over components, the address and the sidebar,
  and effects copy it from one to the other. Correct: what is shown is of what
  was asked for last; only clicks write, and each writes what it meant; no
  button and no page waits for ever but for a failure the code does not catch;
  no filter is lost on a detour.
* *Compliance.* One statement per rule beside a scan that deletes and adds
  results. Correct: the percentage is one that can be justified, and agrees
  with the report.

## 2. Modules

| module | models | how |
|---|---|---|
| `ScanPipeline` | `control.go`, `settings.go`, the launch in `main.go` | one action per statement or HTTP call of each loop (`CartReset`, `CartPick`, `CartStart`, `CartPoll`, `CartWrite`, `CartStamp`, `CartPromote`; `RulesCheck`, `RunRule`, `RulesFinish`), one per handler, `Boot` and `Crash` for the process, `JobEnds` and `ServerRestart` for the server (external). `cartPc` and `rulesPc` name the next statement |
| `ScanLifecycle` | what a reader of `scan_status` may rely on | abstract specification, implemented by `ScanPipeline` with the phase computed from the program counters |
| `RuleResults` | `rules.go`, lines 64-109 of `control.go`, the two toggle handlers | one action per statement of an execution; a rule's query may return any result, also the same resource twice. `latest` and `clean` are history variables |
| `AlertBoard` | what a reader of the alerts may rely on | abstract specification, implemented by `RuleResults` |
| `RemoveCycles` | `removeCycles` and `dfs` | the recursion as a stack, one step per edge; `before` is a history variable; what a graph leads to is the least set closed under its edges, which `MCDisplayGraph` compares with the library's reachability on small graphs |
| `DisplayGraph` | `CompressPaths`, `ConvertToDisplayGraph` | operators from the paths of a query to the input of `removeCycles`, then `RemoveCycles` runs on it; the loop of `CompressPaths` is a recursive function of the turn |
| `AccountsPage` | `ConnectedAccounts.tsx`, the redirect of `App.tsx`, tabs | the table, its interval and the dialogs, beside a backend that is an instance of `ScanLifecycle`. Polls and the handlers of the dialogs are processes of their own, suspended at each `await`. The dialogs of a new table start with usable buttons; of the handlers of an earlier one, what counts is the request they have sent (`orphans`), which reaches the backend or fails at any time |
| `AddAccountForm` | `AddNewAccount.tsx`, `ManualAddAccountDetails` | fields, the late list of profiles, the tab; submissions (`request`), one of the form displayed and others of forms that were left, whose handlers run on. A request is stored, refused, or fails with nothing stored (the list of profiles, the database, the network), and an answer may be lost after the row is stored. An answer of success changes the tab whichever form it is of, as long as the settings page is the same, and takes away the form displayed then |
| `AlertsPage` | `Alerts.tsx`, `AlertsSlideover.tsx` | the address with its history, requests for the list, the panel and its graph; what effects compute from state is a function of it (`NotFound`, `IsSlideOver`) |
| `AlertsTable`, `TableOps` | `AlertsTableOps.tsx`, `GeneratedAlertsTable.tsx`; `TableOpsUtils.tsx`, `Table.tsx` | rows filtered and sorted by the comparators of the code, the nested table, filters packed into the address and unpacked. `Sorted` is what a stable sort leaves: a row stands after as many as precede it by the comparator or, if equal, in the list |
| `RulesTable` | `Rules.tsx`, `RulesTableOps.tsx`, `RuleToggle.tsx`, `toggle_rule_active.go` | a switch holds its own state while its row is displayed; posts are requests under way |
| `MuteButtons` | `ToggleMuteButton.tsx`, the requests of `AlertsTableOps.tsx`, `toggle_alert_muted.go` | posts and requests for all alerts are under way at once |
| `Requests` | the requests of a page under way, for `RulesTable`, `MuteButtons`, `AssetInventory` | a bag, since nobody looks whether an equal request is under way; `UnderWay` counts them |
| `ExplorePage` | `Explore.tsx` | the choices, requests with a number each, what graph and panels are of |
| `AssetInventory`, `AssetClasses` | `AssetsInventory.tsx`, the thirteen classes, `SideBarNav.tsx`, `assetUtils.tsx` | a class is its columns: fields searched, dereferenced and linked; a null list or field throws where the code dereferences it, in the build, in the search or when drawn |
| `CompliancePage`, `CompliancePercent` | the two compliance handlers, `Compliance*.tsx` | one step per statement of a handler, beside writes to the results; `CompliancePercent` is the rounding |
| `*Proofs` | | theorems about the module of that name; `RulesProofs` is about `RuleResults`, `RemoveCycles` and `DisplayGraph`, `FrontendProofs` about `Frontend`, with the pages that have no module of proofs of their own |
| `Frontend` | the routes of `App.tsx` | the pages as instances of their modules, one shown at a time; what they show and all bounds are constants |
| `MC*` | | the instances TLC checks; `MCFrontend` has the data of the frontend's runs, the configurations choose among them |

`ScanPipeline` runs a rule as one step that ends well or in an error;
`RuleResults` is that step in full, under the mutex that `ScanPipeline` shows
to be held. `CompliancePage` lets results change as `AlertBoard` allows, and
`AccountsPage` lets rows change as `ScanLifecycle` allows, so both rely only
on what the refinements establish. Definitions marked `Mutant:` are plausible
bugs of the definition that follows them; no specification uses them. Each
shows that a property notices the bug.

`Frontend` is the routes of `App.tsx`: the browser shows one page, whose
variables stand in `s1` to `s14` in the order of the page's own, as React
keeps the hooks of a component. Its definitions name the page a property is
about; a property of two pages joins claims of the same kind.

What the models assume of the world outside `src`:

* The cartography server executes jobs one after the other, `/get_status`
  reports on the server, not on an account, and a restarted container has
  forgotten its jobs and answers READY. This is how `control.go` uses it. Its
  status is one of those `StatusResponse` documents.
* A statement of Postgres is atomic, fails without effect, and an `INSERT ...
  ON CONFLICT` with one key twice, or with an unknown `rule_data_uid`, is
  refused.
* `Timely = TRUE`: Go hands a mutex to a goroutine that has waited for more
  than a millisecond, so a five-second sleep that begins when one loop lets go
  of the mutex does not end before the other loop, if it waits, has taken it;
  and a ten-second sleep of the monitor outlasts a five-second sleep. The runs
  that do not need this are made with `Timely = FALSE`, where sleeps have any
  length.
* `ClockStepsBack = FALSE`: `time.Now()` does not go back between executions.
  Without it a result could be older than those it replaces, and
  `AlertsMirrorResults` fails: rows of an earlier, later-stamped execution are
  never stale.
* The browser runs one event at a time, with every render and effect React
  derives from it before the next (the production build, without the double
  effects of `StrictMode`); an answer is an event. An answer shows the tables
  as they were at one moment between question and answer, except that of the
  compliance handlers, which read in several statements.

## 3. Runs

| run | instance | question |
|---|---|---|
| `scan_storm` | 2 accounts, 1 rule, 3 requests, 1 deletion, 1 each of database error, lost HTTP call, failed job, failed rule, crash, server restart; sleeps of any length | mutex, no rule beside a job, rows that were not deleted are backed by a job of theirs, `ScanLifecycle` implemented |
| `scan_live` | the same, `Timely`, without server restart, fair | no passed scan is thrown away between the loops; every registered account ends up PASSED |
| `results` | 2 rules, 2 resources, 3 executions, failing statements, crashes, users | alerts are the latest results; mutes and first sight kept; `AlertBoard` implemented |
| `display` | `removeCycles` on every graph of 3 nodes, every set of starting nodes, every order; all pairs of paths of up to 3 nodes out of 5, one hidden, one unsupported | acyclic, same nodes reached, only closing edges removed, returns; the drawn graph leads along every path |
| `front_tables` | tables of alerts and rules, mute buttons | order, filters and counts of rows; filters survive a look at an alert; only clicks write |
| `front_pages` | accounts, form, explorer, alerts, inventory, compliance | each page shows and stores what was meant and asked last, whatever comes late, in another order or not at all |
| `front_patient` | all pages but the plain table, for a user who waits, fair | switches, graphs and tables show what is so; links find the assets they name, and a page throws only over an asset that its own class cannot show; tables, reports and addresses come up; a button that waits becomes usable again, or the list its dialog asked for after its request has failed |
| `scan_v_rules`, `scan_v_ready`, `scan_v_readd`, `results_v_lastrun`, `alerts_v_stale` | few faults | the findings below |

The bounds are enough for the cases of interest.

* *Scans.* Two accounts let one be scanned while the other waits, is deleted or
  waits for its rules. One fault of each kind at any point, in any combination,
  covers each early return of each loop both with and without the others.
* *Results.* Three times are what is needed for an execution to be interrupted
  after its upsert, the next to be interrupted too, and the last to clean up.
  `FewReports` keeps at most two resources reported at a time, by one rule or
  one by each, and leaves the third execution to one rule alone: two rules
  interact only by touching each other's rows, which two executions show.
  Resources are symmetric.
* *Display.* Three nodes give loops, two- and three-cycles, cross and forward
  edges and a second starting node on visited ground.
* *Frontend.* Two or three requests under way at once (three to six for the explorer in
  the course of a visit) let any two overtake each other; one or two failures,
  one or two changes by scans; two or three items of each kind, chosen in
  `MCFrontend` so that categories, filters, links and null lists all
  occur, and a rule that two controls share. Two submissions of the form at
  once are what is needed for a left form beside a new one; they differ in
  nothing (`FormSymmetry`), and have one name, since rows of different names do
  not meet. One request of each dialog may be left behind by its table. The
  inventory of `front_patient` has a database without an endpoint and an
  instance with a key pair, that of `front_pages` an instance with a key pair
  and no role; the list of accounts may fail once in both. A patient user
  (`Patient = TRUE`) acts on a page only once the requests it waits for have
  been answered; requests fail only where a property is about failure. These
  are the conditions under which the properties of `front_patient` hold;
  section "Further disagreements" says what happens without them.
  `Appearing = FALSE` in the passing runs leaves to `alerts_v_stale` the case
  of an alert that is first reported while the page is open.

`scan_live` assumes weak fairness of the loops, the launch and the jobs: the
Go scheduler runs every goroutine, a job ends or fails. It assumes strong
fairness of the two wake-ups, because `Timely` disables a wake-up for the
instant in which the other loop is about to take the free mutex, and a sleep
nevertheless ends. Nothing is assumed of users, faults or crashes, which are
bounded in number; a server restart is excluded, since the monitor then waits
for ever (see below). `display` assumes only that a sequential function that
can take a step takes it. `front_patient` assumes weak fairness of `Answers`
(a timer that is due fires, the backend serves, an answer is delivered) and
of `Resumes` (a handler suspended at an `await` whose promise is settled goes
on, a nested table gets its rows): this is the event loop of the browser and a
backend that runs. Users, scans and failures owe nothing.

`CHECK_DEADLOCK FALSE` is set for `display` only, where a function returns,
and for `results_v_lastrun`, which has a single execution.

### Findings

* `scan_v_rules`: all errors of rules are logged and skipped, after which the
  accounts become PASSED although no rule may have succeeded (`control.go:111`
  against the comment in `control.go:31`).
* `scan_v_ready`: a Rescan of an account whose job is running sets READY, which
  the monitor does not notice; the row then takes the running job's result and
  the request is lost (`control.go:277` against `control.go:27`).
* `scan_v_readd`: an account deleted and added again during its job takes the
  result of the job of the deleted one (`control.go:218` against `control.go:29`).
* `results_v_lastrun`: a restart of the backend erases `last_run` of every rule,
  since `UpdateAll` writes the zero time (`rules.go:189` against the comment in
  `rules.go:163`).
* `alerts_v_stale`: an answer that is older than the alert of the address and
  arrives last makes the page show 404 for a valid address, for good
  (`Alerts.tsx:94` against the comment in `Alerts.tsx:130`).

### Further disagreements

Met while modelling; no run stands for them, either because nothing in the
repository promises otherwise or because a property is stated with the
condition that excludes them.

* If the cartography container restarts during a job, `/get_status` answers
  READY for ever and the monitor never ends, with the mutex held
  (`control.go:210`). The same `UpdateAll` that erases `last_run` switches on
  again every rule that a user switched off (`rules.go:189`).
* Requests that overtake each other or fail leave a switch (`RuleToggle.tsx:25`),
  a mute button (`ToggleMuteButton.tsx:31`, `AlertsTableOps.tsx:168`), a graph or
  a cleared panel (`Explore.tsx:67`, `:103`) showing what is not so; a switch
  also keeps an old value when its row is filtered away and back
  (`RuleToggle.tsx:13`), and a graph stays that of the previous asset if the
  next one keeps the kind of path (`Explore.tsx:274`). Hence the patient user of `SwitchesTell` and
  `GraphOfChoice`.
* An answer for another category is put into the table by the class of the
  current one (`AssetsInventory.tsx:120`), and throws if that class
  dereferences a field it lacks; so do a null list of an instance
  (`EC2Intsance.tsx:186`) and a null endpoint of a database
  (`RDSInstance.tsx:148`). After a failed request the rows carry the category
  all the same (`:78`). Hence the user of `AssetsAreFound`. Its nulls are
  part of the property: the page throws only over an asset that lacks what the
  class of its own category reads (`Showable`), never over a search or a link.
  A link of a key pair leads to a category that cannot show it, and one to an
  asset the graph has lost leads to an empty table: `LinkFindsAsset` is about
  the assets that are there.
* `AddNewAccount.tsx` lets users leave the form while its submission is under
  way (`Settings.tsx:37`, `Tabs.tsx:35`). Its handler runs on, and on success
  switches the tab under a later form, which is lost with what was entered
  (`AddNewAccount.tsx:178`); an error of it is shown nowhere. Two forms may post
  in parallel; the database lets one of those for a name succeed
  (`settings.go:99`). `RetriesAreSafe` says what holds all the same.
* Nobody checks access keys: the form posts empty ones
  (`AddNewAccount.tsx:126`), the handler stores them (`settings.go:92`), and the
  account cannot be scanned. `SubmissionsFit` speaks of regions and profiles.
* The list that a dialog asks for after its request is awaited without a
  `catch` (`ConnectedAccounts.tsx:160`, `:226`): if it fails, the dialog stays
  open with its button disabled for as long as the table is shown. This is the
  exception of `ButtonsComeBack` (`Stuck`).
* A dialog whose own request failed goes on as if it had not
  (`ConnectedAccounts.tsx:54`, `:114`). If the account is removed meanwhile by a
  request that an earlier table left behind, the list may be older than the
  removal: `RemovedIsGone` is about dialogs of which no request has failed. A
  poll that was served before the removal and is answered after the dialog
  has closed shows the account once more, until the next poll.
* A failed request leaves the page of alerts blank (`Alerts.tsx:104`).
* Account rows show RULES_RUNNING as a failure (`ConnectedAccounts.tsx:92`) and
  a progress of NaN for a running time of zero, which `omitempty` drops from
  the answer (`:78`, `models/account_details.go:17`); "View results" leads to
  `/alerts`, which has no route (`:273`, `App.tsx:62`).
* The filter of severities offers "Medium" where rules say "Moderate"
  (`AlertsTableOps.tsx:760`).
* A rule of a framework that has no row in `rule_data` empties the whole report
  (`get_compliance_framework.go:101`). `ReportComesUp` supposes there is none.
* Several queries of the catalogue can return one resource in two rows, upon
  which the rule's INSERT fails at every execution
  (`vpc/block_public_server_admin_ingress_ipv4.go:33`, the attack paths of third
  parties, `cloudtrail/bucket_not_publicly_accessible.go`).
  `AlertsMirrorResults` shows that the alerts then stay those of the last
  execution that worked.

## 4. Proofs

Checked by the TLA+ proof system, for every value of the constants. Each
theorem about a component starts from an inductive invariant: the property
alone is not kept by every step, since a state that has it need not be one the
code can reach. What the invariant adds is said below.

* `ScanPipelineProofs` (`TypeCorrect`, `MutexRespected`,
  `RulesNeverDuringScan`). `ScanInv`: besides the type, that a loop
  holds the mutex exactly within its critical section, it says that no row is
  CARTOGRAPHY_PASSED or RULES_RUNNING while the server has a job
  (`JobsExcludeScannedRows`), because a job is started only after a reset
  within the same critical section (`ResetBeforeStart`) and a row gets such a
  status only from an answer of an idle server (`TerminalReplyFromIdleServer`).
  The third holds although the old job of a crashed backend may still run,
  since the answer is about the server.
* `ScanPipelineProofs`, what `scan_status` tells, from the same invariant.
  `ScansFollowLifecycle`: `ScanPipeline` implements `ScanLifecycle`, one lemma
  for the steps of each loop and one for those of the environment; what the
  refinement needs besides `ScanInv` is that the row the monitor is about to
  write is not yet scanned, and that rows with a job on the server are not
  (`RowsInv`).
  `StatusesAreBacked`: as long as no account is deleted, the monitor asks only
  about the job it started last, so what it reads of the server is of its own
  account (`MonitorFollowsItsJob`), although the server has one status for all.
  `PassedScansAreKept`: with the sleeps of the code (`Timely`) and no database
  error the loop of rules waits for the mutex before a scan can end, and a row
  that waits for its rules keeps the other loop asleep or waiting
  (`RulesTakeOver`).
* `RulesProofs`, the results of a rule. `MirrorInv`: before the upsert every row is
  older than the time of this execution (`RowsNotFromFuture`), after it exactly
  the rows of its results carry that time (`UpsertedCarryStamp`), so the strict
  comparison deletes exactly the others. Hence, assuming `~ClockStepsBack`,
  `AlertsAreLatestResults`, `AlertsKeepHistory` and `ResultsImplementAlertBoard`;
  the last also needs that what is not an alert is blank
  (`AbsentRowsAreBlank`), as an alert that comes back would otherwise come
  back muted. `ResultsTypeCorrect` assumes nothing of the clock.
* `RulesProofs`, the graph drawn of them. `DfsInv`: the marked nodes are those on
  the stack, and a kept edge leads up the stack, or to a node that is done, and
  then to one that was done when the source's call returned. Hence
  `CyclesTypeCorrect` and `NoCycleIsDrawn`: along each edge of the result the
  set `before` strictly shrinks. `ReachInv`: kept edges lead to every visited
  node and down the stack, and every edge that was looked at leads to a visited
  node. Hence `NoNodeIsLost` and `OnlyBackEdgesAreLeftOut`.
  `PathsAreDrawn` goes from there to the whole of `ConvertToDisplayGraph`: a
  compressed path is a path of the graph that `removeCycles` is given, so by
  induction along the path all of its nodes are reached.
* `CompliancePageProofs`, assuming that frameworks are sequences of known
  rules. `CountInv`: after each statement the count is between the rules looked
  at that passed all along and those that passed at some moment. Hence
  `PercentsAreWitnessed`, and with `PercentEndsAreExact`, which is about the
  rounding, `EndsAreTrue` for frameworks of 1 to 199 rules. Those of the
  repository are within that; from 200 rules on it is not so: 199 of 200 are
  shown as 100. `ReportsAgree` needs of the results only their type, which
  `ReportInv` carries through scans.
* `AccountsPageProofs`. `AccountsInv`: tabs exist on the settings page only, so
  no way to the table finds an interval already set (`NoTimerIsLeft`); and as
  long as no request of a dialog has failed, an account whose removal was
  answered is gone from the backend and from the list that was asked for
  thereafter (`RemovalsAreKnown`, hence `RemovedStaysAway`). This uses that
  `ScanLifecycle` neither adds nor removes rows between requests of users.
  `RoomForOrphans` keeps the bound on requests that tables leave behind.
* `AddAccountFormProofs`. `FormInv`: the field of regions holds All Regions
  alone or a selection without it, which a request takes over together with
  the credentials of one method; an answer without error means the row is
  what was sent, which stays so because no row is ever replaced (`RequestInv`);
  the form displayed has at most one submission, and waits exactly while it
  has (`ButtonInv`), so no answer of a form that was left frees its button.
  Hence `RegionsAndProfilesAreFit`, `HiddenIsNotSent`, `ButtonWaitsForItsOwn` and
  `RetriesOverwriteNothing`, for any number of submissions at once. Accounts are
  not deleted in this module, else a row might be gone when its answer comes.
* `AlertsPageProofs`. `PageInv`: a lookup and its outcome are of the address as
  it is, because every change of the alert in the address starts it anew; so
  the panel is (`PanelShowsAddress`), and, assuming `~Appearing`, an address
  that is not found is invalid (`NotFoundIsInvalid`).
* `ExplorePageProofs`. `RequestsInv`: the kind of path outlives a change of
  asset only between assets that are not buckets. It may then be a kind the new
  asset has no button for, but a kind that stays is not asked for: the effect
  asks only for one that a button of the new asset gave. Hence
  `RequestsAreAnswerable`. `GraphInv`: of a user who waits for answers and
  clears an asset before choosing another (`Calm`), all requests on the way are
  of the choice, so whichever answer comes last draws it (`ChoiceIsDrawn`).
* `FrontendProofs`. `PagesInv` takes the invariants of the pages to the
  browser: a step of the browser is a step of its page, which it does not
  leave (`PageSteps`). For the pages above it cites the step lemmas of their
  modules, for the tables, the mute buttons and the inventory those proved
  here. Hence every invariant and every action property of the three runs of
  the frontend, for any pages, data and bounds: without further conditions
  `TypeOK`, `RowsInOrder`, `NoAlertIsLost`, `FiltersSurviveAlert`,
  `OnlyClicksWrite`, `PanelOfAddress`, `TimersMatchTab`, `SubmissionsFit`,
  `RetriesAreSafe`, `OnlyAnswerableRequests`, `InventoryAsMeant`,
  `PercentIsWitnessed`, `TablesAgree`; `OnlyInvalidIsNotFound` if no alerts
  appear meanwhile (`~Appearing`), `RemovedIsGone` if the table of accounts has
  the dialog (it speaks of runs in which no request of a dialog has failed), and of a user who waits (`Patient`) `GraphOfChoice`,
  `SwitchesTell`, `AssetsAreFound`. What the parts of `PagesInv` about the last
  four pages add to the types:
  - *Tables.* Each comparator, with the place of a row where it finds two
    equal, is a strict order on the rows (`KeyOrder`), so each rank is taken by
    one row (`EveryPlaceIsTaken`) and rows at higher ranks come later
    (`SortedByPlace`). For the table of alerts this needs that one column sorts
    at a time (`SortInv`), as the code compares by alerts first. The count of a row and the
    table below it are the same set of alerts under the same four filters
    (`AlertsAreCounted`); for the tables of rules, that there is a switch for
    each displayed row and no row before the answer (`RuleFields`).
  - *Requests.* A request sent adds one copy to the bag and one answered takes
    one away (`OneMoreCopy`, `OneCopyLess`), hence the bounds (`FewPosts`,
    `FewMutes`, `FewAsks`), and a step that takes a request from the bag is
    the only one that writes.
  - *Switches and buttons of a user who waits.* There is one request under way
    at most, and what the switch shows, or would show if its row came back, is
    what the rule will be once it is served (`RuleSwitches`, with `Due`); the
    buttons show what the database has, or will have after the post, or the
    answer to come replaces them (`ButtonsInv`).
  - *Inventory.* Rows are of the class of the category unless an answer is to
    come, since every change of the category asks (`RowsInv`); the item
    selected is the category and the search is what was last meant
    (`FilterAsMeant`): only a click in the sidebar changes the category to the
    item it has just selected, and only then is the search cleared. The columns
    of each of the thirteen classes are those of its headers, dereference
    nothing but the fields that `Reads` lists for its category, and link a list
    to the category of the assets it names (`ClassesFit`), so rows of the class
    of the category stand under theirs. Of a user who waits the answer to come
    is that of the category, so its own class builds it (`PatientInventory`),
    which throws over none of the assets that can be shown, whatever is
    searched for (`ShowableShows`, `OwnRowsShow`); and a link leads to the
    category of the field it stands in (`PatientGoTo`), whose table has the
    asset under its name among the rows displayed (`AssetsComeUp`).

The assumptions are the `ASSUME`s of the backend's modules (`NumRulesAssumption`,
`LimitsAssumption`, `RulesAssumption`, `InputsAssumption`, `PathsAssumption`
and the like) and `ConstantsFit` of each page: types of the constants, and that
the names which stand for "none" are not names of things. TLC evaluates all of
them on the instances it checks. `RemovedStaysAway` also assumes that the page
has the dialog it is about, `NotFoundIsInvalid` and the theorems of
`RulesProofs` about results the conditions named above, which section 2 explains.
`FrontendAssumption` adds, for a user who waits, that the requests of
switches, buttons and inventory do not fail. Of the graph nothing is assumed:
any field may be null, any name may dangle, any instance may have a key pair.
`Reads`, `Refers` and `IdOf` say apart from the classes what an asset of a category
must have to be shown and which category a field names; that each class needs
no more, and links to the right category, is proved, and a class with a wrong
link breaks `AssetsAreFound`.

A theorem about a page in a module of its own is about the page by itself,
for any constants; those of `FrontendProofs` are about `Frontend`, and say of
the browser what the runs check. There the data of the pages and the bounds
are constants too; the account table keeps its one slot for a poll and the
form its one region and profile, which the theorems of their own modules do not.

Two errors of the models came to light in the attempt to prove them. Guards of
a `CASE` overlapped in `AlertsPage`, `AlertsTable` and `TableOps`: TLC takes
the first that holds, the language leaves the choice open, and a proof has to
hold for each; they are `IF` now, in the order of the code. And an alert whose
name is that of a missing one would break the panel: `ConstantsFit` says there
is none.

Induction over the natural numbers is to be had for a set
(`RulesProofs!SetInduction`, from the well-foundedness of their order),
though not for an operator; that is how the loop of `CompressPaths` and the
walk along a path are dealt with. That a strict order excludes cycles, the last
step from `ResultDescends` to the absence of a cycle, is left to the reader.

Only model-checked: everything under fairness (`QueueDrains`, `Returns`,
`TablesCatchUp`, `ButtonsComeBack`, `AddressResolves`, `ReportComesUp`), which
is out of the prover's reach, since it needs `ENABLED`. All other properties of
the passing runs are proved.

## 5. Not modelled, and the plan

Left out for good: connections and migrations, texts, styles and layout, the
drawing of graphs, the report download, request logging, remediation texts,
declarations of sample infrastructure, container configuration. The graph
queries of the inventory and of the explorer are reads without state, of which
only the nulls in their answers matter to a page. `cartography/` is a
submodule whose source is not here.

Left for later, in this order:

1. The rule catalogue (`backend/rules`): for each family a small asset graph and
   its queries as operators from the graph to rows, with null and OPTIONAL
   MATCH as the query language has them. Can a query return one resource twice,
   is a pass the complement of a failure? `RuleResults` admits any answer, so
   nothing shown there depends on it.
2. Startup: the rules fetched from the server, demo mode.
