------------------------------- MODULE Frontend -------------------------------
(***************************************************************************)
(* The frontend: the browser shows one page (the routes of App.tsx), whose *)
(* component has its own state and its own requests to the backend.  As    *)
(* React keeps the hooks of a component in the order of their calls, the   *)
(* variables of the page stand in their order in s1 to s14.                *)
(*                                                                         *)
(* A patient user waits for answers, and requests do not fail where a      *)
(* property needs that; any other user does anything at any time.          *)
(*                                                                         *)
(* Pages about which there are proofs are instances of their modules of    *)
(* proofs, for FrontendProofs.                                             *)
(***************************************************************************)
EXTENDS Naturals, Sequences, FiniteSets

CONSTANTS
    Pages,      \* the pages a user may open
    Patient,    \* whether the user waits
    Appearing   \* whether scans report new alerts beside the page of alerts

\* What the pages show.
CONSTANTS
    Accounts, DialogKinds,  \* of the table of accounts
    FormNames,              \* what an account may be called
    RuleCategory, RuleSeverity, RuleRisks, RuleWords,   \* of each rule
    RulesListed, RuleTerms,     \* on the page of rules, and searched for there
    AlertedRules, AlertTerms,   \* in the table of alerts
    RuleOfAlert, AccountOfAlert, StatusOfAlert,
    PageCategoryOf,             \* of each alert an address may name
    ExploreCategory, ExploreActions,
    MutedAlerts,                \* those with a mute button
    Assets, AssetTexts,         \* of each category, and searched for
    Frameworks, ComplianceRules, ComplianceResources

\* How many requests may be under way or be sent, how often a scan may write,
\* how many requests may fail.
CONSTANTS
    AccountOrphans, AccountPostFaults, AccountListFaults,
    FormSlots, FormFaults,
    ExploreAsked,
    RulePosts, RuleFaults,
    PageAsks, PageScans, PageFaults,
    MutePosts, MuteAsks, MuteFaults,
    AssetAsks, AssetFaults,
    ComplianceWrites, ComplianceFaults

VARIABLES page, s1, s2, s3, s4, s5, s6, s7, s8, s9, s10, s11, s12, s13, s14

all == <<page, s1, s2, s3, s4, s5, s6, s7, s8, s9, s10, s11, s12, s13, s14>>

Part(f, S) == [r \in S |-> f[r]]
RulesShown == {RulesListed[i] : i \in DOMAIN RulesListed}
ListedCategory == Part(RuleCategory, RulesShown)
ListedSeverity == Part(RuleSeverity, RulesShown)
ListedRisks == Part(RuleRisks, RulesShown)
ListedWords == Part(RuleWords, RulesShown)
TableAlerts == DOMAIN RuleOfAlert
PageAlerts == DOMAIN PageCategoryOf
ExploreAssets == DOMAIN ExploreCategory

-----------------------------------------------------------------------------
AccountsTab == INSTANCE AccountsPageProofs WITH
    Accounts <- Accounts, Kinds <- DialogKinds, Times <- {0},
    Slots <- {"s"}, Demo <- FALSE, MaxOrphans <- AccountOrphans,
    PostFaults <- AccountPostFaults, ListFaults <- AccountListFaults,
    status <- s1, phase <- s2,
    at <- s3, tab <- s4, shown <- s5, late <- s6, ticking <- s7,
    polls <- s8, open <- s9, busy <- s10, reply <- s11,
    orphans <- s12, postFaults <- s13, listFaults <- s14

AccountForm == INSTANCE AddAccountFormProofs WITH
    Names <- FormNames, Profiles <- {"default"}, First <- "default",
    Regions <- {"us-east-1"}, Slots <- FormSlots, Faults <- FormFaults, form <- s1,
    profiles <- s2, asked <- s3, loading <- s4, message <- s5,
    request <- s6, tab <- s7, rows <- s8, faults <- s9

Explorer == INSTANCE ExplorePageProofs WITH
    Assets <- ExploreAssets, Category <- ExploreCategory,
    Actions <- ExploreActions, FirstAction <- "s3:GetObject",
    Calm <- Patient, MaxAsked <- ExploreAsked, loaded <- s1,
    typed <- s2, open <- s3, asset <- s4, query <- s5,
    action <- s6, graph <- s7, node <- s8, edge <- s9,
    asked <- s10, looked <- s11, count <- s12

AlertRows == INSTANCE AlertsTable WITH
    Rules <- AlertedRules, Category <- RuleCategory,
    Severity <- RuleSeverity, Risks <- RuleRisks,
    Words <- RuleWords, Alerts <- TableAlerts, Rule <- RuleOfAlert,
    Account <- AccountOfAlert, Status <- StatusOfAlert,
    Terms <- AlertTerms, category <- s1, muted <- s2,
    filters <- s3, opened <- s4, slide <- s5

RuleRows == INSTANCE RulesTable WITH
    Rules <- RulesListed, Category <- ListedCategory,
    Severity <- ListedSeverity, Risks <- ListedRisks,
    Words <- ListedWords, Terms <- RuleTerms,
    Home <- "misconfiguration", Waits <- Patient,
    Refilters <- ~Patient, MaxPosts <- RulePosts,
    MaxFaults <- RuleFaults, category <- s1, fetch <- s2,
    answer <- s3, data <- s4, filters <- s5, switch <- s6,
    posts <- s7, active <- s8, faults <- s9

AlertsRoute == INSTANCE AlertsPageProofs WITH
    Alerts <- PageAlerts, CategoryOf <- PageCategoryOf,
    NoRule <- "norule", MaxAsks <- PageAsks, MaxScans <- PageScans,
    Appearing <- Appearing, MaxFaults <- PageFaults, url <- s1,
    lists <- s2, group <- s3, inst <- s4, table <- s5,
    panel <- s6, alerts <- s7, scans <- s8, faults <- s9

MuteMenu == INSTANCE MuteButtons WITH
    Alerts <- MutedAlerts, MaxPosts <- MutePosts,
    MaxAsks <- MuteAsks, MaxFaults <- MuteFaults, Waits <- Patient,
    shown <- s1, asks <- s2, posts <- s3, muted <- s4,
    faults <- s5

AssetsRoute == INSTANCE AssetInventory WITH
    Inventory <- Assets, Typed <- AssetTexts, MaxAsks <- AssetAsks,
    MaxFaults <- AssetFaults, Waits <- Patient, category <- s1,
    selected <- s2, filter <- s3, rows <- s4, asks <- s5,
    crashed <- s6, faults <- s7, meant <- s8

ComplianceRoute == INSTANCE CompliancePageProofs WITH
    Rules <- ComplianceRules, Resources <- ComplianceResources,
    Frameworks <- Frameworks, Known <- ComplianceRules,
    MaxWrites <- ComplianceWrites, MaxFaults <- ComplianceFaults,
    board <- s1, latest <- s2, writes <- s3, faults <- s4,
    page <- s5, stats <- s6, cards <- s7, report <- s8,
    open <- s9

ASSUME FrontendAssumption ==
    /\ Patient \in BOOLEAN /\ Appearing \in BOOLEAN
    /\ Pages \subseteq {"accounts", "form", "explore", "table", "rules",
                   "alerts", "mutes", "inventory", "compliance"}
    /\ AccountsTab!ConstantsFit /\ AccountForm!ConstantsFit /\ Explorer!ConstantsFit
    /\ AlertRows!ConstantsFit /\ RuleRows!ConstantsFit /\ AlertsRoute!ConstantsFit
    /\ MuteMenu!ConstantsFit /\ AssetsRoute!ConstantsFit
    /\ ComplianceRoute!ConstantsFit /\ ComplianceRoute!FewRules
    /\ Patient => RuleFaults = 0 /\ MuteFaults = 0 /\ AssetFaults = 0

-----------------------------------------------------------------------------
\* A page that is shown alone, with its Init or its Next, and the places it
\* does not use.

Only5Init ==
    s6 = 0 /\ s7 = 0 /\ s8 = 0 /\ s9 = 0 /\ s10 = 0 /\ s11 = 0 /\ s12 = 0 /\
    s13 = 0 /\ s14 = 0
Only5 == UNCHANGED <<page, s6, s7, s8, s9, s10, s11, s12, s13, s14>>
Only8Init == s9 = 0 /\ s10 = 0 /\ s11 = 0 /\ s12 = 0 /\ s13 = 0 /\ s14 = 0
Only8 == UNCHANGED <<page, s9, s10, s11, s12, s13, s14>>
Only9Init == s10 = 0 /\ s11 = 0 /\ s12 = 0 /\ s13 = 0 /\ s14 = 0
Only9 == UNCHANGED <<page, s10, s11, s12, s13, s14>>
Only12Init == s13 = 0 /\ s14 = 0
Only12 == UNCHANGED <<page, s13, s14>>

Init ==
    /\ page \in Pages
    /\ \/ page = "accounts" /\ AccountsTab!Init
       \/ page = "form" /\ AccountForm!Init /\ Only9Init
       \/ page = "explore" /\ Explorer!Init /\ Only12Init
       \/ page = "table" /\ AlertRows!Init /\ Only5Init
       \/ page = "rules" /\ RuleRows!Init /\ Only9Init
       \/ page = "alerts" /\ AlertsRoute!Init /\ Only9Init
       \/ page = "mutes" /\ MuteMenu!Init /\ Only5Init
       \/ page = "inventory" /\ AssetsRoute!Init /\ Only8Init
       \/ page = "compliance" /\ ComplianceRoute!Init /\ Only9Init

Next ==
    \/ page = "accounts" /\ AccountsTab!Next /\ UNCHANGED page
    \/ page = "form" /\ AccountForm!Next /\ Only9
    \/ page = "explore" /\ Explorer!Next /\ Only12
    \/ page = "table" /\ AlertRows!Next /\ Only5
    \/ page = "rules" /\ RuleRows!Next /\ Only9
    \/ page = "alerts" /\ AlertsRoute!Next /\ Only9
    \/ page = "mutes" /\ MuteMenu!Next /\ Only5
    \/ page = "inventory" /\ AssetsRoute!Next /\ Only8
    \/ page = "compliance" /\ ComplianceRoute!Next /\ Only9

Spec == Init /\ [][Next]_all

\* A request is sent by its timer, served, or answered.
Answers ==
    \/ page = "accounts" /\ AccountsTab!PollStep("s") /\ UNCHANGED page
    \/ page = "form" /\ (\E s \in FormSlots : AccountForm!Serve(s) \/ AccountForm!Answer(s)) /\ Only9
    \/ page = "alerts" /\ (AlertsRoute!ServeList \/ AlertsRoute!TakeList) /\ Only9
    \/ page = "inventory" /\ (\E c \in AssetsRoute!Asked : AssetsRoute!getAllRows(c)) /\ Only8
    \/ page = "compliance" /\ ComplianceRoute!Backend /\ Only9

\* Beside them, handlers that wait go on, and nested tables get their rows.
Resumes ==
    \/ /\ page = "accounts" /\ UNCHANGED page
       /\ \E d \in AccountsTab!Dialogs : AccountsTab!DialogStep(d)
    \/ page = "alerts" /\ (\E ok \in BOOLEAN : AlertsRoute!TableAnswer(ok)) /\ Only9

\* The event loop starves neither; users, scans and failures owe nothing.
FairSpec == Spec /\ WF_all(Answers) /\ WF_all(Resumes)

-----------------------------------------------------------------------------
TypeOK ==
    /\ page = "accounts" => AccountsTab!TypeOK
    /\ page = "form" => AccountForm!TypeOK
    /\ page = "explore" => Explorer!TypeOK
    /\ page = "table" => AlertRows!TypeOK
    /\ page = "rules" => RuleRows!TypeOK
    /\ page = "alerts" => AlertsRoute!TypeOK
    /\ page = "mutes" => MuteMenu!TypeOK
    /\ page = "inventory" => AssetsRoute!TypeOK
    /\ page = "compliance" => ComplianceRoute!TypeOK

-----------------------------------------------------------------------------
\* Tables.

\* Rows are in the order that the headers show, of the category and the
\* severity chosen, and stand below the headers of their columns
\* (TableOpsUtils.tsx, AlertsTableOps.tsx:448, RulesTableOps.tsx:243).
RowsInOrder ==
    /\ page = "rules" => RuleRows!RowsInOrder /\ RuleRows!ColumnsUnderHeaders
    /\ page = "table" => AlertRows!RowsInOrder /\ AlertRows!ColumnsUnderHeaders

\* The number of alerts of a row, which the code computes apart, is that of
\* the nested table, and with every filter wide open no alert is in neither
\* the muted nor the unmuted view (AlertsTableOps.tsx:243).
NoAlertIsLost == page = "table" => AlertRows!CountsAreNested /\ AlertRows!NothingIsLost

\* A look at an alert and back leaves filters and order as they were, though
\* they travel in the address (AlertsTableOps.tsx:187).
FiltersSurviveAlert == [][page = "table" => AlertRows!FiltersSurviveAlert]_all

\* Only clicks write, each to its own rule or alert, and between clicks the
\* table of alerts changes only to what the backend answered, whatever comes
\* late (RuleToggle.tsx:15, ToggleMuteButton.tsx:7).
OnlyClicksWrite ==
    [][/\ page = "rules" => RuleRows!OnlyClicksSwitch
       /\ page = "mutes" => MuteMenu!OnlyClicksMute]_all

-----------------------------------------------------------------------------
\* Pages and their requests.

\* The panel and its graph are of the alert that the address names
\* (AlertsSlideover.tsx:17).
PanelOfAddress == page = "alerts" => AlertsRoute!PanelOfAddress

\* A page of alerts is not found only if its category or its alert is invalid
\* (Alerts.tsx:130), unless a scan reports new alerts meanwhile.
OnlyInvalidIsNotFound == page = "alerts" => AlertsRoute!OnlyInvalidIsNotFound

\* One interval while the table of accounts is mounted, none otherwise
\* (ConnectedAccounts.tsx:312).
TimersMatchTab == page = "accounts" => AccountsTab!TimersMatchTab

\* An account is gone from the table when the dialog that removed it closes,
\* whatever polls are on the way (ConnectedAccounts.tsx:219).
RemovedIsGone == [][page = "accounts" => AccountsTab!RemovedIsGone]_all

\* Regions and profiles are stored as the form lets users choose them, though
\* the backend checks the profile only (and nobody the access keys); credentials
\* that are hidden are not sent, and the button waits for the submission of its
\* own form, whichever others are under way (AddNewAccount.tsx:155).
SubmissionsFit ==
    page = "form" =>
        /\ AccountForm!RegionsAndProfilesFit /\ AccountForm!HiddenStaysHere
        /\ AccountForm!WaitsForItsOwn

\* Retries after a lost answer and submissions of forms that were left
\* overwrite nothing, only one of those for a name is told that it succeeded,
\* and only on the answer to such a one the tab changes, even if that takes a
\* later form away (AddNewAccount.tsx:178, settings.go:99).
RetriesAreSafe ==
    [][page = "form" => /\ AccountForm!FirstAttemptStands /\ AccountForm!OnlyOneIsTold
                        /\ AccountForm!LeftMeansStored]_all

\* The explorer asks only for graphs that the backend has a producer of
\* (Explore.tsx:266, get_access_explorer_graph.go:122).
OnlyAnswerableRequests == page = "explore" => Explorer!OnlyAnswerableRequests

\* Once all answers have come, in whatever order, assets stand under the
\* headers of their class, and the search is the one last meant
\* (AssetsInventory.tsx:120, SideBarNav.tsx:29).
InventoryAsMeant ==
    page = "inventory" => AssetsRoute!ColumnsUnderHeaders /\ AssetsRoute!FilterAsMeant

\* The percentage of a card, counted rule by rule beside scans, is between
\* what passed all along and what passed at some moment, and its ends are
\* exact (get_compliance_framework_stats.go:51 and 72).
PercentIsWitnessed ==
    page = "compliance" => ComplianceRoute!PercentIsWitnessed /\ ComplianceRoute!NoFalseEnds

\* The three tables of a compliance report and the count of the backend agree
\* (ComplianceTable.tsx:7, ComplianceRuleTable.tsx:7).
TablesAgree == page = "compliance" => ComplianceRoute!TablesAgree

-----------------------------------------------------------------------------
\* Patient users.

\* With nothing under way switches and buttons show what is so
\* (RuleToggle.tsx:26, ToggleMuteButton.tsx:30).
SwitchesTell ==
    /\ page = "rules" => RuleRows!SwitchShowsRule
    /\ page = "mutes" => MuteMenu!MutedIsShown

\* The graph drawn is that of the choice (Explore.tsx:67).
GraphOfChoice == page = "explore" => Explorer!GraphOfChoice

\* A table of the inventory holds the assets of its category, a link finds the
\* asset it names if the graph has it, and the page throws only over an asset
\* that lacks what its own class reads (AssetsInventory.tsx:120).
AssetsAreFound ==
    page = "inventory" =>
        /\ AssetsRoute!TableShowsCategory /\ AssetsRoute!LinkFindsAsset
        /\ AssetsRoute!CrashHasReason

\* Once the backend rests, the table of accounts shows its state for good,
\* although answers may come late (ConnectedAccounts.tsx:314); and the assets
\* of a category that is chosen come up, or the page throws over one of them
\* (AssetsInventory.tsx:120).
TablesCatchUp ==
    /\ <>[](page = "accounts" => AccountsTab!Settled)
           => <>[](page = "accounts" => AccountsTab!ShowsRows)
    /\ []<>(page = "inventory" => AssetsRoute!Settles)

\* A button that waits for a request becomes usable again: that of a dialog
\* whose request fails, unless the list that is asked for after it fails too,
\* which leaves the button disabled while the table stays; that of the form
\* whose answer is lost (ConnectedAccounts.tsx:150 and 160, AddNewAccount.tsx:155).
ButtonsComeBack ==
    \A a \in Accounts :
        \/ page = "accounts" /\ AccountsTab!Pending(<<a, "scan">>)
        \/ page = "form" /\ AccountForm!Submitting
        ~>
        \/ page = "accounts" /\ AccountsTab!Usable(<<a, "scan">>)
        \/ page = "accounts" /\ AccountsTab!Stuck(<<a, "scan">>)
        \/ page = "form" /\ ~AccountForm!Submitting

\* Once users and scans leave the page of alerts alone it does not stay blank,
\* and the alert of the address comes up in the panel (Alerts.tsx:91).
AddressResolves ==
    <>[][page = "alerts" => AlertsRoute!Backend]_all
        => <>[](page = "alerts" => AlertsRoute!ComesUp)

\* A compliance report that is asked for comes up, whatever scans write, if
\* every rule of it has a row (get_compliance_framework.go:101).
ReportComesUp ==
    (page = "compliance" /\ ComplianceRoute!ReportAsked)
        ~> (page = "compliance" => ComplianceRoute!ReportIsUp)
=============================================================================
