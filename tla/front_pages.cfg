CONSTANTS
    Pages = {"alerts", "accounts", "form", "explore", "inventory", "compliance"}
    Patient = FALSE
    Appearing = FALSE
    RuleCategory <- MCRuleCategory
    RuleSeverity <- MCRuleSeverity
    RuleRisks <- MCRuleRisks
    RuleWords <- MCRuleWords
    RulesListed <- MCRulesListed
    AlertedRules <- MCAlertedRules
    AlertTerms = {"bucket", "Critical"}
    RuleOfAlert <- MCRuleOfAlert
    AccountOfAlert <- MCAccountOfAlert
    StatusOfAlert <- MCStatusOfAlert
    PageCategoryOf <- MCPageCategoryOf
    ExploreCategory <- MCExploreCategory
    ExploreActions = {"s3:GetObject", "s3:PutObject"}
    ComplianceRules = {"mfa", "logs"}
    Accounts = {"a"}
    PageAsks = 2
    ComplianceWrites = 2
    AccountOrphans = 1
    FormSlots = {post1, post2}
    FormFaults = 1
    DialogKinds = {"scan", "remove"}
    FormNames = {"prod"}
    RuleTerms = {}
    MutedAlerts = {"bucket", "user"}
    Assets <- SomeAssets
    AssetTexts = {"", "alice", "net"}
    Frameworks <- OneFramework
    ComplianceResources = {"acc", "vm"}
    AccountPostFaults = 0
    AccountListFaults = 1
    ExploreAsked = 3
    RulePosts = 2
    RuleFaults = 1
    PageScans = 2
    PageFaults = 1
    MutePosts = 3
    MuteAsks = 2
    MuteFaults = 2
    AssetAsks = 3
    AssetFaults = 2
    ComplianceFaults = 1
SPECIFICATION Spec
SYMMETRY FormSymmetry
INVARIANTS
    TypeOK
    PanelOfAddress
    OnlyInvalidIsNotFound
    TimersMatchTab
    SubmissionsFit
    OnlyAnswerableRequests
    InventoryAsMeant
    PercentIsWitnessed
    TablesAgree
PROPERTIES
    RemovedIsGone
    RetriesAreSafe
