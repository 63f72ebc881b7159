CONSTANTS
    Pages = {"accounts", "form", "explore", "rules", "alerts", "mutes", "inventory", "compliance"}
    Patient = TRUE
    Appearing = FALSE
    RuleCategory <- MCRuleCategory
    RuleSeverity <- MCRuleSeverity
    RuleRisks <- MCRuleRisks
    RuleWords <- MCRuleWords
    RulesListed <- MCRulesListed
    AlertedRules <- MCAlertedRules
    AlertTerms = {"bucket", "Critical"}
    RuleOfAlert <- MCRuleOfAlert
    AccountOfAlert <- MCAccountOfAlert
    StatusOfAlert <- MCStatusOfAlert
    PageCategoryOf <- MCPageCategoryOf
    ExploreCategory <- MCExploreCategory
    ExploreActions = {"s3:GetObject", "s3:PutObject"}
    ComplianceRules = {"mfa", "logs"}
    Accounts = {"a"}
    PageAsks = 2
    ComplianceWrites = 2
    AccountOrphans = 1
    FormSlots = {1}
    FormFaults = 1
    DialogKinds = {"scan"}
    FormNames = {"prod"}
    RuleTerms = {"bucket"}
    MutedAlerts = {"bucket", "user", "path", "vm"}
    Assets <- AllAssets
    AssetTexts = {"", "acc", "alice", "vm", "nothing"}
    Frameworks <- TwoFrameworks
    ComplianceResources = {"acc"}
    AccountPostFaults = 1
    AccountListFaults = 1
    ExploreAsked = 6
    RulePosts = 1
    RuleFaults = 0
    PageScans = 1
    PageFaults = 0
    MutePosts = 1
    MuteAsks = 1
    MuteFaults = 0
    AssetAsks = 1
    AssetFaults = 0
    ComplianceFaults = 0
SPECIFICATION FairSpec
INVARIANTS
    SwitchesTell
    GraphOfChoice
    AssetsAreFound
PROPERTIES
    TablesCatchUp
    ButtonsComeBack
    AddressResolves
    ReportComesUp
