CONSTANTS
    None = None
    Account = {"x", "y"}
    CategoryOf <- MCCategoryOf
    Affected <- MCAffected
    HealthDays = 1
    Limits = {2}
    HealthWrites = 1
    Recommended <- MCRecommended
    Unparsed = {"u"}
    Unresolved <- MCUnresolved
    RegionOf <- MCRegionOf
    Foreign = {"r3"}
    Away = {"r2", "r3"}
    MaxSnapshots = 1
    Functions <- MCFunctions
    TestNamed = {"f1"}
    Images = {"f4"}
    SdkMigrations = {"f3"}
    Files <- MCFiles
    Oversized = {"y2"}
    Breaking = {"x1", "y2"}
    RuntimeDays = 3
    SupportHorizon = 1
    MaxCritical = 2
    MaxHigh = 1
    MaxNames = 1
    Resource = {r1, r2, r3}
    Key = {k1}
    SystemManaged = {r2}
    GlobalResource = {r3}
    HomeResource = {r1}
    OwnResource = {r1, r3}
    OrgKeys = {k1}
    MaxSearch = 2
    MaxGiven = 2
    MaxChanges = 1
    MaxSweeps = 1
    Query <- MCQuery
    Item <- MCItem
    Unfilterable = {"dynamodb"}
    MaxOdd = 1
    ExpiryHorizon = 90
    Circuits <- MCCircuits
    Gateway = {"g1", "g2"}
    Associated <- MCAssociated
    Hosted = {2}
    Site <- MCSite
    Home = "r1"
    MaxDown = 1
    MaxErrors = 1
    MaxBuilds = 1
    Thread = {"s", "t"}
    Duration = 6
    Margin = 2
    Timeout = 2
    MaxReports = 4
    PageSize = 3
    BuiltIn = {"b"}
    Own = {"u"}
    Content <- MCContent
SPECIFICATION Spec
CHECK_DEADLOCK FALSE
INVARIANTS
    HealthListsHold
    VerdictsHold
    UpgradesHold
    
    PlanHolds
    ResilienceHolds
    SessionsHold
    UserDataHolds
