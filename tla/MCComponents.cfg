INIT MCInit
NEXT MCNext
CHECK_DEADLOCK FALSE
CONSTANTS
    Parts = {"loading", "audit", "scanner", "properties", "ip", "multipart", "arguments", "algorithms", "targets",
             "lua", "record", "writing"}
    RulesSets = {"server", "location"}
    Directives <- AllDirectives
    NumPhases = 2
    MaxDirectives = 2
    MaxMerges = 3
    RuleSets = {r1, r2}
    Paths = {"a", "b"}
    Files <- MCFiles
    MaxLoads = 3
    MaxParses = 2
    MaxTexts = 3
    MaxPrevious = 2
    Owners2 = {"o1", "o2"}
    Tracked = {"ruleEngine", "unicodeMap", "debugLevel"}
    Texts = {"a", "b"}
    MimeTypes = {"t1"}
    MaxSettings = 4
    IpBits = 4
    Networks <- MCNetworks
    MaxNetworks = 3
    BodyLines <- MCLines
    MaxLines = 8
    MaxAfterFlaw = 1
    Rests = {"none", "text", "final"}
    Confs <- MCConfs
    NoFilesLimit = 0
    Keys = {"", "k"}
    MaxDepths = {1, 3}
    ArgLimits = {1, 3}
    MaxEvents = 7
    Algorithm <- MCAlgorithm
    Fragments <- MCFragments
    MaxLength <- MCMaxLength
    TargetKeys <- MCKeys
    Upper <- MCUpper
    KeyRegexes = {"pa"}
    MatchedKeys <- MCMatched
    MatchedNames <- MCMatchedNames
    TargetRules <- MCRules
    Requests <- MCRequests
    RuleLists <- MCRuleLists
    UpdateLists <- MCUpdates
    CtlTexts <- MCCtlTexts
    MaxUpdates = 1
    MaxCtls = 1
    LuaNames <- MCLuaNames
    LuaValues = {"x", ""}
    LuaTransforms <- MCLuaTransforms
    MaxRuns = 1
    MaxCalls = 2
    MaxChanges = 1
    LuaStored <- MCLuaStored
    AuditThreads <- MCThreads
    Deployments <- MCDeployments
    AuditConfs <- MCAuditConfs
    AuditTransactions <- MCLogged
    Modifiers <- MCModifiers
INVARIANTS
    UniqueIds
    OnlyLastChainIsOpen
    MarkersInEveryPhase
    LogsAreKept
    RecordsArrive
    RecordIsAsAsked
    ScannerFollowsParser
    TextsAreRead
    SettingsOfFiles
    IpMatchIsExact
    PartsAreWhole
    DoubtsAreFlagged
    ArgumentsAreWhole
    TransformationsAreExact
    
    InspectsItsTargets
    ScriptsAreContained
PROPERTIES
    EngineStateStays
