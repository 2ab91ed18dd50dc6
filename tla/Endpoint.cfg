SPECIFICATION EndpointSpec
CONSTANTS
    c1 = c1
    c2 = c2
    Clients = {c1, c2}
    Misspelt <- OneMisspelt
    IdLen <- MCIdLen
    RefBase = 12
    Decades = {}
    Cleaned <- MCCleaned
    BadToolNames <- NoNames
    KnownProviders <- Known
    GrantedTo <- MCGranted
    Templates <- AllTemplates
    Views <- MCViews
    ProviderReplies <- MCProviderReplies
    ToolReplies <- MCToolReplies
    RecordKinds <- MCRecords
    ToolSpecs <- MCTools
    Raws <- MCRaws
    Pins <- MCPins
    ToolConsents <- MCConsents
    Registrations <- MCModels
    AliasDefs <- MCAliases
    MaxIdLen = 8
    MaxModels = 1
    MaxAliases = 1
    MaxCandidates = 2
    MaxCost = 7
    MaxTools = 1
    MaxSchema = 2
    MaxDescription = 2
    MaxTime = 9
    MaxSummary = 4
    MaxBody = 4
    Threshold = 2
    MaxRecords = 2
    MaxArtifacts = 2
    MaxArtifactBytes = 4
    MaxStoreBytes = 6
    MaxDeleted = 1
    DefaultBudget = 8
    BytesPerToken = 2
    MaxText = 4
    MaxList = 2
    MaxPrefix = 4
    Ttl = 1
    MaxTimeout = 2
    MaxArgs = 2
    MaxResult = 2
    MaxNow = 2
    MaxWork = 3
CONSTRAINT Bounded
INVARIANTS  AnswersTrue CurrentMeansUnchanged
CHECK_DEADLOCK FALSE
