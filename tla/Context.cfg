SPECIFICATION PlaneSpec
CONSTANTS
    RefBase = 2
    Decades = {2}
    KnownProviders <- Known
    Pools <- MCPools
    TagsGiven <- MCTags
    Replies <- MCReplies
    Seeds <- MCSeeds
    Policies <- MCPolicies
    Protections <- MCProtections
    SpanBase = 10
    MaxSpans = 2
    SpanCap = 4
    MinKeep = 1
    DefaultReserve = 1
    MaxStrikes = 4
    MaxTombstones = 2
    Horizon = 2
    MaxSummary = 4
    MaxBody = 4
    Threshold = 2
    MaxRecords = 3
    MaxArtifacts = 2
    MaxArtifactBytes = 8
    MaxStoreBytes = 8
    MaxDeleted = 1
    DefaultBudget = 9
    BytesPerToken = 2
    Observations <- MCObservations
    Snapshots <- AllSnapshots
    CompiledTurns <- MCTurns
    Budgets <- MCBudgets
    BadOwners = {9}
    MaxLabel = 2
    MaxRevision = 2
    MaxGeneration = 2
    LayerInputs <- MCInputs
    ProjectSets <- MCProjects
    SkillDocs <- MCSkills
    Versions = {"", "v1"}
    NeverMerge = {9}
    Tools = {1, 2, 3}
    MaxLayerText = 3
    MaxPromptTools = 2
    MaxCeiling = 9
    MaxCanonical = 7
    MaxFiles = 2
    MaxFileBytes = 2
    MaxSkills = 2
    Roots <- MCRoots
    Parts = {"assembly", "compaction", "prompt"}
CONSTRAINT Small
INVARIANTS AssemblyTrue  PromptTrue
PROPERTIES TurnKeepsKey
CHECK_DEADLOCK FALSE
