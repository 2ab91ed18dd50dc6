SPECIFICATION ContinuitySpec
CONSTANTS
    Writers = {w1, w2}
    MaxSurvivors = 2
    MaxEpoch = 2
    MaxGeneration = 2
    MaxWrites = 2
    Protocols = {"p", "q", "Bad"}
    Tools = {"t", "u"}
    Scopes = {"s", "r"}
    WellFormed = {"p", "q", "t", "u", "s", "r"}
    Instances = {1, 2}
    MaxGrants = 2
    Ttl = 3
    LastTime = 2
    Gestures <- MCGestures
    LongIds = {"q"}
    Methods <- MCMethods
    MaxPending = 1
    MaxCalls = 3
    Procs = {p1, p2}
    RecordIds = {"a", "b", "c"}
    BadIds = {""}
    MaxRows = 3
    Files <- MCFiles
    MaxFragment = 4
    Outputs <- MCOutputs
    Configs <- MCConfigs
    Patterns = {"D", "M"}
    Mimicry = "M"
    MaxBlob = 9
    MaxScreen = 6
    Radix = 4
    MaxHeld = 1
    ClassOf <- MCClassOf
    LowerOf <- MCLowerOf
    SeedRecords <- MCSeedRecords
    Executions <- MCExecutions
    MaxHits = 3
    MaxShown = 6
    Inputs <- MCInputs
    FallbackId <- MCFallbackId
    FallbackKind <- MCFallbackKind
    Magic = 1
    Printable = {1, 2, 4}
    Illegible = {3}
    MaxId = 1
    MaxKind = 1
    MaxText = 2
    Secrets <- MCSecrets
    Haystacks <- MCHaystacks
    MaxSecret = 2
    Redacted <- MCRedacted
    Components <- MCComponents
    Servers = {"s1", "s2"}
    ServerConfigs <- MCServerConfigs
    MaxServers = 1
    Base = 1
    Cap = 3
    MaxShift = 2
    LastMs = 4
    MaxFailures = 3
    Dirs = {1, 2}
    Nodes <- MCNodes
    Disks <- MCDisks
    MaxBinary = 2
    Malformed = {"Bad", ""}
    MaxArgs = 1
    MaxRefs = 2
    MaxTimeout = 2
    MaxAllow = 1
    Environment <- MCEnvironment
    KnownProviders = {"git"}
    MaxSummary = 2
    MaxBody = 3
    Threshold = 2
    MaxRecords = 2
    MaxArtifacts = 2
    MaxArtifactBytes = 2
    MaxStoreBytes = 3
    MaxDeleted = 1
    DefaultBudget = 6
    BytesPerToken = 2
    RefBase = 3
    Decades = {2}
    ShelfSizes = {0, 1, 2, 3}
    Ages = {1, 2}
    MaxStored = 4
    UsageRows <- MCUsageRows
    BusSpecs <- MCBusSpecs
    Lowercase = {"a", "b"}
    NameChars = {"a", "b", "1"}
    MaxToolName = 2
    MaxDescription = 1
    MaxSchema = 1
    MaxNative = 1
    MaxTools = 2
    BusCalls <- MCBusCalls
    MaxUsage = 2
    MaxReason = 2
    Visible = {"a", "b", "s", "r", "p", "1"}
    MaxPushed = 4
    UsageFilters <- MCUsageFilters
    KeyPairs <- MCKeyPairs
    BadRoutes = {"Bad"}
    MaxCanonical = 60
    Questions <- MCQuestions
    Digests <- MCDigests
    PrefixOf <- MCPrefixOf
    Subjects = {"takeover", "consent", "ipc", "journal", "actions", "envelope", "launch", "mirror"}
SYMMETRY WriterSymmetry
INVARIANTS AdoptionExact  JournalKept  
CHECK_DEADLOCK FALSE
