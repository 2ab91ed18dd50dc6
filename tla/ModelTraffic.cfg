SPECIFICATION TrafficSpec
CONSTANTS
    Misspelt <- OneMisspelt
    IdLen <- MCIdLen
    Registrations <- Many
    AliasDefs <- ManyAliases
    Requests <- Wants
    GrantDefs <- MCGrants
    Scopes <- TwoScopes
    MaxIdLen = 64
    MaxModels = 3
    MaxAliases = 2
    MaxCandidates = 3
    MaxCost = 7
    MaxGrants = 2
    MaxScopesPer = 2
    MaxEcho = 2
    MaxScopeLen = 64
    PrefixLen = 9
    MaxWireId = 3
    MaxReason = 2
    TurnRequests <- MCTurnRequests
    Endpoints <- MCEndpoints
    Adapters <- MCAdapters
    Answers <- MCAnswers
    MaxRequestTimeout = 4
    MaxStops = 1
    MaxStopBytes = 1
    MaxSchema = 2
    MaxRequestBytes = 3
    MaxHeaderBytes = 2
    MaxResponseBytes = 3
    ReadSlack = 1
    MaxHostLen = 2
    MaxPathLen = 2
    MaxKeyLen = 2
    MaxKeepAliveLen = 2
    MaxBody = 26
    MaxDepth = 8
    Bodies <- MCBodies
    Streams <- MCStreams
    Payloads <- MCPayloads
    MaxLine = 3
    MaxEvent = 3
    MaxToolCalls = 2
    SinkCapacity = 1
    MaxFragment = 4
    Texts <- MCTexts
    MaxPart = 2
    MaxSeq = 3
    MaxWireSeq = 6
    SinkRoom = 2
    MaxTurns = 2
    MaxBatches = 2
    MaxGenerations = 2
    MaxInbox = 2
    Situations <- MCSituations
    HostPrefixes <- MCHostPrefixes
    Prompts <- MCPrompts
    ActionTexts <- MCActionTexts
    ZoneBudgets <- MCZoneBudgets
    MaxRecent = 2
    LogDepth = 2
    MaxActions = 4
    Legs = {"selection", "compile", "call", "walk", "stream", "fragments"}
INVARIANTS SelectionTrue  StreamTrue
CHECK_DEADLOCK FALSE
