SPECIFICATION ControlPlaneSpec
CONSTANTS
    Misspelt <- OneMisspelt
    IdLen <- MCIdLen
    Registrations <- Few
    AliasDefs <- OneAlias
    Frames <- ManyFrames
    MetaFrames <- TwoMeta
    Handles = {h1, h2}
    MaxIdLen = 64
    MaxModels = 2
    MaxAliases = 1
    MaxCandidates = 3
    MaxCost = 7
    MaxIds = 2
    MaxPayloadModels = 2
    MaxPayloadProviders = 2
    MaxLifetime = 3
    MaxProofs = 2
    MaxWork = 4
    h1 = h1
    h2 = h2
    Payloads = {"a", "b"}
    BadFrames <- MCBadFrames
    MaxSequence = 7
    MaxFeed = 2
    MaxVersion = 1
    MaxLifetimes = 3
    HeaderBytes = 2
    FrameMax = 4
    SmallMax = 3
    Manifests <- MCManifests
    Peers <- MCPeers
    MaxBootstrap = 4
    WireMax = 3
    StepsMax = 3
    Sides = {"publication", "helper"}
CONSTRAINT Bounded
SYMMETRY HandleSymmetry
INVARIANTS VerifiedMeansCurrent Agreement CrossingSettled LaunchGated
PROPERTIES RefusalIsFinal
CHECK_DEADLOCK FALSE
