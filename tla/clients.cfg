CONSTANTS
    s1 = s1
    s2 = s2
    Cloud = Cloud
    Pinned = Pinned
    NoFile = NoFile
    NoValue = NoValue
    Down = Down
    None = None
    Sessions <- TwoSessions
    Manifest <- OnePlugin
    UserConfigs <- ThreeConfigs
    HermesFiles <- SomeFiles
    Models = {"big", "small"}
    Windows = {32, 64}
    HermesFloor = 64
    Interleaved = {"big"}
    HermesOk = {"small"}
    Replies <- SomeReplies
    DegenerateRunLen = 3
    ReplacementMaxPct = 5
    Commits <- TwoCommits
    Broken = {2}
    Budgets <- SomeBudgets
SPECIFICATION Spec
SYMMETRY Alike
INVARIANTS
    SessionIsDeclared
    AgentDirectoryKept
    HermesKeepsTheRest
    MarkerIsVerified
    HealthyMeansServing
CHECK_DEADLOCK FALSE
