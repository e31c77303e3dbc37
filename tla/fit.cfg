\* What this machine can hold, as run, recommend and graph tell it.
CONSTANTS
    NoSummary = NoSummary
    NoTag = NoTag
    NoSize = NoSize
    Unknown = Unknown
    NoHeader = NoHeader
    MiB = 8
    OverheadBytes = 24
    PadTo = 4
    ReservePerToken = 1
    Repos <- MCRepos
    Templates <- MCTemplates
    Ladder = {4, 6}
    Wireds <- MCWireds
    Engines <- MCEngines
    Memories <- MCMemories
    Cores = {80}
    Floors <- MCFloors
    Caches <- MCCaches
    Defaults <- MCDefaults
    Sweeps <- MCSweeps
    MaxRuns = 2
    MaxBuilds = 2
SPECIFICATION Spec
INVARIANTS
    FrontierIsTrue
    VerifiedLaunchesFit
