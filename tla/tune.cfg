\* Two runs, each over one stage or two, killed anywhere.
CONSTANTS
    Number <- MCNumber
    DraftLength <- MCDraftLength
    NoValue = "none"
    NoSummary = NoSummary
    Requests <- MCRequests
    Lists <- MCLists
    Runs <- MCRuns
    Depth = 4096
    Significance = 5
    Tolerance = 15
    Defaults <- MCDefaults
    Extras <- MCExtras
    MaxRuns = 2
    NoRun = NoRun

SPECIFICATION Spec

INVARIANTS
    LaunchesWithinCeiling
    RecordIsTrue
    LinesAreReadAsMeant

\* A server nobody can name ends every run before it begins.
CHECK_DEADLOCK FALSE
