\* One terminal: any two commands, killed anywhere, over two builds.
CONSTANTS
    Procs = {p1}
    RunIds = {1, 2, 3}
    Sessions <- AllSessions
    Depths <- MCDepths
    ToolCases <- MCToolCases
    CallCases <- MCCallCases
    InstructionCases <- MCInstructionCases
    Probes <- MCProbes
    Tasks <- MCTasks
    Fills <- MCFills
    Verdicts <- MCVerdicts
    MaxBuild = 2
    Quiet = TRUE
    NoServer = NoServer
    NoRunId = 0
    NoCmd = NoCmd
    NoRow = NoRow
    NoDir = NoDir
    Blank = Blank

SPECIFICATION Spec

INVARIANTS
    RowsAreTrue
    ChecksTheFill
    NeverExonerated
    EndsWell
    DryRunCounts

PROPERTIES
    BenchEnds

\* The commands typed end, and no more are typed.
CHECK_DEADLOCK FALSE
