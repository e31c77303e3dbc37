\* Two runs, interrupted anywhere, reported and compared.
CONSTANTS
    NoSummary = NoSummary
    NoScore = NoScore
    NoAnswer = NoAnswer
    NoExec = NoExec
    Absent = Absent
    NotMeasured = NotMeasured
    Voided = Voided
    MaxSignTestN = 6
    Scenarios <- MCScenarios

SPECIFICATION Spec

INVARIANTS
    ComparisonMirrors
    ReportAgrees
    SignTestIsExact

\* Both runs are recorded and nothing is left to append.
CHECK_DEADLOCK FALSE
