\* Two terminals, two models, two server processes, any three commands.
CONSTANTS
    Clis = {c1, c2}
    Models = {m1, m2}
    Active = m1
    Pids = {s1, s2}
    NoPid = NoPid
    NoModel = NoModel
    NoCli = NoCli
    MaxCommands = 3

SPECIFICATION Spec
SYMMETRY Symmetry

INVARIANTS
    StopIsFinal
    BenchStopsOnlyItsOwn
    OrderlyUse

\* The commands typed end, and no more are typed.
CHECK_DEADLOCK FALSE
