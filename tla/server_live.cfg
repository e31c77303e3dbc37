\* Liveness: no symmetry, any two commands.
CONSTANTS
    Clis = {c1, c2}
    Models = {m1, m2}
    Active = m1
    Pids = {s1, s2}
    NoPid = NoPid
    NoModel = NoModel
    NoCli = NoCli
    MaxCommands = 2

SPECIFICATION FairSpec

PROPERTIES
    NothingHangs

\* The commands typed end, and no more are typed.
CHECK_DEADLOCK FALSE
