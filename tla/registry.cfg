\* Two terminals, two models, two revisions and quantisations, any four commands.
CONSTANTS
    Clis = {c1, c2}
    Names = {n1, n2}
    Revs = {r1, r2}
    Quants = {q1, q2}
    NoName = NoName
    Absent = Absent
    NoFile = NoFile
    Blank = Blank
    Torn = Torn
    MaxCommands = 4
    Overlap = FALSE

SPECIFICATION Spec
SYMMETRY Symmetry

INVARIANTS
    EntryHasFiles

PROPERTIES
    SavesAreAtomic

\* The commands typed end, and no more are typed.
CHECK_DEADLOCK FALSE
