\* Files of up to 7 lines; the cap on the extra file bites on "parts".
CONSTANTS
    Names <- MCNames
    BodyLines = {2, 3, 4}
    SpanLines = {1, 2, 3}
    Stem <- MCStem
    Common = {}
    ExtraCap = 28
    Skipped = Skipped
    Roots = {"app", "other", "parts"}
    DirOf <- MCDirOf
    Packages <- MCPackages
    PathOrder <- MCPathOrder
    TestCap = 2
    Paths = {"app", "parts", "other"}
    Written = "app"
    Given <- MCGiven
    Lines0 <- MCLines
    MaxLines = 7
    Totals = {6}
    Fills <- MCFills

SPECIFICATION Spec

INVARIANTS
    MasksAreSound
    GoldIsPerfect
    SampleIsFair
    CrossFileIsHonest
    VerdictIsTheTests

CHECK_DEADLOCK FALSE
