\* One command, a shard of three blocks, three improper answers.
CONSTANTS
    Pullers = {p1}
    Size = 3
    NoFile = NoFile
    NoSize = NoSize
    LocalCopies <- MCCopies
    PublishedSizes <- Listed
    MaxFaults = 3
    CleanCuts = TRUE

SPECIFICATION FairSpec

INVARIANTS
    WholeOrResumable

PROPERTIES
    PullCompletes

\* A shard that is installed is not pulled again.
CHECK_DEADLOCK FALSE
