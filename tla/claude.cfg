\* Replies of up to four frames of sixteen kinds; nothing follows a failure.
CONSTANTS
    t1 = t1
    t2 = t2
    Slots <- MCSlots
    Frames <- MCFrames
    MaxFrames = 4
    AfterError = FALSE

SPECIFICATION FairSpec

INVARIANTS
    EndsProperly
    TextIsFaithful

PROPERTIES
    WellFormed
    ReplyEnds

\* A reply ends.
CHECK_DEADLOCK FALSE
