SPECIFICATION FairSpec
CONSTANTS
    MaxJobs = 5
    Width = 5
    DefaultLimit = 2
    MaxLimit = 3
    Limits = {1, 3, 4}
    Offsets = {0, 1, 14, 16}
INVARIANT TypeOK
INVARIANT SkipsBounded
INVARIANT RepeatsBounded
INVARIANT OnlyFarOffsetsRefused
PROPERTY WalkEnds
CHECK_DEADLOCK FALSE
