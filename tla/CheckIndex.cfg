SPECIFICATION FairSpec
CONSTANTS
    MaxInt = 3
    MaxUint = 7
    MaxHeight = 3
    Docs <- MCDocs
INVARIANTS
    TypeOK
    NothingSkipped
    NoRework
    OnlyKnownHeights
    OnlyLowestGap
PROPERTIES
    CheckEnds

