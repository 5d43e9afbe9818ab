CONSTANTS
    MaxEntries = 5
    MaxLength = 2
    MaxAddr = 5
    Scatters <- MCScatters
    Faults = {"load"}
SPECIFICATION FairSpec
INVARIANTS TypeOK SameTranslation FullyCoalesced
PROPERTY MergingEnds
