CONSTANTS
    NPages = 5
    NBus = 5
    MaxSize = 9
    MaxUser = 5
    PAGE_SIZE = 2
    MAX_ORDER = 1
    MaxStale = 1
    MaxLost = 1
    MaxMerge = 1
SPECIFICATION Spec
INVARIANTS TypeOK NothingKept FreesOwnPages ViewsAgree UnmappedBeforeFreed
