CONSTANTS
    p1 = p1
    p2 = p2
    Procs <- MCProcs
    Bufs = {b1, b2}
    NoBuf = NoBuf
    MaxId = 1
    Calls <- Deletes
    Faults = {}
SPECIFICATION FairSpec
INVARIANT LastDeleterRemoves
PROPERTY CallsReturn
