CONSTANTS
    p1 = p1
    p2 = p2
    Procs <- MCProcs
    Bufs = {b1, b2}
    NoBuf = NoBuf
    MaxId = 1
    Calls <- AllOfThem
    Faults = {"exit", "open"}
SYMMETRY Symmetry
SPECIFICATION Spec
INVARIANTS TypeOK MappedHoldsLock FreeingIsExclusive
