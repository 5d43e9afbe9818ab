CONSTANTS
    Nodes = {n1, n2, n3, n4}
    NULL = NULL
    MaxId = 1
    Calls = {"alloc", "register", "lookup", "delete", "deviceDelete", "freeAll"}
    Faults = {"munlock"}
SYMMETRY Symmetry
SPECIFICATION Spec
INVARIANTS TypeOK LinksInverse NoObjectLost
PROPERTIES HeadStaysLive RefinesSequence
