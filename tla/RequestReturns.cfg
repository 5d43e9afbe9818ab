CONSTANTS
    Threads = {t1, t2}
    Privs = {o1, o2}
    Names = {n1}
    NULL = NULL
    Kinds = {"kernel", "user"}
    Faults = {"count", "memory", "sysfs"}
SPECIFICATION FairSpec
INVARIANT TypeOK
PROPERTIES ExclusionKept WritesReturn
CHECK_DEADLOCK FALSE
