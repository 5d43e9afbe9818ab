CONSTANTS
    Threads = {t1, t2, t3}
    Privs = {o1, o2, o3}
    Names = {n1, n2}
    NULL = NULL
    Kinds = {"kernel", "user"}
    Faults = {"sysfs"}
SYMMETRY Symmetry
SPECIFICATION Spec
INVARIANT BuffersComplete
PROPERTY ActsAtomically
