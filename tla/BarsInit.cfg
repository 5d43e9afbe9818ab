CONSTANTS
    PDA_MAX_PCI_32_BARS = 4
    UpperRegs = {0, 1, 2, 4, 8, 12}
    Faults = {"open", "mmap"}
SPECIFICATION Spec
INVARIANTS TypeOK MatchesLayout
CHECK_DEADLOCK FALSE
