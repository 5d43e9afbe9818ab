CONSTANTS
    MaxEvents = 4
    Calls = {"kill", "delete"}
    IsrFaults = {"init", "thread", "io"}
SPECIFICATION IsrFairSpec
INVARIANTS IsrTypeOK MaskedIsReported LateCallbackOnce
PROPERTIES NoLostInterrupt StopsWhenKilled
CHECK_DEADLOCK FALSE
