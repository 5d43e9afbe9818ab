CONSTANTS
    Devices = {d1}
    Threads = {t1, t2}
    Buffers = {b1, b2}
    NBars = 2
    NULL = NULL
SPECIFICATION Spec
INVARIANTS TypeOK UnboundHasNothing CallbacksLive
PROPERTY DriverReturns
CHECK_DEADLOCK FALSE
