CONSTANTS
    a = a
    b = b
    NDevices = 3
    Ids = {a, b}
    IdOf <- MCIdOf
    IdTable = {a}
    Lists <- MCLists
    NBuffers = 2
    FirstEntries = 1
    MaxEntries = 2
SPECIFICATION Spec
INVARIANTS TypeOK FindsDevices ObjectsAccounted ListsBuffers
PROPERTY CallsEnd
