CONSTANTS
    Procs = {p1, p2}
    Messages <- MCMessages
    MaxStore = 2
    Trigger = 3
    DictSize = 2
    None = None
    Abandoned = Abandoned
    Old = 0
    OldDicts <- NoOldDict
    MaxFaults = 1
    Users = {u1, u2, u3}
    NoLock = NoLock
    PATIENCE = 1
    MaxTime = 4
    Size = 2
    Lens = {1, 3, 5}
    Offsets = {1, 4}
    MaxPos = 7
    Pushed = 0
    Buffer = 2
    MaxOffset = 4
    MaxFile = 6
    FileCount = 2
    Contents <- MCContents
SPECIFICATION SpecZlib
CHECK_DEADLOCK FALSE
INVARIANTS
    Valid
