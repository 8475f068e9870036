SPECIFICATION FairPools
CONSTANTS
    Workers = {w1, w2, w3}
    Jobs = {j1, j2}
    None = None
INVARIANTS
    AfterBroadcast
    NoLostWakeup
    CppPoolRight
PROPERTIES
    ImplementsJobPool
    CppImplementsJobPool
    JobsTaken
    ShutdownsEnd
