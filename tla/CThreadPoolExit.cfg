SPECIFICATION FairPoolSpec
CONSTANTS
    Workers = {w1, w2}
    Jobs = {j1, j2}
    None = None
CHECK_DEADLOCK FALSE
PROPERTY DestructorReturns
