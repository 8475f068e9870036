CONSTANTS
    n1 = n1
    n2 = n2
    n3 = n3
    n4 = n4
    Nodes <- MCListNodes
    NULL = NULL
    MCKeys = 7
    Timers = 5
    MainNodes = 16
    MaxErased = 3
    RbNodes <- MCTreeNodes
    RbKey <- MCKey
    AvlVals <- MCAvlVals
    SplayVals <- MCSplayVals
    GoLists = {l1, l2}
    Elements = {e1, e2, e3}
    nil = nil
    StackSize = 3
    StackValues = {1, 2}
    SortValues = {1, 2, 3}
    MaxSize = 5
    Bytes = {0, 1, 62, 128, 251, 255}
    MaxData = 4
SPECIFICATION SpecContainers
CHECK_DEADLOCK FALSE
INVARIANTS
    LinksAgree
    WalkLinked
    PointersAgree
    TreesBalanced
    CallsLeaveRight
PROPERTIES
    ImplementsLists
    ImplementSortedList
    CallsEnd
