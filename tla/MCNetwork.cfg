CONSTANTS
    Peers = {p1, p2}
    MaxFd = 5
    MaxSent = 2
    MaxMessages = 3
    MaxNoise = 2
    MaxRead = 9
    Conns = {c1, c2}
    BUF_SIZE = 2
    MaxBytes = 7
    Macs = {m1, m2}
    Addrs = {a1, a2}
    Empty = Empty
    Nothing = Nothing
    MaxLines = 2
    FdLimit = 2
    Hosts = 2
    TEST_NUM = 2
    PKT_LEN = 2
    FailLimit = 1
    Rtts = {1, 2}
    Visitors = {v1, v2}
    NoVisitor = NoVisitor
    Listen = Listen
    BACKLOG = 2
    BUFLEN = 1
    REVLEN = 2
    MaxSend = 2
    NewLine = 10
    Letters = {1, 2}
    EchoBuf = 2
    MaxTyped = 4
SPECIFICATION NetworkSpec
CHECK_DEADLOCK FALSE
INVARIANTS
    
    
    RoomForRecv
    
    FramesDelivered
    
PROPERTIES
    NothingMissed
    RoundsEnd
