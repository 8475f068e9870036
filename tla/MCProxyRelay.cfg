CONSTANTS
    Peers = {p1}
    MaxFd = 5
    MaxSent = 1
SPECIFICATION Spec
CHECK_DEADLOCK FALSE
PROPERTY Relayed
