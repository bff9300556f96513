SPECIFICATION FairToA
CONSTANTS
    Tabs = {a, b}
    Gens = {1, 2}
    NoSocket = NoSocket
    MaxFaults = 1
    MaxTakeOvers = 1
    a = a
    b = b
INVARIANTS TypeOK OneHandle SdpFollowsSocket SocketsAgree NoAutoReconnect NeverStranded
CHECK_DEADLOCK FALSE
PROPERTIES RepairedA
