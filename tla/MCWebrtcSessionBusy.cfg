SPECIFICATION Spec
CONSTANTS
    Tabs = {a}
    Gens = {1, 2}
    NoSocket = NoSocket
    MaxFaults = 1
    MaxTakeOvers = 0
    a = a
    b = b
PROPERTIES ReconnectNotBusy
CHECK_DEADLOCK FALSE
