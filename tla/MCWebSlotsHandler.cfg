SPECIFICATION Spec
CONSTANTS
    Conns = {c1}
    NSlots = 1
    InboxDepth = 2
    MaxReq = 2
    MaxAsked = 3
    BodyLen = 1
    RbufCap = 3
    Kinds = {"handler"}
    Pipelining = FALSE
    Crowd = "none"
    c1 = c1
    c2 = c2
    c3 = c3
SYMMETRY Symmetry
INVARIANTS 
    FramingKept
CHECK_DEADLOCK FALSE
