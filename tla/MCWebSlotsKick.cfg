SPECIFICATION Spec
CONSTANTS
    Conns = {c1, c2, c3}
    NSlots = 2
    InboxDepth = 2
    MaxReq = 1
    MaxAsked = 3
    BodyLen = 1
    RbufCap = 3
    Kinds = {"file"}
    Pipelining = FALSE
    Crowd = "any"
    c1 = c1
    c2 = c2
    c3 = c3
SYMMETRY Symmetry
INVARIANTS 
    SlotKept
CHECK_DEADLOCK FALSE
