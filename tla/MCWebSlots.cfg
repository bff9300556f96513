SPECIFICATION Spec
CONSTANTS
    Conns = {c1, c2, c3}
    NSlots = 2
    InboxDepth = 1
    MaxReq = 2
    MaxAsked = 4
    BodyLen = 1
    RbufCap = 3
    Kinds = {"file", "inline", "refused", "put", "query", "forward"}
    Pipelining = FALSE
    Crowd = "calm"
    c1 = c1
    c2 = c2
    c3 = c3
SYMMETRY Symmetry
VIEW View
INVARIANTS TypeOK SlotKept ResponsesWhole NoRequestLost FramingKept NoSlotStranded OneSlotEach
CHECK_DEADLOCK FALSE
