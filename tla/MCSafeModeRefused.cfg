SPECIFICATION Spec
CONSTANTS
    Clients = {c1}
    Files <- AllFiles
    Own <- OwnStore
    Factory <- FactoryStore
    Unreadable <- NoRead
    Bodies <- AllBodies
    FormatOutcomes = {TRUE}
    WriteOutcomes = {TRUE, FALSE}
    c1 = c1
    c2 = c2
    c3 = c3
    mine = mine
    seed = seed
    f1 = f1
    f2 = f2
INVARIANT RefusedKeepsStore
CHECK_DEADLOCK FALSE
