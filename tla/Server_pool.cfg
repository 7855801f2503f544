SPECIFICATION FairSpec
CONSTANTS
    c1 = c1
    c2 = c2
    c3 = c3
    s1 = s1
    s2 = s2
    numThreads = 2
    Conns = {c1, c2, c3}
    Sends <- ServantClientSilent
    Capacity = 1
    Servants = {s1}
    Cities <- CitiesDeclared
    Mortal = {s1}
    Memory = {unwritten}
    unwritten = unwritten
    Stack <- JustZeroed
    Disturbances = {"SIGINT", "spurious"}
    MaxAccepted = 2
CHECK_DEADLOCK FALSE
INVARIANTS
    TypeOK
    SizeInBounds
    AnswersTheRequest
    GoodbyeTellsAll
PROPERTIES
    StoresKeepDirection
    WorkGoesOn
