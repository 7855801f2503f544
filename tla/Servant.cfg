SPECIFICATION FairSpec
CONSTANTS
    c1 = c1
    c2 = c2
    c3 = c3
    unwritten = unwritten
    cities <- ThreeCities
    Dataset <- DatasetOfThree
    Ranges <- FirstTwoOrBeyond
    tableSize = 3
    HashCodes <- Collisions
    Conns = {c1, c2, c3}
    Sends <- AllOneExit
    Capacity = 2
    Memory = {unwritten}
    Stack <- AnOldRequest
    Failing = {"declare", "listen"}
CHECK_DEADLOCK FALSE
INVARIANTS
    CitiesFound
    AnswersRight
    ConnectionsAccounted
PROPERTY
    Served
