SPECIFICATION FairSpec
CONSTANTS
    requestSize = 4
    Failures = {"create", "refused", "reset", "closed", "SIGINT"}
INVARIANTS
    NobodyEarly
    GoodbyeIsLast
PROPERTY
    EverybodyPasses
CHECK_DEADLOCK FALSE
