SPECIFICATION FairSupplierSpec
CONSTANTS
    c = 3
    n = 2
    Input <- Mixed
    SemMax = 32767
INVARIANTS
    PairsMatch
    ConsumersFinish
PROPERTY
    EverybodyLeaves
CHECK_DEADLOCK FALSE
