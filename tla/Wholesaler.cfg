SPECIFICATION FairSpec
CONSTANTS
    Inputs <- ServedOrWrong
    Statuses = 256
INVARIANTS
    DeliveryIsRight
    TotalIsRight
PROPERTY
    EverythingServed
CHECK_DEADLOCK FALSE
