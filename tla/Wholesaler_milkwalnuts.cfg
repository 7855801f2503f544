SPECIFICATION Spec
CONSTANTS
    Inputs <- OnlyMilkWalnuts
    Statuses = 256
INVARIANT
    WaitsForSomebody
CHECK_DEADLOCK FALSE
