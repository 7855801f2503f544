SPECIFICATION FairSpec
CONSTANTS
    m = 3
    matrixSize = 8
    Lengths <- LongOrShort
    Interrupts = TRUE
INVARIANTS
    SecondPartSeesAll
    OutputComplete
PROPERTY
    OutputWritten
CHECK_DEADLOCK FALSE
