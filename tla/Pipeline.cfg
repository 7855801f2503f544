SPECIFICATION FairSpec
CONSTANTS
    c1 = c1
    c2 = c2
    c3 = c3
    Clients = {c1, c2, c3}
    MaxPool = 2
    Situations <- FourSituations
CHECK_DEADLOCK FALSE
INVARIANTS
    CountersHold
    AnsweredOnce
    TotalsTruthful
PROPERTY
    EveryClientAnswered
