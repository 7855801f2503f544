SPECIFICATION FairReplaceSpec
CONSTANTS
    P1 = P1
    P2 = P2
    a = a
    b = b
    c = c
    Procs = {P1, P2}
    Letters = {a, b, c}
    Situations <- SomeSituations
CHECK_DEADLOCK FALSE
INVARIANTS
    AloneIsRight
    TextStands
PROPERTY
    EverybodyEnds
