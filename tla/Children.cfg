SPECIFICATION FairSpec
CONSTANTS
    Points = 2
    MaxChildren = 3
    Situations <- SixSituations
CHECK_DEADLOCK FALSE
INVARIANTS
    RecordsApart
    NormsMatchIds
    PointsInOrder
PROPERTIES
    CollectsTheEnd
    EverybodyEnds
