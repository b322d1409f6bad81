CONSTANTS
    p1 = p1
    p2 = p2
    None = None
    Producers <- TwoProducers
    Capacity = 4
    MinStart = 3
    BatchSize = 2
    UsesNum = 3
    UsesDen = 2
    MaxAdd = 2
SPECIFICATION FairSpec
CHECK_DEADLOCK FALSE
INVARIANTS
    PicksUntouched
    
PROPERTIES
    TrainerKeepsDrawing
    StopEndsUnlessStranded
