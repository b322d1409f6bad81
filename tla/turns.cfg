CONSTANTS
    rising = rising
    falling = falling
    fast = fast
    NoCell = NoCell
    Cells <- ThreeCells
    Turbo <- TurboCells
    NumDice = 2
    NumSides = 2
    Points <- PointsOf
    BonusPoints <- BonusOf
    Yams <- YamsOf
    YamsRule = TRUE
    MaxCandidates = 2
    Valuations <- ValuationsOf
SPECIFICATION TurnSpec
CHECK_DEADLOCK FALSE
INVARIANTS
    DecisionIsAllowed
    PlaysTheBest
    ReviewAddsUp
    ChancesAreTheSolvers
PROPERTIES
    ImplementsSet
