CONSTANTS
    NumPlayers = 2
    Columns = {"Mid"}
    RowNames <- CleanRows
    NumRows = 5
    Row6s = 2
    Rolls <- TwoThrows
    Yams <- YamsOf
    Raw <- RawOf
    Possible <- PossibleOf
    Bonus <- BonusOf
    YamsRule = TRUE
SPECIFICATION Spec
CHECK_DEADLOCK FALSE
INVARIANTS
    SumsInterlock
    SolverAgrees
    GoldenIsRebuilt
PROPERTIES
    ScoreNeverHurts
