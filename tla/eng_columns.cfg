CONSTANTS
    NumPlayers = 2
    Columns = {"Turbo", "UpDown"}
    RowNames <- SumRows
    NumRows = 4
    Row6s = 0
    Rolls <- OneThrow
    Yams <- YamsOf
    Raw <- RawOf
    Possible <- PossibleOf
    Bonus <- BonusOf
    YamsRule = FALSE
SPECIFICATION Spec
CHECK_DEADLOCK FALSE
INVARIANTS
    LegalIsRebuilt
    MoverCanPlace
