CONSTANTS
    w1 = w1
    w2 = w2
    g1 = g1
    g2 = g2
    None = None
    NoGame = NoGame
    Workers <- TwoWorkers
    Games <- TwoGames
    NumPlayers = 2
    Turns = 2
    MaxCollect = 1
    PastSeats <- SeatOfSecond
    WeightMayDrop = FALSE
SPECIFICATION StopSpec
CHECK_DEADLOCK FALSE
INVARIANTS
    DecidesOnOwnPosition
    TrajectoryIsOwn
PROPERTIES
    EveryGameCompletes
    
