CONSTANTS
    w1 = w1
    w2 = w2
    w3 = w3
    c1 = c1
    c2 = c2
    g1 = g1
    g2 = g2
    g3 = g3
    b1 = b1
    b2 = b2
    NoBatch = NoBatch
    NoGame = NoGame
    NoThread = NoThread
    Workers <- TwoWorkers
    Coordinators <- OneCoordinator
    Games <- TwoGames
    Batches <- TwoBatches
    MaxTensors = 2
    MaxRequests = 1
    CommitterMayLag = FALSE
SPECIFICATION StopSpec
CHECK_DEADLOCK FALSE
PROPERTIES
    StopStrandsOnlyInPool
    ImplementsExchangeLive
