CONSTANTS
    w1 = w1
    w2 = w2
    w3 = w3
    c1 = c1
    c2 = c2
    g1 = g1
    g2 = g2
    g3 = g3
    b1 = b1
    b2 = b2
    NoBatch = NoBatch
    NoGame = NoGame
    NoThread = NoThread
    Workers <- TwoWorkers
    Coordinators <- TwoCoordinators
    Games <- ThreeGames
    Batches <- TwoBatches
    MaxTensors = 2
    MaxRequests = 2
    CommitterMayLag = FALSE
SPECIFICATION Spec
SYMMETRY Symmetry
CHECK_DEADLOCK FALSE
INVARIANTS
    PushedComplete
    GameHeldOnce
PROPERTIES
    ImplementsExchange
