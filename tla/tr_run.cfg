CONSTANTS
    Half = Half
    NoMoments = NoMoments
    Torn = Torn
    Missing = Missing
    NoNet = NoNet
    Modes = {"train", "distil"}
    NumSteps = 6
    SwapInterval = 3
    CheckpointInterval = 2
    EvalInterval = 1
    MaxCheckpoints = 1
    Capacities = {2, 3}
    MinBuffer = 2
    StepsNum = 3
    StepsDen = 2
    MaxCollect = 1
    InitialTemperature = 2
    MinTemperature = 1
    DecayStart = 3
    DecayStartValue = 3
    HeuristicSteps = 4
    InitialRate = 3
    MinRate = 1
    LrPatience = 2
    LogsOnStart = TRUE
    MinSteps = 2
    Patience = 2
    MaxLaunches = 2
    MaxGames = 12
SPECIFICATION FairSpec
CHECK_DEADLOCK FALSE
INVARIANTS
    CompleteSurvives
    ResumedTogether
    ScheduleSurvives
    ReadsAreFinished
PROPERTIES
    BackoffLowers
    
