CONSTANTS
    MaxEvalGames = 5
SPECIFICATION EvalSpec
CHECK_DEADLOCK FALSE
INVARIANTS
    ResultIsOfTheGames
