CONSTANTS
    Handlers = {h1, h2}
    Crew = {0, 1}
    Requests <- MCRequests
    StartsOverlap = FALSE
    MaxTournaments = 2
    Nobody = Nobody
    a = a
    b = b
    c = c
SPECIFICATION FairSpec
CHECK_DEADLOCK FALSE
INVARIANTS
    TalliesAgree
    CompleteUnlessStopped
PROPERTIES
    RequestsAnswered
