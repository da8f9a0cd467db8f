CONSTANTS
    m1 = m1
    m2 = m2
    Scenarios = {"queues"}
    Prompts = {}
    MaxQueue = 3
    MaxTurns = 3
    MaxCancels = 0
    MaxWithdrawals = 0
    MaxReviews = 0
    MaxElsewhere = 0
    MaxFailures = 0
    MaxErrors = 1
    MaxLost = 0
    MaxCrashes = 0
    StartedNamesTurn = TRUE
\* The system rests when no turn runs and the users' bounds are used up.
CHECK_DEADLOCK FALSE
SPECIFICATION MCSpec
PROPERTIES
    SubmittedWhenIdle
