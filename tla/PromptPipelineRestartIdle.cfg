CONSTANTS
    m1 = m1
    m2 = m2
    Scenarios = {"idle"}
    Prompts = {m1}
    MaxQueue = 1
    MaxTurns = 2
    MaxCancels = 0
    MaxWithdrawals = 0
    MaxReviews = 0
    MaxElsewhere = 0
    MaxFailures = 0
    MaxErrors = 0
    MaxLost = 0
    MaxCrashes = 1
    StartedNamesTurn = FALSE
\* The system rests when no turn runs and the users' bounds are used up.
CHECK_DEADLOCK FALSE
SPECIFICATION MCSpec
PROPERTIES
    SubmittedWhenIdle
