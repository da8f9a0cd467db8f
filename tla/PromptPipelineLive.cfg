CONSTANTS
    m1 = m1
    m2 = m2
    Scenarios = {"restart", "review", "serial"}
    Prompts = {m1}
    MaxQueue = 3
    MaxTurns = 4
    MaxCancels = 0
    MaxWithdrawals = 1
    MaxReviews = 1
    MaxElsewhere = 1
    MaxFailures = 0
    MaxErrors = 0
    MaxLost = 1
    MaxCrashes = 1
    StartedNamesTurn = TRUE
\* The system rests when no turn runs and the users' bounds are used up.
CHECK_DEADLOCK FALSE
SPECIFICATION MCFairSpec
PROPERTIES
    HandlersEnd
    RestartNeverResubmits
    SubmittedWhenIdle
    QueuedIsSubmitted
