CONSTANTS
    m1 = m1
    m2 = m2
    Scenarios = {"race", "outcomes"}
    Prompts = {m1, m2}
    MaxQueue = 2
    MaxTurns = 3
    MaxCancels = 1
    MaxWithdrawals = 1
    MaxReviews = 0
    MaxElsewhere = 0
    MaxFailures = 1
    MaxErrors = 1
    MaxLost = 1
    MaxCrashes = 0
    StartedNamesTurn = TRUE
\* The system rests when no turn runs and the users' bounds are used up.
CHECK_DEADLOCK FALSE
SPECIFICATION MCSpec
INVARIANTS
    TypeOK
    RecordsOwnTurn
    OncePerDispatcher
    OutcomesReported
PROPERTIES
    FifoOrder
