CONSTANTS
    NoPlan = NoPlan
    qa = qa
    qb = qb
    o1 = o1
    p1 = p1
    p2 = p2
    w1 = w1
    w2 = w2
    s1 = s1
    c1 = c1
    Parts = {"engine", "question", "plan", "wizard", "session",
             "status", "totp", "thread", "item", "approval"}
    Roots = {"root"}
    Prompts = {p1, p2}
    Requests = {o1}
    MaxDispatches = 2
    MaxGeneration = 2
    QuestionIds = {qa, qb}
    MaxQuestions = 2
    Options = {o1}
    Generation = 1
    MaxQuestionFaults = 1
    MaxAnswers = 4
    PlanIds = {p1, p2}
    MaxPlanTurns = 3
    MaxPlanFaults = 1
    MaxRevision = 5
    MaxDrafts = 1
    MaxWizardFaults = 1
    MaxThreads = 3
    MaxStatusChanges = 1
    MaxButtons = 3
    MaxComments = 1
    MaxStatusFaults = 2
    TotpWorkers = {w1, w2}
    TotpSpaces = {s1}
    RecoveryCodes = {c1}
    UnlockTicks = 1
    LockTicks = 1
    FailureLimit = 1
    MaxTime = 1
    MaxLocks = 1
    MaxTurns = 2
    MaxPending = 3
    MaxTroubles = 3
    Agents = {1, 2}
    MaxItems = 2
    MaxTasks = 1
    MaxHistory = 3
    MaxSeconds = 1
    MaxAgentChanges = 2
\* A workflow rests when it is over.
CHECK_DEADLOCK FALSE
SPECIFICATION MCSpec
INVARIANTS
    TypesOK
    
    DraftPublishedOnce
    FirstPromptSafe
    
    UnlocksHold
    
    ItemsAgree
    
    
PROPERTIES
    ClosedForGood
    
