CONSTANTS
    r1 = r1
    r2 = r2
    r3 = r3
    f1 = f1
    f2 = f2
    d1 = d1
    d2 = d2
    Requests = {r1, r2}
    EventRequests = {r2}
    Permits = 1
    OutboundCapacity = 1
    EventCapacity = 1
    MaxGenerations = 2
    MaxEvents = 3
    None = None
    Incoming = {r1, r2, r3}
    Decisions = {"accept"}
    InboxCapacity = 1
    MaxGeneration = 1
    MaxPresses = 1
    MaxCrashes = 0
    MaxFaults = 0
    Forks = {f1, f2}
    Messages = {d1, d2}
    Deadline = 1
    Lease = 2
    MaxAttempts = 2
    BackoffCap = 3
    Limit = 1
    MaxRestarts = 1
\* The system rests when everything asked for is done.
CHECK_DEADLOCK FALSE
SPECIFICATION MCFairSpec
INVARIANTS
    TypesOK
    PermitsConserved
PROPERTIES
    
    RequestsReturn
    TasksEnd
    
    
