CONSTANTS
    r1 = r1
    r2 = r2
    r3 = r3
    Requests = {r1, r2}
    Decisions = {"accept", "decline"}
    InboxCapacity = 1
    OutboundCapacity = 1
    MaxGeneration = 2
    MaxPresses = 2
    MaxCrashes = 1
    MaxFaults = 1
\* The system rests when the users and the app-server have nothing to ask.
CHECK_DEADLOCK FALSE
SPECIFICATION Spec
SYMMETRY SomeRequest
INVARIANTS
    TypeOK
    ReplyDiesWithItsConnection
    DecisionDelivered
    
