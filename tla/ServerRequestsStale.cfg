CONSTANTS
    r1 = r1
    r2 = r2
    r3 = r3
    Requests = {r1}
    Decisions = {"accept", "decline"}
    InboxCapacity = 1
    OutboundCapacity = 1
    MaxGeneration = 1
    MaxPresses = 1
    MaxCrashes = 1
    MaxFaults = 0
\* The system rests when the users and the app-server have nothing to ask.
CHECK_DEADLOCK FALSE
SPECIFICATION Spec
INVARIANTS
    ReplyStaysOnItsConnection
