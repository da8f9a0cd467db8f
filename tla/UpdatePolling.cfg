CONSTANTS
    fast = fast
    slow = slow
    MaxId = 4
    Chats = {fast, slow}
    ChatOf <- MCChatOf
    MaxBacklog = 2
    MaxCrashes = 2
    MaxFaults = 2
SPECIFICATION FairSpec
INVARIANTS
    TypeOK
    NoUpdateLost
    OffsetMatchesRecords
    DispatchedOnce
    PerChatOrder
PROPERTIES
    RerunNeedsTwoFaults
    ImplementsStream
    EveryUpdateRecorded
