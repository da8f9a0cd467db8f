CONSTANTS
    fast = fast
    slow = slow
    MaxId = 3
    Chats = {fast, slow}
    ChatOf <- MCSlowFirst
    MaxBacklog = 2
    MaxCrashes = 0
    MaxFaults = 0
SPECIFICATION SlowChatSpec
PROPERTIES
    OtherChatsProceed
