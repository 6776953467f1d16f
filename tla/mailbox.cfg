SPECIFICATION MailboxSpec
CONSTANTS
    c1 = c1
    c2 = c2
    c3 = c3
    c4 = c4
    Caller <- MCCallers
    Capacity = 2
    MaxU32 = 8
    MaxU64 = 15
    Addresses = {"addr"}
    Defaults <- ChecksDefaults
    MinOf <- ChecksMin
    MaxOf <- ChecksMax
    MaxAggregateFrameBytes = 24
    MaxWindowSecs = 5
INVARIANTS
    MessagesAccounted
PROPERTIES
    LoopEndsWell
CHECK_DEADLOCK FALSE
