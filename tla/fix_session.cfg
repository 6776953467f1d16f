SPECIFICATION Spec
CONSTANTS
    c1 = c1
    c2 = c2
    k1 = k1
    None = None
    Conn <- MCConn
    Order <- MCOrder
    MaxSeq = 3
    LogLimit = 2
    ByteLimit = 2
    FrameBytes <- MCFrameBytes
    MaxResets = 1
    MaxU128 = 99999
    MaxU64 = 2000
    MaxI64 = 999
    MaxU32 = 400
    MaxU16 = 200
    Symbols <- ChecksSymbols
    CompIdBytes = 3
    MaxFields = 40
    MaxGroupEntries = 2
INVARIANTS
    SequenceNumbersSound
    ConsumedIsAnswered
    ResendIsComplete
PROPERTIES
    TargetMovesBackAudited
    SessionsEnd
CHECK_DEADLOCK FALSE
