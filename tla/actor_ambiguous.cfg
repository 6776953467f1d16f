SPECIFICATION Spec
CONSTANTS
    Command <- MCOrders
    Book <- MCBook
    InitBook <- MCInit
    NextBook <- MCNextBook
    Result <- MCResult
    Outcome <- MCOutcome
    Filling <- MCFilling
    MaxSeq = 1
    MaxTime = 0
    ReadBackReliable = FALSE
    None = None
INVARIANTS
    TypeOK
PROPERTIES
    SealedIsFinal
