SPECIFICATION Spec
CONSTANTS
    Command <- MCOrders
    Book <- MCBook
    InitBook <- MCInit
    NextBook <- MCNextBook
    Result <- MCResult
    Outcome <- MCOutcome
    Filling <- MCFilling
    MaxSeq = 2
    MaxTime = 1
    ReadBackReliable = TRUE
    None = None
INVARIANTS
    AckedIsDurable
    BookIsReplay
    StoresMatchJournal
    RefusedNeverExecuted
PROPERTIES
    ImplementsLedger
