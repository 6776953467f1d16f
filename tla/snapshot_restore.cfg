SPECIFICATION SnapshotSpec
CONSTANTS
    Command <- MCOrders
    Book <- MCBook
    InitBook <- MCInit
    NextBook <- MCNextBook
    Result <- MCResult
    Outcome <- MCOutcome
    Filling <- MCFilling
    MaxSeq = 2
    MaxTime = 0
    ReadBackReliable = TRUE
    None = None
    MaxI64 = 5
    MaxI128 = 20
    MaxRecordBytes = 20
    MaxRecords = 2
    MaxStreamBytes = 45
    EscapeFactor = 2
    BaseBytes = 4
    PerElementBytes = 3
    Recover <- ChecksRecover
    CurrentVersions <- ChecksVersions
    BundleSchema = "bundle.v1"
    Fingerprint <- ChecksFingerprint
    Provable <- ChecksProvable
  NameRank <- ChecksRank
INVARIANTS
    SequenceIsSound
    BookFollowsLine
PROPERTIES
    ResumeHonoursReceipts
