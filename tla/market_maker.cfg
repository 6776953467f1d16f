SPECIFICATION Spec
CONSTANTS
    btc = btc
    eth = eth
    btcCall = btcCall
    ethCall = ethCall
    None = None
    o1 = o1
    o2 = o2
    Operator = {o1, o2}
    Underlying <- TwoUnderlyings
    Contracts <- OneContractEach
    SinkCapacity = 2
    StepCapacity = 1
    MaxSteps = 2
    MaxIds = 4
    MaxControls = 2
    MaxRestarts = 1
    GoodNames = {"BTC", "ETH"}
    Canonical = 9
    KnobMin <- ChecksMinKnob
    KnobMax <- ChecksMaxKnob
    KnobDefault <- ChecksDefaultKnob
    DefaultBaseSize = 1
    DefaultBaseSpread = 1
    OwnerBytes = 3
    MakerId <- ChecksMakerId
    MakerOwner = "maker"
INVARIANTS
    QuotesAccounted
    SwitchSurvives
    KillSweeps
PROPERTIES
    QuotesFollowSteps
SYMMETRY OperatorSymmetry
CHECK_DEADLOCK FALSE
