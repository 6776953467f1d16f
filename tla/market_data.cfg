SPECIFICATION Spec
CONSTANTS
    None = None
    Instrument = {i1}
    Level = {l1, l2}
    OrderId = {o1, o2, q1}
    MakerId = {q1}
    MaxQty = 2
    Consumer = {c1}
    Capacity = 1
    DrainLimit = 1
    MaxSymbols = 2
    MaxSent = 2
    MaxBoots = 1
INVARIANTS
    DepthIsTrue
PROPERTIES
    NoSilentGap
    EveryDeltaArrives
