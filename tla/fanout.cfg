SPECIFICATION Spec
CONSTANTS
  b1 = b1
  b2 = b2
  k1 = k1
  k2 = k2
  Caller = {k1, k2}
  Tickers <- MCTickers
  Symbol = {b1, b2}
  UnderlyingOf <- MCUnderlyingOf
  ExpiryTime = 1
  SettlementTime = 2
  MaxTime = 2
  MaxI64 = 7
  MaxU64 = 15
  MaxU128 = 255
  BpsDenominator = 10
  Baseline <- ChecksBaseline
  UnderlyingsOf <- ChecksUnderlyings
  KeyRank <- ChecksKeyRank
  DefaultFingerprint = "microstructure.default.v1"
  SigmaUnit = 10
SYMMETRY Callers
INVARIANTS
    FanoutIsTrue
    RolledIsClosed
    RolledRestsOnlyExposed
