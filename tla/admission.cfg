SPECIFICATION Spec
CONSTANTS
    RetryAfterMs = 60000
  Client = {c1, c2}
  Account = {admin}
  Admins = {admin}
  Ticket = {t1}
  Limits <- TwoTiers
  Window = 1
  MaxKeys = 1
  MaxTickets = 1
  MaxConnections = 1
  TokenTTL = 2
  TicketTTL = 1
  Leeway = 1
  MaxIdleTicks = 2
  MaxTime = 2
  None = None
  Peer = Peer
INVARIANTS
    BoundsHold
    CredentialsHold
PROPERTIES
    DeadSessionEnds
