CONSTANTS
  Conns = {c1, c2}
  RegisterCap = 1
  BroadcastCap = 2
  MaxBroadcasts = 3
SPECIFICATION FairHubSpec
INVARIANTS
  HubTypeOK
  EveryClientGetsAll
  ClosedAreGone
PROPERTIES
  CallsReturn
  RegisteredJoins
CHECK_DEADLOCK FALSE
