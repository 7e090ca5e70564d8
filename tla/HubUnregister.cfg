CONSTANTS
  Conns = {c1, c2}
  RegisterCap = 1
  BroadcastCap = 1
  MaxBroadcasts = 1
SPECIFICATION HubSpec
INVARIANT
  UnregisteredIsGone
CHECK_DEADLOCK FALSE
