SPECIFICATION FairSpec
CONSTANTS
  Conn = {c1, c2}
  User = {u1, u2}
  NoUser = NoUser
  Probe = {p1, p2}
  MaxPerUser = 1
  MaxPending = 2
  MaxWire = 1
INVARIANTS HealthyIsProven NoOpenSocketUnproven RegistryExact PerUserBound
PROPERTIES NoSilentGap LapsedCloses Recovers
CHECK_DEADLOCK FALSE
