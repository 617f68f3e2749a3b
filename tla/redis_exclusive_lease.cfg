SPECIFICATION Spec
CONSTANTS
  g1 = g1
  g2 = g2
  a = a
  None = None
  Goroutine = {g1, g2}
  Worker = {g1, g2}
  Instance = {g1, g2}
  InstanceOf <- OneCallerEach
  Token = {1, 2, 3, 4}
  Second = 2
  TTLs = {2}
  RenewTTLs = {0, 2}
  Rejected = {0}
  RetryCount = 0
  MaxRetries = 1
  MaxLate = 1
  Faults = {"timeout", "crash", "overrun"}
INVARIANTS TypeOK LeaseExclusion HolderCanRelease
PROPERTIES ImplementsLease
SYMMETRY Alike
