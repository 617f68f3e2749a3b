SPECIFICATION Spec
CONSTANTS
  g1 = g1
  g2 = g2
  None = None
  Goroutine = {g1, g2}
  Worker = {g1, g2}
  Instance = {g1, g2}
  InstanceOf <- OneCallerEach
  Token = {1, 2}
  Second = 2
  TTLs = {2}
  RenewTTLs = {2}
  Rejected = {}
  RetryCount = 0
  MaxRetries = 1
  MaxCount = 3
  MaxLate = 1
  Faults = {"timeout", "crash", "overrun"}
INVARIANTS TypeOK HoldersCounted ReaderCounted
SYMMETRY Alike
