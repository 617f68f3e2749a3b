SPECIFICATION Spec
CONSTANTS
  g1 = g1
  g2 = g2
  None = None
  Goroutine = {g1, g2}
  Worker = {g1, g2}
  Instance = {g1, g2}
  InstanceOf <- OneCallerEach
  Token = {1}
  Second = 1
  TTLs = {1}
  RenewTTLs = {1}
  RetryCount = 0
  MaxRetries = 1
  MaxLate = 1
  MaxCount = 2
  Nested = {}
  Prefix <- NoPrefix
  Faults = {"timeout", "crash", "overrun"}
INVARIANTS TypeOK WritersExclude ReadersCounted
PROPERTIES WriterWaitsForReaders
SYMMETRY Alike
