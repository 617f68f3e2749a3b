SPECIFICATION Spec
CONSTANTS
  g1 = g1
  g2 = g2
  None = None
  Goroutine = {g1, g2}
  Worker = {g1, g2}
  Instance = {g1, g2}
  InstanceOf <- OneCallerEach
  Token = {1, 2}
  Second = 1
  TTLs = {1}
  RenewTTLs = {1}
  RetryCount = 0
  MaxRetries = 0
  MaxLate = 0
  MaxCount = 2
  Nested = {}
  Prefix <- NoPrefix
  Faults = {"overrun"}
PROPERTIES ReaderWaitsForWriter
