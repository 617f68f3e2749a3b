SPECIFICATION FairSpec
CONSTANTS
  g1 = g1
  g2 = g2
  a = a
  None = None
  Goroutine = {g1, g2}
  Worker = {g1, g2}
  Instance = {a}
  InstanceOf <- SharedObject
  Token = {1, 2, 3, 4}
  Second = 2
  TTLs = {2}
  RenewTTLs = {2}
  Rejected = {0}
  RetryCount = 1
  MaxRetries = 0
  MaxLate = 0
  Faults = {"timeout", "crash"}
INVARIANTS HeldExclusion
PROPERTIES CallsReturn OrphanExpires
