SPECIFICATION Spec
CONSTANTS
  g1 = g1
  g2 = g2
  a = a
  s1 = s1
  s2 = s2
  s3 = s3
  None = None
  Goroutine = {g1, g2}
  Instance = {a}
  InstanceOf <- SharedObject
  Session = {s1, s2, s3}
  CreatorOf <- AllShared
  Faults = {}
INVARIANTS HolderCanUnlock
