SPECIFICATION FairSpec
CONSTANTS
  g1 = g1
  g2 = g2
  a = a
  s1 = s1
  s2 = s2
  s3 = s3
  None = None
  Goroutine = {g1, g2}
  Instance = {g1, g2}
  InstanceOf <- OneCallerEach
  Session = {s1, s2, s3}
  CreatorOf <- TwoAndOne
  Faults = {"timeout", "crash", "partition"}
INVARIANTS TypeOK MutualExclusion HolderCanUnlock
PROPERTIES WaitersServed
