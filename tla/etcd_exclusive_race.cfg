SPECIFICATION Spec
CONSTANTS
  g1 = g1
  g2 = g2
  l1 = l1
  l2 = l2
  l3 = l3
  None = None
  Ended = Ended
  Goroutine = {g1, g2}
  Renewer = {}
  Instance = {g1, g2}
  InstanceOf <- OneCallerEach
  Token = {1}
  Lease = {l1, l2, l3}
  GrantedTo <- TwoAndOne
  MaxCount = 2
  Prefix <- NoPrefix
  Faults = {}
INVARIANTS OneWriter
