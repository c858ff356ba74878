SPECIFICATION Spec
CONSTANTS
  s1 = s1
  s2 = s2
  Sandbox = {s1, s2}
  Key <- Keys
  Ports <- SamePort
  Capacity = 2
  Hits = 2
  Creator = {c1, c2}
  Deleter = {}
  Reconciler = {}
  Loop = {}
  Faults = {}
  MaxFaults = 0
  MaxCrashes = 0
  NoSandbox = NoSandbox
  NoPod = NoPod
  Nobody = Nobody
INVARIANT DistinctHostPorts
CHECK_DEADLOCK FALSE
