SPECIFICATION Spec
CONSTANTS
  s1 = s1
  s2 = s2
  Sandbox = {s1, s2, s3}
  Key <- Keys
  Ports <- OneNumber
  Capacity = 1
  Hits = 1
  Creator = {c1, c2, c3}
  Deleter = {d1}
  Reconciler = {}
  Loop = {}
  Faults = {"run", "start", "busy"}
  MaxFaults = 1
  MaxCrashes = 0
  NoSandbox = NoSandbox
  NoPod = NoPod
  Nobody = Nobody
INVARIANT TypeOK
INVARIANT AtMostOnePod
 
 
PROPERTY KeepsItsPromise
CHECK_DEADLOCK FALSE
