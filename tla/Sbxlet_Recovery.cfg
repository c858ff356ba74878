SPECIFICATION FairSpec
CONSTANTS
  s1 = s1
  s2 = s2
  Sandbox = {s1}
  Key <- Keys
  Ports <- SamePort
  Capacity = 1
  Hits = 2
  Creator = {c1, c2}
  Deleter = {d1}
  Reconciler = {r1}
  Loop = {r1}
  Faults = {"run", "limits", "start", "stop", "exit", "busy", "timeout", "torn"}
  MaxFaults = 2
  MaxCrashes = 1
  NoSandbox = NoSandbox
  NoPod = NoPod
  Nobody = Nobody
PROPERTY CreatingIsLeft
PROPERTY BrokenIsRemoved
CHECK_DEADLOCK FALSE
