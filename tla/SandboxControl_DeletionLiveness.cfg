SPECIFICATION FairSpec
CONSTANTS
  Sandbox = {s1}
  Node = {n1}
  HostPort = {1}
  PortNeed <- NoPorts
  Capacity <- OneNodeUnit
  TTLSandbox = {s1}
  Deleter = {d1}
  DeleteFrom = {"Running"}
  Remover = {q1}
  Forced = {}
  Loops = {"scheduler", "reconcile"}
  Routes = {"create"}
  MaxCreates = 1
  MaxFaults = 1
  MaxRestarts = 1
  NoNode = NoNode
  NoSandbox = NoSandbox
  Loop = Loop
  NoReport = NoReport
PROPERTY DeletingIsLeft
CHECK_DEADLOCK FALSE
