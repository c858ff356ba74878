SPECIFICATION Spec
CONSTANTS
  Sandbox = {s1}
  Node = {n1}
  HostPort = {1}
  PortNeed <- OnePortEach
  Capacity <- OneNodeUnit
  TTLSandbox = {}
  Deleter = {d1}
  DeleteFrom = {"Pending", "Scheduled", "Running", "Failed"}
  Remover = {}
  Forced = {}
  Loops = {"scheduler", "reconcile"}
  Routes = {}
  MaxCreates = 1
  MaxFaults = 0
  MaxRestarts = 0
  NoNode = NoNode
  NoSandbox = NoSandbox
  Loop = Loop
  NoReport = NoReport
INVARIANT DeletedMeansGone
CHECK_DEADLOCK FALSE
