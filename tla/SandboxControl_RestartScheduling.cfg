SPECIFICATION FairSpec
CONSTANTS
  Sandbox = {s1}
  Node = {n1}
  HostPort = {1}
  PortNeed <- OnePortEach
  Capacity <- OneNodeUnit
  TTLSandbox = {}
  Deleter = {}
  DeleteFrom = {"Pending", "Scheduled", "Running", "Failed"}
  Remover = {}
  Forced = {}
  Loops = {"scheduler", "statusSync"}
  Routes = {}
  MaxCreates = 1
  MaxFaults = 0
  MaxRestarts = 1
  NoNode = NoNode
  NoSandbox = NoSandbox
  Loop = Loop
  NoReport = NoReport
PROPERTY ScheduledIsLeft
CHECK_DEADLOCK FALSE
