SPECIFICATION Spec
CONSTANTS
  Sandbox = {s1, s2}
  Node = {n1}
  HostPort = {p1, p2}
  PortNeed <- OnePortEach
  Capacity <- TwoNodeUnits
  TTLSandbox = {}
  Deleter = {d1}
  DeleteFrom = {"Pending", "Scheduled", "Running"}
  Remover = {q1}
  Forced = {}
  Loops = {"scheduler", "resourceSync"}
  Routes = {}
  MaxCreates = 1
  MaxFaults = 0
  MaxRestarts = 0
  NoNode = NoNode
  NoSandbox = NoSandbox
  Loop = Loop
  NoReport = NoReport
SYMMETRY Symmetry
INVARIANT PortsAgree
INVARIANT ChosenPortsAreFree
PROPERTY PortsAreALedger
CHECK_DEADLOCK FALSE
