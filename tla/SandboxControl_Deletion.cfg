SPECIFICATION Spec
CONSTANTS
  Sandbox = {s1}
  Node = {n1, n2}
  HostPort = {p1}
  PortNeed <- OnePortEach
  Capacity <- OneNodeUnit
  TTLSandbox = {}
  Deleter = {d1}
  DeleteFrom = {"Running", "Failed"}
  Remover = {}
  Forced = {}
  Loops = {"scheduler", "reconcile", "statusSync"}
  Routes = {"delete"}
  MaxCreates = 2
  MaxFaults = 1
  MaxRestarts = 0
  NoNode = NoNode
  NoSandbox = NoSandbox
  Loop = Loop
  NoReport = NoReport
SYMMETRY Symmetry
INVARIANT TypeOK
INVARIANT DeletedMeansGone
INVARIANT AtMostOneNode
 
PROPERTY SyncChangesOnlyPhases
 
CHECK_DEADLOCK FALSE
