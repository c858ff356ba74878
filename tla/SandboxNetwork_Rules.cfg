SPECIFICATION Spec
CONSTANTS
  Sandbox = {s1, s2}
  IP = {i1, i2}
  Port = {p1}
  PortOf <- SharedPort
  DeleteFrom = {"running", "error"}
  Faults = {"run", "limits", "address", "start", "rules", "stop", "exit"}
  MaxCreates = 2
  MaxFaults = 2
  MaxCrashes = 1
  NoIP = NoIP
  Reconciler = Reconciler
INVARIANT TypeOK
 
INVARIANT PolicyComesFirst
 
 
CHECK_DEADLOCK FALSE
SYMMETRY Symmetry
