SPECIFICATION FairSpec
CONSTANTS
  Node = {n1}
  ExternalId = {}
  External = {}
  Usage = {u1, u2}
  ReadyAfter = 2
  NotReadyAfter = 1
  Registrar = {r1}
  Remover = {}
  Unbinder = {}
  Loops = {"beat", "usage"}
  MaxRestarts = 0
  NoNode = NoNode
  NoId = NoId
  NoExternal = NoExternal
  NoUsage = NoUsage
  NoRow = NoRow
INVARIANT ReadyIsEarned
PROPERTY UpBecomesReady
PROPERTY DownLosesReady
PROPERTY UsageConverges
CHECK_DEADLOCK FALSE
