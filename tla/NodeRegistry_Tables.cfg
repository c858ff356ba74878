SPECIFICATION Spec
CONSTANTS
  Node = {n1}
  ExternalId = {e1, e2}
  External = {v1}
  Usage = {u1}
  ReadyAfter = 1
  NotReadyAfter = 1
  Registrar = {r1}
  Remover = {d1}
  Unbinder = {x1}
  Loops = {"beat"}
  MaxRestarts = 1
  NoNode = NoNode
  NoId = NoId
  NoExternal = NoExternal
  NoUsage = NoUsage
  NoRow = NoRow
INVARIANT TypeOK
SYMMETRY ExternalSymmetry
INVARIANT StreaksAgree
INVARIANT BindingsAreSound
INVARIANT ReadyIsEarned
CHECK_DEADLOCK FALSE
