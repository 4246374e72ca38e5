SPECIFICATION Spec
CONSTANTS
  Kinds = {pod, event}
  InitialKinds = {pod}
  pod = pod
  event = event
  Scopes = {east}
  east = east
  Waiters = {}
  Users = {"refresh"}
  Runner = Runner
  NoResult = NoResult
  MaxObject = 2
  Limit = 2
  Buffer = 1
  MaxEvents = 3
INVARIANTS RunSurvives
