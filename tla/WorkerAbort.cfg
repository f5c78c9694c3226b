\* A Stop, then a Move, from the one thread of the bridge node.
SPECIFICATION Spec
CONSTANTS
  Starters = {main}
  Stoppers = {}
  Submitters = {main}
  Collectors = {}
  NormalTypes = {"Move"}
  PriorityTypes = {"Stop"}
  Capacity = 1
  MaxCommands = 2
  NoCommand = NoCommand
  NoResult = NoResult
CHECK_DEADLOCK FALSE
INVARIANT
  AbortHasAStop
