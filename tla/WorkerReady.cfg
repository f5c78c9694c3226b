\* The worker is stopped and started again.
SPECIFICATION Spec
CONSTANTS
  Starters = {main}
  Stoppers = {main}
  Submitters = {}
  Collectors = {}
  NormalTypes = {"Move"}
  PriorityTypes = {"Stop"}
  Capacity = 1
  MaxCommands = 1
  NoCommand = NoCommand
  NoResult = NoResult
CHECK_DEADLOCK FALSE
INVARIANT
  ReadyMeansServing
