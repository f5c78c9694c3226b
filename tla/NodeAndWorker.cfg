\* Four messages of four kinds through a subscription of two and queues of one.
SPECIFICATION SystemFairSpec
CONSTANTS
  Main = main
  Starters = {main}
  Stoppers = {main}
  Submitters = {main}
  Collectors = {}
  NormalTypes = {"Move", "Other"}
  PriorityTypes = {"Stop"}
  Capacity = 1
  MaxCommands = 4
  NoCommand = NoCommand
  NoResult = NoResult
  Texts <- FewTexts
  AnyText <- FewTexts
  Numbers = 2
  Depth = 2
  MaxMessages = 4
CHECK_DEADLOCK FALSE
INVARIANTS
  HeardStopAborts
  NobodyThrows
PROPERTIES
  ImplementsNode
  HeardStopIsExecuted
