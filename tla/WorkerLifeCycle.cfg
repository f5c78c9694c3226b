\* One thread starts and submits, another stops it at any moment, a third waits for results.
SPECIFICATION FairSpec
CONSTANTS
  Starters = {main}
  Stoppers = {other}
  Submitters = {main}
  Collectors = {rx}
  NormalTypes = {"Move"}
  PriorityTypes = {"Stop"}
  Capacity = 1
  MaxCommands = 2
  NoCommand = NoCommand
  NoResult = NoResult
CHECK_DEADLOCK FALSE
INVARIANTS
  RobotGivenBack
  NotReadyUnderAStop
PROPERTIES
  LifeCycleCallsReturn
  CollectorsReleased
  AcceptedIsAnswered
  ImplementsService
