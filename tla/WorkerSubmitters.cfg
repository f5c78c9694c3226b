\* Two threads submit while a third starts and stops and a fourth reads the results.
SPECIFICATION Spec
CONSTANTS
  Starters = {main}
  Stoppers = {main}
  Submitters = {s1, s2}
  Collectors = {rx}
  NormalTypes = {"Move"}
  PriorityTypes = {"Stop"}
  Capacity = 2
  MaxCommands = 3
  NoCommand = NoCommand
  NoResult = NoResult
CHECK_DEADLOCK FALSE
SYMMETRY SubmitterSymmetry
INVARIANTS
  TypeOK
  AcceptedAccountedFor
  StopReachesMove
PROPERTIES
  NoResultAfterTheEnd
  AcceptedWhileServing
