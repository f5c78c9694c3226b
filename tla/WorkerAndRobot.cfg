\* One thread starts the worker, submits and stops it, as the node does.
SPECIFICATION SystemFairSpec
CONSTANTS
  Starters = {main}
  Stoppers = {main}
  Submitters = {main}
  Collectors = {}
  NormalTypes = {"Move", "Other"}
  PriorityTypes = {"Stop"}
  Capacity = 1
  MaxCommands = 2
  NoCommand = NoCommand
  NoResult = NoResult
  Names = {p1, target_pose}
  Target = target_pose
  Poses = {v1, v2}
  NoPose = NoPose
  LastAttempt = 0
  v1 = v1
  v2 = v2
  StoredPoses <- OldTarget
CHECK_DEADLOCK FALSE
INVARIANTS
  StopStops
  PosesAsAnswered
PROPERTY
  ImplementsWorker
