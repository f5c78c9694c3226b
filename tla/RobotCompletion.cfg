\* A task that ends before the first look at its status.
SPECIFICATION Spec
CONSTANTS
  Names = {p1, target_pose}
  Target = target_pose
  Poses = {v1}
  NoPose = NoPose
  LastAttempt = 1
PROPERTY
  CompletionEndsTheMove
