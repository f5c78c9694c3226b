\* Two stored poses and the target; two looks at the token.  No symmetry: the contract has a liveness part.
SPECIFICATION FairSpec
CONSTANTS
  Names = {p1, target_pose}
  Target = target_pose
  Poses = {v1, v2}
  NoPose = NoPose
  LastAttempt = 1
INVARIANTS
  TypeOK
  MoveReachesThePose
PROPERTY
  KeepsContract
