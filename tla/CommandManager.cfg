\* Two commands, three consumers: two sleepers and one that is awake.  No
\* symmetry: it is unsound for the liveness part of the channel.
SPECIFICATION FairSpec
CONSTANTS
  Commands = {c1, c2}
  Consumers = {t1, t2, t3}
  Capacity = 2
  NoCommand = NoCommand
INVARIANTS
  TypeOK
  NoLostWakeup
  ShutdownReleases
PROPERTY
  ImplementsChannel
