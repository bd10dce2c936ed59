CONSTANTS
  Clients = {c1, c2}
  Servers = {s1, s2, s3}
  ByHand = {s3}
  NoOne = NoOne
SPECIFICATION FairSpec
INVARIANTS
  TypeOK
  Reachable
PROPERTIES
  NoNeedlessSpawn
  LaunchSucceeds
  LaunchEnds
CHECK_DEADLOCK FALSE
