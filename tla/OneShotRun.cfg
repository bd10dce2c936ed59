CONSTANTS
  r1 = r1
  r2 = r2
  Runs = {r1, r2}
  NoRun = NoRun
  OptionsOf <- SomeOptions
SPECIFICATION FairSpec
INVARIANTS
  TypeOK
  WorkKept
  CleanExit
PROPERTIES
  SourcesSafe
  PatchAccumulates
  RunEnds
CHECK_DEADLOCK FALSE
