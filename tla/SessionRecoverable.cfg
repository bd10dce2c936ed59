CONSTANTS
  l1 = l1
  l2 = l2
  o1 = o1
  o2 = o2
  Leases <- OneLease
  Owners <- OneOwner
  OwnerOf <- OnlyOwner
  NoLease = NoLease
  NoOwner = NoOwner
  Direct = Direct
  BaseMode = "worktree"
  Faults = {"early", "patch", "sync", "cleanup"}
  Requests = {"mark"}
  MaxViews = 2
  MaxGen = 2
SPECIFICATION FairSpec
INVARIANTS
  CleanHasPatch
  DirtyHasUpper
PROPERTIES
  ShutdownEnds
