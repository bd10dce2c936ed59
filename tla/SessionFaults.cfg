CONSTANTS
  l1 = l1
  l2 = l2
  o1 = o1
  o2 = o2
  Leases <- OneLease
  Owners <- OneOwner
  OwnerOf <- OnlyOwner
  NoLease = NoLease
  NoOwner = NoOwner
  Direct = Direct
  BaseMode = "worktree"
  Faults = {"early", "late", "patch", "sync", "mask", "unmask", "mount", "cleanup"}
  Requests = {"ensure", "flush", "end", "list", "prune"}
  MaxViews = 2
  MaxGen = 2
SPECIFICATION Spec
INVARIANTS
  TypeOK
  NothingLost
  ReleasedIsSaved
  WritesValidMeta
PROPERTIES
  PatchOnlyGrows
  RemovedOnlyWhenSaved
  ImplementsSavedWork
