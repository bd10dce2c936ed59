CONSTANTS
  l1 = l1
  l2 = l2
  o1 = o1
  o2 = o2
  Leases <- OneLease
  Owners <- OneOwner
  OwnerOf <- OnlyOwner
  NoLease = NoLease
  NoOwner = NoOwner
  Direct = Direct
  BaseMode = "worktree"
  Faults = {"late"}
  Requests = {"end"}
  MaxViews = 2
  MaxGen = 2
SPECIFICATION Spec
INVARIANTS
  DirtyHasUpper
