CONSTANTS
  l1 = l1
  l2 = l2
  o1 = o1
  o2 = o2
  Leases <- TwoLeases
  Owners <- OneOwner
  OwnerOf <- SharedOwner
  NoLease = NoLease
  NoOwner = NoOwner
  Direct = Direct
  BaseMode = "worktree"
  Faults = {}
  Requests = {"end"}
  MaxViews = 2
  MaxGen = 2
SYMMETRY SwapLeases
SPECIFICATION Spec
INVARIANTS
  OneWriter
  RunsInItsView
