CONSTANTS
  Keys = {k1, k2}
  Requests = {r1, r2}
  NoKey = NoKey
  Nobody = Nobody
  Main = Main
  OpsOf <- LeaseSlots
  Restorable = {k2}
  MaxGates = 3
SPECIFICATION Spec
INVARIANTS
  TypeOK
  GateExclusive
  ClosedForGood
PROPERTIES
  QuietDrain
  ListWaitsOnlyForNew
CHECK_DEADLOCK FALSE
