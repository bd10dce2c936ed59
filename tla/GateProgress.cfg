CONSTANTS
  Keys = {k1}
  Requests = {r1, r2}
  NoKey = NoKey
  Nobody = Nobody
  Main = Main
  OpsOf <- AllSlots
  Restorable = {k1}
  MaxGates = 3
SPECIFICATION FairSpec
PROPERTIES
  RequestsEnd
  ShutdownEnds
CHECK_DEADLOCK FALSE
