CONSTANTS
  Procs = {p1, p2}
  Readers = {r1}
  Versions = {v1, v2, big}
  TooLarge = {big}
  Partial = Partial
  Nothing = Nothing
  NoProc = NoProc
  MaxFiles = 3
SPECIFICATION Spec
INVARIANTS
  TypeOK
  ReadsWhole
  AppliedIsValidated
PROPERTIES
  ImplementsRegister
CHECK_DEADLOCK FALSE
