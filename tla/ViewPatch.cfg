CONSTANTS
  ig = ig
  f = f
  t1 = t1
  t2 = t2
  b1 = b1
  s1 = s1
  Absent = Absent
  Paths = {ig, f}
  IgnoreFile = ig
  Text = {t1, t2}
  Binary = {b1}
  Special = {s1}
  Norm <- SomeNorm
  IgnoredBy <- SomeIgnored
  IgnoredMax = 1
  MaxEdits = 2
  MaxTouches = 2
SPECIFICATION Spec
INVARIANTS
  TypeOK
  OnlyTools
PROPERTIES
  Reproduces
CHECK_DEADLOCK FALSE
