SPECIFICATION Spec
CONSTANTS
  m = m
  p1 = p1
  p2 = p2
  r1 = r1
  r2 = r2
  Requests = {r1}
  Models = {m}
  Providers = {p1, p2}
  Files <- const_Files
  NoFile = NoFile
  MaxEdits = 2
  MaxSignals = 3
PROPERTIES
  ReloadTakesEffect
  ShutdownEnds
