SPECIFICATION Spec
CONSTANTS
  m = m
  p1 = p1
  p2 = p2
  r1 = r1
  r2 = r2
  Requests = {r1, r2}
  Models = {m}
  Providers = {p1, p2}
  Files <- const_Files
  NoFile = NoFile
  MaxEdits = 1
  MaxSignals = 1
INVARIANTS
  ProviderFound
  Reconciled
  TurnsUsable
  IInv
SYMMETRY Symmetry
