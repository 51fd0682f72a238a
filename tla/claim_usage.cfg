SPECIFICATION Spec
CONSTANTS
  p1 = p1
  p2 = p2
  p3 = p3
  primary = primary
  judge = judge
  Panel <- MCSmallPanel
  Primary = primary
  Judge = judge
  MinSuccess = 1
  Registries <- MCRegistries
  MaxCalls = 2
  MaxChunks = 2
INVARIANT UsageIsWhole
