SPECIFICATION Spec
CONSTANTS
  p1 = p1
  p2 = p2
  p3 = p3
  primary = primary
  judge = judge
  Panel <- MCPanel
  Primary = primary
  Judge = judge
  MinSuccess = 2
  Registries <- MCRegistries
  MaxCalls = 2
  MaxChunks = 2
INVARIANTS
  OneAnswer
  DecisionMatchesWire
  PanelIsolation
  JudgeHasInput
  UsageAccounting
  IInv
PROPERTIES
  ImplementsContract
  PanelBounded
  CancelEndsTurn
  TurnEnds
