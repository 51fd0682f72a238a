SPECIFICATION Spec
CONSTANTS
  MaxDeltas = 3
  MaxTicks = 3
INVARIANTS
  ExclusiveWriter
  NoWriteAfterReturn
  WellTerminated
  IInv
PROPERTIES
  CloseReturns
  KeepsAlive
