SPECIFICATION Spec
CONSTANTS
  MaxRequests = 4
  SnapshotRetention = 2
  DefaultRetention = 3
INVARIANTS
  NewestKept
  OverflowBounded
  IInv
