SPECIFICATION Spec
CONSTANTS
  Snapshots = {a, b, c}
  Empty = Empty
  Cap = 4
INVARIANTS
  RecentFilled
PROPERTIES
  ImplementsLog
  EachPushLogged
