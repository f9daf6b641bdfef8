\* The application and another process on any file: two connections, one session.
SPECIFICATION LifeSpec
CONSTANTS
  Conns = {c1, c2}
  NoConn = NoConn
  Sessions = {s1}
  Databases <- AnyDatabase
  Configs <- SomeConfigs
SYMMETRY ConnSymmetry
INVARIANTS
  LifeTypeOK
  StampedComplete
  StopLeavesNothing
  HeldIsCurrent
PROPERTIES
  RowsPreserved
  UnsafeIsLeftAlone
CHECK_DEADLOCK FALSE
