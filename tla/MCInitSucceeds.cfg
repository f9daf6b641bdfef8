\* One connection, on files of known versions.
SPECIFICATION MigSpec
CONSTANTS
  Conns = {c1}
  Sessions = {s1}
  Databases <- Released
INVARIANTS
  InitSucceeds
CHECK_DEADLOCK FALSE
