\* Two conditions with lists, empty ones among them.
CONSTANTS
  Dialects = {"Sqlite", "Postgres", "Mysql"}
  None = None
  MaxCalls = 2

SPECIFICATION Spec
CHECK_DEADLOCK FALSE

INVARIANT EmptyListsMean
