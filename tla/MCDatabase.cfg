\* Two threads with three calls in all, and one fault.
CONSTANTS
  t1 = t1
  t2 = t2
  e1 = e1
  e2 = e2
  e3 = e3
  None = None
  Threads = {t1, t2}
  Engines = {e1, e2, e3}
  DbOf <- MCDbOf
  Keys = {"k"}
  Versions <- MCVersions
  Dialects = {"Sqlite", "Postgres", "Mysql"}
  Ops = {"exec", "transaction", "firstOrCreate", "updateOrCreate", "create", "load", "save", "destroy", "migrate", "rollbackLast"}
  Migrated = {"main"}
  MaxCalls = 3
  MaxFaults = 1
  Stamped = TRUE
  CreateSets = {"b"}
  NoDown = {2}

SPECIFICATION Spec
SYMMETRY MCSymmetry
CHECK_DEADLOCK FALSE

INVARIANT TypeOK
INVARIANT WaitersServed
INVARIANT AllOrNothing
INVARIANT MigratedOnce
INVARIANT SavesOnlyDirty
INVARIANT QueriesAnswer
PROPERTY CreatedOnce
