\* One thing at a time, with quits and crashes: completion, reselection, start again.
SPECIFICATION Spec
CONSTANTS
  i1 = i1
  Imports = {i1}
  Calls = {c1, c2, c3}
  Rechecks = {c2}
  Ensures = {e1, e2}
  ImportOf <- MCImportOf
  NoCall = nocall
  Overlapping = FALSE
  MaxExits = 2
INVARIANTS
  CompletedIsSynced
PROPERTIES
  RowsKept
\* Each call is made once; the host is at rest when all have been made.
CHECK_DEADLOCK FALSE
