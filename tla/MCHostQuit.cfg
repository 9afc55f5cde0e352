\* Quitting while an import runs.
SPECIFICATION Spec
CONSTANTS
  i1 = i1
  Imports = {i1}
  Calls = {c1, c2}
  Rechecks = {}
  Ensures = {}
  ImportOf <- MCImportOf
  NoCall = nocall
  Overlapping = FALSE
  MaxExits = 1
PROPERTIES
  ResumableAfterQuit
\* Each call is made once; the host is at rest when all have been made.
CHECK_DEADLOCK FALSE
