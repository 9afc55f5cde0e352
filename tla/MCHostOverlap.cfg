\* Two starts of one import that overlap, and a stop of the application.
SPECIFICATION FairSpec
CONSTANTS
  i1 = i1
  Imports = {i1}
  Calls = {c1, c2}
  Rechecks = {}
  Ensures = {}
  ImportOf <- MCImportOf
  NoCall = nocall
  Overlapping = TRUE
  MaxExits = 1
INVARIANTS
  NoOrphanWorker
  AwakeForWork
PROPERTIES
  StartsAnswered
  ToldWorkersDie
\* Each call is made once; the host is at rest when all have been made.
CHECK_DEADLOCK FALSE
