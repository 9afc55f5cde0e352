CHECK_DEADLOCK FALSE
SPECIFICATION Spec
CONSTANTS
  a = a
  b = b
  c = c
  MaxChapter = 2
  ScenesOf <- McScenesOf
  Peopled = {1}
  Book = 0
  MaxStalled = 2
  Concurrency = 2
  MaxFailures = 1
  MaxCrashes = 1
INVARIANTS
  DoubledHasACause
  HandedOverWhole
  GroupsCover
