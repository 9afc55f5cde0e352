SPECIFICATION Spec
CONSTANTS
  c1 = c1
  c2 = c2
  c3 = c3
  o1 = o1
  p1 = p1
  p2 = p2
  p3 = p3
  Characters <- MCCharacters
  Others <- MCOthers
  Anchors <- MCAnchors
  Below <- MCBelow
  Described <- MCDescribed
  Visible <- MCVisible
  Linked <- MCLinked
  Book = Book
  Workloads <- MCWorkloads
  Selections <- MCSelections
  Concurrency = 2
  MaxFailures = 1
  MaxCrashes = 1
  MaxReselects = 1
INVARIANTS
  NoArcTwice
  ChosenAreCovered
  GapsHaveACause
CHECK_DEADLOCK FALSE
