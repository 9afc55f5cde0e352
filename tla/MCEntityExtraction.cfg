SPECIFICATION Spec
CONSTANTS
  x = x
  y = y
  f1 = f1
  f2 = f2
  MaxChapter = 2
  PreloadSize = 1
  Strays <- MCStrays
  Names <- MCNames
  Label = Label
  Identifiers <- MCIdentifiers
  Pending = Pending
  Continued <- MCContinued
  MaxStalled = 3
  MaxAttempts = 2
  MaxCalls = 3
  MaxEntities = 2
  MaxRestarts = 1
INVARIANTS
  NothingReadIsLost
  RedoInsertsNothing
  IdentifiersUnique
PROPERTIES
  NamesStayPut
  ExtractionEnds
CHECK_DEADLOCK FALSE
