\* Reselections at any moment, of a run that fails and of one that is lost.
SPECIFICATION Spec
CONSTANTS
  Steps <- MCSteps
  Depends <- MCDepends
  Projection <- MCProjection
  Extract <- MCExtract
  Arc <- MCArc
  Preview = "preview"
  FanOut <- MCFanOut
  Selectable <- MCSelectable
  Reporting <- MCReporting
  Keys = {k1, k2}
  NoKey = none
  Selections <- MCSelections
  Concurrency = 2
  ReselectAnytime = TRUE
  MaxFailures = 1
  MaxFaults = 0
  MaxCrashes = 1
  MaxReselects = 2
SYMMETRY KeySymmetry
INVARIANTS
  HandlersAfterDependencies
  GatesAfterPhases
PROPERTIES
  BoardSpec
  CompletedItemsKept
