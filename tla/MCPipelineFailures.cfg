\* Handlers that fail, several of one run, some of them again in the retry.
SPECIFICATION FairSpec
CONSTANTS
  Steps <- MCSteps
  Depends <- MCDepends
  Projection <- MCProjection
  Extract <- MCExtract
  Arc <- MCArc
  Preview = "preview"
  FanOut <- MCFanOut
  Selectable <- MCSelectable
  Reporting <- MCReporting
  Keys = {k1, k2}
  NoKey = none
  Selections <- MCSelections
  Concurrency = 2
  ReselectAnytime = FALSE
  MaxFailures = 3
  MaxFaults = 0
  MaxCrashes = 0
  MaxReselects = 0
INVARIANTS
  RetryRunIsQuiet
  NoStepLeftBehind
  FailureIsVisible
  GatesAreAsked
PROPERTIES
  RunEnds
