\* A failing handler, a rejected bridge call, a lost worker and a reselection
\* that the user sees through.
SPECIFICATION Spec
CONSTANTS
  Steps <- MCSteps
  Depends <- MCDepends
  Projection <- MCProjection
  Extract <- MCExtract
  Arc <- MCArc
  Preview = "preview"
  FanOut <- MCFanOut
  Selectable <- MCSelectable
  Reporting <- MCReporting
  Keys = {k1, k2}
  NoKey = none
  Selections <- MCSelections
  Concurrency = 2
  ReselectAnytime = FALSE
  MaxFailures = 1
  MaxFaults = 1
  MaxCrashes = 1
  MaxReselects = 1
SYMMETRY KeySymmetry
INVARIANTS
  PhaseCompletes
  CompletedMeansDone
  CompletedIsPublished
