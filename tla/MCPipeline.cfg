\* Four runs of two versions in any order, killed anywhere.
SPECIFICATION Spec
CONSTANTS
  Steps <- MCSteps
  Versions = {1, 2}
  MaxRuns = 4
INVARIANTS
  ResultIsFresh
  InputsAreFresh
CHECK_DEADLOCK FALSE
