CONSTANTS
  Requests <- MCRequests
SPECIFICATION Spec
CHECK_DEADLOCK FALSE
INVARIANTS RegionsAreApart RefusalLeavesTheDisk FormattedIsNew InstalledSurvives
