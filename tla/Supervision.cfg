CONSTANTS
  MaxProcesses = 5
  MaxPid = 9
  MaxRequests = 2
  Setups <- MCSetups
SPECIFICATION FairSpec
CHECK_DEADLOCK FALSE
INVARIANTS OneLogin
PROPERTIES ServicesAreCollected RequestsAreTaken
