SPECIFICATION FairSpec
CONSTANTS
  MaxProcesses = 3
  TimerQuantumTicks = 2
  PidLimit = 5
  Signals = {"KILL", "STOP"}
  Statuses = {0, 1}
  Wanted = {0, 2, 3, 4}
  StatusPointers = {TRUE, FALSE}
  StacksMapped = {TRUE}
INVARIANTS
  HaltIsExplained
PROPERTIES
  ZombiesAreKept
  PreemptionServesAll
CHECK_DEADLOCK FALSE
