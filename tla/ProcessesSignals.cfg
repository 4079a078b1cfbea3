SPECIFICATION Spec
CONSTANTS
  MaxProcesses = 2
  TimerQuantumTicks = 2
  PidLimit = 3
  Signals = {"KILL", "STOP", "CONT", "INT"}
  Statuses = {0}
  Wanted = {0, 2}
  StatusPointers = {TRUE}
  StacksMapped = {TRUE, FALSE}
INVARIANTS
  CurrentIsEligible
  WaitTargetIsLive
PROPERTIES
  SignalsHaveEffect
  StoppedAreResumed
CHECK_DEADLOCK FALSE
