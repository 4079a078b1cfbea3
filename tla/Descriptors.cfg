SPECIFICATION FilesSpec
CONSTANTS
  MaxProcesses = 2
  TimerQuantumTicks = 1
  PidLimit = 3
  Signals = {"INT"}
  Statuses = {0}
  Wanted = {2}
  StatusPointers = {TRUE}
  StacksMapped = {TRUE}
  MaxOpenFds = 3
  StandardFds = 1
  MaxPipes = 1
INVARIANTS
  CountsAreExact
  FailedPipeIsUndone
PROPERTY
  EndsStayClosed
CHECK_DEADLOCK FALSE
