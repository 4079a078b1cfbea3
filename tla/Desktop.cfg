CONSTANTS
  QueueCapacity = 2
  MaxPointer = 8
  MaxSurfaces = 2
  EventQueue = 1
  MaxProcesses = 2
  Width = 4
  Height = 3
  Windows <- MCWindows
  Border = 0
  TitleHeight = 1
  SurfaceSizes <- MCSurfaceSizes
  Cascade <- MCCascade
  StartPointer <- MCStartPointer
  MaxPolls = 2
  Moves <- MCMoves
  MaxBorn = 3
  MaxSteps = 4
SPECIFICATION FairSpec
CHECK_DEADLOCK FALSE
INVARIANTS TheDeadLeaveNothing MouseIsTracked ScreenIsCurrent
PROPERTY SurfacesGetDrawn
