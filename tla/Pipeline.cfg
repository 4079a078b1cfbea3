CONSTANTS
  Stages = 3
  Capacity = 2
  BufferSize = 2
  MaxOutput = 3
SPECIFICATION FairSpec
INVARIANTS EofIsTheEnd NothingIsLost BrokenIsTrue
PROPERTY PipelineEnds
CHECK_DEADLOCK FALSE
