SPECIFICATION VfsSpec
CONSTANTS
  OverlayPaths <- MCOverlayPaths
  DotNames = {".b"}
  ArchiveFiles <- MCFiles
  ArchiveDirectories = {}
  ArchiveBytes <- MCBytes
  Users = {1}
  Writes <- MCWrites
  MaxOverlayNodes = 3
  PoolSize = 5
  LeastCapacity = 2
  MaxWriteFile = 2
  MaxFileSize = 3
  RunDirectory <- MCRun
  Sentinel <- MCSentinel
  Paths <- MCPaths
  Inodes = {1, 2}
  Sectors = {1, 2, 3}
  MaxExtents = 2
  MaxSize = 2
  MaxPatch = 1
  Data = {v1, v2}
INVARIANTS OverlayReadsWhatWasWritten OverlayListingsAreTrue
INVARIANTS SectorsHaveOneOwner ReadsAreExplained TreeIsWhole NothingLeaks
SYMMETRY DataSymmetry
