CONSTANTS
  Homes = {h1, h2, h3}
  Datum = {0, 1}
  Blank = 0
  TransactionSectors = 3
SPECIFICATION Spec
INVARIANTS MountNeverRefused
PROPERTIES CommittedIsReplayed CommitIsAtomic
