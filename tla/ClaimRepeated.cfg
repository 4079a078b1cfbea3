CONSTANTS
  Homes = {h1, h2}
  Datum = {0, 1}
  Blank = 0
  TransactionSectors = 2
SPECIFICATION SpecWithErrors
INVARIANT CommittedIsRepeated
