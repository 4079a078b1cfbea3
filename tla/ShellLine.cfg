CONSTANTS
  MaxTokens = 8
  TokenSize = 10
  MaxSegments = 2
  MaxFields = 3
  FieldSize = 10
  MaxVariables = 7
  NameSize = 5
  ValueSize = 8
  MaxPath = 12
  MaxComponents = 3
  MaxPipeline = 2
  MaxWords = 4
  MaxEntries = 3
  MaxLines = 2
  MaxOpenFds = 7
  NameStarts <- MCNameStarts
  NameRest <- MCNameRest
  Files <- MCFiles
  Directories <- MCDirectories
  Statuses <- MCStatuses
  Lines <- MCLines
  Texts <- MCTexts
SPECIFICATION LineSpec
CHECK_DEADLOCK FALSE
INVARIANTS
  ShellKeepsConsole
  CommandSeesItsFiles
  QuotedTextArrives
  ListIsParsed
  ListRunsByConnectors
