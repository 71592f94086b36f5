CONSTANTS
  None = None
  MaxSkipDepth = 3
  MaxContainerElements = 2
  Small <- MCSmall
  Alphabet <- MCAlphabet
  CountStarAlias = TRUE
  ExpressionAlias = TRUE
  MaxUsize = 20
  MaxResultRows = 5
  MaxResultBytes = 6
  DefaultFetchRows = 2
  MaxFetchRows = 3
  MaxI64 = 9
  MaxDate = 5
  DisplayOf <- DisplayValue
  CallRead <- ReadCall
  CtasOf <- ParseCtas
  Rewritten <- RewriteSql
  ReadOnly <- IsReadOnly
  Changes <- Writes
  Messages <- MCMessages
  SqlTexts <- MCSqlTexts
  Rows <- MCRows
  EnableWrites = {FALSE, TRUE}
  Locations <- MCLocations
  Opened <- MCOpened
  Accesses <- MCAccesses
  ErrorChains <- MCErrorChains
  Schemas <- MCSchemas
  Offsets <- MCOffsets
  Limits <- MCLimits
  MaxLookups = 3
  MaxBatches = 3
SPECIFICATION FairSpec
INVARIANTS
  TypeOK DecodedIsWritten OnlyReadsArePlanned RewriteKeepsMeaning RoutedByLongestPrefix
  ResultWithinLimits PageIsSlice PagesCoverResult FetchFailsWhole EqualMapsLookAlike
PROPERTIES StatementEnds PagesMakeProgress
CHECK_DEADLOCK FALSE
