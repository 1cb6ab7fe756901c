SPECIFICATION Spec
CONSTANTS
  u1 = u1
  u2 = u2
  w1 = w1
  w2 = w2
  k1 = k1
  k2 = k2
  c1 = c1
  FullFile <- MCFullFile
  KeptFile <- MCKeptFile
  UnusedFile <- MCUnusedFile
  UnrefFile <- MCUnrefFile
  q3 = q3
  q12 = q12
  tier45 = tier45
  smoke = smoke
  NoSummary = nosummary
  NoRun = norun
  Workloads = {tier45, smoke}
  QueriesOf <- MCQueriesOf
  Origins = {one, four}
  Runs = {1, 2, 3, 4, 5}
  MinDay = 7
  MaxDay = 19
  MaxRows = 10
  TableNumbers = {0, 1}
  Attributes = {a1, a2}
  ItemRows = 7
  MinLines = 1
  MaxLines = 4
  Warehouses = 2
  Weeks = 2
  LastRow = 73049
  Years = {1998, 1999, 2000, 2001, 2002}
  year = year
  states = states
  stateA = stateA
  years = years
  yearB = yearB
  colors = colors
  counties = counties
  SubstitutionsOf <- MCSubstitutionsOf
  Definition <- MCDefinition
  TextOf <- MCTextOf
  Shuffles <- MCShuffles
  STREAMS = 3
  COUNT = 2
  MaxInt = 127
  Mult = 5
  nQ = 25
  nR = 2
  MaxColumn = 3
  MaxDraws = 13
  RngSeeds <- MCRngSeeds
  Serial <- MCSerial
  Drawn <- MCDrawn
  MaxBuilt = 3
  CommandItems <- MCItems
  MaxItems = 3
  Files <- MCFiles
  MaxOpen = 3
  TableNames <- MCTableNames
  DistNames = {"d1", "d2"}
  Shapes <- MCShapes
  Values = {"short", "long"}
  ValueLength <- MCLength
  Aliases <- MCAliases
  Weights = {0, 2}
  MaxRowsOfAll = 2
  RowsAtOnce = 1
  StrSpace = 8
  SalesRows = 24
  DayWeights = {0, 3, 7}
  YearWeight = 20
  Defined <- MCDefined
  DistValues <- MCDistValues
  DistWeights <- MCDistWeights
  CalendarWeights <- MCCalendarWeights
  DayOfMonth <- MCDayOfMonth
  DateText <- MCDateText
  FileItems <- MCFileItems
  Dialect = "dialect"
  Inputs <- MCInputs
  Sorted <- MCSorted
  MaxQueries = 4
  Quantities = {1, 3, 100}
  Costs = {100, 3333}
  Markups = {0, 67, 200}
  Fractions = {0, 33, 100}
  Shippings = {0, 49}
  TaxRates = {7, 9}
  Fees = {50, 7777}
  RowsOf <- MCRowsOf
  NumberOf <- MCNumberOf
  IdsOf <- MCIdsOf
  WalkedDays <- MCWalkedDays
  SaleEntries <- MCSaleEntries
  Pages = {1, 111}
  TableRows = 12
  OrdersOfDay = 3
  OrderLines = 3
  LinesDrawn <- MCLinesDrawn
  ReturnedAt = {1, 2, 5, 8, 9, 14, 20, 30}
  KeptAt = {3, 5, 6, 9, 12}
  VCOUNT = 3
  DstStatements <- MCDstStatements
  TemplateStatements <- MCTemplateStatements
  DstTokens = {"create", "add", "set"}
  KeyWords = {"define", "random"}
  Words = {"YEAR", "select", "a", "x", "from"}
  Dashed = {"x-y"}
  BufferSize = 4
  BufferIncrement = 2
  MaxBreaks = 1
  MaxStatements = 2
  DimensionRows = {3, 4, 6, 8}
  MaxIds = 5
  MaxCustomers = 2
  DemoKeys <- MCDemoKeys
  ZipRows <- MCZipRows
  CityHashes <- MCCityHashes
INVARIANTS
  SkipsAgree
  TargetMeasured
  HiddenExactly
  RunsApart
  ReportsItsOwn
  ComparisonCurrent
  RevisionsMatch
  ValuesStay
  KeysUnique
  SeedsSuffice
  DatesTrue
  QueriesFixed
  RowsLoad
  Precedence
  ReadsBack
  SpreadOverDates
  ValuesMeant
  PrintedAsWritten
  AmountsAddUp
  JoinsFit
  ValidatedAsBuilt
  ReadWhole
  CopiesFit
PROPERTIES
  TargetLeftAlone
  DrawsInRange
