SPECIFICATION MCSpec
CONSTANTS
  RunParts = {"binds"}
  Radix = 16
  Width <- MCWidth
  Chunk = 7
  ScalarLimit = 16
  PrefetchSize = 15
  DalcLimit = 20
  KeyLimit = 14
  ValueLimit = 16
  SeqMax = 3
  MaxPending = 2
  Engines <- MCEngines
  SignMask = 128
  YearLimit = 100
  NsLimit = 100
  LocalGap <- MCGap
  MaxUint = 65535
  NumberWireMax = 4
  MaxStored = 2
  MaxFetched = 1
  ServerZones <- MCZones
  OsonRadix = 6
  ShortStringMax = 2
  CompactMax = 2
  MaxDocument = 240
  NameHash <- MCHash
  MaxMappings = 8
  MaxMappingSize = 40
  Inputs <- MCInputs
  OptionSets <- MCOptions
  ServerValues <- MCServerValues
  Updates <- MCUpdates
  MaxUpdates = 2
  MaxBindIndex = 2
  Contents <- MCContents
  Locators <- MCLocators
  NCharSets = {"AL16UTF16", "UTF8"}
  Texts <- MCLobTexts
  Counts = {1, 3}
  TempLengths = {86, 108, 112}
  MaxUnits = 5
  MaxCalls = 3
  Tables <- MCTables
  Returned <- MCReturned
  MaxRuns = 2
  Conns = {c1, c2}
  Ids = {1, 2}
  MaxCursors = 3
  MaxSets = 2
  MaxNested = 1
INVARIANT
  MissingArgumentRefused
