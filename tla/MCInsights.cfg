SPECIFICATION Spec
CONSTANTS
  clA = clA  clB = clB
  k1 = k1  k2 = k2
  doc1 = doc1  e1 = e1  e2 = e2  e3 = e3  con = con  yr = yr
  GProc = {1, 2}
  EmbModel = {"openai", "local"}
  LegacyModel = "openai"
  OntProc = {1, 2}
  OntClass = {clA, clB}
  OntFile <- MCFiles
  MaxImports = 2
  MaxWipes = 1
  NLeaf = 4
  NRollup = 3
  Layers = 2
  MinCluster = 2
  MaxRuns = 2
  Poster = {1, 2}
  Window = 2
  MaxTurns = 4
  RDoc = {doc1}
  Entity = {e1, e2, e3, con}
  Concept = {con}
  Period = {yr}
  About <- MCAbout
  Arc <- MCArc
  Extra <- MCExtra
  Hops = 2
  TopK = 2
  DocCap = 1
  MaxAsked = 1
  NChunks = 2
  OClass = {k1, k2}
  BatchSizes = {1, 2}
  MaxStreams = 2
  MaxEdits = 1
  NDated = 3
  Dates <- MCDates
  OwnDates <- MCOwnDates
  LastMonth = 13
  Highest = 4
  pl1 = pl1  pl2 = pl2  pl3 = pl3
  GeoPlace = {pl1, pl2, pl3}
  GeoLevel <- MCGeoLevel
  NInsights = 3
  TopInsights = 2
  MaxPasses = 3
  Ranked <- MCRanked
  Withheld = {"rwd"}
  Above <- MCAbove
  Universal = {"rorg"}
  ConceptClass = {"rcon"}
  TypeKey <- MCTypeKey
  MenuSize = 1
  RecoveryPool = 3
  ReadName = {"acme", "acme inc"}
  NameKey <- MCNameKey
  ReviewRounds = 2
  lb1 = lb1  lb2 = lb2  lb3 = lb3  lb4 = lb4  lt1 = lt1  lt2 = lt2
  LEntity = {lb1, lb2, lb3, lb4}
  FullName <- MCFullName
  Stripped <- MCStripped
  LTable = {lt1, lt2}
  Cells <- MCCells
  NormCell <- MCNormCell
  Noise = {"Total"}
  MaxLinkRuns = 2
  n1 = n1  n2 = n2  n3 = n3  oa = oa  ob = ob
  NArtChunks = 4
  NAtStart = 3
  ArtBatches = {0, 1, 2}
  ArtLimits = {2, 9}
  AClass = {oa, ob}
  AClassOf <- MCAClassOf
  ChunkNames <- MCChunkNames
  MinClaims = 2
  MaxGens = 2
  MaxShifts = 1
INVARIANT InsightsOnce
CHECK_DEADLOCK FALSE
