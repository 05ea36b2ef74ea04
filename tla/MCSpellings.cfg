SPECIFICATION Spec
CONSTANTS
  sx = sx  sy = sy  ta = ta  tb = tb
  LongDoc = {sx, sy}
  WindowsOf <- MCWindowsOf
  EvalRounds = 1
  Slots = 2
  CostCap = 1
  MaxSumRuns = 2
  PChunk = {1, 2, 3}
  PLabel = {"la", "lb", "lk", "le"}
  PEntity = {"le"}
  PKnown = {"lk"}
  PCanon = {"lb"}
  Proposing = 2
  PCap = 1
  NExisting = 2
  NProposed = 3
  MaxGroup = 3
  MaxPending = 2
  Name = {"place", "strait", "hormuz strait", "hormuz strait ban"}
  Individual = {"iran war"}
  Merged <- MCMerged
  Landform <- MCLandform
  GeoRoot = "place"
  Within <- MCWithin
  Stem <- MCStem
  MaxNew = 2
  MaxMoves = 1
  NRelChunks = 4
  Linked = {"a", "b"}
  RelPred = {"sub", "in"}
  Shape <- MCShape
  ClassIn <- MCClassIn
  MaxPerPass = 1
  NPages = 3
  Pdfs <- MCPdfs
  MaxVision = 1
  Flights = 2
  Ahead = 2
  MaxTableRuns = 2
  DPdf = {1, 2}
  Workers = 1
  MaxSilent = 2
  MaxDrives = 2
  TokenCounts = {1, 3, 9}
  MaxTexts = 3
  InputCap = 5
  RequestCap = 4
  BatchSize = 2
  EmbedSlots = 2
  EmbedTries = 2
  Caller = {"t1", "t2"}
  ProviderOf <- MCProviderOf
  ChatTries = 2
  MaxChats = 4
  Spelling = {"L'Oreal S.A.", "LOreal Ltd", "LOreal", "Guy Amosi", "Amosi, Guy", "Amosi"}
  Norm <- MCNorm
  RawLen <- MCRawLen
  NormLen <- MCNormLen
  DedupKey <- MCDedupKey
  Words <- MCWords
  WordBag <- MCWordBag
  Alphabet <- MCAlphabet
  SuffixOf <- MCSuffixOf
  PrefixOf <- MCPrefixOf
  Mention <- MCMention
  PersonClass = {"person"}
  MaxMentions = 3
  Cmd = {ta, tb}
  OpsOf <- MCOpsOf
  NDirs = 3
  MaxCommands = 2
INVARIANT
  AgreeOnSpelling
CHECK_DEADLOCK FALSE
