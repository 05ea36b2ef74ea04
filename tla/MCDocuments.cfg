SPECIFICATION FairSpec
CONSTANTS
  NoDoc = NoDoc
  Doc = {d1, d2}
  TableDocs = {d1}
  Art = {}
  Job = {j1, j2}
  MaxCommands = 3
INVARIANTS
  TypeOK
  
  LiveChunkLiveDoc
  SupersededIsDead
  SupersessionInv
  ChunkInsertNeverCollides
PROPERTIES
  TornStaysUnsearchable
  
CHECK_DEADLOCK FALSE
