SPECIFICATION FairSpec
CONSTANTS
  NoDoc = NoDoc
  Doc = {d1, d2}
  TableDocs = {}
  Art = {a1, a2, a3}
  Job = {j1}
  MaxCommands = 4
INVARIANTS
  StaleHasNoEvidence
  
PROPERTIES
  CommandsEnd
CHECK_DEADLOCK FALSE
