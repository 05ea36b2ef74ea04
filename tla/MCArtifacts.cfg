SPECIFICATION Spec
CONSTANTS
  NoDoc = NoDoc
  Doc = {d1, d2}
  TableDocs = {}
  Art = {a1}
  Job = {j1, j2}
  MaxCommands = 4
SYMMETRY Symmetry
INVARIANTS
  LiveArtifactLiveEvidence
PROPERTIES
  NothingRevives
CHECK_DEADLOCK FALSE
