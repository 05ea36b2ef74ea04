SPECIFICATION Spec
CONSTANTS
  NoDoc = NoDoc
  Doc = {d1, d2}
  TableDocs = {d1}
  Art = {a1, a2, a3}
  Job = {j1}
  MaxCommands = 5
SYMMETRY Symmetry
INVARIANTS
  UpdateLeavesActiveVersion
CHECK_DEADLOCK FALSE
