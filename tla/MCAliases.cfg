SPECIFICATION Spec
CONSTANTS
  t1 = t1
  t2 = t2
  Pair = {t1, t2}
  Curated = {t1}
  Minable <- MCMinable
  Proc = {p1, p2}
  MaxChanges = 2
SYMMETRY Symmetry
INVARIANTS
  VerdictInv
  AliasHasVerdict
  
PROPERTIES
  ManualSurvives
