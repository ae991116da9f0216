CONSTANTS
  Procs = {p1, p2}
  p1 = p1
  p2 = p2
  Bilingual = {b1, b2}
  b1 = b1
  b2 = b2
  EvidenceV3 = {e1}
  e1 = e1
  Cases = 1
  Limit = 4
  RoundLimit = 3
  Prompts = 2
  MaxStarts = 2
  MaxCrashes = 1
SPECIFICATION Spec
INVARIANT LedgerIsTrue
PROPERTY NeverReissued
SYMMETRY Symmetry
CHECK_DEADLOCK FALSE
