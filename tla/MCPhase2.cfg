CONSTANTS
  Procs = {p1, p2}
  p1 = p1
  p2 = p2
  N = 2
  Answers = {a1, a2}
  a1 = a1
  a2 = a2
  Versions = 2
  MaxStarts = 3
  MaxCrashes = 1
SPECIFICATION SlotSpec
INVARIANTS ScoresMatchAnswers ResultsAreBound
SYMMETRY SlotSymmetry
CHECK_DEADLOCK FALSE
