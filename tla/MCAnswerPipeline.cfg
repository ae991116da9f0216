CONSTANTS
  Requests = {r1, r2, r3}
  Sessions = {s1}
  Questions = {1, 2, 4}
  Filters = {f1, f2}
  Radius = 1
  MaxEntries = 1
  MaxHistory = 1
  NoSession = NoSession
  NoOne = NoOne
SPECIFICATION Spec
INVARIANTS HitMatchesRequest ConversationsStayApart
PROPERTY TurnsOnlyGrow
SYMMETRY Symmetry
CHECK_DEADLOCK FALSE
