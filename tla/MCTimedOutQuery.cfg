CONSTANTS
  Requests = {r1}
  Sessions = {s1}
  Questions = {1}
  Filters = {f1}
  Radius = 1
  MaxEntries = 1
  MaxHistory = 1
  NoSession = NoSession
  NoOne = NoOne
SPECIFICATION Spec
PROPERTY TimedOutIsDiscarded
CHECK_DEADLOCK FALSE
