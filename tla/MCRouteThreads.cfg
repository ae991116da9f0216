CONSTANTS
  Jobs = {j1}
  Keys = {k1}
  Requests = {3, 4, 5, 6}
  Steps = {"execute_cases", "aggregate_report"}
  Payloads = {p1}
  MaxDecisions = 0
  RecoveryLimit = 1
  NoRow = NoRow
  NoPayload = NoPayload
  Runners = {r1, r2}
  NCases = 2
  FinishTries = 3
  MaxCrashes = 2
  MaxFaults = 1
  QueueMax = 2
  MaxWorkers = 2
  MaxTokens = 3
  MaxPosted = 3
  Callers = {a, b}
  Retries = 2
  Delays = {1, 3}
SPECIFICATION ThreadsSpec
INVARIANTS SpendingIsExact ResultsAreStored StreamIsTrue CooldownsAreKept
PROPERTIES CancelStopsSpending ClaimedEvaluationsEnd TerminalIsLast ThreadsEnd
CHECK_DEADLOCK FALSE
