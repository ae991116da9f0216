SPECIFICATION FairSpec
CONSTANTS
    Jobs = {j1}
    Keys = {k1}
    Requests = {r1}
    Steps = {s1}
    Payloads = {p1}
    MaxDecisions = 2
    RecoveryLimit = 1
    NoRow = NoRow
    NoPayload = NoPayload
    Workers = {w1, w2}
    MaxRestarts = 2
    MaxFaults = 2
    CASTries = 3
INVARIANTS ExecutedOnce EndingIsFaithful
PROPERTIES AdmittedRunsSettle
CHECK_DEADLOCK FALSE
