SPECIFICATION ObservedSpec
CONSTANTS
    Jobs = {j1}
    Keys = {k1}
    Requests = {r1}
    Steps = {s1, s2}
    Payloads = {p1}
    MaxDecisions = 1
    RecoveryLimit = 1
    NoRow = NoRow
    NoPayload = NoPayload
    Clients = {c1, c2}
    MaxRevision = 3
    EndedRequests = {11, 12}
    EndedJobs = {1, 2}
    Failing = {1, 11}
    PerformanceId = 20
    Limits = {1, 2}
    Retention = 3
    LogWindow = 2
    MaxClock = 3
    Limit = 4
    MaxGroups = 2
    MaxSpans = 5
    MaxInstant = 3
INVARIANTS
    RowsAreConsistent
    SnapshotIsCurrent
    PagesAreComplete
    ObservationsAddUp
PROPERTIES
    JobsMoveForward
    ImplementsLifecycle
    FactsAreImmutable
\* The bounds end every behaviour.
CHECK_DEADLOCK FALSE
