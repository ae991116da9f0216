SPECIFICATION ServiceSpec
CONSTANTS
    Collections = {c1}
    Members = {m1}
    Conversations = {v1}
    Contents = {x, y}
    None = None
    Gone = Gone
    MaxRevision = 2
    MaxCollections = 1
    MaxItems = 1
    MaxNotes = 1
    MaxActivity = 1
    MaxImports = 2
    BackupSize = 2
    EvidenceCap = 2
SYMMETRY Symmetry
INVARIANTS RevisionNamesOneVersion ImportIsIdempotent MembersHaveParents
    OpeningIsSafe RunsAreSound
PROPERTIES DeletedStaysDeleted CancelStopsTools
\* Workers, readers and runs finish: the system stops with them.
CHECK_DEADLOCK FALSE
