SPECIFICATION Spec
CONSTANTS
    Collections = {c1}
    Members = {m1}
    Conversations = {}
    Contents = {x}
    None = None
    Gone = Gone
    MaxRevision = 2
    MaxCollections = 1
    MaxItems = 1
    MaxNotes = 1
    MaxActivity = 1
    MaxImports = 1
    BackupSize = 2
INVARIANT ItemsHaveContainers
