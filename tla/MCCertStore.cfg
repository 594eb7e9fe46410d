SPECIFICATION Spec
CONSTANTS
    Calls = {a}
    Copies = {p}
    Null = Null
    MaxKeys = 2
    MaxRecs = 3
    MaxCrashes = 1
    MaxLoads = 3
INVARIANTS
    KeysKept
    InstalledUsable
    BackupHasKey
    CacheFresh
PROPERTIES
    UsableStaysUsable
    LeavesThroughTrash
CHECK_DEADLOCK FALSE
