SPECIFICATION Spec
CONSTANTS
    Tools = {1, 2}
    LiveFields = {"appid", "broadcast"}
    QueuedFields = {"tray"}
    MenuFields = {"broadcast"}
    Values = {0, 1}
    Default = 0
    NoField = NoField
    NoText = NoText
    BeginAt = {"off", "idle", "prompt", "truncate", "write", "update"}
    LaunchDuring = {"idle"}
INVARIANTS
    CopiesAgree
    LiveEditsKept
