SPECIFICATION Spec
CONSTANTS
    Tools = {1}
    LiveFields = {"appid", "broadcast"}
    QueuedFields = {}
    MenuFields = {}
    Values = {0, 1}
    Default = 0
    NoField = NoField
    NoText = NoText
    BeginAt = {"idle", "prompt", "truncate", "write", "update"}
    LaunchDuring = {"idle"}
INVARIANT HastyEditsKept
