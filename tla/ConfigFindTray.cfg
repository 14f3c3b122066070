SPECIFICATION Spec
CONSTANTS
    Tools = {1}
    LiveFields = {"broadcast"}
    QueuedFields = {"tray"}
    MenuFields = {"broadcast"}
    Values = {0, 1}
    Default = 0
    NoField = NoField
    NoText = NoText
    BeginAt = {"off", "idle"}
    LaunchDuring = {"idle"}
INVARIANT QueuedEditsKept
