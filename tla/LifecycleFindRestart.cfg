SPECIFICATION Spec
CONSTANTS
    Pids = {p1, p2}
    NoPid = NoPid
    UserModes = {"headless"}
    Commands = {"restart"}
    MayCrash = FALSE
    WaitChecks = 2

INVARIANT RestartLeavesOneRunning
CHECK_DEADLOCK FALSE
