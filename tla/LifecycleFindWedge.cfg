SPECIFICATION Spec
CONSTANTS
    Pids = {p1, p2}
    NoPid = NoPid
    UserModes = {"tray", "headless"}
    Commands = {"start", "stop", "restart", "reload"}
    MayCrash = FALSE
    WaitChecks = 2

INVARIANT NobodyLeftMeansLockFree
CHECK_DEADLOCK FALSE
