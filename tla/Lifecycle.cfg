SPECIFICATION FairSpec
CONSTANTS
    Pids = {p1, p2}
    NoPid = NoPid
    UserModes = {"tray", "headless"}
    Commands = {"start", "stop", "restart", "reload"}
    MayCrash = TRUE
    WaitChecks = 2
INVARIANTS
    TypeOK
    OneInstance
    PidfileNamesRunner
    CleanExitLeavesNoPidfile
    HeadlessNotKilled
PROPERTIES
    SaysRunningOfHolder
    QuitIsAnswered
CHECK_DEADLOCK FALSE
