\* Two threads, a ring of two lines, three starts; every line after the first rotates.
SPECIFICATION Spec
CONSTANTS
    Threads = {t1, t2}
    Slots = 2
    Backups = 2
    Full = 0
    MaxLines = 4
    MaxSessions = 3
    MaxRefused = 1
INVARIANTS
    ReportIsOfTheCrash
    LogHasNoGap
SYMMETRY ThreadSymmetry
CHECK_DEADLOCK FALSE
