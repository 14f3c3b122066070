\* One refused launch at a log that is full.
SPECIFICATION Spec
CONSTANTS
    Threads = {t1, t2}
    Slots = 2
    Backups = 2
    Full = 0
    MaxLines = 4
    MaxSessions = 3
    MaxRefused = 1
INVARIANTS
    LastLineInLog
CHECK_DEADLOCK FALSE
