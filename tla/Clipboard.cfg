SPECIFICATION FairClipSpec
CONSTANTS
    Clicks = {c1, c2}
    Installed = 3
INVARIANTS
    NoTimeoutOutlivesCommand
    FileIsLastResort
PROPERTY EveryClickEnds
CHECK_DEADLOCK FALSE
