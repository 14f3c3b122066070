SPECIFICATION FairSpec
CONSTANTS
    Players = {p1, p2}
    ITunes = iTunes
    Texts = {unset, text}
    Unset = unset
    MaxListed = 1
    MaxClicks = 2
    MaxStatuses = 1
    MaxRestarts = 1
INVARIANTS
    NoRefreshLost
    OpenMenuIsCurrent
    EditsAreApplied
    IconTellsStatus
PROPERTY ExitCompletes
CHECK_DEADLOCK FALSE
