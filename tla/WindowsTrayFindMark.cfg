\* A configured source that no player lists.
SPECIFICATION Spec
CONSTANTS
    Players = {p1, p2}
    ITunes = iTunes
    Texts = {unset, text}
    Unset = unset
    MaxListed = 1
    MaxClicks = 2
    MaxStatuses = 1
    MaxRestarts = 1
INVARIANT WrongSourceNeverMarked
CHECK_DEADLOCK FALSE
