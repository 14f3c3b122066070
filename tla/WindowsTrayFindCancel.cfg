\* Two prompts, the first of which is cancelled last.
SPECIFICATION Spec
CONSTANTS
    Players = {p1, p2}
    ITunes = iTunes
    Texts = {unset, text}
    Unset = unset
    MaxListed = 1
    MaxClicks = 2
    MaxStatuses = 1
    MaxRestarts = 1
PROPERTY CancelChangesNothing
CHECK_DEADLOCK FALSE
