\* The UI thread in a report, or in the join of a refresh that lists sessions.
SPECIFICATION Spec
CONSTANTS
    Players = {p1, p2}
    ITunes = iTunes
    Texts = {unset, text}
    Unset = unset
    MaxListed = 1
    MaxClicks = 2
    MaxStatuses = 1
    MaxRestarts = 1
INVARIANT UiNeverWaitsForSessions
CHECK_DEADLOCK FALSE
