\* A GetLayout served before the first refresh.
SPECIFICATION Spec
CONSTANTS
    Players = {p1, p2}
    NoPlayer = NoPlayer
    FirstDynamicId = 10
    MaxListed = 1
    MaxRevision = 3
    MaxReloads = 1
    MaxStatuses = 1
    MaxRequests = 2
    MaxEvents = 2
INVARIANT FirstLayoutIsBuilt
CHECK_DEADLOCK FALSE
