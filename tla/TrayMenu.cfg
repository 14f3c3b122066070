SPECIFICATION Spec
CONSTANTS
    Players = {p1, p2}
    NoPlayer = NoPlayer
    FirstDynamicId = 10
    MaxListed = 1
    MaxRevision = 3
    MaxReloads = 1
    MaxStatuses = 1
    MaxRequests = 2
    MaxEvents = 2
INVARIANTS
    ClickMeansWhatWasShown
    RevisionIdentifiesMenu
    OpenMenuIsNotOld
    NoUpdateLost
SYMMETRY PlayerSymmetry
CHECK_DEADLOCK FALSE
