SPECIFICATION Spec
CONSTANTS
    Setups <- MCSetups
    n1 = n1
    n2 = n2
    a1 = a1
    a2 = a2
    al = al
    p1 = p1
    p2 = p2
    Bar = Bar
    Letters <- MCLetters
    Tracks <- MCTracks
    Spots <- MCSpots
    Unknown = Unknown
    RefreshTicks = 1
CONSTRAINT Bounded
INVARIANTS
    OneTrackIsShown
PROPERTIES
    EventuallyAccurate
