\* Every setting, one media source, two tracks, Discord quitting at any time.
SPECIFICATION Spec
CONSTANTS
    app1 = app1
    app2 = app2
    plain = plain
    fancy = fancy
    Placeholder = unset
    ClientIds = {app1, app2, unset}
    Looks = {plain, fancy}
    Tracks = {t1, t2}
    Sources = {s1}
    RefreshTicks = 1
    NoTrack = NoTrack
    NoClient = NoClient
    NoSource = NoSource
    Dark = Dark
    Settings <- SettingsAll
INVARIANTS
    TypeOK
    RemembersWhatIsShown
    RestsDark
    StoppedIsDark
    StaleCopyHasWake
    StatusHonest
