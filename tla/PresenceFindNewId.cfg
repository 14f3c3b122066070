\* A reconnect request consumed with the old application id.
SPECIFICATION FairSpec
CONSTANTS
    app1 = app1
    app2 = app2
    plain = plain
    fancy = fancy
    Placeholder = unset
    ClientIds = {app1, app2, unset}
    Looks = {plain, fancy}
    Tracks = {t1}
    Sources = {s1}
    RefreshTicks = 1
    NoTrack = NoTrack
    NoClient = NoClient
    NoSource = NoSource
    Dark = Dark
    Settings <- SettingsApps
PROPERTIES
    NewIdAdopted
