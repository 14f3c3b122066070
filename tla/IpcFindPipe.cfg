\* A POSIX build in which nothing has asked for SIGPIPE to be ignored.
SPECIFICATION Spec
CONSTANTS
    LastEndpoint = 1
    Sockets = {s1, s2}
    NoSocket = NoSocket
    Activities = {a1, a2}
    Dark = Dark
    Nonces = 2
    PipeKills = TRUE
INVARIANTS
    SurvivesDiscord
