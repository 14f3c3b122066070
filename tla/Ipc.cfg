\* Two endpoints, two sockets, one of which may still be closing.
SPECIFICATION Spec
CONSTANTS
    LastEndpoint = 1
    Sockets = {s1, s2}
    NoSocket = NoSocket
    Activities = {a1, a2}
    Dark = Dark
    Nonces = 2
    PipeKills = FALSE
INVARIANTS
    AnswerIsOwn
    NoForgottenSocket
PROPERTIES
    CallReturns
    ImplementsLink
