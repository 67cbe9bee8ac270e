SPECIFICATION Spec
CONSTANTS
    Http = {h, w}
    WebSocket = {w}
    Peers = {p, q}
    Sig = Sig
    None = None
    ExtraHost = TRUE
    Bodies <- SomeBodies
    MaxRequests = 2
    MaxCallbacks = 1
INVARIANTS
    NoCircularWait
    ObserversInUseAreAlive
    RepliesListTwins
    QuietShutdownIsClean
PROPERTIES
    RequestsReturn
    ProcessEnds
