SPECIFICATION FairSpec
CONSTANTS
    Worker = {w1}
    Reaper = {r1, r2}
    PeerId = {p1, p2, p3}
    Empty = Empty
    Label = {l1}
    Kind = {video}
    Op = {"call", "createOffer", "setAnswer"}
    MaxPc = 0
    MaxObs = 3
    ReusePeerIds = FALSE
INVARIANTS
    CapturersAreWatched
    DetachedThreadsFindObserver
PROPERTIES
    FailedPeersAreReaped
CHECK_DEADLOCK FALSE
