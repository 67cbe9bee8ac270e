SPECIFICATION Spec
CONSTANTS
    Worker = {w1, w2}
    Reaper = {r1}
    PeerId = {p1, p2}
    Empty = Empty
    Label = {l1}
    Kind = {video}
    Op = {"whep", "createOffer", "setAnswer", "hangup"}
    MaxPc = 1
    MaxObs = 2
    ReusePeerIds = TRUE
SYMMETRY Symmetry
INVARIANTS
    RegisteredObservers
    ExclusiveOwnership
    SendersHaveSources
PROPERTIES
    ImplementsOwnership
