SPECIFICATION Spec
CONSTANTS
    Worker = {w1, w2}
    Reaper = {}
    PeerId = {p1, Empty}
    Empty = Empty
    Label = {l1}
    Kind = {video}
    Op = {"call", "hangup"}
    MaxPc = 1
    MaxObs = 3
    ReusePeerIds = TRUE
PROPERTIES
    LimitHolds
    SourcesAreShared
