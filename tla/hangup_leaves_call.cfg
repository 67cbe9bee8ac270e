SPECIFICATION Spec
CONSTANTS
    Worker = {w1}
    Reaper = {}
    PeerId = {p1}
    Empty = Empty
    Label = {l1}
    Kind = {video}
    Op = {"call", "hangup"}
    MaxPc = 0
    MaxObs = 2
    ReusePeerIds = TRUE
PROPERTIES
    HangUpClosesCall
