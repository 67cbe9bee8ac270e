SPECIFICATION FairSpec
CONSTANTS
    Sink = {s1, s2}
    Format = {narrow, wide, odd}
    Supported = {narrow, wide}
    Segment <- SegmentLengths
    narrow = narrow
    wide = wide
    odd = odd
    MaxDecoded = 4
    MaxPackets = 2
    MaxAdds = 3
    Wait = TRUE
    None = None
INVARIANTS
    RemovedSinksAreSilent
    SinksHearEverything
    BacklogIsBounded
PROPERTIES
    DestructorReturns
