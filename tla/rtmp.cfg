SPECIFICATION FairSpec
CONSTANTS
    Config <- Configs
    None = None
    MaxQueue = 2
INVARIANTS
    KeyFramesMatchDecoder
PROPERTIES
    ImplementsDecoder
    DestructorReturns
