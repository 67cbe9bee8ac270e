SPECIFICATION DecoderFairSpec
CONSTANTS
    Format = {f1, f2}
    Content = {c}
    None = None
    MaxQueue = 3
INVARIANTS
    DecodedInItsFormat
    NoLostWakeUp
    StopIsPrompt
PROPERTIES
    StopReturns
