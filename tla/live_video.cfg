SPECIFICATION Spec
CONSTANTS
    Codec = {"H264", "H265", "VP9", "JPEG"}
    Size = {0, 1}
    Buffer <- SomeBuffers
    Time = {1, 2}
    None = None
    FFmpeg = TRUE
    MaxSlices = 2
    MaxQueue = 1
INVARIANTS
    KeyFramesMatchDecoder
PROPERTIES
    ImplementsDecoder
