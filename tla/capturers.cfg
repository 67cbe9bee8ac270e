SPECIFICATION Spec
CONSTANTS
    Nodes = {0, 1, 2}
    Hardware = {"cam1", "cam2"}
    Cards = {0, 1}
    Windows = {7}
    Screens = {1}
    Config <- SomeConfig
    None = None
    Layouts <- SomeLayouts
    MaxChanges = 1
    Filters <- SomeFilters
    TypedUrls <- SomeUrls
    Formats = {"H264", "MJPG"}
    Versions = {1, 2}
INVARIANTS
    PublishedSourcesFit
    PairsShareHardware
    KeyFramesCarryParameterSets
    
PROPERTIES
    DestructorReturns
CHECK_DEADLOCK FALSE
