SPECIFICATION ScalerSpec
CONSTANTS
    Option <- Options
    OutOption <- OutOptions
    IntMax = 7
    Dim = {1, 2, 4}
INVARIANTS
    RegionInsideFrame
    AskedRegionIsKept
PROPERTIES
    RegionIsStable
