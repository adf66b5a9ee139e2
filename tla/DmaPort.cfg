CONSTANTS
    Address <- MCAddress
    Count <- MCCount
    DisplayAddr = 63488
    DisplayCount = 1999
SPECIFICATION Spec
INVARIANT TypeOK
PROPERTY ReleasedWhole
