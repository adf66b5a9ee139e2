CONSTANTS
    Data = {0, 1}
    Blank = 0
    HSTRECS = 2
    Parts = {}
    Rec <- MCRec
    Drive <- MCDrive
    fd0 <- MCfd0
    NSECTS = 2
    AllocAt <- MCBlockStart
SPECIFICATION Spec
PROPERTY OnlyFreshIsScrambled
