CONSTANTS
    Data = {0, 1}
    Blank = 0
    HSTRECS = 2
    Parts = {{0}}
    Rec <- MCRec
    Drive <- MCDrive
    fd0 <- MCfd0
    NSECTS = 2
    AllocAt <- MCRec
SPECIFICATION Spec
INVARIANTS TypeOK DirtyHasFormat ImageIsOnDisk
PROPERTY ImplementsCpmDisk
