CONSTANTS
    Paths = {p, q}
    Versions = {blank, one, two}
    Blank = blank
    Chunks = 2
    None = None
SPECIFICATION Spec
INVARIANTS
    TypeOK
    UnmodifiedIsOnDisk
PROPERTIES
    FilesAreWhole
    ChangesAreKept
CHECK_DEADLOCK FALSE
