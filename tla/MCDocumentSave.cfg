CONSTANTS
    a = a
    b = b
    Documents <- Both
    FileLength <- Lengths
    MemoryLimit = 0
    WhileSaving = {}
    MaxLength = 2
    MaxEvents = 3
    MaxSaves = 2
    Memory = Memory
    Typed = Typed
    Torn = Torn
    Missing = Missing
SPECIFICATION FairSpec
INVARIANTS
    TypeOK
    NobodyReadsWhatChanges
    UndoFits
PROPERTIES
    TextsAreOwn
    SavesEnd
CHECK_DEADLOCK FALSE
