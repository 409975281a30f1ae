CONSTANTS
    a = a
    b = b
    Documents <- Both
    FileLength <- Lengths
    MemoryLimit = 0
    WhileSaving = {"copy"}
    MaxLength = 2
    MaxEvents = 3
    MaxSaves = 2
    Memory = Memory
    Typed = Typed
    Torn = Torn
    Missing = Missing
SPECIFICATION Spec
INVARIANT NobodyReadsWhatChanges
CHECK_DEADLOCK FALSE
