CONSTANTS
    MaxFile = 4
    MaxArray = 5
    MaxSlices = 3
    Arrays <- MCArrays
    FileLengths <- MCFileLengths
    SoftMaxMemory = 3
    SoftMaxPerBuffer = 2
    BufferLength = 2
SPECIFICATION FairSpec
INVARIANTS
    TypeOK
    SourcesIntact
    SavedFileIsArray
    OnlyAnnouncedPositionsChange
    NeverShorterBeforeSuccess
    QueueAccounted
PROPERTIES
    SaveEnds
    KeepsPromise
CHECK_DEADLOCK FALSE
