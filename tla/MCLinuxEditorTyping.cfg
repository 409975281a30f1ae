CONSTANTS
    Digits = {0, 1}
    Texts <- TwoBytes
    Characters <- NoBytes
    TypedDigits = {1}
    Clipboards <- NoBytes
    Patterns <- OnePattern
    Replacements <- Doubled
    EditModes = {"Insert", "Overwrite"}
    Offsets = {0, 1, 2}
    MultiSelection = FALSE
    MaxLength = 4
    MaxHistory = 2
SPECIFICATION Spec
INVARIANTS
    TypeOK
    HistoryApplies
    PendingDigitIsLastTyped
PROPERTIES
    KeepsHistory
    UndoRestoresSelection
    ReplaceAllIsOnePass
CHECK_DEADLOCK FALSE
