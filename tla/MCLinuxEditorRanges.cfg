CONSTANTS
    Digits = {0, 1}
    Texts <- ThreeBytes
    Characters <- OneCharacter
    TypedDigits = {}
    Clipboards <- Pasted
    Patterns <- NoBytes
    Replacements <- NoBytes
    EditModes = {}
    Offsets = {0, 2, 3}
    MultiSelection = TRUE
    MaxLength = 3
    MaxHistory = 2
SPECIFICATION Spec
PROPERTIES
    KeepsHistory
    UndoRestoresSelection
    DeletesSelectedBytes
CHECK_DEADLOCK FALSE
