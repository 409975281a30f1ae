CONSTANTS
    Digits = {0, 1}
    Texts <- ThreeBytes
    Characters <- NoBytes
    TypedDigits = {1}
    Clipboards <- NoBytes
    Patterns <- NoBytes
    Replacements <- NoBytes
    EditModes = {}
    Offsets = {0, 1, 2, 3}
    MultiSelection = TRUE
    MaxLength = 3
    MaxHistory = 2
SPECIFICATION Spec
INVARIANT PendingDigitIsLastTyped
CHECK_DEADLOCK FALSE
