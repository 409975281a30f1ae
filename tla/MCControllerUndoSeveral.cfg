SPECIFICATION Spec
CONSTANTS
    Bytes = {"a", "b", "c", "d"}
    Texts <- ABCD
    Typed <- Never
    Pasted <- Never
    Replacing <- Never
    EditModes <- Never
    Selections <- TwoRanges
    ForgetsWhileTyping = FALSE
    MaxCondemned = 2
    MaxLength = 4
    MaxHistory = 2
PROPERTIES
    KeepsHistory
CHECK_DEADLOCK FALSE
