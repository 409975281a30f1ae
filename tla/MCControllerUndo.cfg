SPECIFICATION Spec
CONSTANTS
    Bytes = {"a", "b", "c", "t"}
    Texts <- AB
    Typed = {"t"}
    Pasted <- NoneOrT
    Replacing <- OnlyA
    EditModes = {"Insert", "Overwrite"}
    Selections <- OneOrTwoRanges
    ForgetsWhileTyping = FALSE
    MaxCondemned = 1
    MaxLength = 3
    MaxHistory = 2
INVARIANTS
    TypeOK
    SelectionIsUsable
    OperationsApply
    TypingIsLastEdit
    OverwritingSavesWhatItCovers
    SecondDigitCompletesFirst
PROPERTIES
    KeepsHistory
    PasteReplacesSelection
CHECK_DEADLOCK FALSE
