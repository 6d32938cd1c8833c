SPECIFICATION ReaderSpec
CONSTANTS
    Texts <- MCTexts
    Documents <- MCDocuments
INVARIANT DocumentedIsRead
CHECK_DEADLOCK FALSE
