SPECIFICATION ReaderSpec
CONSTANTS
    Texts <- MCTexts
    Documents <- MCDocuments
INVARIANTS JobsFound  PlainIsExact
CHECK_DEADLOCK FALSE
