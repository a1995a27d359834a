SPECIFICATION Spec
CONSTANTS
    ReaderMinItems = 2
    WriterMinItems = 1
    ReaderMinBuf <- NoSize
    WriterMinBuf <- NoSize
    ConfigItems = 3
    Need = 2
    Total = 9
    TagAt = {}
INVARIANTS NeverBothAsleep
CHECK_DEADLOCK FALSE
