SPECIFICATION FairSpec
CONSTANTS
    ReaderMinItems = 2
    WriterMinItems = 1
    ReaderMinBuf <- NoSize
    WriterMinBuf <- NoSize
    ConfigItems = 4
    Need = 2
    Total = 9
    TagAt = {}
INVARIANTS
    TypeOK
    BuffersConserved
    ReaderSeesNext
    ReaderNotForgotten
    WriterNotForgotten
    NeverBothAsleep
    NothingLeftBehind
PROPERTIES
    ImplementsStream
    EverythingArrives
