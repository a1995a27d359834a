SPECIFICATION Spec
CONSTANTS
    ReaderMinItems = 2
    WriterMinItems = 1
    ReaderMinBuf <- NoSize
    WriterMinBuf <- NoSize
    ConfigItems = 5
    Need = 2
    Total = 9
    TagAt = {1, 5}
INVARIANTS TagsPointAtSamples
