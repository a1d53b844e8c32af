CONSTANTS
    MIN_BLOCK = 2
    PAGE_SIZE = 8
    INITIAL_HEAP_PAGES = 1
    MinGrow = 1
    NFrames = 6
    Layouts <- SomeLayouts
    MaxLive = 3
    MaxOthers = 1
SPECIFICATION Spec
INVARIANTS
    Tiled
    Coalesced
PROPERTY
    NullOnlyWithoutPages
