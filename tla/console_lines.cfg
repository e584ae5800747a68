SPECIFICATION Spec
CONSTANTS
    Readers = {r1}
    Chars = {a, b}
    Erase = Erase
    Enter = Enter
    Nul = Nul
    RingSize = 2
    Sizes = {2, 3, 4}
    ReadSizes = {2}
    MaxKeys = 5
INVARIANTS BufferHoldsLine ScreenShowsLine PromptStays
PROPERTIES ReturnsEditedLine EnterEndsLine
CHECK_DEADLOCK FALSE
