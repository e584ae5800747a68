SPECIFICATION PartsSpec
CONSTANTS
    Painters = {p1, p2}
    Columns = 2
    Pages = 2
    Colours = {0, 1}
    Users = {u1, u2}
    DeviceSize = 4
    ReadSize = 2
    WriteSize = 2
    EraseSize = 4
    Word = 8
    Contents = {1, 2}
    Unread = Unread
    Bits = 6
    Handles = {h1, h2}
    Writer = h1
    Letters = {1, 2}
    RomData <- Rom
    Requests = {1, 2}
    MaxData = 3
    Junk = 0
    Untouched = Untouched
    Tasks = {t1, t2}
    Entry = Entry
    Mark = Mark
    Clobbered = Clobbered
    StackWords = 4
    Below = 1
    Names = {1, 2, 3}
    Fixed <- ApiFile
    Listed = {1}
    Ranges <- LibraryRanges
    MaxHeaders = 2
    MaxNames = 2
    Missing = Missing
    Characters = {"x", "%", "c", "s", "d"}
    MaxFormat = 4
    NumberSize = 8
    TypeSize = 3
    SizeSize = 6
    DirectionSize = 2
    TerminalType = 5
    Others <- OtherCommands
    LocalFlags = {0, 2, 3}
    Moments = {7, 2500}
    Second = 1000
    ClockBits = 10
    Callers = {a1, a2}
    HeapSize = 4
    Increments = {0, 1, 3}
    MaxRegions = 4
    Blocks = {k1, k2}
    WordBytes = 1
    MaxUsage = 8
    PathMax = 5
    Texts <- MCTexts
    Slash = "/"
    Zero = "0"
    Sizes = {1, 2, 4, 6, 8}
    Views <- MCViews
SYMMETRY Symmetry
INVARIANTS FramesAreWhole WritesAreKept PrintsNumbers ReadsContinue ResumesOwnRegisters OverflowIsCaught SymbolsAreOwn PrintsText HeapIsOwn UsageIsCounted PathsAreKept
CHECK_DEADLOCK FALSE
