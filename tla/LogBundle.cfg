SPECIFICATION Spec
CONSTANTS
    Components = {1, 2}
    Chunks = 2
    Workers = 2
    Loads = {1, 2}
    Exports = {3, 4}
INVARIANTS
    TypeOK
    ChannelsClosed
    NeverPart
    TicksKept
    OneDownload
PROPERTIES
    ButtonReturns
CHECK_DEADLOCK FALSE
