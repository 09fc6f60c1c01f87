CONSTANTS
    NULL = NULL
    StackSize = 2
    LLONG_MAX = 127
    ULLONG_MAX = 255
    Streams <- MCStreams
    Chunks = {1, 2, 7}
    Memories <- MCMemories
    server_commands <- MCCommands
    FormatMax = 14
    Formats <- MCFormats
    Vectors <- MCVectors
    Keys <- MCKeys
SPECIFICATION Spec
CHECK_DEADLOCK FALSE
INVARIANTS
    ParsesExactly
    CommandsExact
PROPERTIES
    FailsCleanly
