CONSTANTS
    MAX_MOUNTS = 2
    FIRST_CAP = 4
    CHUNK = 2
    U32 = 8
    Bytes = {"a", "h", "i", "NUL"}
    Hostnames <- MCHostnames
    DefaultHostname <- MCDefaultHostname
    VersionText <- MCVersion
    OsReleaseText <- MCOsRelease
    Paths <- MCPaths
    WritePaths <- MCWritePaths
    Offsets = {0, 1, 5, 7, 11}
    Buffers <- MCBuffers
    ROWS = 3
    COLS = 6
    TAB = 4
    FbWidth = 84
    FbHeight = 160
    CMD_BUF = 7
    MAX_ARGS = 3
    Typings <- MCTypings
    InfoCommands <- MCInfo
    PathOf <- MCPathOf
    MaxLines = 3
SPECIFICATION SSpec
INVARIANTS TreeOK SetupTakesEffect CommandShows ScreenIsTail LineShown PageShown
CHECK_DEADLOCK FALSE
