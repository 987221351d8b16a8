CONSTANTS
    MAX_MOUNTS = 2
    FIRST_CAP = 4
    CHUNK = 2
    U32 = 8
    Bytes = {"a", "h", "i", "NUL"}
    Hostnames <- MCHostnames
    DefaultHostname <- MCDefaultHostname
    VersionText <- MCVersion
    OsReleaseText <- MCOsRelease
    Paths <- MCPaths
    WritePaths <- MCWritePaths
    Offsets = {0, 1, 5, 7, 11}
    Buffers <- MCBuffers
SPECIFICATION Spec
INVARIANTS MountsReachable
