CONSTANTS
    one = one
    two = two
    Conn = {one, two}
    Platforms <- MCPlatforms
    Switches = {"port"}
    Services = {"beep"}
    Internal = {"uptime"}
    Words <- MCWords
    KeepAlive = 1
    RebootTimeout = 0
    RecvMax = 1
    BufferMayFill = TRUE
SPECIFICATION TasksSpec
INVARIANT
    NothingFreedIsRead
