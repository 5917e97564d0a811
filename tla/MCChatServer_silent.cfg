\* ReadMe.md:28 against clients that connect and never send.
SPECIFICATION FairSpec
CONSTANTS
    a = a
    Names = {a}
    HeaderNames = {a}
    NoName = NoName
    ServerName = ServerName
    Fds = {4, 5}
    MaxClients = 2
    Rooms = 0
    MaxMembers = 1
    PoolSize = 3
    MaxPings = 3
    IdleLimit = 1
    AckLimit = 1
    MaxDeficit = 0
    Traffic = {"ACCEPT", "TICK", "IDLE"}
PROPERTIES SilentConnectionReleased
CHECK_DEADLOCK FALSE
