\* ReadMe.md:12 against three clients that connect and leave.
SPECIFICATION Spec
CONSTANTS
    a = a
    Names = {a}
    HeaderNames = {a}
    NoName = NoName
    ServerName = ServerName
    Fds = {4, 5, 6}
    MaxClients = 3
    Rooms = 0
    MaxMembers = 1
    PoolSize = 3
    MaxPings = 3
    IdleLimit = 1
    AckLimit = 1
    MaxDeficit = 0
    Traffic = {"ACCEPT", "EXIT_REQ"}
VIEW StateView
INVARIANTS EveryConnectionListed
CHECK_DEADLOCK FALSE
