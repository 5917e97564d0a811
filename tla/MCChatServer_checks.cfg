\* ReadMe.md:26 against a client that is slow to log in.
SPECIFICATION Spec
CONSTANTS
    a = a
    Names = {a}
    HeaderNames = {a}
    NoName = NoName
    ServerName = ServerName
    Fds = {4}
    MaxClients = 1
    Rooms = 0
    MaxMembers = 1
    PoolSize = 3
    MaxPings = 3
    IdleLimit = 1
    AckLimit = 1
    MaxDeficit = 0
    Traffic = {"ACCEPT", "CONN_REQ", "PING_ACK", "TICK", "IDLE"}
VIEW StateView
INVARIANTS IdleClientsChecked
CHECK_DEADLOCK FALSE
