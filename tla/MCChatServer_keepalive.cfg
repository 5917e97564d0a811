\* Two connections and a third that finds the list full: pings, timeouts,
\* lost writes, log in, departures, acknowledgements nobody asked for, and the
\* end of the server.
SPECIFICATION Spec
CONSTANTS
    a = a
    Names = {a}
    HeaderNames = {a}
    NoName = NoName
    ServerName = ServerName
    Fds = {4, 5, 6}
    MaxClients = 2
    Rooms = 0
    MaxMembers = 1
    PoolSize = 3
    MaxPings = 2
    IdleLimit = 0
    AckLimit = 1
    MaxDeficit = 0
    Traffic = {"ACCEPT", "CONN_REQ", "EXIT_REQ", "EXIT_ACK", "PING_ACK", "STR_ACK", "ALRAM_ACK", "TICK", "IDLE", "LOSS", "INTERRUPT"}
VIEW StateView
INVARIANTS TypeOK UniqueClients QueueOldestFirst
CHECK_DEADLOCK FALSE
