\* ReadMe.md:21 against an invitation that nobody answers.
SPECIFICATION FairSession
CONSTANTS
    junk = junk
    c1 = c1
    c2 = c2
    a = a
    b = b
    Clients = {c1, c2}
    Names = {a, b, junk}
    Registered = {a, b}
    LoginNames = {junk}
    Rejected = {}
    Forward <- NoForward
    Commands <- InviteCommands
    NoName = NoName
    Leftover <- Garbage
    MaxTries = 1
    ClientPool = 10
    Patient = {c1, c2}
    MaxUnread = 2
    ServerName = ServerName
    Fds = {4, 5}
    MaxClients = 2
    Rooms = 1
    MaxMembers = 3
    PoolSize = 8
    MaxPings = 1
    IdleLimit = 0
    AckLimit = 0
    MaxDeficit = 3
    HeaderNames = {a, b, junk, NoName}
    Traffic = {"ACCEPT", "EOF", "CONN_REQ", "SERVICE", "ALL_USER_REQ", "EXIT_REQ", "EXIT_ACK", "CREATE_CHATROOM_REQ", "EXIT_CHATROOM_REQ", "INVITE_REQ", "INVITE_ACK", "STR_REQ", "STR_ACK", "ALRAM_ACK", "PING_ACK", "TICK", "IDLE", "INTERRUPT", "LOSS"}
    MaxMoves = 1
    MaxTicks = 1
PROPERTIES UnansweredInvitationReleases
CHECK_DEADLOCK FALSE
