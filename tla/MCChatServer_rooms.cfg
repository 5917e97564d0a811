\* Three connections, one numbered room and room 0: who is in a room after
\* any order of creating, inviting, leaving and deletion, and who is invited.
\* The pool is empty, no property here reads the queue.
SPECIFICATION Spec
CONSTANTS
    Names = {}
    HeaderNames = {0, 1}
    NoName = NoName
    ServerName = ServerName
    Fds = {4, 5, 6}
    MaxClients = 3
    Rooms = 1
    MaxMembers = 3
    PoolSize = 0
    MaxPings = 1
    IdleLimit = 0
    AckLimit = 0
    MaxDeficit = 1
    Traffic = {"ACCEPT", "CREATE_CHATROOM_REQ", "INVITE_REQ", "INVITE_ACK", "EXIT_CHATROOM_REQ", "EXIT_REQ", "STR_REQ", "EXIT_ACK", "SERVICE", "EOF", "ALL_USER_REQ"}
VIEW StateView
INVARIANTS TypeOK UniqueClients RoomListsMember CountsNonNegative OverrunsNeedFull
PROPERTIES BroadcastReachesRoom DepartureIsAnnounced CreatedRoomIsFresh InvitedIsFree SlotsMoveWhole
CHECK_DEADLOCK FALSE
