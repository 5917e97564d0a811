----------------------------- MODULE ChatSystem -----------------------------
(***************************************************************************)
(* Client processes (ChatClient) and the server (ChatServer) on both ends  *)
(* of their connections.  A packet the server reads is the oldest one a    *)
(* client wrote to that descriptor, and what the server writes is appended *)
(* to what the client has not read.                                        *)
(*                                                                         *)
(* The subscriber tables are constants.  MaxMoves bounds the lines typed,  *)
(* the processes started again, interrupted or killed, and a stop of the   *)
(* server, taken together; at most MaxTicks seconds pass.                  *)
(***************************************************************************)
EXTENDS ChatClient, SequencesExt

CONSTANTS
    ServerName, Fds, MaxClients, Rooms, MaxMembers, PoolSize, MaxPings,
    IdleLimit, AckLimit, MaxDeficit, HeaderNames, Traffic,  \* of ChatServer
    Registered,  \* names of the subscriber table
    Rejected,    \* pairs <<callee, caller>> of the rejection table
    Forward,     \* the forwarding target of every name, or NoName
    LoginNames,  \* names users of this instance type
    Commands,    \* what the user of each client does in this instance
    MaxMoves,    \* bound: see above
    MaxTicks     \* bound: see above

ASSUME ChatSystemAssumption ==
    /\ 0 \notin Fds
    /\ Registered \subseteq Names /\ LoginNames \subseteq Names
    /\ Forward \in [Names -> Names \cup {NoName}]
    /\ MaxMoves \in Nat /\ MaxTicks \in Nat

VARIABLES
    clientList, isPing, chatRoomList, deficit, chatRoomAck, MallocQ, openFds,
    status, out,  \* of ChatServer
    moves, ticks  \* counters for the bounds

Server == INSTANCE ChatServer

\* No user is called unknown<k>, the name of a connection without a login.
ASSUME ServerAssumption ==
    /\ Server!ChatServerAssumption /\ Server!HeaderAssumption
    /\ Names \cap Server!Placeholder = {}

serverVars == <<clientList, isPing, chatRoomList, deficit, chatRoomAck, MallocQ,
                openFds, status>>
vars == <<clientVars, serverVars, out, moves, ticks>>

Init == Server!Init /\ ClientInit /\ moves = 0 /\ ticks = 0

-----------------------------------------------------------------------------
(* Steps of the clients.                                                   *)

Quietly == UNCHANGED <<serverVars, ticks>> /\ Server!Silent
Move == moves < MaxMoves /\ moves' = moves + 1
Services == {"AddLettering", "DelLettering", "AddRejectCall", "DelRejectCall",
             "AddCallForwarding", "DelCallForwarding"}
Does(c, command) == command \in Commands[c] /\ Move
UserActs(c) ==
    /\ Quietly
    /\ \/ \E name \in LoginNames :
             \/ Does(c, "SignUp") /\ SignUp(c, name)
             \/ Does(c, "Connect") /\ Connect(c, name)
             \/ Does(c, "!Invite") /\ Invite(c, name)
       \/ \E command \in Services : Does(c, command) /\ Service(c, command)
       \/ Does(c, "Exit") /\ Exit(c)
       \/ Does(c, "Create") /\ Create(c)
       \/ Does(c, "!Exit") /\ Leave(c)
       \/ Does(c, "!User") /\ User(c)
       \/ Does(c, "text") /\ Chat(c)
       \/ Does(c, "SIGINT") /\ Interrupted(c)
       \/ Does(c, "SIGKILL") /\ Killed(c)
       \/ \E name \in Leftover[c] : client[c].pc = "off" /\ Start(c, name) /\ UNCHANGED moves
       \/ \E name \in Leftover[c] : Does(c, "again") /\ client[c].pc = "ended" /\ Start(c, name)

\* A wait is old enough to be popped at any time after a second has passed.
ClientActs(c) ==
    /\ Quietly /\ UNCHANGED moves
    /\ ClientReads(c) \/ (ticks > 0 /\ TimeOver(c)) \/ ConnectFails(c)

-----------------------------------------------------------------------------
(* Steps of the server.                                                    *)

\* The packets a handler wrote to a descriptor: one for each cell of room r
\* that holds it when the handler goes over a room, and the answer last.
OverRoom == {"STR_REQ", "ALRAM_REQ"}
Written(fd, r) ==
    LET mine == {p \in out'.sent : p.fd = fd}
        cells == Cardinality({j \in DOMAIN chatRoomList[r] : chatRoomList[r][j] = fd})
        copy(p) == [type |-> p.type, src |-> p.src, dst |-> p.dst, body |-> p.body]
        copies(p) == [k \in 1..(IF p.type \in OverRoom THEN cells ELSE 1) |-> copy(p)]
        first == {p \in mine : p.type \in OverRoom \cup {"PING_REQ"}}
    IN  FlattenSeq([k \in DOMAIN SetToSeq(first) |-> copies(SetToSeq(first)[k])])
          \o FlattenSeq([k \in DOMAIN SetToSeq(mine \ first) |->
                           copies(SetToSeq(mine \ first)[k])])

\* The end of the server's process closes every connection.
Links(at) == [c \in Clients |->
                IF at[c] \in openFds' /\ status' = "running" THEN at[c] ELSE 0]
Delivered(r) == [c \in Clients |->
    IF link[c] = 0 \/ client[c].pc = "ended" THEN down[c]
    ELSE down[c] \o Written(link[c], r)]

\* up holds what is left unread by the step, of connections still open.
Delivers(r, unread) ==
    /\ link' = Links(link)
    /\ down' = Delivered(r)
    /\ up' = [c \in Clients |-> IF link'[c] = 0 THEN <<>> ELSE unread[c]]
    /\ UNCHANGED client

Accepts(c) ==
    /\ Connected(c)
    /\ \E fd \in Fds : Server!Accept(fd) /\ link' = Links([link EXCEPT ![c] = fd])
    /\ UNCHANGED <<moves, ticks>>

\* A process that has ended refuses what is written to it, at the latest the
\* second time.
Gone == {link[c] : c \in {c \in Clients : client[c].pc = "ended" /\ link[c] # 0}}

\* The handler of packet p from client i of the list.
Handles(i, p, lost) ==
    \/ /\ p.type = "CONN_REQ"
       /\ Server!ConnReq(i, p.src, p.src \in Registered, lost)
    \/ p.type \in Server!ServiceReq /\ Server!ServiceRequest(i, p.type, p.src, lost)
    \/ p.type = "ALL_USER_REQ" /\ Server!AllUserReq(i)
    \/ p.type = "EXIT_REQ" /\ Server!ExitReq(i, lost)
    \/ p.type = "EXIT_ACK" /\ Server!ExitAck(i)
    \/ /\ p.type = "CREATE_CHATROOM_REQ"
       /\ \E r \in 0..Rooms : Server!CreateChatroomReq(i, r, p.src, lost)
    \/ p.type = "EXIT_CHATROOM_REQ" /\ Server!ExitChatroomReq(i, p.src, lost)
    \/ /\ p.type = "INVITE_REQ"
       /\ Server!InviteReq(i, p.src, p.dst, <<p.dst, p.src>> \in Rejected,
                           Forward[p.dst], lost)
    \/ p.type = "INVITE_ACK" /\ Server!InviteAck(i, p.src, p.dst, p.body, lost)
    \/ p.type = "STR_REQ" /\ Server!StrReq(i, p.src, lost)
    \/ p.type = "STR_ACK" /\ Server!StrAck(i, p.src, p.dst, lost)
    \/ p.type = "ALRAM_ACK" /\ Server!AlramAck(i)
    \/ p.type = "PING_ACK" /\ Server!PingAck(i)

\* The room whose cells the handler of packet p of client i goes over.
RoomOf(i, p) ==
    IF p.type = "INVITE_ACK"
    THEN LET s == Server!Server_Search_Client(p.src)
         IN  IF s = 0 THEN 0 ELSE clientList[s].chatRoom
    ELSE clientList[i].chatRoom

\* Only a listed descriptor is read.
ServerReads(c) ==
    /\ link[c] # 0
    /\ \E i \in DOMAIN clientList :
          /\ clientList[i].fd = link[c]
          /\ \/ /\ up[c] = <<>> /\ client[c].pc = "ended"
                /\ Server!ReadNothing(i)
                /\ Delivers(0, up)
             \/ /\ up[c] # <<>>
                /\ \E lost \in SUBSET Gone : Handles(i, Head(up[c]), lost)
                /\ Delivers(RoomOf(i, Head(up[c])), [up EXCEPT ![c] = Tail(@)])
    /\ UNCHANGED <<moves, ticks>>

\* select times out only when no listed client has written or has gone.
ServerIdles ==
    /\ \A i \in DOMAIN clientList : \A c \in Clients :
          clientList[i].fd = link[c] => up[c] = <<>> /\ client[c].pc # "ended"
    /\ Server!Idle({})
    /\ Delivers(0, up)
    /\ UNCHANGED <<moves, ticks>>
SecondPasses ==
    /\ ticks < MaxTicks /\ ticks' = ticks + 1
    /\ Server!Tick
    /\ UNCHANGED <<clientVars, moves>>
ServerStops ==
    /\ Move
    /\ Server!Interrupt({})
    /\ Delivers(0, up)
    /\ UNCHANGED ticks

-----------------------------------------------------------------------------
Next ==
    \/ \E c \in Clients : UserActs(c) \/ ClientActs(c) \/ Accepts(c) \/ ServerReads(c)
    \/ ServerIdles \/ SecondPasses \/ ServerStops

Spec == Init /\ [][Next]_vars

\* The server's pass serves every client that is ready (SelectLoop), a client
\* reads what arrives and its user answers invitations.
Served ==
    \A c \in Clients :
        /\ WF_vars(ServerReads(c))
        /\ WF_vars(Quietly /\ UNCHANGED moves /\ ClientReads(c))
\* Time passes, and the idle passes of every client recur.
TimePasses ==
    /\ WF_vars(SecondPasses)
    /\ \A c \in Clients :
          WF_vars(Quietly /\ UNCHANGED moves /\ ticks > 0 /\ TimeOver(c))

FairSpec == Spec /\ Served
-----------------------------------------------------------------------------
(* Properties.                                                             *)

UpType == {"CONN_REQ", "ALL_USER_REQ", "EXIT_REQ", "EXIT_ACK", "INVITE_REQ",
           "CREATE_CHATROOM_REQ", "EXIT_CHATROOM_REQ", "INVITE_ACK", "STR_REQ",
           "STR_ACK", "ALRAM_ACK", "PING_ACK"} \cup Server!ServiceReq
DownType == PlainAck \cup {"EXIT_ACK", "CONN_ACK", "CREATE_CHATROOM_ACK",
               "EXIT_CHATROOM_ACK", "PING_REQ", "EXIT_REQ", "STR_REQ",
               "INVITE_REQ", "ALRAM_REQ"}
WaitTypes == PlainAck \cup {"CONN_ACK", "EXIT_ACK", "EXIT_CHATROOM_ACK"}

\* Every variable has its type: in particular the server sends no packet a
\* client does not know, and a client none the server does not.
TypeOK ==
    /\ Server!TypeOK
    /\ \A c \in Clients :
          /\ client[c].pc \in {"off", "trying", "running", "ended"}
          /\ client[c].tries \in 0..(MaxTries - 1)
          /\ {client[c].myName, client[c].tryId} \subseteq Names \cup {NoName}
          /\ {client[c].isConnected, client[c].isChat, client[c].asked} \subseteq BOOLEAN
          /\ Len(client[c].waits) <= ClientPool
          /\ \A k \in DOMAIN client[c].waits : client[c].waits[k] \in WaitTypes
          /\ link[c] \in openFds \cup {0}
          /\ \A k \in DOMAIN up[c] : up[c][k].type \in UpType
          /\ \A k \in DOMAIN down[c] : down[c][k].type \in DownType

Listed(c) == \E i \in DOMAIN clientList : clientList[i].fd = link[c]
Entry(c) == clientList[CHOOSE i \in DOMAIN clientList : clientList[i].fd = link[c]]

\* Everything either side wrote to the other has been read.
Quiet(c) == client[c].pc = "running" /\ link[c] # 0 /\ up[c] = <<>> /\ down[c] = <<>>

\* With nothing in transit a client believes to be logged in exactly when the
\* server lists it under a subscriber's name, and under the same name: through
\* repeated and overtaken logins, logins of two clients with one name, time
\* outs and a myName that was never initialised.
LoginAgrees ==
    \A c \in Clients : Quiet(c) =>
        LET named == Listed(c) /\ Entry(c).name \in Names
        IN  /\ client[c].isConnected <=> named
            /\ named => Entry(c).name = client[c].myName

\* With nothing in transit, a client the server has in a numbered room knows
\* that it is in a room: it can talk, and leave.  Only for a patient user: a
\* second !Exit, or an invitation accepted while one is under way, breaks it.
\* So does a login under a second name while an invitation is out, which takes
\* three clients: the callee is looked up by name when it answers
\* (server.c:683), and that may be somebody else's by then.
RoomIsKnown ==
    \A c \in Patient : Quiet(c) /\ Listed(c) /\ Entry(c).chatRoom > 0 =>
        client[c].isConnected /\ client[c].isChat

\* As long as no wait can have timed out, each chat message on its way to a
\* client, and each acknowledgement on its way back, has a wait of its own in
\* the server's queue: the head the handler of STR_ACK reads without looking
\* (server.c:753) is there.
InTransit(pipe, type) == UNION {{<<c, k>> : k \in
    {k \in DOMAIN pipe[c] : pipe[c][k].type = type}} : c \in Clients}
EveryChatIsWaited ==
    ticks = 0 =>
      /\ status # "NULL queue head"
      /\ status = "running" =>
            Cardinality({k \in DOMAIN MallocQ : MallocQ[k].type = "STR_ACK"})
              >= Cardinality(InTransit(down, "STR_REQ"))
                   + Cardinality(InTransit(up, "STR_ACK"))

\* A goodbye the server can read is carried through at both ends, if the
\* server lives: the process ends and its connection is released, also when
\* the process was interrupted or killed right after it.
Saying(c) == Listed(c) /\ \E k \in DOMAIN up[c] : up[c][k].type = "EXIT_REQ"
ExitCompletes ==
    \A c \in Clients :
        Saying(c) ~> \/ client[c].pc = "ended" /\ link[c] = 0
                     \/ status # "running"

-----------------------------------------------------------------------------
(* What src/ReadMe.md says of the client, and the code does not do.        *)

\* ReadMe.md:21: a client that gets no answer to a request within some time
\* has to release its connection.  Every wait for the answer to an invitation
\* leads to that answer or to the end of the connection or the process.
Invites(c) == \E k \in DOMAIN client[c].waits : client[c].waits[k] = "INVITE_ACK"
UnansweredInvitationReleases ==
    \A c \in Clients :
        Invites(c) ~> \/ \E k \in DOMAIN down[c] : down[c][k].type = "INVITE_ACK"
                      \/ client[c].pc = "ended" \/ link[c] = 0
=============================================================================
