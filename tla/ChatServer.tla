----------------------------- MODULE ChatServer -----------------------------
(***************************************************************************)
(* The chat server of src/Server: server.c (accept, the packet handlers,   *)
(* the idle tick) with the client list, the chat rooms and the senders of  *)
(* serverFunction.c.  One action is one whole handler: server.c is a single*)
(* thread, and a handler runs to completion before the next select.        *)
(*                                                                         *)
(* The clients, the subscriber tables and the clock are the environment:   *)
(* any listed connection may deliver any packet at any time, a table lookup*)
(* may answer anything, and a write may be refused.                        *)
(*                                                                         *)
(* The handlers store without bound checks.  A store or load outside an    *)
(* array, on a count, or through NULL, ends the behaviour with its name in *)
(* "status".                                                               *)
(* A load whose value is dead has no effect: a deletion from a full list   *)
(* copies clientList[10] to a slot it then clears, a removal from a full   *)
(* row copies the next row's count to a cell beyond the new count.         *)
(*                                                                         *)
(* A definition named Bug... is a slip this code could have had, to be put *)
(* in the place of the definition after it and see a property fail.        *)
(***************************************************************************)
EXTENDS Naturals, Sequences, FiniteSets

CONSTANTS
    Names,       \* names a subscriber may log in with
    NoName,      \* the empty string in a name field of a packet
    ServerName,  \* the name "server" given to the wait for an alarm
    Fds,         \* descriptors accept may return (bound of the model)
    MaxClients,  \* SERVER_MAX_CLIENT_LIST_SIZE, 10
    Rooms,       \* rooms Create may hand out, 5; room 0 is extra
    MaxMembers,  \* cells of a row of chatRoomList after its count, 10
    PoolSize,    \* nodes of the packet pool
    MaxPings,    \* isPing value at which a silent client is asked to exit
    IdleLimit,   \* seconds without a packet before a ping
    AckLimit,    \* seconds a packet waits for its ack
    MaxDeficit,  \* bound of the model: how far below zero a count may go
    HeaderNames, \* names the packets of this instance carry
    Traffic      \* what the environment does in this instance

ASSUME ChatServerAssumption ==
    /\ NoName \notin Names \cup Nat
    /\ Fds \subseteq Nat
    /\ MaxClients \in Nat \ {0} /\ Rooms \in Nat /\ MaxMembers \in Nat \ {0}
    /\ PoolSize \in Nat /\ MaxPings \in Nat \ {0} /\ MaxDeficit \in Nat
    /\ IdleLimit \in Nat /\ AckLimit \in Nat

VARIABLES
    clientList,    \* clientList[0..clientListSize-1], without isPing
    isPing,        \* the isPing field of every slot, listed or not
    chatRoomList,  \* cells 1..count of every room: descriptors
    deficit,       \* how far chatRoomList[r][0] is below zero
    chatRoomAck,   \* acknowledgements counted in every room
    MallocQ,       \* packets that wait for an acknowledgement
    openFds,       \* accepted descriptors not yet closed
    status,        \* "running", "stopped", or the undefined access reached
    out            \* packets of the last step: written, and refused

vars == <<clientList, isPing, chatRoomList, deficit, chatRoomAck, MallocQ,
          openFds, status, out>>
rooms == <<chatRoomList, deficit, chatRoomAck>>

-----------------------------------------------------------------------------
(* The values a packet, a connection and a wait are made of.               *)

\* A connection is listed as unknown<k> until it logs in; k stands for it.
Placeholder == 0..MaxClients
ClientName == Names \cup Placeholder
AnyName == ClientName \cup {NoName}
ASSUME HeaderAssumption == HeaderNames \subseteq AnyName

\* The requests that only reach the subscriber tables, and their answers.
ServiceReq == {"SIGN_UP_REQ", "LETTERING_ADD_REQ", "LETTERING_DEL_REQ",
               "REJECT_CALL_ADD_REQ", "REJECT_CALL_DEL_REQ",
               "CALL_FORWARDING_ADD_REQ", "CALL_FORWARDING_DEL_REQ"}
ServiceAck(req) == CASE req = "SIGN_UP_REQ" -> "SIGN_UP_ACK"
    [] req = "LETTERING_ADD_REQ" -> "LETTERING_ADD_ACK"
    [] req = "LETTERING_DEL_REQ" -> "LETTERING_DEL_ACK"
    [] req = "REJECT_CALL_ADD_REQ" -> "REJECT_CALL_ADD_ACK"
    [] req = "REJECT_CALL_DEL_REQ" -> "REJECT_CALL_DEL_ACK"
    [] req = "CALL_FORWARDING_ADD_REQ" -> "CALL_FORWARDING_ADD_ACK"
    [] OTHER -> "CALL_FORWARDING_DEL_ACK"

ClientRecord == [name : ClientName, fd : Fds, chatRoom : 0..Rooms,
                 age : 0..(IdleLimit + 1)]
WaitType == {"PING_ACK", "STR_ACK", "INVITE_ACK", "ALRAM_ACK"}
WaitRecord == [name : AnyName \cup {ServerName}, type : WaitType,
               age : 0..(AckLimit + 1)]

Faults == {"client list overrun", "room overrun", "room count overwritten",
           "clientList[-1]", "NULL queue head", "number used as a string"}

Wait(name, type) == [name |-> name, type |-> type, age |-> 0]

BugEmpty(r) == Len(chatRoomList[r]) <= 1
\* chatRoomList[r][0], compared with zero and with other counts.
Empty(r) == chatRoomList[r] = <<>> /\ deficit[r] = 0

-----------------------------------------------------------------------------
(* The packets the server sends, one constructor per sender.               *)

Packet(fd, type, src, dst, body) ==
    [fd |-> fd, type |-> type, src |-> src, dst |-> dst, body |-> body]

\* Senders return before writing when the name they are given is empty.
ToNamed(name, p) == IF name = NoName THEN {} ELSE {p}

Server_Create_Chat_Room_Ack(fd, client) ==
    ToNamed(client, Packet(fd, "CREATE_CHATROOM_ACK", NoName, client, ""))
Server_Ack_To_Client(fd, client, state) ==
    ToNamed(client, Packet(fd, "CONN_ACK", NoName, client, state))
Server_Service_Ack(fd, client, req) ==
    ToNamed(client, Packet(fd, ServiceAck(req), NoName, client, ""))
Server_Exit_Chat_Romm_Ack(fd, client) ==
    ToNamed(client, Packet(fd, "EXIT_CHATROOM_ACK", NoName, client, ""))
Server_Ping_Request(fd, client) == Packet(fd, "PING_REQ", NoName, client, "")
Server_Exit_Request(fd, client) == Packet(fd, "EXIT_REQ", NoName, client, "")
Server_Exit_Ack(fd, client) == Packet(fd, "EXIT_ACK", NoName, client, "")
Server_Alram_Request(fd) == Packet(fd, "ALRAM_REQ", NoName, NoName, "text")
Server_Chat_Request(fd, src) == Packet(fd, "STR_REQ", src, NoName, "text")
Server_Chat_Ack(fd, src, dst) ==
    ToNamed(src, Packet(fd, "STR_ACK", NoName, dst, ""))
Server_Invite_Client_Request(fd, src, dst) ==
    Packet(fd, "INVITE_REQ", src, dst, "")
Server_Invite_Client_Ack(fd, src, dst, body) ==
    Packet(fd, "INVITE_ACK", src, dst, body)

\* The timeout scan pings with a zeroed header.
RepeatedPing(fd) == Packet(fd, "PING_REQ", NoName, NoName, "")

\* writePacket fails on a closed descriptor, and on one in "lost": a broken
\* connection, or a non-blocking one whose buffer is full.
Accepts(fd, lost) == fd \in openFds \ lost
Outcome(packets, lost) ==
    [sent    |-> {p \in packets : Accepts(p.fd, lost)},
     refused |-> {p \in packets : ~ Accepts(p.fd, lost)}]
Losses == IF "LOSS" \in Traffic THEN SUBSET Fds ELSE {{}}
Silent == out' = [sent |-> {}, refused |-> {}]

-----------------------------------------------------------------------------
(* The client list, the rooms and the queue of waits.                      *)

\* Index of the client with this name, 0 when there is none.  Names are
\* unique in the list (UniqueClients), so any match is the first one.
Server_Search_Client(name) ==
    IF \E i \in DOMAIN clientList : clientList[i].name = name
    THEN CHOOSE i \in DOMAIN clientList : clientList[i].name = name
    ELSE 0

BugShiftOff(list, d) ==
    [k \in 1..(Len(list) - 1) |-> IF k <= d THEN list[k] ELSE list[k + 1]]
BugShiftRoom(list, d) ==
    [k \in 1..(Len(list) - 1) |->
        IF k < d THEN list[k] ELSE [list[k + 1] EXCEPT !.chatRoom = list[k].chatRoom]]

\* clientListSize is not counted down.
BugKeepSize(list, d) ==
    [k \in DOMAIN list |-> IF k < d \/ k = Len(list) THEN list[k] ELSE list[k + 1]]

\* Deletion closes the gap by copying every later slot, except its isPing.
\* It is asked for by a listed client's own name: its search does not fail.
WithoutClient(list, d) ==
    [k \in 1..(Len(list) - 1) |-> IF k < d THEN list[k] ELSE list[k + 1]]

Server_Del_Client_List(d) ==
    /\ clientList' = WithoutClient(clientList, d)
    /\ isPing' = IF d = Len(clientList) THEN [isPing EXCEPT ![d] = 0] ELSE isPing
    /\ openFds' = openFds \ {clientList[d].fd}

BugDropLast(cells, fd) == SubSeq(cells, 1, Len(cells) - 1)

\* The removal loop copies cell j + 1 to cell j from the first match on, and
\* the count drops by one even when nothing matched.
WithoutMember(cells, fd) ==
    [k \in 1..(Len(cells) - 1) |->
        IF \E j \in 1..k : cells[j] = fd THEN cells[k + 1] ELSE cells[k]]

BugLeaveTwice(r, fd) ==
    /\ chatRoomList' = [chatRoomList EXCEPT ![r] =
                           WithoutMember(WithoutMember(@, fd), fd)]
    /\ deficit' = [deficit EXCEPT ![r] =
                      IF chatRoomList[r] = <<>> THEN @ + 1 ELSE @]
LeaveRoom(r, fd) ==
    /\ chatRoomList' = [chatRoomList EXCEPT ![r] = WithoutMember(@, fd)]
    /\ deficit' = [deficit EXCEPT ![r] =
                      IF chatRoomList[r] = <<>> THEN @ + 1 ELSE @]

\* chatRoomList[r][count + 1] = fd: what the store hits when it is no cell.
\* Below zero it is a count: of room 0 its own, for a count of -1, which is
\* inside the array and makes the count fd + 1.  What follows from a count
\* that is a descriptor is not modelled, the behaviour ends there too.
JoinFault(r) == IF deficit[r] > 0 THEN "room count overwritten"
                                  ELSE "room overrun"
BugCanJoin(r) == deficit[r] = 0 /\ Len(chatRoomList[r]) <= MaxMembers
CanJoin(r) == deficit[r] = 0 /\ Len(chatRoomList[r]) < MaxMembers
BugJoinNone(r, fd) == UNCHANGED <<chatRoomList, deficit>>
JoinRoom(r, fd) ==
    /\ chatRoomList' = [chatRoomList EXCEPT ![r] = Append(@, fd)]
    /\ UNCHANGED deficit

\* The members of a room a handler writes to: every cell but the sender's.
BugOthers(r, fd) ==
    {j \in 1..(Len(chatRoomList[r]) - 1) : chatRoomList[r][j] # fd}
Others(r, fd) == {j \in DOMAIN chatRoomList[r] : chatRoomList[r][j] # fd}
Reached(r, fd, lost) == {j \in Others(r, fd) : Accepts(chatRoomList[r][j], lost)}

BugPushAll(q, waits) == q \o waits

\* Queue_Push_Back takes nodes from the pool while there are any.
PushAll(q, waits) == SubSeq(q \o waits, 1,
    IF Len(q) + Len(waits) < PoolSize THEN Len(q) + Len(waits) ELSE PoolSize)
Copies(n, wait) == [k \in 1..n |-> wait]

Alarms(r, fd) == {Server_Alram_Request(chatRoomList[r][j]) : j \in Others(r, fd)}
AlarmWaits(r, fd, lost) ==
    Copies(Cardinality(Reached(r, fd, lost)), Wait(ServerName, "ALRAM_ACK"))

\* An acknowledgement pops the head of the queue when the types agree.
PopOnAck(type) ==
    IF MallocQ # <<>> /\ Head(MallocQ).type = type THEN Tail(MallocQ) ELSE MallocQ

-----------------------------------------------------------------------------
Init ==
    /\ clientList = <<>>
    /\ isPing = [k \in 1..MaxClients |-> 0]
    /\ chatRoomList = [r \in 0..Rooms |-> <<>>]
    /\ deficit = [r \in 0..Rooms |-> 0]
    /\ chatRoomAck = [r \in 0..Rooms |-> 0]
    /\ MallocQ = <<>>
    /\ openFds = {}
    /\ status = "running"
    /\ out = [sent |-> {}, refused |-> {}]

Running(event) == status = "running" /\ event \in Traffic

\* Undefined behaviour: the model does not say what follows.
Crash(fault) ==
    /\ status' = fault
    /\ UNCHANGED <<clientList, isPing, rooms, MallocQ, openFds>>
    /\ Silent

-----------------------------------------------------------------------------
(* Connections.                                                            *)

\* accept returns the lowest free descriptor.  It stays open, and unread,
\* when its placeholder name is taken.  The test for more than ten clients
\* (server.c:275) follows the store in clientList[10] it should prevent.
Accept(fd) ==
    /\ Running("ACCEPT")
    /\ fd \notin openFds /\ \A g \in Fds \ openFds : fd <= g
    /\ IF Server_Search_Client(Len(clientList)) # 0
       THEN /\ openFds' = openFds \cup {fd}
            /\ UNCHANGED <<clientList, isPing, rooms, MallocQ, status>>
            /\ Silent
       ELSE IF Len(clientList) = MaxClients
       THEN Crash("client list overrun")
       ELSE /\ clientList' = Append(clientList,
                  [name |-> Len(clientList), fd |-> fd, chatRoom |-> 0, age |-> 0])
            /\ openFds' = openFds \cup {fd}
            /\ UNCHANGED <<isPing, rooms, MallocQ, status>>
            /\ Silent

\* A packet of client i is read: the handlers below start from this list.
Reads(i, type) == Running(type) /\ i \in DOMAIN clientList
Refreshed(i) == [clientList EXCEPT ![i].age = 0]
OnlyRefreshed(i) ==
    /\ clientList' = Refreshed(i)
    /\ UNCHANGED <<isPing, rooms, openFds, status>>

\* End of file, a short read or an unknown type: nothing but the age changes.
ReadNothing(i) ==
    /\ Reads(i, "EOF")
    /\ OnlyRefreshed(i)
    /\ UNCHANGED MallocQ
    /\ Silent

BugAdmitted(name, registered) == registered
\* A registered name that nobody has logged in with.
Admitted(name, registered) == registered /\ Server_Search_Client(name) = 0

ConnReq(i, name, registered, lost) ==
    /\ Reads(i, "CONN_REQ")
    /\ registered => name # NoName
    /\ LET state == Admitted(name, registered)
       IN  /\ clientList' = IF state THEN [Refreshed(i) EXCEPT ![i].name = name]
                                     ELSE Refreshed(i)
           /\ out' = Outcome(Server_Ack_To_Client(clientList[i].fd, name,
                                 IF state THEN "YES" ELSE "NO"), lost)
    /\ UNCHANGED <<isPing, rooms, MallocQ, openFds, status>>

\* The seven table requests differ in the table they edit, not modelled here.
ServiceRequest(i, req, name, lost) ==
    /\ Reads(i, "SERVICE")
    /\ OnlyRefreshed(i)
    /\ UNCHANGED MallocQ
    /\ out' = Outcome(Server_Service_Ack(clientList[i].fd, name, req), lost)

\* The list is printed with strcat(msg, i + 1).
AllUserReq(i) ==
    /\ Reads(i, "ALL_USER_REQ")
    /\ Crash("number used as a string")

ExitReq(i, lost) ==
    /\ Reads(i, "EXIT_REQ")
    /\ LET me == clientList[i]
           r == me.chatRoom
           inRoom == r # 0 /\ deficit[r] # 1
       IN  /\ IF inRoom THEN LeaveRoom(r, me.fd)
                        ELSE UNCHANGED <<chatRoomList, deficit>>
           /\ MallocQ' = IF inRoom THEN PushAll(MallocQ, AlarmWaits(r, me.fd, lost))
                                   ELSE MallocQ
           /\ out' = Outcome((IF inRoom THEN Alarms(r, me.fd) ELSE {})
                                \cup {Server_Exit_Ack(me.fd, me.name)}, lost)
           /\ Server_Del_Client_List(Server_Search_Client(me.name))
    /\ UNCHANGED <<chatRoomAck, status>>

\* The answer to the server's own EXIT_REQ: the room keeps the descriptor.
ExitAck(i) ==
    /\ Reads(i, "EXIT_ACK")
    /\ Server_Del_Client_List(Server_Search_Client(clientList[i].name))
    /\ UNCHANGED <<rooms, MallocQ, status>>
    /\ Silent

-----------------------------------------------------------------------------
(* Rooms and chat.                                                         *)

\* The first of rooms 1..Rooms whose count is zero, and room 0 when none is.
FirstVoid(r) == IF r = 0 THEN \A j \in 1..Rooms : ~ Empty(j)
                         ELSE Empty(r) /\ \A j \in 1..(r - 1) : ~ Empty(j)

CreateChatroomReq(i, r, name, lost) ==
    /\ Reads(i, "CREATE_CHATROOM_REQ")
    /\ FirstVoid(r)
    /\ IF CanJoin(r)
       THEN /\ JoinRoom(r, clientList[i].fd)
            /\ clientList' = [Refreshed(i) EXCEPT ![i].chatRoom = r]
            /\ out' = Outcome(Server_Create_Chat_Room_Ack(clientList[i].fd, name), lost)
            /\ UNCHANGED <<isPing, chatRoomAck, MallocQ, openFds, status>>
       ELSE Crash(JoinFault(r))

ExitChatroomReq(i, name, lost) ==
    /\ Reads(i, "EXIT_CHATROOM_REQ")
    /\ LET fd == clientList[i].fd
           r == clientList[i].chatRoom
       IN  /\ chatRoomList[r] = <<>> => deficit[r] < MaxDeficit  \* bound of the model
           /\ LeaveRoom(r, fd)
           /\ MallocQ' = PushAll(MallocQ, AlarmWaits(r, fd, lost))
           /\ out' = Outcome(Alarms(r, fd)
                                \cup Server_Exit_Chat_Romm_Ack(fd, name), lost)
    /\ clientList' = [Refreshed(i) EXCEPT ![i].chatRoom = 0]
    /\ UNCHANGED <<isPing, chatRoomAck, openFds, status>>

BugBusy(dst, callee) == clientList[Server_Search_Client(dst)].chatRoom > 0
\* The busy test is made after forwarding, on the client to be called.
Busy(dst, callee) == clientList[Server_Search_Client(callee)].chatRoom > 0

\* The rejection table is asked about the name invited, forwarding is looked
\* up after it; forward is the forwarding target of dst, NoName when none.
InviteReq(i, src, dst, rejected, forward, lost) ==
    /\ Reads(i, "INVITE_REQ")
    /\ rejected => src # NoName
    /\ OnlyRefreshed(i)
    /\ LET fd == clientList[i].fd
           callee == IF Server_Search_Client(forward) # 0 THEN forward ELSE dst
           target == clientList[Server_Search_Client(callee)]
       IN  IF Server_Search_Client(src) = 0 \/ Server_Search_Client(dst) = 0
           THEN UNCHANGED MallocQ /\ Silent
           ELSE IF rejected
           THEN /\ UNCHANGED MallocQ
                /\ out' = Outcome({Server_Invite_Client_Ack(fd, src, dst, "no")}, lost)
           ELSE IF Busy(dst, callee)
           THEN /\ UNCHANGED MallocQ
                /\ out' = Outcome({Server_Invite_Client_Ack(fd, src, callee, "busy")}, lost)
           ELSE /\ MallocQ' = IF Accepts(target.fd, lost)
                              THEN PushAll(MallocQ, <<Wait(callee, "INVITE_ACK")>>)
                              ELSE MallocQ
                /\ out' = Outcome({Server_Invite_Client_Request(target.fd, src, callee)}, lost)

\* Client i carries the answer of dst to the invitation of src.
InviteAck(i, src, dst, answer, lost) ==
    /\ Reads(i, "INVITE_ACK")
    /\ LET s == Server_Search_Client(src)
           d == Server_Search_Client(dst)
           r == clientList[s].chatRoom
           reply == {Server_Invite_Client_Ack(clientList[s].fd, src, dst, answer)}
       IN  IF s = 0 \/ d = 0
           THEN OnlyRefreshed(i) /\ MallocQ' = PopOnAck("INVITE_ACK") /\ Silent
           ELSE IF answer # "yes"
           THEN /\ OnlyRefreshed(i)
                /\ MallocQ' = PopOnAck("INVITE_ACK")
                /\ out' = Outcome(reply, lost)
           ELSE IF CanJoin(r)
           THEN /\ JoinRoom(r, clientList[d].fd)
                /\ clientList' = [Refreshed(i) EXCEPT ![d].chatRoom = r]
                /\ MallocQ' = PushAll(PopOnAck("INVITE_ACK"),
                                      AlarmWaits(r, clientList[i].fd, lost))
                /\ out' = Outcome(Alarms(r, clientList[i].fd) \cup reply, lost)
                /\ UNCHANGED <<isPing, chatRoomAck, openFds, status>>
           ELSE Crash(JoinFault(r))

StrReq(i, src, lost) ==
    /\ Reads(i, "STR_REQ")
    /\ OnlyRefreshed(i)
    /\ LET fd == clientList[i].fd
           r == clientList[i].chatRoom
       IN  IF src = NoName
           THEN UNCHANGED MallocQ /\ Silent
           ELSE /\ MallocQ' = PushAll(MallocQ,
                       Copies(Cardinality(Reached(r, fd, lost)), Wait(src, "STR_ACK")))
                /\ out' = Outcome({Server_Chat_Request(chatRoomList[r][j], src) :
                                      j \in Others(r, fd)}, lost)

\* A member acknowledges a message of src: the counter of src's room rises
\* to the room's count and stays there.
StrAck(i, src, dst, lost) ==
    /\ Reads(i, "STR_ACK")
    /\ LET s == Server_Search_Client(src)
           r == clientList[s].chatRoom
           acked == [chatRoomAck EXCEPT ![r] =
                        IF deficit[r] = 0 /\ @ < Len(chatRoomList[r]) THEN @ + 1 ELSE @]
       IN  IF MallocQ = <<>> THEN Crash("NULL queue head")
           ELSE IF s = 0 THEN Crash("clientList[-1]")
           ELSE /\ clientList' = Refreshed(i)
                /\ MallocQ' = PopOnAck("STR_ACK")
                /\ chatRoomAck' = acked
                /\ out' = Outcome(IF acked[r] >= Len(chatRoomList[r])
                                  THEN Server_Chat_Ack(clientList[s].fd, src, dst)
                                  ELSE {}, lost)
                /\ UNCHANGED <<isPing, chatRoomList, deficit, openFds, status>>

AlramAck(i) ==
    /\ Reads(i, "ALRAM_ACK")
    /\ OnlyRefreshed(i)
    /\ MallocQ' = PopOnAck("ALRAM_ACK")
    /\ Silent

-----------------------------------------------------------------------------
(* Connection checks.                                                      *)

PingAck(i) ==
    /\ Reads(i, "PING_ACK")
    /\ clientList' = Refreshed(i)
    /\ IF /\ isPing[i] = 1
          /\ MallocQ # <<>>
          /\ Head(MallocQ).type = "PING_ACK"
          /\ Head(MallocQ).name = clientList[i].name
       THEN isPing' = [isPing EXCEPT ![i] = 0] /\ MallocQ' = Tail(MallocQ)
       ELSE UNCHANGED <<isPing, MallocQ>>
    /\ UNCHANGED <<rooms, openFds, status>>
    /\ Silent

\* The slots of silent clients, and those Server_Check_Client_Time_Over
\* pings: it returns at the first ping it cannot write.
Due == {i \in DOMAIN clientList : isPing[i] = 0 /\ clientList[i].age > IdleLimit}
Tried(lost) == {i \in Due : \A j \in Due : j < i => Accepts(clientList[j].fd, lost)}
Pinged(lost) == {i \in Tried(lost) : Accepts(clientList[i].fd, lost)}

\* The one increasing enumeration of a finite set of numbers.
Increasing(S) == {order \in [1..Cardinality(S) -> S] :
                    \A a, b \in 1..Cardinality(S) : a < b => order[a] < order[b]}

PingOf(i) == Server_Ping_Request(clientList[i].fd, clientList[i].name)

MayRepeat(pings, s) == pings[s] < MaxPings

BugRestarted(q) == IF q = <<>> THEN q ELSE [q EXCEPT ![1].age = 0]
Restarted(q) == [k \in DOMAIN q |-> [q[k] EXCEPT !.age = 0]]

\* Server_Check_Packet_Time_Over on queue q and counters pings, after the
\* packets "pinged": it looks at the head alone.  Popping a head that is not
\* an unknown client's ping restarts every other wait and repeats its ping.
CheckPacketTimeOver(q, pings, pinged, lost) ==
    LET s == Server_Search_Client(Head(q).name)
        stale == q # <<>> /\ Head(q).age > AckLimit
        ping == Head(q).type = "PING_ACK"
        kicked == {Server_Exit_Request(clientList[s].fd, clientList[s].name)}
        repeated == {RepeatedPing(clientList[Server_Search_Client(w.name)].fd) :
                       w \in {Tail(q)[k] : k \in
                         {k \in DOMAIN Tail(q) : Tail(q)[k].type = "PING_ACK" /\
                            Server_Search_Client(Tail(q)[k].name) # 0}}}
    IN  \/ /\ ~ stale
           /\ MallocQ' = q /\ isPing' = pings
           /\ out' = Outcome(pinged, lost)
        \/ /\ stale /\ ping /\ s = 0
           /\ MallocQ' = Tail(q) /\ isPing' = pings
           /\ out' = Outcome(pinged, lost)
        \/ /\ stale /\ ping /\ s # 0 /\ MayRepeat(pings, s)
           /\ MallocQ' = q /\ isPing' = [pings EXCEPT ![s] = @ + 1]
           /\ out' = Outcome(pinged \cup {RepeatedPing(clientList[s].fd)}, lost)
        \/ /\ stale /\ (ping => s # 0 /\ ~ MayRepeat(pings, s))
           /\ MallocQ' = Restarted(Tail(q))
           /\ isPing' = pings
           /\ out' = Outcome(pinged \cup repeated \cup
                                (IF ping THEN kicked ELSE {}), lost)

\* select timed out: both scans, in this order, in one pass of the loop.
Idle(lost) ==
    /\ Running("IDLE")
    /\ \E order \in Increasing(Pinged(lost)) :
         CheckPacketTimeOver(
            PushAll(MallocQ, [k \in DOMAIN order |->
                                 Wait(clientList[order[k]].name, "PING_ACK")]),
            [k \in 1..MaxClients |-> IF k \in Pinged(lost) THEN 1 ELSE isPing[k]],
            {PingOf(i) : i \in Tried(lost)}, lost)
    /\ UNCHANGED <<clientList, rooms, openFds, status>>

\* A second passes.  Ages are compared with a limit only: they stop above it.
Older(age, limit) == IF age > limit THEN age ELSE age + 1
Tick ==
    /\ Running("TICK")
    /\ clientList' = [k \in DOMAIN clientList |->
           [clientList[k] EXCEPT !.age = Older(@, IdleLimit)]]
    /\ MallocQ' = [k \in DOMAIN MallocQ |->
           [MallocQ[k] EXCEPT !.age = Older(@, AckLimit)]]
    /\ UNCHANGED <<isPing, rooms, openFds, status>>
    /\ Silent

\* SIGINT: every client is asked to exit and the process ends.
Interrupt(lost) ==
    /\ Running("INTERRUPT")
    /\ status' = "stopped"
    /\ out' = Outcome({Server_Exit_Request(clientList[i].fd, clientList[i].name) :
                          i \in DOMAIN clientList}, lost)
    /\ clientList' = <<>>
    /\ openFds' = {}
    /\ UNCHANGED <<isPing, rooms, MallocQ>>

-----------------------------------------------------------------------------
\* The handlers that only the connection and its client's words select.
Serve(i) ==
    \/ ReadNothing(i) \/ AllUserReq(i) \/ ExitAck(i) \/ AlramAck(i) \/ PingAck(i)
    \/ \E lost \in Losses : ExitReq(i, lost)
    \/ \E name \in HeaderNames, registered \in BOOLEAN, lost \in Losses :
          ConnReq(i, name, registered, lost)
    \/ \E req \in ServiceReq, name \in HeaderNames, lost \in Losses :
          ServiceRequest(i, req, name, lost)
    \/ \E r \in 0..Rooms, name \in HeaderNames, lost \in Losses :
          CreateChatroomReq(i, r, name, lost)
    \/ \E name \in HeaderNames, lost \in Losses : ExitChatroomReq(i, name, lost)
    \/ \E src, dst, forward \in HeaderNames, rejected \in BOOLEAN, lost \in Losses :
          InviteReq(i, src, dst, rejected, forward, lost)
    \/ \E src, dst \in HeaderNames, answer \in {"yes", "no"}, lost \in Losses :
          InviteAck(i, src, dst, answer, lost)
    \/ \E src \in HeaderNames, lost \in Losses : StrReq(i, src, lost)
    \/ \E src, dst \in HeaderNames, lost \in Losses : StrAck(i, src, dst, lost)

Next ==
    \/ \E fd \in Fds : Accept(fd)
    \/ \E i \in 1..MaxClients : Serve(i)
    \/ \E lost \in Losses : Idle(lost) \/ Interrupt(lost)
    \/ Tick

Spec == Init /\ [][Next]_vars

-----------------------------------------------------------------------------
(* Properties.                                                             *)

\* Every variable has its type; up to the fault that ends the behaviour a list
\* and a queue fit in their arrays.
TypeOK ==
    /\ clientList \in Seq(ClientRecord) /\ Len(clientList) <= MaxClients
    /\ isPing \in [1..MaxClients -> 0..MaxPings]
    /\ chatRoomList \in [0..Rooms -> Seq(Fds)]
    /\ \A r \in 0..Rooms : Len(chatRoomList[r]) <= MaxMembers
    /\ deficit \in [0..Rooms -> 0..MaxDeficit]
    /\ chatRoomAck \in [0..Rooms -> 0..MaxMembers]
    /\ MallocQ \in Seq(WaitRecord) /\ Len(MallocQ) <= PoolSize
    /\ openFds \subseteq Fds
    /\ status \in {"running", "stopped"} \cup Faults

\* No two connections share a name or a descriptor, and every listed
\* descriptor is open: Server_Search_Client is unambiguous, a packet goes to
\* one client, and select is never given a closed descriptor (it would return
\* -1 and the server would leave its loop).
UniqueClients ==
    /\ \A i, j \in DOMAIN clientList : i # j =>
          /\ clientList[i].name # clientList[j].name
          /\ clientList[i].fd # clientList[j].fd
    /\ \A i \in DOMAIN clientList : clientList[i].fd \in openFds

\* A client that believes it is in a numbered room is in that room's cells:
\* the two records of membership, kept by five handlers, agree.
RoomListsMember ==
    \A i \in DOMAIN clientList : LET r == clientList[i].chatRoom IN
        r # 0 => \E j \in DOMAIN chatRoomList[r] : chatRoomList[r][j] = clientList[i].fd

\* The count of a numbered room never falls below zero: every leave that
\* decrements it finds a member (server.c:461 and 521 do not check).
CountsNonNegative == \A r \in 1..Rooms : deficit[r] = 0

\* No store misses its array before as many descriptors are open as the list
\* has slots, or a row is full; and no count but room 0's is overwritten.
\* The handlers do not check (serverFunction.c:630, server.c:602, 699): an
\* open descriptor, a cell and a count have to be given back by then.
OverrunsNeedFull ==
    /\ status = "client list overrun" => Cardinality(openFds) >= MaxClients
    /\ status = "room overrun" => \E r \in 0..Rooms : Len(chatRoomList[r]) = MaxMembers
    /\ status = "room count overwritten" => deficit[0] > 0

\* A wait is never older than the one in front of it, which is why
\* Server_Check_Packet_Time_Over may look at the head alone.
QueueOldestFirst ==
    \A j, k \in DOMAIN MallocQ : j < k => MallocQ[j].age >= MallocQ[k].age

\* An invitation is put only to a client in no numbered room: the busy test
\* is made on the client the call is forwarded to, not on the one named.
InvitedIsFree ==
    [][\A i \in DOMAIN clientList, p \in out'.sent \cup out'.refused :
         p.type = "INVITE_REQ" /\ p.fd = clientList[i].fd => clientList[i].chatRoom = 0]_vars

SameRoom(i) == {k \in DOMAIN clientList \ {i} :
                  clientList[k].chatRoom = clientList[i].chatRoom}
Addressed(type) == {p.fd : p \in {p \in out'.sent \cup out'.refused : p.type = type}}

\* A chat message is written to every other client of the sender's numbered
\* room, whatever invitations and departures came before.
BroadcastReachesRoom ==
    [][\A i \in DOMAIN clientList, src \in HeaderNames \ {NoName}, lost \in Losses :
         clientList[i].chatRoom # 0 /\ StrReq(i, src, lost) =>
            \A k \in SameRoom(i) : clientList[k].fd \in Addressed("STR_REQ")]_vars

\* When a client leaves a numbered room or the service on its own request,
\* every other client of that room is told.
Leaves(i, lost) == ExitReq(i, lost) \/ \E name \in HeaderNames : ExitChatroomReq(i, name, lost)
DepartureIsAnnounced ==
    [][\A i \in DOMAIN clientList, lost \in Losses :
         clientList[i].chatRoom # 0 /\ Leaves(i, lost) =>
            \A k \in SameRoom(i) : clientList[k].fd \in Addressed("ALRAM_REQ")]_vars

\* A numbered room that Create hands out is nobody else's room.
CreatedRoomIsFresh ==
    [][\A i \in DOMAIN clientList, r \in 1..Rooms, name \in HeaderNames, lost \in Losses :
         CreateChatroomReq(i, r, name, lost) =>
            \A k \in DOMAIN clientList \ {i} : clientList[k].chatRoom # r]_vars

\* A client that stays listed under a name keeps its descriptor, and its room
\* but for its own packet or an accepted invitation: slots move on deletion
\* and nothing of a neighbour moves with them.
SlotsMoveWhole ==
    [][\A i \in DOMAIN clientList, k \in DOMAIN clientList' :
         clientList[i].name = clientList'[k].name =>
            /\ clientList[i].fd = clientList'[k].fd
            /\ Len(clientList') < Len(clientList) =>
                  clientList[i].chatRoom = clientList'[k].chatRoom]_vars

-----------------------------------------------------------------------------
(* What src/ReadMe.md says of the server, and the code does not do.        *)

\* ReadMe.md:12: up to MaxClients clients are admitted.  While there are no
\* more, every connection the server accepts is one it reads from.
EveryConnectionListed ==
    Cardinality(openFds) <= MaxClients =>
      \A fd \in openFds : \E i \in DOMAIN clientList : clientList[i].fd = fd

\* ReadMe.md:26: a client that sent nothing for some time is sent a
\* connection check by the next idle scan, unless a check is outstanding or
\* the client was already asked to exit.
IdleClientsChecked ==
    (\A k \in DOMAIN MallocQ : MallocQ[k].type # "PING_ACK") =>
        \A i \in DOMAIN clientList :
            clientList[i].age > IdleLimit /\ isPing[i] < MaxPings => i \in Due

\* The loop runs as long as the process does and select times out when no
\* packet comes, so the tick of the clock and the idle scans recur.
FairSpec == Spec /\ WF_vars(Tick) /\ WF_vars(\E lost \in Losses : Idle(lost))

\* ReadMe.md:28: the connection of a client that never answers is released.
\* Meant for instances in which clients connect and send nothing.
SilentConnectionReleased ==
    \A fd \in Fds : fd \in openFds ~> fd \notin openFds
=============================================================================
