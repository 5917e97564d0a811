----------------------------- MODULE ChatClient -----------------------------
(***************************************************************************)
(* The chat client of src/Client: the loop of client.c and the senders of  *)
(* clientFunction.c, for every process of the set Clients.  One action is  *)
(* one pass of the loop: a line of the user, a packet, or an idle pass.    *)
(*                                                                         *)
(* up and down are the two directions of a process's connection: they lose *)
(* nothing and keep the order.  What is at the other end is not said here. *)
(*                                                                         *)
(* A definition named Bug... is a slip this code could have had, to be put *)
(* in the place of the definition after it and see a property fail.        *)
(***************************************************************************)
EXTENDS Naturals, Sequences, FiniteSets

CONSTANTS
    Clients,     \* client processes
    Names,       \* names a user may type
    NoName,      \* the empty string
    Leftover,    \* what each one's myName, never initialised, may hold at first
    MaxTries,    \* failed attempts to connect that end the client, 3
    ClientPool,  \* nodes of the client's packet pool, 10
    Patient,     \* processes whose user waits for the answer to a room
                 \* command, declines invitations till then, and gets it
                 \* before the wait times out
    MaxUnread    \* bound: packets to the server a timeout may add to

ASSUME ChatClientAssumption ==
    /\ NoName \notin Names /\ Leftover \in [Clients -> SUBSET (Names \cup {NoName})]
    /\ MaxTries \in Nat \ {0} /\ ClientPool \in Nat /\ Patient \subseteq Clients
    /\ MaxUnread \in Nat \ {0}

VARIABLES
    client,   \* the variables of each process
    link,     \* its descriptor at the server, 0 when that end is closed
    up,       \* packets to the server
    down      \* packets from the server

clientVars == <<client, link, up, down>>

-----------------------------------------------------------------------------
(* The senders: what is written, and what is then waited for.              *)

Packet(type, src, dst) == [type |-> type, src |-> src, dst |-> dst, body |-> ""]

\* Senders return before writing when the name they are given is empty.
Send(self, packet, waits) ==
    IF self = NoName THEN [packets |-> <<>>, waits |-> <<>>]
                     ELSE [packets |-> <<packet>>, waits |-> waits]
Request(type, self, dst, ack) == Send(self, Packet(type, self, dst), <<ack>>)
Reply(type, self) == Send(self, Packet(type, self, NoName), <<>>)

Client_Connect_To_Server(self) == Request("CONN_REQ", self, NoName, "CONN_ACK")
Client_Sign_Up(self) == Request("SIGN_UP_REQ", self, NoName, "SIGN_UP_ACK")
Client_Chat_Request(self) == Request("STR_REQ", self, NoName, "STR_ACK")
Client_Exit_Request(self) == Reply("EXIT_REQ", self)
Client_Create_ChatRoom(self) ==
    Request("CREATE_CHATROOM_REQ", self, NoName, "EXIT_ACK")
Client_Invite_Client_Request(self, another) ==
    Request("INVITE_REQ", self, another, "INVITE_ACK")
Client_Exit_Chat_Room_Request(self) ==
    Request("EXIT_CHATROOM_REQ", self, NoName, "EXIT_CHATROOM_ACK")
Client_Add_Lettering(self) ==
    Request("LETTERING_ADD_REQ", self, NoName, "LETTERING_ADD_ACK")
Client_Del_Lettering(self) ==
    Request("LETTERING_DEL_REQ", self, NoName, "LETTERING_DEL_ACK")
Client_Add_Reject_Call(self) ==
    Request("REJECT_CALL_ADD_REQ", self, NoName, "REJECT_CALL_ADD_ACK")
Client_Del_Reject_Call(self) ==
    Request("REJECT_CALL_DEL_REQ", self, NoName, "REJECT_CALL_DEL_ACK")
Client_Add_Call_Forwarding(self) ==
    Request("CALL_FORWARDING_ADD_REQ", self, NoName, "REJECT_CALL_ADD_ACK")
Client_Del_Call_Forwarding(self) ==
    Request("CALL_FORWARDING_DEL_REQ", self, NoName, "CALL_FORWARDING_DEL_ACK")
Client_All_Ueser_Request(self) ==
    Request("ALL_USER_REQ", self, NoName, "ALL_USER_ACK")

Client_Ping_Ack(self) == Reply("PING_ACK", self)
Client_Exit_Ack(self) == Reply("EXIT_ACK", self)
Client_Alram_Ack(self) == Reply("ALRAM_ACK", self)
Client_Chat_Ack(self, dstClient) ==
    Send(self, Packet("STR_ACK", self, dstClient), <<>>)
Client_Invite_Client_Ack(self, another, msg) ==
    Send(self, [Packet("INVITE_ACK", self, another) EXCEPT !.body = msg], <<>>)

-----------------------------------------------------------------------------
(* One pass of the loop: process c becomes s, and sends.                   *)

BugPushed(queue, waits) == queue \o waits
\* Queue_Push_Back takes nodes from the pool while there are any.
Pushed(queue, waits) == SubSeq(queue \o waits, 1,
    IF Len(queue) + Len(waits) < ClientPool THEN Len(queue) + Len(waits)
                                            ELSE ClientPool)

Step(c, s, send) ==
    /\ client' = [client EXCEPT ![c] = [s EXCEPT !.waits = Pushed(@, send.waits)]]
    /\ up' = [up EXCEPT ![c] = IF link[c] = 0 THEN @ ELSE @ \o send.packets]

Fresh(name) ==
    [pc |-> "off", tries |-> 0, myName |-> name, tryId |-> NoName,
     isConnected |-> FALSE, isChat |-> FALSE, waits |-> <<>>, asked |-> FALSE]
Ended(s) == [Fresh(NoName) EXCEPT !.pc = "ended"]

ClientInit ==
    /\ client = [c \in Clients |-> Fresh(NoName)]
    /\ link = [c \in Clients |-> 0]
    /\ up = [c \in Clients |-> <<>>]
    /\ down = [c \in Clients |-> <<>>]

\* A process is started where none runs, on a new connection.
Start(c, name) ==
    /\ client[c].pc \in {"off", "ended"} /\ link[c] = 0
    /\ client' = [client EXCEPT ![c] = [Fresh(name) EXCEPT !.pc = "trying"]]
    /\ UNCHANGED <<link, up, down>>

ConnectFails(c) ==
    /\ client[c].pc = "trying"
    /\ LET tried == client[c].tries + 1
       IN  client' = [client EXCEPT ![c] =
              IF tried = MaxTries THEN Ended(@) ELSE [@ EXCEPT !.tries = tried]]
    /\ UNCHANGED <<link, up, down>>

Connected(c) ==
    /\ client[c].pc = "trying"
    /\ client' = [client EXCEPT ![c].pc = "running"]
    /\ UNCHANGED <<up, down>>

-----------------------------------------------------------------------------
(* A line on stdin.  Nothing is typed into a client whose server is gone:  *)
(* what it would write reaches nobody.                                     *)

AtPrompt(c) == client[c].pc = "running" /\ link[c] # 0
Outside(c) == AtPrompt(c) /\ client[c].isConnected /\ ~client[c].isChat
InChat(c) == AtPrompt(c) /\ client[c].isConnected /\ client[c].isChat

Command(c, s, send) == Step(c, s, send) /\ UNCHANGED <<link, down>>
\* A room command is one whose answer sets isChat.
Unhurried(c) == c \in Patient => ~client[c].asked
RoomCommand(c, send) ==
    Unhurried(c) /\ Command(c, [client[c] EXCEPT !.asked = TRUE], send)

Then(a, b) == [packets |-> a.packets \o b.packets, waits |-> a.waits \o b.waits]

SignUp(c, name) ==
    /\ AtPrompt(c)
    /\ Command(c, client[c],
          Then(Then(Client_Sign_Up(name), Client_Add_Lettering(name)),
               Then(Client_Add_Reject_Call(name), Client_Add_Call_Forwarding(name))))

Connect(c, name) ==
    /\ AtPrompt(c) /\ ~client[c].isConnected /\ ~client[c].isChat
    /\ Command(c, [client[c] EXCEPT !.tryId = name], Client_Connect_To_Server(name))

Exit(c) ==
    /\ AtPrompt(c) /\ client[c].myName # NoName
    /\ Command(c, client[c], Client_Exit_Request(client[c].myName))

\* The six service commands, for one's own name.
Service(c, command) ==
    /\ Outside(c)
    /\ LET self == client[c].myName
       IN  Command(c, client[c],
              CASE command = "AddLettering" -> Client_Add_Lettering(self)
                [] command = "DelLettering" -> Client_Del_Lettering(self)
                [] command = "AddRejectCall" -> Client_Add_Reject_Call(self)
                [] command = "DelRejectCall" -> Client_Del_Reject_Call(self)
                [] command = "AddCallForwarding" -> Client_Add_Call_Forwarding(self)
                [] command = "DelCallForwarding" -> Client_Del_Call_Forwarding(self))

Create(c) == Outside(c) /\ RoomCommand(c, Client_Create_ChatRoom(client[c].myName))
Leave(c) ==
    InChat(c) /\ RoomCommand(c, Client_Exit_Chat_Room_Request(client[c].myName))
Invite(c, name) ==
    /\ InChat(c)
    /\ Command(c, client[c], Client_Invite_Client_Request(client[c].myName, name))
User(c) ==
    InChat(c) /\ Command(c, client[c], Client_All_Ueser_Request(client[c].myName))
Chat(c) ==
    InChat(c) /\ Command(c, client[c], Client_Chat_Request(client[c].myName))

\* SIGINT, or the process is killed: only the first says goodbye.
Interrupted(c) ==
    /\ client[c].pc = "running"
    /\ Step(c, Ended(client[c]), Client_Exit_Request(client[c].myName))
    /\ down' = [down EXCEPT ![c] = <<>>]
    /\ UNCHANGED link
Killed(c) ==
    /\ client[c].pc = "running"
    /\ client' = [client EXCEPT ![c] = Ended(@)]
    /\ down' = [down EXCEPT ![c] = <<>>]
    /\ UNCHANGED <<link, up>>

-----------------------------------------------------------------------------
(* A packet of the server.                                                 *)

Reads(c, type) ==
    client[c].pc = "running" /\ down[c] # <<>> /\ Head(down[c]).type = type
Took(c, s, send) ==
    /\ Step(c, s, send)
    /\ down' = [down EXCEPT ![c] = IF s.pc = "ended" THEN <<>> ELSE Tail(@)]
    /\ UNCHANGED link
Nothing == [packets |-> <<>>, waits |-> <<>>]

\* An acknowledgement pops the head of the queue when the types agree.
Popped(s, type) ==
    [s EXCEPT !.waits = IF @ # <<>> /\ Head(@) = type THEN Tail(@) ELSE @]

\* Acknowledgements that change nothing else; the last two say they look for
\* an empty queue, and so does Popped.
PlainAck == {"SIGN_UP_ACK", "STR_ACK", "LETTERING_ADD_ACK", "LETTERING_DEL_ACK",
             "CALL_FORWARDING_ADD_ACK", "CALL_FORWARDING_DEL_ACK",
             "REJECT_CALL_ADD_ACK", "REJECT_CALL_DEL_ACK", "INVITE_ACK",
             "ALL_USER_ACK"}
ReadAck(c) ==
    \E type \in PlainAck : Reads(c, type) /\ Took(c, Popped(client[c], type), Nothing)

BugReadExitAck(c) ==
    /\ Reads(c, "EXIT_ACK")
    /\ Took(c, [client[c] EXCEPT !.isConnected = FALSE], Nothing)
ReadExitAck(c) == Reads(c, "EXIT_ACK") /\ Took(c, Ended(client[c]), Nothing)

BugWelcome(s, p) == [s EXCEPT !.isConnected = TRUE, !.myName = p.dst]
Welcome(s, p) ==
    IF p.body = "YES" THEN [s EXCEPT !.isConnected = TRUE, !.myName = p.dst] ELSE s
ReadConnAck(c) ==
    /\ Reads(c, "CONN_ACK")
    /\ Took(c, Welcome(Popped(client[c], "CONN_ACK"), Head(down[c])), Nothing)

\* Both answers to a room command count only while something is waited for.
Answered(s, type, inChat) ==
    [(IF s.waits = <<>> THEN s ELSE [Popped(s, type) EXCEPT !.isChat = inChat])
        EXCEPT !.asked = FALSE]
ReadRoomAck(c) ==
    \/ /\ Reads(c, "CREATE_CHATROOM_ACK")
       /\ Took(c, Answered(client[c], "CREATE_CHATROOM_ACK", TRUE), Nothing)
    \/ /\ Reads(c, "EXIT_CHATROOM_ACK")
       /\ Took(c, Answered(client[c], "EXIT_CHATROOM_ACK", FALSE), Nothing)

ReadPing(c) ==
    Reads(c, "PING_REQ") /\ Took(c, client[c], Client_Ping_Ack(client[c].myName))

\* Without a name nothing is sent, and the client ends all the same.
ReadExit(c) ==
    /\ Reads(c, "EXIT_REQ")
    /\ Took(c, Ended(client[c]), Client_Exit_Ack(client[c].myName))

BugChatAck(s, p) ==
    Then(Client_Chat_Ack(p.src, s.myName), Client_Chat_Ack(p.src, s.myName))
ChatAck(s, p) == Client_Chat_Ack(p.src, s.myName)
ReadChat(c) ==
    Reads(c, "STR_REQ") /\ Took(c, client[c], ChatAck(client[c], Head(down[c])))

BugInvited(s, answer) == s
\* isChat is set whatever the user answers.
Invited(s, answer) == [s EXCEPT !.isChat = TRUE]
ReadInvite(c, answer) ==
    /\ Reads(c, "INVITE_REQ")
    /\ answer = "yes" => Unhurried(c)
    /\ LET p == Head(down[c])
       IN  Took(c, Invited(client[c], answer),
                Client_Invite_Client_Ack(p.src, p.dst, answer))

ReadAlarm(c) ==
    Reads(c, "ALRAM_REQ") /\ Took(c, client[c], Client_Alram_Ack(client[c].myName))

ClientReads(c) ==
    \/ ReadAck(c) \/ ReadExitAck(c) \/ ReadConnAck(c) \/ ReadRoomAck(c)
    \/ ReadPing(c) \/ ReadExit(c) \/ ReadChat(c) \/ ReadAlarm(c)
    \/ \E answer \in {"yes", "no"} : ReadInvite(c, answer)

-----------------------------------------------------------------------------
(* select timed out and the oldest wait is older than five seconds.  It is *)
(* the head: waits are pushed in the order of time.  The retry of a login  *)
(* is the next thing the loop does.  End of file keeps select from timing  *)
(* out, and so ends the timeouts.                                          *)

Stale(s) == s.myName # NoName /\ s.waits # <<>>
Retry(s) == IF Head(s.waits) = "CONN_ACK" /\ ~s.isConnected
            THEN Client_Connect_To_Server(s.tryId) ELSE Nothing
Expired(queue) == Tail(queue)
TimeOver(c) ==
    /\ AtPrompt(c) /\ Unhurried(c) /\ down[c] = <<>> /\ Stale(client[c])
    /\ Len(up[c]) < MaxUnread    \* bound of the model
    /\ Command(c, [client[c] EXCEPT !.waits = Expired(@)], Retry(client[c]))
=============================================================================
