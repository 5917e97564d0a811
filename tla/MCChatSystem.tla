---------------------------- MODULE MCChatSystem ----------------------------
(* Instances of ChatSystem for TLC: two processes, two subscribers. *)
EXTENDS ChatSystem

CONSTANTS a, b, c1, c2, junk

Garbage == [c \in Clients |-> IF c = c1 THEN {junk} ELSE {NoName}]
NoForward == [n \in Names |-> NoName]

\* Everybody connects, logs in, and goes, in any way.
LoginCommands == [c \in Clients |->
    IF c = c1 THEN {"SignUp", "Connect", "Create", "Exit", "SIGINT", "again",
                   "AddCallForwarding"}
             ELSE {"Connect", "SIGKILL"}]

\* Both have logged in, and c1 has created a room.
RoomCommands == [c \in Clients |->
    IF c = c1 THEN {"Create", "!Invite", "!Exit", "text"}
             ELSE {"!Exit", "text", "Exit", "!User"}]
LoggedIn(name, waits) ==
    [Fresh(name) EXCEPT !.pc = "running", !.tryId = name, !.isConnected = TRUE,
                        !.isChat = waits # <<>>, !.waits = waits]
SessionInit ==
    /\ client = [c \in Clients |-> IF c = c1 THEN LoggedIn(a, <<"EXIT_ACK">>)
                                           ELSE LoggedIn(b, <<>>)]
    /\ link = [c \in Clients |-> IF c = c1 THEN 4 ELSE 5]
    /\ up = [c \in Clients |-> <<>>] /\ down = up
    /\ clientList = <<[name |-> a, fd |-> 4, chatRoom |-> 1, age |-> 0],
                      [name |-> b, fd |-> 5, chatRoom |-> 0, age |-> 0]>>
    /\ isPing = [k \in 1..MaxClients |-> 0]
    /\ chatRoomList = [r \in 0..Rooms |-> IF r = 1 THEN <<4>> ELSE <<>>]
    /\ deficit = [r \in 0..Rooms |-> 0] /\ chatRoomAck = deficit
    /\ MallocQ = <<>> /\ openFds = {4, 5} /\ status = "running"
    /\ out = [sent |-> {}, refused |-> {}] /\ moves = 0 /\ ticks = 0
SessionSpec == SessionInit /\ [][Next]_vars

\* c1 invites somebody who is not there.
InviteCommands == [c \in Clients |-> IF c = c1 THEN {"!Invite"} ELSE {}]
FairSession == SessionSpec /\ Served /\ TimePasses

\* The packets of the last step decide nothing.
StateView == <<clientVars, serverVars, moves, ticks>>
=============================================================================
