---------------------------- MODULE MCChatServer ----------------------------
(* Instances of ChatServer for TLC. *)
EXTENDS ChatServer

\* The packets of the last step decide nothing: states differ without them.
StateView == <<clientList, isPing, chatRoomList, deficit, chatRoomAck, MallocQ,
               openFds, status>>
=============================================================================
