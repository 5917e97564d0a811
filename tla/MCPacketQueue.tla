--------------------------- MODULE MCPacketQueue ---------------------------
(* An instance of PacketQueue for TLC.  malloc returns zeros, or what an     *)
(* earlier user left: text, which as a number is large or negative and as a  *)
(* pointer no node, or a small number before such a pointer.                 *)
EXTENDS PacketQueue
Left(size) == [head |-> Size + 1, tail |-> Size + 1, queueSize |-> size]
MCHeaders == {ZeroHeader, Left(Size + 1), Left(-2), Left(1)}
=============================================================================
