----------------------------- MODULE PacketPool -----------------------------
(***************************************************************************)
(* What the packet queue of src/Queue.c promises its users: a first-in     *)
(* first-out list of the packets that wait for an acknowledgement, limited *)
(* by a pool of Size nodes, in which a push on a full pool is refused.     *)
(***************************************************************************)
EXTENDS Naturals, Sequences

CONSTANTS Size,   \* nodes in the pool
          Items   \* packets (name, type and time)

VARIABLES waiting,  \* the packets, oldest first
          closed,   \* the pool is freed, or was never allocated
          result    \* "ok" or "fail", what the last call returned

vars == <<waiting, closed, result>>

Init == waiting = <<>> /\ closed \in BOOLEAN /\ result = "ok"

Push(item) ==
    \/ /\ Len(waiting) < Size /\ ~closed
       /\ waiting' = Append(waiting, item) /\ result' = "ok"
    \/ (Len(waiting) = Size \/ closed) /\ UNCHANGED waiting /\ result' = "fail"

Pop ==
    \/ waiting # <<>> /\ waiting' = Tail(waiting) /\ result' = "ok"
    \/ waiting = <<>> /\ UNCHANGED waiting /\ result' = "fail"

Close == closed' = TRUE /\ waiting' = <<>> /\ UNCHANGED result

Next ==
    \/ Close
    \/ UNCHANGED closed /\ (Pop \/ \E item \in Items : Push(item))

Spec == Init /\ [][Next]_vars
=============================================================================
