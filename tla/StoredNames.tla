---------------------------- MODULE StoredNames ----------------------------
(***************************************************************************)
(* What a table of src/Server/ServiceHeader keeps for its callers, without *)
(* arrays, chains and lines: how often each name is stored, which names a  *)
(* lookup finds, and what the file holds.  A deletion takes one entry of a *)
(* name a lookup finds, and may change what is found; an insertion is      *)
(* found, and hides nothing.                                               *)
(***************************************************************************)
EXTENDS Naturals

CONSTANTS Names, NoName

VARIABLES
    stored,   \* entries of each name, none while the server is down
    found,    \* names a lookup finds
    durable,  \* entries of each name in the file
    up        \* whether the table answers lookups

vars == <<stored, found, durable, up>>

None == [n \in Names |-> 0]
Support(bag) == {n \in Names : bag[n] > 0}
One(name) == [n \in Names |-> IF n = name THEN 1 ELSE 0]

Init == stored = None /\ found = {} /\ durable = None /\ ~up

Stored(gone, new) ==
    stored' = [n \in Names |-> (stored[n] - One(gone)[n]) + One(new)[n]]
Insert(new) ==
    Stored(NoName, new) /\ found' = found \cup ({new} \ {NoName})
Delete(gone, new) ==
    /\ Stored(gone, new)
    /\ found' \subseteq Support(stored') /\ {new} \ {NoName} \subseteq found'

\* A request inserts, deletes, or deletes and then inserts, and empties the
\* file it is going to write, or leaves it.
Edit ==
    /\ up
    /\ \E new \in Names \cup {NoName} :
          Insert(new) \/ \E gone \in found : Delete(gone, new)
    /\ durable' \in {durable, None} /\ UNCHANGED up

Save == up /\ durable' = stored /\ UNCHANGED <<stored, found, up>>
Crash == up /\ ~up' /\ stored' = None /\ found' = {} /\ UNCHANGED durable
Restart == ~up /\ up' /\ stored' = durable /\ found' = Support(durable)
           /\ UNCHANGED durable

Next == Edit \/ Save \/ Crash \/ Restart
Spec == Init /\ [][Next]_vars
=============================================================================
