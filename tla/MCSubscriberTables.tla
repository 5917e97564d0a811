-------------------------- MODULE MCSubscriberTables -------------------------
(* Names a and b share a row of the hash table, c has its own.  "a" and "c"  *)
(* fill a line, of 18 + 19 characters; a rejected "c" also rejects "b".      *)
EXTENDS SubscriberTables

MCBucketOf == [n \in Names |-> IF n = "c" THEN 2 ELSE 1]
MCAsked == {<<"a", "b">>, <<"a", "c">>, <<"b", "c">>, <<"c", "b">>}
MCTooLong == {<<"a", "c">>}
MCSamePrefix == {<<n, n>> : n \in Names} \cup {<<"b", "c">>}
==============================================================================
