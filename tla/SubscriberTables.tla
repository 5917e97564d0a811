-------------------------- MODULE SubscriberTables --------------------------
(***************************************************************************)
(* The tables of src/Server/ServiceHeader: subscribers (User.c), lettering,*)
(* call forwarding and call rejection, with the requests and the console   *)
(* commands of server.c that edit them.  Each is an array of entries beside*)
(* a hash table of chains of array indices, kept in a file that is read    *)
(* once, when the server starts, and rewritten after every request.        *)
(*                                                                         *)
(* The four tables do not touch each other: a behaviour is about one of    *)
(* them, its "kind".  A request is one step up to the fopen that truncates *)
(* the file; fclose, which writes it, is the next step, so that a crash can*)
(* come between them.                                                      *)
(*                                                                         *)
(* Names are opaque: none holds a space, ':' or ',', which separate the    *)
(* words of a line.  A pair in TooLong makes a line that fgets cuts.        *)
(***************************************************************************)
EXTENDS Integers, Sequences, FiniteSetsExt

CONSTANTS
    Kinds,      \* the tables of this instance
    Names,      \* names a request may carry
    Values,     \* forwarding targets, letterings, rejected callers
    Asked,      \* <<name, value>>: what clients ever ask to be added
    NoName,     \* the empty string
    Cut,        \* what is left of a value whose line was cut
    TooLong,    \* <<name, value>> of 37 characters or more, of 19 + 19 at most
    SamePrefix, \* <<v, d>>: v begins with d less its last character
    Buckets,    \* rows of the hash table, 100
    BucketOf,   \* the row a name hashes to
    TableSize,  \* entries of the array, 100
    ChainSize,  \* indices a row of the hash table has room for, 9
    ValueSize   \* values of a rejection entry, 100; one in other tables

ASSUME TablesAssumption ==
    /\ Kinds \subseteq {"User", "Lettering", "CallForwarding", "RejectCall"}
    /\ Values \subseteq Names /\ NoName \notin Names /\ Cut \notin Names
    /\ Cut # NoName /\ Asked \subseteq Names \X Values
    /\ TooLong \subseteq Names \X Values
    /\ BucketOf \in [Names -> Buckets]
    /\ TableSize \in Nat \ {0} /\ ChainSize \in Nat /\ ValueSize \in Nat \ {0}

VARIABLES
    kind,   \* which of the tables
    table,  \* its array, size and chains, and the undefined access reached
    file,   \* its file, as entries
    phase   \* "down", "loading", "up", or "saving": between fopen and fclose

vars == <<kind, table, file, phase>>

FAIL == -1
Value == Values \cup {NoName, Cut}
Entry == [src : Names \cup {NoName}, dst : [0..(ValueSize - 1) -> Value],
          n : 0..ValueSize]
NoEntry == [src |-> NoName, dst |-> [j \in 0..(ValueSize - 1) |-> NoName], n |-> 0]
Blank == [slot |-> [i \in 0..(TableSize - 1) |-> NoEntry], size |-> 0,
          chain |-> [b \in Buckets |-> <<>>], fault |-> "none"]
Faults == {"array overrun", "chain overrun", "values overrun"}
Faulty(t, fault) == [t EXCEPT !.fault = fault]

-----------------------------------------------------------------------------
(* Search: the chain of the name's row, its indices into the array.        *)

Hits(t, name) == LET chain == t.chain[BucketOf[name]]
                 IN  {p \in DOMAIN chain : t.slot[chain[p]].src = name}
User_Search_List(t, name) ==
    IF name = NoName \/ Hits(t, name) = {} THEN FAIL
    ELSE t.chain[BucketOf[name]][Min(Hits(t, name))]

\* The other three files repeat that loop, each over its own table.
Lettering_Search_List(t, name) == User_Search_List(t, name)
CallForwarding_Search_List(t, name) == User_Search_List(t, name)
RejectCall_Search_Key_List(t, name) == User_Search_List(t, name)

\* The last value of an entry is compared less its last character.
Matches(v, d) == d # NoName /\ <<v, d>> \in SamePrefix
ValueHits(t, i, v) == LET e == t.slot[i] IN
    {j \in 0..(e.n - 1) : IF j = e.n - 1 THEN Matches(v, e.dst[j]) ELSE e.dst[j] = v}
RejectCall_Search_Value_List(t, key, v) ==
    LET i == RejectCall_Search_Key_List(t, key)
    IN  IF i = FAIL \/ v = NoName THEN FAIL
        ELSE IF ValueHits(t, i, v) = {} THEN FAIL ELSE Min(ValueHits(t, i, v))

-----------------------------------------------------------------------------
(* Insertion at the end of the array and of the chain.                     *)

Appended(t, key, v, values) ==
    LET b == BucketOf[key]  i == t.size  e == t.slot[i]
    IN  IF t.size = TableSize THEN Faulty(t, "array overrun")
        ELSE IF Len(t.chain[b]) = ChainSize THEN Faulty(t, "chain overrun")
        ELSE IF e.n = ValueSize THEN Faulty(t, "values overrun")
        ELSE [t EXCEPT !.slot[i] = [src |-> key, dst |-> [e.dst EXCEPT ![e.n] = v],
                                    n |-> e.n + values],
                       !.size = @ + 1,
                       !.chain[b] = Append(@, i)]

-----------------------------------------------------------------------------
(* Deletion closes the gap in the array and in the name's own chain.  The  *)
(* indices of the entries that moved, in every chain, stay what they were. *)

BugUnchained(t, name) == t.chain
Unchained(t, name) == LET p == Min(Hits(t, name)) IN
    [t.chain EXCEPT ![BucketOf[name]] =
        [k \in 1..(Len(@) - 1) |-> IF k < p THEN @[k] ELSE @[k + 1]]]

\* The entry after the last one: the loop copies it over the last one.
Beyond(t) == t.slot[t.size]

BugShifted(t, d) == [i \in DOMAIN t.slot |->
    IF i < d \/ i >= t.size - 1 THEN t.slot[i] ELSE t.slot[i + 1]]
BugShiftedNext(t, d) == [i \in DOMAIN t.slot |->
    IF i <= d \/ i >= t.size THEN t.slot[i]
    ELSE IF i = t.size - 1 THEN NoEntry ELSE t.slot[i + 1]]
\* The last entry is cleared (User.c:90, Lettering.c:123).
ShiftedClear(t, d) == [i \in DOMAIN t.slot |->
    IF i < d \/ i >= t.size THEN t.slot[i]
    ELSE IF i = t.size - 1 THEN NoEntry ELSE t.slot[i + 1]]
\* CallForwarding.c clears nothing: the last entry is the one beyond it.
Shifted(t, d) == [i \in DOMAIN t.slot |->
    IF i < d \/ i >= t.size THEN t.slot[i]
    ELSE IF i = t.size - 1 THEN Beyond(t) ELSE t.slot[i + 1]]

BugShiftedValues(t, d) == [i \in DOMAIN t.slot |->
    IF i < d \/ i >= t.size THEN t.slot[i]
    ELSE LET next == IF i = t.size - 1 THEN Beyond(t) ELSE t.slot[i + 1]
         IN  [t.slot[i] EXCEPT !.src = next.src]]
\* RejectCall.c moves names and values, as many as the entry overwritten had,
\* and leaves the numbers of values behind.
ShiftedValues(t, d) == [i \in DOMAIN t.slot |->
    IF i < d \/ i >= t.size THEN t.slot[i]
    ELSE LET next == IF i = t.size - 1 THEN Beyond(t) ELSE t.slot[i + 1]
         IN  [t.slot[i] EXCEPT !.src = next.src,
                !.dst = [j \in DOMAIN @ |-> IF j < t.slot[i].n THEN next.dst[j] ELSE @[j]]]]

BugRemoved(t, name, slots) == [t EXCEPT !.chain = Unchained(t, name)]
Removed(t, name, slots) ==
    [t EXCEPT !.slot = slots, !.size = @ - 1, !.chain = Unchained(t, name)]

-----------------------------------------------------------------------------
(* User.c, Lettering.c, CallForwarding.c and RejectCall.c.  A load from    *)
(* beyond the array is a fault where its value survives.                   *)

User_Add_List(t, name) ==
    IF name = NoName \/ User_Search_List(t, name) # FAIL THEN t
    ELSE Appended(t, name, NoName, 0)
User_Del_List(t, name) == LET i == User_Search_List(t, name) IN
    IF i = FAIL THEN t ELSE Removed(t, name, ShiftedClear(t, i))

Lettering_Del_List(t, name) == LET i == Lettering_Search_List(t, name) IN
    IF i = FAIL THEN t ELSE Removed(t, name, ShiftedClear(t, i))
\* A second lettering replaces the first one.
Lettering_Add_List(t, key, value) ==
    IF NoName \in {key, value} THEN t
    ELSE Appended(Lettering_Del_List(t, key), key, value, 0)

CallForwarding_Del_List(t, name) ==
    LET i == CallForwarding_Search_List(t, name)
    IN  IF i = FAIL THEN t
        ELSE IF t.size = TableSize THEN Faulty(t, "array overrun")
        ELSE Removed(t, name, Shifted(t, i))
\* A second forwarding is refused.
CallForwarding_Add_List(t, key, value) ==
    IF NoName \in {key, value} \/ CallForwarding_Search_List(t, key) # FAIL THEN t
    ELSE Appended(t, key, value, 0)

BugWithoutValue(e, d) == [e EXCEPT !.n = @ - 2, !.dst[d] = NoName]
\* One value less; an entry without values is removed like a name above.
WithoutValue(e, d) == [e EXCEPT !.n = @ - 1, !.dst =
    [j \in DOMAIN @ |-> IF j < d \/ j >= e.n THEN @[j]
                        ELSE IF j = e.n - 1 THEN NoName ELSE @[j + 1]]]
RejectCall_Del_List(t, key, value) ==
    LET i == RejectCall_Search_Key_List(t, key)
        j == RejectCall_Search_Value_List(t, key, value)
        less == [t EXCEPT !.slot[i] = WithoutValue(@, j)]
    IN  IF j = FAIL THEN t
        ELSE IF less.slot[i].n > 0 THEN less
        ELSE IF t.size = TableSize THEN Faulty(t, "array overrun")
        ELSE Removed(less, key, ShiftedValues(less, i))
RejectCall_Add_List(t, key, value) ==
    LET i == RejectCall_Search_Key_List(t, key)
        e == t.slot[i]
    IN  IF NoName \in {key, value} THEN t
        ELSE IF i = FAIL THEN Appended(t, key, value, 1)
        ELSE IF RejectCall_Search_Value_List(t, key, value) # FAIL THEN t
        ELSE IF e.n = ValueSize THEN Faulty(t, "values overrun")
        ELSE [t EXCEPT !.slot[i] = [e EXCEPT !.dst[e.n] = value, !.n = @ + 1]]

-----------------------------------------------------------------------------
(* The files.  What a Save_File prints of the array, entry by entry, and   *)
(* what the Init_List of its table makes of a line.                        *)

User_Save_File(t) == [k \in 1..t.size |-> t.slot[k - 1]]
Lettering_Save_File(t) == User_Save_File(t)
CallForwarding_Save_File(t) == User_Save_File(t)
\* The first value is printed before their number is looked at.
RejectCall_Save_File(t) == [k \in 1..t.size |->
    LET e == t.slot[k - 1] IN [e EXCEPT !.n = IF @ = 0 THEN 1 ELSE @]]
Printed(t) == CASE kind = "User" -> User_Save_File(t)
                [] kind = "Lettering" -> Lettering_Save_File(t)
                [] kind = "CallForwarding" -> CallForwarding_Save_File(t)
                [] kind = "RejectCall" -> RejectCall_Save_File(t)

User_Init_List(e) == e
RejectCall_Init_List(e) == e
\* fgets takes 39 characters of a line, sizeof(Lettering_t) - 1; " : " is three
\* of them.  What is left makes a line without ':', which is skipped.
Lettering_Init_List(e) ==
    IF <<e.src, e.dst[0]>> \in TooLong THEN [e EXCEPT !.dst[0] = Cut] ELSE e
CallForwarding_Init_List(e) == Lettering_Init_List(e)
Reread(e) == CASE kind = "User" -> User_Init_List(e)
               [] kind = "Lettering" -> Lettering_Init_List(e)
               [] kind = "CallForwarding" -> CallForwarding_Init_List(e)
               [] kind = "RejectCall" -> RejectCall_Init_List(e)

-----------------------------------------------------------------------------
Init ==
    /\ kind \in Kinds
    /\ table = Blank
    /\ file = <<>>
    /\ phase = "down"

\* A request or a command ends in Save_File: fopen truncates the file, or
\* fails and leaves it.  After a fault the model says nothing.
Edited(t) ==
    /\ table' = t
    /\ IF t.fault # "none" THEN UNCHANGED <<file, phase>>
       ELSE \/ file' = <<>> /\ phase' = "saving"
            \/ UNCHANGED <<file, phase>>
    /\ UNCHANGED kind
Serving(k) == phase = "up" /\ kind = k /\ table.fault = "none"

SignUpReq(name) ==
    Serving("User") /\ Edited(User_Add_List(table, name))
DelUser(name) ==
    Serving("User") /\ Edited(User_Del_List(table, name))

\* The new name is looked up before the old one is deleted.  A connected
\* user is not deleted, and the new name is added all the same.
ModifyUser(origin, change, connected) ==
    /\ Serving("User")
    /\ LET deleted == IF connected THEN table ELSE User_Del_List(table, origin)
           flag == connected \/ User_Search_List(table, origin) # FAIL
       IN  IF flag /\ User_Search_List(table, change) = FAIL
           THEN Edited(User_Add_List(deleted, change))
           ELSE Edited(deleted)
   

LetteringAddReq(key, value) ==
    /\ Serving("Lettering")
    /\ Edited(Lettering_Add_List(table, key, value))
LetteringDelReq(key) ==
    /\ Serving("Lettering")
    /\ Edited(Lettering_Del_List(table, key))
CallForwardingAddReq(key, value) ==
    /\ Serving("CallForwarding")
    /\ Edited(CallForwarding_Add_List(table, key, value))
CallForwardingDelReq(key) ==
    /\ Serving("CallForwarding")
    /\ Edited(CallForwarding_Del_List(table, key))
RejectCallAddReq(key, value) ==
    /\ Serving("RejectCall")
    /\ Edited(RejectCall_Add_List(table, key, value))
RejectCallDelReq(key, value) ==
    /\ Serving("RejectCall")
    /\ Edited(RejectCall_Del_List(table, key, value))

\* fclose writes the lines: they fit the buffer of the stream.  A larger file
\* would be written a buffer at a time, and could be left in part.
SaveFile ==
    /\ phase = "saving"
    /\ file' = Printed(table) /\ phase' = "up"
    /\ UNCHANGED <<kind, table>>

\* The process ends, at any point: on SIGINT, by a fault, or killed.
Stop ==
    /\ phase # "down"
    /\ phase' = "down" /\ table' = Blank
    /\ UNCHANGED <<kind, file>>

Start ==
    /\ phase = "down"
    /\ phase' = "loading"
    /\ UNCHANGED <<kind, table, file>>

\* One line becomes one entry: the loop over the lines fills the array, the
\* loop after it the chains, in the same order and with nothing in between.
LoadLine ==
    /\ phase = "loading" /\ table.size < Len(file) /\ table.fault = "none"
    /\ LET e == Reread(file[table.size + 1])
           b == BucketOf[e.src]
       IN  table' = IF table.size = TableSize THEN Faulty(table, "array overrun")
                    ELSE IF Len(table.chain[b]) = ChainSize
                    THEN Faulty(table, "chain overrun")
                    ELSE [table EXCEPT !.slot[table.size] = e, !.size = @ + 1,
                                       !.chain[b] = Append(@, table.size)]
    /\ UNCHANGED <<kind, file, phase>>
Loaded ==
    /\ phase = "loading" /\ table.size = Len(file)
    /\ phase' = "up"
    /\ UNCHANGED <<kind, table, file>>

Next ==
    \/ \E name \in Names \cup {NoName} :
          \/ SignUpReq(name) \/ DelUser(name) \/ LetteringDelReq(name)
          \/ CallForwardingDelReq(name)
          \/ \E connected \in BOOLEAN, change \in Names : ModifyUser(name, change, connected)
          \/ \E value \in Values : RejectCallDelReq(name, value)
    \/ \E ask \in Asked \cup {<<NoName, NoName>>} :
          \/ LetteringAddReq(ask[1], ask[2]) \/ CallForwardingAddReq(ask[1], ask[2])
          \/ RejectCallAddReq(ask[1], ask[2])
    \/ SaveFile \/ Stop \/ Start \/ LoadLine \/ Loaded

Spec == Init /\ [][Next]_vars

-----------------------------------------------------------------------------
(* Properties                                                              *)

\* The array and the chains stay in their bounds, and the slots behind the
\* last entry keep no name and no value (they do keep a number of values).
Stored == 0..(table.size - 1)
TypeOK ==
    /\ kind \in Kinds
    /\ table \in [slot : [0..(TableSize - 1) -> Entry], size : 0..TableSize,
                  chain : [Buckets -> Seq(0..(TableSize - 1))],
                  fault : Faults \cup {"none"}]
    /\ \A b \in Buckets : Len(table.chain[b]) <= ChainSize
    /\ file \in Seq(Entry)
    /\ phase \in {"down", "loading", "up", "saving"}

\* A lookup answers with the index of an entry of that name, never with one
\* behind the end of the table, although deletions leave stale indices in the
\* chains (User.c:85-91): the slots behind the end hold no name.
FoundIsStored ==
    \A name \in Names : LET i == User_Search_List(table, name) IN
        i # FAIL => i \in Stored /\ table.slot[i].src = name

\* A row of the hash table has as many indices as the table has entries of
\* that row, whatever was deleted and where its index was.
InRow(b) == {i \in Stored : BucketOf[table.slot[i].src] = b}
ChainsCountRows ==
    table.fault = "none" =>
        \A b \in Buckets : Len(table.chain[b]) = Cardinality(InRow(b))

\* Nothing in User.c:96-118 and its like asks whether there is room: a request
\* does overrun the array, a row or an entry.  But only a full one: the rows that
\* overrun have an entry for each of their indices, in spite of the stale ones,
\* and an entry's number says it is full (the number, as RejectCall.c:148 leaves
\* it behind, not the values).
OverrunsNeedFull ==
    /\ table.fault = "array overrun" => table.size = TableSize
    /\ table.fault = "chain overrun" => \E b \in Buckets : Cardinality(InRow(b)) = ChainSize
    /\ table.fault = "values overrun" => \E i \in DOMAIN table.slot : table.slot[i].n = ValueSize

\* A file the server has written can be loaded by the server: reading it
\* back (User_Init_List and its like) overruns no row.
LoadNeverOverruns == phase = "loading" => table.fault = "none"

\* What a lookup answers for a name was asked for by that name, through every
\* shift, save and restart: the lettering and the forwarding target are its
\* own (or cut by the load), and a caller is rejected only for a value that
\* was given, as RejectCall_Search_Value_List compares them.
AnswersWereAsked ==
    \A name \in Names :
        /\ kind \in {"Lettering", "CallForwarding"}
              /\ User_Search_List(table, name) # FAIL
           => LET v == table.slot[User_Search_List(table, name)].dst[0]
              IN  <<name, v>> \in Asked \/ v = Cut
        /\ \A v \in Values :
              kind = "RejectCall" /\ RejectCall_Search_Value_List(table, name, v) # FAIL
              => \E d \in Values : <<name, d>> \in Asked /\ (v = d \/ Matches(v, d))

\* A stored name is found ("DB: insertion, lookup and deletion all work").
LookupFindsStored ==
    phase = "up" /\ table.fault = "none" =>
        \A i \in Stored : User_Search_List(table, table.slot[i].src) # FAIL

\* Whatever the arrays and chains do, the table keeps the names of StoredNames.
Answering == phase \in {"up", "saving"}
Copies(entries) == [n \in Names |-> Cardinality({k \in DOMAIN entries : entries[k].src = n})]
Bag == INSTANCE StoredNames WITH
    stored <- IF Answering THEN Copies(User_Save_File(table)) ELSE [n \in Names |-> 0],
    found <- IF Answering THEN {n \in Names : User_Search_List(table, n) # FAIL} ELSE {},
    durable <- Copies(file),
    up <- Answering
ImplementsStoredNames == Bag!Spec
=============================================================================
