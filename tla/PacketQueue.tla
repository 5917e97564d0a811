---------------------------- MODULE PacketQueue ----------------------------
(***************************************************************************)
(* src/Queue.c with its pointers: the nodes of FreeNode, linked into the   *)
(* list of free nodes (FreeQ) and the list of waiting packets (MallocQ).   *)
(* The two queue headers come from malloc and are never written before     *)
(* Queue_Init reads them: FreshHeaders is what malloc may return.  It is   *)
(* zeros as long as the heap is fresh; the server has opened, read and     *)
(* closed four files before (server.c:23), whose buffers were freed.       *)
(* Definitions named Bug... are explained in ChatServer.                   *)
(***************************************************************************)
EXTENDS Integers, Sequences

CONSTANTS Size,         \* MAX_SIZE, the nodes of FreeNode in use
          Items,        \* what a node holds: name, type and time
          NoItem,       \* a node after memset and -1
          FreshHeaders  \* contents of a header Queue_Init has just allocated

NULL == 0
Node == 1..Size
ZeroHeader == [head |-> NULL, tail |-> NULL, queueSize |-> 0]

ASSUME PacketQueueAssumption ==
    /\ Size \in Nat \ {0} /\ NoItem \notin Items
    /\ \A h \in FreshHeaders : DOMAIN h = {"head", "tail", "queueSize"}

VARIABLES FreeQ, MallocQ,  \* headers: head, tail, queueSize
          next, prev,      \* the links of every node
          item,            \* the contents of every node
          built,           \* nodes Queue_Init has pushed so far
          live,            \* both headers are allocated
          result,          \* what the last call returned, "wild" if it did not
          zeroed           \* malloc returned zeros, for both: never changes

vars == <<FreeQ, MallocQ, next, prev, item, built, live, result, zeroed>>

-----------------------------------------------------------------------------
Queue_Is_Empty(q) == q.queueSize <= 0
Queue_Is_Full(q) == q.queueSize >= Size

\* Push_Back(q, n) leaves this header, and these links.
PushedHeader(q, n) ==
    [head |-> IF Queue_Is_Empty(q) THEN n ELSE q.head, tail |-> n,
     queueSize |-> q.queueSize + 1]
PushedNext(q, n, links) ==
    IF Queue_Is_Empty(q) THEN links ELSE [links EXCEPT ![q.tail] = n]
PushedPrev(q, n, links) ==
    IF Queue_Is_Empty(q) THEN links ELSE [links EXCEPT ![n] = q.tail]

\* Pop_Front(q): the tail is left as it is, and so is prev of the new head.
CanPop(q) == live /\ ~ Queue_Is_Empty(q) /\ q.head # NULL
BugPoppedHeader(q) ==
    [head |-> next[q.head], tail |-> q.tail, queueSize |-> q.queueSize]
PoppedHeader(q) ==
    [head |-> next[q.head], tail |-> q.tail, queueSize |-> q.queueSize - 1]
BugUnlinked(n, links) == links
Unlinked(n, links) == [links EXCEPT ![n] = NULL]

\* Push_Back follows the tail of a queue it takes for nonempty, Pop_Front its
\* head.  What happens when that is no node, the program does not say: the
\* model ends there.
WildTail(q) == ~ Queue_Is_Full(q) /\ ~ Queue_Is_Empty(q) /\ q.tail \notin Node
WildHead(q) == CanPop(q) /\ q.head \notin Node
Ends == result' = "wild" /\ UNCHANGED <<FreeQ, MallocQ, next, prev, item, built, live>>

-----------------------------------------------------------------------------
\* Nobody looks at what Queue_Init returns when malloc fails
\* (serverFunction.c:5, clientFunction.c:5): the program runs without a queue.
Init ==
    /\ FreeQ \in FreshHeaders /\ MallocQ \in FreshHeaders
    /\ next = [n \in Node |-> NULL] /\ prev = [n \in Node |-> NULL]
    /\ item = [n \in Node |-> NoItem]
    /\ built = 0
    /\ live \in BOOLEAN
    /\ result = "ok"
    /\ zeroed = (FreeQ = ZeroHeader /\ MallocQ = ZeroHeader)

BugBuilding == live /\ built <= Size
Building == live /\ built < Size
Built == live => built = Size

\* One turn of the loop of Queue_Init; it does not look at what Push_Back says.
Queue_Init ==
    /\ Building
    /\ IF WildTail(FreeQ) THEN Ends
       ELSE /\ built' = built + 1
            /\ IF Queue_Is_Full(FreeQ)
               THEN UNCHANGED <<FreeQ, next, prev>>
               ELSE /\ FreeQ' = PushedHeader(FreeQ, built')
                    /\ next' = PushedNext(FreeQ, built', next)
                    /\ prev' = PushedPrev(FreeQ, built', prev)
            /\ UNCHANGED <<MallocQ, item, live, result>>

\* Moves the head of one list to the back of the other.
Move(from, to) ==
    LET n == from.head IN
    /\ next' = PushedNext(to, n, Unlinked(n, next))
    /\ prev' = PushedPrev(to, n, Unlinked(n, prev))

Queue_Push_Back(x) ==
    /\ Built
    /\ IF ~ CanPop(FreeQ)
       THEN result' = "fail" /\ UNCHANGED <<FreeQ, MallocQ, next, prev, item>>
       ELSE IF WildHead(FreeQ) \/ WildTail(MallocQ) THEN Ends
       ELSE /\ FreeQ' = PoppedHeader(FreeQ)
            /\ item' = [item EXCEPT ![FreeQ.head] = x]
            /\ result' = "ok"
            /\ IF Queue_Is_Full(MallocQ)  \* the node is lost to both lists
               THEN /\ next' = Unlinked(FreeQ.head, next)
                    /\ prev' = Unlinked(FreeQ.head, prev)
                    /\ UNCHANGED MallocQ
               ELSE /\ MallocQ' = PushedHeader(MallocQ, FreeQ.head)
                    /\ Move(FreeQ, MallocQ)
    /\ UNCHANGED <<built, live>>

Queue_Pop_Front ==
    /\ Built
    /\ IF ~ CanPop(MallocQ)
       THEN result' = "fail" /\ UNCHANGED <<FreeQ, MallocQ, next, prev>>
       ELSE IF WildHead(MallocQ) \/ WildTail(FreeQ) THEN Ends
       ELSE /\ MallocQ' = PoppedHeader(MallocQ)
            /\ IF Queue_Is_Full(FreeQ)
               THEN /\ next' = Unlinked(MallocQ.head, next)
                    /\ prev' = Unlinked(MallocQ.head, prev)
                    /\ result' = "fail"
                    /\ UNCHANGED FreeQ
               ELSE /\ FreeQ' = PushedHeader(FreeQ, MallocQ.head)
                    /\ Move(MallocQ, FreeQ)
                    /\ result' = "ok"
    /\ UNCHANGED <<built, item, live>>

\* The nodes are static; only the headers go.
Queue_Free ==
    /\ Built
    /\ live' = FALSE
    /\ UNCHANGED <<FreeQ, MallocQ, next, prev, item, built, result>>

Next ==
    /\ result # "wild" /\ UNCHANGED zeroed
    /\ \/ Queue_Init \/ Queue_Pop_Front \/ Queue_Free
       \/ \E x \in Items : Queue_Push_Back(x)

Spec == Init /\ [][Next]_vars

-----------------------------------------------------------------------------
\* The nodes of a list as its users reach them: from the head, along next.
Reach(q) == LET at[k \in 1..(Size + 1)] ==
                    IF k = 1 THEN q.head
                    ELSE IF at[k - 1] = NULL THEN NULL ELSE next[at[k - 1]]
            IN  at
Chain(q) == LET at == Reach(q)
                ends == {k \in 1..(Size + 1) : at[k] = NULL}
            IN  [k \in {k \in 1..(Size + 1) : \A e \in ends : k < e} |-> at[k]]
Nodes(q) == {Chain(q)[k] : k \in DOMAIN Chain(q)}

\* From headers that held zeros, headers, links and contents have their types,
\* and no pointer is followed that is no node.
Typed ==
    /\ \A q \in {FreeQ, MallocQ} : q.head \in Node \cup {NULL} /\
          q.tail \in Node \cup {NULL} /\ q.queueSize \in 0..Size
    /\ next \in [Node -> Node \cup {NULL}] /\ prev \in [Node -> Node \cup {NULL}]
    /\ item \in [Node -> Items \cup {NoItem}]
    /\ built \in 0..Size /\ live \in BOOLEAN /\ result \in {"ok", "fail"}
TypeOK == zeroed => Typed

\* No node is lost and none is in both lists: each node pushed by Queue_Init
\* is reached exactly once, from one head, and the two sizes say how many.
\* Only from zeros: a header that reads as full (Queue.c:66) refuses nodes.
NodesPartitioned ==
    live /\ zeroed =>
    /\ Len(Chain(FreeQ)) = FreeQ.queueSize
    /\ Len(Chain(MallocQ)) = MallocQ.queueSize
    /\ Nodes(FreeQ) \cap Nodes(MallocQ) = {}
    /\ Nodes(FreeQ) \cup Nodes(MallocQ) = 1..built

\* From zeros the pointers implement the pool: FIFO order, refusal exactly when
\* full or when there is no queue (Queue_Push_Back, Queue_Pop_Front).
Usable == live /\ zeroed
Pool == INSTANCE PacketPool WITH
    closed <- ~Usable,
    waiting <- IF ~Usable THEN <<>> ELSE [k \in DOMAIN Chain(MallocQ) |-> item[Chain(MallocQ)[k]]],
    result <- IF zeroed THEN result ELSE "ok"
ImplementsPool == Pool!Spec
=============================================================================
