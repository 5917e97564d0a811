------------------------- MODULE PacketQueue_proofs -------------------------
(***************************************************************************)
(* The linked lists of src/Queue.c implement the pool of PacketPool, for   *)
(* every number of nodes, when the two headers that malloc returns hold    *)
(* zeros.  Queue_Init reads them before anybody writes them, and nothing   *)
(* in the program makes them zeros; the last theorem says what becomes of  *)
(* a header that reads as full.                                            *)
(***************************************************************************)
EXTENDS PacketQueue, WellFoundedInduction, SequenceTheorems, TLAPS

-----------------------------------------------------------------------------
(* What a list holds.                                                      *)

\* A nonempty set of naturals has a least element.
LEMMA LeastNat ==
    ASSUME NEW T \in SUBSET Nat, T # {}
    PROVE  \E x \in T : \A y \in T : x <= y
<1> DEFINE less == OpToRel(<, Nat)
<1>1. IsWellFoundedOn(less, Nat)
  BY NatLessThanWellFounded
<1>2. ASSUME NEW x \in Nat, NEW y \in Nat, y < x
      PROVE  <<y, x>> \in less
  BY <1>2 DEF OpToRel
<1> HIDE DEF less
<1>3. PICK x \in T : \A y \in T : ~ (<<y, x>> \in less)
  BY <1>1, WFMin
<1>4. ASSUME NEW y \in T PROVE x <= y
  <2>1. x \in Nat /\ y \in Nat /\ ~ (y < x)
    BY <1>2, <1>3
  <2> QED
    BY <2>1
<1> QED
  BY <1>4

\* f lists the nodes of q, from its head along the links nx to its tail.
Linked(q, nx, f) ==
    /\ f \in [1..q.queueSize -> Node]
    /\ q.queueSize = 0 => q.head = NULL
    /\ q.queueSize > 0 => q.head = f[1] /\ q.tail = f[q.queueSize]
    /\ \A k \in 1..q.queueSize :
          nx[f[k]] = IF k = q.queueSize THEN NULL ELSE f[k + 1]
    /\ \A j, k \in 1..q.queueSize : f[j] = f[k] => j = k

\* Reach, which follows the links, meets the nodes of the list and then NULL.
LEMMA ReachMeets ==
    ASSUME NEW q, NEW f, q.queueSize \in 0..Size, Linked(q, next, f)
    PROVE  \A k \in 1..(Size + 1) :
              Reach(q)[k] = IF k <= q.queueSize THEN f[k] ELSE NULL
<1> DEFINE Along(g) == [k \in 1..(Size + 1) |->
                          IF k = 1 THEN q.head
                          ELSE IF g[k - 1] = NULL THEN NULL ELSE next[g[k - 1]]]
           met == [k \in 1..(Size + 1) |-> IF k <= q.queueSize THEN f[k] ELSE NULL]
<1>1. Size \in Nat /\ q.queueSize \in Nat /\ q.queueSize <= Size
  BY PacketQueueAssumption
<1>2. Reach(q) = CHOOSE g : g = Along(g)
  BY DEF Reach
<1>3. met = Along(met)
  <2> SUFFICES ASSUME NEW k \in 1..(Size + 1)
               PROVE  met[k] = IF k = 1 THEN q.head
                               ELSE IF met[k - 1] = NULL THEN NULL ELSE next[met[k - 1]]
    OBVIOUS
  <2>1. CASE k = 1
    BY <1>1, <2>1 DEF Linked
  <2>2. CASE k # 1 /\ k - 1 <= q.queueSize
    <3>1. k - 1 \in 1..q.queueSize /\ k - 1 \in 1..(Size + 1)
      BY <1>1, <2>2
    <3>2. met[k - 1] = f[k - 1] /\ f[k - 1] \in Node
      BY <2>2, <3>1 DEF Linked
    <3>3. met[k - 1] # NULL
      BY <3>2 DEF Node, NULL
    <3>4. next[f[k - 1]] = IF k - 1 = q.queueSize THEN NULL ELSE f[(k - 1) + 1]
      BY <3>1 DEF Linked
    <3> QED
      BY <1>1, <2>2, <3>1, <3>2, <3>3, <3>4
  <2>3. CASE ~ (k - 1 <= q.queueSize)
    BY <1>1, <2>3
  <2> QED
    BY <2>1, <2>2, <2>3
<1> HIDE DEF met
<1>4. Reach(q) = Along(Reach(q))
  <2> HIDE DEF Along
  <2> QED
    BY <1>2, <1>3
<1>5. ASSUME NEW k \in 1..(Size + 1), Reach(q)[k] # met[k] PROVE FALSE
  <2> DEFINE T == {j \in 1..(Size + 1) : Reach(q)[j] # met[j]}
  <2>1. T \in SUBSET Nat /\ T # {}
    BY <1>1, <1>5
  <2>2. PICK x \in T : \A y \in T : x <= y
    BY <2>1, LeastNat
  <2>3. x \in 1..(Size + 1) /\ Reach(q)[x] # met[x]
    OBVIOUS
  <2>4. x # 1
    <3>1. 1 \in 1..(Size + 1)
      BY <1>1
    <3>2. Reach(q)[1] = q.head /\ met[1] = q.head
      BY <1>3, <1>4, <3>1
    <3> QED
      BY <2>3, <3>2
  <2>5. x - 1 \in 1..(Size + 1) /\ x - 1 \notin T
    <3>1. x \in Int /\ x - 1 \in 1..(Size + 1) /\ ~ (x <= x - 1)
      BY <1>1, <2>3, <2>4
    <3> QED
      BY <2>2, <3>1
  <2>6. Reach(q)[x - 1] = met[x - 1]
    BY <2>5
  <2>7. /\ Reach(q)[x] = IF Reach(q)[x - 1] = NULL THEN NULL ELSE next[Reach(q)[x - 1]]
        /\ met[x] = IF met[x - 1] = NULL THEN NULL ELSE next[met[x - 1]]
    <3> HIDE DEF T
    <3>1. \A g : Along(g)[x] = IF g[x - 1] = NULL THEN NULL ELSE next[g[x - 1]]
      BY <2>3, <2>4
    <3> HIDE DEF Along
    <3> QED
      BY <1>3, <1>4, <3>1
  <2> QED
    BY <2>3, <2>6, <2>7
<1>6. \A k \in 1..(Size + 1) : met[k] = IF k <= q.queueSize THEN f[k] ELSE NULL
  BY DEF met
<1> QED
  BY <1>5, <1>6

\* So the chain of a list is the list.
LEMMA ChainIs ==
    ASSUME NEW q, NEW f, q.queueSize \in 0..Size, Linked(q, next, f)
    PROVE  /\ Chain(q) = f /\ Len(Chain(q)) = q.queueSize
           /\ Nodes(q) = {f[k] : k \in 1..q.queueSize}
<1> DEFINE n == q.queueSize
           at == Reach(q)
           ends == {k \in 1..(Size + 1) : at[k] = NULL}
           before == {k \in 1..(Size + 1) : \A e \in ends : k < e}
<1>1. Size \in Nat /\ n \in Nat /\ n <= Size
  BY PacketQueueAssumption
<1>2. f \in [1..n -> Node]
  BY DEF Linked
<1>3. \A k \in 1..(Size + 1) : at[k] = IF k <= n THEN f[k] ELSE NULL
  BY ReachMeets
<1>4. Chain(q) = [k \in before |-> at[k]]
  BY DEF Chain
<1> HIDE DEF n, at
<1>5. \A k \in 1..(Size + 1) : k \in ends <=> n < k
  <2> SUFFICES ASSUME NEW k \in 1..(Size + 1) PROVE at[k] = NULL <=> n < k
    OBVIOUS
  <2>1. CASE k <= n
    <3>1. k \in 1..n /\ f[k] \in Node
      BY <1>1, <1>2, <2>1
    <3>2. f[k] # NULL
      BY <3>1 DEF Node, NULL
    <3> QED
      BY <1>1, <1>3, <2>1, <3>2
  <2>2. CASE ~ (k <= n)
    BY <1>1, <1>3, <2>2
  <2> QED
    BY <2>1, <2>2
<1>6. n + 1 \in ends
  BY <1>1, <1>5
<1> HIDE DEF ends
<1>7. before = 1..n
  <2>1. ASSUME NEW k \in before PROVE k \in 1..n
    <3>1. k \in 1..(Size + 1) /\ k < n + 1
      BY <1>6
    <3> QED
      BY <1>1, <3>1
  <2>2. ASSUME NEW k \in 1..n PROVE k \in before
    <3>1. k \in 1..(Size + 1)
      BY <1>1
    <3>2. ASSUME NEW e \in ends PROVE k < e
      <4>1. e \in 1..(Size + 1) /\ n < e
        BY <1>5 DEF ends
      <4> QED
        BY <1>1, <4>1
    <3> QED
      BY <3>1, <3>2
  <2> QED
    BY <2>1, <2>2
<1> HIDE DEF before
<1>8. Chain(q) = f
  <2>1. \A k \in 1..n : at[k] = f[k]
    BY <1>1, <1>3
  <2> QED
    BY <1>2, <1>4, <1>7, <2>1
<1>9. Len(f) = n
  BY <1>1, <1>2
<1> QED
  BY <1>2, <1>8, <1>9 DEF Nodes, n

-----------------------------------------------------------------------------
(* What Pop_Front and Push_Back do to a list.                              *)

Rest(q, f) == [k \in 1..(q.queueSize - 1) |-> f[k + 1]]
More(q, f, n) == [k \in 1..(q.queueSize + 1) |-> IF k <= q.queueSize THEN f[k] ELSE n]

\* Links that are the same on the nodes of a list keep it.
LEMMA ElsewhereKeeps ==
    ASSUME NEW q, NEW nx, NEW other, NEW f, Linked(q, nx, f),
           \A k \in 1..q.queueSize : other[f[k]] = nx[f[k]]
    PROVE  Linked(q, other, f)
BY DEF Linked

\* Pop_Front takes the first node off.
LEMMA PopKeeps ==
    ASSUME NEW q, NEW f, q.queueSize \in 0..Size, q.queueSize # 0,
           Linked(q, next, f), next \in [Node -> Node \cup {NULL}]
    PROVE  Linked(PoppedHeader(q), Unlinked(q.head, next), Rest(q, f))
<1> DEFINE n == q.queueSize
           p == PoppedHeader(q)
           nx == Unlinked(q.head, next)
           g == Rest(q, f)
<1>1. n \in Nat /\ n # 0 /\ 1 \in 1..n
  BY PacketQueueAssumption
<1>2. /\ p.head = next[q.head] /\ p.tail = q.tail /\ p.queueSize = n - 1
  BY DEF PoppedHeader
<1>3. /\ f \in [1..n -> Node] /\ q.head = f[1] /\ q.tail = f[n]
      /\ \A k \in 1..n : next[f[k]] = IF k = n THEN NULL ELSE f[k + 1]
      /\ \A j, k \in 1..n : f[j] = f[k] => j = k
  BY <1>1 DEF Linked
<1>4. g = [k \in 1..(n - 1) |-> f[k + 1]]
  BY DEF Rest
<1>5. \A node \in Node : nx[node] = IF node = q.head THEN NULL ELSE next[node]
  BY DEF Unlinked
<1> HIDE DEF n, p, nx, g
<1>6. \A k \in 1..(n - 1) : k + 1 \in 1..n /\ g[k] = f[k + 1] /\ f[k + 1] \in Node
  BY <1>1, <1>3, <1>4
<1>7. g \in [1..(n - 1) -> Node]
  BY <1>4, <1>6
<1>8. p.head = IF n = 1 THEN NULL ELSE f[2]
  BY <1>1, <1>2, <1>3
<1>9. n > 1 => p.head = g[1] /\ p.tail = g[n - 1]
  <2> SUFFICES ASSUME n > 1 PROVE p.head = g[1] /\ p.tail = g[n - 1]
    OBVIOUS
  <2>1. 1 \in 1..(n - 1) /\ n - 1 \in 1..(n - 1) /\ (n - 1) + 1 = n /\ 1 + 1 = 2
    BY <1>1
  <2> QED
    BY <1>1, <1>2, <1>3, <1>6, <1>8, <2>1
<1>10. ASSUME NEW k \in 1..(n - 1)
       PROVE  nx[g[k]] = IF k = n - 1 THEN NULL ELSE g[k + 1]
  <2>1. k + 1 \in 1..n /\ k + 1 # 1 /\ g[k] = f[k + 1] /\ f[k + 1] \in Node
    BY <1>1, <1>6
  <2>2. f[k + 1] # q.head
    BY <1>1, <1>3, <2>1
  <2>3. nx[g[k]] = IF k + 1 = n THEN NULL ELSE f[(k + 1) + 1]
    BY <1>3, <1>5, <2>1, <2>2
  <2>4. k # n - 1 => k + 1 \in 1..(n - 1)
    BY <1>1
  <2> QED
    BY <1>1, <1>6, <2>3, <2>4
<1>11. ASSUME NEW j \in 1..(n - 1), NEW k \in 1..(n - 1), g[j] = g[k] PROVE j = k
  <2>1. j + 1 \in 1..n /\ k + 1 \in 1..n /\ f[j + 1] = f[k + 1]
    BY <1>6, <1>11
  <2>2. j + 1 = k + 1
    BY <1>3, <2>1
  <2> QED
    BY <1>1, <2>2
<1>12. Linked(p, nx, g)
  BY <1>1, <1>2, <1>7, <1>8, <1>9, <1>10, <1>11 DEF Linked
<1> QED
  BY <1>12 DEF p, nx, g

\* Push_Back appends a node that is in no list.
LEMMA PushKeeps ==
    ASSUME NEW q, NEW nx, NEW f, NEW n \in Node, q.queueSize \in 0..Size,
           Linked(q, nx, f), nx \in [Node -> Node \cup {NULL}], nx[n] = NULL,
           \A k \in 1..q.queueSize : f[k] # n
    PROVE  Linked(PushedHeader(q, n), PushedNext(q, n, nx), More(q, f, n))
<1> DEFINE size == q.queueSize
           p == PushedHeader(q, n)
           new == PushedNext(q, n, nx)
           g == More(q, f, n)
<1>1. size \in Nat
  BY PacketQueueAssumption
<1>2. p.head = (IF size = 0 THEN n ELSE q.head) /\ p.tail = n /\ p.queueSize = size + 1
  BY <1>1 DEF PushedHeader, Queue_Is_Empty
<1>3. /\ size > 0 => q.head = f[1] /\ q.tail = f[size]
      /\ \A k \in 1..size : nx[f[k]] = IF k = size THEN NULL ELSE f[k + 1]
      /\ \A j, k \in 1..size : f[j] = f[k] => j = k
  BY DEF Linked
<1>4. new = IF size = 0 THEN nx ELSE [nx EXCEPT ![q.tail] = n]
  BY <1>1 DEF PushedNext, Queue_Is_Empty
<1>5. g = [k \in 1..(size + 1) |-> IF k <= size THEN f[k] ELSE n]
  BY DEF More
<1>6. f \in [1..size -> Node]
  BY DEF Linked
<1> HIDE DEF size, p, new, g
<1>7. /\ \A k \in 1..size : k \in 1..(size + 1) /\ g[k] = f[k] /\ f[k] \in Node /\ f[k] # n
      /\ size + 1 \in 1..(size + 1) /\ g[size + 1] = n
      /\ \A k \in 1..(size + 1) : k \in 1..size \/ k = size + 1
  BY <1>1, <1>5, <1>6 DEF size
<1>8. \A node \in Node : new[node] = IF size > 0 /\ node = f[size] THEN n ELSE nx[node]
  <2>1. size > 0 => size \in 1..size /\ f[size] \in Node
    BY <1>1, <1>6
  <2> QED
    BY <1>1, <1>3, <1>4, <2>1
<1>9. g \in [1..(size + 1) -> Node]
  BY <1>5, <1>7
<1>10. p.head = g[1] /\ p.tail = g[size + 1]
  <2>1. CASE size = 0
    BY <1>2, <1>7, <2>1
  <2>2. CASE size # 0
    <3>1. 1 \in 1..size /\ size > 0
      BY <1>1, <2>2
    <3> QED
      BY <1>2, <1>3, <1>7, <2>2, <3>1
  <2> QED
    BY <2>1, <2>2
<1>11. ASSUME NEW k \in 1..(size + 1)
       PROVE  new[g[k]] = IF k = size + 1 THEN NULL ELSE g[k + 1]
  <2>1. CASE k = size + 1
    <3>1. size > 0 => size \in 1..size
      BY <1>1
    <3>2. new[n] = nx[n]
      BY <1>7, <1>8, <3>1
    <3> QED
      BY <1>7, <2>1, <3>2
  <2>2. CASE k = size
    <3>1. k \in 1..size /\ size > 0
      BY <1>1, <2>2
    <3> QED
      BY <1>1, <1>7, <1>8, <2>2, <3>1
  <2>3. CASE k \in 1..size /\ k # size
    <3>1. k + 1 \in 1..size /\ size \in 1..size /\ k # size + 1
      BY <1>1, <2>3
    <3>2. f[k] # f[size]
      BY <1>3, <2>3, <3>1
    <3> QED
      BY <1>3, <1>7, <1>8, <2>3, <3>1, <3>2
  <2> QED
    BY <1>7, <2>1, <2>2, <2>3
<1>12. ASSUME NEW j \in 1..(size + 1), NEW k \in 1..(size + 1), g[j] = g[k] PROVE j = k
  BY <1>3, <1>7, <1>12
<1>13. Linked(p, new, g)
  BY <1>1, <1>2, <1>9, <1>10, <1>11, <1>12 DEF Linked
<1> QED
  BY <1>13 DEF p, new, g

\* It leaves the links of other nodes alone.
LEMMA PushLeaves ==
    ASSUME NEW q, NEW nx, NEW f, NEW n \in Node, q.queueSize \in 0..Size,
           Linked(q, nx, f), nx \in [Node -> Node \cup {NULL}],
           NEW node \in Node, \A k \in 1..q.queueSize : f[k] # node
    PROVE  PushedNext(q, n, nx)[node] = nx[node]
<1>1. q.queueSize \in Nat
  BY PacketQueueAssumption
<1>2. q.queueSize > 0 => q.tail # node
  BY <1>1 DEF Linked
<1>3. ~ (q.queueSize > 0) => PushedNext(q, n, nx) = nx
  BY <1>1 DEF PushedNext, Queue_Is_Empty
<1>4. q.queueSize > 0 => PushedNext(q, n, nx) = [nx EXCEPT ![q.tail] = n]
  BY <1>1 DEF PushedNext, Queue_Is_Empty
<1> QED
  BY <1>2, <1>3, <1>4

Held(q, f) == {f[k] : k \in 1..q.queueSize}

\* The nodes of the list after either.
LEMMA RestHolds ==
    ASSUME NEW q, NEW f, q.queueSize \in 0..Size, q.queueSize # 0, Linked(q, next, f)
    PROVE  Held(PoppedHeader(q), Rest(q, f)) = Held(q, f) \ {q.head} /\ q.head \in Held(q, f)
<1> DEFINE n == q.queueSize
<1>1. n \in Nat /\ n # 0 /\ 1 \in 1..n
  BY PacketQueueAssumption
<1>2. PoppedHeader(q).queueSize = n - 1
  BY DEF PoppedHeader
<1>3. q.head = f[1] /\ \A j, k \in 1..n : f[j] = f[k] => j = k
  BY <1>1 DEF Linked
<1>4. Held(PoppedHeader(q), Rest(q, f)) = {Rest(q, f)[k] : k \in 1..(n - 1)}
  BY <1>2 DEF Held
<1>5. \A k \in 1..(n - 1) : Rest(q, f)[k] = f[k + 1]
  BY DEF Rest
<1>6. Held(q, f) = {f[k] : k \in 1..n}
  BY DEF Held
<1> HIDE DEF n
<1>7. ASSUME NEW x \in {Rest(q, f)[k] : k \in 1..(n - 1)} PROVE x \in Held(q, f) \ {q.head}
  <2>1. PICK k \in 1..(n - 1) : x = Rest(q, f)[k]
    OBVIOUS
  <2>2. k + 1 \in 1..n /\ k + 1 # 1 /\ x = f[k + 1]
    BY <1>1, <1>5, <2>1
  <2> QED
    BY <1>1, <1>3, <1>6, <2>2
<1>8. ASSUME NEW x \in Held(q, f), x # q.head PROVE x \in {Rest(q, f)[k] : k \in 1..(n - 1)}
  <2>1. PICK k \in 1..n : x = f[k]
    BY <1>6
  <2>2. k # 1
    BY <1>3, <1>8, <2>1
  <2>3. k - 1 \in 1..(n - 1) /\ (k - 1) + 1 = k
    BY <1>1, <2>2
  <2>4. x = Rest(q, f)[k - 1]
    BY <1>5, <2>1, <2>3
  <2> QED
    BY <2>3, <2>4
<1> QED
  BY <1>1, <1>3, <1>4, <1>6, <1>7, <1>8

\* See RestHolds.
LEMMA MoreHolds ==
    ASSUME NEW q, NEW f, NEW n, q.queueSize \in 0..Size
    PROVE  Held(PushedHeader(q, n), More(q, f, n)) = Held(q, f) \cup {n}
<1> DEFINE size == q.queueSize
<1>1. size \in Nat
  BY PacketQueueAssumption
<1>2. PushedHeader(q, n).queueSize = size + 1
  BY DEF PushedHeader
<1>3. Held(PushedHeader(q, n), More(q, f, n)) = {More(q, f, n)[k] : k \in 1..(size + 1)}
  BY <1>2 DEF Held
<1>4. \A k \in 1..(size + 1) : More(q, f, n)[k] = IF k <= size THEN f[k] ELSE n
  BY DEF More
<1>5. Held(q, f) = {f[k] : k \in 1..size}
  BY DEF Held
<1> HIDE DEF size
<1>6. /\ size + 1 \in 1..(size + 1) /\ ~ (size + 1 <= size)
      /\ \A k \in 1..size : k \in 1..(size + 1) /\ k <= size
      /\ \A k \in 1..(size + 1) : k <= size => k \in 1..size
  BY <1>1
<1>7. ASSUME NEW x \in Held(q, f) \cup {n} PROVE x \in {More(q, f, n)[k] : k \in 1..(size + 1)}
  <2>1. CASE x = n
    BY <1>4, <1>6, <2>1
  <2>2. CASE x \in Held(q, f)
    <3>1. PICK k \in 1..size : x = f[k]
      BY <1>5, <2>2
    <3>2. x = More(q, f, n)[k]
      BY <1>4, <1>6, <3>1
    <3> QED
      BY <1>6, <3>2
  <2> QED
    BY <2>1, <2>2
<1>8. ASSUME NEW x \in {More(q, f, n)[k] : k \in 1..(size + 1)} PROVE x \in Held(q, f) \cup {n}
  <2>1. PICK k \in 1..(size + 1) : x = More(q, f, n)[k]
    OBVIOUS
  <2> QED
    BY <1>4, <1>5, <1>6, <2>1
<1> QED
  BY <1>3, <1>7, <1>8

\* Moving the head of one list to the back of the other keeps both.
LEMMA MoveKeeps ==
    ASSUME NEW from, NEW to, NEW f, NEW m,
           from.queueSize \in 0..Size, to.queueSize \in 0..Size, from.queueSize # 0,
           Linked(from, next, f), Linked(to, next, m), Held(from, f) \cap Held(to, m) = {},
           next \in [Node -> Node \cup {NULL}]
    PROVE  LET links == PushedNext(to, from.head, Unlinked(from.head, next)) IN
           /\ Linked(PoppedHeader(from), links, Rest(from, f))
           /\ Linked(PushedHeader(to, from.head), links, More(to, m, from.head))
<1> DEFINE n == from.head
           nx == Unlinked(n, next)
           links == PushedNext(to, n, nx)
<1>1. n \in Held(from, f) /\ n \notin Held(to, m)
      /\ Held(PoppedHeader(from), Rest(from, f)) = Held(from, f) \ {n}
  BY RestHolds
<1>2. n \in Node
  BY <1>1 DEF Held, Linked
<1>3. /\ nx \in [Node -> Node \cup {NULL}] /\ nx[n] = NULL
      /\ \A node \in Node : node # n => nx[node] = next[node]
  BY <1>2 DEF Unlinked
<1>4. Linked(PoppedHeader(from), nx, Rest(from, f))
  BY PopKeeps
<1> HIDE DEF n, nx
<1>5. \A k \in 1..to.queueSize : m[k] \in Node /\ m[k] # n
  BY <1>1 DEF Held, Linked
<1>6. Linked(to, nx, m)
  BY <1>3, <1>5, ElsewhereKeeps
<1>7. /\ Linked(PushedHeader(to, n), links, More(to, m, n))
      /\ \A node \in Node : (\A k \in 1..to.queueSize : m[k] # node) => links[node] = nx[node]
  <2>1. nx[n] = NULL /\ nx \in [Node -> Node \cup {NULL}]
    BY <1>3
  <2>2. \A k \in 1..to.queueSize : m[k] # n
    BY <1>5
  <2>3. Linked(PushedHeader(to, n), links, More(to, m, n))
    BY <1>2, <1>6, <2>1, <2>2, PushKeeps
  <2>4. ASSUME NEW node \in Node, \A k \in 1..to.queueSize : m[k] # node
        PROVE  links[node] = nx[node]
    BY <1>2, <1>6, <2>1, <2>4, PushLeaves
  <2> QED
    BY <2>3, <2>4
<1>8. \A k \in 1..PoppedHeader(from).queueSize :
         /\ Rest(from, f)[k] \in Node
         /\ \A j \in 1..to.queueSize : m[j] # Rest(from, f)[k]
  <2> DEFINE p == PoppedHeader(from)
             g == Rest(from, f)
  <2>1. Held(p, g) \subseteq Held(from, f) /\ Held(p, g) \cap Held(to, m) = {}
    BY <1>1
  <2>2. \A k \in 1..p.queueSize : g[k] \in Node
    BY <1>4 DEF Linked
  <2> HIDE DEF p, g
  <2>3. \A k \in 1..p.queueSize : g[k] \in Held(p, g)
    BY DEF Held
  <2>4. \A j \in 1..to.queueSize : m[j] \in Held(to, m)
    BY DEF Held
  <2> QED
    BY <2>1, <2>2, <2>3, <2>4 DEF p, g
<1>9. Linked(PoppedHeader(from), links, Rest(from, f))
  <2>1. \A k \in 1..PoppedHeader(from).queueSize : links[Rest(from, f)[k]] = nx[Rest(from, f)[k]]
    BY <1>7, <1>8
  <2> HIDE DEF links
  <2> QED
    BY <1>4, <2>1, ElsewhereKeeps
<1> QED
  BY <1>7, <1>9 DEF n, nx
-----------------------------------------------------------------------------
(* The invariant: the two lists share the nodes built, and the nodes not   *)
(* yet built are unlinked.                                                 *)

Split(f, m) ==
    /\ Linked(FreeQ, next, f) /\ Linked(MallocQ, next, m)
    /\ Held(FreeQ, f) \cap Held(MallocQ, m) = {}
    /\ Held(FreeQ, f) \cup Held(MallocQ, m) = 1..built
    /\ FreeQ.queueSize + MallocQ.queueSize = built
    /\ \A n \in Node : n > built => next[n] = NULL
IInv == Typed /\ (live => \E f, m : Split(f, m))

\* The types of a header, taken from Typed.
LEMMA HeaderTypes ==
    ASSUME Typed
    PROVE  /\ Size \in Nat \ {0} /\ NULL \notin Node
           /\ \A q \in {FreeQ, MallocQ} :
                 /\ q.head \in Node \cup {NULL} /\ q.tail \in Node \cup {NULL}
                 /\ q.queueSize \in 0..Size /\ q.queueSize \in Nat
           /\ next \in [Node -> Node \cup {NULL}]
           /\ built \in 0..Size /\ built \in Nat /\ built <= Size
BY PacketQueueAssumption DEF Typed, Node, NULL

\* Push_Back of a node and Pop_Front keep the types of headers and links.
LEMMA HelpersTyped ==
    ASSUME NEW q, NEW n \in Node, NEW nx \in [Node -> Node \cup {NULL}],
           q.head \in Node \cup {NULL}, q.tail \in Node \cup {NULL}, q.queueSize \in 0..Size
    PROVE  /\ PushedNext(q, n, nx) \in [Node -> Node \cup {NULL}]
           /\ PushedPrev(q, n, nx) \in [Node -> Node \cup {NULL}]
           /\ Unlinked(n, nx) \in [Node -> Node \cup {NULL}]
           /\ q.queueSize < Size =>
                 /\ PushedHeader(q, n).head \in Node \cup {NULL}
                 /\ PushedHeader(q, n).tail \in Node \cup {NULL}
                 /\ PushedHeader(q, n).queueSize \in 0..Size
           /\ q.queueSize # 0 /\ next \in [Node -> Node \cup {NULL}] /\ q.head \in Node =>
                 /\ PoppedHeader(q).head \in Node \cup {NULL}
                 /\ PoppedHeader(q).tail \in Node \cup {NULL}
                 /\ PoppedHeader(q).queueSize \in 0..Size
<1>1. Size \in Nat /\ q.queueSize \in Nat /\ q.queueSize <= Size
  BY PacketQueueAssumption
<1>2. PushedNext(q, n, nx) \in [Node -> Node \cup {NULL}]
  BY DEF PushedNext
<1>3. PushedPrev(q, n, nx) \in [Node -> Node \cup {NULL}]
  BY DEF PushedPrev
<1>4. Unlinked(n, nx) \in [Node -> Node \cup {NULL}]
  BY DEF Unlinked
<1>5. /\ PushedHeader(q, n).head \in {n, q.head} /\ PushedHeader(q, n).tail = n
      /\ PushedHeader(q, n).queueSize = q.queueSize + 1
  BY DEF PushedHeader
<1>6. /\ PoppedHeader(q).head = next[q.head] /\ PoppedHeader(q).tail = q.tail
      /\ PoppedHeader(q).queueSize = q.queueSize - 1
  BY DEF PoppedHeader
<1> QED
  BY <1>1, <1>2, <1>3, <1>4, <1>5, <1>6

\* A list from which nothing can be popped is empty.
LEMMA EmptyOrPops ==
    ASSUME Typed, live, NEW q \in {FreeQ, MallocQ}, NEW f, Linked(q, next, f)
    PROVE  CanPop(q) <=> q.queueSize # 0
<1>1. q.queueSize \in Nat /\ NULL \notin Node
  BY HeaderTypes
<1>2. q.queueSize # 0 => q.head \in Node
  BY <1>1 DEF Linked
<1> QED
  BY <1>1, <1>2 DEF CanPop, Queue_Is_Empty

\* No pointer of a list is followed that is no node.
LEMMA NoTailIsWild ==
    ASSUME Typed, NEW q \in {FreeQ, MallocQ}, NEW f, Linked(q, next, f)
    PROVE  ~ WildTail(q) /\ ~ WildHead(q)
<1>1. q.queueSize \in Nat /\ q.head \in Node \cup {NULL}
  BY HeaderTypes
<1>2. q.queueSize # 0 => q.tail \in Node
  BY <1>1 DEF Linked
<1> QED
  BY <1>1, <1>2 DEF WildTail, WildHead, CanPop, Queue_Is_Empty

\* Queue_Init links the next node to the free list.
LEMMA QueueInitSplits ==
    ASSUME Typed, live, Queue_Init, NEW f, NEW m, Split(f, m),
           NEW g, g = More(FreeQ, f, built + 1)
    PROVE  Typed' /\ Split(g, m)'
<1> DEFINE n == built + 1
<1>1. /\ Size \in Nat /\ FreeQ.queueSize \in 0..Size /\ MallocQ.queueSize \in 0..Size
      /\ next \in [Node -> Node \cup {NULL}] /\ built \in Nat
  BY HeaderTypes
<1>19. ~ WildTail(FreeQ)
  BY NoTailIsWild DEF Split
<1>2. built < Size /\ built' = n /\ MallocQ' = MallocQ /\ live' = live
  BY <1>19 DEF Queue_Init, Building
<1>3. FreeQ.queueSize < Size
  BY <1>1, <1>2 DEF Split
<1>4. FreeQ' = PushedHeader(FreeQ, n) /\ next' = PushedNext(FreeQ, n, next)
      /\ prev' = PushedPrev(FreeQ, n, prev)
  BY <1>1, <1>2, <1>3, <1>19 DEF Queue_Init, Queue_Is_Full
<1>5. n \in Node /\ n > built /\ n \in Nat
  BY <1>1, <1>2 DEF Node
<1>6. n \notin Held(FreeQ, f) /\ n \notin Held(MallocQ, m) /\ next[n] = NULL
  BY <1>1, <1>5 DEF Split
<1>7. (\A k \in 1..FreeQ.queueSize : f[k] # n) /\ \A k \in 1..MallocQ.queueSize : m[k] # n
  BY <1>6 DEF Held
<1>8. Linked(FreeQ, next, f) /\ Linked(MallocQ, next, m)
  BY DEF Split
<1>0. g = More(FreeQ, f, n)
  OBVIOUS
<1> HIDE DEF n
<1>9. Linked(FreeQ', next', g)
  BY <1>1, <1>4, <1>5, <1>6, <1>7, <1>8, <1>0, PushKeeps
<1>10. ASSUME NEW node \in Node, node \notin Held(FreeQ, f) PROVE next'[node] = next[node]
  <2>1. \A k \in 1..FreeQ.queueSize : f[k] # node
    BY <1>10 DEF Held
  <2> QED
    BY <1>1, <1>4, <1>5, <1>8, <2>1, PushLeaves
<1>11. Linked(MallocQ', next', m)
  <2>1. \A k \in 1..MallocQ.queueSize : m[k] \in Node /\ m[k] \in Held(MallocQ, m)
    BY <1>8 DEF Linked, Held
  <2>2. \A k \in 1..MallocQ.queueSize : next'[m[k]] = next[m[k]]
    BY <1>10, <2>1 DEF Split
  <2> QED
    BY <1>2, <1>8, <2>2, ElsewhereKeeps
<1>12. Held(FreeQ', g) = Held(FreeQ, f) \cup {n} /\ Held(MallocQ', m) = Held(MallocQ, m)
  <2>1. Held(PushedHeader(FreeQ, n), g) = Held(FreeQ, f) \cup {n}
    BY <1>1, <1>0, MoreHolds
  <2> QED
    BY <1>2, <1>4, <2>1 DEF Held
<1>13. Held(FreeQ', g) \cap Held(MallocQ', m) = {}
  BY <1>6, <1>12 DEF Split
<1>14. Held(FreeQ', g) \cup Held(MallocQ', m) = 1..built'
  <2>1. 1..built' = (1..built) \cup {n}
    BY <1>1, <1>2 DEF n
  <2> QED
    BY <1>12, <2>1 DEF Split
<1>15. FreeQ'.queueSize + MallocQ'.queueSize = built'
  <2>1. FreeQ'.queueSize = FreeQ.queueSize + 1
    BY <1>4 DEF PushedHeader
  <2> QED
    BY <1>1, <1>2, <2>1 DEF Split, n
<1>16. \A node \in Node : node > built' => next'[node] = NULL
  <2> SUFFICES ASSUME NEW node \in Node, node > built' PROVE next'[node] = NULL
    OBVIOUS
  <2>1. node > built /\ node \notin 1..built
    BY <1>1, <1>2 DEF Node, n
  <2> QED
    BY <1>10, <2>1 DEF Split
<1>17. Split(g, m)'
  BY <1>9, <1>11, <1>13, <1>14, <1>15, <1>16 DEF Split
<1>18. Typed'
  <2>1. /\ next' \in [Node -> Node \cup {NULL}] /\ prev' \in [Node -> Node \cup {NULL}]
        /\ FreeQ'.head \in Node \cup {NULL} /\ FreeQ'.tail \in Node \cup {NULL}
        /\ FreeQ'.queueSize \in 0..Size
    BY <1>1, <1>3, <1>4, <1>5, HelpersTyped, HeaderTypes DEF Typed
  <2>2. built' \in 0..Size
    BY <1>1, <1>2 DEF n
  <2> QED
    BY <1>2, <1>19, <2>1, <2>2 DEF Typed, Queue_Init
<1> QED
  BY <1>17, <1>18

HeaderOK(q) == q.head \in Node \cup {NULL} /\ q.tail \in Node \cup {NULL} /\ q.queueSize \in 0..Size

\* A move between the two lists, in either direction, once all nodes are built.
LEMMA MovedLists ==
    ASSUME Typed, NEW from, NEW to, NEW f, NEW m,
           HeaderOK(from), HeaderOK(to), from.queueSize # 0, Move(from, to),
           Linked(from, next, f), Linked(to, next, m),
           Held(from, f) \cap Held(to, m) = {}, Held(from, f) \cup Held(to, m) = 1..Size,
           from.queueSize + to.queueSize = Size,
           NEW p, p = PoppedHeader(from), NEW q, q = PushedHeader(to, from.head),
           NEW g, g = Rest(from, f), NEW h, h = More(to, m, from.head)
    PROVE  /\ from.head \in Node /\ HeaderOK(p) /\ HeaderOK(q)
           /\ next' \in [Node -> Node \cup {NULL}] /\ prev' \in [Node -> Node \cup {NULL}]
           /\ Linked(p, next', g) /\ Linked(q, next', h)
           /\ Held(p, g) \cap Held(q, h) = {} /\ Held(p, g) \cup Held(q, h) = 1..Size
           /\ p.queueSize + q.queueSize = Size
<1> DEFINE n == from.head
<1>1. /\ from.queueSize \in 0..Size /\ to.queueSize \in 0..Size
      /\ next \in [Node -> Node \cup {NULL}] /\ prev \in [Node -> Node \cup {NULL}]
      /\ Size \in Nat /\ from.queueSize \in Nat /\ to.queueSize \in Nat
  BY HeaderTypes DEF HeaderOK, Typed
<1>2. to.queueSize < Size
  BY <1>1
<1>3. Held(p, g) = Held(from, f) \ {n} /\ n \in Held(from, f)
  BY <1>1, RestHolds
<1>4. Held(q, h) = Held(to, m) \cup {n}
  BY <1>1, MoreHolds
<1>5. n \in Node
  BY <1>3 DEF Node
<1>6. next' = PushedNext(to, n, Unlinked(n, next)) /\ prev' = PushedPrev(to, n, Unlinked(n, prev))
  BY DEF Move
<1>7. Linked(p, next', g) /\ Linked(q, next', h)
  <2>1. LET links == PushedNext(to, from.head, Unlinked(from.head, next)) IN
           /\ Linked(PoppedHeader(from), links, Rest(from, f))
           /\ Linked(PushedHeader(to, from.head), links, More(to, m, from.head))
    BY <1>1, MoveKeeps
  <2> QED
    BY <1>6, <2>1
<1> HIDE DEF n
<1>8. next' \in [Node -> Node \cup {NULL}] /\ prev' \in [Node -> Node \cup {NULL}]
  <2>1. /\ Unlinked(n, next) \in [Node -> Node \cup {NULL}]
        /\ Unlinked(n, prev) \in [Node -> Node \cup {NULL}]
    BY <1>1, <1>5 DEF Unlinked
  <2> DEFINE nx == Unlinked(n, next)
             pv == Unlinked(n, prev)
  <2> HIDE DEF nx, pv
  <2>2. nx \in [Node -> Node \cup {NULL}] /\ pv \in [Node -> Node \cup {NULL}]
    BY <2>1 DEF nx, pv
  <2>3. PushedNext(to, n, nx) \in [Node -> Node \cup {NULL}]
    BY <1>5, <2>2 DEF PushedNext
  <2>4. PushedPrev(to, n, pv) \in [Node -> Node \cup {NULL}]
    BY <1>5, <2>2, HelpersTyped DEF HeaderOK, PushedPrev
  <2> QED
    BY <1>6, <2>3, <2>4 DEF nx, pv
<1>9. HeaderOK(p) /\ HeaderOK(q)
  BY <1>1, <1>2, <1>5, HelpersTyped DEF HeaderOK, n
<1>10. p.queueSize + q.queueSize = Size
  <2>1. p.queueSize = from.queueSize - 1 /\ q.queueSize = to.queueSize + 1
    BY DEF PoppedHeader, PushedHeader
  <2> QED
    BY <1>1, <2>1
<1>11. Held(p, g) \cap Held(q, h) = {} /\ Held(p, g) \cup Held(q, h) = 1..Size
  BY <1>3, <1>4
<1> QED
  BY <1>5, <1>7, <1>8, <1>9, <1>10, <1>11 DEF n

\* A push with a free node appends the packet, and keeps the invariant.
LEMMA PushSplits ==
    ASSUME Typed, live, NEW x \in Items, Queue_Push_Back(x), NEW f, NEW m, Split(f, m),
           FreeQ.queueSize # 0,
           NEW g, g = Rest(FreeQ, f), NEW h, h = More(MallocQ, m, FreeQ.head)
    PROVE  /\ Typed' /\ Split(g, h)'
           /\ MallocQ'.queueSize = MallocQ.queueSize + 1 /\ result' = "ok" /\ live' = live
           /\ FreeQ.head \in Node /\ FreeQ.head \notin Held(MallocQ, m)
           /\ item' = [item EXCEPT ![FreeQ.head] = x]
<1>1. HeaderOK(FreeQ) /\ HeaderOK(MallocQ) /\ Size \in Nat
      /\ FreeQ.queueSize \in Nat /\ MallocQ.queueSize \in Nat
  BY HeaderTypes DEF HeaderOK
<1>2. built = Size /\ built' = built /\ live' = live
  BY DEF Queue_Push_Back, Built
<1>3. CanPop(FreeQ) /\ ~ Queue_Is_Full(MallocQ)
  <2>1. CanPop(FreeQ)
    BY EmptyOrPops DEF Split
  <2>2. MallocQ.queueSize < Size
    BY <1>1, <1>2 DEF Split
  <2> QED
    BY <1>1, <2>1, <2>2 DEF Queue_Is_Full
<1>10. ~ WildHead(FreeQ) /\ ~ WildTail(MallocQ)
  BY NoTailIsWild DEF Split
<1>4. /\ FreeQ' = PoppedHeader(FreeQ) /\ MallocQ' = PushedHeader(MallocQ, FreeQ.head)
      /\ Move(FreeQ, MallocQ) /\ item' = [item EXCEPT ![FreeQ.head] = x] /\ result' = "ok"
  BY <1>3, <1>10 DEF Queue_Push_Back
<1>5. /\ FreeQ.head \in Node /\ HeaderOK(FreeQ') /\ HeaderOK(MallocQ')
      /\ next' \in [Node -> Node \cup {NULL}] /\ prev' \in [Node -> Node \cup {NULL}]
      /\ Linked(FreeQ', next', g) /\ Linked(MallocQ', next', h)
      /\ Held(FreeQ', g) \cap Held(MallocQ', h) = {}
      /\ Held(FreeQ', g) \cup Held(MallocQ', h) = 1..Size
      /\ FreeQ'.queueSize + MallocQ'.queueSize = Size
  BY <1>1, <1>2, <1>4, MovedLists DEF Split
<1>6. MallocQ'.queueSize = MallocQ.queueSize + 1
  BY <1>4 DEF PushedHeader
<1>7. FreeQ.head \notin Held(MallocQ, m)
  <2>1. FreeQ.head \in Held(FreeQ, f)
    BY <1>1, RestHolds DEF Split, HeaderOK
  <2> QED
    BY <2>1 DEF Split
<1>8. Split(g, h)'
  <2>1. \A n \in Node : ~ (n > built')
    BY <1>1, <1>2 DEF Node
  <2> QED
    BY <1>2, <1>5, <2>1 DEF Split
<1>9. Typed'
  <2>1. item' \in [Node -> Items \cup {NoItem}]
    BY <1>4, <1>5 DEF Typed
  <2> QED
    BY <1>2, <1>4, <1>5, <2>1 DEF Typed, HeaderOK
<1> QED
  BY <1>2, <1>4, <1>5, <1>6, <1>7, <1>8, <1>9

\* A pop of a waiting packet takes the oldest, and keeps the invariant.
LEMMA PopSplits ==
    ASSUME Typed, live, Queue_Pop_Front, NEW f, NEW m, Split(f, m),
           MallocQ.queueSize # 0,
           NEW g, g = More(FreeQ, f, MallocQ.head), NEW h, h = Rest(MallocQ, m)
    PROVE  /\ Typed' /\ Split(g, h)'
           /\ MallocQ'.queueSize = MallocQ.queueSize - 1 /\ result' = "ok"
           /\ live' = live /\ item' = item
<1>1. HeaderOK(FreeQ) /\ HeaderOK(MallocQ) /\ Size \in Nat
      /\ FreeQ.queueSize \in Nat /\ MallocQ.queueSize \in Nat
  BY HeaderTypes DEF HeaderOK
<1>2. built = Size /\ built' = built /\ live' = live /\ item' = item
  BY DEF Queue_Pop_Front, Built
<1>3. CanPop(MallocQ) /\ ~ Queue_Is_Full(FreeQ)
  <2>1. CanPop(MallocQ)
    BY EmptyOrPops DEF Split
  <2>2. FreeQ.queueSize < Size
    BY <1>1, <1>2 DEF Split
  <2> QED
    BY <1>1, <2>1, <2>2 DEF Queue_Is_Full
<1>9. ~ WildHead(MallocQ) /\ ~ WildTail(FreeQ)
  BY NoTailIsWild DEF Split
<1>4. /\ MallocQ' = PoppedHeader(MallocQ) /\ FreeQ' = PushedHeader(FreeQ, MallocQ.head)
      /\ Move(MallocQ, FreeQ) /\ result' = "ok"
  BY <1>3, <1>9 DEF Queue_Pop_Front
<1>5. /\ HeaderOK(FreeQ') /\ HeaderOK(MallocQ')
      /\ next' \in [Node -> Node \cup {NULL}] /\ prev' \in [Node -> Node \cup {NULL}]
      /\ Linked(FreeQ', next', g) /\ Linked(MallocQ', next', h)
      /\ Held(MallocQ', h) \cap Held(FreeQ', g) = {}
      /\ Held(MallocQ', h) \cup Held(FreeQ', g) = 1..Size
      /\ MallocQ'.queueSize + FreeQ'.queueSize = Size
  <2>1. Held(MallocQ, m) \cap Held(FreeQ, f) = {} /\ Held(MallocQ, m) \cup Held(FreeQ, f) = 1..Size
        /\ MallocQ.queueSize + FreeQ.queueSize = Size
    BY <1>1, <1>2 DEF Split
  <2> QED
    BY <1>1, <1>2, <1>4, <2>1, MovedLists DEF Split
<1>6. MallocQ'.queueSize = MallocQ.queueSize - 1
  BY <1>4 DEF PoppedHeader
<1>7. Split(g, h)'
  <2>1. \A n \in Node : ~ (n > built')
    BY <1>1, <1>2 DEF Node
  <2>2. FreeQ'.queueSize + MallocQ'.queueSize = Size
    BY <1>5 DEF HeaderOK
  <2> QED
    BY <1>2, <1>5, <2>1, <2>2 DEF Split
<1>8. Typed'
  BY <1>2, <1>4, <1>5 DEF Typed, HeaderOK
<1> QED
  BY <1>2, <1>4, <1>6, <1>7, <1>8

\* Every step keeps the invariant.
LEMMA NextKeeps == IInv /\ [Next]_vars => IInv'
<1> SUFFICES ASSUME IInv, [Next]_vars PROVE IInv'
  OBVIOUS
<1>1. Typed
  BY DEF IInv
<1>2. ASSUME live PROVE \E f, m : Split(f, m)
  BY <1>2 DEF IInv
<1>3. CASE UNCHANGED vars
  BY <1>3 DEF IInv, Typed, vars, Split
<1>4. CASE Queue_Init
  <2>1. live
    BY <1>4 DEF Queue_Init, Building
  <2>2. PICK f : \E m : Split(f, m)
    BY <1>2, <2>1
  <2>3. \E g : g = More(FreeQ, f, built + 1)
    OBVIOUS
  <2> QED
    BY <1>1, <1>4, <2>1, <2>2, <2>3, QueueInitSplits DEF IInv
<1>5. ASSUME NEW x \in Items, Queue_Push_Back(x) PROVE IInv'
  <2>1. CASE live /\ FreeQ.queueSize # 0
    <3>1. PICK f : \E m : Split(f, m)
      BY <1>2, <2>1
    <3>2. PICK m : Split(f, m)
      BY <3>1
    <3>3. \E g, h : g = Rest(FreeQ, f) /\ h = More(MallocQ, m, FreeQ.head)
      OBVIOUS
    <3> QED
      BY <1>1, <1>5, <2>1, <3>2, <3>3, PushSplits DEF IInv
  <2>2. CASE ~ (live /\ FreeQ.queueSize # 0)
    <3>1. ~ CanPop(FreeQ)
      BY <2>2, <1>1, HeaderTypes DEF CanPop, Queue_Is_Empty
    <3>2. UNCHANGED <<FreeQ, MallocQ, next, prev, item, built, live>> /\ result' = "fail"
      BY <1>5, <3>1 DEF Queue_Push_Back
    <3> QED
      BY <3>2 DEF IInv, Typed, Split
  <2> QED
    BY <2>1, <2>2
<1>6. CASE Queue_Pop_Front
  <2>1. CASE live /\ MallocQ.queueSize # 0
    <3>1. PICK f : \E m : Split(f, m)
      BY <1>2, <2>1
    <3>2. PICK m : Split(f, m)
      BY <3>1
    <3>3. \E g, h : g = More(FreeQ, f, MallocQ.head) /\ h = Rest(MallocQ, m)
      OBVIOUS
    <3> QED
      BY <1>1, <1>6, <2>1, <3>2, <3>3, PopSplits DEF IInv
  <2>2. CASE ~ (live /\ MallocQ.queueSize # 0)
    <3>1. ~ CanPop(MallocQ)
      BY <2>2, <1>1, HeaderTypes DEF CanPop, Queue_Is_Empty
    <3>2. UNCHANGED <<FreeQ, MallocQ, next, prev, item, built, live>> /\ result' = "fail"
      BY <1>6, <3>1 DEF Queue_Pop_Front
    <3> QED
      BY <3>2 DEF IInv, Typed, Split
  <2> QED
    BY <2>1, <2>2
<1>7. CASE Queue_Free
  BY <1>7 DEF IInv, Typed, Queue_Free
<1> QED
  BY <1>3, <1>4, <1>5, <1>6, <1>7 DEF Next

\* Headers that hold zeros are two empty lists.
LEMMA InitEstablishes == Init /\ zeroed => IInv
<1> SUFFICES ASSUME Init, zeroed PROVE IInv
  OBVIOUS
<1>1. FreeQ = ZeroHeader /\ MallocQ = ZeroHeader /\ built = 0
  BY DEF Init
<1>2. FreeQ.head = NULL /\ FreeQ.tail = NULL /\ FreeQ.queueSize = 0
  BY <1>1 DEF ZeroHeader
<1>3. Typed
  BY <1>1, <1>2, PacketQueueAssumption DEF Typed, Init
<1>4. Split(<<>>, <<>>)
  <2>1. 1..0 = {} /\ <<>> \in [{} -> Node]
    OBVIOUS
  <2>2. Linked(FreeQ, next, <<>>) /\ Linked(MallocQ, next, <<>>)
    BY <1>1, <1>2, <2>1 DEF Linked
  <2>3. Held(FreeQ, <<>>) = {} /\ Held(MallocQ, <<>>) = {}
    BY <1>1, <1>2, <2>1 DEF Held
  <2> QED
    BY <1>1, <1>2, <2>1, <2>2, <2>3 DEF Split, Init
<1> QED
  BY <1>3, <1>4 DEF IInv

-----------------------------------------------------------------------------
(* The theorems.                                                           *)

\* The invariant holds in every behaviour that starts from zeros.
THEOREM InvariantHolds == Spec => [](zeroed => IInv)
<1>1. Init => (zeroed => IInv)
  BY InitEstablishes
<1>2. (zeroed => IInv) /\ [Next]_vars => (zeroed => IInv)'
  <2>1. [Next]_vars => zeroed' = zeroed
    BY DEF Next, vars
  <2> QED
    BY <2>1, NextKeeps
<1> QED
  BY <1>1, <1>2, PTL DEF Spec

\* From headers that held zeros, headers, links and sizes of Queue.c stay in the
\* array of nodes, and no call follows a pointer that is no node.
THEOREM TypeCorrect == Spec => []TypeOK
<1>1. (zeroed => IInv) => TypeOK
  BY DEF IInv, TypeOK
<1> QED
  BY <1>1, InvariantHolds, PTL

\* From headers that held zeros, Queue_Push_Back and Queue_Pop_Front lose no node
\* and share none between the lists, whatever the order of calls.
THEOREM NodesStayPartitioned == Spec => []NodesPartitioned
<1>1. (zeroed => IInv) => NodesPartitioned
  <2> SUFFICES ASSUME IInv, live, zeroed PROVE NodesPartitioned
    BY DEF NodesPartitioned
  <2>1. PICK f : \E m : Split(f, m)
    BY DEF IInv
  <2>2. PICK m : Split(f, m)
    BY <2>1
  <2>3. FreeQ.queueSize \in 0..Size /\ MallocQ.queueSize \in 0..Size
    BY HeaderTypes DEF IInv
  <2>4. Len(Chain(FreeQ)) = FreeQ.queueSize /\ Nodes(FreeQ) = Held(FreeQ, f)
    BY <2>2, <2>3, ChainIs DEF Split, Held
  <2>5. Len(Chain(MallocQ)) = MallocQ.queueSize /\ Nodes(MallocQ) = Held(MallocQ, m)
    BY <2>2, <2>3, ChainIs DEF Split, Held
  <2> QED
    BY <2>2, <2>4, <2>5 DEF NodesPartitioned, Split
<1> QED
  BY <1>1, InvariantHolds, PTL

-----------------------------------------------------------------------------
(* The pool.                                                               *)

Waiting == IF ~live THEN <<>>
           ELSE [k \in DOMAIN Chain(MallocQ) |-> item[Chain(MallocQ)[k]]]
Packets(m) == [k \in 1..MallocQ.queueSize |-> item[m[k]]]

\* What waits are the packets of the list's nodes.
LEMMA WaitingIs == \A f, m : Typed /\ live /\ Split(f, m) => Waiting = Packets(m)
<1> SUFFICES ASSUME NEW f, NEW m, Typed, live, Split(f, m) PROVE Waiting = Packets(m)
  OBVIOUS
<1>1. MallocQ.queueSize \in 0..Size /\ Linked(MallocQ, next, m)
  BY HeaderTypes DEF Split
<1>2. Chain(MallocQ) = m /\ DOMAIN m = 1..MallocQ.queueSize
  BY <1>1, ChainIs DEF Linked
<1> QED
  BY <1>2 DEF Waiting, Packets

\* And after a step.
LEMMA WaitingIsAfter == (\A f, m : Typed /\ live /\ Split(f, m) => Waiting = Packets(m))'
BY WaitingIs, PTL

\* The packets form a sequence as long as the list.
LEMMA PacketsAreSeq ==
    ASSUME Typed, NEW f, NEW m, Split(f, m)
    PROVE  Packets(m) \in Seq(Items \cup {NoItem}) /\ Len(Packets(m)) = MallocQ.queueSize
<1>1. MallocQ.queueSize \in Nat /\ m \in [1..MallocQ.queueSize -> Node]
  BY HeaderTypes DEF Split, Linked
<1>2. Packets(m) \in [1..MallocQ.queueSize -> Items \cup {NoItem}]
  BY <1>1 DEF Packets, Typed
<1> QED
  BY <1>1, <1>2

\* A push is refused by both, or appends.
LEMMA PushImplements ==
    ASSUME IInv, NEW x \in Items, Queue_Push_Back(x)
    PROVE  \/ Waiting' = Append(Waiting, x) /\ Len(Waiting) < Size /\ live /\ result' = "ok"
           \/ Waiting' = Waiting /\ (Len(Waiting) = Size \/ ~live) /\ result' = "fail"
<1>1. Typed
  BY DEF IInv
<1>2. live' = live /\ item \in [Node -> Items \cup {NoItem}] /\ Size \in Nat
  BY <1>1, PacketQueueAssumption DEF Queue_Push_Back, Typed
<1>3. CASE ~live
  <2>1. ~ CanPop(FreeQ)
    BY <1>3 DEF CanPop
  <2> QED
    BY <1>2, <1>3, <2>1 DEF Queue_Push_Back, Waiting
<1>4. CASE live
  <2>1. PICK f : \E m : Split(f, m)
    BY <1>4 DEF IInv
  <2>2. PICK m : Split(f, m)
    BY <2>1
  <2>3. Waiting = Packets(m) /\ Len(Packets(m)) = MallocQ.queueSize
        /\ Packets(m) \in Seq(Items \cup {NoItem})
    BY <1>1, <1>4, <2>2, WaitingIs, PacketsAreSeq
  <2>4. MallocQ.queueSize \in Nat /\ FreeQ.queueSize \in Nat
        /\ FreeQ.queueSize + MallocQ.queueSize = Size
    BY <1>1, <1>4, <2>2, HeaderTypes DEF Split, Queue_Push_Back, Built
  <2>5. CASE FreeQ.queueSize = 0
    <3>1. ~ CanPop(FreeQ)
      BY <2>5 DEF CanPop, Queue_Is_Empty
    <3>2. UNCHANGED <<FreeQ, MallocQ, next, item, live>> /\ result' = "fail"
      BY <3>1 DEF Queue_Push_Back
    <3>3. Waiting' = Waiting
      BY <3>2 DEF Waiting, Chain, Reach
    <3> QED
      BY <2>3, <2>4, <2>5, <3>2, <3>3
  <2>6. CASE FreeQ.queueSize # 0
    <3> DEFINE size == MallocQ.queueSize
               longer == Append(Packets(m), x)
    <3>0. /\ longer \in Seq(Items \cup {NoItem}) /\ Len(longer) = size + 1
          /\ \A k \in 1..size : longer[k] = Packets(m)[k]
          /\ longer[size + 1] = x
      BY <2>3, AppendProperties
    <3>1. PICK g : g = Rest(FreeQ, f)
      OBVIOUS
    <3>2. PICK h : h = More(MallocQ, m, FreeQ.head)
      OBVIOUS
    <3>3. /\ Typed' /\ Split(g, h)' /\ MallocQ'.queueSize = MallocQ.queueSize + 1
          /\ result' = "ok" /\ FreeQ.head \in Node /\ FreeQ.head \notin Held(MallocQ, m)
          /\ item' = [item EXCEPT ![FreeQ.head] = x]
      BY <1>1, <1>4, <2>2, <2>6, <3>1, <3>2, PushSplits
    <3>4. Waiting' = Packets(h)'
      BY <1>2, <1>4, <3>3, WaitingIsAfter
    <3>5. Packets(h)' = [k \in 1..(MallocQ.queueSize + 1) |-> item'[h[k]]]
      BY <3>3 DEF Packets
    <3>6. ASSUME NEW k \in 1..(MallocQ.queueSize + 1)
          PROVE  item'[h[k]] = longer[k]
      <4>1. CASE k \in 1..MallocQ.queueSize
        <5>1. h[k] = m[k] /\ m[k] \in Node /\ m[k] # FreeQ.head
          BY <2>2, <2>4, <3>2, <3>3, <4>1 DEF More, Held, Split, Linked
        <5>2. item'[h[k]] = item[m[k]] /\ Packets(m)[k] = item[m[k]]
          BY <1>2, <3>3, <4>1, <5>1 DEF Packets
        <5> QED
          BY <3>0, <4>1, <5>2
      <4>2. CASE k = MallocQ.queueSize + 1
        <5>1. h[k] = FreeQ.head
          BY <2>4, <3>2, <4>2 DEF More
        <5>2. item'[h[k]] = x
          BY <1>2, <3>3, <5>1
        <5> QED
          BY <3>0, <4>2, <5>2
      <4>3. k \in 1..MallocQ.queueSize \/ k = MallocQ.queueSize + 1
        BY <2>4
      <4> QED
        BY <4>1, <4>2, <4>3
    <3> HIDE DEF longer
    <3>7. longer = [k \in 1..(size + 1) |-> longer[k]]
      BY <3>0
    <3>8. Waiting' = longer
      BY <3>4, <3>5, <3>6, <3>7
    <3> QED
      BY <1>4, <2>3, <2>4, <2>6, <3>3, <3>8 DEF longer
  <2> QED
    BY <2>5, <2>6
<1> QED
  BY <1>3, <1>4

\* A pop takes the oldest packet, or fails on none.
LEMMA PopImplements ==
    ASSUME IInv, Queue_Pop_Front
    PROVE  \/ Waiting # <<>> /\ Waiting' = Tail(Waiting) /\ result' = "ok"
           \/ Waiting = <<>> /\ Waiting' = Waiting /\ result' = "fail"
<1>1. Typed
  BY DEF IInv
<1>2. live' = live
  BY DEF Queue_Pop_Front
<1>3. CASE ~live
  <2>1. ~ CanPop(MallocQ)
    BY <1>3 DEF CanPop
  <2> QED
    BY <1>2, <1>3, <2>1 DEF Queue_Pop_Front, Waiting
<1>4. CASE live
  <2>1. PICK f : \E m : Split(f, m)
    BY <1>4 DEF IInv
  <2>2. PICK m : Split(f, m)
    BY <2>1
  <2>3. Waiting = Packets(m) /\ Len(Packets(m)) = MallocQ.queueSize
        /\ Packets(m) \in Seq(Items \cup {NoItem})
    BY <1>1, <1>4, <2>2, WaitingIs, PacketsAreSeq
  <2>4. MallocQ.queueSize \in Nat
    BY <1>1, HeaderTypes
  <2>5. CASE MallocQ.queueSize = 0
    <3>1. ~ CanPop(MallocQ)
      BY <2>5 DEF CanPop, Queue_Is_Empty
    <3>2. UNCHANGED <<FreeQ, MallocQ, next, item, live>> /\ result' = "fail"
      BY <3>1 DEF Queue_Pop_Front
    <3>3. Waiting' = Waiting
      BY <3>2 DEF Waiting, Chain, Reach
    <3>4. Waiting = <<>>
      BY <2>3, <2>5
    <3> QED
      BY <3>2, <3>3, <3>4
  <2>6. CASE MallocQ.queueSize # 0
    <3> DEFINE size == MallocQ.queueSize
               shorter == Tail(Packets(m))
    <3>0. /\ shorter \in Seq(Items \cup {NoItem}) /\ Len(shorter) = size - 1
          /\ \A k \in 1..(size - 1) : shorter[k] = Packets(m)[k + 1]
      <4>1. Packets(m) # <<>>
        BY <2>3, <2>6
      <4> QED
        BY <2>3, <4>1, HeadTailProperties
    <3>1. PICK g : g = More(FreeQ, f, MallocQ.head)
      OBVIOUS
    <3>2. PICK h : h = Rest(MallocQ, m)
      OBVIOUS
    <3>3. /\ Typed' /\ Split(g, h)' /\ MallocQ'.queueSize = MallocQ.queueSize - 1
          /\ result' = "ok" /\ item' = item
      BY <1>1, <1>4, <2>2, <2>6, <3>1, <3>2, PopSplits
    <3>4. Waiting' = Packets(h)'
      BY <1>2, <1>4, <3>3, WaitingIsAfter
    <3>5. Packets(h)' = [k \in 1..(MallocQ.queueSize - 1) |-> item[h[k]]]
      BY <3>3 DEF Packets
    <3>6. ASSUME NEW k \in 1..(MallocQ.queueSize - 1)
          PROVE  item[h[k]] = shorter[k]
      <4>1. h[k] = m[k + 1] /\ k + 1 \in 1..MallocQ.queueSize
        BY <2>4, <3>2 DEF Rest
      <4>2. Packets(m)[k + 1] = item[m[k + 1]]
        BY <4>1 DEF Packets
      <4> QED
        BY <3>0, <4>1, <4>2
    <3> HIDE DEF shorter
    <3>7. shorter = [k \in 1..(size - 1) |-> shorter[k]]
      BY <3>0
    <3>8. Waiting' = shorter
      BY <3>4, <3>5, <3>6, <3>7
    <3>9. Waiting # <<>>
      BY <2>3, <2>6
    <3> QED
      BY <2>3, <3>3, <3>8, <3>9 DEF shorter
  <2> QED
    BY <2>5, <2>6
<1> QED
  BY <1>3, <1>4

\* The links of Queue_Init leave the list of waiting packets empty of news.
LEMMA BuildImplements ==
    ASSUME IInv, Queue_Init
    PROVE  Waiting' = Waiting
<1>1. Typed /\ live /\ live' = live /\ MallocQ' = MallocQ /\ item' = item
  BY DEF IInv, Queue_Init, Building, Ends
<1>2. PICK f : \E m : Split(f, m)
  BY <1>1 DEF IInv
<1>3. PICK m : Split(f, m)
  BY <1>2
<1>4. PICK g : g = More(FreeQ, f, built + 1)
  OBVIOUS
<1>5. Typed' /\ Split(g, m)'
  BY <1>1, <1>3, <1>4, QueueInitSplits
<1>6. Waiting = Packets(m) /\ Waiting' = Packets(m)'
  BY <1>1, <1>3, <1>5, WaitingIs, WaitingIsAfter
<1> QED
  BY <1>1, <1>6 DEF Packets

\* Nor does Queue_Init end in a wild access.
LEMMA BuildKeepsResult ==
    ASSUME IInv, Queue_Init
    PROVE  result' = result
<1>1. PICK f : \E m : Split(f, m)
  BY DEF IInv, Queue_Init, Building
<1>2. ~ WildTail(FreeQ)
  BY <1>1, NoTailIsWild DEF IInv, Split
<1> QED
  BY <1>2 DEF Queue_Init

\* What PacketPool sees of them, as the refinement maps it.
WaitingNow == IF ~Usable THEN <<>>
              ELSE [k \in DOMAIN Chain(MallocQ) |-> item[Chain(MallocQ)[k]]]
ResultNow == IF zeroed THEN result ELSE "ok"

\* From zeros it is what waits, otherwise nothing.
LEMMA PoolSees ==
    /\ zeroed => WaitingNow = Waiting /\ ResultNow = result /\ (Usable <=> live)
    /\ ~zeroed => WaitingNow = <<>> /\ ResultNow = "ok" /\ ~Usable
BY DEF WaitingNow, Waiting, ResultNow, Usable

\* The same in the next state.
LEMMA PoolSeesNext ==
    /\ zeroed' => WaitingNow' = Waiting' /\ ResultNow' = result' /\ (Usable' <=> live')
    /\ ~zeroed' => WaitingNow' = <<>> /\ ResultNow' = "ok" /\ ~Usable'
BY DEF WaitingNow, Waiting, ResultNow, Usable

\* Queue_Push_Back and Queue_Pop_Front, on linked lists, implement the pool, when
\* malloc returned zeros: packets leave in the order they came, and a push is
\* refused exactly when all nodes are in use or there is no queue.
THEOREM QueueImplementsPool == Spec => ImplementsPool
<1>1. Init => Pool!Init
  <2> SUFFICES ASSUME Init PROVE Pool!Init
    OBVIOUS
  <2>1. CASE ~zeroed
    BY <2>1, PoolSees DEF Pool!Init, WaitingNow, ResultNow
  <2>2. CASE zeroed
    <3>1. IInv
      BY <2>2, InitEstablishes
    <3>2. Waiting = <<>>
      <4>1. CASE ~live
        BY <4>1 DEF Waiting
      <4>2. CASE live
        <5>1. PICK f : \E m : Split(f, m)
          BY <3>1, <4>2 DEF IInv
        <5>2. PICK m : Split(f, m)
          BY <5>1
        <5>4. MallocQ = ZeroHeader
          BY <2>2 DEF Init
        <5>3. MallocQ.queueSize = 0
          BY <5>4 DEF ZeroHeader
        <5> QED
          BY <3>1, <4>2, <5>2, <5>3, WaitingIs, PacketsAreSeq DEF IInv
      <4> QED
        BY <4>1, <4>2
    <3>3. result = "ok" /\ live \in BOOLEAN
      BY DEF Init
    <3>4. WaitingNow = <<>> /\ ResultNow = "ok" /\ (Usable <=> live)
      BY <2>2, <3>2, <3>3, PoolSees
    <3> QED
      BY <3>4 DEF Pool!Init, WaitingNow, ResultNow
  <2> QED
    BY <2>1, <2>2
<1>2. (zeroed => IInv) /\ [Next]_vars => [Pool!Next]_(Pool!vars)
  <2> SUFFICES ASSUME zeroed => IInv, [Next]_vars PROVE [Pool!Next]_(Pool!vars)
    OBVIOUS
  <2>0. zeroed' = zeroed
    BY DEF Next, vars
  <2>1. CASE UNCHANGED vars
    BY <2>1 DEF vars, Pool!vars, Chain, Reach, Usable
  <2>2. CASE ~zeroed
    <3>1. WaitingNow' = WaitingNow /\ ResultNow' = ResultNow /\ (Usable' <=> Usable)
      BY <2>0, <2>2, PoolSees, PoolSeesNext
    <3> QED
      BY <3>1 DEF Pool!vars, WaitingNow, ResultNow
  <2>3. CASE zeroed /\ Queue_Init
    <3>1. Waiting' = Waiting /\ live' = live
      BY <2>3, BuildImplements DEF Queue_Init, Building, Ends
    <3>2. result' = result
      BY <2>3, BuildKeepsResult
    <3>3. WaitingNow' = WaitingNow /\ ResultNow' = ResultNow /\ (Usable' <=> Usable)
      BY <2>0, <2>3, <3>1, <3>2, PoolSees, PoolSeesNext
    <3> QED
      BY <3>3 DEF Pool!vars, WaitingNow, ResultNow
  <2>4. ASSUME zeroed, NEW x \in Items, Queue_Push_Back(x) PROVE Pool!Next
    <3>1. live' = live
      BY <2>4 DEF Queue_Push_Back
    <3>2. /\ WaitingNow = Waiting /\ WaitingNow' = Waiting' /\ ResultNow' = result'
          /\ (Usable <=> live) /\ (Usable' <=> live)
      BY <2>0, <2>4, <3>1, PoolSees, PoolSeesNext
    <3>3. \/ WaitingNow' = Append(WaitingNow, x) /\ Len(WaitingNow) < Size /\ Usable /\ ResultNow' = "ok"
          \/ WaitingNow' = WaitingNow /\ (Len(WaitingNow) = Size \/ ~Usable) /\ ResultNow' = "fail"
      BY <2>4, <3>2, PushImplements
    <3>4. Pool!Push(x)
      BY <3>3 DEF Pool!Push, WaitingNow, ResultNow
    <3> QED
      BY <3>2, <3>4 DEF Pool!Next
  <2>5. CASE zeroed /\ Queue_Pop_Front
    <3>1. live' = live
      BY <2>5 DEF Queue_Pop_Front
    <3>2. /\ WaitingNow = Waiting /\ WaitingNow' = Waiting' /\ ResultNow' = result'
          /\ (Usable <=> live) /\ (Usable' <=> live)
      BY <2>0, <2>5, <3>1, PoolSees, PoolSeesNext
    <3>3. \/ WaitingNow # <<>> /\ WaitingNow' = Tail(WaitingNow) /\ ResultNow' = "ok"
          \/ WaitingNow = <<>> /\ WaitingNow' = WaitingNow /\ ResultNow' = "fail"
      BY <2>5, <3>2, PopImplements
    <3>4. Pool!Pop
      BY <3>3 DEF Pool!Pop, WaitingNow, ResultNow
    <3> QED
      BY <3>2, <3>4 DEF Pool!Next
  <2>6. CASE zeroed /\ Queue_Free
    <3>1. ~live' /\ result' = result
      BY <2>6 DEF Queue_Free
    <3>2. ~Usable' /\ WaitingNow' = <<>> /\ ResultNow' = ResultNow
      BY <2>0, <2>6, <3>1, PoolSees, PoolSeesNext DEF Waiting
    <3> QED
      BY <3>2 DEF Pool!Next, Pool!Close, WaitingNow, ResultNow
  <2> QED
    BY <2>1, <2>2, <2>3, <2>4, <2>5, <2>6 DEF Next
<1> QED
  BY <1>1, <1>2, InvariantHolds, PTL DEF Spec, ImplementsPool, Pool!Spec

-----------------------------------------------------------------------------
(* The other headers.                                                      *)

\* A free list whose header reads as full when malloc returns it, with a head
\* that is no node, never takes a node and never gives one: no packet is ever
\* kept, and a request that waits for an answer ends the program or is sent
\* without a wait (Queue.c:66, 84, 110).
Refuses == Queue_Is_Full(FreeQ) /\ FreeQ.head \notin Node
THEOREM FullHeaderKeepsNothing ==
    Spec /\ Refuses => [](\A n \in Node : item[n] = NoItem)
<1> DEFINE Inv == Refuses /\ \A n \in Node : item[n] = NoItem
<1>1. Init /\ Refuses => Inv
  BY DEF Init
<1>2. Inv /\ [Next]_vars => Inv'
  <2> SUFFICES ASSUME Inv, [Next]_vars PROVE Inv'
    OBVIOUS
  <2>1. CASE UNCHANGED vars
    BY <2>1 DEF vars, Refuses, Queue_Is_Full
  <2>2. CASE Queue_Init
    BY <2>2 DEF Queue_Init, Ends, Refuses, Queue_Is_Full
  <2>3. ASSUME NEW x \in Items, Queue_Push_Back(x) PROVE Inv'
    <3>1. CanPop(FreeQ) => WildHead(FreeQ)
      BY DEF Refuses, WildHead
    <3> QED
      BY <2>3, <3>1 DEF Queue_Push_Back, Ends, Refuses, Queue_Is_Full
  <2>4. CASE Queue_Pop_Front
    BY <2>4 DEF Queue_Pop_Front, Ends, Refuses, Queue_Is_Full
  <2>5. CASE Queue_Free
    BY <2>5 DEF Queue_Free, Refuses, Queue_Is_Full
  <2> QED
    BY <2>1, <2>2, <2>3, <2>4, <2>5 DEF Next
<1> QED
  BY <1>1, <1>2, PTL DEF Spec
=============================================================================
