-------------------------- MODULE SelectLoop_proofs --------------------------
(***************************************************************************)
(* The dispatch of SelectLoop counts right, for any number of descriptors, *)
(* packets and lines: it never turns over nothing, and a pass in which     *)
(* nobody leaves and every handler counts reads each ready client once.    *)
(***************************************************************************)
EXTENDS SelectLoop, FiniteSetTheorems, SequenceTheorems, TLAPS

-----------------------------------------------------------------------------
(* What the helpers return.                                                *)

\* Deletion from a list leaves the other elements in order.
LEMMA RemoveAtShifts ==
    ASSUME NEW S, NEW list \in Seq(S), NEW d \in DOMAIN list
    PROVE  /\ RemoveAt(list, d) \in Seq(S)
           /\ Len(RemoveAt(list, d)) = Len(list) - 1
           /\ \A k \in 1..(Len(list) - 1) :
                 RemoveAt(list, d)[k] = list[IF k < d THEN k ELSE k + 1]
<1> DEFINE front == SubSeq(list, 1, d - 1)
           back == SubSeq(list, d + 1, Len(list))
<1>1. Len(list) \in Nat /\ d \in 1..Len(list) /\ DOMAIN list = 1..Len(list)
  OBVIOUS
<1>2. front \in Seq(S) /\ Len(front) = d - 1 /\ \A k \in 1..(d - 1) : front[k] = list[k]
  BY <1>1
<1>3. back \in Seq(S) /\ Len(back) = Len(list) - d
      /\ \A k \in 1..(Len(list) - d) : back[k] = list[d + k]
  <2> DEFINE m == d + 1
             n == Len(list)
  <2>1. m \in Int /\ n \in Int /\ m = d + 1 /\ m <= n + 1 /\ \A k \in m..n : list[k] \in S
    BY <1>1
  <2> HIDE DEF m, n
  <2>2. /\ SubSeq(list, m, n) \in Seq(S)
        /\ Len(SubSeq(list, m, n)) = IF m <= n THEN n - m + 1 ELSE 0
        /\ \A k \in 1..(n - m + 1) : SubSeq(list, m, n)[k] = list[m + k - 1]
    BY <2>1, SubSeqProperties
  <2>3. back = SubSeq(list, m, n) /\ n = Len(list)
    BY DEF m, n
  <2> HIDE DEF back
  <2> QED
    BY <1>1, <2>1, <2>2, <2>3
<1>4. RemoveAt(list, d) = front \o back
  BY DEF RemoveAt
<1> HIDE DEF front, back
<1>5. /\ front \o back \in Seq(S)
      /\ Len(front \o back) = Len(front) + Len(back)
      /\ \A k \in 1..(Len(front) + Len(back)) :
            (front \o back)[k] = IF k <= Len(front) THEN front[k] ELSE back[k - Len(front)]
  BY <1>2, <1>3, ConcatProperties
<1>6. ASSUME NEW k \in 1..(Len(list) - 1)
      PROVE  (front \o back)[k] = list[IF k < d THEN k ELSE k + 1]
  <2>1. CASE k < d
    <3>1. k \in 1..(d - 1) /\ k <= Len(front)
      BY <1>1, <1>2, <2>1
    <3> QED
      BY <1>1, <1>2, <1>3, <1>5, <2>1, <3>1
  <2>2. CASE ~(k < d)
    <3>1. k - Len(front) \in 1..(Len(list) - d) /\ d + (k - Len(front)) = k + 1
          /\ ~(k <= Len(front))
      BY <1>1, <1>2, <2>2
    <3>2. back[k - Len(front)] = list[k + 1]
      BY <1>3, <3>1
    <3>3. k \in 1..(Len(front) + Len(back))
      BY <1>1, <1>2, <1>3
    <3>4. (front \o back)[k] = back[k - Len(front)]
      BY <1>5, <3>1, <3>3
    <3> QED
      BY <2>2, <3>2, <3>4
  <2> QED
    BY <2>1, <2>2
<1> QED
  BY <1>1, <1>2, <1>3, <1>4, <1>5, <1>6

-----------------------------------------------------------------------------
(* The invariant: SomebodyLeft, and, as long as the pass is undisturbed,   *)
(* exactly which clients are still to be read.                             *)

ListOK ==
    /\ clientList \in Seq(Fds) /\ IsInjective(clientList)
    /\ conn \in [Fds -> {"none", "pending", "open"}]
    /\ \A f \in Clients : conn[f] = "open"
StreamsOK ==
    /\ input \in [Fds -> Seq(Kinds)]
    /\ partial \in [Fds -> BOOLEAN] /\ eof \in [Fds -> BOOLEAN]
LoopOK ==
    /\ pc \in {"select", "idle", "console", "prompt", "accept", "scan", "read", "stopped"}
    /\ reads \subseteq Fds \cup {"stdin", "listen"} /\ fdNum \in Int
    /\ i \in 1..(Len(clientList) + 2)
    /\ pc = "read" => i \in DOMAIN clientList /\ clientList[i] \in reads
    /\ times \in [Fds -> Nat] /\ upset \in BOOLEAN

Rested == i = 1 /\ times = [f \in Fds |-> 0] /\ upset = FALSE
Served == reads \cap Fds \subseteq Clients /\ \A f \in reads \cap Fds : Readable(f)
Unread == {f \in reads \cap Fds : times[f] = 0}
Undisturbed ==
    /\ reads \cap Fds \subseteq Clients
    /\ fdNum = Cardinality(Unread)
    /\ \A j \in DOMAIN clientList :
          clientList[j] \in reads => times[clientList[j]] = IF j < i THEN 1 ELSE 0
    /\ \A f \in Unread : Readable(f)

BeforePass ==
    /\ ~InPass => Rested
    /\ pc \in {"console", "prompt"} =>
          Served /\ "stdin" \in reads /\ fdNum = Cardinality(reads)
    /\ pc = "accept" =>
          Served /\ "listen" \in reads /\ fdNum = Cardinality(reads \ {"stdin"})
WithinPass == InPass => SomebodyLeft /\ (~upset => Undisturbed)
IInv == ListOK /\ StreamsOK /\ LoopOK /\ BeforePass /\ WithinPass

\* Every element of the list is a descriptor, and the read set is finite.
LEMMA SetsAreFinite ==
    ASSUME ListOK, LoopOK
    PROVE  /\ Clients \subseteq Fds /\ IsFiniteSet(Clients)
           /\ IsFiniteSet(reads) /\ IsFiniteSet(reads \cap Fds)
           /\ \A S : S \subseteq Fds => IsFiniteSet(S)
<1>1. Clients \subseteq Fds
  BY DEF ListOK, Clients, Range
<1>2. IsFiniteSet(Fds)
  BY LoopAssumption
<1>3. IsFiniteSet(Fds \cup {"stdin"})
  BY <1>2, FS_AddElement
<1>4. IsFiniteSet((Fds \cup {"stdin"}) \cup {"listen"})
  BY <1>3, FS_AddElement
<1>5. reads \subseteq (Fds \cup {"stdin"}) \cup {"listen"}
  BY DEF LoopOK
<1>6. IsFiniteSet(reads)
  BY <1>4, <1>5, FS_Subset
<1>7. \A S : S \subseteq Fds => IsFiniteSet(S)
  BY <1>2, FS_Subset
<1> QED
  BY <1>1, <1>6, <1>7

\* The pass begins: what is ready of the clients is unread, and counted.
LEMMA PassBegins ==
    ASSUME ListOK', StreamsOK', Served', Rested', reads' \subseteq Fds \cup {"stdin", "listen"},
           pc' = "scan", fdNum' = Cardinality(reads' \cap Fds)
    PROVE  IInv'
<1>1. Clients' \subseteq Fds
  BY DEF ListOK, Clients, Range
<1>2. IsFiniteSet(reads' \cap Fds) /\ Cardinality(reads' \cap Fds) \in Nat
  BY LoopAssumption, FS_Subset, FS_CardinalityType
<1>3. reads' \cap Clients' = reads' \cap Fds /\ Unread' = reads' \cap Fds
  BY <1>1 DEF Served, Rested, Unread
<1>4. LoopOK'
  <2>1. Len(clientList') \in Nat
    BY DEF ListOK
  <2>2. i' \in 1..(Len(clientList') + 2)
    BY <2>1 DEF Rested
  <2>3. times' \in [Fds -> Nat] /\ upset' \in BOOLEAN
    BY DEF Rested
  <2> QED
    BY <1>2, <2>2, <2>3 DEF LoopOK
<1>5. SomebodyLeft'
  BY <1>2, <1>3 DEF SomebodyLeft
<1>6. \A j \in DOMAIN clientList' : ~(j < i') /\ clientList'[j] \in Fds
  BY DEF ListOK, Rested
<1>7. Undisturbed'
  BY <1>3, <1>6 DEF Undisturbed, Served, Rested
<1> QED
  BY <1>4, <1>5, <1>7 DEF IInv, BeforePass, WithinPass, InPass

\* The top of the loop forgets the pass.
LEMMA TopKeeps ==
    ASSUME ListOK', StreamsOK', NEW where \in {"select", "idle", "stopped"}, Top(where)
    PROVE  IInv'
<1>1. pc' = where /\ ~(InPass')
  BY DEF Top, InPass
<1>2. Rested'
  BY DEF Top, Rested
<1>3. LoopOK'
  <2>1. Len(clientList') \in Nat
    BY DEF ListOK
  <2>2. i' \in 1..(Len(clientList') + 2)
    BY <2>1, <1>2 DEF Rested
  <2>3. times' \in [Fds -> Nat] /\ upset' \in BOOLEAN
    BY <1>2 DEF Rested
  <2> QED
    BY <1>1, <2>2, <2>3 DEF LoopOK, Top
<1> QED
  BY <1>1, <1>2, <1>3 DEF IInv, BeforePass, WithinPass

\* The dispatch starts over the descriptors that are left.
LEMMA DispatchKeeps ==
    ASSUME ListOK', StreamsOK', reads \subseteq Fds \cup {"stdin", "listen"},
           Rested, (\A f \in reads \cap Fds : f \in Clients' /\ Readable(f)'),
           Dispatch(Cardinality(reads \cap Fds))
    PROVE  IInv'
<1>1. CASE Cardinality(reads \cap Fds) > 0
  <2>1. pc' = "scan" /\ i' = 1 /\ fdNum' = Cardinality(reads \cap Fds)
        /\ reads' = reads /\ times' = times /\ upset' = upset
    BY <1>1 DEF Dispatch
  <2>2. Rested' /\ Served'
    BY <2>1 DEF Rested, Served
  <2> QED
    BY <2>1, <2>2, PassBegins
<1>2. CASE ~(Cardinality(reads \cap Fds) > 0)
  BY <1>2, TopKeeps DEF Dispatch
<1> QED
  BY <1>1, <1>2

\* One descriptor fewer in the read set.
LEMMA OneFewer ==
    ASSUME NEW S, IsFiniteSet(S), NEW e \in S
    PROVE  Cardinality(S) \in Nat /\ Cardinality(S \ {e}) = Cardinality(S) - 1
BY FS_RemoveElement, FS_CardinalityType

-----------------------------------------------------------------------------
(* Each step keeps the invariant.                                          *)

\* What leaves the loop alone keeps the invariant, when who was readable
\* still is.
LEMMA OutsideKeeps ==
    ASSUME IInv, UNCHANGED loopVars, ListOK', StreamsOK',
           \A f \in Fds : Readable(f) => Readable(f)'
    PROVE  IInv'
<1>1. LoopOK'
  BY DEF IInv, LoopOK, loopVars
<1>2. UNCHANGED <<pc, reads, fdNum, i, times, upset, clientList>> /\ Clients' = Clients
  BY DEF loopVars, Clients, Range
<1>3. Served => Served'
  BY <1>2 DEF Served
<1>4. BeforePass'
  BY <1>2, <1>3 DEF IInv, BeforePass, Rested, InPass
<1>5. Unread' = Unread
  BY <1>2 DEF Unread
<1>6. Undisturbed => Undisturbed'
  <2>1. Unread \subseteq Fds
    BY DEF Unread
  <2> QED
    BY <1>2, <1>5, <2>1 DEF Undisturbed
<1>7. WithinPass'
  BY <1>2, <1>6 DEF IInv, WithinPass, InPass, SomebodyLeft
<1> QED
  BY <1>1, <1>4, <1>7 DEF IInv

\* A stuttering step changes nothing.
LEMMA StutterKeeps ==
    ASSUME IInv, UNCHANGED vars
    PROVE  IInv'
<1>1. UNCHANGED loopVars /\ UNCHANGED <<clientList, conn, input, partial, eof>>
  BY DEF vars, loopVars, streams
<1>2. ListOK' /\ StreamsOK'
  BY <1>1 DEF IInv, ListOK, StreamsOK, Clients, Range
<1>3. \A f \in Fds : Readable(f) => Readable(f)'
  BY <1>1 DEF Readable
<1> QED
  BY <1>1, <1>2, <1>3, OutsideKeeps

\* Clients, the operator and the signal keep it.
LEMMA EnvironmentKeeps ==
    ASSUME IInv, Outside
    PROVE  IInv'
<1>1. UNCHANGED loopVars /\ clientList' = clientList
  BY DEF Outside, Connect, Arrive, Close, Send, Type, Interrupt, loopVars
<1>2. ListOK'
  <2>1. ASSUME NEW f \in Fds, Connect(f) PROVE ListOK'
    BY <1>1, <2>1 DEF Connect, IInv, ListOK, Clients, Range
  <2>2. (\A f \in Fds : ~Connect(f)) => conn' = conn
    BY DEF Outside, Arrive, Close, Send, Type, Interrupt
  <2>3. conn' = conn => ListOK'
    BY <1>1 DEF IInv, ListOK, Clients, Range
  <2> QED
    BY <2>1, <2>2, <2>3
<1>3. StreamsOK' /\ \A g \in Fds : Readable(g) => Readable(g)'
  <2>1. ASSUME NEW f \in Fds, Arrive(f) \/ Close(f)
        PROVE  StreamsOK' /\ \A g \in Fds : Readable(g) => Readable(g)'
    BY <2>1 DEF Arrive, Close, IInv, StreamsOK, Readable
  <2>2. ASSUME NEW f \in Fds, NEW kind \in Kinds, Send(f, kind)
        PROVE  StreamsOK' /\ \A g \in Fds : Readable(g) => Readable(g)'
    <3>1. input[f] \in Seq(Kinds)
      BY DEF IInv, StreamsOK
    <3>2. Append(input[f], kind) \in Seq(Kinds) /\ Append(input[f], kind) # <<>>
      BY <3>1
    <3> QED
      BY <2>2, <3>2 DEF Send, IInv, StreamsOK, Readable
  <2>3. UNCHANGED streams => StreamsOK' /\ \A g \in Fds : Readable(g) => Readable(g)'
    BY DEF IInv, StreamsOK, Readable, streams
  <2> QED
    BY <2>1, <2>2, <2>3 DEF Outside, Connect, Type, Interrupt
<1> QED
  BY <1>1, <1>2, <1>3, OutsideKeeps

\* Select starts a pass over what it found ready.
LEMMA SelectKeeps ==
    ASSUME IInv, Select
    PROVE  IInv'
<1>1. UNCHANGED <<clientList, conn, input, partial, eof>>
  BY DEF Select, streams
<1>2. ListOK' /\ StreamsOK'
  BY <1>1 DEF IInv, ListOK, StreamsOK, Clients, Range
<1>3. CASE Signalled \/ Ready = {}
  BY <1>2, <1>3, TopKeeps DEF Select
<1>4. CASE ~Signalled /\ Ready # {}
  <2>1. reads' = Ready /\ fdNum' = Cardinality(Ready) /\ UNCHANGED <<i, times, upset>>
        /\ pc' = IF "stdin" \in Ready THEN "console"
                 ELSE IF "listen" \in Ready THEN "accept" ELSE "scan"
    BY <1>4 DEF Select
  <2>2. Clients \subseteq Fds /\ Clients' = Clients
    BY <1>1 DEF IInv, ListOK, Clients, Range
  <2>3. Ready \subseteq Fds \cup {"stdin", "listen"} /\ Ready \cap Fds \subseteq Clients
        /\ \A f \in Ready \cap Fds : Readable(f)
    BY <2>2, LoopAssumption DEF Ready
  <2>4. \A f \in Fds : Readable(f) => Readable(f)'
    BY <1>1 DEF Readable
  <2>5. Served' /\ Rested'
    <3>1. Rested
      BY DEF Select, IInv, BeforePass, InPass
    <3> QED
      BY <2>1, <2>2, <2>3, <2>4, <3>1 DEF Served, Rested
  <2>6. CASE "stdin" \notin Ready /\ "listen" \notin Ready
    <3>1. Ready \cap Fds = Ready
      BY <2>3, <2>6
    <3> QED
      BY <1>2, <2>1, <2>3, <2>5, <2>6, <3>1, PassBegins
  <2>7. CASE "stdin" \in Ready \/ "listen" \in Ready
    <3>1. pc' \in {"console", "accept"} /\ ~(InPass')
      BY <2>1, <2>7 DEF InPass
    <3>2. IsFiniteSet(Ready) /\ Cardinality(Ready) \in Nat
      <4>1. IsFiniteSet((Fds \cup {"stdin"}) \cup {"listen"})
        BY LoopAssumption, FS_AddElement
      <4>2. Ready \subseteq (Fds \cup {"stdin"}) \cup {"listen"}
        BY <2>3
      <4> QED
        BY <4>1, <4>2, FS_Subset, FS_CardinalityType
    <3>3. LoopOK'
      BY <1>1, <2>1, <2>3, <3>1, <3>2 DEF IInv, LoopOK
    <3>4. pc' = "accept" => Ready \ {"stdin"} = Ready
      BY <2>1, <2>7
    <3>5. pc' = "accept" => "listen" \in Ready
      BY <2>1, <2>7
    <3>6. pc' = "console" => "stdin" \in Ready
      BY <2>1
    <3>7. BeforePass'
      BY <2>1, <2>5, <3>1, <3>4, <3>5, <3>6 DEF BeforePass
    <3> QED
      BY <1>2, <3>1, <3>3, <3>7 DEF IInv, WithinPass
  <2> QED
    BY <2>6, <2>7
<1> QED
  BY <1>3, <1>4

\* The idle branch goes back to the top.
LEMMA IdleKeeps ==
    ASSUME IInv, Idle
    PROVE  IInv'
<1>1. ListOK' /\ StreamsOK'
  BY DEF Idle, IInv, ListOK, StreamsOK, Clients, Range, streams
<1> QED
  BY <1>1, TopKeeps DEF Idle

\* After the console the pass goes on with one descriptor fewer.
LEMMA AfterStdinKeeps ==
    ASSUME IInv, pc \in {"console", "prompt"}, AfterStdin,
           UNCHANGED <<clientList, conn, input, partial, eof>>
    PROVE  IInv'
<1>1. ListOK' /\ StreamsOK'
  BY DEF IInv, ListOK, StreamsOK, Clients, Range
<1>2. Rested /\ Served /\ "stdin" \in reads /\ fdNum = Cardinality(reads)
  BY DEF IInv, BeforePass, InPass
<1>3. Clients' = Clients /\ \A f \in Fds : Readable(f) => Readable(f)'
  BY DEF Clients, Range, Readable
<1>4. IsFiniteSet(reads) /\ reads \subseteq Fds \cup {"stdin", "listen"}
  BY SetsAreFinite DEF IInv, LoopOK
<1>5. fdNum - 1 = Cardinality(reads \ {"stdin"}) /\ fdNum - 1 \in Int
  BY <1>2, <1>4, OneFewer
<1>6. CASE "listen" \in reads
  <2>1. pc' = "accept" /\ fdNum' = Cardinality(reads \ {"stdin"})
        /\ UNCHANGED <<reads, i, times, upset>>
    BY <1>5, <1>6 DEF AfterStdin
  <2>2. Served' /\ Rested'
    BY <1>2, <1>3, <2>1 DEF Served, Rested
  <2>3. LoopOK'
    BY <1>5, <2>1 DEF IInv, LoopOK
  <2>4. BeforePass'
    BY <1>6, <2>1, <2>2 DEF BeforePass
  <2> QED
    BY <1>1, <2>1, <2>3, <2>4 DEF IInv, WithinPass, InPass
<1>7. CASE "listen" \notin reads
  <2>1. reads \ {"stdin"} = reads \cap Fds
    BY <1>4, <1>7, LoopAssumption
  <2>2. Dispatch(Cardinality(reads \cap Fds))
    BY <1>5, <1>7, <2>1 DEF AfterStdin
  <2>3. \A f \in reads \cap Fds : f \in Clients' /\ Readable(f)'
    BY <1>2, <1>3 DEF Served
  <2> QED
    BY <1>1, <1>2, <1>4, <2>2, <2>3, DispatchKeeps
<1> QED
  BY <1>6, <1>7

\* A line of the console is a command, or the first of two or three.
LEMMA ConsoleKeeps ==
    ASSUME IInv, Console \/ Prompt
    PROVE  IInv'
<1>1. UNCHANGED <<clientList, conn, input, partial, eof>> /\ pc \in {"console", "prompt"}
  BY DEF Console, Prompt, streams
<1>2. CASE AfterStdin
  BY <1>1, <1>2, AfterStdinKeeps
<1>3. CASE pc' = "prompt" /\ UNCHANGED <<fdNum, reads, i, times, upset>>
  <2>1. ListOK' /\ StreamsOK' /\ LoopOK'
    BY <1>1, <1>3 DEF IInv, ListOK, StreamsOK, LoopOK, Clients, Range
  <2>2. Clients' = Clients /\ \A f \in Fds : Readable(f) => Readable(f)'
    BY <1>1 DEF Clients, Range, Readable
  <2>3. Rested' /\ Served' /\ "stdin" \in reads' /\ fdNum' = Cardinality(reads')
    BY <1>1, <1>3, <2>2 DEF IInv, BeforePass, InPass, Rested, Served
  <2> QED
    BY <1>3, <2>1, <2>3 DEF IInv, BeforePass, WithinPass, InPass
<1> QED
  BY <1>2, <1>3 DEF Console, Prompt

\* A new connection is listed behind the others, or not at all.
LEMMA AcceptKeeps ==
    ASSUME IInv, Accept
    PROVE  IInv'
<1>1. PICK f \in Fds : /\ conn[f] = "pending"
                       /\ conn' = [conn EXCEPT ![f] = "open"]
                       /\ clientList' \in {Append(clientList, f), clientList}
  BY DEF Accept
<1>2. UNCHANGED <<input, partial, eof>> /\ pc = "accept"
  BY DEF Accept, streams
<1>3. f \notin Clients /\ Clients \subseteq Fds
  BY <1>1 DEF IInv, ListOK, Clients, Range
<1>4. /\ clientList' \in Seq(Fds) /\ IsInjective(clientList')
      /\ Clients \subseteq Clients' /\ Clients' \subseteq Clients \cup {f}
  <2>1. CASE clientList' = clientList
    BY <2>1 DEF IInv, ListOK, Clients, Range
  <2>2. CASE clientList' = Append(clientList, f)
    <3>1. clientList \in Seq(Fds) /\ IsInjective(clientList) /\ Len(clientList) \in Nat
      BY DEF IInv, ListOK
    <3>2. /\ clientList' \in Seq(Fds) /\ Len(clientList') = Len(clientList) + 1
          /\ \A k \in 1..Len(clientList) : clientList'[k] = clientList[k]
          /\ clientList'[Len(clientList) + 1] = f
      BY <2>2, <3>1, AppendProperties
    <3>3. DOMAIN clientList = 1..Len(clientList)
          /\ DOMAIN clientList' = 1..(Len(clientList) + 1)
      BY <3>1, <3>2
    <3>4. \A k \in 1..Len(clientList) : clientList[k] # f
      BY <1>3, <3>3 DEF Clients, Range
    <3>5. IsInjective(clientList')
      BY <3>1, <3>2, <3>3, <3>4 DEF IsInjective
    <3>6. Clients \subseteq Clients' /\ Clients' \subseteq Clients \cup {f}
      BY <3>1, <3>2, <3>3 DEF Clients, Range
    <3> QED
      BY <3>2, <3>5, <3>6
  <2> QED
    BY <1>1, <2>1, <2>2
<1>5. ListOK'
  <2>1. conn' \in [Fds -> {"none", "pending", "open"}]
    BY <1>1 DEF IInv, ListOK
  <2>2. \A g \in Clients' : conn'[g] = "open"
    BY <1>1, <1>3, <1>4 DEF IInv, ListOK
  <2> QED
    BY <1>4, <2>1, <2>2 DEF ListOK
<1>6. StreamsOK' /\ \A g \in Fds : Readable(g) => Readable(g)'
  BY <1>2 DEF IInv, StreamsOK, Readable
<1>7. CASE Len(clientList') > Limit
  BY <1>5, <1>6, <1>7, TopKeeps DEF Accept
<1>8. CASE ~(Len(clientList') > Limit)
  <2>1. Rested /\ Served /\ "listen" \in reads /\ fdNum = Cardinality(reads \ {"stdin"})
    BY <1>2 DEF IInv, BeforePass, InPass
  <2>2. IsFiniteSet(reads) /\ reads \subseteq Fds \cup {"stdin", "listen"}
    BY SetsAreFinite DEF IInv, LoopOK
  <2>3. IsFiniteSet(reads \ {"stdin"}) /\ "listen" \in reads \ {"stdin"}
    BY <2>1, <2>2, FS_Subset
  <2>4. fdNum - 1 = Cardinality((reads \ {"stdin"}) \ {"listen"})
    BY <2>1, <2>3, OneFewer
  <2>5. (reads \ {"stdin"}) \ {"listen"} = reads \cap Fds
    BY <2>2, LoopAssumption
  <2>6. Dispatch(Cardinality(reads \cap Fds))
    BY <1>8, <2>4, <2>5 DEF Accept
  <2>7. \A g \in reads \cap Fds : g \in Clients' /\ Readable(g)'
    BY <1>4, <1>6, <2>1 DEF Served
  <2> QED
    BY <1>5, <1>6, <2>1, <2>2, <2>6, <2>7, DispatchKeeps
<1> QED
  BY <1>7, <1>8

\* When nothing of an undisturbed pass is ahead, nothing is left.
LEMMA NothingAhead ==
    ASSUME ListOK, LoopOK, Undisturbed, pc = "scan",
           \A j \in i..Len(clientList) : clientList[j] \notin reads
    PROVE  fdNum = 0 /\ \A f \in reads \cap Fds : times[f] = 1
<1>1. ASSUME NEW f \in reads \cap Fds
      PROVE  times[f] = 1
  <2>1. PICK j \in DOMAIN clientList : clientList[j] = f
    BY DEF Undisturbed, Clients, Range
  <2>2. DOMAIN clientList = 1..Len(clientList) /\ Len(clientList) \in Nat /\ i \in Int
    BY DEF ListOK, LoopOK
  <2>3. ~(j \in i..Len(clientList))
    BY <2>1
  <2>4. j < i
    BY <2>2, <2>3
  <2> QED
    BY <2>1, <2>4 DEF Undisturbed
<1>2. Unread = {}
  BY <1>1 DEF Unread
<1> QED
  BY <1>1, <1>2, FS_EmptySet DEF Undisturbed

\* The scan finds the next client of the read set, or turns over.
LEMMA ScanKeeps ==
    ASSUME IInv, Scan
    PROVE  IInv'
<1> DEFINE ahead == {j \in i..Len(clientList) : clientList[j] \in reads}
<1>1. UNCHANGED <<clientList, conn, input, partial, eof>> /\ pc = "scan"
  BY DEF Scan, streams
<1>2. ListOK' /\ StreamsOK'
  BY <1>1 DEF IInv, ListOK, StreamsOK, Clients, Range
<1>3. Clients' = Clients /\ \A f \in Fds : Readable(f) => Readable(f)'
  BY <1>1 DEF Clients, Range, Readable
<1>4. SomebodyLeft /\ fdNum <= Cardinality(reads \cap Clients) /\ (~upset => Undisturbed)
  BY <1>1 DEF IInv, WithinPass, InPass, SomebodyLeft
<1>5. DOMAIN clientList = 1..Len(clientList) /\ Len(clientList) \in Nat
      /\ i \in 1..(Len(clientList) + 2)
  BY DEF IInv, ListOK, LoopOK
<1>6. CASE ahead # {}
  <2>1. /\ pc' = "read" /\ UNCHANGED <<fdNum, reads, times, upset>>
        /\ \E first \in ahead : (\A j \in ahead : first <= j) /\ i' = first
    BY <1>6 DEF Scan
  <2>2. i' \in i..Len(clientList) /\ clientList[i'] \in reads
        /\ \A j \in i..Len(clientList) : clientList[j] \in reads => i' <= j
    BY <2>1
  <2>3. i' \in DOMAIN clientList' /\ i' \in 1..(Len(clientList') + 2)
    BY <1>1, <1>5, <2>2
  <2>4. LoopOK'
    BY <1>1, <2>1, <2>2, <2>3 DEF IInv, LoopOK
  <2>5. SomebodyLeft'
    BY <1>3, <1>4, <2>1 DEF SomebodyLeft
  <2>6. Unread' = Unread
    BY <2>1 DEF Unread
  <2>7. ASSUME Undisturbed PROVE Undisturbed'
    <3>1. ASSUME NEW j \in DOMAIN clientList, clientList[j] \in reads
          PROVE  times[clientList[j]] = IF j < i' THEN 1 ELSE 0
      <4>1. times[clientList[j]] = IF j < i THEN 1 ELSE 0
        BY <2>7, <3>1 DEF Undisturbed
      <4>2. j < i <=> j < i'
        BY <1>5, <2>2, <3>1
      <4> QED
        BY <4>1, <4>2
    <3>2. \A j \in DOMAIN clientList' :
             clientList'[j] \in reads' => times'[clientList'[j]] = IF j < i' THEN 1 ELSE 0
      BY <1>1, <2>1, <3>1
    <3>3. reads' \cap Fds \subseteq Clients' /\ fdNum' = Cardinality(Unread')
      BY <1>3, <2>1, <2>6, <2>7 DEF Undisturbed
    <3>4. \A f \in Unread' : Readable(f)'
      BY <1>3, <2>6, <2>7 DEF Undisturbed, Unread
    <3> QED
      BY <3>2, <3>3, <3>4 DEF Undisturbed
  <2>8. WithinPass'
    BY <1>4, <2>1, <2>5, <2>7 DEF WithinPass
  <2>9. BeforePass'
    BY <2>1 DEF BeforePass, InPass
  <2> QED
    BY <1>2, <2>4, <2>8, <2>9 DEF IInv
<1>7. CASE ahead = {}
  <2>1. Dispatch(fdNum)
    BY <1>7 DEF Scan
  <2>2. \A j \in i..Len(clientList) : clientList[j] \notin reads
    BY <1>7
  <2>3. CASE ~(fdNum > 0)
    BY <1>2, <2>1, <2>3, TopKeeps DEF Dispatch
  <2>4. CASE fdNum > 0
    <3>1. pc' = "scan" /\ i' = 1 /\ UNCHANGED <<fdNum, reads, times, upset>>
      BY <2>1, <2>4 DEF Dispatch
    <3>2. upset
      BY <1>1, <1>4, <2>2, <2>4, NothingAhead DEF IInv
    <3>3. LoopOK'
      BY <1>1, <1>5, <3>1 DEF IInv, LoopOK
    <3>4. SomebodyLeft'
      BY <1>3, <1>4, <3>1 DEF SomebodyLeft
    <3>5. WithinPass' /\ BeforePass'
      BY <3>1, <3>2, <3>4 DEF WithinPass, BeforePass, InPass
    <3> QED
      BY <1>2, <3>3, <3>5 DEF IInv
  <2> QED
    BY <2>3, <2>4
<1> QED
  BY <1>6, <1>7

\* Deletion takes one client off the list, and nobody else.
LEMMA WithoutOne ==
    ASSUME ListOK, NEW d \in DOMAIN clientList, clientList' = Without(clientList, d)
    PROVE  /\ clientList' \in Seq(Fds) /\ IsInjective(clientList')
           /\ Len(clientList') = Len(clientList) - 1
           /\ Clients' = Clients \ {clientList[d]}
<1>1. clientList \in Seq(Fds) /\ IsInjective(clientList)
  BY DEF ListOK
<1>2. DOMAIN clientList = 1..Len(clientList) /\ Len(clientList) \in Nat /\ d \in 1..Len(clientList)
  BY <1>1
<1>3. /\ clientList' \in Seq(Fds) /\ Len(clientList') = Len(clientList) - 1
      /\ \A k \in 1..(Len(clientList) - 1) :
            clientList'[k] = clientList[IF k < d THEN k ELSE k + 1]
  BY <1>1, RemoveAtShifts DEF Without
<1>4. DOMAIN clientList' = 1..(Len(clientList) - 1)
  BY <1>3
<1>5. IsInjective(clientList')
  <2> SUFFICES ASSUME NEW a \in DOMAIN clientList', NEW b \in DOMAIN clientList',
                      clientList'[a] = clientList'[b]
               PROVE  a = b
    BY DEF IsInjective
  <2> DEFINE from(k) == IF k < d THEN k ELSE k + 1
  <2>1. from(a) \in DOMAIN clientList /\ from(b) \in DOMAIN clientList
        /\ clientList[from(a)] = clientList[from(b)]
    BY <1>2, <1>3, <1>4
  <2>2. from(a) = from(b)
    BY <1>1, <2>1 DEF IsInjective
  <2> QED
    BY <1>2, <1>4, <2>2
<1>6. Clients' \subseteq Clients \ {clientList[d]}
  <2> SUFFICES ASSUME NEW k \in DOMAIN clientList'
               PROVE  clientList'[k] \in Clients \ {clientList[d]}
    BY DEF Clients, Range
  <2> DEFINE m == IF k < d THEN k ELSE k + 1
  <2>1. m \in DOMAIN clientList /\ m # d /\ clientList'[k] = clientList[m]
    BY <1>2, <1>3, <1>4
  <2>2. clientList[m] # clientList[d]
    BY <1>1, <2>1 DEF IsInjective
  <2> QED
    BY <2>1, <2>2 DEF Clients, Range
<1>7. ASSUME NEW m \in DOMAIN clientList, clientList[m] # clientList[d]
      PROVE  clientList[m] \in Clients'
  <2> DEFINE k == IF m < d THEN m ELSE m - 1
  <2>1. k \in DOMAIN clientList' /\ clientList'[k] = clientList[m]
    BY <1>2, <1>3, <1>4, <1>7
  <2> QED
    BY <2>1 DEF Clients, Range
<1>8. Clients \ {clientList[d]} \subseteq Clients'
  BY <1>7 DEF Clients, Range
<1> QED
  BY <1>3, <1>5, <1>6, <1>8

\* What the dispatch knows when it reads a client.
LEMMA ReadsAClient ==
    ASSUME IInv, pc = "read"
    PROVE  /\ clientList[i] \in reads \cap Clients /\ clientList[i] \in Fds
           /\ ~upset => clientList[i] \in Unread /\ Readable(clientList[i])
           /\ fdNum <= Cardinality(reads \cap Clients)
           /\ IsFiniteSet(reads \cap Clients) /\ IsFiniteSet(Unread)
<1>1. i \in DOMAIN clientList /\ clientList[i] \in reads /\ clientList[i] \in Clients
  BY DEF IInv, LoopOK, Clients, Range
<1>2. Clients \subseteq Fds /\ reads \cap Clients \subseteq Fds /\ Unread \subseteq Fds
  BY DEF IInv, ListOK, Clients, Range, Unread
<1>3. IsFiniteSet(reads \cap Clients) /\ IsFiniteSet(Unread)
  BY <1>2, LoopAssumption, FS_Subset
<1>4. fdNum <= Cardinality(reads \cap Clients) /\ (~upset => Undisturbed)
  BY DEF IInv, WithinPass, InPass, SomebodyLeft
<1>5. ASSUME ~upset PROVE clientList[i] \in Unread /\ Readable(clientList[i])
  <2>1. times[clientList[i]] = 0
    BY <1>1, <1>4, <1>5 DEF Undisturbed, IInv, LoopOK
  <2>2. clientList[i] \in Unread
    BY <1>1, <1>2, <2>1 DEF Unread
  <2> QED
    BY <1>4, <1>5, <2>2 DEF Undisturbed
<1> QED
  BY <1>1, <1>2, <1>3, <1>4, <1>5

\* A read that leaves the list alone: one client fewer to read, or, when the
\* handler does not count, the pass is upset.
LEMMA ReadInPlaceKeeps ==
    ASSUME IInv, Read, NEW f \in Fds, f = clientList[i],
           UNCHANGED <<clientList, conn, eof>>, upset' \in BOOLEAN,
           fdNum' \in {fdNum, fdNum - 1},
           ~upset' => ~upset /\ fdNum' = fdNum - 1,
           StreamsOK', \A g \in Fds \ {f} : Readable(g) => Readable(g)'
    PROVE  IInv'
<1>1. pc = "read" /\ pc' = "scan" /\ i' = i + 1 /\ reads' = reads
      /\ times' = [times EXCEPT ![f] = IF @ = 2 THEN 2 ELSE @ + 1]
  BY DEF Read
<1>2. ListOK' /\ Clients' = Clients
  BY DEF IInv, ListOK, Clients, Range
<1>3. /\ f \in reads \cap Clients /\ fdNum <= Cardinality(reads \cap Clients)
      /\ IsFiniteSet(reads \cap Clients) /\ IsFiniteSet(Unread)
      /\ ~upset => f \in Unread
  BY <1>1, ReadsAClient
<1>4. i \in 1..Len(clientList) /\ Len(clientList) \in Nat /\ DOMAIN clientList = 1..Len(clientList)
      /\ times \in [Fds -> Nat] /\ fdNum \in Int
  BY <1>1 DEF IInv, ListOK, LoopOK
<1>5. times' \in [Fds -> Nat] /\ \A g \in Fds \ {f} : times'[g] = times[g]
  BY <1>1, <1>4
<1>6. LoopOK'
  <2>1. i' \in 1..(Len(clientList') + 2) /\ fdNum' \in Int
    BY <1>1, <1>4
  <2> QED
    BY <1>1, <1>5, <2>1 DEF IInv, LoopOK
<1>7. SomebodyLeft'
  <2>1. fdNum' <= fdNum /\ Cardinality(reads \cap Clients) \in Nat
    BY <1>3, <1>4, FS_CardinalityType
  <2>2. fdNum' <= Cardinality(reads \cap Clients) /\ reads' \cap Clients' = reads \cap Clients
    BY <1>1, <1>2, <1>3, <1>4, <2>1
  <2> QED
    BY <2>2 DEF SomebodyLeft
<1>8. ASSUME ~upset' PROVE Undisturbed'
  <2>1. Undisturbed /\ f \in Unread /\ fdNum' = fdNum - 1
    BY <1>1, <1>3, <1>8 DEF IInv, WithinPass, InPass
  <2>2. times[f] = 0 /\ times'[f] = 1
    BY <1>1, <1>4, <2>1 DEF Unread
  <2>3. Unread' = Unread \ {f}
    BY <1>1, <1>5, <2>2 DEF Unread
  <2>4. fdNum' = Cardinality(Unread')
    BY <1>3, <2>1, <2>3, OneFewer DEF Undisturbed
  <2>5. ASSUME NEW j \in DOMAIN clientList, clientList[j] \in reads
        PROVE  times'[clientList[j]] = IF j < i + 1 THEN 1 ELSE 0
    <3>1. CASE j = i
      BY <2>2, <3>1, <1>4
    <3>2. CASE j # i
      <4>1. clientList[j] \in Fds \ {f}
        <5>1. IsInjective(clientList) /\ clientList \in Seq(Fds) /\ i \in DOMAIN clientList
          BY <1>4 DEF IInv, ListOK
        <5>2. clientList[j] # clientList[i] /\ clientList[j] \in Fds
          BY <3>2, <5>1 DEF IsInjective
        <5> QED
          BY <5>2
      <4>2. times'[clientList[j]] = IF j < i THEN 1 ELSE 0
        BY <1>5, <2>1, <2>5, <4>1 DEF Undisturbed
      <4>3. j < i <=> j < i + 1
        BY <1>4, <3>2
      <4> QED
        BY <4>2, <4>3
    <3> QED
      BY <3>1, <3>2
  <2>6. \A j \in DOMAIN clientList' :
           clientList'[j] \in reads' => times'[clientList'[j]] = IF j < i' THEN 1 ELSE 0
    BY <1>1, <2>5
  <2>7. \A g \in Unread' : Readable(g)'
    BY <2>1, <2>3 DEF Undisturbed, Unread
  <2>8. reads' \cap Fds \subseteq Clients'
    BY <1>1, <1>2, <2>1 DEF Undisturbed
  <2> QED
    BY <2>4, <2>6, <2>7, <2>8 DEF Undisturbed
<1> QED
  BY <1>1, <1>2, <1>6, <1>7, <1>8 DEF IInv, BeforePass, WithinPass, InPass

\* A client that leaves takes itself off the read set's clients and off fdNum.
LEMMA LeaveKeeps ==
    ASSUME IInv, Read, NEW f \in Fds, f = clientList[i], Handled(f, "leave")
    PROVE  IInv'
<1>1. pc = "read" /\ pc' = "scan" /\ i' = i + 1 /\ reads' = reads
      /\ times' = [times EXCEPT ![f] = IF @ = 2 THEN 2 ELSE @ + 1]
  BY DEF Read
<1>2. /\ clientList' = Without(clientList, i) /\ conn' = [conn EXCEPT ![f] = "none"]
      /\ input' = [input EXCEPT ![f] = <<>>] /\ partial' = [partial EXCEPT ![f] = FALSE]
      /\ eof' = [eof EXCEPT ![f] = FALSE] /\ fdNum' = fdNum - 1 /\ upset' = TRUE
  BY DEF Handled, Counted
<1>3. i \in 1..Len(clientList) /\ Len(clientList) \in Nat /\ DOMAIN clientList = 1..Len(clientList)
      /\ times \in [Fds -> Nat] /\ fdNum \in Int
  BY <1>1 DEF IInv, ListOK, LoopOK
<1>4. /\ clientList' \in Seq(Fds) /\ IsInjective(clientList')
      /\ Len(clientList') = Len(clientList) - 1 /\ Clients' = Clients \ {f}
  BY <1>2, <1>3, WithoutOne DEF IInv
<1>5. ListOK'
  <2>1. conn' \in [Fds -> {"none", "pending", "open"}]
    BY <1>2 DEF IInv, ListOK
  <2>2. Clients \subseteq Fds
    BY DEF IInv, ListOK, Clients, Range
  <2>3. \A g \in Clients' : conn'[g] = "open"
    BY <1>2, <1>4, <2>2 DEF IInv, ListOK
  <2> QED
    BY <1>4, <2>1, <2>3 DEF ListOK
<1>6. StreamsOK'
  <2>1. <<>> \in Seq(Kinds)
    OBVIOUS
  <2> QED
    BY <1>2, <2>1 DEF IInv, StreamsOK
<1>7. LoopOK'
  <2>1. times' \in [Fds -> Nat]
    BY <1>1, <1>3
  <2>2. i' \in 1..(Len(clientList') + 2) /\ fdNum' \in Int
    BY <1>1, <1>2, <1>3, <1>4
  <2> QED
    BY <1>1, <1>2, <2>1, <2>2 DEF IInv, LoopOK
<1>8. SomebodyLeft'
  <2>1. /\ f \in reads \cap Clients /\ fdNum <= Cardinality(reads \cap Clients)
        /\ IsFiniteSet(reads \cap Clients)
    BY <1>1, ReadsAClient
  <2>2. reads' \cap Clients' = (reads \cap Clients) \ {f}
    BY <1>1, <1>4
  <2>3. Cardinality(reads' \cap Clients') = Cardinality(reads \cap Clients) - 1
        /\ Cardinality(reads \cap Clients) \in Nat
    BY <2>1, <2>2, OneFewer
  <2>4. fdNum' <= Cardinality(reads' \cap Clients')
    BY <1>2, <1>3, <2>1, <2>3
  <2> QED
    BY <2>4 DEF SomebodyLeft
<1> QED
  BY <1>1, <1>2, <1>5, <1>6, <1>7, <1>8 DEF IInv, BeforePass, WithinPass, InPass

\* Reading one client keeps the invariant, whatever came.
LEMMA ReadKeeps ==
    ASSUME IInv, Read
    PROVE  IInv'
<1> DEFINE f == clientList[i]
<1>1. f \in Fds
  BY ReadsAClient DEF Read
<1>2. input[f] \in Seq(Kinds) /\ fdNum \in Int /\ upset \in BOOLEAN
  BY <1>1 DEF IInv, StreamsOK, LoopOK
<1>3. CASE input[f] # <<>> /\ Handled(f, Head(input[f])) /\ Head(input[f]) = "leave"
  BY <1>1, <1>3, LeaveKeeps
<1>4. CASE input[f] # <<>> /\ Handled(f, Head(input[f])) /\ Head(input[f]) # "leave"
  <2>1. /\ input' = [input EXCEPT ![f] = Tail(@)] /\ UNCHANGED <<clientList, conn, partial, eof>>
        /\ fdNum' = Counted(fdNum, Head(input[f]))
        /\ upset' = (upset \/ Head(input[f]) # "plain")
    BY <1>4 DEF Handled
  <2>2. Tail(input[f]) \in Seq(Kinds)
    BY <1>2, <1>4
  <2>3. StreamsOK' /\ \A g \in Fds \ {f} : Readable(g) => Readable(g)'
    BY <1>1, <2>1, <2>2 DEF IInv, StreamsOK, Readable
  <2>4. fdNum' \in {fdNum, fdNum - 1}
    BY <2>1 DEF Counted
  <2>5. upset' \in BOOLEAN /\ (~upset' => ~upset /\ Head(input[f]) = "plain")
    BY <1>2, <2>1
  <2>6. ~upset' => ~upset /\ fdNum' = fdNum - 1
    BY <2>1, <2>5 DEF Counted
  <2> HIDE DEF f
  <2>7. f = clientList[i]
    BY DEF f
  <2> QED
    BY <1>1, <2>1, <2>3, <2>4, <2>5, <2>6, <2>7, ReadInPlaceKeeps
<1>5. CASE ReadNothing(f)
  <2>1. /\ fdNum' = fdNum - 1 /\ partial' = [partial EXCEPT ![f] = FALSE]
        /\ UNCHANGED <<clientList, conn, input, eof, upset>>
    BY <1>5 DEF ReadNothing, AfterEof
  <2>2. StreamsOK' /\ \A g \in Fds \ {f} : Readable(g) => Readable(g)'
    BY <1>1, <2>1 DEF IInv, StreamsOK, Readable
  <2> HIDE DEF f
  <2>3. f = clientList[i]
    BY DEF f
  <2> QED
    BY <1>1, <1>2, <2>1, <2>2, <2>3, ReadInPlaceKeeps
<1> QED
  BY <1>3, <1>4, <1>5 DEF Read

-----------------------------------------------------------------------------
(* The theorems.                                                           *)

\* The server starts with nobody listed and nothing ready.
THEOREM InitEstablishes == Init => IInv
<1> SUFFICES ASSUME Init PROVE IInv
  OBVIOUS
<1>1. ListOK
  BY DEF Init, ListOK, IsInjective, Clients, Range
<1>2. StreamsOK
  <2>1. <<>> \in Seq(Kinds)
    OBVIOUS
  <2> QED
    BY <2>1 DEF Init, StreamsOK
<1>3. LoopOK
  <2>1. i = 1 /\ Len(clientList) = 0
    BY DEF Init
  <2>2. i \in 1..(Len(clientList) + 2)
    BY <2>1
  <2>3. times \in [Fds -> Nat] /\ upset \in BOOLEAN
    BY DEF Init
  <2>4. pc = "select" /\ reads = {} /\ fdNum = 0
    BY DEF Init
  <2> QED
    BY <2>2, <2>3, <2>4 DEF LoopOK
<1>4. BeforePass /\ WithinPass
  BY DEF Init, BeforePass, WithinPass, InPass, Rested
<1> QED
  BY <1>1, <1>2, <1>3, <1>4 DEF IInv

\* Every step of the loop and of those around it keeps the invariant.
THEOREM NextKeeps == IInv /\ [Next]_vars => IInv'
<1> SUFFICES ASSUME IInv, [Next]_vars PROVE IInv'
  OBVIOUS
<1>1. CASE Select
  BY <1>1, SelectKeeps
<1>2. CASE Idle
  BY <1>2, IdleKeeps
<1>3. CASE Console \/ Prompt
  BY <1>3, ConsoleKeeps
<1>4. CASE Accept
  BY <1>4, AcceptKeeps
<1>5. CASE Scan
  BY <1>5, ScanKeeps
<1>6. CASE Read
  BY <1>6, ReadKeeps
<1>7. CASE Outside
  BY <1>7, EnvironmentKeeps
<1>8. CASE UNCHANGED vars
  BY <1>8, StutterKeeps
<1> QED
  BY <1>1, <1>2, <1>3, <1>4, <1>5, <1>6, <1>7, <1>8 DEF Next, Server

\* The invariant holds of every behaviour of the loop.
THEOREM InvariantHolds == Spec => []IInv
BY InitEstablishes, NextKeeps, PTL DEF Spec

\* The list holds open connections, each once, and the dispatch reads inside
\* it, although handlers delete from it (server.c:286).
THEOREM TypeCorrect == Spec => []TypeOK
<1>1. IInv => TypeOK
  BY DEF IInv, ListOK, LoopOK, TypeOK
<1> QED
  BY <1>1, InvariantHolds, PTL

\* The loop over the list cannot turn over nothing.
THEOREM SomebodyIsLeft == Spec => []SomebodyLeft
<1>1. IInv => SomebodyLeft
  BY DEF IInv, WithinPass, SomebodyLeft
<1> QED
  BY <1>1, InvariantHolds, PTL

\* The server waits in readn only for the rest of a packet, or in a pass that
\* was upset.
THEOREM SpinsAreExplained == Spec => []SpinsOnlyWhenUpset
<1>1. IInv => SpinsOnlyWhenUpset
  <2> SUFFICES ASSUME IInv, pc = "read", Spins(clientList[i]), ~upset
               PROVE  partial[clientList[i]]
    BY DEF SpinsOnlyWhenUpset, IInv, LoopOK
  <2>1. Readable(clientList[i])
    BY ReadsAClient
  <2> QED
    BY <2>1 DEF Readable, Spins
<1> QED
  BY <1>1, InvariantHolds, PTL

\* An undisturbed pass ends when it has read each ready client once.
THEOREM QuietPasses == Spec => QuietPassServesAll
<1> DEFINE Quiet == pc = "scan" /\ pc' = "select" /\ ~upset
                    => fdNum = 0 /\ \A f \in reads \cap Fds : times[f] = 1
<1>1. IInv /\ [Next]_vars => [Quiet]_vars
  <2> SUFFICES ASSUME IInv, Next, pc = "scan", pc' = "select", ~upset
               PROVE  fdNum = 0 /\ \A f \in reads \cap Fds : times[f] = 1
    OBVIOUS
  <2>1. Scan
    BY DEF Next, Server, Outside, Select, Idle, Console, Prompt, Accept, Read,
           Connect, Arrive, Close, Send, Type, Interrupt, loopVars
  <2>2. \A j \in i..Len(clientList) : clientList[j] \notin reads
    BY <2>1 DEF Scan
  <2>3. Undisturbed
    BY DEF IInv, WithinPass, InPass
  <2> QED
    BY <2>2, <2>3, NothingAhead DEF IInv
<1> QED
  BY <1>1, InvariantHolds, PTL DEF Spec, QuietPassServesAll
=============================================================================
