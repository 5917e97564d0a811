----------------------- MODULE ChatServerSteps_proofs ------------------------
(***************************************************************************)
(* What a step of ChatServer does to the order of the waiting packets, to  *)
(* an invited client and to the slots of the list, and what it writes, for *)
(* every number of clients, rooms and nodes.  Rests on the invariant of    *)
(* ChatServer_proofs.                                                      *)
(***************************************************************************)
EXTENDS ChatServer_proofs

-----------------------------------------------------------------------------
(* The queue stays sorted by age.                                          *)

Sorted(q) == \A j, k \in DOMAIN q : j < k => q[j].age >= q[k].age
Young(waits) == \A k \in DOMAIN waits : waits[k].age = 0

\* Popping the head leaves the others in order.
LEMMA TailSorted ==
    ASSUME NEW q \in Seq(WaitRecord), q # <<>>, Sorted(q)
    PROVE  Tail(q) \in Seq(WaitRecord) /\ Sorted(Tail(q))
<1>1. /\ Tail(q) \in Seq(WaitRecord) /\ Len(Tail(q)) = Len(q) - 1
      /\ \A k \in 1..(Len(q) - 1) : Tail(q)[k] = q[k + 1]
      /\ Len(q) \in Nat /\ DOMAIN q = 1..Len(q)
  OBVIOUS
<1>2. DOMAIN Tail(q) = 1..(Len(q) - 1)
  BY <1>1
<1>3. ASSUME NEW j \in 1..(Len(q) - 1), NEW k \in 1..(Len(q) - 1), j < k
      PROVE  Tail(q)[j].age >= Tail(q)[k].age
  <2>1. j + 1 \in DOMAIN q /\ k + 1 \in DOMAIN q /\ j + 1 < k + 1
    BY <1>1, <1>3
  <2>2. q[j + 1].age >= q[k + 1].age
    BY <2>1 DEF Sorted
  <2> QED
    BY <1>1, <2>2
<1> QED
  BY <1>1, <1>2, <1>3 DEF Sorted

\* A wait that is pushed is younger than every other.
LEMMA PushSorted ==
    ASSUME NEW q \in Seq(WaitRecord), NEW waits \in Seq(WaitRecord), Sorted(q), Young(waits)
    PROVE  Sorted(PushAll(q, waits))
<1> DEFINE n == IF Len(q) + Len(waits) < PoolSize THEN Len(q) + Len(waits) ELSE PoolSize
           all == q \o waits
<1>1. /\ Len(q) \in Nat /\ Len(waits) \in Nat /\ PoolSize \in Nat /\ AckLimit \in Nat
      /\ DOMAIN q = 1..Len(q) /\ DOMAIN waits = 1..Len(waits)
  BY ChatServerAssumption
<1>2. /\ all \in Seq(WaitRecord) /\ Len(all) = Len(q) + Len(waits)
      /\ \A k \in 1..Len(all) :
            all[k] = IF k <= Len(q) THEN q[k] ELSE waits[k - Len(q)]
  OBVIOUS
<1>3. n \in 0..Len(all)
  BY <1>1, <1>2
<1>4. ASSUME NEW j \in 1..Len(all), NEW k \in 1..Len(all), j < k
      PROVE  all[j].age >= all[k].age
  <2>1. all[j] \in WaitRecord
    BY <1>2
  <2>2. all[j].age \in 0..(AckLimit + 1)
    BY <2>1 DEF WaitRecord
  <2>3. CASE k <= Len(q)
    <3>1. j \in DOMAIN q /\ k \in DOMAIN q /\ j <= Len(q)
      BY <1>1, <1>2, <1>4, <2>3
    <3>2. q[j].age >= q[k].age
      BY <1>4, <3>1 DEF Sorted
    <3> QED
      BY <1>2, <2>3, <3>1, <3>2
  <2>4. CASE ~(k <= Len(q))
    <3>1. k - Len(q) \in DOMAIN waits
      BY <1>1, <1>2, <2>4
    <3>2. all[k].age = 0
      BY <1>2, <2>4, <3>1 DEF Young
    <3> QED
      BY <1>1, <2>2, <3>2
  <2> QED
    BY <2>3, <2>4
<1> HIDE DEF all, n
<1>5. /\ SubSeq(all, 1, n) \in Seq(WaitRecord) /\ Len(SubSeq(all, 1, n)) = n
      /\ DOMAIN SubSeq(all, 1, n) = 1..n
      /\ \A k \in 1..n : SubSeq(all, 1, n)[k] = all[k]
  BY <1>2, <1>3
<1>6. \A k \in 1..n : k \in 1..Len(all)
  BY <1>1, <1>2, <1>3
<1>7. Sorted(SubSeq(all, 1, n))
  BY <1>4, <1>5, <1>6 DEF Sorted
<1> QED
  BY <1>7 DEF PushAll, all, n

\* An acknowledgement pops the oldest wait or none.
LEMMA PopOnAckSorted ==
    ASSUME MallocQ \in Seq(WaitRecord), QueueOldestFirst, NEW type
    PROVE  PopOnAck(type) \in Seq(WaitRecord) /\ Sorted(PopOnAck(type))
<1>1. Sorted(MallocQ)
  BY DEF QueueOldestFirst, Sorted
<1> QED
  BY <1>1, TailSorted DEF PopOnAck

\* A wait starts with age zero, in one copy or in many.
LEMMA WaitsAreYoung ==
    /\ \A name, type : Young(<<Wait(name, type)>>)
    /\ \A n, name, type : Young(Copies(n, Wait(name, type)))
    /\ \A r, fd, lost : Young(AlarmWaits(r, fd, lost))
<1>1. \A n, name, type : Young(Copies(n, Wait(name, type)))
  BY DEF Young, Copies, Wait
<1>2. ASSUME NEW name, NEW type PROVE Young(<<Wait(name, type)>>)
  <2>1. Wait(name, type).age = 0
    BY DEF Wait
  <2> QED
    BY <2>1 DEF Young
<1> QED
  BY <1>1, <1>2 DEF AlarmWaits

\* What a handler does to the queue keeps it sorted.
LEMMA HandledSorted ==
    ASSUME MallocQ \in Seq(WaitRecord), QueueOldestFirst, NEW type,
           NEW waits \in Seq(WaitRecord), Young(waits),
           \/ UNCHANGED MallocQ
           \/ MallocQ' = PopOnAck(type)
           \/ MallocQ' = PushAll(MallocQ, waits)
           \/ MallocQ' = PushAll(PopOnAck(type), waits)
           \/ MallocQ # <<>> /\ MallocQ' = Tail(MallocQ)
    PROVE  QueueOldestFirst'
<1>1. Sorted(MallocQ)
  BY DEF QueueOldestFirst, Sorted
<1>2. Sorted(MallocQ) /\ Sorted(PopOnAck(type)) /\ Sorted(PushAll(MallocQ, waits))
      /\ Sorted(PushAll(PopOnAck(type), waits))
      /\ (MallocQ # <<>> => Sorted(Tail(MallocQ)))
  BY <1>1, PopOnAckSorted, PushSorted, TailSorted
<1>3. Sorted(MallocQ')
  BY <1>2
<1> QED
  BY <1>3 DEF QueueOldestFirst, Sorted

\* No packet of a client disturbs the order.
LEMMA ServeSorted ==
    ASSUME IInv, QueueOldestFirst, NEW i, Serve(i)
    PROVE  QueueOldestFirst'
<1>1. MallocQ \in Seq(WaitRecord) /\ HeaderNames \subseteq AnyName
      /\ clientList \in Seq(ClientRecord)
  BY HeaderAssumption DEF IInv, TypeOK
<1>2. <<>> \in Seq(WaitRecord) /\ Young(<<>>)
  BY DEF Young
<1>3. ASSUME \/ UNCHANGED MallocQ
             \/ \E type : MallocQ' = PopOnAck(type)
             \/ MallocQ # <<>> /\ MallocQ' = Tail(MallocQ)
      PROVE  QueueOldestFirst'
  BY <1>1, <1>2, <1>3, HandledSorted
<1>4. ASSUME NEW type, NEW r \in 0..Rooms, NEW fd, NEW lost,
             \/ MallocQ' = PushAll(MallocQ, AlarmWaits(r, fd, lost))
             \/ MallocQ' = PushAll(PopOnAck(type), AlarmWaits(r, fd, lost))
      PROVE  QueueOldestFirst'
  <2>1. AlarmWaits(r, fd, lost) \in Seq(WaitRecord) /\ Young(AlarmWaits(r, fd, lost))
    BY AlarmWaitsType, WaitsAreYoung DEF IInv
  <2> QED
    BY <1>1, <1>4, <2>1, HandledSorted
<1>5. ASSUME NEW k \in DOMAIN clientList
      PROVE  clientList[k].chatRoom \in 0..Rooms
  <2>1. clientList[k] \in ClientRecord
    BY <1>1
  <2> QED
    BY <2>1 DEF ClientRecord
<1>6. CASE ReadNothing(i) \/ AllUserReq(i) \/ ExitAck(i) \/ AlramAck(i) \/ PingAck(i)
  <2>1. CASE ReadNothing(i) \/ AllUserReq(i) \/ ExitAck(i)
    BY <1>3, <2>1 DEF ReadNothing, AllUserReq, Crash, ExitAck
  <2>2. CASE AlramAck(i)
    BY <1>3, <2>2 DEF AlramAck
  <2>3. CASE PingAck(i)
    BY <1>3, <2>3 DEF PingAck
  <2> QED
    BY <1>6, <2>1, <2>2, <2>3
<1>7. ASSUME NEW lost, ExitReq(i, lost)
      PROVE  QueueOldestFirst'
  BY <1>3, <1>4, <1>5, <1>7 DEF ExitReq, Reads
<1>8. ASSUME NEW name, NEW registered, NEW lost,
             ConnReq(i, name, registered, lost)
      PROVE  QueueOldestFirst'
  BY <1>3, <1>8 DEF ConnReq
<1>9. ASSUME NEW req, NEW name, NEW lost, ServiceRequest(i, req, name, lost)
      PROVE  QueueOldestFirst'
  BY <1>3, <1>9 DEF ServiceRequest
<1>10. ASSUME NEW r, NEW name, NEW lost, CreateChatroomReq(i, r, name, lost)
       PROVE  QueueOldestFirst'
  BY <1>3, <1>10 DEF CreateChatroomReq, Crash
<1>11. ASSUME NEW name, NEW lost, ExitChatroomReq(i, name, lost)
       PROVE  QueueOldestFirst'
  BY <1>4, <1>5, <1>11 DEF ExitChatroomReq, Reads
<1>12. ASSUME NEW src, NEW dst \in HeaderNames, NEW forward \in HeaderNames,
              NEW rejected, NEW lost, InviteReq(i, src, dst, rejected, forward, lost)
       PROVE  QueueOldestFirst'
  <2>1. UNCHANGED MallocQ \/ \E callee \in {dst, forward} :
            MallocQ' = PushAll(MallocQ, <<Wait(callee, "INVITE_ACK")>>)
    BY <1>12 DEF InviteReq
  <2>2. ASSUME NEW callee \in {dst, forward},
               MallocQ' = PushAll(MallocQ, <<Wait(callee, "INVITE_ACK")>>)
        PROVE  QueueOldestFirst'
    <3>1. Wait(callee, "INVITE_ACK") \in WaitRecord
      BY <1>1, WaitTypeOK DEF WaitType
    <3> DEFINE waits == <<Wait(callee, "INVITE_ACK")>>
    <3>2. waits \in Seq(WaitRecord) /\ Young(waits)
      BY <3>1, WaitsAreYoung
    <3> HIDE DEF waits
    <3>3. MallocQ' = PushAll(MallocQ, waits)
      BY <2>2 DEF waits
    <3> QED
      BY <1>1, <3>2, <3>3, HandledSorted
  <2> QED
    BY <1>3, <2>1, <2>2
<1>13. ASSUME NEW src, NEW dst, NEW answer, NEW lost, InviteAck(i, src, dst, answer, lost)
       PROVE  QueueOldestFirst'
  <2> DEFINE s == Server_Search_Client(src)
             r == clientList[s].chatRoom
  <2>1. \/ UNCHANGED MallocQ \/ MallocQ' = PopOnAck("INVITE_ACK")
        \/ s # 0 /\ MallocQ' = PushAll(PopOnAck("INVITE_ACK"),
                                       AlarmWaits(r, clientList[i].fd, lost))
    BY <1>13 DEF InviteAck, Crash
  <2>2. s # 0 => s \in DOMAIN clientList
    BY <1>1, SearchFinds
  <2> HIDE DEF s
  <2> QED
    BY <1>3, <1>4, <1>5, <2>1, <2>2
<1>14. ASSUME NEW src \in HeaderNames, NEW lost, StrReq(i, src, lost)
       PROVE  QueueOldestFirst'
  <2> DEFINE fd == clientList[i].fd
             r == clientList[i].chatRoom
             waits == Copies(Cardinality(Reached(r, fd, lost)), Wait(src, "STR_ACK"))
  <2>1. UNCHANGED MallocQ \/ MallocQ' = PushAll(MallocQ, waits)
    BY <1>14 DEF StrReq
  <2>2. Wait(src, "STR_ACK") \in WaitRecord
    BY <1>1, WaitTypeOK DEF WaitType
  <2>3. i \in DOMAIN clientList
    BY <1>14 DEF StrReq, Reads
  <2>4. chatRoomList[r] \in Seq(Fds)
    BY <1>5, <2>3 DEF IInv, TypeOK
  <2> HIDE DEF r, fd
  <2>5. waits \in Seq(WaitRecord) /\ Young(waits)
    BY <2>2, <2>4, CopiesType, WaitsAreYoung
  <2> HIDE DEF waits
  <2> QED
    BY <1>1, <1>3, <2>1, <2>5, HandledSorted
<1>15. ASSUME NEW src, NEW dst, NEW lost, StrAck(i, src, dst, lost)
       PROVE  QueueOldestFirst'
  BY <1>3, <1>15 DEF StrAck, Crash
<1> QED
  BY <1>6, <1>7, <1>8, <1>9, <1>10, <1>11, <1>12, <1>13, <1>14, <1>15 DEF Serve

\* The scan of the waits (serverFunction.c:684) drops the head, or restarts all
\* the others together.
LEMMA TimeOverSorted ==
    ASSUME NEW q \in Seq(WaitRecord), Sorted(q), NEW pings, NEW pinged, NEW lost,
           CheckPacketTimeOver(q, pings, pinged, lost)
    PROVE  QueueOldestFirst'
<1>1. MallocQ' = q \/ (q # <<>> /\ MallocQ' \in {Tail(q), Restarted(Tail(q))})
  BY DEF CheckPacketTimeOver
<1>2. q # <<>> => Tail(q) \in Seq(WaitRecord) /\ Sorted(Tail(q))
  BY TailSorted
<1>3. ASSUME NEW t \in Seq(WaitRecord) PROVE Sorted(Restarted(t))
  <2>1. ASSUME NEW k \in DOMAIN t PROVE Restarted(t)[k].age = 0
    <3>1. t[k] \in WaitRecord
      OBVIOUS
    <3>2. [t[k] EXCEPT !.age = 0].age = 0
      BY <3>1 DEF WaitRecord
    <3> QED
      BY <3>2 DEF Restarted
  <2>2. DOMAIN Restarted(t) = DOMAIN t
    BY DEF Restarted
  <2> QED
    BY <2>1, <2>2 DEF Sorted
<1>4. Sorted(MallocQ')
  BY <1>1, <1>2, <1>3
<1> QED
  BY <1>4 DEF QueueOldestFirst, Sorted

\* The idle scans keep the order.
LEMMA IdleSorted ==
    ASSUME IInv, QueueOldestFirst, NEW lost, Idle(lost)
    PROVE  QueueOldestFirst'
<1> DEFINE waits(order) == [k \in DOMAIN order |->
                               Wait(clientList[order[k]].name, "PING_ACK")]
           pings == [k \in 1..MaxClients |-> IF k \in Pinged(lost) THEN 1 ELSE isPing[k]]
           pinged == {PingOf(i) : i \in Tried(lost)}
<1>1. PICK order \in Increasing(Pinged(lost)) :
         CheckPacketTimeOver(PushAll(MallocQ, waits(order)), pings, pinged, lost)
  BY DEF Idle
<1> HIDE DEF pings, pinged
<1>2. clientList \in Seq(ClientRecord) /\ MallocQ \in Seq(WaitRecord) /\ Len(MallocQ) <= PoolSize
  BY DEF IInv, TypeOK
<1>3. Pinged(lost) \subseteq 1..Len(clientList)
  BY <1>2 DEF Pinged, Tried, Due
<1>4. Cardinality(Pinged(lost)) \in Nat
  <2>1. IsFiniteSet(1..Len(clientList))
    BY <1>2, FS_Interval
  <2> QED
    BY <1>3, <2>1, FS_Subset, FS_CardinalityType
<1>5. order \in [1..Cardinality(Pinged(lost)) -> Pinged(lost)]
  BY DEF Increasing
<1>6. ASSUME NEW k \in DOMAIN order
      PROVE  Wait(clientList[order[k]].name, "PING_ACK") \in WaitRecord
  <2>1. order[k] \in 1..Len(clientList)
    BY <1>3, <1>5
  <2>2. clientList[order[k]] \in ClientRecord
    BY <1>2, <2>1
  <2>3. clientList[order[k]].name \in AnyName
    BY <2>2 DEF ClientRecord, AnyName
  <2> QED
    BY <2>3, WaitTypeOK DEF WaitType
<1>7. waits(order) \in Seq(WaitRecord)
  <2> DEFINE n == Cardinality(Pinged(lost))
  <2>1. DOMAIN order = 1..n /\ n \in Nat
    BY <1>4, <1>5
  <2> HIDE DEF n
  <2>2. waits(order) \in [1..n -> WaitRecord]
    BY <1>6, <2>1
  <2> QED
    BY <2>1, <2>2
<1>8. Young(waits(order))
  BY DEF Young, Wait
<1> HIDE DEF waits
<1>9. Sorted(MallocQ)
  BY DEF QueueOldestFirst, Sorted
<1>10. Sorted(PushAll(MallocQ, waits(order))) /\ PushAll(MallocQ, waits(order)) \in Seq(WaitRecord)
  BY <1>2, <1>7, <1>8, <1>9, PushSorted, PushAllFits
<1> QED
  BY <1>1, <1>10, TimeOverSorted

\* All waits age together, and those above the limit do not.
LEMMA TickSorted ==
    ASSUME IInv, QueueOldestFirst, Tick
    PROVE  QueueOldestFirst'
<1>1. MallocQ \in Seq(WaitRecord) /\ AckLimit \in Nat
  BY ChatServerAssumption DEF IInv, TypeOK
<1>2. ASSUME NEW k \in DOMAIN MallocQ
      PROVE  MallocQ[k].age \in 0..(AckLimit + 1)
             /\ MallocQ'[k].age = Older(MallocQ[k].age, AckLimit)
  <2>1. MallocQ[k] \in WaitRecord
    BY <1>1
  <2>2. MallocQ'[k] = [MallocQ[k] EXCEPT !.age = Older(@, AckLimit)]
    BY DEF Tick
  <2> QED
    BY <2>1, <2>2 DEF WaitRecord
<1>3. DOMAIN MallocQ' = DOMAIN MallocQ
  BY DEF Tick
<1>4. \A a, b \in 0..(AckLimit + 1) : a >= b => Older(a, AckLimit) >= Older(b, AckLimit)
  BY <1>1 DEF Older
<1>5. Sorted(MallocQ')
  <2> SUFFICES ASSUME NEW j \in DOMAIN MallocQ, NEW k \in DOMAIN MallocQ, j < k
               PROVE  MallocQ'[j].age >= MallocQ'[k].age
    BY <1>3 DEF Sorted
  <2>1. MallocQ[j].age >= MallocQ[k].age
    BY DEF QueueOldestFirst
  <2> QED
    BY <1>2, <1>4, <2>1
<1> QED
  BY <1>5 DEF QueueOldestFirst, Sorted

\* Nor does any other step put an older wait behind a newer one.
LEMMA NextSorted == IInv /\ QueueOldestFirst /\ [Next]_vars => QueueOldestFirst'
<1> SUFFICES ASSUME IInv, QueueOldestFirst, [Next]_vars PROVE QueueOldestFirst'
  OBVIOUS
<1>1. CASE UNCHANGED MallocQ
  BY <1>1 DEF QueueOldestFirst
<1>2. CASE \E fd \in Fds : Accept(fd)
  BY <1>1, <1>2 DEF Accept, Crash
<1>3. CASE \E i \in 1..MaxClients : Serve(i)
  BY <1>3, ServeSorted
<1>4. CASE \E lost \in Losses : Idle(lost) \/ Interrupt(lost)
  BY <1>1, <1>4, IdleSorted DEF Interrupt
<1>5. CASE Tick
  BY <1>5, TickSorted
<1> QED
  BY <1>1, <1>2, <1>3, <1>4, <1>5 DEF Next, vars

\* A wait is never older than the one in front of it: the scan of
\* Server_Check_Packet_Time_Over, which looks at the head alone, misses none.
THEOREM QueueStaysSorted == Spec => []QueueOldestFirst
<1>1. Init => QueueOldestFirst
  BY DEF Init, QueueOldestFirst
<1> QED
  BY <1>1, NextSorted, InvariantHolds, PTL DEF Spec

-----------------------------------------------------------------------------
(* The slots of the list.                                                  *)

\* What SlotsMoveWhole says of slot i before a step and slot k after it.
Whole(i, k) ==
    clientList[i].name = clientList'[k].name =>
        /\ clientList[i].fd = clientList'[k].fd
        /\ Len(clientList') < Len(clientList) =>
              clientList[i].chatRoom = clientList'[k].chatRoom

\* A step that keeps the slots keeps their names and descriptors together,
\* also when it gives a slot a name that nobody had.
LEMMA SlotsStay ==
    ASSUME UniqueClients, clientList \in Seq(ClientRecord),
           Len(clientList') = Len(clientList), DOMAIN clientList' = DOMAIN clientList,
           \A k \in DOMAIN clientList :
              /\ clientList'[k].fd = clientList[k].fd
              /\ \/ clientList'[k].name = clientList[k].name
                 \/ \A j \in DOMAIN clientList : clientList[j].name # clientList'[k].name,
           NEW i \in DOMAIN clientList, NEW k \in DOMAIN clientList'
    PROVE  Whole(i, k)
<1>1. ~(Len(clientList') < Len(clientList))
  OBVIOUS
<1>2. clientList[i].name = clientList'[k].name => i = k
  BY DEF UniqueClients
<1> QED
  BY <1>1, <1>2 DEF Whole

\* A function of the same domain as a sequence is one of the same length.
LEMMA SameLength ==
    ASSUME NEW S, NEW old \in Seq(S), NEW new, DOMAIN new = DOMAIN old,
           new = [m \in DOMAIN new |-> new[m]]
    PROVE  Len(new) = Len(old)
<1> DEFINE n == Len(old)
           T == {new[m] : m \in 1..n}
<1>1. n \in Nat /\ DOMAIN old = 1..n
  OBVIOUS
<1>2. \A m \in 1..n : new[m] \in T
  OBVIOUS
<1> HIDE DEF n, T
<1>3. new \in [1..n -> T]
  BY <1>1, <1>2
<1>4. new \in Seq(T) /\ DOMAIN new = 1..n
  BY <1>1, <1>3
<1>5. Len(new) = n
  BY <1>1, <1>4
<1> QED
  BY <1>5 DEF n

\* Most handlers change an age, and at most a room.
LEMMA RefreshedSlots ==
    ASSUME IInv, NEW i \in DOMAIN clientList, NEW d \in DOMAIN clientList, NEW room,
           clientList' \in {clientList, Refreshed(i), [Refreshed(i) EXCEPT ![d].chatRoom = room]},
           NEW j \in DOMAIN clientList, NEW k \in DOMAIN clientList'
    PROVE  Whole(j, k)
<1>1. clientList \in Seq(ClientRecord) /\ UniqueClients
  BY DEF IInv, TypeOK
<1> DEFINE old == Refreshed(i)
           new == [old EXCEPT ![d].chatRoom = room]
<1>2. /\ old \in Seq(ClientRecord) /\ Len(old) = Len(clientList)
      /\ DOMAIN old = DOMAIN clientList
      /\ \A m \in DOMAIN clientList : old[m].name = clientList[m].name
                                     /\ old[m].fd = clientList[m].fd
  BY <1>1, RefreshedType
<1> HIDE DEF old
<1>3. old[d] \in ClientRecord
  BY <1>2
<1>4. [old[d] EXCEPT !.chatRoom = room].name = old[d].name
      /\ [old[d] EXCEPT !.chatRoom = room].fd = old[d].fd
  BY <1>3 DEF ClientRecord
<1>5. /\ DOMAIN new = DOMAIN old
      /\ \A m \in DOMAIN old : new[m].name = old[m].name /\ new[m].fd = old[m].fd
  BY <1>2, <1>4
<1>6. Len(new) = Len(old)
  <2>1. new = [m \in DOMAIN new |-> new[m]]
    BY <1>2
  <2> HIDE DEF new
  <2> QED
    BY <1>2, <1>5, <2>1, SameLength
<1>7. CASE clientList' = clientList
  BY <1>1, <1>7, SlotsStay
<1>8. CASE clientList' = old
  BY <1>1, <1>2, <1>8, SlotsStay
<1>9. CASE clientList' = new
  <2> HIDE DEF new
  <2> QED
    BY <1>1, <1>2, <1>5, <1>6, <1>9, SlotsStay
<1> QED
  BY <1>7, <1>8, <1>9 DEF old

\* Deletion moves whole slots.
LEMMA DeletedSlots ==
    ASSUME IInv, NEW d \in DOMAIN clientList, Server_Del_Client_List(d),
           NEW j \in DOMAIN clientList, NEW k \in DOMAIN clientList'
    PROVE  Whole(j, k)
<1>1. clientList \in Seq(ClientRecord) /\ UniqueClients
      /\ clientList' = WithoutClient(clientList, d)
  BY DEF IInv, TypeOK, Server_Del_Client_List
<1>2. /\ Len(clientList') = Len(clientList) - 1 /\ Len(clientList) \in Nat
      /\ clientList' \in Seq(ClientRecord) /\ DOMAIN clientList = 1..Len(clientList)
      /\ \A m \in 1..(Len(clientList) - 1) :
            clientList'[m] = clientList[IF m < d THEN m ELSE m + 1]
  BY <1>1, WithoutClientShifts
<1>3. DOMAIN clientList' = 1..(Len(clientList) - 1)
  BY <1>2
<1>4. PICK m \in DOMAIN clientList : clientList'[k] = clientList[m]
  <2>1. k \in 1..Len(clientList) /\ k + 1 \in 1..Len(clientList)
    BY <1>2, <1>3
  <2> QED
    BY <1>2, <1>3, <2>1
<1>5. clientList[j].name = clientList'[k].name => j = m
  BY <1>1, <1>4 DEF UniqueClients
<1> QED
  BY <1>4, <1>5 DEF Whole

\* A new connection is listed behind the others, under a name of its own.
LEMMA AcceptedSlots ==
    ASSUME IInv, NEW fd \in Fds, Accept(fd),
           NEW j \in DOMAIN clientList, NEW k \in DOMAIN clientList'
    PROVE  Whole(j, k)
<1> DEFINE new == [name |-> Len(clientList), fd |-> fd, chatRoom |-> 0, age |-> 0]
<1>1. clientList \in Seq(ClientRecord) /\ UniqueClients
  BY DEF IInv, TypeOK
<1>2. CASE clientList' = clientList
  BY <1>1, <1>2, SlotsStay
<1>3. CASE /\ Server_Search_Client(Len(clientList)) = 0
           /\ clientList' = Append(clientList, new)
  <2>1. \A m \in DOMAIN clientList : clientList[m].name # Len(clientList)
    BY <1>1, <1>3, SearchFails
  <2>2. new.name = Len(clientList)
    OBVIOUS
  <2> HIDE DEF new
  <2>3. /\ Len(clientList') = Len(clientList) + 1 /\ Len(clientList) \in Nat
        /\ DOMAIN clientList = 1..Len(clientList)
        /\ DOMAIN clientList' = 1..(Len(clientList) + 1)
        /\ \A m \in 1..Len(clientList) : clientList'[m] = clientList[m]
        /\ clientList'[Len(clientList) + 1] = new
    BY <1>1, <1>3
  <2>4. CASE k \in DOMAIN clientList
    <3>1. clientList[j].name = clientList'[k].name => j = k
      BY <1>1, <2>3, <2>4 DEF UniqueClients
    <3> QED
      BY <2>3, <2>4, <3>1 DEF Whole
  <2>5. CASE k \notin DOMAIN clientList
    <3>1. clientList'[k] = new
      BY <2>3, <2>5
    <3> QED
      BY <2>1, <2>2, <3>1 DEF Whole
  <2> QED
    BY <2>4, <2>5
<1> QED
  BY <1>2, <1>3 DEF Accept, Crash

\* A login gives a slot a name nobody had.
LEMMA NamedSlots ==
    ASSUME IInv, NEW i \in DOMAIN clientList, NEW name, NEW registered, NEW lost,
           ConnReq(i, name, registered, lost),
           NEW j \in DOMAIN clientList, NEW k \in DOMAIN clientList'
    PROVE  Whole(j, k)
<1> DEFINE old == Refreshed(i)
           new == [old EXCEPT ![i].name = name]
<1>1. clientList \in Seq(ClientRecord) /\ UniqueClients
  BY DEF IInv, TypeOK
<1>2. CASE clientList' = Refreshed(i)
  BY <1>2, RefreshedSlots
<1>3. CASE clientList' = new /\ Server_Search_Client(name) = 0
  <2>1. \A m \in DOMAIN clientList : clientList[m].name # name
    BY <1>1, <1>3, SearchFails
  <2>2. /\ old \in Seq(ClientRecord) /\ Len(old) = Len(clientList)
        /\ DOMAIN old = DOMAIN clientList
        /\ \A m \in DOMAIN clientList : old[m].name = clientList[m].name
                                       /\ old[m].fd = clientList[m].fd
    BY <1>1, RefreshedType
  <2> HIDE DEF old
  <2>3. old[i] \in ClientRecord
    BY <2>2
  <2>4. [old[i] EXCEPT !.name = name].name = name
        /\ [old[i] EXCEPT !.name = name].fd = old[i].fd
    BY <2>3 DEF ClientRecord
  <2>5. /\ DOMAIN new = DOMAIN old
        /\ \A m \in DOMAIN old : new[m].fd = old[m].fd
                                /\ new[m].name \in {old[m].name, name}
    BY <2>2, <2>4
  <2>6. Len(new) = Len(old)
    <3>1. new = [m \in DOMAIN new |-> new[m]]
      BY <2>2
    <3> HIDE DEF new
    <3> QED
      BY <2>2, <2>5, <3>1, SameLength
  <2> HIDE DEF new
  <2> QED
    BY <1>1, <1>3, <2>1, <2>2, <2>5, <2>6, SlotsStay
<1> QED
  BY <1>2, <1>3 DEF ConnReq, Admitted

\* Whatever a client sends, slots move whole.
LEMMA ServedSlots ==
    ASSUME IInv, NEW i, Serve(i),
           NEW j \in DOMAIN clientList, NEW k \in DOMAIN clientList'
    PROVE  Whole(j, k)
<1>1. i \in DOMAIN clientList /\ clientList \in Seq(ClientRecord) /\ UniqueClients
  BY DEF Serve, ReadNothing, AllUserReq, ExitAck, AlramAck, PingAck, ExitReq, ConnReq,
         ServiceRequest, CreateChatroomReq, ExitChatroomReq, InviteReq, InviteAck, StrReq,
         StrAck, Reads, IInv, TypeOK
<1>2. ASSUME NEW d \in DOMAIN clientList,
             \/ clientList' = clientList \/ clientList' = Refreshed(i)
             \/ \E room : clientList' = [Refreshed(i) EXCEPT ![d].chatRoom = room]
      PROVE  Whole(j, k)
  <2>1. ASSUME NEW room, clientList' = [Refreshed(i) EXCEPT ![d].chatRoom = room]
        PROVE  Whole(j, k)
    <3>1. clientList' \in {clientList, Refreshed(i), [Refreshed(i) EXCEPT ![d].chatRoom = room]}
      BY <2>1
    <3> QED
      BY <1>1, <3>1, RefreshedSlots
  <2>2. CASE clientList' = clientList \/ clientList' = Refreshed(i)
    <3>1. clientList' \in {clientList, Refreshed(i), [Refreshed(i) EXCEPT ![d].chatRoom = 0]}
      BY <2>2
    <3> QED
      BY <1>1, <3>1, RefreshedSlots
  <2> QED
    BY <1>2, <2>1, <2>2
<1>3. ASSUME Server_Del_Client_List(Server_Search_Client(clientList[i].name))
      PROVE  Whole(j, k)
  BY <1>1, <1>3, SearchOwnName, DeletedSlots
<1>4. CASE ReadNothing(i) \/ AllUserReq(i) \/ AlramAck(i) \/ PingAck(i)
  BY <1>1, <1>2, <1>4 DEF ReadNothing, AllUserReq, Crash, AlramAck, PingAck, OnlyRefreshed
<1>5. CASE ExitAck(i) \/ \E lost \in Losses : ExitReq(i, lost)
  BY <1>3, <1>5 DEF ExitAck, ExitReq
<1>6. CASE \E name \in HeaderNames, registered \in BOOLEAN, lost \in Losses :
              ConnReq(i, name, registered, lost)
  BY <1>1, <1>6, NamedSlots
<1>7. ASSUME NEW req, NEW name, NEW lost, ServiceRequest(i, req, name, lost)
      PROVE  Whole(j, k)
  BY <1>1, <1>2, <1>7 DEF ServiceRequest, OnlyRefreshed
<1>8. ASSUME NEW r, NEW name, NEW lost, CreateChatroomReq(i, r, name, lost)
      PROVE  Whole(j, k)
  BY <1>1, <1>2, <1>8 DEF CreateChatroomReq, Crash
<1>9. ASSUME NEW name, NEW lost, ExitChatroomReq(i, name, lost)
      PROVE  Whole(j, k)
  BY <1>1, <1>2, <1>9 DEF ExitChatroomReq
<1>10. ASSUME NEW src, NEW dst, NEW forward, NEW rejected, NEW lost,
              InviteReq(i, src, dst, rejected, forward, lost)
       PROVE  Whole(j, k)
  BY <1>1, <1>2, <1>10 DEF InviteReq, OnlyRefreshed
<1>11. ASSUME NEW src, NEW dst, NEW answer, NEW lost, InviteAck(i, src, dst, answer, lost)
       PROVE  Whole(j, k)
  <2> DEFINE d == Server_Search_Client(dst)
  <2>1. d # 0 => d \in DOMAIN clientList
    BY <1>1, SearchFinds
  <2>2. \/ clientList' = clientList \/ clientList' = Refreshed(i)
        \/ d # 0 /\ \E room : clientList' = [Refreshed(i) EXCEPT ![d].chatRoom = room]
    BY <1>11 DEF InviteAck, OnlyRefreshed, Crash
  <2> HIDE DEF d
  <2> QED
    BY <1>1, <1>2, <2>1, <2>2
<1>12. ASSUME NEW src, NEW lost, StrReq(i, src, lost)
       PROVE  Whole(j, k)
  BY <1>1, <1>2, <1>12 DEF StrReq, OnlyRefreshed
<1>13. ASSUME NEW src, NEW dst, NEW lost, StrAck(i, src, dst, lost)
       PROVE  Whole(j, k)
  BY <1>1, <1>2, <1>13 DEF StrAck, Crash
<1> QED
  BY <1>4, <1>5, <1>6, <1>7, <1>8, <1>9, <1>10, <1>11, <1>12, <1>13 DEF Serve

\* A client that stays listed keeps its descriptor, and its room through every
\* deletion: slots move whole, but for their isPing.
THEOREM SlotsStayWhole == Spec => SlotsMoveWhole
<1>1. ASSUME IInv, [Next]_vars, NEW j \in DOMAIN clientList, NEW k \in DOMAIN clientList'
      PROVE  Whole(j, k)
  <2>1. clientList \in Seq(ClientRecord) /\ UniqueClients
    BY <1>1 DEF IInv, TypeOK
  <2>2. CASE UNCHANGED clientList
    BY <2>1, <2>2, SlotsStay
  <2>3. CASE \E fd \in Fds : Accept(fd)
    BY <1>1, <2>3, AcceptedSlots
  <2>4. CASE \E i \in 1..MaxClients : Serve(i)
    BY <1>1, <2>4, ServedSlots
  <2>5. CASE \E lost \in Losses : Idle(lost)
    BY <2>2, <2>5 DEF Idle
  <2>6. CASE \E lost \in Losses : Interrupt(lost)
    <3>1. DOMAIN clientList' = {}
      BY <2>6 DEF Interrupt
    <3> QED
      BY <1>1, <3>1
  <2>7. CASE Tick
    <3> DEFINE older(m) == [clientList[m] EXCEPT !.age = Older(@, IdleLimit)]
    <3>1. clientList' = [m \in DOMAIN clientList |-> older(m)]
      BY <2>7 DEF Tick
    <3>2. ASSUME NEW m \in DOMAIN clientList
          PROVE  older(m).fd = clientList[m].fd /\ older(m).name = clientList[m].name
      <4>1. clientList[m] \in ClientRecord
        BY <2>1
      <4> QED
        BY <4>1 DEF ClientRecord
    <3> HIDE DEF older
    <3>3. /\ DOMAIN clientList' = DOMAIN clientList
          /\ \A m \in DOMAIN clientList : clientList'[m] = older(m)
      BY <3>1
    <3>4. Len(clientList') = Len(clientList)
      <4>1. clientList' = [m \in DOMAIN clientList' |-> clientList'[m]]
        BY <3>1
      <4> QED
        BY <2>1, <3>3, <4>1, SameLength
    <3> QED
      BY <2>1, <3>2, <3>3, <3>4, SlotsStay
  <2> QED
    BY <1>1, <2>2, <2>3, <2>4, <2>5, <2>6, <2>7 DEF Next, vars
<1>2. IInv /\ [Next]_vars => [\A i \in DOMAIN clientList, k \in DOMAIN clientList' :
         clientList[i].name = clientList'[k].name =>
            /\ clientList[i].fd = clientList'[k].fd
            /\ Len(clientList') < Len(clientList) =>
                  clientList[i].chatRoom = clientList'[k].chatRoom]_vars
  BY <1>1 DEF Whole
<1> QED
  BY <1>2, InvariantHolds, PTL DEF SlotsMoveWhole, Spec

-----------------------------------------------------------------------------
(* The client that is invited.                                             *)

\* The packets of a step are those its handler writes.
LEMMA PacketsOfStep ==
    ASSUME NEW P, NEW lost, out' = Outcome(P, lost)
    PROVE  out'.sent \cup out'.refused \subseteq P
BY DEF Outcome

\* An invitation is written by InviteReq alone, to a client it found free.
LEMMA InvitesOneThatIsFree ==
    ASSUME IInv, NEW j, NEW src, NEW dst, NEW rejected, NEW forward, NEW lost,
           InviteReq(j, src, dst, rejected, forward, lost),
           NEW i \in DOMAIN clientList, NEW p \in out'.sent \cup out'.refused,
           p.type = "INVITE_REQ", p.fd = clientList[i].fd
    PROVE  clientList[i].chatRoom = 0
<1> DEFINE callee == IF Server_Search_Client(forward) # 0 THEN forward ELSE dst
           t == Server_Search_Client(callee)
           request == Server_Invite_Client_Request(clientList[t].fd, src, callee)
<1>1. clientList \in Seq(ClientRecord) /\ UniqueClients /\ Rooms \in Nat
  BY ChatServerAssumption DEF IInv, TypeOK
<1>2. ~ (Server_Search_Client(src) = 0 \/ Server_Search_Client(dst) = 0)
  BY DEF InviteReq, Silent
<1>3. t \in DOMAIN clientList
  BY <1>1, <1>2, SearchFinds
<1>4. \/ \E body : out' = Outcome({Server_Invite_Client_Ack(clientList[j].fd, src, dst, body)}, lost)
      \/ \E body : out' = Outcome({Server_Invite_Client_Ack(clientList[j].fd, src, callee, body)}, lost)
      \/ ~ Busy(dst, callee) /\ out' = Outcome({request}, lost)
  BY <1>2 DEF InviteReq
<1>5. \A fd, a, b, body : Server_Invite_Client_Ack(fd, a, b, body).type = "INVITE_ACK"
  BY DEF Server_Invite_Client_Ack, Packet
<1>6. request.fd = clientList[t].fd
  BY DEF Server_Invite_Client_Request, Packet
<1> HIDE DEF t, request, callee
<1>7. ~ Busy(dst, callee) /\ p = request
  <2>1. ASSUME NEW q, out' = Outcome({q}, lost) PROVE p = q
    BY <2>1, PacketsOfStep
  <2>2. ASSUME NEW a, NEW body, out' = Outcome({Server_Invite_Client_Ack(clientList[j].fd, src, a, body)}, lost)
        PROVE  FALSE
    <3>1. p = Server_Invite_Client_Ack(clientList[j].fd, src, a, body)
      BY <2>1, <2>2
    <3> QED
      BY <1>5, <3>1
  <2> QED
    BY <1>4, <2>1, <2>2
<1>8. i = t
  BY <1>1, <1>3, <1>6, <1>7 DEF UniqueClients
<1>9. clientList[t] \in ClientRecord
  BY <1>1, <1>3
<1>10. clientList[t].chatRoom \in 0..Rooms
  BY <1>9 DEF ClientRecord
<1>11. ~ (clientList[t].chatRoom > 0)
  BY <1>7 DEF Busy, t
<1> QED
  BY <1>1, <1>8, <1>10, <1>11

\* No other packet of the protocol is an invitation.
LEMMA OtherPackets ==
    ASSUME NEW fd, NEW a, NEW b, NEW body
    PROVE  /\ Server_Exit_Ack(fd, a).type # "INVITE_REQ"
           /\ Server_Alram_Request(fd).type # "INVITE_REQ"
           /\ Server_Exit_Request(fd, a).type # "INVITE_REQ"
           /\ Server_Ping_Request(fd, a).type # "INVITE_REQ"
           /\ RepeatedPing(fd).type # "INVITE_REQ"
           /\ Server_Chat_Request(fd, a).type # "INVITE_REQ"
           /\ Server_Invite_Client_Ack(fd, a, b, body).type # "INVITE_REQ"
           /\ \A Q \in Server_Ack_To_Client(fd, a, body) : Q.type # "INVITE_REQ"
           /\ \A Q \in Server_Service_Ack(fd, a, b) : Q.type # "INVITE_REQ"
           /\ \A Q \in Server_Create_Chat_Room_Ack(fd, a) : Q.type # "INVITE_REQ"
           /\ \A Q \in Server_Exit_Chat_Romm_Ack(fd, a) : Q.type # "INVITE_REQ"
           /\ \A Q \in Server_Chat_Ack(fd, a, b) : Q.type # "INVITE_REQ"
<1>1. ASSUME NEW name, NEW P, P.type # "INVITE_REQ"
      PROVE  \A Q \in ToNamed(name, P) : Q.type # "INVITE_REQ"
  BY <1>1 DEF ToNamed
<1>2. /\ Server_Exit_Ack(fd, a).type = "EXIT_ACK"
      /\ Server_Alram_Request(fd).type = "ALRAM_REQ"
      /\ Server_Exit_Request(fd, a).type = "EXIT_REQ"
      /\ Server_Ping_Request(fd, a).type = "PING_REQ"
      /\ RepeatedPing(fd).type = "PING_REQ"
      /\ Server_Chat_Request(fd, a).type = "STR_REQ"
      /\ Server_Invite_Client_Ack(fd, a, b, body).type = "INVITE_ACK"
  BY DEF Packet, Server_Exit_Ack, Server_Alram_Request, Server_Exit_Request,
     Server_Ping_Request, RepeatedPing, Server_Chat_Request, Server_Invite_Client_Ack
<1>3. \A Q \in Server_Service_Ack(fd, a, b) : Q.type # "INVITE_REQ"
  <2> DEFINE P == Packet(fd, ServiceAck(b), NoName, a, "")
  <2>1. P.type = ServiceAck(b)
    BY DEF Packet
  <2>2. ServiceAck(b) # "INVITE_REQ"
    BY DEF ServiceAck
  <2>3. Server_Service_Ack(fd, a, b) = ToNamed(a, P)
    BY DEF Server_Service_Ack
  <2> HIDE DEF P
  <2> QED
    BY <1>1, <2>1, <2>2, <2>3
<1>4. \A Q \in Server_Ack_To_Client(fd, a, body) : Q.type # "INVITE_REQ"
  BY DEF Server_Ack_To_Client, ToNamed, Packet
<1>5. \A Q \in Server_Create_Chat_Room_Ack(fd, a) : Q.type # "INVITE_REQ"
  <2> DEFINE P == Packet(fd, "CREATE_CHATROOM_ACK", NoName, a, "")
  <2>1. P.type = "CREATE_CHATROOM_ACK"
    BY DEF Packet
  <2>2. Server_Create_Chat_Room_Ack(fd, a) = ToNamed(a, P)
    BY DEF Server_Create_Chat_Room_Ack
  <2> HIDE DEF P
  <2> QED
    BY <1>1, <2>1, <2>2
<1>6. \A Q \in Server_Exit_Chat_Romm_Ack(fd, a) : Q.type # "INVITE_REQ"
  <2> DEFINE P == Packet(fd, "EXIT_CHATROOM_ACK", NoName, a, "")
  <2>1. P.type = "EXIT_CHATROOM_ACK"
    BY DEF Packet
  <2>2. Server_Exit_Chat_Romm_Ack(fd, a) = ToNamed(a, P)
    BY DEF Server_Exit_Chat_Romm_Ack
  <2> HIDE DEF P
  <2> QED
    BY <1>1, <2>1, <2>2
<1>7. \A Q \in Server_Chat_Ack(fd, a, b) : Q.type # "INVITE_REQ"
  <2> DEFINE P == Packet(fd, "STR_ACK", NoName, b, "")
  <2>1. P.type = "STR_ACK"
    BY DEF Packet
  <2>2. Server_Chat_Ack(fd, a, b) = ToNamed(a, P)
    BY DEF Server_Chat_Ack
  <2> HIDE DEF P
  <2> QED
    BY <1>1, <2>1, <2>2
<1> QED
  BY <1>2, <1>3, <1>4, <1>5, <1>6, <1>7

\* No other packet of a client makes the server invite anybody.
LEMMA NobodyElseInvites ==
    ASSUME NEW i, Serve(i), NEW p \in out'.sent \cup out'.refused, p.type = "INVITE_REQ"
    PROVE  \E src, dst, forward \in HeaderNames, rejected \in BOOLEAN, lost \in Losses :
              InviteReq(i, src, dst, rejected, forward, lost)
<1> DEFINE Calm(P) == \A q \in P : q.type # "INVITE_REQ"
<1>1. ASSUME NEW P, NEW lost, out' = Outcome(P, lost), Calm(P) PROVE FALSE
  BY <1>1, PacketsOfStep
<1>2. ASSUME Silent PROVE FALSE
  BY <1>2 DEF Silent
<1>3. CASE ReadNothing(i) \/ AllUserReq(i) \/ ExitAck(i) \/ AlramAck(i) \/ PingAck(i)
  BY <1>2, <1>3 DEF ReadNothing, AllUserReq, Crash, ExitAck, AlramAck, PingAck
<1>4. \A r, fd : Calm(Alarms(r, fd))
  BY OtherPackets DEF Alarms
<1>5. ASSUME NEW lost, ExitReq(i, lost) PROVE FALSE
  <2> DEFINE bye == {Server_Exit_Ack(clientList[i].fd, clientList[i].name)}
  <2>1. Calm(bye)
    BY OtherPackets
  <2>2. out' = Outcome(bye, lost)
        \/ out' = Outcome(Alarms(clientList[i].chatRoom, clientList[i].fd) \cup bye, lost)
    BY <1>5 DEF ExitReq
  <2> HIDE DEF bye
  <2>3. Calm(Alarms(clientList[i].chatRoom, clientList[i].fd) \cup bye)
    BY <1>4, <2>1
  <2> HIDE DEF Calm
  <2> QED
    BY <1>1, <2>1, <2>2, <2>3
<1>6. ASSUME NEW name, NEW registered, NEW lost, ConnReq(i, name, registered, lost) PROVE FALSE
  <2>1. \E fd, state : out' = Outcome(Server_Ack_To_Client(fd, name, state), lost)
    BY <1>6 DEF ConnReq
  <2>2. \A fd, state : Calm(Server_Ack_To_Client(fd, name, state))
    BY OtherPackets
  <2> HIDE DEF Calm
  <2> QED
    BY <1>1, <2>1, <2>2
<1>7. ASSUME NEW req, NEW name, NEW lost, ServiceRequest(i, req, name, lost) PROVE FALSE
  <2>1. out' = Outcome(Server_Service_Ack(clientList[i].fd, name, req), lost)
    BY <1>7 DEF ServiceRequest
  <2>3. Calm(Server_Service_Ack(clientList[i].fd, name, req))
    BY OtherPackets
  <2> HIDE DEF Calm
  <2> QED
    BY <1>1, <2>1, <2>3
<1>8. ASSUME NEW r, NEW name, NEW lost, CreateChatroomReq(i, r, name, lost) PROVE FALSE
  <2>1. Silent \/ out' = Outcome(Server_Create_Chat_Room_Ack(clientList[i].fd, name), lost)
    BY <1>8 DEF CreateChatroomReq, Crash
  <2>2. Calm(Server_Create_Chat_Room_Ack(clientList[i].fd, name))
    BY OtherPackets
  <2> HIDE DEF Calm
  <2> QED
    BY <1>1, <1>2, <2>1, <2>2
<1>9. ASSUME NEW name, NEW lost, ExitChatroomReq(i, name, lost) PROVE FALSE
  <2> DEFINE bye == Server_Exit_Chat_Romm_Ack(clientList[i].fd, name)
  <2>1. Calm(bye)
    BY OtherPackets
  <2>2. out' = Outcome(Alarms(clientList[i].chatRoom, clientList[i].fd) \cup bye, lost)
    BY <1>9 DEF ExitChatroomReq
  <2> HIDE DEF bye
  <2>3. Calm(Alarms(clientList[i].chatRoom, clientList[i].fd) \cup bye)
    BY <1>4, <2>1
  <2> HIDE DEF Calm
  <2> QED
    BY <1>1, <2>2, <2>3
<1>10. ASSUME NEW src, NEW dst, NEW answer, NEW lost, InviteAck(i, src, dst, answer, lost)
       PROVE  FALSE
  <2> DEFINE s == Server_Search_Client(src)
             reply == {Server_Invite_Client_Ack(clientList[s].fd, src, dst, answer)}
  <2>1. Calm(reply)
    BY OtherPackets
  <2>2. \/ Silent \/ out' = Outcome(reply, lost)
        \/ out' = Outcome(Alarms(clientList[s].chatRoom, clientList[i].fd) \cup reply, lost)
    BY <1>10 DEF InviteAck, Crash
  <2> HIDE DEF reply
  <2>3. Calm(Alarms(clientList[s].chatRoom, clientList[i].fd) \cup reply)
    BY <1>4, <2>1
  <2> HIDE DEF Calm, s
  <2> QED
    BY <1>1, <1>2, <2>1, <2>2, <2>3
<1>11. ASSUME NEW src, NEW lost, StrReq(i, src, lost) PROVE FALSE
  <2> DEFINE r == clientList[i].chatRoom
             fd == clientList[i].fd
             P == {Server_Chat_Request(chatRoomList[r][j], src) : j \in Others(r, fd)}
  <2>1. Silent \/ out' = Outcome(P, lost)
    BY <1>11 DEF StrReq
  <2>2. Calm(P)
    BY OtherPackets
  <2> HIDE DEF Calm, P
  <2> QED
    BY <1>1, <1>2, <2>1, <2>2
<1>12. ASSUME NEW src, NEW dst, NEW lost, StrAck(i, src, dst, lost) PROVE FALSE
  <2> DEFINE reply == Server_Chat_Ack(clientList[Server_Search_Client(src)].fd, src, dst)
  <2>1. Silent \/ out' = Outcome(reply, lost) \/ out' = Outcome({}, lost)
    BY <1>12 DEF StrAck, Crash
  <2>2. Calm(reply) /\ Calm({})
    BY OtherPackets
  <2> HIDE DEF Calm, reply
  <2> QED
    BY <1>1, <1>2, <2>1, <2>2
<1> HIDE DEF Calm
<1> QED
  BY <1>3, <1>5, <1>6, <1>7, <1>8, <1>9, <1>10, <1>11, <1>12 DEF Serve

\* The scans and the interrupt invite nobody either.
LEMMA ScansInviteNobody ==
    ASSUME NEW lost, Idle(lost) \/ Interrupt(lost),
           NEW p \in out'.sent \cup out'.refused
    PROVE  p.type # "INVITE_REQ"
<1> DEFINE Calm(P) == \A q \in P : q.type # "INVITE_REQ"
<1>1. ASSUME NEW P, out' = Outcome(P, lost), Calm(P) PROVE p.type # "INVITE_REQ"
  BY <1>1, PacketsOfStep
<1>2. /\ \A fd, c : Server_Exit_Request(fd, c).type # "INVITE_REQ"
      /\ \A fd, c : Server_Ping_Request(fd, c).type # "INVITE_REQ"
      /\ \A fd : RepeatedPing(fd).type # "INVITE_REQ"
  BY OtherPackets
<1>3. CASE Interrupt(lost)
  <2> DEFINE P == {Server_Exit_Request(clientList[i].fd, clientList[i].name) :
                      i \in DOMAIN clientList}
  <2>1. out' = Outcome(P, lost)
    BY <1>3 DEF Interrupt
  <2>2. Calm(P)
    BY <1>2
  <2> HIDE DEF P, Calm
  <2> QED
    BY <1>1, <2>1, <2>2
<1>4. CASE Idle(lost)
  <2> DEFINE pinged == {PingOf(i) : i \in Tried(lost)}
  <2>0. PICK q : \E pings : CheckPacketTimeOver(q, pings, pinged, lost)
    BY <1>4 DEF Idle
  <2>1. PICK pings : CheckPacketTimeOver(q, pings, pinged, lost)
    BY <2>0
  <2>2. Calm(pinged)
    BY <1>2 DEF PingOf
  <2> HIDE DEF pinged
  <2> DEFINE s == Server_Search_Client(Head(q).name)
             ping == Head(q).type = "PING_ACK"
             kicked == {Server_Exit_Request(clientList[s].fd, clientList[s].name)}
             repeated == {RepeatedPing(clientList[Server_Search_Client(w.name)].fd) :
                            w \in {Tail(q)[k] : k \in
                              {k \in DOMAIN Tail(q) : Tail(q)[k].type = "PING_ACK" /\
                                 Server_Search_Client(Tail(q)[k].name) # 0}}}
             last == IF ping THEN kicked ELSE {}
             once == {RepeatedPing(clientList[s].fd)}
  <2>3. \/ out' = Outcome(pinged, lost)
        \/ out' = Outcome(pinged \cup once, lost)
        \/ out' = Outcome(pinged \cup repeated \cup last, lost)
    BY <2>1 DEF CheckPacketTimeOver
  <2>4. Calm(kicked) /\ Calm(repeated) /\ Calm(once)
    BY <1>2
  <2>5. Calm(last)
    BY <2>4
  <2> HIDE DEF kicked, repeated, last, once
  <2>6. Calm(pinged \cup once) /\ Calm(pinged \cup repeated \cup last)
    BY <2>2, <2>4, <2>5
  <2> HIDE DEF Calm
  <2> QED
    BY <1>1, <2>2, <2>3, <2>6
<1> QED
  BY <1>3, <1>4

\* An invitation reaches only a client in no numbered room, also when the call
\* was forwarded: the busy test is made after forwarding.
THEOREM InvitedClientsAreFree == Spec => InvitedIsFree
<1>1. ASSUME IInv, Next, NEW i \in DOMAIN clientList,
             NEW p \in out'.sent \cup out'.refused,
             p.type = "INVITE_REQ", p.fd = clientList[i].fd
      PROVE  clientList[i].chatRoom = 0
  <2>1. CASE \E fd \in Fds : Accept(fd)
    <3>1. Silent
      BY <2>1 DEF Accept, Crash
    <3> QED
      BY <1>1, <3>1 DEF Silent
  <2>2. CASE \E j \in 1..MaxClients : Serve(j)
    BY <1>1, <2>2, NobodyElseInvites, InvitesOneThatIsFree
  <2>3. CASE \E lost \in Losses : Idle(lost) \/ Interrupt(lost)
    BY <1>1, <2>3, ScansInviteNobody
  <2>4. CASE Tick
    <3>1. Silent
      BY <2>4 DEF Tick
    <3> QED
      BY <1>1, <3>1 DEF Silent
  <2> QED
    BY <1>1, <2>1, <2>2, <2>3, <2>4 DEF Next
<1>2. IInv /\ [Next]_vars =>
         [\A i \in DOMAIN clientList, p \in out'.sent \cup out'.refused :
            p.type = "INVITE_REQ" /\ p.fd = clientList[i].fd => clientList[i].chatRoom = 0]_vars
  BY <1>1
<1> QED
  BY <1>2, InvariantHolds, PTL DEF InvitedIsFree, Spec

-----------------------------------------------------------------------------
(* What the server writes.                                                 *)

SentType == {"SIGN_UP_ACK", "LETTERING_ADD_ACK", "LETTERING_DEL_ACK",
             "REJECT_CALL_ADD_ACK", "REJECT_CALL_DEL_ACK", "CALL_FORWARDING_ADD_ACK",
             "CALL_FORWARDING_DEL_ACK", "CONN_ACK", "CREATE_CHATROOM_ACK",
             "EXIT_CHATROOM_ACK", "EXIT_ACK", "EXIT_REQ", "PING_REQ", "STR_REQ",
             "STR_ACK", "INVITE_REQ", "INVITE_ACK", "ALRAM_REQ"}
Body == {"", "text", "yes", "no", "busy", "YES", "NO"}

\* The packets whose names a client takes over, and the names they may have:
\* with no names none of them is a letter.
Naming == {"CONN_ACK", "STR_REQ", "INVITE_REQ"}
Letters(W) == {p \in [fd : Fds, type : SentType, src : AnyName, dst : AnyName, body : Body] :
                 p.type \in Naming => p.src \in W /\ p.dst \in W}

\* The step wrote finitely many packets, with names of W where it matters.
Sends(W) == IsFiniteSet(out'.sent) /\ out'.sent \subseteq Letters(W)

\* A packet made of a descriptor and names is a packet.
LEMMA PacketIsLetter ==
    ASSUME NEW W, NEW fd \in Fds, NEW type \in SentType, NEW src \in AnyName,
           NEW dst \in AnyName, NEW body \in Body,
           type \in Naming => src \in W /\ dst \in W
    PROVE  Packet(fd, type, src, dst, body) \in Letters(W)
BY DEF Packet, Letters

\* What is written is part of what a handler has to write.
LEMMA OutcomeIsPart ==
    ASSUME NEW W, NEW P, NEW lost, out' = Outcome(P, lost),
           IsFiniteSet(P), P \subseteq Letters(W)
    PROVE  Sends(W)
<1>1. out'.sent \subseteq P
  BY DEF Outcome
<1> QED
  BY <1>1, FS_Subset DEF Sends

\* A silent step writes nothing.
LEMMA SilentSends ==
    ASSUME NEW W, Silent
    PROVE  Sends(W)
<1>1. out'.sent = {}
  BY DEF Silent
<1> QED
  BY <1>1, FS_EmptySet DEF Sends

\* The image of a finite set is finite.
LEMMA ImageIsFinite ==
    ASSUME NEW S, IsFiniteSet(S), NEW f, DOMAIN f = S
    PROVE  IsFiniteSet({f[x] : x \in S})
<1> DEFINE T == {f[x] : x \in S}
           g == [x \in S |-> f[x]]
<1>1. g \in [S -> T]
  OBVIOUS
<1>2. \A y \in T : \E x \in S : g[x] = y
  OBVIOUS
<1>3. g \in Surjection(S, T)
  BY <1>1, <1>2 DEF Surjection
<1> HIDE DEF g, T
<1>4. IsFiniteSet(T)
  BY <1>3, FS_Surjection
<1> QED
  BY <1>4 DEF T

\* A packet that is held back when its name is empty.
LEMMA ToNamedSends ==
    ASSUME NEW W, NEW name, NEW p, name # NoName => p \in Letters(W)
    PROVE  IsFiniteSet(ToNamed(name, p)) /\ ToNamed(name, p) \subseteq Letters(W)
BY FS_EmptySet, FS_Singleton DEF ToNamed

\* The alarms of a room.
LEMMA AlarmsSend ==
    ASSUME NEW W, TypeOK, NEW r \in 0..Rooms, NEW fd
    PROVE  IsFiniteSet(Alarms(r, fd)) /\ Alarms(r, fd) \subseteq Letters(W)
<1>1. chatRoomList[r] \in Seq(Fds)
  BY DEF TypeOK
<1>2. Others(r, fd) \subseteq 1..Len(chatRoomList[r]) /\ Len(chatRoomList[r]) \in Nat
  BY <1>1 DEF Others
<1>3. IsFiniteSet(Others(r, fd))
  <2>1. IsFiniteSet(1..Len(chatRoomList[r]))
    BY <1>2, FS_Interval
  <2> QED
    BY <1>2, <2>1, FS_Subset
<1> DEFINE f == [j \in Others(r, fd) |-> Server_Alram_Request(chatRoomList[r][j])]
<1>4. Alarms(r, fd) = {f[j] : j \in Others(r, fd)}
  BY DEF Alarms
<1>5. IsFiniteSet({f[j] : j \in Others(r, fd)})
  <2>1. DOMAIN f = Others(r, fd)
    OBVIOUS
  <2> HIDE DEF f
  <2> QED
    BY <1>3, <2>1, ImageIsFinite
<1>6. ASSUME NEW j \in Others(r, fd)
      PROVE  Server_Alram_Request(chatRoomList[r][j]) \in Letters(W)
  <2>1. chatRoomList[r][j] \in Fds
    BY <1>1, <1>2
  <2>2. NoName \in AnyName
    BY DEF AnyName
  <2>3. Packet(chatRoomList[r][j], "ALRAM_REQ", NoName, NoName, "text") \in Letters(W)
    BY <2>1, <2>2, PacketIsLetter DEF SentType, Naming, Body
  <2> QED
    BY <2>3 DEF Server_Alram_Request
<1> QED
  BY <1>4, <1>5, <1>6 DEF Alarms

\* Every sender writes a packet of its type.
LEMMA SendersWrite ==
    ASSUME NEW W, NEW fd \in Fds, NEW a \in AnyName, NEW b \in AnyName, NEW body \in Body
    PROVE  /\ Server_Ping_Request(fd, a) \in Letters(W)
           /\ Server_Exit_Request(fd, a) \in Letters(W)
           /\ Server_Exit_Ack(fd, a) \in Letters(W)
           /\ RepeatedPing(fd) \in Letters(W)
           /\ {a, NoName} \subseteq W => Server_Chat_Request(fd, a) \in Letters(W)
           /\ {a, b} \subseteq W => Server_Invite_Client_Request(fd, a, b) \in Letters(W)
           /\ Server_Invite_Client_Ack(fd, a, b, body) \in Letters(W)
<1>1. NoName \in AnyName
  BY DEF AnyName
<1>2. /\ Packet(fd, "PING_REQ", NoName, a, "") \in Letters(W)
      /\ Packet(fd, "EXIT_REQ", NoName, a, "") \in Letters(W)
      /\ Packet(fd, "EXIT_ACK", NoName, a, "") \in Letters(W)
      /\ Packet(fd, "PING_REQ", NoName, NoName, "") \in Letters(W)
  BY <1>1, PacketIsLetter DEF SentType, Naming, Body
<1>3. /\ {a, NoName} \subseteq W => Packet(fd, "STR_REQ", a, NoName, "text") \in Letters(W)
      /\ {a, b} \subseteq W => Packet(fd, "INVITE_REQ", a, b, "") \in Letters(W)
  BY <1>1, PacketIsLetter DEF SentType, Naming, Body
<1>4. Packet(fd, "INVITE_ACK", a, b, body) \in Letters(W)
  BY PacketIsLetter DEF SentType, Naming
<1> QED
  BY <1>2, <1>3, <1>4 DEF Server_Ping_Request, Server_Exit_Request, Server_Exit_Ack,
     RepeatedPing, Server_Chat_Request, Server_Invite_Client_Request,
     Server_Invite_Client_Ack

\* So does every sender that looks at its name first.
LEMMA NamedSendersWrite ==
    ASSUME NEW W, NEW fd \in Fds, NEW a \in AnyName, NEW b \in AnyName, NEW req,
           NEW body \in Body
    PROVE  /\ {a, NoName} \subseteq W =>
                 /\ IsFiniteSet(Server_Ack_To_Client(fd, a, body))
                 /\ Server_Ack_To_Client(fd, a, body) \subseteq Letters(W)
           /\ IsFiniteSet(Server_Service_Ack(fd, a, req))
           /\ Server_Service_Ack(fd, a, req) \subseteq Letters(W)
           /\ IsFiniteSet(Server_Create_Chat_Room_Ack(fd, a))
           /\ Server_Create_Chat_Room_Ack(fd, a) \subseteq Letters(W)
           /\ IsFiniteSet(Server_Exit_Chat_Romm_Ack(fd, a))
           /\ Server_Exit_Chat_Romm_Ack(fd, a) \subseteq Letters(W)
           /\ IsFiniteSet(Server_Chat_Ack(fd, a, b))
           /\ Server_Chat_Ack(fd, a, b) \subseteq Letters(W)
<1>1. NoName \in AnyName /\ "" \in Body
  BY DEF AnyName, Body
<1>2. ServiceAck(req) \in SentType /\ ServiceAck(req) \notin Naming
  BY DEF ServiceAck, SentType, Naming
<1>3. {a, NoName} \subseteq W => Packet(fd, "CONN_ACK", NoName, a, body) \in Letters(W)
  BY <1>1, PacketIsLetter DEF SentType
<1>4. Packet(fd, ServiceAck(req), NoName, a, "") \in Letters(W)
  BY <1>1, <1>2, PacketIsLetter
<1>5. /\ Packet(fd, "CREATE_CHATROOM_ACK", NoName, a, "") \in Letters(W)
      /\ Packet(fd, "EXIT_CHATROOM_ACK", NoName, a, "") \in Letters(W)
      /\ Packet(fd, "STR_ACK", NoName, b, "") \in Letters(W)
  BY <1>1, PacketIsLetter DEF SentType, Naming
<1> QED
  BY <1>3, <1>4, <1>5, ToNamedSends DEF Server_Ack_To_Client, Server_Service_Ack,
     Server_Create_Chat_Room_Ack, Server_Exit_Chat_Romm_Ack, Server_Chat_Ack

\* The slots of the list hold descriptors and names.
LEMMA SlotType ==
    ASSUME IInv, NEW i \in DOMAIN clientList
    PROVE  /\ clientList[i].fd \in Fds /\ clientList[i].name \in AnyName
           /\ clientList[i].name \in ClientName /\ clientList[i].chatRoom \in 0..Rooms
<1>1. clientList[i] \in ClientRecord
  BY DEF IInv, TypeOK
<1> QED
  BY <1>1 DEF ClientRecord, AnyName

\* Two parts of what is written.
LEMMA PartsSend ==
    ASSUME NEW W, NEW P, NEW Q, NEW lost, out' = Outcome(P \cup Q, lost),
           IsFiniteSet(P), P \subseteq Letters(W), IsFiniteSet(Q), Q \subseteq Letters(W)
    PROVE  Sends(W)
<1>1. IsFiniteSet(P \cup Q) /\ P \cup Q \subseteq Letters(W)
  BY FS_Union
<1> QED
  BY <1>1, OutcomeIsPart

\* A handler that writes one packet.
LEMMA OneSends ==
    ASSUME NEW W, NEW p \in Letters(W), NEW lost, out' = Outcome({p}, lost)
    PROVE  Sends(W)
<1>1. IsFiniteSet({p})
  BY FS_Singleton
<1> QED
  BY <1>1, OutcomeIsPart

\* EXIT_REQ: the alarms of the room, and the goodbye.
LEMMA ExitReqSends ==
    ASSUME IInv, NEW i, NEW lost, ExitReq(i, lost)
    PROVE  Sends({})
<1> DEFINE fd == clientList[i].fd
           name == clientList[i].name
           r == clientList[i].chatRoom
           inRoom == r # 0 /\ deficit[r] # 1
           P == IF inRoom THEN Alarms(r, fd) ELSE {}
           Q == {Server_Exit_Ack(fd, name)}
<1>1. i \in DOMAIN clientList /\ out' = Outcome(P \cup Q, lost)
  BY DEF ExitReq, Reads
<1>2. fd \in Fds /\ name \in AnyName /\ r \in 0..Rooms
  BY <1>1, SlotType
<1> HIDE DEF fd, name, r
<1>3. IsFiniteSet(P) /\ P \subseteq Letters({})
  BY <1>2, AlarmsSend, FS_EmptySet DEF IInv
<1>4. "" \in Body
  BY DEF Body
<1>5. IsFiniteSet(Q) /\ Q \subseteq Letters({})
  <2>1. Server_Exit_Ack(fd, name) \in Letters({})
    BY <1>2, <1>4, SendersWrite
  <2> QED
    BY <2>1, FS_Singleton
<1> HIDE DEF P, Q
<1> QED
  BY <1>1, <1>3, <1>5, PartsSend

\* EXIT_CHATROOM_REQ: the alarms of the room, and the answer.
LEMMA ExitChatroomReqSends ==
    ASSUME IInv, NEW i, NEW name \in AnyName, NEW lost, ExitChatroomReq(i, name, lost)
    PROVE  Sends({})
<1> DEFINE fd == clientList[i].fd
           r == clientList[i].chatRoom
           P == Alarms(r, fd)
           Q == Server_Exit_Chat_Romm_Ack(fd, name)
<1>1. i \in DOMAIN clientList /\ out' = Outcome(P \cup Q, lost)
  BY DEF ExitChatroomReq, Reads
<1>2. fd \in Fds /\ r \in 0..Rooms
  BY <1>1, SlotType
<1> HIDE DEF fd, r
<1>3. IsFiniteSet(P) /\ P \subseteq Letters({})
  BY <1>2, AlarmsSend DEF IInv
<1>4. "" \in Body
  BY DEF Body
<1>5. IsFiniteSet(Q) /\ Q \subseteq Letters({})
  BY <1>2, <1>4, NamedSendersWrite
<1> HIDE DEF P, Q
<1> QED
  BY <1>1, <1>3, <1>5, PartsSend

\* Table requests and room requests are answered, or end in a fault.
LEMMA RequestSends ==
    ASSUME IInv, NEW i, NEW name \in AnyName, NEW lost, NEW req, NEW r,
           ServiceRequest(i, req, name, lost) \/ CreateChatroomReq(i, r, name, lost)
    PROVE  Sends({})
<1> DEFINE fd == clientList[i].fd
<1>1. i \in DOMAIN clientList
  BY DEF ServiceRequest, CreateChatroomReq, Reads
<1>2. fd \in Fds /\ "" \in Body
  BY <1>1, SlotType DEF Body
<1>3. CASE Silent
  BY <1>3, SilentSends
<1>4. CASE out' = Outcome(Server_Service_Ack(fd, name, req), lost)
  <2> HIDE DEF fd
  <2>1. /\ IsFiniteSet(Server_Service_Ack(fd, name, req))
        /\ Server_Service_Ack(fd, name, req) \subseteq Letters({})
    BY <1>2, NamedSendersWrite
  <2> QED
    BY <1>4, <2>1, OutcomeIsPart
<1>5. CASE out' = Outcome(Server_Create_Chat_Room_Ack(fd, name), lost)
  <2> HIDE DEF fd
  <2>1. /\ IsFiniteSet(Server_Create_Chat_Room_Ack(fd, name))
        /\ Server_Create_Chat_Room_Ack(fd, name) \subseteq Letters({})
    BY <1>2, NamedSendersWrite
  <2> QED
    BY <1>5, <2>1, OutcomeIsPart
<1> QED
  BY <1>3, <1>4, <1>5 DEF ServiceRequest, CreateChatroomReq, Crash

\* INVITE_ACK: the alarms of the room joined, and the reply.
LEMMA InviteAckSends ==
    ASSUME IInv, NEW i, NEW src \in AnyName, NEW dst \in AnyName, NEW answer \in Body,
           NEW lost, InviteAck(i, src, dst, answer, lost)
    PROVE  Sends({})
<1> DEFINE s == Server_Search_Client(src)
           r == clientList[s].chatRoom
           reply == {Server_Invite_Client_Ack(clientList[s].fd, src, dst, answer)}
<1>1. CASE Silent
  BY <1>1, SilentSends
<1>2. ASSUME s # 0
      PROVE  IsFiniteSet(reply) /\ reply \subseteq Letters({}) /\ r \in 0..Rooms
  <2>1. s \in DOMAIN clientList
    BY <1>2, SearchFinds DEF IInv, TypeOK
  <2>2. clientList[s].fd \in Fds /\ r \in 0..Rooms
    BY <2>1, SlotType
  <2> HIDE DEF s
  <2>3. Server_Invite_Client_Ack(clientList[s].fd, src, dst, answer) \in Letters({})
    BY <2>2, SendersWrite
  <2> QED
    BY <2>2, <2>3, FS_Singleton
<1>3. CASE s # 0 /\ out' = Outcome(reply, lost)
  <2> HIDE DEF reply, s
  <2> QED
    BY <1>2, <1>3, OutcomeIsPart
<1>4. CASE s # 0 /\ out' = Outcome(Alarms(r, clientList[i].fd) \cup reply, lost)
  <2> HIDE DEF reply, s, r
  <2>1. IsFiniteSet(Alarms(r, clientList[i].fd)) /\ Alarms(r, clientList[i].fd) \subseteq Letters({})
    BY <1>2, <1>4, AlarmsSend DEF IInv
  <2> QED
    BY <1>2, <1>4, <2>1, PartsSend
<1> QED
  BY <1>1, <1>3, <1>4 DEF InviteAck, Crash

\* STR_ACK: the message is acknowledged to its sender once the room has.
LEMMA StrAckSends ==
    ASSUME IInv, NEW i, NEW src \in AnyName, NEW dst \in AnyName, NEW lost,
           StrAck(i, src, dst, lost)
    PROVE  Sends({})
<1> DEFINE s == Server_Search_Client(src)
           P == Server_Chat_Ack(clientList[s].fd, src, dst)
<1>1. CASE Silent
  BY <1>1, SilentSends
<1>2. CASE out' = Outcome({}, lost)
  BY <1>2, OutcomeIsPart, FS_EmptySet
<1>3. CASE s # 0 /\ out' = Outcome(P, lost)
  <2>1. s \in DOMAIN clientList
    BY <1>3, SearchFinds DEF IInv, TypeOK
  <2>2. clientList[s].fd \in Fds /\ "" \in Body
    BY <2>1, SlotType DEF Body
  <2> HIDE DEF s
  <2>3. IsFiniteSet(P) /\ P \subseteq Letters({})
    BY <2>2, NamedSendersWrite
  <2> HIDE DEF P
  <2> QED
    BY <1>3, <2>3, OutcomeIsPart
<1> QED
  BY <1>1, <1>2, <1>3 DEF StrAck, Crash

\* CONN_REQ: the one answer, with the name asked for.
LEMMA ConnReqSends ==
    ASSUME IInv, NEW i, NEW name \in AnyName, NEW registered, NEW lost,
           ConnReq(i, name, registered, lost), NEW W, {name, NoName} \subseteq W
    PROVE  Sends(W)
<1> DEFINE fd == clientList[i].fd
           state == IF Admitted(name, registered) THEN "YES" ELSE "NO"
<1>1. i \in DOMAIN clientList /\ out' = Outcome(Server_Ack_To_Client(fd, name, state), lost)
  BY DEF ConnReq, Reads
<1>2. fd \in Fds /\ state \in Body
  BY <1>1, SlotType DEF Body
<1> HIDE DEF fd, state
<1>3. /\ IsFiniteSet(Server_Ack_To_Client(fd, name, state))
      /\ Server_Ack_To_Client(fd, name, state) \subseteq Letters(W)
  BY <1>2, NamedSendersWrite
<1> QED
  BY <1>1, <1>3, OutcomeIsPart

\* STR_REQ: the message for every other member, under its sender's name.
LEMMA StrReqSends ==
    ASSUME IInv, NEW i, NEW src \in AnyName, NEW lost, StrReq(i, src, lost),
           NEW W, {src, NoName} \subseteq W
    PROVE  /\ Sends(W)
           /\ \A p \in out'.sent : p.type = "STR_REQ"
<1> DEFINE fd == clientList[i].fd
           r == clientList[i].chatRoom
           f == [j \in Others(r, fd) |-> Server_Chat_Request(chatRoomList[r][j], src)]
           P == {Server_Chat_Request(chatRoomList[r][j], src) : j \in Others(r, fd)}
<1>1. i \in DOMAIN clientList
  BY DEF StrReq, Reads
<1>2. CASE Silent
  BY <1>2, SilentSends DEF Silent
<1>3. CASE out' = Outcome(P, lost)
  <2>1. fd \in Fds /\ r \in 0..Rooms
    BY <1>1, SlotType
  <2>2. chatRoomList[r] \in Seq(Fds)
    BY <2>1 DEF IInv, TypeOK
  <2>3. Others(r, fd) \subseteq 1..Len(chatRoomList[r]) /\ Len(chatRoomList[r]) \in Nat
    BY <2>2 DEF Others
  <2>4. IsFiniteSet(Others(r, fd))
    <3>1. IsFiniteSet(1..Len(chatRoomList[r]))
      BY <2>3, FS_Interval
    <3> QED
      BY <2>3, <3>1, FS_Subset
  <2>5. IsFiniteSet(P)
    <3>1. DOMAIN f = Others(r, fd) /\ P = {f[j] : j \in Others(r, fd)}
      OBVIOUS
    <3> HIDE DEF f, P
    <3> QED
      BY <2>4, <3>1, ImageIsFinite
  <2>6. ASSUME NEW j \in Others(r, fd)
        PROVE  /\ Server_Chat_Request(chatRoomList[r][j], src) \in Letters(W)
               /\ Server_Chat_Request(chatRoomList[r][j], src).type = "STR_REQ"
    <3>1. chatRoomList[r][j] \in Fds /\ "" \in Body /\ NoName \in AnyName
      BY <2>2, <2>3 DEF Body, AnyName
    <3>2. Server_Chat_Request(chatRoomList[r][j], src) \in Letters(W)
      BY <3>1, SendersWrite
    <3> QED
      BY <3>2 DEF Server_Chat_Request, Packet
  <2>7. P \subseteq Letters(W) /\ \A p \in P : p.type = "STR_REQ"
    BY <2>6
  <2> HIDE DEF P
  <2>8. out'.sent \subseteq P
    BY <1>3 DEF Outcome
  <2> QED
    BY <1>3, <2>5, <2>7, <2>8, OutcomeIsPart
<1> QED
  BY <1>2, <1>3 DEF StrReq

\* INVITE_REQ: a refusal to the inviter, or the invitation to the callee.
LEMMA InviteReqSends ==
    ASSUME IInv, NEW i, NEW src \in AnyName, NEW dst \in AnyName, NEW rejected,
           NEW forward \in AnyName, NEW lost,
           InviteReq(i, src, dst, rejected, forward, lost),
           NEW W, {src, dst, forward} \subseteq W
    PROVE  /\ Sends(W)
           /\ \A p \in out'.sent : p.type \in {"INVITE_ACK", "INVITE_REQ"}
<1> DEFINE fd == clientList[i].fd
           callee == IF Server_Search_Client(forward) # 0 THEN forward ELSE dst
           t == Server_Search_Client(callee)
           refusal(body, name) == Server_Invite_Client_Ack(fd, src, name, body)
           request == Server_Invite_Client_Request(clientList[t].fd, src, callee)
<1>1. i \in DOMAIN clientList /\ clientList \in Seq(ClientRecord)
  BY DEF InviteReq, Reads, IInv, TypeOK
<1>2. fd \in Fds /\ {"", "no", "busy"} \subseteq Body
  BY <1>1, SlotType DEF Body
<1>3. callee \in AnyName /\ callee \in W
  OBVIOUS
<1>4. ASSUME NEW p \in Letters(W), p.type \in {"INVITE_ACK", "INVITE_REQ"},
             out' = Outcome({p}, lost)
      PROVE  Sends(W) /\ \A q \in out'.sent : q.type \in {"INVITE_ACK", "INVITE_REQ"}
  BY <1>4, OneSends DEF Outcome
<1>5. ASSUME NEW body \in {"no", "busy"}, NEW name \in AnyName
      PROVE  refusal(body, name) \in Letters(W) /\ refusal(body, name).type = "INVITE_ACK"
  <2> HIDE DEF fd
  <2>1. Server_Invite_Client_Ack(fd, src, name, body) \in Letters(W)
    BY <1>2, SendersWrite
  <2> QED
    BY <2>1 DEF Server_Invite_Client_Ack, Packet
<1>6. ASSUME Server_Search_Client(dst) # 0
      PROVE  request \in Letters(W) /\ request.type = "INVITE_REQ"
  <2>1. t \in DOMAIN clientList
    BY <1>1, <1>6, SearchFinds
  <2>2. clientList[t].fd \in Fds
    BY <2>1, SlotType
  <2> HIDE DEF t, callee
  <2>3. request \in Letters(W)
    BY <1>2, <1>3, <2>2, SendersWrite
  <2> QED
    BY <2>3 DEF Server_Invite_Client_Request, Packet
<1>7. CASE Silent
  BY <1>7, SilentSends DEF Silent
<1>8. CASE out' = Outcome({refusal("no", dst)}, lost) \/ out' = Outcome({refusal("busy", callee)}, lost)
  <2> HIDE DEF callee, refusal
  <2> QED
    BY <1>3, <1>4, <1>5, <1>8
<1>9. CASE Server_Search_Client(dst) # 0 /\ out' = Outcome({request}, lost)
  <2> HIDE DEF request
  <2> QED
    BY <1>4, <1>6, <1>9
<1> QED
  BY <1>7, <1>8, <1>9 DEF InviteReq

\* SIGINT asks every client to exit.
LEMMA InterruptSends ==
    ASSUME IInv, NEW lost, Interrupt(lost)
    PROVE  Sends({})
<1> DEFINE f == [i \in DOMAIN clientList |->
                    Server_Exit_Request(clientList[i].fd, clientList[i].name)]
           P == {Server_Exit_Request(clientList[i].fd, clientList[i].name) :
                    i \in DOMAIN clientList}
<1>1. out' = Outcome(P, lost)
  BY DEF Interrupt
<1>2. IsFiniteSet(P)
  <2>1. DOMAIN f = DOMAIN clientList /\ P = {f[i] : i \in DOMAIN clientList}
    OBVIOUS
  <2>2. DOMAIN clientList = 1..Len(clientList) /\ Len(clientList) \in Nat
    BY DEF IInv, TypeOK
  <2>3. IsFiniteSet(DOMAIN clientList)
    BY <2>2, FS_Interval
  <2> HIDE DEF f, P
  <2> QED
    BY <2>1, <2>3, ImageIsFinite
<1>3. P \subseteq Letters({})
  <2>1. "" \in Body
    BY DEF Body
  <2>2. ASSUME NEW i \in DOMAIN clientList
        PROVE  Server_Exit_Request(clientList[i].fd, clientList[i].name) \in Letters({})
    BY <2>1, SlotType, SendersWrite
  <2> QED
    BY <2>2
<1> HIDE DEF P
<1> QED
  BY <1>1, <1>2, <1>3, OutcomeIsPart

\* The idle scans ping, and ask one client to exit.
LEMMA IdleSends ==
    ASSUME IInv, NEW lost, Idle(lost)
    PROVE  Sends({})
<1> DEFINE ping0 == [i \in Tried(lost) |-> PingOf(i)]
           pinged == {PingOf(i) : i \in Tried(lost)}
<1>1. PICK q \in Seq(WaitRecord) : \E pings : CheckPacketTimeOver(q, pings, pinged, lost)
  BY IdleChecks
<1>2. PICK pings : CheckPacketTimeOver(q, pings, pinged, lost)
  BY <1>1
<1>3. clientList \in Seq(ClientRecord)
  BY DEF IInv, TypeOK
<1>4. IsFiniteSet(pinged) /\ pinged \subseteq Letters({})
  <2>0. DOMAIN clientList = 1..Len(clientList) /\ Len(clientList) \in Nat
    BY <1>3
  <2>1. Tried(lost) \subseteq 1..Len(clientList) /\ Len(clientList) \in Nat
    BY <2>0 DEF Tried, Due
  <2>2. IsFiniteSet(1..Len(clientList))
    BY <2>1, FS_Interval
  <2>3. IsFiniteSet(Tried(lost))
    BY <2>1, <2>2, FS_Subset
  <2>4. IsFiniteSet(pinged)
    <3>1. DOMAIN ping0 = Tried(lost) /\ pinged = {ping0[i] : i \in Tried(lost)}
      OBVIOUS
    <3> HIDE DEF ping0, pinged
    <3> QED
      BY <2>3, <3>1, ImageIsFinite
  <2>5. ASSUME NEW i \in Tried(lost) PROVE PingOf(i) \in Letters({})
    <3>1. i \in DOMAIN clientList /\ "" \in Body
      BY <2>0, <2>1 DEF Body
    <3>2. clientList[i].fd \in Fds /\ clientList[i].name \in AnyName
      BY <3>1, SlotType
    <3>3. Server_Ping_Request(clientList[i].fd, clientList[i].name) \in Letters({})
      BY <3>1, <3>2, SendersWrite
    <3> QED
      BY <3>3 DEF PingOf
  <2> QED
    BY <2>4, <2>5
<1> HIDE DEF pinged
<1> DEFINE s == Server_Search_Client(Head(q).name)
           isPing1 == Head(q).type = "PING_ACK"
           kicked == {Server_Exit_Request(clientList[s].fd, clientList[s].name)}
           due == {k \in DOMAIN Tail(q) : Tail(q)[k].type = "PING_ACK" /\
                                Server_Search_Client(Tail(q)[k].name) # 0}
           again == [k \in due |-> RepeatedPing(clientList[Server_Search_Client(Tail(q)[k].name)].fd)]
           repeated == {RepeatedPing(clientList[Server_Search_Client(w.name)].fd) :
                          w \in {Tail(q)[k] : k \in due}}
           last == IF isPing1 THEN kicked ELSE {}
           once == {RepeatedPing(clientList[s].fd)}
<1>5. \/ out' = Outcome(pinged, lost)
      \/ s # 0 /\ out' = Outcome(pinged \cup once, lost)
      \/ /\ q # <<>> /\ (isPing1 => s # 0)
         /\ out' = Outcome(pinged \cup (repeated \cup last), lost)
  <2>1. pinged \cup repeated \cup last = pinged \cup (repeated \cup last)
    OBVIOUS
  <2> QED
    BY <1>2, <2>1 DEF CheckPacketTimeOver
<1>6. ASSUME s # 0
      PROVE  IsFiniteSet(once) /\ once \subseteq Letters({})
             /\ IsFiniteSet(kicked) /\ kicked \subseteq Letters({})
  <2>1. s \in DOMAIN clientList /\ "" \in Body
    BY <1>3, <1>6, SearchFinds DEF Body
  <2> HIDE DEF s
  <2>2. clientList[s].fd \in Fds /\ clientList[s].name \in AnyName
    BY <2>1, SlotType
  <2>3. /\ RepeatedPing(clientList[s].fd) \in Letters({})
        /\ Server_Exit_Request(clientList[s].fd, clientList[s].name) \in Letters({})
    BY <2>1, <2>2, SendersWrite
  <2> QED
    BY <2>3, FS_Singleton
<1>7. ASSUME q # <<>>
      PROVE  IsFiniteSet(repeated) /\ repeated \subseteq Letters({})
  <2>1. due \subseteq 1..Len(Tail(q)) /\ Len(Tail(q)) \in Nat
    BY <1>7
  <2>2. IsFiniteSet(1..Len(Tail(q)))
    BY <2>1, FS_Interval
  <2>3. IsFiniteSet(due)
    BY <2>1, <2>2, FS_Subset
  <2>4. repeated = {again[k] : k \in due} /\ DOMAIN again = due
    OBVIOUS
  <2>5. ASSUME NEW k \in due PROVE again[k] \in Letters({})
    <3>1. Server_Search_Client(Tail(q)[k].name) \in DOMAIN clientList
      BY <1>3, SearchFinds
    <3>2. clientList[Server_Search_Client(Tail(q)[k].name)].fd \in Fds
      BY <3>1, SlotType
    <3>3. NoName \in AnyName /\ "" \in Body
      BY DEF AnyName, Body
    <3>4. RepeatedPing(clientList[Server_Search_Client(Tail(q)[k].name)].fd) \in Letters({})
      BY <3>2, <3>3, SendersWrite
    <3> QED
      BY <3>4
  <2> HIDE DEF again, due
  <2>6. IsFiniteSet({again[k] : k \in due})
    BY <2>3, <2>4, ImageIsFinite
  <2>7. {again[k] : k \in due} \subseteq Letters({})
    BY <2>5
  <2> HIDE DEF repeated
  <2> QED
    BY <2>4, <2>6, <2>7
<1> HIDE DEF s, isPing1, kicked, repeated, once
<1>8. out' = Outcome(pinged, lost) => Sends({})
  BY <1>4, OutcomeIsPart
<1>9. s # 0 /\ out' = Outcome(pinged \cup once, lost) => Sends({})
  BY <1>4, <1>6, PartsSend
<1>10. ASSUME q # <<>>, isPing1 => s # 0, out' = Outcome(pinged \cup (repeated \cup last), lost)
       PROVE  Sends({})
  <2>1. IsFiniteSet(last) /\ last \subseteq Letters({})
    BY <1>6, <1>10, FS_EmptySet
  <2> HIDE DEF last
  <2>2. IsFiniteSet(repeated \cup last) /\ repeated \cup last \subseteq Letters({})
    BY <1>7, <1>10, <2>1, FS_Union
  <2> QED
    BY <1>4, <1>10, <2>2, PartsSend
<1>11. \/ out' = Outcome(pinged, lost)
       \/ s # 0 /\ out' = Outcome(pinged \cup once, lost)
       \/ /\ q # <<>> /\ (isPing1 => s # 0)
          /\ out' = Outcome(pinged \cup (repeated \cup last), lost)
  BY <1>5 DEF s, isPing1, kicked, repeated, once
<1> HIDE DEF last, due, again
<1> QED
  BY <1>8, <1>9, <1>10, <1>11

-----------------------------------------------------------------------------
(* Who is listed, and under which name.                                    *)

\* Slot i before the step and slot k after it are of one client.
SameClient(i, k) ==
    clientList'[k].fd = clientList[i].fd /\ clientList'[k].name = clientList[i].name
\* Nobody is listed who was not, or under another name, and those who are no
\* longer have lost their connection.
NamesStay ==
    /\ \A k \in DOMAIN clientList' : \E i \in DOMAIN clientList : SameClient(i, k)
    /\ \A i \in DOMAIN clientList : clientList[i].fd \in openFds' =>
          \E k \in DOMAIN clientList' : SameClient(i, k)

\* Most handlers change an age, and at most a room.
LEMMA RefreshedNames ==
    ASSUME IInv, NEW i \in DOMAIN clientList, NEW d \in DOMAIN clientList, NEW room,
           clientList' \in {clientList, Refreshed(i), [Refreshed(i) EXCEPT ![d].chatRoom = room]}
    PROVE  NamesStay
<1>1. clientList \in Seq(ClientRecord)
  BY DEF IInv, TypeOK
<1> DEFINE old == Refreshed(i)
           new == [old EXCEPT ![d].chatRoom = room]
<1>2. /\ old \in Seq(ClientRecord) /\ DOMAIN old = DOMAIN clientList
      /\ \A k \in DOMAIN clientList :
            old[k].name = clientList[k].name /\ old[k].fd = clientList[k].fd
  BY <1>1, RefreshedType
<1>3. DOMAIN new = DOMAIN clientList
  BY <1>2
<1>4. ASSUME NEW k \in DOMAIN clientList
      PROVE  new[k].name = clientList[k].name /\ new[k].fd = clientList[k].fd
  <2>1. old[k] \in ClientRecord
    BY <1>2
  <2>2. [old[k] EXCEPT !.chatRoom = room].name = old[k].name
        /\ [old[k] EXCEPT !.chatRoom = room].fd = old[k].fd
    BY <2>1 DEF ClientRecord
  <2>3. new[k] = IF k = d THEN [old[k] EXCEPT !.chatRoom = room] ELSE old[k]
    BY <1>2
  <2> HIDE DEF new, old
  <2> QED
    BY <1>2, <2>2, <2>3
<1>5. /\ DOMAIN clientList' = DOMAIN clientList
      /\ \A k \in DOMAIN clientList : SameClient(k, k)
  <2> HIDE DEF new, old
  <2>1. clientList' \in {clientList, old, new}
    BY DEF old, new
  <2> QED
    BY <1>2, <1>3, <1>4, <2>1 DEF SameClient
<1> QED
  BY <1>5 DEF NamesStay

\* Deletion moves whole slots, and closes the descriptor of the one deleted.
LEMMA DeletedNames ==
    ASSUME IInv, NEW d \in DOMAIN clientList, Server_Del_Client_List(d)
    PROVE  NamesStay
<1>1. clientList \in Seq(ClientRecord) /\ UniqueClients
      /\ clientList' = WithoutClient(clientList, d)
      /\ openFds' = openFds \ {clientList[d].fd}
  BY DEF IInv, TypeOK, Server_Del_Client_List
<1>2. /\ Len(clientList) \in Nat /\ DOMAIN clientList = 1..Len(clientList)
      /\ Len(clientList') = Len(clientList) - 1 /\ clientList' \in Seq(ClientRecord)
      /\ \A m \in 1..(Len(clientList) - 1) :
            clientList'[m] = clientList[IF m < d THEN m ELSE m + 1]
  <2>1. Len(clientList) \in Nat /\ DOMAIN clientList = 1..Len(clientList)
    BY <1>1
  <2> DEFINE list == WithoutClient(clientList, d)
  <2>2. /\ Len(list) = Len(clientList) - 1 /\ list \in Seq(ClientRecord)
        /\ \A m \in 1..(Len(clientList) - 1) :
              list[m] = clientList[IF m < d THEN m ELSE m + 1]
    BY <1>1, WithoutClientShifts
  <2> QED
    BY <1>1, <2>1, <2>2
<1>3. DOMAIN clientList' = 1..(Len(clientList) - 1) /\ d \in 1..Len(clientList)
  BY <1>2
<1>4. ASSUME NEW k \in DOMAIN clientList'
      PROVE  \E i \in DOMAIN clientList : SameClient(i, k)
  <2>1. (IF k < d THEN k ELSE k + 1) \in DOMAIN clientList
    BY <1>2, <1>3
  <2> QED
    BY <1>2, <1>3, <2>1 DEF SameClient
<1>5. ASSUME NEW i \in DOMAIN clientList, clientList[i].fd \in openFds'
      PROVE  \E k \in DOMAIN clientList' : SameClient(i, k)
  <2>1. i # d
    BY <1>1, <1>5
  <2>2. CASE i < d
    <3>1. i \in DOMAIN clientList' /\ clientList'[i] = clientList[i]
      BY <1>2, <1>3, <2>2
    <3> QED
      BY <3>1 DEF SameClient
  <2>3. CASE i > d
    <3>1. i - 1 \in DOMAIN clientList' /\ ~(i - 1 < d) /\ (i - 1) + 1 = i
      BY <1>2, <1>3, <2>3
    <3>2. clientList'[i - 1] = clientList[i]
      BY <1>2, <1>3, <3>1
    <3> QED
      BY <3>1, <3>2 DEF SameClient
  <2> QED
    BY <1>2, <1>3, <2>1, <2>2, <2>3
<1> QED
  BY <1>4, <1>5 DEF NamesStay

\* A second changes no name, and the end of the server leaves none.
LEMMA ClockNames ==
    ASSUME IInv, NEW lost, Tick \/ Idle(lost) \/ Interrupt(lost)
    PROVE  NamesStay
<1>1. clientList \in Seq(ClientRecord)
  BY DEF IInv, TypeOK
<1>2. CASE Idle(lost)
  BY <1>2 DEF Idle, NamesStay, SameClient
<1>3. CASE Interrupt(lost)
  BY <1>3 DEF Interrupt, NamesStay
<1>4. CASE Tick
  <2>1. DOMAIN clientList' = DOMAIN clientList
    BY <1>4 DEF Tick
  <2>2. ASSUME NEW k \in DOMAIN clientList PROVE SameClient(k, k)
    <3>1. clientList[k] \in ClientRecord
      BY <1>1
    <3>2. clientList'[k] = [clientList[k] EXCEPT !.age = Older(@, IdleLimit)]
      BY <1>4 DEF Tick
    <3> QED
      BY <3>1, <3>2 DEF SameClient, ClientRecord
  <2> QED
    BY <2>1, <2>2 DEF NamesStay
<1> QED
  BY <1>2, <1>3, <1>4

\* A packet other than CONN_REQ names nobody.
LEMMA HandledNames ==
    ASSUME IInv, NEW i, NEW a, NEW b, NEW body, NEW n, NEW lost,
           \/ ReadNothing(i) \/ AllUserReq(i) \/ ExitAck(i) \/ AlramAck(i) \/ PingAck(i)
           \/ ExitReq(i, lost) \/ ServiceRequest(i, n, a, lost)
           \/ CreateChatroomReq(i, n, a, lost) \/ ExitChatroomReq(i, a, lost)
           \/ InviteReq(i, a, b, body, n, lost) \/ InviteAck(i, a, b, body, lost)
           \/ StrReq(i, a, lost) \/ StrAck(i, a, b, lost)
    PROVE  NamesStay
<1>1. i \in DOMAIN clientList /\ clientList \in Seq(ClientRecord) /\ UniqueClients
  BY DEF ReadNothing, AllUserReq, ExitAck, AlramAck, PingAck, ExitReq, ServiceRequest,
         CreateChatroomReq, ExitChatroomReq, InviteReq, InviteAck, StrReq, StrAck, Reads,
         IInv, TypeOK
<1>2. CASE ExitReq(i, lost) \/ ExitAck(i)
  <2>1. Server_Del_Client_List(i)
    BY <1>1, <1>2, SearchOwnName DEF ExitReq, ExitAck
  <2> QED
    BY <1>1, <2>1, DeletedNames
<1>3. CASE clientList' = clientList \/ clientList' = Refreshed(i)
  BY <1>1, <1>3, RefreshedNames
<1>4. CASE \E d \in DOMAIN clientList : \E r :
              clientList' = [Refreshed(i) EXCEPT ![d].chatRoom = r]
  <2>1. PICK d \in DOMAIN clientList :
           \E r : clientList' = [Refreshed(i) EXCEPT ![d].chatRoom = r]
    BY <1>4
  <2>2. PICK r : clientList' = [Refreshed(i) EXCEPT ![d].chatRoom = r]
    BY <2>1
  <2> DEFINE new == [Refreshed(i) EXCEPT ![d].chatRoom = r]
  <2>3. clientList' \in {clientList, Refreshed(i), new}
    BY <2>2
  <2> QED
    BY <1>1, <2>3, RefreshedNames
<1>5. CASE \/ ReadNothing(i) \/ AllUserReq(i) \/ AlramAck(i) \/ PingAck(i)
           \/ ServiceRequest(i, n, a, lost) \/ InviteReq(i, a, b, body, n, lost)
           \/ StrReq(i, a, lost) \/ StrAck(i, a, b, lost)
  BY <1>3, <1>5 DEF ReadNothing, AllUserReq, AlramAck, PingAck, ServiceRequest, InviteReq,
     StrReq, StrAck, OnlyRefreshed, Crash
<1>6. CASE CreateChatroomReq(i, n, a, lost) \/ ExitChatroomReq(i, a, lost)
  BY <1>1, <1>3, <1>4, <1>6 DEF CreateChatroomReq, ExitChatroomReq, Crash
<1>7. CASE InviteAck(i, a, b, body, lost)
  <2>1. Server_Search_Client(b) # 0 => Server_Search_Client(b) \in DOMAIN clientList
    BY <1>1, SearchFinds
  <2> QED
    BY <1>3, <1>4, <1>7, <2>1 DEF InviteAck, OnlyRefreshed, Crash
<1> QED
  BY <1>2, <1>5, <1>6, <1>7

\* A new connection changes nobody; if it is listed, it has no user's name yet.
LEMMA AcceptedNames ==
    ASSUME IInv, NEW fd \in Fds, Accept(fd)
    PROVE  /\ fd \notin openFds /\ openFds \subseteq openFds'
           /\ status' = "running" => fd \in openFds'
           /\ \A k \in DOMAIN clientList' :
                 \/ \E i \in DOMAIN clientList : SameClient(i, k)
                 \/ clientList'[k].fd = fd /\ clientList'[k].name \in Placeholder
           /\ \A i \in DOMAIN clientList : \E k \in DOMAIN clientList' : SameClient(i, k)
<1> DEFINE new == [name |-> Len(clientList), fd |-> fd, chatRoom |-> 0, age |-> 0]
<1>1. /\ clientList \in Seq(ClientRecord) /\ Len(clientList) \in Nat
      /\ Len(clientList) <= MaxClients /\ MaxClients \in Nat
      /\ DOMAIN clientList = 1..Len(clientList)
  BY ChatServerAssumption DEF IInv, TypeOK
<1>2. fd \notin openFds /\ openFds \subseteq openFds' /\ (status' = "running" => fd \in openFds')
  BY DEF Accept, Crash, Faults
<1>3. clientList' = clientList \/ clientList' = Append(clientList, new)
  BY DEF Accept, Crash
<1>4. CASE clientList' = clientList
  BY <1>2, <1>4 DEF SameClient
<1>5. CASE clientList' = Append(clientList, new)
  <2> HIDE DEF new
  <2>1. /\ DOMAIN clientList' = 1..(Len(clientList) + 1)
        /\ \A k \in 1..Len(clientList) : clientList'[k] = clientList[k]
        /\ clientList'[Len(clientList) + 1] = new
    BY <1>1, <1>5
  <2>2. new.fd = fd /\ new.name \in Placeholder
    BY <1>1 DEF new, Placeholder
  <2>3. ASSUME NEW k \in 1..Len(clientList)
        PROVE  k \in DOMAIN clientList /\ k \in DOMAIN clientList' /\ SameClient(k, k)
    BY <1>1, <2>1 DEF SameClient
  <2> QED
    BY <1>1, <1>2, <2>1, <2>2, <2>3
<1> QED
  BY <1>3, <1>4, <1>5

\* A login that is accepted gives the slot the name of its answer; one that is
\* not is answered without a welcome.
LEMMA LoginNames ==
    ASSUME IInv, NEW i, NEW name, NEW registered, NEW lost,
           ConnReq(i, name, registered, lost)
    PROVE  \/ /\ registered /\ name # NoName
              /\ DOMAIN clientList' = DOMAIN clientList
              /\ \A k \in DOMAIN clientList :
                    /\ clientList'[k].fd = clientList[k].fd
                    /\ clientList'[k].name = IF k = i THEN name ELSE clientList[k].name
              /\ \A p \in out'.sent :
                    p = Packet(clientList[i].fd, "CONN_ACK", NoName, name, "YES")
              /\ clientList[i].fd \in openFds \ lost => out'.sent # {}
           \/ NamesStay /\ \A p \in out'.sent : p.body = "NO"
<1>1. i \in DOMAIN clientList /\ clientList \in Seq(ClientRecord)
  BY DEF ConnReq, Reads, IInv, TypeOK
<1> DEFINE yes == Packet(clientList[i].fd, "CONN_ACK", NoName, name, "YES")
           no == Packet(clientList[i].fd, "CONN_ACK", NoName, name, "NO")
<1>2. CASE ~ Admitted(name, registered)
  <2>1. clientList' = Refreshed(i) /\ out' = Outcome(ToNamed(name, no), lost)
    BY <1>2 DEF ConnReq, Server_Ack_To_Client
  <2>2. NamesStay
    BY <1>1, <2>1, RefreshedNames
  <2>3. no.body = "NO"
    BY DEF Packet
  <2> HIDE DEF no
  <2>4. \A p \in out'.sent : p.body = "NO"
    BY <2>1, <2>3 DEF Outcome, ToNamed
  <2> QED
    BY <2>2, <2>4
<1>3. CASE Admitted(name, registered)
  <2>1. /\ registered /\ name # NoName
        /\ clientList' = [Refreshed(i) EXCEPT ![i].name = name]
        /\ out' = Outcome(ToNamed(name, yes), lost)
    BY <1>3 DEF ConnReq, Server_Ack_To_Client, Admitted
  <2> DEFINE old == Refreshed(i)
             renamed == [old[i] EXCEPT !.name = name]
  <2>2. /\ old \in Seq(ClientRecord) /\ DOMAIN old = DOMAIN clientList
        /\ \A k \in DOMAIN clientList :
              old[k].name = clientList[k].name /\ old[k].fd = clientList[k].fd
    BY <1>1, RefreshedType
  <2>3. renamed.fd = clientList[i].fd /\ renamed.name = name
    <3>1. old[i] \in ClientRecord
      BY <1>1, <2>2
    <3> QED
      BY <1>1, <2>2, <3>1 DEF ClientRecord
  <2>4. clientList' = [old EXCEPT ![i] = renamed]
    BY <2>1
  <2> HIDE DEF old, renamed
  <2>5. /\ DOMAIN clientList' = DOMAIN clientList
        /\ \A k \in DOMAIN clientList :
              /\ clientList'[k].fd = clientList[k].fd
              /\ clientList'[k].name = IF k = i THEN name ELSE clientList[k].name
    BY <1>1, <2>2, <2>3, <2>4
  <2>6. yes.fd = clientList[i].fd
    BY DEF Packet
  <2> HIDE DEF yes
  <2>7. /\ \A p \in out'.sent : p = yes
        /\ clientList[i].fd \in openFds \ lost => yes \in out'.sent
    BY <2>1, <2>6 DEF Outcome, ToNamed, Accepts
  <2> QED
    BY <2>1, <2>5, <2>7 DEF yes
<1> QED
  BY <1>2, <1>3
=============================================================================
