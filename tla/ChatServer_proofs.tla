-------------------------- MODULE ChatServer_proofs --------------------------
(***************************************************************************)
(* The client list, the rooms and the queue of ChatServer keep their       *)
(* invariants for every number of clients, rooms and nodes.                *)
(***************************************************************************)
EXTENDS ChatServer, FiniteSetTheorems, TLAPS

-----------------------------------------------------------------------------
(* What the helpers return.                                                *)

\* A search answers 0 or the index of a client with the name asked for.
LEMMA SearchFinds ==
    ASSUME clientList \in Seq(ClientRecord), NEW name
    PROVE  /\ Server_Search_Client(name) \in {0} \cup DOMAIN clientList
           /\ Server_Search_Client(name) # 0 =>
                 clientList[Server_Search_Client(name)].name = name
BY DEF Server_Search_Client

\* When a search answers 0 no client has the name.
LEMMA SearchFails ==
    ASSUME clientList \in Seq(ClientRecord), NEW name, Server_Search_Client(name) = 0
    PROVE  \A i \in DOMAIN clientList : clientList[i].name # name
<1> SUFFICES ASSUME \E i \in DOMAIN clientList : clientList[i].name = name
             PROVE  FALSE
  OBVIOUS
<1>1. Server_Search_Client(name) \in DOMAIN clientList
  BY DEF Server_Search_Client
<1> QED
  BY <1>1

\* While names are unique a client's own name leads to its own slot.
LEMMA SearchOwnName ==
    ASSUME clientList \in Seq(ClientRecord), UniqueClients,
           NEW i \in DOMAIN clientList
    PROVE  Server_Search_Client(clientList[i].name) = i
<1> DEFINE s == Server_Search_Client(clientList[i].name)
<1>1. s \in DOMAIN clientList /\ clientList[s].name = clientList[i].name
  BY DEF Server_Search_Client
<1> QED
  BY <1>1 DEF UniqueClients

\* Deletion leaves the other slots in order.
LEMMA WithoutClientShifts ==
    ASSUME NEW S, NEW list \in Seq(S), NEW d \in DOMAIN list
    PROVE  /\ WithoutClient(list, d) \in Seq(S)
           /\ Len(WithoutClient(list, d)) = Len(list) - 1
           /\ \A k \in 1..(Len(list) - 1) :
                 WithoutClient(list, d)[k] = list[IF k < d THEN k ELSE k + 1]
<1>1. Len(list) \in Nat /\ d \in 1..Len(list) /\ DOMAIN list = 1..Len(list)
  OBVIOUS
<1>2. \A k \in 1..(Len(list) - 1) : k \in 1..Len(list) /\ k + 1 \in 1..Len(list)
  BY <1>1
<1>3. WithoutClient(list, d) \in [1..(Len(list) - 1) -> S]
  BY <1>1, <1>2 DEF WithoutClient
<1> QED
  BY <1>1, <1>3 DEF WithoutClient

\* Removal from a room: the cells stay descriptors, there is one less if
\* there was any, and every other member is kept if the one removed was in.
LEMMA WithoutMemberType ==
    ASSUME NEW S, NEW cells \in Seq(S), NEW fd
    PROVE  /\ WithoutMember(cells, fd) \in Seq(S)
           /\ Len(WithoutMember(cells, fd)) <= Len(cells)
           /\ \A k \in 1..(Len(cells) - 1) : WithoutMember(cells, fd)[k] =
                 IF \E j \in 1..k : cells[j] = fd THEN cells[k + 1] ELSE cells[k]
<1>1. Len(cells) \in Nat /\ DOMAIN cells = 1..Len(cells)
  OBVIOUS
<1>2. \A k \in 1..(Len(cells) - 1) : k \in 1..Len(cells) /\ k + 1 \in 1..Len(cells)
  BY <1>1
<1>3. WithoutMember(cells, fd) \in [1..(Len(cells) - 1) -> S]
  BY <1>1, <1>2 DEF WithoutMember
<1>4. CASE Len(cells) = 0
  <2>1. 1..(Len(cells) - 1) = {} /\ 1..0 = {}
    BY <1>4
  <2>2. WithoutMember(cells, fd) \in [1..0 -> S]
    BY <1>3, <2>1
  <2> QED
    BY <2>1, <2>2, <1>4
<1>5. CASE Len(cells) # 0
  BY <1>1, <1>3, <1>5 DEF WithoutMember
<1> QED
  BY <1>4, <1>5

\* When the one removed was a member, every other member keeps a cell.
LEMMA WithoutMemberKeeps ==
    ASSUME NEW S, NEW cells \in Seq(S), NEW fd, NEW m, m # fd,
           \E j \in DOMAIN cells : cells[j] = fd,
           \E j \in DOMAIN cells : cells[j] = m
    PROVE  \E j \in DOMAIN WithoutMember(cells, fd) : WithoutMember(cells, fd)[j] = m
<1>1. Len(cells) \in Nat /\ DOMAIN cells = 1..Len(cells)
  OBVIOUS
<1>2. DOMAIN WithoutMember(cells, fd) = 1..(Len(cells) - 1)
  BY DEF WithoutMember
<1>3. PICK j \in 1..Len(cells) : cells[j] = m
  BY <1>1
<1>4. PICK f \in 1..Len(cells) : cells[f] = fd
  BY <1>1
<1>5. CASE \E p \in 1..j : cells[p] = fd
  <2>1. PICK p \in 1..j : cells[p] = fd
    BY <1>5
  <2>2. p \in 1..(j - 1) /\ j - 1 \in 1..(Len(cells) - 1)
    BY <2>1, <1>3, <1>1
  <2>3. WithoutMember(cells, fd)[j - 1] = cells[(j - 1) + 1]
    BY <2>1, <2>2 DEF WithoutMember
  <2>4. (j - 1) + 1 = j
    BY <1>3
  <2> QED
    BY <1>2, <1>3, <2>2, <2>3, <2>4
<1>6. CASE ~ \E p \in 1..j : cells[p] = fd
  <2>1. j \in 1..(Len(cells) - 1)
    BY <1>1, <1>3, <1>4, <1>6
  <2>2. WithoutMember(cells, fd)[j] = cells[j]
    BY <2>1, <1>6 DEF WithoutMember
  <2> QED
    BY <1>2, <1>3, <2>1, <2>2
<1> QED
  BY <1>5, <1>6

\* A push never takes more nodes than the pool has.
LEMMA PushAllFits ==
    ASSUME NEW S, NEW q \in Seq(S), NEW waits \in Seq(S), Len(q) <= PoolSize
    PROVE  PushAll(q, waits) \in Seq(S) /\ Len(PushAll(q, waits)) <= PoolSize
<1>1. PoolSize \in Nat
  BY ChatServerAssumption
<1> DEFINE n == IF Len(q) + Len(waits) < PoolSize THEN Len(q) + Len(waits) ELSE PoolSize
<1>2. q \o waits \in Seq(S) /\ Len(q \o waits) = Len(q) + Len(waits)
  OBVIOUS
<1>3. n \in 0..Len(q \o waits) /\ n <= PoolSize
  BY <1>1, <1>2
<1>4. SubSeq(q \o waits, 1, n) \in Seq(S) /\ Len(SubSeq(q \o waits, 1, n)) = n
  BY <1>2, <1>3
<1> QED
  BY <1>3, <1>4 DEF PushAll

\* Popping the head leaves one wait less.
LEMMA TailShrinks ==
    ASSUME NEW S, NEW q \in Seq(S), q # <<>>
    PROVE  Tail(q) \in Seq(S) /\ Len(Tail(q)) = Len(q) - 1
OBVIOUS

\* An acknowledgement never lengthens the queue of waits.
LEMMA PopOnAckFits ==
    ASSUME MallocQ \in Seq(WaitRecord), Len(MallocQ) <= PoolSize, NEW type
    PROVE  PopOnAck(type) \in Seq(WaitRecord) /\ Len(PopOnAck(type)) <= PoolSize
BY TailShrinks, ChatServerAssumption DEF PopOnAck

\* The members reached can be counted, so copies of a wait form a sequence.
LEMMA CopiesType ==
    ASSUME NEW r, NEW fd, NEW lost, chatRoomList[r] \in Seq(Fds),
           NEW S, NEW wait \in S
    PROVE  Copies(Cardinality(Reached(r, fd, lost)), wait) \in Seq(S)
<1>1. Reached(r, fd, lost) \subseteq 1..Len(chatRoomList[r])
  BY DEF Reached, Others
<1>2. IsFiniteSet(1..Len(chatRoomList[r]))
  BY FS_Interval
<1>3. Cardinality(Reached(r, fd, lost)) \in Nat
  BY <1>1, <1>2, FS_Subset, FS_CardinalityType
<1> QED
  BY <1>3 DEF Copies

-----------------------------------------------------------------------------
(* The inductive invariant, and how a handler's parts keep its conjuncts.  *)

\* UniqueClients makes a search by name find the slot a handler means,
\* RoomListsMember makes every decrement of a numbered room find a member.
IInv == TypeOK /\ UniqueClients /\ RoomListsMember /\ CountsNonNegative

Member(r, fd) == \E j \in DOMAIN chatRoomList[r] : chatRoomList[r][j] = fd
\* No descriptor but fd disappears from a numbered room in this step.
MembersStay(fd) ==
    \A s \in 1..Rooms, m \in Fds : m # fd /\ Member(s, m) => Member(s, m)'

\* Setting an age to zero changes no name, descriptor or room.
LEMMA RefreshedType ==
    ASSUME clientList \in Seq(ClientRecord), NEW i \in DOMAIN clientList
    PROVE  /\ Refreshed(i) \in Seq(ClientRecord)
           /\ Len(Refreshed(i)) = Len(clientList)
           /\ DOMAIN Refreshed(i) = DOMAIN clientList
           /\ \A k \in DOMAIN clientList :
                 /\ Refreshed(i)[k].name = clientList[k].name
                 /\ Refreshed(i)[k].fd = clientList[k].fd
                 /\ Refreshed(i)[k].chatRoom = clientList[k].chatRoom
<1>1. IdleLimit \in Nat
  BY ChatServerAssumption
<1>2. clientList[i] \in ClientRecord
  OBVIOUS
<1>3. 0 \in 0..(IdleLimit + 1)
  BY <1>1
<1>4. [clientList[i] EXCEPT !.age = 0] \in ClientRecord
  BY <1>2, <1>3 DEF ClientRecord
<1>5. Refreshed(i) = [clientList EXCEPT ![i] = [clientList[i] EXCEPT !.age = 0]]
  BY DEF Refreshed
<1>6. [clientList[i] EXCEPT !.age = 0].name = clientList[i].name
      /\ [clientList[i] EXCEPT !.age = 0].fd = clientList[i].fd
      /\ [clientList[i] EXCEPT !.age = 0].chatRoom = clientList[i].chatRoom
  BY <1>2 DEF ClientRecord
<1> QED
  BY <1>4, <1>5, <1>6

\* A step that changes at most ages in the list and nothing in the rooms'
\* cells: what is left to show is the type of the other variables.
LEMMA QuietStep ==
    ASSUME IInv,
           clientList' = clientList \/ \E i \in DOMAIN clientList : clientList' = Refreshed(i),
           UNCHANGED <<chatRoomList, deficit, openFds>>,
           isPing' \in [1..MaxClients -> 0..MaxPings],
           chatRoomAck' \in [0..Rooms -> 0..MaxMembers],
           MallocQ' \in Seq(WaitRecord), Len(MallocQ') <= PoolSize,
           status' \in {"running", "stopped"} \cup Faults
    PROVE  IInv'
<1>1. /\ clientList' \in Seq(ClientRecord)
      /\ Len(clientList') = Len(clientList)
      /\ DOMAIN clientList' = DOMAIN clientList
      /\ \A k \in DOMAIN clientList :
            /\ clientList'[k].name = clientList[k].name
            /\ clientList'[k].fd = clientList[k].fd
            /\ clientList'[k].chatRoom = clientList[k].chatRoom
  BY RefreshedType DEF IInv, TypeOK
<1>2. TypeOK'
  BY <1>1 DEF IInv, TypeOK
<1>3. UniqueClients'
  BY <1>1 DEF IInv, UniqueClients
<1>4. RoomListsMember'
  BY <1>1 DEF IInv, RoomListsMember
<1>5. CountsNonNegative'
  BY DEF IInv, CountsNonNegative
<1> QED
  BY <1>2, <1>3, <1>4, <1>5 DEF IInv

\* A handler that changes the room of client d, refreshing client i.
LEMMA RoomChange ==
    ASSUME TypeOK, UniqueClients, RoomListsMember,
           NEW i \in DOMAIN clientList, NEW d \in DOMAIN clientList,
           NEW r \in 0..Rooms, NEW fd, fd = clientList[d].fd,
           clientList' = [Refreshed(i) EXCEPT ![d].chatRoom = r],
           UNCHANGED openFds,
           MembersStay(fd), r # 0 => Member(r, fd)'
    PROVE  /\ clientList' \in Seq(ClientRecord) /\ Len(clientList') = Len(clientList)
           /\ UniqueClients' /\ RoomListsMember'
<1>1. clientList \in Seq(ClientRecord)
  BY DEF TypeOK
<1>2. Refreshed(i)[d] \in ClientRecord
  BY <1>1, RefreshedType
<1>3. [Refreshed(i)[d] EXCEPT !.chatRoom = r] \in ClientRecord
  BY <1>2 DEF ClientRecord
<1>4. /\ [Refreshed(i)[d] EXCEPT !.chatRoom = r].name = clientList[d].name
      /\ [Refreshed(i)[d] EXCEPT !.chatRoom = r].fd = clientList[d].fd
      /\ [Refreshed(i)[d] EXCEPT !.chatRoom = r].chatRoom = r
  BY <1>1, <1>2, RefreshedType DEF ClientRecord
<1>5. clientList' = [Refreshed(i) EXCEPT ![d] = [Refreshed(i)[d] EXCEPT !.chatRoom = r]]
  OBVIOUS
<1>6. /\ clientList' \in Seq(ClientRecord) /\ Len(clientList') = Len(clientList)
      /\ DOMAIN clientList' = DOMAIN clientList
      /\ \A k \in DOMAIN clientList :
            /\ clientList'[k].name = clientList[k].name
            /\ clientList'[k].fd = clientList[k].fd
            /\ clientList'[k].chatRoom = IF k = d THEN r ELSE clientList[k].chatRoom
  <2>1. /\ clientList' \in Seq(ClientRecord) /\ Len(clientList') = Len(clientList)
        /\ DOMAIN clientList' = DOMAIN clientList
    BY <1>1, <1>3, <1>5, RefreshedType
  <2>2. ASSUME NEW k \in DOMAIN clientList, k # d
        PROVE  clientList'[k] = Refreshed(i)[k]
    BY <1>1, <1>5, <2>2, RefreshedType
  <2>3. clientList'[d] = [Refreshed(i)[d] EXCEPT !.chatRoom = r]
    BY <1>1, <1>5, RefreshedType
  <2> QED
    BY <1>1, <1>4, <2>1, <2>2, <2>3, RefreshedType
<1>7. UniqueClients'
  BY <1>6 DEF UniqueClients
<1>8. RoomListsMember'
  <2> SUFFICES ASSUME NEW k \in DOMAIN clientList, NEW q, NEW m,
                      q = clientList'[k].chatRoom, m = clientList'[k].fd, q # 0
               PROVE  Member(q, m)'
    BY <1>6 DEF RoomListsMember, Member
  <2>1. CASE k = d
    BY <1>6, <2>1
  <2>2. CASE k # d
    <3>1. m # fd
      BY <1>6, <2>2 DEF UniqueClients
    <3>2. clientList[k] \in ClientRecord /\ Rooms \in Nat
      BY <1>1, ChatServerAssumption
    <3>3. q = clientList[k].chatRoom /\ m = clientList[k].fd
      BY <1>6, <2>2
    <3>4. q \in 1..Rooms /\ m \in Fds
      BY <3>2, <3>3 DEF ClientRecord
    <3>5. Member(q, m)
      BY <3>3 DEF RoomListsMember, Member
    <3> QED
      BY <3>1, <3>4, <3>5 DEF MembersStay
  <2> QED
    BY <2>1, <2>2
<1> QED
  BY <1>6, <1>7, <1>8

\* Deletion of slot d: the others keep names, descriptors and rooms.
LEMMA Deletion ==
    ASSUME TypeOK, UniqueClients, RoomListsMember,
           NEW d \in DOMAIN clientList, Server_Del_Client_List(d),
           NEW fd, fd = clientList[d].fd, MembersStay(fd)
    PROVE  /\ clientList' \in Seq(ClientRecord) /\ Len(clientList') <= MaxClients
           /\ isPing' \in [1..MaxClients -> 0..MaxPings]
           /\ openFds' \subseteq Fds
           /\ UniqueClients' /\ RoomListsMember'
<1> DEFINE old(k) == IF k < d THEN k ELSE k + 1
<1>1. clientList \in Seq(ClientRecord) /\ Len(clientList) \in Nat
      /\ DOMAIN clientList = 1..Len(clientList) /\ d \in 1..Len(clientList)
  BY DEF TypeOK
<1>2. MaxClients \in Nat /\ MaxPings \in Nat /\ Rooms \in Nat
  BY ChatServerAssumption
<1>3. /\ clientList' \in Seq(ClientRecord)
      /\ Len(clientList') = Len(clientList) - 1
      /\ \A k \in 1..(Len(clientList) - 1) : clientList'[k] = clientList[old(k)]
  BY <1>1, WithoutClientShifts DEF Server_Del_Client_List
<1>4. DOMAIN clientList' = 1..(Len(clientList) - 1)
  BY <1>3
<1>5. \A k \in DOMAIN clientList' : old(k) \in DOMAIN clientList /\ old(k) # d
  BY <1>1, <1>4
<1>6. \A j, k \in DOMAIN clientList' : j # k => old(j) # old(k)
  BY <1>1, <1>4
<1>7. isPing' \in [1..MaxClients -> 0..MaxPings]
  BY <1>1, <1>2 DEF Server_Del_Client_List, TypeOK
<1>8. openFds' = openFds \ {fd}
  BY DEF Server_Del_Client_List
<1>9. UniqueClients'
  <2>1. ASSUME NEW j \in DOMAIN clientList', NEW k \in DOMAIN clientList', j # k
        PROVE  /\ clientList'[j].name # clientList'[k].name
               /\ clientList'[j].fd # clientList'[k].fd
    BY <1>3, <1>4, <1>5, <1>6, <2>1 DEF UniqueClients
  <2>2. ASSUME NEW k \in DOMAIN clientList'
        PROVE  clientList'[k].fd \in openFds'
    BY <1>3, <1>4, <1>5, <1>8 DEF UniqueClients
  <2> QED
    BY <2>1, <2>2 DEF UniqueClients
<1>10. RoomListsMember'
  <2> SUFFICES ASSUME NEW k \in DOMAIN clientList', NEW q, NEW m,
                      q = clientList'[k].chatRoom, m = clientList'[k].fd, q # 0
               PROVE  Member(q, m)'
    BY DEF RoomListsMember, Member
  <2>1. clientList'[k] = clientList[old(k)] /\ old(k) \in DOMAIN clientList /\ old(k) # d
    BY <1>3, <1>4, <1>5
  <2>2. clientList[old(k)] \in ClientRecord
    BY <1>1, <2>1
  <2>3. q \in 1..Rooms /\ m \in Fds
    BY <1>2, <2>1, <2>2 DEF ClientRecord
  <2>4. m # fd
    BY <2>1 DEF UniqueClients
  <2>5. Member(q, m)
    BY <2>1 DEF RoomListsMember, Member
  <2> QED
    BY <2>3, <2>4, <2>5 DEF MembersStay
<1>11. Len(clientList') <= MaxClients
  <2>1. Len(clientList) <= MaxClients
    BY DEF TypeOK
  <2> QED
    BY <1>1, <1>2, <1>3, <2>1
<1>12. openFds' \subseteq Fds
  BY <1>8 DEF TypeOK
<1> QED
  BY <1>3, <1>7, <1>9, <1>10, <1>11, <1>12

\* What leaving does to the rooms.  A numbered room is left by a member, so
\* its count does not drop below zero.
LEMMA LeavingRoom ==
    ASSUME TypeOK, CountsNonNegative, NEW r \in 0..Rooms, NEW fd,
           LeaveRoom(r, fd), r # 0 => Member(r, fd),
           chatRoomList[r] = <<>> => deficit[r] < MaxDeficit
    PROVE  /\ chatRoomList' \in [0..Rooms -> Seq(Fds)]
           /\ \A s \in 0..Rooms : Len(chatRoomList'[s]) <= MaxMembers
           /\ deficit' \in [0..Rooms -> 0..MaxDeficit]
           /\ CountsNonNegative' /\ MembersStay(fd)
<1>1. Rooms \in Nat /\ MaxDeficit \in Nat /\ MaxMembers \in Nat
  BY ChatServerAssumption
<1>2. chatRoomList \in [0..Rooms -> Seq(Fds)] /\ chatRoomList[r] \in Seq(Fds)
      /\ deficit \in [0..Rooms -> 0..MaxDeficit]
  BY DEF TypeOK
<1>3. chatRoomList' = [chatRoomList EXCEPT ![r] = WithoutMember(chatRoomList[r], fd)]
      /\ deficit' = [deficit EXCEPT ![r] =
                        IF chatRoomList[r] = <<>> THEN deficit[r] + 1 ELSE deficit[r]]
  BY DEF LeaveRoom
<1>4. WithoutMember(chatRoomList[r], fd) \in Seq(Fds)
      /\ Len(WithoutMember(chatRoomList[r], fd)) <= Len(chatRoomList[r])
  BY <1>2, WithoutMemberType
<1>5. chatRoomList' \in [0..Rooms -> Seq(Fds)]
  BY <1>2, <1>3, <1>4
<1>6. ASSUME NEW s \in 0..Rooms
      PROVE  Len(chatRoomList'[s]) <= MaxMembers
  <2>1. CASE s = r
    <3>1. Len(chatRoomList[r]) <= MaxMembers /\ Len(chatRoomList[r]) \in Nat
      BY <1>2 DEF TypeOK
    <3>2. Len(WithoutMember(chatRoomList[r], fd)) \in Nat
      BY <1>4
    <3>3. chatRoomList'[s] = WithoutMember(chatRoomList[r], fd)
      BY <1>2, <1>3, <2>1
    <3> QED
      BY <1>1, <1>4, <3>1, <3>2, <3>3
  <2>2. CASE s # r
    BY <1>2, <1>3, <2>2 DEF TypeOK
  <2> QED
    BY <2>1, <2>2
<1> DEFINE count == IF chatRoomList[r] = <<>> THEN deficit[r] + 1 ELSE deficit[r]
<1>7. deficit' \in [0..Rooms -> 0..MaxDeficit]
  <2>1. deficit[r] \in 0..MaxDeficit
    BY <1>2
  <2>2. count \in 0..MaxDeficit
    BY <1>1, <2>1
  <2>3. deficit' = [deficit EXCEPT ![r] = count]
    BY <1>3
  <2> HIDE DEF count
  <2> QED
    BY <1>2, <2>2, <2>3
<1>8. CountsNonNegative'
  <2> SUFFICES ASSUME NEW s \in 1..Rooms
               PROVE  deficit'[s] = 0
    BY DEF CountsNonNegative
  <2>1. s \in 0..Rooms /\ s # 0 /\ deficit[s] = 0
    BY <1>1 DEF CountsNonNegative
  <2>2. CASE s = r
    <3>1. Member(r, fd)
      BY <2>1, <2>2
    <3>2. chatRoomList[r] # <<>>
      BY <3>1 DEF Member
    <3>3. count = deficit[r]
      BY <3>2
    <3> QED
      BY <1>2, <1>3, <2>1, <2>2, <3>3
  <2>3. CASE s # r
    BY <1>2, <1>3, <2>1, <2>3
  <2> QED
    BY <2>2, <2>3
<1>9. MembersStay(fd)
  <2> SUFFICES ASSUME NEW s \in 1..Rooms, NEW m \in Fds, m # fd, Member(s, m)
               PROVE  Member(s, m)'
    BY DEF MembersStay
  <2>1. CASE s = r
    <3>1. Member(r, fd)
      BY <2>1, <1>1
    <3>2. chatRoomList'[s] = WithoutMember(chatRoomList[r], fd)
      BY <1>2, <1>3, <2>1
    <3>3. \E j \in DOMAIN chatRoomList[r] : chatRoomList[r][j] = fd
      BY <3>1 DEF Member
    <3>4. \E j \in DOMAIN chatRoomList[r] : chatRoomList[r][j] = m
      BY <2>1 DEF Member
    <3>5. \E j \in DOMAIN WithoutMember(chatRoomList[r], fd) :
             WithoutMember(chatRoomList[r], fd)[j] = m
      <4> DEFINE cells == chatRoomList[r]
      <4>1. cells \in Seq(Fds) /\ m # fd
        BY <1>2
      <4>2. \E j \in DOMAIN cells : cells[j] = fd
        BY <3>3
      <4>3. \E j \in DOMAIN cells : cells[j] = m
        BY <3>4
      <4> HIDE DEF cells
      <4>4. \E j \in DOMAIN WithoutMember(cells, fd) : WithoutMember(cells, fd)[j] = m
        BY <4>1, <4>2, <4>3, WithoutMemberKeeps
      <4> QED
        BY <4>4 DEF cells
    <3> QED
      BY <3>2, <3>5 DEF Member
  <2>2. CASE s # r
    <3>1. chatRoomList'[s] = chatRoomList[s]
      BY <1>1, <1>2, <1>3, <2>2
    <3> QED
      BY <3>1 DEF Member
  <2> QED
    BY <2>1, <2>2
<1> QED
  BY <1>5, <1>6, <1>7, <1>8, <1>9

\* What joining does to the rooms.
LEMMA JoiningRoom ==
    ASSUME TypeOK, CountsNonNegative, NEW r \in 0..Rooms, NEW fd \in Fds,
           CanJoin(r), JoinRoom(r, fd)
    PROVE  /\ chatRoomList' \in [0..Rooms -> Seq(Fds)]
           /\ \A s \in 0..Rooms : Len(chatRoomList'[s]) <= MaxMembers
           /\ deficit' = deficit
           /\ CountsNonNegative' /\ MembersStay(fd) /\ Member(r, fd)'
<1>1. Rooms \in Nat /\ MaxMembers \in Nat
  BY ChatServerAssumption
<1>2. chatRoomList \in [0..Rooms -> Seq(Fds)] /\ chatRoomList[r] \in Seq(Fds)
      /\ Len(chatRoomList[r]) < MaxMembers
  BY DEF TypeOK, CanJoin
<1>3. chatRoomList' = [chatRoomList EXCEPT ![r] = Append(chatRoomList[r], fd)]
  BY DEF JoinRoom
<1>4. /\ Append(chatRoomList[r], fd) \in Seq(Fds)
      /\ Len(Append(chatRoomList[r], fd)) = Len(chatRoomList[r]) + 1
      /\ Append(chatRoomList[r], fd)[Len(chatRoomList[r]) + 1] = fd
      /\ \A j \in DOMAIN chatRoomList[r] :
            /\ j \in DOMAIN Append(chatRoomList[r], fd)
            /\ Append(chatRoomList[r], fd)[j] = chatRoomList[r][j]
      /\ Len(chatRoomList[r]) + 1 \in DOMAIN Append(chatRoomList[r], fd)
  BY <1>2
<1>5. chatRoomList' \in [0..Rooms -> Seq(Fds)]
  BY <1>2, <1>3, <1>4
<1>6. ASSUME NEW s \in 0..Rooms
      PROVE  Len(chatRoomList'[s]) <= MaxMembers
  <2>1. CASE s = r
    <3>1. Len(chatRoomList[r]) \in Nat /\ chatRoomList'[s] = Append(chatRoomList[r], fd)
      BY <1>2, <1>3, <2>1
    <3> QED
      BY <1>1, <1>2, <1>4, <3>1
  <2>2. CASE s # r
    BY <1>2, <1>3, <2>2 DEF TypeOK
  <2> QED
    BY <2>1, <2>2
<1>7. deficit' = deficit
  BY DEF JoinRoom
<1>8. CountsNonNegative'
  BY <1>7 DEF CountsNonNegative
<1>9. MembersStay(fd)
  <2> SUFFICES ASSUME NEW s \in 1..Rooms, NEW m \in Fds, Member(s, m)
               PROVE  Member(s, m)'
    BY DEF MembersStay
  <2>1. CASE s = r
    BY <1>2, <1>3, <1>4, <2>1 DEF Member
  <2>2. CASE s # r
    <3>1. chatRoomList'[s] = chatRoomList[s]
      BY <1>1, <1>2, <1>3, <2>2
    <3> QED
      BY <3>1 DEF Member
  <2> QED
    BY <2>1, <2>2
<1>10. Member(r, fd)'
  <2>1. chatRoomList'[r] = Append(chatRoomList[r], fd)
    BY <1>2, <1>3
  <2> QED
    BY <1>4, <2>1 DEF Member
<1> QED
  BY <1>5, <1>6, <1>7, <1>8, <1>9, <1>10

-----------------------------------------------------------------------------
(* The handlers, one lemma each.                                           *)

\* A fault ends the behaviour and changes nothing but status.
LEMMA CrashKeeps ==
    ASSUME IInv, NEW fault \in Faults, Crash(fault)
    PROVE  IInv'
<1>1. /\ clientList' = clientList /\ isPing' = isPing /\ MallocQ' = MallocQ
      /\ UNCHANGED <<chatRoomList, deficit, chatRoomAck, openFds>>
      /\ status' \in {"running", "stopped"} \cup Faults
  BY DEF Crash, rooms
<1> QED
  BY <1>1, QuietStep DEF IInv, TypeOK

\* Handlers that refresh client i and perhaps move the queue.
LEMMA RefreshKeeps ==
    ASSUME IInv, NEW i \in DOMAIN clientList, OnlyRefreshed(i),
           MallocQ' \in Seq(WaitRecord), Len(MallocQ') <= PoolSize
    PROVE  IInv'
<1>1. /\ clientList' = Refreshed(i) /\ isPing' = isPing
      /\ UNCHANGED <<chatRoomList, deficit, chatRoomAck, openFds, status>>
  BY DEF OnlyRefreshed, rooms
<1> QED
  BY <1>1, QuietStep DEF IInv, TypeOK

\* A wait starts with age zero, whatever it is for.
LEMMA WaitTypeOK ==
    ASSUME NEW name \in AnyName \cup {ServerName}, NEW type \in WaitType
    PROVE  Wait(name, type) \in WaitRecord
<1>1. 0 \in 0..(AckLimit + 1)
  BY ChatServerAssumption
<1> QED
  BY <1>1 DEF Wait, WaitRecord

\* The waits for a room's alarms can be queued.
LEMMA AlarmWaitsType ==
    ASSUME TypeOK, NEW r \in 0..Rooms, NEW fd, NEW lost
    PROVE  AlarmWaits(r, fd, lost) \in Seq(WaitRecord)
<1>1. Wait(ServerName, "ALRAM_ACK") \in WaitRecord
  BY WaitTypeOK DEF WaitType
<1>2. chatRoomList[r] \in Seq(Fds)
  BY DEF TypeOK
<1> QED
  BY <1>1, <1>2, CopiesType DEF AlarmWaits

\* accept (server.c:256): the new name and descriptor are checked, or fresh.
LEMMA AcceptKeeps ==
    ASSUME IInv, NEW fd \in Fds, Accept(fd)
    PROVE  IInv'
<1> DEFINE new == [name |-> Len(clientList), fd |-> fd, chatRoom |-> 0, age |-> 0]
<1>1. /\ clientList \in Seq(ClientRecord) /\ Len(clientList) \in Nat
      /\ Len(clientList) <= MaxClients /\ DOMAIN clientList = 1..Len(clientList)
      /\ MaxClients \in Nat /\ IdleLimit \in Nat /\ Rooms \in Nat
  BY ChatServerAssumption DEF IInv, TypeOK
<1>2. CASE Server_Search_Client(Len(clientList)) # 0
  <2>1. /\ openFds' = openFds \cup {fd} /\ clientList' = clientList
        /\ UNCHANGED <<isPing, chatRoomList, deficit, chatRoomAck, MallocQ, status>>
    BY <1>2 DEF Accept, rooms
  <2>2. TypeOK'
    BY <2>1 DEF IInv, TypeOK
  <2> QED
    BY <2>1, <2>2 DEF IInv, UniqueClients, RoomListsMember, CountsNonNegative
<1>3. CASE Server_Search_Client(Len(clientList)) = 0 /\ Len(clientList) = MaxClients
  <2>1. Crash("client list overrun")
    BY <1>3 DEF Accept
  <2> QED
    BY <2>1, CrashKeeps DEF Faults
<1>4. CASE Server_Search_Client(Len(clientList)) = 0 /\ Len(clientList) # MaxClients
  <2>1. /\ clientList' = Append(clientList, new) /\ openFds' = openFds \cup {fd}
        /\ fd \notin openFds
        /\ UNCHANGED <<isPing, chatRoomList, deficit, chatRoomAck, MallocQ, status>>
    BY <1>4 DEF Accept, rooms
  <2>2. Len(clientList) \in ClientName /\ 0 \in 0..Rooms /\ 0 \in 0..(IdleLimit + 1)
    BY <1>1 DEF ClientName, Placeholder
  <2>3. new \in ClientRecord
    BY <2>2 DEF ClientRecord
  <2>4. /\ clientList' \in Seq(ClientRecord) /\ Len(clientList') = Len(clientList) + 1
        /\ DOMAIN clientList' = 1..(Len(clientList) + 1)
        /\ \A k \in 1..Len(clientList) : clientList'[k] = clientList[k]
        /\ clientList'[Len(clientList) + 1] = new
    BY <1>1, <2>1, <2>3
  <2>5. Len(clientList') <= MaxClients
    <3> DEFINE n == Len(clientList)
    <3>1. n \in Nat /\ MaxClients \in Nat /\ n <= MaxClients /\ n # MaxClients
      BY <1>1, <1>4
    <3>2. Len(clientList') = n + 1
      BY <2>4
    <3> HIDE DEF n
    <3> QED
      BY <3>1, <3>2
  <2>6. TypeOK'
    BY <2>1, <2>4, <2>5 DEF IInv, TypeOK
  <2>7. \A k \in 1..Len(clientList) : clientList[k].name # Len(clientList)
    BY <1>1, <1>4, SearchFails
  <2>8. \A k \in 1..Len(clientList) : clientList[k].fd # fd
    BY <1>1, <2>1 DEF IInv, UniqueClients
  <2>9. UniqueClients'
    <3>1. ASSUME NEW j \in DOMAIN clientList', NEW k \in DOMAIN clientList', j # k
          PROVE  /\ clientList'[j].name # clientList'[k].name
                 /\ clientList'[j].fd # clientList'[k].fd
      <4>1. CASE j \in 1..Len(clientList) /\ k \in 1..Len(clientList)
        BY <1>1, <2>4, <3>1, <4>1 DEF IInv, UniqueClients
      <4>2. CASE j = Len(clientList) + 1 /\ k \in 1..Len(clientList)
        BY <2>4, <2>7, <2>8, <4>2
      <4>3. CASE k = Len(clientList) + 1 /\ j \in 1..Len(clientList)
        BY <2>4, <2>7, <2>8, <4>3
      <4> QED
        BY <1>1, <2>4, <3>1, <4>1, <4>2, <4>3
    <3>2. ASSUME NEW k \in DOMAIN clientList'
          PROVE  clientList'[k].fd \in openFds'
      <4>1. CASE k \in 1..Len(clientList)
        BY <1>1, <2>1, <2>4, <4>1 DEF IInv, UniqueClients
      <4>2. CASE k = Len(clientList) + 1
        BY <2>1, <2>4, <4>2
      <4> QED
        BY <1>1, <2>4, <4>1, <4>2
    <3> QED
      BY <3>1, <3>2 DEF UniqueClients
  <2>10. RoomListsMember'
    <3> SUFFICES ASSUME NEW k \in DOMAIN clientList', NEW q, NEW m,
                        q = clientList'[k].chatRoom, m = clientList'[k].fd, q # 0
                 PROVE  Member(q, m)'
      BY DEF RoomListsMember, Member
    <3>1. k \in 1..Len(clientList)
      BY <1>1, <2>4
    <3>2. Member(q, m)
      BY <1>1, <2>4, <3>1 DEF IInv, RoomListsMember, Member
    <3> QED
      BY <2>1, <3>2 DEF Member
  <2> QED
    BY <2>1, <2>6, <2>9, <2>10 DEF IInv, CountsNonNegative
<1> QED
  BY <1>2, <1>3, <1>4

\* CONN_REQ (server.c:392): a client is renamed only to a name nobody has.
LEMMA ConnReqKeeps ==
    ASSUME IInv, NEW i, NEW name \in AnyName, NEW registered, NEW lost,
           ConnReq(i, name, registered, lost)
    PROVE  IInv'
<1>1. /\ i \in DOMAIN clientList /\ clientList \in Seq(ClientRecord)
      /\ isPing' = isPing /\ MallocQ' = MallocQ
      /\ UNCHANGED <<chatRoomList, deficit, chatRoomAck, openFds, status>>
  BY DEF ConnReq, Reads, rooms, IInv, TypeOK
<1>2. CASE ~ (registered /\ Server_Search_Client(name) = 0)
  <2>1. clientList' = Refreshed(i)
    BY <1>2 DEF ConnReq, Admitted
  <2> QED
    BY <1>1, <2>1, QuietStep DEF IInv, TypeOK
<1>3. CASE registered /\ Server_Search_Client(name) = 0
  <2>1. clientList' = [Refreshed(i) EXCEPT ![i].name = name] /\ name # NoName
    BY <1>3 DEF ConnReq, Admitted
  <2>2. name \in ClientName
    BY <2>1 DEF AnyName
  <2>3. Refreshed(i)[i] \in ClientRecord
    BY <1>1, RefreshedType
  <2>4. /\ [Refreshed(i)[i] EXCEPT !.name = name] \in ClientRecord
        /\ [Refreshed(i)[i] EXCEPT !.name = name].name = name
        /\ [Refreshed(i)[i] EXCEPT !.name = name].fd = clientList[i].fd
        /\ [Refreshed(i)[i] EXCEPT !.name = name].chatRoom = clientList[i].chatRoom
    BY <1>1, <2>2, <2>3, RefreshedType DEF ClientRecord
  <2>5. /\ clientList' \in Seq(ClientRecord) /\ Len(clientList') = Len(clientList)
        /\ DOMAIN clientList' = DOMAIN clientList
        /\ clientList'[i] = [Refreshed(i)[i] EXCEPT !.name = name]
        /\ \A k \in DOMAIN clientList : k # i => clientList'[k] = Refreshed(i)[k]
    <3>1. clientList' = [Refreshed(i) EXCEPT ![i] = [Refreshed(i)[i] EXCEPT !.name = name]]
      BY <2>1
    <3>2. /\ clientList' \in Seq(ClientRecord) /\ Len(clientList') = Len(clientList)
          /\ DOMAIN clientList' = DOMAIN clientList
      BY <1>1, <2>4, <3>1, RefreshedType
    <3>3. clientList'[i] = [Refreshed(i)[i] EXCEPT !.name = name]
      BY <1>1, <3>1, RefreshedType
    <3>4. ASSUME NEW k \in DOMAIN clientList, k # i
          PROVE  clientList'[k] = Refreshed(i)[k]
      BY <1>1, <3>1, <3>4, RefreshedType
    <3> QED
      BY <3>2, <3>3, <3>4
  <2>6. \A k \in DOMAIN clientList :
            /\ clientList'[k].name = IF k = i THEN name ELSE clientList[k].name
            /\ clientList'[k].fd = clientList[k].fd
            /\ clientList'[k].chatRoom = clientList[k].chatRoom
    <3> SUFFICES ASSUME NEW k \in DOMAIN clientList
                 PROVE  /\ clientList'[k].name = IF k = i THEN name ELSE clientList[k].name
                        /\ clientList'[k].fd = clientList[k].fd
                        /\ clientList'[k].chatRoom = clientList[k].chatRoom
      OBVIOUS
    <3>1. CASE k = i
      BY <2>4, <2>5, <3>1
    <3>2. CASE k # i
      <4>1. clientList'[k] = Refreshed(i)[k]
        BY <2>5, <3>2
      <4> QED
        BY <1>1, <3>2, <4>1, RefreshedType
    <3> QED
      BY <3>1, <3>2
  <2>7. \A k \in DOMAIN clientList : clientList[k].name # name
    BY <1>1, <1>3, SearchFails
  <2>8. TypeOK'
    BY <1>1, <2>5 DEF IInv, TypeOK
  <2>9. UniqueClients'
    BY <1>1, <2>5, <2>6, <2>7 DEF IInv, UniqueClients
  <2>10. RoomListsMember'
    BY <1>1, <2>5, <2>6 DEF IInv, RoomListsMember
  <2> QED
    BY <1>1, <2>8, <2>9, <2>10 DEF IInv, CountsNonNegative
<1> QED
  BY <1>2, <1>3

\* The table requests (server.c:316, 524) move nothing but an age.
LEMMA ServiceRequestKeeps ==
    ASSUME IInv, NEW i, NEW req, NEW name, NEW lost, ServiceRequest(i, req, name, lost)
    PROVE  IInv'
BY RefreshKeeps DEF ServiceRequest, Reads, IInv, TypeOK

\* End of file or an unknown type (server.c:301, 847).
LEMMA ReadNothingKeeps ==
    ASSUME IInv, NEW i, ReadNothing(i)
    PROVE  IInv'
BY RefreshKeeps DEF ReadNothing, Reads, IInv, TypeOK

\* ALL_USER_REQ (server.c:829) always ends in its fault.
LEMMA AllUserReqKeeps ==
    ASSUME IInv, NEW i, AllUserReq(i)
    PROVE  IInv'
BY CrashKeeps DEF AllUserReq, Faults

\* ALRAM_ACK (server.c:800) may pop the head of the queue.
LEMMA AlramAckKeeps ==
    ASSUME IInv, NEW i, AlramAck(i)
    PROVE  IInv'
BY RefreshKeeps, PopOnAckFits DEF AlramAck, Reads, IInv, TypeOK

\* A handler that touches no room lets every member stay.
LEMMA UntouchedRooms ==
    ASSUME UNCHANGED chatRoomList, NEW fd
    PROVE  MembersStay(fd)
BY DEF MembersStay, Member

\* EXIT_REQ (server.c:418): the room is left first, then the slot is deleted.
LEMMA ExitReqKeeps ==
    ASSUME IInv, NEW i, NEW lost, ExitReq(i, lost)
    PROVE  IInv'
<1> DEFINE fd == clientList[i].fd
           r == clientList[i].chatRoom
           inRoom == r # 0 /\ deficit[r] # 1
<1>1. /\ i \in DOMAIN clientList /\ clientList \in Seq(ClientRecord)
      /\ TypeOK /\ UniqueClients /\ RoomListsMember /\ CountsNonNegative
  BY DEF ExitReq, Reads, IInv, TypeOK
<1>2. clientList[i] \in ClientRecord
  BY <1>1
<1>3. r \in 0..Rooms /\ fd \in Fds
  BY <1>2 DEF ClientRecord
<1>4. Server_Del_Client_List(i)
  BY <1>1, SearchOwnName DEF ExitReq
<1>5. r # 0 => Member(r, fd)
  BY <1>1 DEF RoomListsMember, Member
<1>6. MallocQ' \in Seq(WaitRecord) /\ Len(MallocQ') <= PoolSize
  <2>1. MallocQ \in Seq(WaitRecord) /\ Len(MallocQ) <= PoolSize
    BY <1>1 DEF TypeOK
  <2>2. MallocQ' = MallocQ \/ MallocQ' = PushAll(MallocQ, AlarmWaits(r, fd, lost))
    BY DEF ExitReq
  <2>3. AlarmWaits(r, fd, lost) \in Seq(WaitRecord)
    BY <1>1, <1>3, AlarmWaitsType
  <2> QED
    BY <2>1, <2>2, <2>3, PushAllFits
<1>7. /\ chatRoomList' \in [0..Rooms -> Seq(Fds)]
      /\ \A s \in 0..Rooms : Len(chatRoomList'[s]) <= MaxMembers
      /\ deficit' \in [0..Rooms -> 0..MaxDeficit]
      /\ CountsNonNegative' /\ MembersStay(fd)
  <2>1. CASE inRoom
    <3>1. LeaveRoom(r, fd)
      BY <2>1 DEF ExitReq
    <3>2. Member(r, fd)
      BY <1>5, <2>1
    <3>3. chatRoomList[r] # <<>>
      BY <3>2 DEF Member
    <3> HIDE DEF r, fd
    <3> QED
      BY <1>1, <1>3, <3>1, <3>2, <3>3, LeavingRoom
  <2>2. CASE ~ inRoom
    <3>1. UNCHANGED chatRoomList /\ UNCHANGED deficit
      BY <2>2 DEF ExitReq
    <3> HIDE DEF fd
    <3>2. MembersStay(fd)
      BY <3>1, UntouchedRooms
    <3> QED
      BY <1>1, <3>1, <3>2 DEF TypeOK, CountsNonNegative
  <2> QED
    BY <2>1, <2>2
<1>8. /\ clientList' \in Seq(ClientRecord) /\ Len(clientList') <= MaxClients
      /\ isPing' \in [1..MaxClients -> 0..MaxPings]
      /\ openFds' \subseteq Fds
      /\ UniqueClients' /\ RoomListsMember'
  BY <1>1, <1>4, <1>7, Deletion
<1>9. chatRoomAck' = chatRoomAck /\ status' = status
  BY DEF ExitReq
<1>10. TypeOK'
  BY <1>1, <1>6, <1>7, <1>8, <1>9 DEF TypeOK
<1> QED
  BY <1>7, <1>8, <1>10 DEF IInv

\* EXIT_ACK (server.c:810): the slot is deleted and the room untouched.
LEMMA ExitAckKeeps ==
    ASSUME IInv, NEW i, ExitAck(i)
    PROVE  IInv'
<1> DEFINE fd == clientList[i].fd
<1>1. /\ i \in DOMAIN clientList /\ clientList \in Seq(ClientRecord)
      /\ TypeOK /\ UniqueClients /\ RoomListsMember /\ CountsNonNegative
  BY DEF ExitAck, Reads, IInv, TypeOK
<1>2. Server_Del_Client_List(i)
  BY <1>1, SearchOwnName DEF ExitAck
<1>3. UNCHANGED <<chatRoomList, deficit, chatRoomAck, MallocQ, status>>
  BY DEF ExitAck, rooms
<1>4. MembersStay(fd)
  BY <1>3, UntouchedRooms
<1>5. /\ clientList' \in Seq(ClientRecord) /\ Len(clientList') <= MaxClients
      /\ isPing' \in [1..MaxClients -> 0..MaxPings]
      /\ openFds' \subseteq Fds
      /\ UniqueClients' /\ RoomListsMember'
  BY <1>1, <1>2, <1>4, Deletion
<1>6. TypeOK'
  BY <1>1, <1>3, <1>5 DEF TypeOK
<1>7. CountsNonNegative'
  BY <1>1, <1>3 DEF CountsNonNegative
<1> QED
  BY <1>5, <1>6, <1>7 DEF IInv

\* A join that is not in bounds is the end of the behaviour.
LEMMA JoinCrashKeeps ==
    ASSUME IInv, NEW r, Crash(JoinFault(r))
    PROVE  IInv'
<1>1. JoinFault(r) \in Faults
  BY DEF JoinFault, Faults
<1> HIDE DEF JoinFault
<1> QED
  BY <1>1, CrashKeeps

\* Client d joins room r in a handler that refreshes client i.
LEMMA JoinKeeps ==
    ASSUME IInv, NEW i \in DOMAIN clientList, NEW d \in DOMAIN clientList,
           NEW r \in 0..Rooms, CanJoin(r), JoinRoom(r, clientList[d].fd),
           clientList' = [Refreshed(i) EXCEPT ![d].chatRoom = r],
           UNCHANGED <<isPing, chatRoomAck, openFds, status>>,
           MallocQ' \in Seq(WaitRecord), Len(MallocQ') <= PoolSize
    PROVE  IInv'
<1> PICK fd : fd = clientList[d].fd
  OBVIOUS
<1>1. /\ clientList \in Seq(ClientRecord)
      /\ TypeOK /\ UniqueClients /\ RoomListsMember /\ CountsNonNegative
  BY DEF IInv, TypeOK
<1>2. clientList[d] \in ClientRecord
  BY <1>1
<1>3. fd \in Fds
  BY <1>2 DEF ClientRecord
<1>4. JoinRoom(r, fd)
  OBVIOUS
<1>6. /\ chatRoomList' \in [0..Rooms -> Seq(Fds)]
      /\ \A s \in 0..Rooms : Len(chatRoomList'[s]) <= MaxMembers
      /\ deficit' = deficit
      /\ CountsNonNegative' /\ MembersStay(fd) /\ Member(r, fd)'
  BY <1>1, <1>3, <1>4, JoiningRoom
<1>7. /\ clientList' \in Seq(ClientRecord) /\ Len(clientList') = Len(clientList)
      /\ UniqueClients' /\ RoomListsMember'
  BY <1>1, <1>6, RoomChange
<1>8. TypeOK'
  BY <1>1, <1>6, <1>7 DEF TypeOK
<1> QED
  BY <1>6, <1>7, <1>8 DEF IInv

\* CREATE_CHATROOM_REQ (server.c:584): the creator joins the first void room.
LEMMA CreateChatroomReqKeeps ==
    ASSUME IInv, NEW i, NEW r \in 0..Rooms, NEW name, NEW lost,
           CreateChatroomReq(i, r, name, lost)
    PROVE  IInv'
<1>1. i \in DOMAIN clientList
  BY DEF CreateChatroomReq, Reads
<1>2. CASE CanJoin(r)
  <2>1. /\ JoinRoom(r, clientList[i].fd)
        /\ clientList' = [Refreshed(i) EXCEPT ![i].chatRoom = r]
        /\ UNCHANGED <<isPing, chatRoomAck, openFds, status>> /\ MallocQ' = MallocQ
    BY <1>2 DEF CreateChatroomReq
  <2>2. MallocQ' \in Seq(WaitRecord) /\ Len(MallocQ') <= PoolSize
    BY <2>1 DEF IInv, TypeOK
  <2> QED
    BY <1>1, <1>2, <2>1, <2>2, JoinKeeps
<1>3. CASE ~ CanJoin(r)
  BY <1>3, JoinCrashKeeps DEF CreateChatroomReq
<1> QED
  BY <1>2, <1>3

\* EXIT_CHATROOM_REQ (server.c:479): the cell goes with the chatRoom field.
LEMMA ExitChatroomReqKeeps ==
    ASSUME IInv, NEW i, NEW name, NEW lost, ExitChatroomReq(i, name, lost)
    PROVE  IInv'
<1> DEFINE fd == clientList[i].fd
           r == clientList[i].chatRoom
<1>1. /\ i \in DOMAIN clientList /\ clientList \in Seq(ClientRecord)
      /\ TypeOK /\ UniqueClients /\ RoomListsMember /\ CountsNonNegative
  BY DEF ExitChatroomReq, Reads, IInv, TypeOK
<1>2. clientList[i] \in ClientRecord /\ Rooms \in Nat
  BY <1>1, ChatServerAssumption
<1>3. r \in 0..Rooms /\ fd \in Fds /\ 0 \in 0..Rooms
  BY <1>2 DEF ClientRecord
<1>4. r # 0 => Member(r, fd)
  BY <1>1 DEF RoomListsMember, Member
<1>5. /\ LeaveRoom(r, fd) /\ (chatRoomList[r] = <<>> => deficit[r] < MaxDeficit)
      /\ MallocQ' = PushAll(MallocQ, AlarmWaits(r, fd, lost))
      /\ clientList' = [Refreshed(i) EXCEPT ![i].chatRoom = 0]
      /\ UNCHANGED <<isPing, chatRoomAck, openFds, status>>
  BY DEF ExitChatroomReq
<1>6. fd = clientList[i].fd
  OBVIOUS
<1> HIDE DEF fd, r
<1>7. MallocQ' \in Seq(WaitRecord) /\ Len(MallocQ') <= PoolSize
  <2>1. MallocQ \in Seq(WaitRecord) /\ Len(MallocQ) <= PoolSize
    BY <1>1 DEF TypeOK
  <2>2. AlarmWaits(r, fd, lost) \in Seq(WaitRecord)
    BY <1>1, <1>3, AlarmWaitsType
  <2> QED
    BY <2>1, <2>2, <1>5, PushAllFits
<1>8. /\ chatRoomList' \in [0..Rooms -> Seq(Fds)]
      /\ \A s \in 0..Rooms : Len(chatRoomList'[s]) <= MaxMembers
      /\ deficit' \in [0..Rooms -> 0..MaxDeficit]
      /\ CountsNonNegative' /\ MembersStay(fd)
  BY <1>1, <1>3, <1>4, <1>5, LeavingRoom
<1>9. /\ clientList' \in Seq(ClientRecord) /\ Len(clientList') = Len(clientList)
      /\ UniqueClients' /\ RoomListsMember'
  BY <1>1, <1>3, <1>5, <1>6, <1>8, RoomChange
<1>10. TypeOK'
  BY <1>1, <1>5, <1>7, <1>8, <1>9 DEF TypeOK
<1> QED
  BY <1>8, <1>9, <1>10 DEF IInv

\* INVITE_REQ (server.c:611) queues at most one wait.
LEMMA InviteReqKeeps ==
    ASSUME IInv, NEW i, NEW src, NEW dst \in AnyName, NEW rejected,
           NEW forward \in AnyName, NEW lost,
           InviteReq(i, src, dst, rejected, forward, lost)
    PROVE  IInv'
<1> DEFINE callee == IF Server_Search_Client(forward) # 0 THEN forward ELSE dst
           wait == Wait(callee, "INVITE_ACK")
<1>1. /\ i \in DOMAIN clientList /\ OnlyRefreshed(i)
      /\ MallocQ \in Seq(WaitRecord) /\ Len(MallocQ) <= PoolSize
  BY DEF InviteReq, Reads, IInv, TypeOK
<1>2. MallocQ' = MallocQ \/ MallocQ' = PushAll(MallocQ, <<wait>>)
  BY DEF InviteReq
<1>3. callee \in AnyName
  OBVIOUS
<1>4. wait \in WaitRecord
  BY <1>3, WaitTypeOK DEF WaitType
<1> HIDE DEF wait
<1>5. <<wait>> \in Seq(WaitRecord)
  BY <1>4
<1>6. MallocQ' \in Seq(WaitRecord) /\ Len(MallocQ') <= PoolSize
  BY <1>1, <1>2, <1>5, PushAllFits
<1> QED
  BY <1>1, <1>6, RefreshKeeps

\* INVITE_ACK (server.c:666): an accepted invitation makes dst join src's room.
LEMMA InviteAckKeeps ==
    ASSUME IInv, NEW i, NEW src, NEW dst, NEW answer, NEW lost,
           InviteAck(i, src, dst, answer, lost)
    PROVE  IInv'
<1> DEFINE s == Server_Search_Client(src)
           d == Server_Search_Client(dst)
           r == clientList[s].chatRoom
<1>1. /\ i \in DOMAIN clientList /\ clientList \in Seq(ClientRecord) /\ TypeOK
      /\ MallocQ \in Seq(WaitRecord) /\ Len(MallocQ) <= PoolSize
  BY DEF InviteAck, Reads, IInv, TypeOK
<1>2. PopOnAck("INVITE_ACK") \in Seq(WaitRecord) /\ Len(PopOnAck("INVITE_ACK")) <= PoolSize
  BY <1>1, PopOnAckFits
<1>3. CASE s = 0 \/ d = 0 \/ answer # "yes"
  <2>1. OnlyRefreshed(i) /\ MallocQ' = PopOnAck("INVITE_ACK")
    BY <1>3 DEF InviteAck
  <2> QED
    BY <1>1, <1>2, <2>1, RefreshKeeps
<1>4. CASE s # 0 /\ d # 0 /\ answer = "yes"
  <2>1. s \in DOMAIN clientList /\ d \in DOMAIN clientList
    BY <1>1, <1>4, SearchFinds
  <2>2. clientList[s] \in ClientRecord
    BY <1>1, <2>1
  <2>3. r \in 0..Rooms
    BY <2>2 DEF ClientRecord
  <2>4. CASE CanJoin(r)
    <3>1. /\ JoinRoom(r, clientList[d].fd)
          /\ clientList' = [Refreshed(i) EXCEPT ![d].chatRoom = r]
          /\ MallocQ' = PushAll(PopOnAck("INVITE_ACK"), AlarmWaits(r, clientList[i].fd, lost))
          /\ UNCHANGED <<isPing, chatRoomAck, openFds, status>>
      BY <1>4, <2>4 DEF InviteAck
    <3> HIDE DEF s, d, r
    <3>2. AlarmWaits(r, clientList[i].fd, lost) \in Seq(WaitRecord)
      BY <1>1, <2>3, AlarmWaitsType
    <3>3. MallocQ' \in Seq(WaitRecord) /\ Len(MallocQ') <= PoolSize
      BY <1>2, <3>1, <3>2, PushAllFits
    <3> QED
      BY <1>1, <2>1, <2>3, <2>4, <3>1, <3>3, JoinKeeps
  <2>5. CASE ~ CanJoin(r)
    <3>1. Crash(JoinFault(r))
      BY <1>4, <2>5 DEF InviteAck
    <3> QED
      BY <3>1, JoinCrashKeeps
  <2> QED
    BY <2>4, <2>5
<1> QED
  BY <1>3, <1>4

\* STR_REQ (server.c:721) queues one wait for every member reached.
LEMMA StrReqKeeps ==
    ASSUME IInv, NEW i, NEW src \in AnyName, NEW lost, StrReq(i, src, lost)
    PROVE  IInv'
<1> DEFINE fd == clientList[i].fd
           r == clientList[i].chatRoom
           wait == Wait(src, "STR_ACK")
           waits == Copies(Cardinality(Reached(r, fd, lost)), wait)
<1>1. /\ i \in DOMAIN clientList /\ OnlyRefreshed(i) /\ clientList \in Seq(ClientRecord)
      /\ MallocQ \in Seq(WaitRecord) /\ Len(MallocQ) <= PoolSize
      /\ chatRoomList \in [0..Rooms -> Seq(Fds)]
  BY DEF StrReq, Reads, IInv, TypeOK
<1>2. MallocQ' = MallocQ \/ MallocQ' = PushAll(MallocQ, waits)
  BY DEF StrReq
<1>3. clientList[i] \in ClientRecord
  BY <1>1
<1>4. chatRoomList[r] \in Seq(Fds)
  BY <1>1, <1>3 DEF ClientRecord
<1>5. wait \in WaitRecord
  BY WaitTypeOK DEF WaitType
<1>6. waits \in Seq(WaitRecord)
  <2> HIDE DEF wait, r, fd
  <2> QED
    BY <1>4, <1>5, CopiesType
<1> HIDE DEF waits
<1>7. MallocQ' \in Seq(WaitRecord) /\ Len(MallocQ') <= PoolSize
  BY <1>1, <1>2, <1>6, PushAllFits
<1> QED
  BY <1>1, <1>7, RefreshKeeps

\* STR_ACK (server.c:750): the counter never passes the count of the room.
LEMMA StrAckKeeps ==
    ASSUME IInv, NEW i, NEW src, NEW dst, NEW lost, StrAck(i, src, dst, lost)
    PROVE  IInv'
<1> DEFINE s == Server_Search_Client(src)
           r == clientList[s].chatRoom
           count == IF deficit[r] = 0 /\ chatRoomAck[r] < Len(chatRoomList[r])
                    THEN chatRoomAck[r] + 1 ELSE chatRoomAck[r]
<1>1. /\ i \in DOMAIN clientList /\ clientList \in Seq(ClientRecord)
      /\ MallocQ \in Seq(WaitRecord) /\ Len(MallocQ) <= PoolSize
      /\ chatRoomAck \in [0..Rooms -> 0..MaxMembers] /\ MaxMembers \in Nat
      /\ chatRoomList \in [0..Rooms -> Seq(Fds)]
      /\ \A q \in 0..Rooms : Len(chatRoomList[q]) <= MaxMembers
  BY ChatServerAssumption DEF StrAck, Reads, IInv, TypeOK
<1>2. CASE MallocQ = <<>>
  BY <1>2, CrashKeeps DEF StrAck, Faults
<1>3. CASE MallocQ # <<>> /\ s = 0
  BY <1>3, CrashKeeps DEF StrAck, Faults
<1>4. CASE MallocQ # <<>> /\ s # 0
  <2>1. /\ clientList' = Refreshed(i) /\ MallocQ' = PopOnAck("STR_ACK")
        /\ chatRoomAck' = [chatRoomAck EXCEPT ![r] = count]
        /\ UNCHANGED <<isPing, chatRoomList, deficit, openFds, status>>
    BY <1>4 DEF StrAck
  <2>2. clientList[s] \in ClientRecord
    BY <1>1, <1>4, SearchFinds
  <2>3. r \in 0..Rooms
    BY <2>2 DEF ClientRecord
  <2>4. count \in 0..MaxMembers
    <3>1. /\ chatRoomAck[r] \in 0..MaxMembers
          /\ Len(chatRoomList[r]) \in Nat /\ Len(chatRoomList[r]) <= MaxMembers
      BY <1>1, <2>3
    <3> HIDE DEF r
    <3> QED
      BY <1>1, <3>1
  <2> HIDE DEF count, r
  <2>5. chatRoomAck' \in [0..Rooms -> 0..MaxMembers]
    BY <1>1, <2>1, <2>3, <2>4
  <2>6. PopOnAck("STR_ACK") \in Seq(WaitRecord) /\ Len(PopOnAck("STR_ACK")) <= PoolSize
    BY <1>1, PopOnAckFits
  <2>7. isPing' \in [1..MaxClients -> 0..MaxPings]
        /\ status' \in {"running", "stopped"} \cup Faults
    BY <2>1 DEF IInv, TypeOK
  <2> QED
    BY <1>1, <2>1, <2>5, <2>6, <2>7, QuietStep
<1> QED
  BY <1>2, <1>3, <1>4

\* PING_ACK (server.c:817) clears isPing and pops the ping's wait.
LEMMA PingAckKeeps ==
    ASSUME IInv, NEW i, PingAck(i)
    PROVE  IInv'
<1>1. /\ i \in DOMAIN clientList /\ clientList' = Refreshed(i)
      /\ UNCHANGED <<chatRoomList, deficit, chatRoomAck, openFds, status>>
  BY DEF PingAck, Reads, rooms
<1>2. /\ MallocQ \in Seq(WaitRecord) /\ Len(MallocQ) <= PoolSize
      /\ isPing \in [1..MaxClients -> 0..MaxPings] /\ MaxPings \in Nat /\ PoolSize \in Nat
  BY ChatServerAssumption DEF IInv, TypeOK
<1>3. MallocQ' = MallocQ \/ (MallocQ # <<>> /\ MallocQ' = Tail(MallocQ))
  BY DEF PingAck
<1>4. MallocQ' \in Seq(WaitRecord) /\ Len(MallocQ') <= PoolSize
  BY <1>2, <1>3, TailShrinks
<1>5. isPing' = isPing \/ isPing' = [isPing EXCEPT ![i] = 0]
  BY DEF PingAck
<1>6. isPing' \in [1..MaxClients -> 0..MaxPings]
  BY <1>2, <1>5
<1> QED
  BY <1>1, <1>4, <1>6, QuietStep DEF IInv, TypeOK

\* The scan of the waits, on any queue and counters of the right type.
LEMMA PacketTimeOverType ==
    ASSUME clientList \in Seq(ClientRecord), Len(clientList) <= MaxClients,
           NEW q \in Seq(WaitRecord), Len(q) <= PoolSize,
           NEW pings \in [1..MaxClients -> 0..MaxPings], NEW pinged, NEW lost,
           CheckPacketTimeOver(q, pings, pinged, lost)
    PROVE  /\ MallocQ' \in Seq(WaitRecord) /\ Len(MallocQ') <= PoolSize
           /\ isPing' \in [1..MaxClients -> 0..MaxPings]
<1> DEFINE s == Server_Search_Client(Head(q).name)
<1>1. MaxClients \in Nat /\ MaxPings \in Nat /\ PoolSize \in Nat /\ AckLimit \in Nat
  BY ChatServerAssumption
<1>2. CASE MallocQ' = q /\ isPing' = pings
  BY <1>2
<1>3. CASE q # <<>> /\ MallocQ' = Tail(q) /\ isPing' = pings
  BY <1>1, <1>3, TailShrinks
<1>4. CASE /\ s # 0 /\ MayRepeat(pings, s)
           /\ MallocQ' = q /\ isPing' = [pings EXCEPT ![s] = @ + 1]
  <2>1. s \in DOMAIN clientList
    BY <1>4, SearchFinds
  <2>2. s \in 1..MaxClients
    BY <1>1, <2>1
  <2> HIDE DEF s
  <2>3. pings[s] \in 0..MaxPings /\ pings[s] < MaxPings
    BY <1>4, <2>2 DEF MayRepeat
  <2>4. pings[s] + 1 \in 0..MaxPings
    BY <1>1, <2>3
  <2> QED
    BY <1>4, <2>4
<1>5. CASE q # <<>> /\ MallocQ' = Restarted(Tail(q)) /\ isPing' = pings
  <2> DEFINE t == Tail(q)
  <2>1. t \in Seq(WaitRecord) /\ Len(t) = Len(q) - 1 /\ Len(t) <= PoolSize
    BY <1>1, <1>5, TailShrinks
  <2>2. MallocQ' = Restarted(t)
    BY <1>5
  <2> HIDE DEF t
  <2>3. ASSUME NEW k \in DOMAIN t
        PROVE  [t[k] EXCEPT !.age = 0] \in WaitRecord
    <3>1. t[k] \in WaitRecord /\ 0 \in 0..(AckLimit + 1)
      BY <1>1, <2>1
    <3> QED
      BY <3>1 DEF WaitRecord
  <2>4. DOMAIN t = 1..Len(t) /\ Len(t) \in Nat
    BY <2>1
  <2>5. Restarted(t) \in [1..Len(t) -> WaitRecord]
    BY <2>3, <2>4 DEF Restarted
  <2>6. Restarted(t) \in Seq(WaitRecord) /\ Len(Restarted(t)) = Len(t)
    BY <2>4, <2>5
  <2> QED
    BY <1>5, <2>1, <2>2, <2>6
<1> QED
  BY <1>2, <1>3, <1>4, <1>5 DEF CheckPacketTimeOver

\* The pings of the idle pass (server.c:152) are queued first: the scan of the
\* waits finds a queue that fits in the pool.
LEMMA IdleChecks ==
    ASSUME IInv, NEW lost, Idle(lost)
    PROVE  \E q \in Seq(WaitRecord), pings \in [1..MaxClients -> 0..MaxPings] :
              /\ Len(q) <= PoolSize
              /\ CheckPacketTimeOver(q, pings, {PingOf(i) : i \in Tried(lost)}, lost)
<1> DEFINE waits(order) == [k \in DOMAIN order |->
                               Wait(clientList[order[k]].name, "PING_ACK")]
           pings == [k \in 1..MaxClients |-> IF k \in Pinged(lost) THEN 1 ELSE isPing[k]]
           pinged == {PingOf(i) : i \in Tried(lost)}
<1>1. /\ clientList \in Seq(ClientRecord) /\ Len(clientList) <= MaxClients
      /\ MallocQ \in Seq(WaitRecord) /\ Len(MallocQ) <= PoolSize
      /\ isPing \in [1..MaxClients -> 0..MaxPings] /\ MaxPings \in Nat \ {0}
  BY ChatServerAssumption DEF IInv, TypeOK
<1>2. PICK order \in Increasing(Pinged(lost)) :
         CheckPacketTimeOver(PushAll(MallocQ, waits(order)), pings, pinged, lost)
  BY DEF Idle
<1>3. Pinged(lost) \subseteq 1..Len(clientList)
  BY <1>1 DEF Pinged, Tried, Due
<1>4. Cardinality(Pinged(lost)) \in Nat
  <2>1. IsFiniteSet(1..Len(clientList))
    BY <1>1, FS_Interval
  <2> QED
    BY <1>3, <2>1, FS_Subset, FS_CardinalityType
<1>5. order \in [1..Cardinality(Pinged(lost)) -> Pinged(lost)]
  BY DEF Increasing
<1>6. ASSUME NEW k \in DOMAIN order
      PROVE  Wait(clientList[order[k]].name, "PING_ACK") \in WaitRecord
  <2>1. order[k] \in 1..Len(clientList)
    BY <1>3, <1>5
  <2>2. clientList[order[k]] \in ClientRecord
    BY <1>1, <2>1
  <2>3. clientList[order[k]].name \in AnyName
    BY <2>2 DEF ClientRecord, AnyName
  <2> QED
    BY <2>3, WaitTypeOK DEF WaitType
<1>7. waits(order) \in Seq(WaitRecord)
  <2> DEFINE n == Cardinality(Pinged(lost))
  <2>1. DOMAIN order = 1..n /\ n \in Nat
    BY <1>4, <1>5
  <2> HIDE DEF n
  <2>2. waits(order) \in [1..n -> WaitRecord]
    BY <1>6, <2>1
  <2> QED
    BY <2>1, <2>2
<1>8. pings \in [1..MaxClients -> 0..MaxPings]
  BY <1>1
<1> HIDE DEF waits, pings, pinged
<1>9. PushAll(MallocQ, waits(order)) \in Seq(WaitRecord)
      /\ Len(PushAll(MallocQ, waits(order))) <= PoolSize
  BY <1>1, <1>7, PushAllFits
<1> QED
  BY <1>2, <1>8, <1>9 DEF pinged

\* The idle scans change the queue and the isPing counters only.
LEMMA IdleKeeps ==
    ASSUME IInv, NEW lost, Idle(lost)
    PROVE  IInv'
<1>1. clientList \in Seq(ClientRecord) /\ Len(clientList) <= MaxClients
  BY DEF IInv, TypeOK
<1>2. /\ MallocQ' \in Seq(WaitRecord) /\ Len(MallocQ') <= PoolSize
      /\ isPing' \in [1..MaxClients -> 0..MaxPings]
  BY <1>1, IdleChecks, PacketTimeOverType
<1>3. UNCHANGED <<clientList, chatRoomList, deficit, chatRoomAck, openFds, status>>
  BY DEF Idle, rooms
<1> QED
  BY <1>2, <1>3, QuietStep DEF IInv, TypeOK

\* An age stops one above the limit it is compared with.
LEMMA OlderType ==
    ASSUME NEW limit \in Nat, NEW age \in 0..(limit + 1)
    PROVE  Older(age, limit) \in 0..(limit + 1)
BY DEF Older

\* A second older changes no name, descriptor or room.
LEMMA TickKeeps ==
    ASSUME IInv, Tick
    PROVE  IInv'
<1> DEFINE older(k) == [clientList[k] EXCEPT !.age = Older(@, IdleLimit)]
           longer(k) == [MallocQ[k] EXCEPT !.age = Older(@, AckLimit)]
<1>1. /\ clientList \in Seq(ClientRecord) /\ Len(clientList) <= MaxClients
      /\ MallocQ \in Seq(WaitRecord) /\ Len(MallocQ) <= PoolSize
      /\ IdleLimit \in Nat /\ AckLimit \in Nat
      /\ DOMAIN clientList = 1..Len(clientList) /\ DOMAIN MallocQ = 1..Len(MallocQ)
      /\ Len(clientList) \in Nat /\ Len(MallocQ) \in Nat
  BY ChatServerAssumption DEF IInv, TypeOK
<1>2. /\ clientList' = [k \in DOMAIN clientList |-> older(k)]
      /\ MallocQ' = [k \in DOMAIN MallocQ |-> longer(k)]
      /\ UNCHANGED <<isPing, chatRoomList, deficit, chatRoomAck, openFds, status>>
  BY DEF Tick, rooms
<1>3. ASSUME NEW k \in DOMAIN clientList
      PROVE  /\ older(k) \in ClientRecord
             /\ older(k).name = clientList[k].name
             /\ older(k).fd = clientList[k].fd
             /\ older(k).chatRoom = clientList[k].chatRoom
  <2>1. clientList[k] \in ClientRecord
    BY <1>1
  <2>2. clientList[k].age \in 0..(IdleLimit + 1)
    BY <2>1 DEF ClientRecord
  <2>3. Older(clientList[k].age, IdleLimit) \in 0..(IdleLimit + 1)
    BY <1>1, <2>2, OlderType
  <2> QED
    BY <2>1, <2>3 DEF ClientRecord
<1>4. ASSUME NEW k \in DOMAIN MallocQ
      PROVE  longer(k) \in WaitRecord
  <2>1. MallocQ[k] \in WaitRecord
    BY <1>1
  <2>2. MallocQ[k].age \in 0..(AckLimit + 1)
    BY <2>1 DEF WaitRecord
  <2>3. Older(MallocQ[k].age, AckLimit) \in 0..(AckLimit + 1)
    BY <1>1, <2>2, OlderType
  <2> QED
    BY <2>1, <2>3 DEF WaitRecord
<1> HIDE DEF older, longer
<1>5. clientList' \in [1..Len(clientList) -> ClientRecord]
  BY <1>1, <1>2, <1>3
<1>6. /\ clientList' \in Seq(ClientRecord) /\ Len(clientList') = Len(clientList)
      /\ DOMAIN clientList' = DOMAIN clientList
      /\ \A k \in DOMAIN clientList :
            /\ clientList'[k].name = clientList[k].name
            /\ clientList'[k].fd = clientList[k].fd
            /\ clientList'[k].chatRoom = clientList[k].chatRoom
  BY <1>1, <1>2, <1>3, <1>5
<1>7. MallocQ' \in [1..Len(MallocQ) -> WaitRecord]
  BY <1>1, <1>2, <1>4
<1>8. MallocQ' \in Seq(WaitRecord) /\ Len(MallocQ') = Len(MallocQ)
  BY <1>1, <1>7
<1>9. TypeOK'
  BY <1>1, <1>2, <1>6, <1>8 DEF IInv, TypeOK
<1>10. UniqueClients'
  BY <1>2, <1>6 DEF IInv, UniqueClients
<1>11. RoomListsMember'
  BY <1>2, <1>6 DEF IInv, RoomListsMember
<1> QED
  BY <1>2, <1>9, <1>10, <1>11 DEF IInv, CountsNonNegative

\* SIGINT (server.c:94) empties the list and closes every descriptor.
LEMMA InterruptKeeps ==
    ASSUME IInv, NEW lost, Interrupt(lost)
    PROVE  IInv'
<1>1. /\ clientList' = <<>> /\ openFds' = {} /\ status' = "stopped"
      /\ UNCHANGED <<isPing, chatRoomList, deficit, chatRoomAck, MallocQ>>
  BY DEF Interrupt, rooms
<1>2. MaxClients \in Nat
  BY ChatServerAssumption
<1>3. TypeOK'
  BY <1>1, <1>2 DEF IInv, TypeOK
<1> QED
  BY <1>1, <1>3 DEF IInv, UniqueClients, RoomListsMember, CountsNonNegative

\* Whatever a client sends, its handler keeps the invariant.
LEMMA ServeKeeps ==
    ASSUME IInv, NEW i, Serve(i)
    PROVE  IInv'
<1>1. HeaderNames \subseteq AnyName
  BY HeaderAssumption
<1>2. CASE ReadNothing(i)
  BY <1>2, ReadNothingKeeps
<1>3. CASE AllUserReq(i)
  BY <1>3, AllUserReqKeeps
<1>4. CASE ExitAck(i)
  BY <1>4, ExitAckKeeps
<1>5. CASE AlramAck(i)
  BY <1>5, AlramAckKeeps
<1>6. CASE PingAck(i)
  BY <1>6, PingAckKeeps
<1>7. ASSUME NEW lost, ExitReq(i, lost)
      PROVE  IInv'
  BY <1>7, ExitReqKeeps
<1>8. ASSUME NEW name \in HeaderNames, NEW registered \in BOOLEAN, NEW lost,
             ConnReq(i, name, registered, lost)
      PROVE  IInv'
  BY <1>1, <1>8, ConnReqKeeps
<1>9. ASSUME NEW req, NEW name, NEW lost, ServiceRequest(i, req, name, lost)
      PROVE  IInv'
  BY <1>9, ServiceRequestKeeps
<1>10. ASSUME NEW r \in 0..Rooms, NEW name, NEW lost, CreateChatroomReq(i, r, name, lost)
       PROVE  IInv'
  BY <1>10, CreateChatroomReqKeeps
<1>11. ASSUME NEW name, NEW lost, ExitChatroomReq(i, name, lost)
       PROVE  IInv'
  BY <1>11, ExitChatroomReqKeeps
<1>12. ASSUME NEW src, NEW dst \in HeaderNames, NEW forward \in HeaderNames,
              NEW rejected, NEW lost, InviteReq(i, src, dst, rejected, forward, lost)
       PROVE  IInv'
  BY <1>1, <1>12, InviteReqKeeps
<1>13. ASSUME NEW src, NEW dst, NEW answer, NEW lost, InviteAck(i, src, dst, answer, lost)
       PROVE  IInv'
  BY <1>13, InviteAckKeeps
<1>14. ASSUME NEW src \in HeaderNames, NEW lost, StrReq(i, src, lost)
       PROVE  IInv'
  BY <1>1, <1>14, StrReqKeeps
<1>15. ASSUME NEW src, NEW dst, NEW lost, StrAck(i, src, dst, lost)
       PROVE  IInv'
  BY <1>15, StrAckKeeps
<1> QED
  BY <1>2, <1>3, <1>4, <1>5, <1>6, <1>7, <1>8, <1>9, <1>10, <1>11, <1>12, <1>13,
     <1>14, <1>15 DEF Serve

-----------------------------------------------------------------------------
(* The theorems.                                                           *)

\* The server starts with nobody connected, every room empty and no wait.
THEOREM InitEstablishes == Init => IInv
<1> SUFFICES ASSUME Init
             PROVE  IInv
  OBVIOUS
<1>1. /\ MaxClients \in Nat /\ MaxPings \in Nat /\ Rooms \in Nat /\ MaxMembers \in Nat
      /\ MaxDeficit \in Nat /\ PoolSize \in Nat
  BY ChatServerAssumption
<1>2. TypeOK
  BY <1>1 DEF Init, TypeOK
<1>3. UniqueClients /\ RoomListsMember
  BY DEF Init, UniqueClients, RoomListsMember
<1>4. CountsNonNegative
  BY <1>1 DEF Init, CountsNonNegative
<1> QED
  BY <1>2, <1>3, <1>4 DEF IInv

\* No handler, scan, tick or interrupt breaks the invariant.
THEOREM NextKeeps == IInv /\ [Next]_vars => IInv'
<1> SUFFICES ASSUME IInv, [Next]_vars
             PROVE  IInv'
  OBVIOUS
<1>1. CASE UNCHANGED vars
  <2>1. UNCHANGED <<clientList, isPing, chatRoomList, deficit, chatRoomAck,
                    MallocQ, openFds, status>>
    BY <1>1 DEF vars
  <2> QED
    BY <2>1, QuietStep DEF IInv, TypeOK
<1>2. CASE \E fd \in Fds : Accept(fd)
  BY <1>2, AcceptKeeps
<1>3. CASE \E i \in 1..MaxClients : Serve(i)
  BY <1>3, ServeKeeps
<1>4. CASE \E lost \in Losses : Idle(lost) \/ Interrupt(lost)
  BY <1>4, IdleKeeps, InterruptKeeps
<1>5. CASE Tick
  BY <1>5, TickKeeps
<1> QED
  BY <1>1, <1>2, <1>3, <1>4, <1>5 DEF Next

\* The inductive invariant holds of every reachable state of the server.
THEOREM InvariantHolds == Spec => []IInv
BY InitEstablishes, NextKeeps, PTL DEF Spec

\* Every variable keeps its type.  That lists and rows stay in their arrays
\* is so because a store outside them ends the behaviour: when that can come
\* is OverrunsOnlyWhenFull below.
THEOREM TypeCorrect == Spec => []TypeOK
<1>1. IInv => TypeOK
  BY DEF IInv
<1> QED
  BY <1>1, InvariantHolds, PTL

\* Names and descriptors of the client list stay unique, and every listed
\* descriptor stays open, through logins, departures and slot shifts.
THEOREM ClientsStayUnique == Spec => []UniqueClients
<1>1. IInv => UniqueClients
  BY DEF IInv
<1> QED
  BY <1>1, InvariantHolds, PTL

\* A client's chatRoom field is backed by a cell of that numbered room.
THEOREM MembershipAgrees == Spec => []RoomListsMember
<1>1. IInv => RoomListsMember
  BY DEF IInv
<1> QED
  BY <1>1, InvariantHolds, PTL

\* No numbered room is left more often than it is entered.
THEOREM CountsStayNonNegative == Spec => []CountsNonNegative
<1>1. IInv => CountsNonNegative
  BY DEF IInv
<1> QED
  BY <1>1, InvariantHolds, PTL

-----------------------------------------------------------------------------
(* When a store can miss its array.                                        *)

\* The faults that are stores outside a list, a row or a void count.
Overruns == {"client list overrun", "room overrun", "room count overwritten"}

\* A handler keeps the server running, or stops it, or reaches a fault; an
\* overrun is the accept of one more than the list holds, or a join.
OverrunStep ==
    \/ status' \notin Overruns
    \/ /\ status' = "client list overrun" /\ Len(clientList) = MaxClients
       /\ openFds # Fds /\ UNCHANGED openFds
    \/ \E r \in 0..Rooms : /\ ~ CanJoin(r) /\ status' = JoinFault(r)
                          /\ UNCHANGED <<chatRoomList, deficit>>

\* A crowded row has a descriptor in two cells, or every one in some cell.
Crowded(r) ==
    \/ \E j, k \in DOMAIN chatRoomList[r] : j # k /\ chatRoomList[r][j] = chatRoomList[r][k]
    \/ \A fd \in Fds : Member(r, fd)

\* A step of the server that is no packet handler.
LEMMA LoopOverruns ==
    ASSUME IInv, Next, ~ \E i \in 1..MaxClients : Serve(i)
    PROVE  status = "running" /\ OverrunStep
<1>1. ASSUME NEW fd \in Fds, Accept(fd)
      PROVE  status = "running" /\ OverrunStep
  <2>1. status = "running" /\ fd \notin openFds
    BY <1>1 DEF Accept, Running
  <2>2. CASE Crash("client list overrun") /\ Len(clientList) = MaxClients
    BY <2>1, <2>2 DEF Crash, OverrunStep
  <2>3. CASE status' = status
    BY <2>1, <2>3 DEF OverrunStep, Overruns
  <2> QED
    BY <1>1, <2>1, <2>2, <2>3 DEF Accept
<1>2. ASSUME NEW lost \in Losses, Idle(lost) \/ Interrupt(lost)
      PROVE  status = "running" /\ OverrunStep
  BY <1>2 DEF Idle, Interrupt, Running, OverrunStep, Overruns
<1>3. Tick => status = "running" /\ OverrunStep
  BY DEF Tick, Running, OverrunStep, Overruns
<1> QED
  BY <1>1, <1>2, <1>3 DEF Next

\* A packet handler overruns nothing but a room it joins somebody to.
LEMMA ServeOverruns ==
    ASSUME IInv, NEW i \in 1..MaxClients, Serve(i)
    PROVE  status = "running" /\ OverrunStep
<1>1. CASE ReadNothing(i) \/ ExitAck(i) \/ AlramAck(i) \/ PingAck(i)
  BY <1>1 DEF ReadNothing, ExitAck, AlramAck, PingAck, Reads, Running, OnlyRefreshed,
              OverrunStep, Overruns
<1>2. CASE AllUserReq(i)
  BY <1>2 DEF AllUserReq, Reads, Running, Crash, OverrunStep, Overruns
<1>3. ASSUME NEW lost \in Losses, ExitReq(i, lost)
      PROVE  status = "running" /\ OverrunStep
  BY <1>3 DEF ExitReq, Reads, Running, OverrunStep, Overruns
<1>4. ASSUME NEW name, NEW registered, NEW lost, ConnReq(i, name, registered, lost)
      PROVE  status = "running" /\ OverrunStep
  BY <1>4 DEF ConnReq, Reads, Running, OverrunStep, Overruns
<1>5. ASSUME NEW req, NEW name, NEW lost, ServiceRequest(i, req, name, lost)
      PROVE  status = "running" /\ OverrunStep
  BY <1>5 DEF ServiceRequest, Reads, Running, OnlyRefreshed, OverrunStep, Overruns
<1>6. ASSUME NEW r \in 0..Rooms, NEW name, NEW lost, CreateChatroomReq(i, r, name, lost)
      PROVE  status = "running" /\ OverrunStep
  <2>1. status = "running"
    BY <1>6 DEF CreateChatroomReq, Reads, Running
  <2>2. status' = status \/ (~ CanJoin(r) /\ Crash(JoinFault(r)))
    BY <1>6 DEF CreateChatroomReq
  <2> QED
    BY <2>1, <2>2 DEF OverrunStep, Overruns, Crash, rooms
<1>7. ASSUME NEW name, NEW lost, ExitChatroomReq(i, name, lost)
      PROVE  status = "running" /\ OverrunStep
  BY <1>7 DEF ExitChatroomReq, Reads, Running, OverrunStep, Overruns
<1>8. ASSUME NEW src, NEW dst, NEW forward, NEW rejected, NEW lost,
             InviteReq(i, src, dst, rejected, forward, lost)
      PROVE  status = "running" /\ OverrunStep
  BY <1>8 DEF InviteReq, Reads, Running, OnlyRefreshed, OverrunStep, Overruns
<1>9. ASSUME NEW src, NEW dst, NEW answer, NEW lost, InviteAck(i, src, dst, answer, lost)
      PROVE  status = "running" /\ OverrunStep
  <2> DEFINE s == Server_Search_Client(src)
             d == Server_Search_Client(dst)
             r == clientList[s].chatRoom
  <2>1. status = "running"
    BY <1>9 DEF InviteAck, Reads, Running
  <2>2. CASE s = 0 \/ d = 0 \/ answer # "yes" \/ CanJoin(r)
    <3>1. status' = status
      BY <1>9, <2>2 DEF InviteAck, OnlyRefreshed
    <3> QED
      BY <2>1, <3>1 DEF OverrunStep, Overruns
  <2>3. CASE s # 0 /\ d # 0 /\ answer = "yes" /\ ~ CanJoin(r)
    <3>1. Crash(JoinFault(r))
      BY <1>9, <2>3 DEF InviteAck
    <3>2. clientList[s] \in ClientRecord
      BY <2>3, SearchFinds DEF IInv, TypeOK
    <3>3. r \in 0..Rooms
      BY <3>2 DEF ClientRecord
    <3> QED
      BY <2>1, <2>3, <3>1, <3>3 DEF OverrunStep, Crash, rooms
  <2> QED
    BY <2>2, <2>3
<1>10. ASSUME NEW src, NEW lost, StrReq(i, src, lost)
       PROVE  status = "running" /\ OverrunStep
  BY <1>10 DEF StrReq, Reads, Running, OnlyRefreshed, OverrunStep, Overruns
<1>11. ASSUME NEW src, NEW dst, NEW lost, StrAck(i, src, dst, lost)
       PROVE  status = "running" /\ OverrunStep
  <2>1. status = "running"
    BY <1>11 DEF StrAck, Reads, Running
  <2>2. Crash("NULL queue head") \/ Crash("clientList[-1]") \/ status' = status
    BY <1>11 DEF StrAck
  <2> QED
    BY <2>1, <2>2 DEF OverrunStep, Overruns, Crash
<1> QED
  BY <1>1, <1>2, <1>3, <1>4, <1>5, <1>6, <1>7, <1>8, <1>9, <1>10, <1>11 DEF Serve

\* Every slot of the list keeps a descriptor of its own open.
LEMMA ListedAreOpen ==
    ASSUME IInv, IsFiniteSet(Fds)
    PROVE  IsFiniteSet(openFds) /\ Len(clientList) <= Cardinality(openFds)
<1>1. /\ clientList \in Seq(ClientRecord) /\ openFds \subseteq Fds
      /\ DOMAIN clientList = 1..Len(clientList) /\ Len(clientList) \in Nat
  BY DEF IInv, TypeOK
<1>2. IsFiniteSet(openFds)
  BY <1>1, FS_Subset
<1> DEFINE f == [i \in 1..Len(clientList) |-> clientList[i].fd]
<1>3. f \in Injection(1..Len(clientList), openFds)
  BY <1>1 DEF IInv, UniqueClients, Injection, IsInjective
<1>4. Cardinality(1..Len(clientList)) <= Cardinality(openFds)
  BY <1>2, <1>3, FS_Injection
<1>5. Cardinality(1..Len(clientList)) = Len(clientList)
  BY <1>1, FS_Interval
<1> QED
  BY <1>2, <1>4, <1>5

\* A row that is full of at most MaxMembers descriptors is crowded.
LEMMA FullIsCrowded ==
    ASSUME IInv, IsFiniteSet(Fds), Cardinality(Fds) <= MaxMembers,
           NEW r \in 0..Rooms, Len(chatRoomList[r]) = MaxMembers
    PROVE  Crowded(r)
<1> DEFINE cells == 1..MaxMembers
<1>1. /\ chatRoomList[r] \in Seq(Fds) /\ MaxMembers \in Nat
      /\ DOMAIN chatRoomList[r] = cells
  BY ChatServerAssumption DEF IInv, TypeOK
<1>2. chatRoomList[r] \in [cells -> Fds]
  BY <1>1
<1>3. Cardinality(cells) = MaxMembers /\ IsFiniteSet(cells)
  BY <1>1, FS_Interval
<1>4. SUFFICES ASSUME \A j, k \in cells : j # k => chatRoomList[r][j] # chatRoomList[r][k]
               PROVE  \A fd \in Fds : Member(r, fd)
  BY <1>1 DEF Crowded
<1>5. chatRoomList[r] \in Injection(cells, Fds)
  BY <1>2, <1>4 DEF Injection, IsInjective
<1>6. Cardinality(cells) = Cardinality(Fds)
  BY <1>1, <1>3, <1>5, FS_Injection, FS_CardinalityType
<1>7. chatRoomList[r] \in Surjection(cells, Fds)
  BY <1>5, <1>6, FS_Injection
<1> QED
  BY <1>1, <1>7 DEF Surjection, Member

\* What an overrun leaves behind is still there: it was the last step.
Explained ==
    /\ OverrunsNeedFull
    /\ status = "client list overrun" => openFds # Fds

\* Only a step into an overrun has to be looked at.
LEMMA OverrunsExplained ==
    ASSUME IsFiniteSet(Fds), IInv, IInv', Explained, [Next]_vars
    PROVE  Explained'
<1>1. CASE UNCHANGED vars
  BY <1>1 DEF vars, Explained, OverrunsNeedFull
<1>2. CASE Next
  <2>1. status = "running" /\ OverrunStep
    BY <1>2, LoopOverruns, ServeOverruns
  <2>2. CASE status' \notin Overruns
    BY <2>2 DEF Overruns, Explained, OverrunsNeedFull
  <2>3. CASE /\ status' = "client list overrun" /\ Len(clientList) = MaxClients
             /\ openFds # Fds /\ UNCHANGED openFds
    BY <2>3, ListedAreOpen DEF Explained, OverrunsNeedFull
  <2>4. ASSUME NEW r \in 0..Rooms, ~ CanJoin(r), status' = JoinFault(r),
               UNCHANGED <<chatRoomList, deficit>>
        PROVE  Explained'
    <3> USE <2>4
    <3>a. chatRoomList[r] \in Seq(Fds) /\ Len(chatRoomList[r]) <= MaxMembers
      BY DEF IInv, TypeOK
    <3>b. deficit[r] \in 0..MaxDeficit
      BY DEF IInv, TypeOK
    <3>1. /\ Len(chatRoomList[r]) \in Nat /\ Len(chatRoomList[r]) <= MaxMembers
          /\ deficit[r] \in Nat /\ MaxMembers \in Nat /\ Rooms \in Nat
      BY <3>a, <3>b, ChatServerAssumption
    <3>2. deficit[r] > 0 => r = 0
      BY <3>1 DEF IInv, CountsNonNegative
    <3>3. CASE deficit[r] > 0
      BY <2>4, <3>2, <3>3 DEF JoinFault, Explained, OverrunsNeedFull
    <3>4. CASE deficit[r] = 0
      <4>1. Len(chatRoomList[r]) = MaxMembers
        BY <3>1, <3>4 DEF CanJoin
      <4>2. status' = "room overrun" /\ chatRoomList' = chatRoomList
        <5>1. ~ (deficit[r] > 0)
          BY <3>1, <3>4
        <5> QED
          BY <5>1 DEF JoinFault
      <4>3. Len(chatRoomList'[r]) = MaxMembers
        BY <4>1, <4>2
      <4> QED
        BY <4>2, <4>3 DEF Explained, OverrunsNeedFull
    <3> QED
      BY <3>1, <3>3, <3>4
  <2> QED
    BY <2>1, <2>2, <2>3, <2>4 DEF OverrunStep
<1> QED
  BY <1>1, <1>2

\* No store misses the list before MaxClients descriptors are open, none
\* misses a row that is not full, and no count but room 0's is overwritten.
THEOREM OverrunsOnlyWhenFull ==
    ASSUME IsFiniteSet(Fds)
    PROVE  Spec => []OverrunsNeedFull
<1>1. Init => Explained
  BY DEF Init, Explained, OverrunsNeedFull
<1>2. IInv /\ IInv' /\ Explained /\ [Next]_vars => Explained'
  BY OverrunsExplained
<1>3. Explained => OverrunsNeedFull
  BY DEF Explained
<1> QED
  BY <1>1, <1>2, <1>3, InvariantHolds, PTL DEF Spec

\* With no more descriptors than the list has slots and a row has cells, the
\* list is never overrun, and a row only if a descriptor was put in it twice
\* or it holds every one: what could go wrong is what a leave, a deletion or
\* an invitation from another room leaves behind in the cells.
THEOREM FewClientsFit ==
    ASSUME IsFiniteSet(Fds), Cardinality(Fds) <= MaxClients, Cardinality(Fds) <= MaxMembers
    PROVE  Spec => [](/\ OverrunsNeedFull
                      /\ status # "client list overrun"
                      /\ status = "room overrun" =>
                            \E r \in 0..Rooms : Len(chatRoomList[r]) = MaxMembers /\ Crowded(r))
<1>1. Init => Explained
  BY DEF Init, Explained, OverrunsNeedFull
<1>2. IInv /\ IInv' /\ Explained /\ [Next]_vars => Explained'
  BY OverrunsExplained
<1>3. ASSUME IInv, Explained
      PROVE  /\ OverrunsNeedFull /\ status # "client list overrun"
             /\ status = "room overrun" =>
                   \E r \in 0..Rooms : Len(chatRoomList[r]) = MaxMembers /\ Crowded(r)
  <2>1. SUFFICES ASSUME status = "client list overrun"
                 PROVE  FALSE
    BY <1>3, FullIsCrowded DEF Explained, OverrunsNeedFull
  <2>2. openFds # Fds /\ openFds \subseteq Fds /\ Cardinality(openFds) >= MaxClients
    BY <1>3, <2>1 DEF Explained, OverrunsNeedFull, IInv, TypeOK
  <2>3. /\ Cardinality(openFds) <= Cardinality(Fds)
        /\ Cardinality(openFds) # Cardinality(Fds)
    BY <2>2, FS_Subset
  <2>4. Cardinality(openFds) \in Nat /\ Cardinality(Fds) \in Nat /\ MaxClients \in Nat
    BY <2>2, FS_Subset, FS_CardinalityType, ChatServerAssumption
  <2> QED
    BY <2>2, <2>3, <2>4
<1>4. IInv /\ Explained =>
         /\ OverrunsNeedFull /\ status # "client list overrun"
         /\ status = "room overrun" =>
               \E r \in 0..Rooms : Len(chatRoomList[r]) = MaxMembers /\ Crowded(r)
  BY <1>3
<1> QED
  BY <1>1, <1>2, <1>4, InvariantHolds, PTL DEF Spec

-----------------------------------------------------------------------------
(* What the invariant gives the members of a numbered room.                *)

\* Another client of i's numbered room is behind one of the cells a handler
\* of i writes to.
LEMMA CompanionIsReached ==
    ASSUME IInv, NEW i \in DOMAIN clientList, clientList[i].chatRoom # 0,
           NEW k \in SameRoom(i)
    PROVE  \E j \in Others(clientList[i].chatRoom, clientList[i].fd) :
              chatRoomList[clientList[i].chatRoom][j] = clientList[k].fd
<1> DEFINE r == clientList[i].chatRoom
<1>1. k \in DOMAIN clientList /\ k # i /\ clientList[k].chatRoom = r
  BY DEF SameRoom
<1>2. PICK j \in DOMAIN chatRoomList[r] : chatRoomList[r][j] = clientList[k].fd
  BY <1>1 DEF IInv, RoomListsMember
<1>3. clientList[k].fd # clientList[i].fd
  BY <1>1 DEF IInv, UniqueClients
<1> QED
  BY <1>2, <1>3 DEF Others

\* A packet is written or refused: either way its addressee was tried.
LEMMA AllAreAddressed ==
    ASSUME NEW P, NEW lost, out' = Outcome(P, lost), NEW p \in P
    PROVE  p.fd \in Addressed(p.type)
<1>1. out'.sent = {q \in P : Accepts(q.fd, lost)}
      /\ out'.refused = {q \in P : ~ Accepts(q.fd, lost)}
  BY DEF Outcome
<1>2. p \in out'.sent \cup out'.refused
  BY <1>1
<1> QED
  BY <1>2 DEF Addressed

\* A chat message goes to every other client of the sender's numbered room.
THEOREM BroadcastsReach == Spec => BroadcastReachesRoom
<1>1. ASSUME IInv, NEW i \in DOMAIN clientList, NEW src \in HeaderNames \ {NoName},
             NEW lost \in Losses, clientList[i].chatRoom # 0, StrReq(i, src, lost),
             NEW k \in SameRoom(i)
      PROVE  clientList[k].fd \in Addressed("STR_REQ")
  <2> DEFINE r == clientList[i].chatRoom
             fd == clientList[i].fd
             packets == {Server_Chat_Request(chatRoomList[r][j], src) : j \in Others(r, fd)}
  <2>1. out' = Outcome(packets, lost)
    BY <1>1 DEF StrReq
  <2>2. PICK j \in Others(r, fd) : chatRoomList[r][j] = clientList[k].fd
    BY <1>1, CompanionIsReached
  <2> DEFINE p == Server_Chat_Request(chatRoomList[r][j], src)
  <2>3. p \in packets
    BY <2>2
  <2>4. p.fd = clientList[k].fd /\ p.type = "STR_REQ"
    BY <2>2 DEF Server_Chat_Request, Packet
  <2> HIDE DEF p, packets
  <2>5. p.fd \in Addressed(p.type)
    BY <2>1, <2>3, AllAreAddressed
  <2> QED
    BY <2>4, <2>5
<1>2. IInv => [\A i \in DOMAIN clientList, src \in HeaderNames \ {NoName}, lost \in Losses :
                  clientList[i].chatRoom # 0 /\ StrReq(i, src, lost) =>
                     \A k \in SameRoom(i) : clientList[k].fd \in Addressed("STR_REQ")]_vars
  BY <1>1
<1> QED
  BY <1>2, InvariantHolds, PTL DEF BroadcastReachesRoom

\* A departure from a numbered room is announced to every client left in it.
THEOREM DeparturesAreAnnounced == Spec => DepartureIsAnnounced
<1>1. ASSUME IInv, NEW i \in DOMAIN clientList, NEW lost \in Losses,
             clientList[i].chatRoom # 0, Leaves(i, lost), NEW k \in SameRoom(i)
      PROVE  clientList[k].fd \in Addressed("ALRAM_REQ")
  <2> DEFINE r == clientList[i].chatRoom
             fd == clientList[i].fd
  <2>1. PICK packets : Alarms(r, fd) \subseteq packets /\ out' = Outcome(packets, lost)
    <3>1. CASE ExitReq(i, lost)
      <4>1. clientList[i] \in ClientRecord /\ Rooms \in Nat
        BY <1>1, ChatServerAssumption DEF IInv, TypeOK
      <4>2. r \in 1..Rooms
        BY <1>1, <4>1 DEF ClientRecord
      <4>3. deficit[r] # 1
        BY <1>1, <4>2 DEF IInv, CountsNonNegative
      <4>4. out' = Outcome(Alarms(r, fd) \cup {Server_Exit_Ack(fd, clientList[i].name)}, lost)
        BY <1>1, <3>1, <4>3 DEF ExitReq
      <4> QED
        BY <4>4
    <3>2. ASSUME NEW name \in HeaderNames, ExitChatroomReq(i, name, lost)
          PROVE  out' = Outcome(Alarms(r, fd) \cup Server_Exit_Chat_Romm_Ack(fd, name), lost)
      BY <3>2 DEF ExitChatroomReq
    <3> HIDE DEF r, fd
    <3> QED
      BY <1>1, <3>1, <3>2 DEF Leaves
  <2>2. PICK j \in Others(r, fd) : chatRoomList[r][j] = clientList[k].fd
    BY <1>1, CompanionIsReached
  <2> DEFINE p == Server_Alram_Request(chatRoomList[r][j])
  <2>3. p \in packets
    BY <2>1, <2>2 DEF Alarms
  <2>4. p.fd = clientList[k].fd /\ p.type = "ALRAM_REQ"
    BY <2>2 DEF Server_Alram_Request, Packet
  <2> HIDE DEF p
  <2>5. p.fd \in Addressed(p.type)
    BY <2>1, <2>3, AllAreAddressed
  <2> QED
    BY <2>4, <2>5
<1>2. IInv => [\A i \in DOMAIN clientList, lost \in Losses :
                  clientList[i].chatRoom # 0 /\ Leaves(i, lost) =>
                     \A k \in SameRoom(i) : clientList[k].fd \in Addressed("ALRAM_REQ")]_vars
  BY <1>1
<1> QED
  BY <1>2, InvariantHolds, PTL DEF DepartureIsAnnounced

\* The numbered room that a creation hands out is in nobody's chatRoom field.
THEOREM CreatedRoomsAreFresh == Spec => CreatedRoomIsFresh
<1>1. ASSUME IInv, NEW i \in DOMAIN clientList, NEW r \in 1..Rooms,
             NEW name \in HeaderNames, NEW lost \in Losses,
             CreateChatroomReq(i, r, name, lost), NEW k \in DOMAIN clientList
      PROVE  clientList[k].chatRoom # r
  <2>1. r # 0 /\ FirstVoid(r)
    BY <1>1 DEF CreateChatroomReq
  <2>2. chatRoomList[r] = <<>>
    BY <2>1 DEF FirstVoid, Empty
  <2> QED
    BY <1>1, <2>1, <2>2 DEF IInv, RoomListsMember
<1>2. IInv => [\A i \in DOMAIN clientList, r \in 1..Rooms, name \in HeaderNames,
                  lost \in Losses :
                  CreateChatroomReq(i, r, name, lost) =>
                     \A k \in DOMAIN clientList \ {i} : clientList[k].chatRoom # r]_vars
  BY <1>1
<1> QED
  BY <1>2, InvariantHolds, PTL DEF CreatedRoomIsFresh
=============================================================================
