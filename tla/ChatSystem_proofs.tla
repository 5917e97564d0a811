-------------------------- MODULE ChatSystem_proofs ---------------------------
(***************************************************************************)
(* Clients and server together, for every number of each: every packet on  *)
(* its way is one its reader knows, and the two ends of a connection agree *)
(* on who is logged in.  The server's own invariant and what its handlers  *)
(* write come from ChatServerSteps_proofs, through the instance S.         *)
(***************************************************************************)
EXTENDS ChatSystem, FiniteSetTheorems, WellFoundedInduction, TLAPS

S == INSTANCE ChatServerSteps_proofs

-----------------------------------------------------------------------------
(* Sequences of sequences, and of the members of a set.                    *)

\* The order of the natural numbers, as a relation.
LEMMA LessRelation == OpToRel(<, Nat) = {p \in Nat \X Nat : p[1] < p[2]}
BY DEF OpToRel

\* A set of natural numbers that is not empty has a least member.
LEMMA LeastMember ==
    ASSUME NEW N \in SUBSET Nat, N # {}
    PROVE  \E m \in N : \A k \in N : m <= k
<1> DEFINE R == {p \in Nat \X Nat : p[1] < p[2]}
<1>1. IsWellFoundedOn(R, Nat)
  BY LessRelation, NatLessThanWellFounded
<1>2. PICK m \in N : \A k \in N : ~(<<k, m>> \in R)
  <2> HIDE DEF R
  <2> QED
    BY <1>1, WFMin
<1>3. ASSUME NEW k \in N, k < m PROVE FALSE
  <2>1. <<k, m>> \in Nat \X Nat
    OBVIOUS
  <2>2. <<k, m>> \in R
    BY <1>3, <2>1
  <2> QED
    BY <1>2, <2>2
<1>4. \A k \in N : k \in Nat /\ m \in Nat
  OBVIOUS
<1> QED
  BY <1>3, <1>4

\* What flattening has built after the first n of the sequences.
Flattens(f, seqs, n) ==
    f = [i \in 1..n |-> IF i = 1 THEN seqs[i] ELSE f[i - 1] \o seqs[i]]

\* It can always build one more.
LEMMA FlattensMore ==
    ASSUME NEW seqs, NEW n \in Nat, NEW f, Flattens(f, seqs, n)
    PROVE  \E g : Flattens(g, seqs, n + 1)
<1> DEFINE g == [i \in 1..(n + 1) |-> IF i <= n THEN f[i]
                  ELSE IF i = 1 THEN seqs[i] ELSE f[i - 1] \o seqs[i]]
<1>1. ASSUME NEW i \in 1..n
      PROVE  f[i] = IF i = 1 THEN seqs[i] ELSE f[i - 1] \o seqs[i]
  BY DEF Flattens
<1>2. \A i \in 1..(n + 1) : i # 1 => i - 1 \in 1..(n + 1) /\ i - 1 <= n
  OBVIOUS
<1>3. \A i \in 1..(n + 1) : g[i] = IF i = 1 THEN seqs[i] ELSE g[i - 1] \o seqs[i]
  BY <1>1, <1>2
<1>4. g = [i \in 1..(n + 1) |-> g[i]]
  OBVIOUS
<1> HIDE DEF g
<1>5. Flattens(g, seqs, n + 1)
  BY <1>3, <1>4 DEF Flattens
<1> QED
  BY <1>5

\* So it can build all of them.
LEMMA FlattensAll ==
    ASSUME NEW seqs, NEW n \in Nat
    PROVE  \E f : Flattens(f, seqs, n)
<1> DEFINE Bad == {m \in Nat : ~ \E f : Flattens(f, seqs, m)}
<1>1. SUFFICES ASSUME Bad # {} PROVE FALSE
  OBVIOUS
<1>2. PICK m \in Bad : \A k \in Bad : m <= k
  BY <1>1, LeastMember
<1>3. CASE m = 0
  <2>1. Flattens(<<>>, seqs, 0)
    BY DEF Flattens
  <2> QED
    BY <1>3, <2>1
<1>4. CASE m # 0
  <2>1. m - 1 \in Nat /\ m - 1 \notin Bad
    BY <1>2, <1>4
  <2>2. PICK f : Flattens(f, seqs, m - 1)
    BY <2>1
  <2>3. \E g : Flattens(g, seqs, m - 1 + 1)
    BY <2>1, <2>2, FlattensMore
  <2> QED
    BY <1>2, <2>3
<1> QED
  BY <1>3, <1>4

\* A sequence of sequences is flattened to one of their members, which is
\* empty only when all of them are.
LEMMA Flattened ==
    ASSUME NEW T, NEW seqs \in Seq(Seq(T))
    PROVE  /\ FlattenSeq(seqs) \in Seq(T)
           /\ (\E i \in DOMAIN seqs : seqs[i] # <<>>) => FlattenSeq(seqs) # <<>>
<1> DEFINE n == Len(seqs)
           f == CHOOSE f : Flattens(f, seqs, n)
<1>1. n \in Nat /\ DOMAIN seqs = 1..n
  OBVIOUS
<1>2. Flattens(f, seqs, n)
  BY <1>1, FlattensAll
<1>3. FlattenSeq(seqs) = IF n = 0 THEN seqs ELSE f[n]
  BY DEF FlattenSeq, Flattens
<1> HIDE DEF f
<1>4. \A i \in 1..n : f[i] = IF i = 1 THEN seqs[i] ELSE f[i - 1] \o seqs[i]
  BY <1>1, <1>2 DEF Flattens
<1> DEFINE Good(i) == /\ f[i] \in Seq(T)
                      /\ (\E j \in 1..i : seqs[j] # <<>>) => f[i] # <<>>
           Bad == {i \in Nat : i \in 1..n /\ ~Good(i)}
<1>5. Bad = {}
  <2>1. SUFFICES ASSUME Bad # {} PROVE FALSE
    OBVIOUS
  <2>2. PICK m \in Bad : \A k \in Bad : m <= k
    BY <2>1, LeastMember
  <2>3. m \in 1..n /\ seqs[m] \in Seq(T)
    BY <1>1, <2>2
  <2>4. CASE m = 1
    <3>1. f[m] = seqs[m]
      BY <1>4, <2>3, <2>4
    <3>2. \A j \in 1..m : j = m
      BY <2>4
    <3> QED
      BY <2>2, <2>3, <3>1, <3>2
  <2>5. CASE m # 1
    <3>1. m - 1 \in 1..n /\ m - 1 \notin Bad /\ m - 1 \in Nat
      BY <1>1, <2>2, <2>3, <2>5
    <3>2. Good(m - 1)
      BY <3>1
    <3>3. f[m] = f[m - 1] \o seqs[m]
      BY <1>4, <2>3, <2>5
    <3>4. f[m] \in Seq(T)
      BY <2>3, <3>2, <3>3
    <3>5. ASSUME NEW j \in 1..m, seqs[j] # <<>> PROVE f[m] # <<>>
      <4>1. j \in 1..(m - 1) \/ j = m
        BY <2>3
      <4>2. f[m - 1] # <<>> \/ seqs[m] # <<>>
        BY <3>2, <3>5, <4>1
      <4> QED
        BY <2>3, <3>2, <3>3, <4>2
    <3> QED
      BY <2>2, <3>4, <3>5
  <2> QED
    BY <2>4, <2>5
<1>6. CASE n = 0
  BY <1>1, <1>3, <1>6
<1>7. CASE n # 0
  <2>1. n \in 1..n /\ n \in Nat
    BY <1>1, <1>7
  <2>2. Good(n)
    BY <1>5, <2>1
  <2> QED
    BY <1>1, <1>3, <1>7, <2>2
<1> QED
  BY <1>6, <1>7

\* The members of a finite set, in some order.
LEMMA Enumerated ==
    ASSUME NEW T, IsFiniteSet(T)
    PROVE  /\ SetToSeq(T) \in Seq(T)
           /\ Len(SetToSeq(T)) = Cardinality(T)
           /\ \A x \in T : \E k \in DOMAIN SetToSeq(T) : SetToSeq(T)[k] = x
<1> DEFINE n == Cardinality(T)
<1>1. n \in Nat /\ \E f : f \in Bijection(1..n, T)
  BY FS_CardinalityType DEF ExistsBijection
<1>2. PICK f \in [1..n -> T] : IsInjective(f)
  BY <1>1 DEF Bijection, Injection, IsInjective
<1>3. SetToSeq(T) \in [1..n -> T] /\ IsInjective(SetToSeq(T))
  BY <1>2 DEF SetToSeq
<1>4. SetToSeq(T) \in Injection(1..n, T)
  BY <1>3 DEF Injection
<1>5. Cardinality(1..n) = n
  BY <1>1, FS_Interval
<1>6. SetToSeq(T) \in Surjection(1..n, T)
  BY <1>4, <1>5, FS_Injection
<1>7. \A x \in T : \E k \in 1..n : SetToSeq(T)[k] = x
  BY <1>6 DEF Surjection
<1>8. DOMAIN SetToSeq(T) = 1..n /\ SetToSeq(T) \in Seq(T)
  <2> HIDE DEF n
  <2> QED
    BY <1>1, <1>3
<1>9. Len(SetToSeq(T)) = n
  BY <1>1, <1>8
<1> QED
  BY <1>7, <1>8, <1>9

\* The sequences f gives to the members of a finite set, one after the other.
AllOf(f, P) == FlattenSeq([k \in DOMAIN SetToSeq(P) |-> f[SetToSeq(P)[k]]])
\* It is a sequence of the packets given, empty only if nothing was.
LEMMA AllOfThem ==
    ASSUME NEW T, NEW P, IsFiniteSet(P), NEW f \in [P -> Seq(T)]
    PROVE  AllOf(f, P) \in Seq(T) /\ ((\E p \in P : f[p] # <<>>) => AllOf(f, P) # <<>>)
<1> DEFINE s == SetToSeq(P)
           parts == [k \in DOMAIN s |-> f[s[k]]]
<1>1. /\ s \in Seq(P) /\ Len(s) \in Nat /\ DOMAIN s = 1..Len(s)
      /\ \A p \in P : \E k \in DOMAIN s : s[k] = p
  BY Enumerated
<1> HIDE DEF s
<1>2. parts \in Seq(Seq(T)) /\ DOMAIN parts = DOMAIN s
  BY <1>1
<1>3. \A p \in P : f[p] # <<>> => \E k \in DOMAIN parts : parts[k] # <<>>
  BY <1>1
<1> HIDE DEF parts
<1>4. FlattenSeq(parts) \in Seq(T) /\ ((\E p \in P : f[p] # <<>>) => FlattenSeq(parts) # <<>>)
  BY <1>2, <1>3, Flattened
<1> QED
  BY <1>4 DEF parts, s, AllOf

-----------------------------------------------------------------------------
(* What the server wrote to a descriptor.                                  *)

Copied(p) == [type |-> p.type, src |-> p.src, dst |-> p.dst, body |-> p.body]

\* It is made of copies of the packets to that descriptor, and of at least one
\* of an answer.
LEMMA WrittenAre ==
    ASSUME IsFiniteSet(out'.sent), NEW fd, NEW r, chatRoomList[r] \in Seq(Fds),
           NEW T, \A p \in out'.sent : p.fd = fd => Copied(p) \in T
    PROVE  /\ Written(fd, r) \in Seq(T)
           /\ \A p \in out'.sent : p.fd = fd /\ p.type \notin OverRoom => Written(fd, r) # <<>>
<1> DEFINE mine == {p \in out'.sent : p.fd = fd}
           held == {j \in DOMAIN chatRoomList[r] : chatRoomList[r][j] = fd}
           cells == Cardinality(held)
           first == {p \in mine : p.type \in OverRoom \cup {"PING_REQ"}}
           copy(p) == [type |-> p.type, src |-> p.src, dst |-> p.dst, body |-> p.body]
           n(p) == IF p.type \in OverRoom THEN cells ELSE 1
           copies(p) == [k \in 1..n(p) |-> copy(p)]
           f == [p \in first |-> copies(p)]
           g == [p \in mine \ first |-> copies(p)]
           long(P) == FlattenSeq([k \in DOMAIN SetToSeq(P) |-> copies(SetToSeq(P)[k])])
<1>1. cells \in Nat
  <2>1. held \subseteq 1..Len(chatRoomList[r]) /\ Len(chatRoomList[r]) \in Nat
    OBVIOUS
  <2>2. IsFiniteSet(1..Len(chatRoomList[r]))
    BY <2>1, FS_Interval
  <2>3. IsFiniteSet(held)
    BY <2>1, <2>2, FS_Subset
  <2> HIDE DEF held
  <2> QED
    BY <2>3, FS_CardinalityType
<1>2. /\ IsFiniteSet(first) /\ IsFiniteSet(mine \ first)
      /\ first \subseteq mine /\ mine \subseteq out'.sent
  <2>1. first \subseteq out'.sent /\ mine \ first \subseteq out'.sent
    OBVIOUS
  <2>2. first \subseteq mine /\ mine \subseteq out'.sent
    OBVIOUS
  <2> HIDE DEF first, mine
  <2> QED
    BY <2>1, <2>2, FS_Subset
<1>3. \A p \in mine : copy(p) \in T
  BY DEF Copied
<1>4. Written(fd, r) = long(first) \o long(mine \ first)
  BY DEF Written
<1> HIDE DEF cells
<1>5. \A p \in mine : n(p) \in Nat /\ (p.type \notin OverRoom => n(p) = 1)
  BY <1>1
<1> HIDE DEF n, copy
<1>6. ASSUME NEW p \in mine
      PROVE  copies(p) \in Seq(T) /\ (p.type \notin OverRoom => copies(p) # <<>>)
  <2>1. copies(p) \in Seq(T) /\ Len(copies(p)) = n(p)
    BY <1>3, <1>5
  <2> QED
    BY <1>5, <2>1
<1> HIDE DEF copies
<1>7. /\ f \in [first -> Seq(T)] /\ \A p \in first : f[p] = copies(p)
      /\ g \in [mine \ first -> Seq(T)] /\ \A p \in mine \ first : g[p] = copies(p)
  BY <1>2, <1>6
<1>8. long(first) = AllOf(f, first)
  <2>1. \A k \in DOMAIN SetToSeq(first) : SetToSeq(first)[k] \in first
    BY <1>2, Enumerated
  <2> HIDE DEF first
  <2> QED
    BY <1>7, <2>1 DEF AllOf
<1>9. long(mine \ first) = AllOf(g, mine \ first)
  <2>1. \A k \in DOMAIN SetToSeq(mine \ first) : SetToSeq(mine \ first)[k] \in mine \ first
    BY <1>2, Enumerated
  <2> HIDE DEF first, mine
  <2> QED
    BY <1>7, <2>1 DEF AllOf
<1> HIDE DEF f, g, first, mine, long
<1>10. /\ AllOf(f, first) \in Seq(T) /\ ((\E p \in first : f[p] # <<>>) => AllOf(f, first) # <<>>)
       /\ AllOf(g, mine \ first) \in Seq(T)
       /\ ((\E p \in mine \ first : g[p] # <<>>) => AllOf(g, mine \ first) # <<>>)
  BY <1>2, <1>7, AllOfThem
<1>11. Written(fd, r) \in Seq(T)
  BY <1>4, <1>8, <1>9, <1>10
<1>12. ASSUME NEW p \in out'.sent, p.fd = fd, p.type \notin OverRoom
       PROVE  Written(fd, r) # <<>>
  <2>1. p \in first \/ p \in mine \ first
    BY <1>12 DEF mine
  <2>2. p \in mine /\ copies(p) # <<>>
    BY <1>6, <1>12 DEF mine
  <2>3. AllOf(f, first) # <<>> \/ AllOf(g, mine \ first) # <<>>
    BY <1>7, <1>10, <2>1, <2>2
  <2> QED
    BY <1>4, <1>8, <1>9, <1>10, <2>3
<1> QED
  BY <1>11, <1>12

-----------------------------------------------------------------------------
(* Server and S are two instances of the one module ChatServer.            *)

\* The assumptions the lemmas of S are stated under.
LEMMA ServerAssumed == S!ChatServerAssumption /\ S!HeaderAssumption
BY ServerAssumption DEF Server!ChatServerAssumption, S!ChatServerAssumption,
   Server!HeaderAssumption, S!HeaderAssumption, Server!AnyName, S!AnyName,
   Server!ClientName, S!ClientName, Server!Placeholder, S!Placeholder

\* The actions of both are the same.
LEMMA SameActions ==
    /\ Server!Init => S!Init
    /\ \A fd : Server!Accept(fd) => S!Accept(fd)
    /\ \A i : Server!ReadNothing(i) => S!ReadNothing(i)
    /\ Server!Tick => S!Tick
    /\ \A lost : Server!Idle(lost) => S!Idle(lost)
    /\ \A lost : Server!Interrupt(lost) => S!Interrupt(lost)
<1> USE DEF Server!Running, S!Running, Server!rooms, S!rooms, Server!Silent, S!Silent,
        Server!Crash, S!Crash, Server!Server_Search_Client, S!Server_Search_Client,
        Server!Packet, S!Packet, Server!Accepts, S!Accepts, Server!Outcome, S!Outcome,
        Server!PushAll, S!PushAll, Server!Wait, S!Wait
<1>1. Server!Init => S!Init
  BY DEF Server!Init, S!Init
<1>2. \A fd : Server!Accept(fd) => S!Accept(fd)
  BY DEF Server!Accept, S!Accept
<1>3. /\ Server!Tick => S!Tick
      /\ \A i : Server!ReadNothing(i) => S!ReadNothing(i)
  BY DEF Server!Tick, S!Tick, Server!Older, S!Older, Server!ReadNothing, S!ReadNothing,
     Server!Reads, S!Reads, Server!OnlyRefreshed, S!OnlyRefreshed, Server!Refreshed,
     S!Refreshed
<1>4. \A lost : Server!Interrupt(lost) => S!Interrupt(lost)
  BY DEF Server!Interrupt, S!Interrupt, Server!Server_Exit_Request, S!Server_Exit_Request
<1>5. ASSUME NEW q, NEW pings, NEW pinged, NEW lost,
             Server!CheckPacketTimeOver(q, pings, pinged, lost)
      PROVE  S!CheckPacketTimeOver(q, pings, pinged, lost)
  BY <1>5 DEF Server!RepeatedPing, S!RepeatedPing, Server!Server_Exit_Request,
     S!Server_Exit_Request, Server!MayRepeat, S!MayRepeat, Server!Restarted, S!Restarted,
     Server!CheckPacketTimeOver, S!CheckPacketTimeOver
<1>6. ASSUME NEW lost
      PROVE  Server!Pinged(lost) = S!Pinged(lost) /\ Server!Tried(lost) = S!Tried(lost)
  BY DEF Server!Pinged, S!Pinged, Server!Tried, S!Tried, Server!Due, S!Due
<1>7. \A i : Server!PingOf(i) = S!PingOf(i)
  BY DEF Server!PingOf, S!PingOf, Server!Server_Ping_Request, S!Server_Ping_Request
<1>8. \A T : Server!Increasing(T) = S!Increasing(T)
  BY DEF Server!Increasing, S!Increasing, Server!Cardinality, S!Cardinality
<1>9. ASSUME NEW lost, Server!Idle(lost) PROVE S!Idle(lost)
  BY <1>5, <1>6, <1>7, <1>8, <1>9 DEF Server!Idle, S!Idle
<1> QED
  BY <1>1, <1>2, <1>3, <1>4, <1>9

\* So are the handlers.
Handled(i, p, lost) ==
    \/ p.type = "CONN_REQ" /\ S!ConnReq(i, p.src, p.src \in Registered, lost)
    \/ p.type \in S!ServiceReq /\ S!ServiceRequest(i, p.type, p.src, lost)
    \/ p.type = "ALL_USER_REQ" /\ S!AllUserReq(i)
    \/ p.type = "EXIT_REQ" /\ S!ExitReq(i, lost)
    \/ p.type = "EXIT_ACK" /\ S!ExitAck(i)
    \/ p.type = "ALRAM_ACK" /\ S!AlramAck(i)
    \/ p.type = "PING_ACK" /\ S!PingAck(i)
    \/ /\ p.type = "CREATE_CHATROOM_REQ"
       /\ \E r \in 0..Rooms : S!CreateChatroomReq(i, r, p.src, lost)
    \/ p.type = "EXIT_CHATROOM_REQ" /\ S!ExitChatroomReq(i, p.src, lost)
    \/ /\ p.type = "INVITE_REQ"
       /\ S!InviteReq(i, p.src, p.dst, <<p.dst, p.src>> \in Rejected, Forward[p.dst], lost)
    \/ p.type = "INVITE_ACK" /\ S!InviteAck(i, p.src, p.dst, p.body, lost)
    \/ p.type = "STR_REQ" /\ S!StrReq(i, p.src, lost)
    \/ p.type = "STR_ACK" /\ S!StrAck(i, p.src, p.dst, lost)
\* The server's handlers in the composition are those its proofs speak of.
LEMMA SameHandlers ==
    ASSUME NEW i, NEW p, NEW lost, Handles(i, p, lost)
    PROVE  Handled(i, p, lost)
<1> USE DEF Server!Reads, S!Reads, Server!Running, S!Running, Server!rooms, S!rooms,
        Server!Silent, S!Silent, Server!Crash, S!Crash, Server!Server_Search_Client,
        S!Server_Search_Client, Server!Packet, S!Packet, Server!ToNamed, S!ToNamed,
        Server!Accepts, S!Accepts, Server!Outcome, S!Outcome, Server!Refreshed,
        S!Refreshed, Server!OnlyRefreshed, S!OnlyRefreshed, Server!PushAll, S!PushAll,
        Server!Wait, S!Wait, Server!Copies, S!Copies, Server!PopOnAck, S!PopOnAck,
        Server!Others, S!Others, Server!Reached, S!Reached, Server!Alarms, S!Alarms,
        Server!AlarmWaits, S!AlarmWaits, Server!Server_Alram_Request,
        S!Server_Alram_Request, Server!CanJoin, S!CanJoin, Server!JoinRoom, S!JoinRoom,
        Server!JoinFault, S!JoinFault, Server!LeaveRoom, S!LeaveRoom,
        Server!WithoutMember, S!WithoutMember, Server!WithoutClient, S!WithoutClient,
        Server!Server_Del_Client_List, S!Server_Del_Client_List, Server!Cardinality,
        S!Cardinality
<1>1. \A name, registered :
         Server!ConnReq(i, name, registered, lost) => S!ConnReq(i, name, registered, lost)
  BY DEF Server!ConnReq, S!ConnReq, Server!Admitted, S!Admitted,
     Server!Server_Ack_To_Client, S!Server_Ack_To_Client
<1>2. \A req, name :
         Server!ServiceRequest(i, req, name, lost) => S!ServiceRequest(i, req, name, lost)
  BY DEF Server!ServiceRequest, S!ServiceRequest, Server!Server_Service_Ack,
     S!Server_Service_Ack, Server!ServiceAck, S!ServiceAck
<1>3. /\ Server!AllUserReq(i) => S!AllUserReq(i)
      /\ Server!ExitAck(i) => S!ExitAck(i)
      /\ Server!AlramAck(i) => S!AlramAck(i)
      /\ Server!PingAck(i) => S!PingAck(i)
  BY DEF Server!AllUserReq, S!AllUserReq, Server!ExitAck, S!ExitAck, Server!AlramAck,
     S!AlramAck, Server!PingAck, S!PingAck
<1>4. Server!ExitReq(i, lost) => S!ExitReq(i, lost)
  BY DEF Server!ExitReq, S!ExitReq, Server!Server_Exit_Ack, S!Server_Exit_Ack
<1>5. \A r, name :
         Server!CreateChatroomReq(i, r, name, lost) => S!CreateChatroomReq(i, r, name, lost)
  BY DEF Server!CreateChatroomReq, S!CreateChatroomReq, Server!FirstVoid, S!FirstVoid,
     Server!Empty, S!Empty, Server!Server_Create_Chat_Room_Ack,
     S!Server_Create_Chat_Room_Ack
<1>6. \A name : Server!ExitChatroomReq(i, name, lost) => S!ExitChatroomReq(i, name, lost)
  BY DEF Server!ExitChatroomReq, S!ExitChatroomReq, Server!Server_Exit_Chat_Romm_Ack,
     S!Server_Exit_Chat_Romm_Ack
<1>7. ASSUME NEW src, NEW dst, NEW rejected, NEW forward,
             Server!InviteReq(i, src, dst, rejected, forward, lost)
      PROVE  S!InviteReq(i, src, dst, rejected, forward, lost)
  BY <1>7 DEF Server!InviteReq, S!InviteReq, Server!Busy, S!Busy,
     Server!Server_Invite_Client_Ack, S!Server_Invite_Client_Ack,
     Server!Server_Invite_Client_Request, S!Server_Invite_Client_Request
<1>8. ASSUME NEW src, NEW dst, NEW answer, Server!InviteAck(i, src, dst, answer, lost)
      PROVE  S!InviteAck(i, src, dst, answer, lost)
  BY <1>8 DEF Server!InviteAck, S!InviteAck, Server!Server_Invite_Client_Ack,
     S!Server_Invite_Client_Ack
<1>9. \A src : Server!StrReq(i, src, lost) => S!StrReq(i, src, lost)
  BY DEF Server!StrReq, S!StrReq, Server!Server_Chat_Request, S!Server_Chat_Request
<1>10. \A src, dst : Server!StrAck(i, src, dst, lost) => S!StrAck(i, src, dst, lost)
  BY DEF Server!StrAck, S!StrAck, Server!Server_Chat_Ack, S!Server_Chat_Ack
<1>11. Server!ServiceReq = S!ServiceReq
  BY DEF Server!ServiceReq, S!ServiceReq
<1> QED
  BY <1>1, <1>2, <1>3, <1>4, <1>5, <1>6, <1>7, <1>8, <1>9, <1>10, <1>11 DEF Handles, Handled
-----------------------------------------------------------------------------
(* The inductive invariant.                                                *)

Word == Names \cup {NoName}
Process == [pc : {"off", "trying", "running", "ended"}, tries : 0..(MaxTries - 1),
            myName : Word, tryId : Word, isConnected : BOOLEAN, isChat : BOOLEAN,
            waits : Seq(WaitTypes), asked : BOOLEAN]
\* An invitation names a user: its handler looks up who forwards for that name.
\* An answer to one is yes or no.
Upward == {p \in [type : UpType, src : Word, dst : Word, body : S!Body] :
             /\ p.type = "INVITE_REQ" => p.dst \in Names
             /\ p.type = "INVITE_ACK" => p.body \in {"yes", "no"}}
\* Placeholders reach a client only in packets whose names it ignores.
Downward == {p \in [type : DownType, src : S!AnyName, dst : S!AnyName, body : S!Body] :
               p.type \in S!Naming => p.src \in Word /\ p.dst \in Word}

StateOK(s) == s \in Process /\ Len(s.waits) <= ClientPool
ClientsTyped == client \in [Clients -> Process] /\ \A c \in Clients : StateOK(client[c])
PipesTyped == up \in [Clients -> Seq(Upward)] /\ down \in [Clients -> Seq(Downward)]
LinksOpen == link \in [Clients -> openFds \cup {0}]
\* No two processes share a connection, only one that runs or ran has one, and
\* nothing is kept for, or known by, one that does not run.
LinksDiffer == \A c, d \in Clients : c # d /\ link[c] # 0 => link[c] # link[d]
LinksLive ==
    \A c \in Clients :
       /\ link[c] # 0 => status = "running" /\ client[c].pc \in {"running", "ended"}
       /\ client[c].pc # "running" => down[c] = <<>> /\ ~client[c].isConnected
Connections == LinksOpen /\ LinksDiffer /\ LinksLive

Typed == S!IInv /\ ClientsTyped /\ PipesTyped /\ Connections

-----------------------------------------------------------------------------
(* Steps of a client.                                                      *)

SendOK(send) == send.packets \in Seq(Upward) /\ send.waits \in Seq(WaitTypes)

\* What a queue of waits is given never makes it longer than the pool.
LEMMA PushedFits ==
    ASSUME NEW queue \in Seq(WaitTypes), Len(queue) <= ClientPool, NEW waits \in Seq(WaitTypes)
    PROVE  Pushed(queue, waits) \in Seq(WaitTypes) /\ Len(Pushed(queue, waits)) <= ClientPool
<1> DEFINE n == IF Len(queue) + Len(waits) < ClientPool THEN Len(queue) + Len(waits)
                                                        ELSE ClientPool
           all == queue \o waits
<1>1. Len(queue) \in Nat /\ Len(waits) \in Nat /\ ClientPool \in Nat
  BY ChatClientAssumption
<1>2. all \in Seq(WaitTypes) /\ Len(all) = Len(queue) + Len(waits)
  OBVIOUS
<1>3. n \in 0..Len(all) /\ n <= ClientPool
  BY <1>1, <1>2
<1> HIDE DEF all, n
<1>4. SubSeq(all, 1, n) \in Seq(WaitTypes) /\ Len(SubSeq(all, 1, n)) = n
  BY <1>2, <1>3
<1> QED
  BY <1>3, <1>4 DEF Pushed, all, n

\* What a sender writes, with and without a wait.
LEMMA SendersOK ==
    ASSUME NEW type \in UpType, NEW self \in Word, NEW dst \in Word,
           NEW body \in {"yes", "no"}, type = "INVITE_REQ" => dst \in Names
    PROVE  /\ type # "INVITE_ACK" =>
                 /\ \A ack \in WaitTypes : SendOK(Request(type, self, dst, ack))
                 /\ SendOK(Send(self, Packet(type, self, dst), <<>>))
           /\ type = "INVITE_ACK" =>
                 SendOK(Send(self, [Packet(type, self, dst) EXCEPT !.body = body], <<>>))
<1>1. "" \in S!Body /\ body \in S!Body
  BY DEF S!Body
<1>2. ASSUME NEW p \in Upward, NEW waits \in Seq(WaitTypes)
      PROVE  SendOK(Send(self, p, waits))
  BY DEF SendOK, Send
<1>3. type # "INVITE_ACK" => Packet(type, self, dst) \in Upward
  BY <1>1 DEF Packet, Upward
<1>4. type = "INVITE_ACK" => [Packet(type, self, dst) EXCEPT !.body = body] \in Upward
  BY <1>1 DEF Packet, Upward
<1>5. <<>> \in Seq(WaitTypes) /\ \A ack \in WaitTypes : <<ack>> \in Seq(WaitTypes)
  OBVIOUS
<1> QED
  BY <1>2, <1>3, <1>4, <1>5 DEF Request

\* Every request and reply of the client, under the names it may give.
LEMMA RequestsOK ==
    ASSUME NEW self \in Word
    PROVE  /\ SendOK(Client_Connect_To_Server(self)) /\ SendOK(Client_Sign_Up(self))
           /\ SendOK(Client_Chat_Request(self)) /\ SendOK(Client_Exit_Request(self))
           /\ SendOK(Client_Create_ChatRoom(self))
           /\ \A another \in Names : SendOK(Client_Invite_Client_Request(self, another))
           /\ SendOK(Client_Exit_Chat_Room_Request(self))
           /\ SendOK(Client_Add_Lettering(self)) /\ SendOK(Client_Del_Lettering(self))
           /\ SendOK(Client_Add_Reject_Call(self)) /\ SendOK(Client_Del_Reject_Call(self))
           /\ SendOK(Client_Add_Call_Forwarding(self))
           /\ SendOK(Client_Del_Call_Forwarding(self))
           /\ SendOK(Client_All_Ueser_Request(self))
<1>1. NoName \in Word /\ "" \in S!Body /\ Names \subseteq Word
  BY DEF Word, S!Body
<1>2. {"CONN_ACK", "SIGN_UP_ACK", "STR_ACK", "EXIT_ACK", "INVITE_ACK", "EXIT_CHATROOM_ACK",
       "LETTERING_ADD_ACK", "LETTERING_DEL_ACK", "REJECT_CALL_ADD_ACK", "REJECT_CALL_DEL_ACK",
       "CALL_FORWARDING_DEL_ACK", "ALL_USER_ACK"} \subseteq WaitTypes
  BY DEF WaitTypes, PlainAck
<1>3. ASSUME NEW type \in UpType \ {"INVITE_REQ", "INVITE_ACK"}, NEW ack \in WaitTypes
      PROVE  SendOK(Request(type, self, NoName, ack)) /\ SendOK(Reply(type, self))
  BY <1>1, SendersOK DEF Reply
<1>4. ASSUME NEW another \in Names PROVE SendOK(Client_Invite_Client_Request(self, another))
  BY <1>1, <1>2, SendersOK DEF Client_Invite_Client_Request, UpType
<1>5. {"CONN_REQ", "SIGN_UP_REQ", "STR_REQ", "EXIT_REQ", "CREATE_CHATROOM_REQ",
       "EXIT_CHATROOM_REQ", "LETTERING_ADD_REQ", "LETTERING_DEL_REQ", "REJECT_CALL_ADD_REQ",
       "REJECT_CALL_DEL_REQ", "CALL_FORWARDING_ADD_REQ", "CALL_FORWARDING_DEL_REQ",
       "ALL_USER_REQ"} \subseteq UpType \ {"INVITE_REQ", "INVITE_ACK"}
  BY DEF UpType, Server!ServiceReq
<1> QED
  BY <1>2, <1>3, <1>4, <1>5 DEF Client_Connect_To_Server, Client_Sign_Up,
     Client_Chat_Request, Client_Exit_Request, Client_Create_ChatRoom,
     Client_Exit_Chat_Room_Request, Client_Add_Lettering, Client_Del_Lettering,
     Client_Add_Reject_Call, Client_Del_Reject_Call, Client_Add_Call_Forwarding,
     Client_Del_Call_Forwarding, Client_All_Ueser_Request

\* And every acknowledgement.
LEMMA RepliesOK ==
    ASSUME NEW self \in Word, NEW another \in Word, NEW answer \in {"yes", "no"}
    PROVE  /\ SendOK(Client_Ping_Ack(self)) /\ SendOK(Client_Exit_Ack(self))
           /\ SendOK(Client_Alram_Ack(self)) /\ SendOK(Client_Chat_Ack(self, another))
           /\ SendOK(Client_Invite_Client_Ack(self, another, answer))
           /\ SendOK(Nothing)
<1>1. NoName \in Word /\ "" \in S!Body /\ answer \in S!Body
  BY DEF Word, S!Body
<1>2. /\ {"PING_ACK", "EXIT_ACK", "ALRAM_ACK", "STR_ACK"}
            \subseteq UpType \ {"INVITE_REQ", "INVITE_ACK"}
      /\ "INVITE_ACK" \in UpType
  BY DEF UpType
<1>3. ASSUME NEW type \in UpType \ {"INVITE_REQ", "INVITE_ACK"}
      PROVE  SendOK(Reply(type, self)) /\ SendOK(Send(self, Packet(type, self, another), <<>>))
  BY <1>1, SendersOK DEF Reply
<1>5. SendOK(Send(self, [Packet("INVITE_ACK", self, another) EXCEPT !.body = answer], <<>>))
  BY <1>2, SendersOK
<1>4. SendOK(Nothing)
  BY DEF SendOK, Nothing
<1> QED
  BY <1>2, <1>3, <1>4, <1>5 DEF Client_Ping_Ack, Client_Exit_Ack, Client_Alram_Ack,
     Client_Chat_Ack, Client_Invite_Client_Ack

\* Two sends in one pass.
LEMMA ThenOK ==
    ASSUME NEW a, NEW b, SendOK(a), SendOK(b)
    PROVE  SendOK(Then(a, b))
BY DEF SendOK, Then

\* A pass of the loop: process c alone changes, into s but for its waits.
LEMMA StepMakes ==
    ASSUME ClientsTyped, PipesTyped, NEW c \in Clients, NEW s, StateOK(s),
           NEW send, SendOK(send), Step(c, s, send)
    PROVE  /\ ClientsTyped' /\ up' \in [Clients -> Seq(Upward)]
           /\ \A d \in Clients \ {c} : client'[d] = client[d] /\ up'[d] = up[d]
           /\ client'[c].pc = s.pc /\ client'[c].isConnected = s.isConnected
           /\ client'[c].myName = s.myName
           /\ link[c] = 0 => up'[c] = up[c]
<1> DEFINE new == [s EXCEPT !.waits = Pushed(s.waits, send.waits)]
<1>1. s \in Process /\ s.waits \in Seq(WaitTypes) /\ send.waits \in Seq(WaitTypes)
      /\ Len(s.waits) <= ClientPool
  BY DEF StateOK, SendOK, Process
<1>2. Pushed(s.waits, send.waits) \in Seq(WaitTypes) /\ Len(Pushed(s.waits, send.waits)) <= ClientPool
  BY <1>1, PushedFits
<1>3. StateOK(new) /\ new.pc = s.pc /\ new.isConnected = s.isConnected /\ new.myName = s.myName
  BY <1>1, <1>2 DEF StateOK, Process
<1>4. client' = [client EXCEPT ![c] = new]
  BY DEF Step
<1> HIDE DEF new
<1>5. up[c] \in Seq(Upward) /\ up[c] \o send.packets \in Seq(Upward)
  BY DEF PipesTyped, SendOK
<1>6. /\ ClientsTyped' /\ client'[c] = new
      /\ \A d \in Clients \ {c} : client'[d] = client[d]
  BY <1>3, <1>4 DEF ClientsTyped, StateOK
<1>7. /\ up' \in [Clients -> Seq(Upward)]
      /\ \A d \in Clients \ {c} : up'[d] = up[d]
      /\ link[c] = 0 => up'[c] = up[c]
  BY <1>5 DEF Step, PipesTyped
<1> QED
  BY <1>3, <1>6, <1>7

\* What a step of process c may do to the two ends of its connection: it runs
\* no more, or it goes on knowing what it knew, or it reads what it is told.
Stops(c) ==
    /\ client'[c].pc \in {"trying", "ended"} /\ ~client'[c].isConnected
    /\ down'[c] = <<>> /\ (client'[c].pc = "trying" => link[c] = 0)
Knows(c, s) == s.isConnected = client[c].isConnected /\ s.myName = client[c].myName
IsYes(p) == p.type = "CONN_ACK" /\ p.body = "YES"
Learns(c, s) ==
    /\ IsYes(Head(down[c])) => s.isConnected /\ s.myName = Head(down[c]).dst
    /\ ~IsYes(Head(down[c])) => Knows(c, s)
GoesOn(c) ==
    /\ client[c].pc = "running" /\ client'[c].pc = "running"
    /\ \/ down'[c] = down[c] /\ Knows(c, client'[c])
       \/ down[c] # <<>> /\ down'[c] = Tail(down[c]) /\ Learns(c, client'[c])
OthersStay(c) ==
    \A d \in Clients \ {c} : client'[d] = client[d] /\ up'[d] = up[d] /\ down'[d] = down[d]
ClientMoves(c) ==
    /\ ClientsTyped' /\ PipesTyped' /\ link' = link
    /\ OthersStay(c) /\ (Stops(c) \/ GoesOn(c))
    /\ link[c] = 0 => up'[c] = up[c]

\* A command that logs nobody in.
LEMMA CommandMoves ==
    ASSUME Typed, NEW c \in Clients, NEW s, StateOK(s), NEW send, SendOK(send),
           Command(c, s, send), client[c].pc = "running", s.pc = "running", Knows(c, s)
    PROVE  ClientMoves(c)
<1>1. Step(c, s, send) /\ link' = link /\ down' = down
  BY DEF Command
<1>2. /\ ClientsTyped' /\ up' \in [Clients -> Seq(Upward)]
      /\ \A d \in Clients \ {c} : client'[d] = client[d] /\ up'[d] = up[d]
      /\ client'[c].pc = s.pc /\ client'[c].isConnected = s.isConnected
      /\ client'[c].myName = s.myName
      /\ link[c] = 0 => up'[c] = up[c]
  BY <1>1, StepMakes DEF Typed
<1>3. PipesTyped'
  BY <1>1, <1>2 DEF Typed, PipesTyped
<1> QED
  BY <1>1, <1>2, <1>3 DEF ClientMoves, GoesOn, OthersStay, Knows

\* A packet that is read.
LEMMA TookMoves ==
    ASSUME Typed, NEW c \in Clients, NEW s, StateOK(s), NEW send, SendOK(send),
           Took(c, s, send), client[c].pc = "running", down[c] # <<>>,
           \/ s.pc = "ended" /\ ~s.isConnected
           \/ s.pc = "running" /\ Learns(c, s)
    PROVE  ClientMoves(c)
<1>1. Step(c, s, send) /\ link' = link
      /\ down' = [down EXCEPT ![c] = IF s.pc = "ended" THEN <<>> ELSE Tail(down[c])]
  BY DEF Took
<1>2. /\ ClientsTyped' /\ up' \in [Clients -> Seq(Upward)]
      /\ \A d \in Clients \ {c} : client'[d] = client[d] /\ up'[d] = up[d]
      /\ client'[c].pc = s.pc /\ client'[c].isConnected = s.isConnected
      /\ client'[c].myName = s.myName
      /\ link[c] = 0 => up'[c] = up[c]
  BY <1>1, StepMakes DEF Typed
<1>3. down \in [Clients -> Seq(Downward)] /\ Tail(down[c]) \in Seq(Downward)
  BY DEF Typed, PipesTyped
<1>4. /\ down' \in [Clients -> Seq(Downward)]
      /\ \A d \in Clients \ {c} : down'[d] = down[d]
      /\ s.pc = "ended" => down'[c] = <<>>
      /\ s.pc = "running" => down'[c] = Tail(down[c])
  BY <1>1, <1>3
<1>5. PipesTyped'
  BY <1>2, <1>4 DEF PipesTyped
<1>6. Stops(c) \/ GoesOn(c)
  BY <1>2, <1>4 DEF Stops, GoesOn, Learns, Knows
<1> QED
  BY <1>1, <1>2, <1>4, <1>5, <1>6 DEF ClientMoves, OthersStay

\* The state of a process, and the one it ends in.
LEMMA ProcessOK ==
    ASSUME Typed, NEW c \in Clients
    PROVE  /\ StateOK(client[c]) /\ client[c] \in Process
           /\ client[c].myName \in Word /\ client[c].tryId \in Word
           /\ client[c].waits \in Seq(WaitTypes)
           /\ \A s : StateOK(Ended(s)) /\ Ended(s).pc = "ended" /\ ~Ended(s).isConnected
           /\ \A name \in Word : StateOK([Fresh(name) EXCEPT !.pc = "trying"])
<1>1. StateOK(client[c]) /\ client[c] \in Process
  BY DEF Typed, ClientsTyped
<1>2. NoName \in Word /\ MaxTries \in Nat \ {0} /\ ClientPool \in Nat
  BY ChatClientAssumption DEF Word
<1>3. 0 \in 0..(MaxTries - 1) /\ <<>> \in Seq(WaitTypes) /\ Len(<<>>) = 0
  BY <1>2
<1>4. ASSUME NEW name \in Word
      PROVE  /\ Fresh(name) \in Process /\ Len(Fresh(name).waits) <= ClientPool
             /\ ~Fresh(name).isConnected
  BY <1>2, <1>3 DEF Fresh, Process
<1>5. ASSUME NEW s \in Process, Len(s.waits) <= ClientPool, ~s.isConnected, NEW pc \in {"trying", "ended"}
      PROVE  LET t == [s EXCEPT !.pc = pc]
             IN  StateOK(t) /\ t.pc = pc /\ ~t.isConnected
  BY <1>5 DEF StateOK, Process
<1>6. \A s : StateOK(Ended(s)) /\ Ended(s).pc = "ended" /\ ~Ended(s).isConnected
  BY <1>2, <1>4, <1>5 DEF Ended
<1>7. \A name \in Word : StateOK([Fresh(name) EXCEPT !.pc = "trying"])
  BY <1>4, <1>5
<1> QED
  BY <1>1, <1>6, <1>7 DEF Process

\* A process that is replaced by one that does not run.
LEMMA Replaced ==
    ASSUME Typed, NEW c \in Clients, NEW s, StateOK(s), s.pc \in {"trying", "ended"},
           ~s.isConnected, s.pc = "trying" => link[c] = 0,
           client' = [client EXCEPT ![c] = s],
           down' = [down EXCEPT ![c] = <<>>], UNCHANGED <<link, up>>
    PROVE  ClientMoves(c)
<1>1. /\ ClientsTyped' /\ client'[c] = s
      /\ \A d \in Clients \ {c} : client'[d] = client[d]
  BY DEF Typed, ClientsTyped, StateOK
<1>2. /\ PipesTyped' /\ down'[c] = <<>>
      /\ \A d \in Clients \ {c} : down'[d] = down[d]
  <2>1. <<>> \in Seq(Downward)
    OBVIOUS
  <2> QED
    BY <2>1 DEF Typed, PipesTyped
<1> QED
  BY <1>1, <1>2 DEF ClientMoves, OthersStay, Stops

\* What is kept of a process that does not run is nothing already.
LEMMA NothingKept ==
    ASSUME Typed, NEW c \in Clients, client[c].pc # "running", down' = down
    PROVE  down' = [down EXCEPT ![c] = <<>>]
<1>1. down[c] = <<>> /\ down \in [Clients -> Seq(Downward)]
  BY DEF Typed, Connections, LinksLive, PipesTyped
<1> QED
  BY <1>1

\* Starting, failing to connect, and the two ways of being stopped.
LEMMA StartMoves ==
    ASSUME Typed, NEW c \in Clients, NEW name \in Leftover[c], Start(c, name)
    PROVE  ClientMoves(c)
<1> DEFINE s == [Fresh(name) EXCEPT !.pc = "trying"]
<1>1. name \in Word
  BY ChatClientAssumption DEF Word
<1>2. StateOK(s)
  BY <1>1, ProcessOK
<1>3. s.pc = "trying" /\ ~s.isConnected
  BY DEF Fresh
<1> HIDE DEF s
<1>4. /\ client[c].pc # "running" /\ link[c] = 0 /\ UNCHANGED <<link, up, down>>
      /\ client' = [client EXCEPT ![c] = s]
  BY DEF Start, s
<1> QED
  BY <1>2, <1>3, <1>4, NothingKept, Replaced

\* A connect that fails is such a move, of a process not yet running.
LEMMA ConnectFailsMoves ==
    ASSUME Typed, NEW c \in Clients, ConnectFails(c)
    PROVE  ClientMoves(c)
<1> DEFINE more == [client[c] EXCEPT !.tries = client[c].tries + 1]
           last == Ended(client[c])
<1>1. client[c].pc = "trying" /\ UNCHANGED <<link, up, down>>
  BY DEF ConnectFails
<1>2. \/ client' = [client EXCEPT ![c] = last]
      \/ client[c].tries + 1 # MaxTries /\ client' = [client EXCEPT ![c] = more]
  BY DEF ConnectFails
<1>3. link[c] = 0 /\ ~client[c].isConnected /\ client[c] \in Process
      /\ Len(client[c].waits) <= ClientPool
  BY <1>1, ProcessOK DEF Typed, Connections, LinksLive, StateOK
<1>4. client[c].tries + 1 # MaxTries =>
         StateOK(more) /\ more.pc = "trying" /\ ~more.isConnected
  BY <1>1, <1>3, ChatClientAssumption DEF StateOK, Process
<1>5. StateOK(last) /\ last.pc = "ended" /\ ~last.isConnected
  BY ProcessOK
<1>6. down' = [down EXCEPT ![c] = <<>>]
  BY <1>1, NothingKept
<1> HIDE DEF more, last
<1> QED
  BY <1>1, <1>2, <1>3, <1>4, <1>5, <1>6, Replaced

\* So is SIGKILL,
LEMMA KilledMoves ==
    ASSUME Typed, NEW c \in Clients, Killed(c)
    PROVE  ClientMoves(c)
<1> DEFINE s == Ended(client[c])
<1>1. StateOK(s) /\ s.pc = "ended" /\ ~s.isConnected
  BY ProcessOK
<1>2. client' = [client EXCEPT ![c] = s] /\ down' = [down EXCEPT ![c] = <<>>]
      /\ UNCHANGED <<link, up>>
  BY DEF Killed
<1> HIDE DEF s
<1> QED
  BY <1>1, <1>2, Replaced

\* and SIGINT, which writes an EXIT_REQ.
LEMMA InterruptedMoves ==
    ASSUME Typed, NEW c \in Clients, Interrupted(c)
    PROVE  ClientMoves(c)
<1> DEFINE s == Ended(client[c])
           send == Client_Exit_Request(client[c].myName)
<1>1. StateOK(s) /\ s.pc = "ended" /\ ~s.isConnected /\ SendOK(send)
  BY ProcessOK, RequestsOK
<1>2. Step(c, s, send) /\ down' = [down EXCEPT ![c] = <<>>] /\ link' = link
  BY DEF Interrupted
<1> HIDE DEF s, send
<1>3. /\ ClientsTyped' /\ up' \in [Clients -> Seq(Upward)]
      /\ \A d \in Clients \ {c} : client'[d] = client[d] /\ up'[d] = up[d]
      /\ client'[c].pc = s.pc /\ client'[c].isConnected = s.isConnected
      /\ link[c] = 0 => up'[c] = up[c]
  BY <1>1, <1>2, StepMakes DEF Typed
<1>4. <<>> \in Seq(Downward)
  OBVIOUS
<1>5. PipesTyped' /\ down'[c] = <<>> /\ \A d \in Clients \ {c} : down'[d] = down[d]
  BY <1>2, <1>3, <1>4 DEF Typed, PipesTyped
<1> QED
  BY <1>1, <1>2, <1>3, <1>5 DEF ClientMoves, OthersStay, Stops

\* A line of the user.
LEMMA CommandsMove ==
    ASSUME Typed, NEW c \in Clients,
           \/ \E name \in Names : SignUp(c, name) \/ Connect(c, name) \/ Invite(c, name)
           \/ Exit(c) \/ Create(c) \/ Leave(c) \/ User(c) \/ Chat(c)
           \/ \E command \in Services : Service(c, command)
    PROVE  ClientMoves(c)
<1> DEFINE me == client[c]
<1>1. me.pc = "running"
  BY DEF SignUp, Connect, Invite, Exit, Create, Leave, User, Chat, Service, AtPrompt, Outside,
     InChat
<1>2. StateOK(me) /\ me \in Process /\ me.myName \in Word /\ Names \subseteq Word
  BY ProcessOK DEF Word
<1>3. ASSUME NEW send, SendOK(send), Command(c, me, send)
      PROVE  ClientMoves(c)
  BY <1>1, <1>2, <1>3, CommandMoves DEF Knows
<1>4. ASSUME NEW send, SendOK(send), RoomCommand(c, send)
      PROVE  ClientMoves(c)
  <2> DEFINE s == [me EXCEPT !.asked = TRUE]
  <2>1. StateOK(s) /\ s.pc = "running" /\ Knows(c, s)
    BY <1>1, <1>2 DEF StateOK, Process, Knows
  <2>2. Command(c, s, send)
    BY <1>4 DEF RoomCommand
  <2> HIDE DEF s
  <2> QED
    BY <1>1, <1>4, <2>1, <2>2, CommandMoves
<1>5. ASSUME NEW name \in Names, Connect(c, name) PROVE ClientMoves(c)
  <2> DEFINE s == [me EXCEPT !.tryId = name]
  <2>1. StateOK(s) /\ s.pc = "running" /\ Knows(c, s)
    BY <1>1, <1>2 DEF StateOK, Process, Knows
  <2>2. Command(c, s, Client_Connect_To_Server(name)) /\ SendOK(Client_Connect_To_Server(name))
    BY <1>2, <1>5, RequestsOK DEF Connect
  <2> HIDE DEF s
  <2> QED
    BY <1>1, <2>1, <2>2, CommandMoves
<1>6. ASSUME NEW name \in Names, SignUp(c, name) PROVE ClientMoves(c)
  <2>1. /\ SendOK(Client_Sign_Up(name)) /\ SendOK(Client_Add_Lettering(name))
        /\ SendOK(Client_Add_Reject_Call(name)) /\ SendOK(Client_Add_Call_Forwarding(name))
    BY <1>2, RequestsOK
  <2>2. SendOK(Then(Then(Client_Sign_Up(name), Client_Add_Lettering(name)),
                    Then(Client_Add_Reject_Call(name), Client_Add_Call_Forwarding(name))))
    BY <2>1, ThenOK
  <2> QED
    BY <1>3, <1>6, <2>2 DEF SignUp
<1>7. ASSUME (\E name \in Names : Invite(c, name)) \/ Exit(c) \/ User(c) \/ Chat(c)
      PROVE  ClientMoves(c)
  BY <1>2, <1>3, <1>7, RequestsOK DEF Invite, Exit, User, Chat
<1>8. CASE Create(c) \/ Leave(c)
  BY <1>2, <1>4, <1>8, RequestsOK DEF Create, Leave
<1>9. ASSUME NEW command \in Services, Service(c, command) PROVE ClientMoves(c)
  BY <1>2, <1>3, <1>9, RequestsOK DEF Service, Services
<1> QED
  BY <1>5, <1>6, <1>7, <1>8, <1>9

\* An acknowledgement leaves no more waits than there were.
LEMMA PoppedOK ==
    ASSUME NEW s, StateOK(s), NEW type
    PROVE  /\ StateOK(Popped(s, type)) /\ Popped(s, type).pc = s.pc
           /\ Popped(s, type).isConnected = s.isConnected
           /\ Popped(s, type).myName = s.myName
<1>1. s \in Process /\ s.waits \in Seq(WaitTypes) /\ Len(s.waits) <= ClientPool
      /\ Len(s.waits) \in Nat /\ ClientPool \in Nat
  BY ChatClientAssumption DEF StateOK, Process
<1> DEFINE left == IF s.waits # <<>> /\ Head(s.waits) = type THEN Tail(s.waits) ELSE s.waits
<1>2. left \in Seq(WaitTypes) /\ Len(left) <= ClientPool
  <2>1. s.waits # <<>> => Tail(s.waits) \in Seq(WaitTypes) /\ Len(Tail(s.waits)) = Len(s.waits) - 1
    BY <1>1
  <2> QED
    BY <1>1, <2>1
<1>3. Popped(s, type) = [s EXCEPT !.waits = left]
  BY DEF Popped
<1> HIDE DEF left
<1> QED
  BY <1>1, <1>2, <1>3 DEF StateOK, Process

\* A packet of the server.
LEMMA ReadsMove ==
    ASSUME Typed, NEW c \in Clients, ClientReads(c)
    PROVE  ClientMoves(c)
<1> DEFINE me == client[c]
           p == Head(down[c])
<1>1. me.pc = "running" /\ down[c] # <<>>
  BY DEF ClientReads, ReadAck, ReadExitAck, ReadConnAck, ReadRoomAck, ReadPing, ReadExit,
     ReadChat, ReadAlarm, ReadInvite, Reads
<1>2. /\ StateOK(me) /\ me \in Process /\ me.myName \in Word /\ SendOK(Nothing)
      /\ StateOK(Ended(me)) /\ Ended(me).pc = "ended" /\ ~Ended(me).isConnected
  BY ProcessOK, RepliesOK
<1>3. p \in Downward
  BY <1>1 DEF Typed, PipesTyped
<1>4. p.type \in S!Naming => p.src \in Word /\ p.dst \in Word
  BY <1>3 DEF Downward
<1> HIDE DEF p
<1>5. ASSUME NEW s, StateOK(s), NEW send, SendOK(send), Took(c, s, send),
             p.type # "CONN_ACK", s.pc = "running", Knows(c, s)
      PROVE  ClientMoves(c)
  <2>1. Learns(c, s)
    BY <1>5 DEF Learns, IsYes, p
  <2> QED
    BY <1>1, <1>5, <2>1, TookMoves
<1>6. ASSUME NEW send, SendOK(send), Took(c, me, send), p.type # "CONN_ACK"
      PROVE  ClientMoves(c)
  BY <1>1, <1>2, <1>5, <1>6 DEF Knows
<1>7. ASSUME NEW send, SendOK(send), Took(c, Ended(me), send)
      PROVE  ClientMoves(c)
  BY <1>1, <1>2, <1>7, TookMoves
<1>8. ASSUME NEW type \in PlainAck, Reads(c, type), Took(c, Popped(me, type), Nothing)
      PROVE  ClientMoves(c)
  <2>1. p.type # "CONN_ACK"
    BY <1>8 DEF Reads, PlainAck, p
  <2>2. StateOK(Popped(me, type)) /\ Popped(me, type).pc = "running" /\ Knows(c, Popped(me, type))
    BY <1>1, <1>2, PoppedOK DEF Knows
  <2> QED
    BY <1>2, <1>5, <1>8, <2>1, <2>2
<1>9. CASE ReadConnAck(c)
  <2> DEFINE t == Popped(me, "CONN_ACK")
             s == Welcome(t, p)
  <2>1. StateOK(t) /\ t.pc = "running" /\ Knows(c, t)
    BY <1>1, <1>2, PoppedOK DEF Knows
  <2>2. p.type = "CONN_ACK" /\ Took(c, s, Nothing)
    BY <1>9 DEF ReadConnAck, Reads, p
  <2>3. p.dst \in Word
    BY <1>4, <2>2 DEF S!Naming
  <2> HIDE DEF t
  <2>4. CASE p.body = "YES"
    <3>1. s = [t EXCEPT !.isConnected = TRUE, !.myName = p.dst]
      BY <2>4 DEF Welcome
    <3>2. StateOK(s) /\ s.pc = "running" /\ s.isConnected /\ s.myName = p.dst
      BY <2>1, <2>3, <3>1 DEF StateOK, Process
    <3> HIDE DEF s
    <3>3. Learns(c, s)
      BY <2>2, <2>4, <3>2 DEF Learns, IsYes, p
    <3> QED
      BY <1>1, <1>2, <2>2, <3>2, <3>3, TookMoves
  <2>5. CASE p.body # "YES"
    <3>1. s = t
      BY <2>5 DEF Welcome
    <3>2. Learns(c, t)
      BY <2>1, <2>5 DEF Learns, IsYes, p
    <3> QED
      BY <1>1, <1>2, <2>1, <2>2, <3>1, <3>2, TookMoves
  <2> QED
    BY <2>4, <2>5
<1>10. CASE ReadRoomAck(c)
  <2>1. ASSUME NEW type \in {"CREATE_CHATROOM_ACK", "EXIT_CHATROOM_ACK"}, NEW in \in BOOLEAN,
               Reads(c, type), Took(c, Answered(me, type, in), Nothing)
        PROVE  ClientMoves(c)
    <3> DEFINE t == Popped(me, type)
               u == [t EXCEPT !.isChat = in]
               v == IF me.waits = <<>> THEN me ELSE u
               s == [v EXCEPT !.asked = FALSE]
    <3>1. StateOK(t) /\ t.pc = "running" /\ Knows(c, t)
      BY <1>1, <1>2, PoppedOK DEF Knows
    <3> HIDE DEF t
    <3>2. StateOK(u) /\ u.pc = "running" /\ Knows(c, u)
      BY <3>1 DEF StateOK, Process, Knows
    <3> HIDE DEF u
    <3>3. StateOK(v) /\ v.pc = "running" /\ Knows(c, v)
      BY <1>1, <1>2, <3>2 DEF Knows
    <3> HIDE DEF v
    <3>4. StateOK(s) /\ s.pc = "running" /\ Knows(c, s)
      BY <3>3 DEF StateOK, Process, Knows
    <3>5. Answered(me, type, in) = s
      BY DEF Answered, s, v, u, t
    <3> HIDE DEF s
    <3>6. p.type # "CONN_ACK"
      BY <2>1 DEF Reads, p
    <3> QED
      BY <1>2, <1>5, <2>1, <3>4, <3>5, <3>6
  <2> QED
    BY <1>10, <2>1 DEF ReadRoomAck
<1>11. CASE ReadExitAck(c) \/ ReadExit(c)
  <2>1. SendOK(Client_Exit_Ack(me.myName))
    BY <1>2, RepliesOK
  <2> QED
    BY <1>2, <1>7, <1>11, <2>1 DEF ReadExitAck, ReadExit
<1>12. CASE ReadPing(c) \/ ReadAlarm(c)
  <2>1. SendOK(Client_Ping_Ack(me.myName)) /\ SendOK(Client_Alram_Ack(me.myName))
    BY <1>2, RepliesOK
  <2>2. p.type # "CONN_ACK"
    BY <1>12 DEF ReadPing, ReadAlarm, Reads, p
  <2> QED
    BY <1>6, <1>12, <2>1, <2>2 DEF ReadPing, ReadAlarm
<1>13. CASE ReadChat(c)
  <2>1. p.type = "STR_REQ" /\ Took(c, me, ChatAck(me, p))
    BY <1>13 DEF ReadChat, Reads, p
  <2>2. p.src \in Word
    BY <1>4, <2>1 DEF S!Naming
  <2>3. SendOK(ChatAck(me, p))
    BY <1>2, <2>2, RepliesOK DEF ChatAck
  <2> QED
    BY <1>6, <2>1, <2>3
<1>14. ASSUME NEW answer \in {"yes", "no"}, ReadInvite(c, answer) PROVE ClientMoves(c)
  <2> DEFINE s == Invited(me, answer)
             send == Client_Invite_Client_Ack(p.src, p.dst, answer)
  <2>1. p.type = "INVITE_REQ" /\ Took(c, s, send)
    BY <1>14 DEF ReadInvite, Reads, p
  <2>2. p.src \in Word /\ p.dst \in Word
    BY <1>4, <2>1 DEF S!Naming
  <2>3. SendOK(send)
    BY <2>2, RepliesOK
  <2>4. StateOK(s) /\ s.pc = "running" /\ Knows(c, s)
    BY <1>1, <1>2 DEF Invited, StateOK, Process, Knows
  <2> HIDE DEF s, send
  <2> QED
    BY <1>5, <2>1, <2>3, <2>4
<1>15. CASE ReadAck(c)
  BY <1>8, <1>15 DEF ReadAck
<1> QED
  BY <1>9, <1>10, <1>11, <1>12, <1>13, <1>14, <1>15 DEF ClientReads

\* A wait that has timed out, and the retry of a login.
LEMMA TimeOverMoves ==
    ASSUME Typed, NEW c \in Clients, TimeOver(c)
    PROVE  ClientMoves(c)
<1> DEFINE me == client[c]
           s == [me EXCEPT !.waits = Tail(me.waits)]
<1>1. me.pc = "running" /\ me.waits # <<>> /\ Command(c, s, Retry(me))
  BY DEF TimeOver, AtPrompt, Stale, Expired
<1>2. /\ StateOK(me) /\ me \in Process /\ me.tryId \in Word /\ SendOK(Nothing)
      /\ me.waits \in Seq(WaitTypes) /\ Len(me.waits) <= ClientPool /\ Len(me.waits) \in Nat
  BY ProcessOK, RepliesOK DEF StateOK
<1>3. Tail(me.waits) \in Seq(WaitTypes) /\ Len(Tail(me.waits)) = Len(me.waits) - 1
  BY <1>1, <1>2
<1>4. ClientPool \in Nat
  BY ChatClientAssumption
<1>5. Len(Tail(me.waits)) <= ClientPool
  BY <1>2, <1>3, <1>4
<1>6. StateOK(s) /\ s.pc = "running" /\ Knows(c, s)
  BY <1>1, <1>2, <1>3, <1>5 DEF StateOK, Process, Knows
<1>7. SendOK(Retry(me))
  BY <1>2, RequestsOK DEF Retry
<1> HIDE DEF s
<1> QED
  BY <1>1, <1>6, <1>7, CommandMoves

\* Whatever a client does, it moves within its own two pipes.
LEMMA ClientsMove ==
    ASSUME Typed, NEW c \in Clients, UserActs(c) \/ ClientActs(c)
    PROVE  ClientMoves(c) /\ UNCHANGED serverVars
<1>1. UNCHANGED serverVars
  BY DEF UserActs, ClientActs, Quietly
<1>2. LoginNames \subseteq Names
  BY ChatSystemAssumption
<1>3. CASE ClientActs(c)
  BY <1>1, <1>3, ReadsMove, TimeOverMoves, ConnectFailsMoves DEF ClientActs
<1>4. ASSUME NEW name \in LoginNames, SignUp(c, name) \/ Connect(c, name) \/ Invite(c, name)
      PROVE  ClientMoves(c)
  BY <1>2, <1>4, CommandsMove
<1>5. ASSUME NEW name \in Leftover[c], Start(c, name) PROVE ClientMoves(c)
  BY <1>5, StartMoves
<1>6. CASE Interrupted(c) \/ Killed(c)
  BY <1>1, <1>6, InterruptedMoves, KilledMoves
<1>7. ASSUME \/ Exit(c) \/ Create(c) \/ Leave(c) \/ User(c) \/ Chat(c)
             \/ \E command \in Services : Service(c, command)
      PROVE  ClientMoves(c)
  BY <1>7, CommandsMove
<1>8. CASE UserActs(c)
  BY <1>1, <1>4, <1>5, <1>6, <1>7, <1>8 DEF UserActs, Does
<1> QED
  BY <1>1, <1>3, <1>8

-----------------------------------------------------------------------------
(* Steps of the server.                                                    *)

\* No listed client is given another name, and no login is welcomed.
NoWelcome == \A q \in out'.sent : ~(q.type = "CONN_ACK" /\ q.body = "YES")
NobodyLogsIn == S!NamesStay /\ NoWelcome
\* Client i of the list is given a name, and is told so unless it is lost.
LogsIn(i, name, lost) ==
    /\ name \in Names
    /\ DOMAIN clientList' = DOMAIN clientList
    /\ \A k \in DOMAIN clientList :
          /\ clientList'[k].fd = clientList[k].fd
          /\ clientList'[k].name = IF k = i THEN name ELSE clientList[k].name
    /\ \A q \in out'.sent : q = S!Packet(clientList[i].fd, "CONN_ACK", NoName, name, "YES")
    /\ clientList[i].fd \in openFds \ lost => out'.sent # {}

\* The names of a user, and of nobody, are names the server knows.
LEMMA WordsAreNames == Word \subseteq S!AnyName /\ NoName \in Word /\ Names \subseteq Word
BY DEF Word, S!AnyName, S!ClientName

\* A packet whose names matter to nobody may be written where some do.
LEMMA FewerLetters ==
    ASSUME S!Sends({})
    PROVE  S!Sends(Word) /\ NoWelcome
<1>1. S!Letters({}) \subseteq S!Letters(Word)
  BY DEF S!Letters
<1>2. \A q \in S!Letters({}) : q.type # "CONN_ACK"
  BY DEF S!Letters, S!Naming
<1> QED
  BY <1>1, <1>2 DEF S!Sends, NoWelcome

\* What the handler of any packet leaves and writes.
LEMMA HandledStep ==
    ASSUME S!IInv, NEW i, NEW p \in Upward, NEW lost, Handled(i, p, lost)
    PROVE  /\ S!IInv' /\ S!Sends(Word)
           /\ \/ NobodyLogsIn
              \/ p.type = "CONN_REQ" /\ LogsIn(i, p.src, lost)
<1>1. p.src \in Word /\ p.dst \in Word /\ p.body \in S!Body /\ (p.type = "INVITE_REQ" => p.dst \in Names)
  BY DEF Upward
<1>2. p.src \in S!AnyName /\ p.dst \in S!AnyName /\ NoName \in Word
  BY <1>1, WordsAreNames
<1>3. CASE p.type = "CONN_REQ" /\ S!ConnReq(i, p.src, p.src \in Registered, lost)
  <2>1. S!IInv'
    BY <1>2, <1>3, ServerAssumed, S!ConnReqKeeps
  <2>2. S!Sends(Word)
    BY <1>1, <1>2, <1>3, ServerAssumed, S!ConnReqSends
  <2>3. \/ /\ p.src \in Registered /\ p.src # NoName
           /\ DOMAIN clientList' = DOMAIN clientList
           /\ \A k \in DOMAIN clientList :
                 /\ clientList'[k].fd = clientList[k].fd
                 /\ clientList'[k].name = IF k = i THEN p.src ELSE clientList[k].name
           /\ \A q \in out'.sent :
                 q = S!Packet(clientList[i].fd, "CONN_ACK", NoName, p.src, "YES")
           /\ clientList[i].fd \in openFds \ lost => out'.sent # {}
        \/ S!NamesStay /\ \A q \in out'.sent : q.body = "NO"
    BY <1>3, ServerAssumed, S!LoginNames
  <2>4. Registered \subseteq Names
    BY ChatSystemAssumption
  <2> QED
    BY <1>3, <2>1, <2>2, <2>3, <2>4 DEF LogsIn, NobodyLogsIn, NoWelcome
<1>4. CASE p.type \in S!ServiceReq /\ S!ServiceRequest(i, p.type, p.src, lost)
  <2>1. S!IInv' /\ S!Sends({}) /\ S!NamesStay
    BY <1>2, <1>4, ServerAssumed, S!ServiceRequestKeeps, S!RequestSends, S!HandledNames
  <2> QED
    BY <2>1, FewerLetters DEF NobodyLogsIn
<1>5. CASE S!AllUserReq(i) \/ S!ExitAck(i) \/ S!AlramAck(i) \/ S!PingAck(i)
  <2>1. S!IInv'
    BY <1>5, ServerAssumed, S!AllUserReqKeeps, S!ExitAckKeeps, S!AlramAckKeeps, S!PingAckKeeps
  <2>2. S!Silent
    BY <1>5 DEF S!AllUserReq, S!ExitAck, S!AlramAck, S!PingAck, S!Crash
  <2>3. S!Sends({})
    BY <2>2, ServerAssumed, S!SilentSends
  <2>4. S!NamesStay
    BY <1>5, ServerAssumed, S!HandledNames
  <2> QED
    BY <2>1, <2>3, <2>4, FewerLetters DEF NobodyLogsIn
<1>6. CASE S!ExitReq(i, lost)
  <2>1. S!IInv' /\ S!Sends({}) /\ S!NamesStay
    BY <1>6, ServerAssumed, S!ExitReqKeeps, S!ExitReqSends, S!HandledNames
  <2> QED
    BY <2>1, FewerLetters DEF NobodyLogsIn
<1>7. ASSUME NEW r \in 0..Rooms, S!CreateChatroomReq(i, r, p.src, lost)
      PROVE  S!IInv' /\ S!Sends({}) /\ S!NamesStay
  BY <1>2, <1>7, ServerAssumed, S!CreateChatroomReqKeeps, S!RequestSends, S!HandledNames
<1>8. CASE S!ExitChatroomReq(i, p.src, lost)
  <2>1. S!IInv' /\ S!Sends({}) /\ S!NamesStay
    BY <1>2, <1>8, ServerAssumed, S!ExitChatroomReqKeeps, S!ExitChatroomReqSends, S!HandledNames
  <2> QED
    BY <2>1, FewerLetters DEF NobodyLogsIn
<1>9. CASE /\ p.type = "INVITE_REQ"
           /\ S!InviteReq(i, p.src, p.dst, <<p.dst, p.src>> \in Rejected, Forward[p.dst], lost)
  <2>1. Forward[p.dst] \in Word /\ Forward[p.dst] \in S!AnyName
    BY <1>1, <1>9, ChatSystemAssumption, WordsAreNames DEF Word
  <2>2. S!IInv'
    BY <1>2, <1>9, <2>1, ServerAssumed, S!InviteReqKeeps
  <2>3. S!Sends(Word) /\ \A q \in out'.sent : q.type \in {"INVITE_ACK", "INVITE_REQ"}
    BY <1>1, <1>2, <1>9, <2>1, ServerAssumed, S!InviteReqSends
  <2>4. S!NamesStay
    BY <1>9, ServerAssumed, S!HandledNames
  <2> QED
    BY <2>2, <2>3, <2>4 DEF NobodyLogsIn, NoWelcome
<1>10. CASE p.type = "INVITE_ACK" /\ S!InviteAck(i, p.src, p.dst, p.body, lost)
  <2>1. S!IInv' /\ S!Sends({}) /\ S!NamesStay
    BY <1>1, <1>2, <1>10, ServerAssumed, S!InviteAckKeeps, S!InviteAckSends, S!HandledNames
  <2> QED
    BY <2>1, FewerLetters DEF NobodyLogsIn
<1>11. CASE p.type = "STR_REQ" /\ S!StrReq(i, p.src, lost)
  <2>1. S!IInv' /\ S!NamesStay
    BY <1>2, <1>11, ServerAssumed, S!StrReqKeeps, S!HandledNames
  <2>2. S!Sends(Word) /\ \A q \in out'.sent : q.type = "STR_REQ"
    BY <1>1, <1>2, <1>11, ServerAssumed, S!StrReqSends
  <2> QED
    BY <2>1, <2>2 DEF NobodyLogsIn, NoWelcome
<1>12. CASE p.type = "STR_ACK" /\ S!StrAck(i, p.src, p.dst, lost)
  <2>1. S!IInv' /\ S!Sends({}) /\ S!NamesStay
    BY <1>2, <1>12, ServerAssumed, S!StrAckKeeps, S!StrAckSends, S!HandledNames
  <2> QED
    BY <2>1, FewerLetters DEF NobodyLogsIn
<1>13. CASE \E r \in 0..Rooms : S!CreateChatroomReq(i, r, p.src, lost)
  BY <1>7, <1>13, FewerLetters DEF NobodyLogsIn
<1> QED
  BY <1>3, <1>4, <1>5, <1>6, <1>8, <1>9, <1>10, <1>11, <1>12, <1>13 DEF Handled

\* What is written to a descriptor is for its client to read.
LEMMA WrittenIsDownward ==
    ASSUME S!IInv, S!Sends(Word), NEW r \in 0..Rooms, NEW fd
    PROVE  /\ Written(fd, r) \in Seq(Downward)
           /\ NoWelcome => \A k \in DOMAIN Written(fd, r) : ~IsYes(Written(fd, r)[k])
<1>1. IsFiniteSet(out'.sent) /\ out'.sent \subseteq S!Letters(Word)
  BY DEF S!Sends, S!IsFiniteSet, IsFiniteSet
<1>2. chatRoomList[r] \in Seq(Fds)
  BY DEF S!IInv, S!TypeOK
<1>3. S!SentType \subseteq DownType
  BY DEF S!SentType, DownType, PlainAck
<1>4. ASSUME NEW q \in out'.sent
      PROVE  /\ Copied(q) \in Downward
             /\ ~(q.type = "CONN_ACK" /\ q.body = "YES") => ~IsYes(Copied(q))
  <2>1. q \in S!Letters(Word)
    BY <1>1
  <2>2. /\ q.type \in S!SentType /\ q.src \in S!AnyName /\ q.dst \in S!AnyName
        /\ q.body \in S!Body /\ (q.type \in S!Naming => q.src \in Word /\ q.dst \in Word)
    BY <2>1 DEF S!Letters
  <2>3. Copied(q) \in Downward
    BY <1>3, <2>2 DEF Copied, Downward
  <2>4. Copied(q).type = q.type /\ Copied(q).body = q.body
    BY DEF Copied
  <2> QED
    BY <2>3, <2>4 DEF IsYes
<1>5. Written(fd, r) \in Seq(Downward)
  BY <1>1, <1>2, <1>4, WrittenAre
<1>6. ASSUME NoWelcome, NEW k \in DOMAIN Written(fd, r)
      PROVE  ~IsYes(Written(fd, r)[k])
  <2> DEFINE T == {p \in Downward : ~IsYes(p)}
  <2>1. \A q \in out'.sent : q.fd = fd => Copied(q) \in T
    BY <1>4, <1>6 DEF NoWelcome
  <2> HIDE DEF T
  <2>2. Written(fd, r) \in Seq(T)
    BY <1>1, <1>2, <2>1, WrittenAre
  <2>3. Written(fd, r)[k] \in T
    BY <1>6, <2>2
  <2> QED
    BY <2>3 DEF T
<1> QED
  BY <1>5, <1>6

\* What a step of the server leaves of the connections, and puts on them.
Serves(r) ==
    /\ client' = client
    /\ \A c \in Clients :
          /\ link'[c] # 0 => link'[c] = link[c] /\ link[c] \in openFds' /\ status' = "running"
          /\ client[c].pc = "running" /\ link'[c] # 0 =>
                down'[c] = down[c] \o Written(link[c], r)

\* Delivering leaves typed pipes and the connections as they should be.
LEMMA DeliversKeeps ==
    ASSUME Typed, S!IInv', S!Sends(Word), NEW r \in 0..Rooms,
           NEW unread \in [Clients -> Seq(Upward)], Delivers(r, unread)
    PROVE  Typed' /\ Serves(r)
<1>1. /\ client' = client /\ link' = Links(link) /\ down' = Delivered(r)
      /\ up' = [c \in Clients |-> IF link'[c] = 0 THEN <<>> ELSE unread[c]]
  BY DEF Delivers
<1>2. ClientsTyped' /\ ClientsTyped
  BY <1>1 DEF Typed, ClientsTyped, StateOK
<1>3. \A c \in Clients :
         link'[c] = IF link[c] \in openFds' /\ status' = "running" THEN link[c] ELSE 0
  BY <1>1 DEF Links
<1>4. link' \in [Clients -> openFds' \cup {0}]
  BY <1>1 DEF Links
<1>5. \A c \in Clients : down'[c] = IF link[c] = 0 \/ client[c].pc = "ended" THEN down[c]
                                    ELSE down[c] \o Written(link[c], r)
  BY <1>1 DEF Delivered
<1>6. down' \in [Clients -> Seq(Downward)]
  <2>1. ASSUME NEW c \in Clients
        PROVE  /\ down[c] \in Seq(Downward) /\ Written(link[c], r) \in Seq(Downward)
               /\ down[c] \o Written(link[c], r) \in Seq(Downward)
    BY WrittenIsDownward DEF Typed, PipesTyped
  <2> QED
    BY <1>1, <2>1 DEF Delivered
<1>7. up' \in [Clients -> Seq(Upward)]
  <2>1. <<>> \in Seq(Upward)
    OBVIOUS
  <2> QED
    BY <1>1, <2>1
<1>8. LinksDiffer'
  BY <1>3 DEF Typed, Connections, LinksDiffer
<1>9. LinksLive'
  <2>1. ASSUME NEW c \in Clients, client[c].pc # "running"
        PROVE  down'[c] = <<>> /\ ~client[c].isConnected
    BY <1>5, <2>1 DEF Typed, Connections, LinksLive
  <2> QED
    BY <1>1, <1>3, <2>1 DEF Typed, Connections, LinksLive
<1>10. Typed'
  BY <1>2, <1>4, <1>6, <1>7, <1>8, <1>9 DEF Typed, PipesTyped, Connections, LinksOpen
<1> QED
  BY <1>1, <1>3, <1>5, <1>10 DEF Serves

\* The room a handler goes over is a room.
LEMMA RoomOfType ==
    ASSUME S!IInv, NEW i \in DOMAIN clientList, NEW p
    PROVE  RoomOf(i, p) \in 0..Rooms
<1>1. \A k \in DOMAIN clientList : clientList[k].chatRoom \in 0..Rooms
  BY ServerAssumed, S!SlotType
<1>2. Server!Server_Search_Client(p.src) = S!Server_Search_Client(p.src)
  BY DEF Server!Server_Search_Client, S!Server_Search_Client
<1>3. clientList \in Seq(S!ClientRecord) /\ Rooms \in Nat
  BY ServerAssumed DEF S!IInv, S!TypeOK, S!ChatServerAssumption
<1>4. S!Server_Search_Client(p.src) # 0 => S!Server_Search_Client(p.src) \in DOMAIN clientList
  BY <1>3, ServerAssumed, S!SearchFinds
<1>5. 0 \in 0..Rooms
  BY <1>3
<1> QED
  BY <1>1, <1>2, <1>4, <1>5 DEF RoomOf

-----------------------------------------------------------------------------
(* What a client is told of its login.                                     *)

\* The welcomes on their way in d, and what a process s that reads all of d
\* will know: that it is logged in, and under which name.
Welcomes(d) == {k \in DOMAIN d : IsYes(d[k])}
Told(s, d, name) ==
    \/ Welcomes(d) = {} /\ s.isConnected /\ s.myName = name
    \/ \E k \in Welcomes(d) : d[k].dst = name /\ \A j \in Welcomes(d) : j <= k
Untold(s, d) == Welcomes(d) = {} /\ ~s.isConnected

\* Reading the oldest packet changes nothing of that.
LEMMA ReadTold ==
    ASSUME NEW d \in Seq(Downward), d # <<>>, NEW s, NEW t, NEW name,
           IsYes(Head(d)) => t.isConnected /\ t.myName = Head(d).dst,
           ~IsYes(Head(d)) => t.isConnected = s.isConnected /\ t.myName = s.myName
    PROVE  /\ Told(s, d, name) => Told(t, Tail(d), name)
           /\ Untold(s, d) => Untold(t, Tail(d))
<1> DEFINE e == Tail(d)
<1>1. /\ DOMAIN d = 1..Len(d) /\ Len(d) \in Nat /\ Head(d) = d[1] /\ 1 \in DOMAIN d
      /\ e \in Seq(Downward) /\ Len(e) = Len(d) - 1
      /\ \A k \in 1..(Len(d) - 1) : e[k] = d[k + 1]
  OBVIOUS
<1>2. DOMAIN e = 1..(Len(d) - 1)
  BY <1>1
<1> HIDE DEF e
<1>3. \A k \in Welcomes(e) : k + 1 \in Welcomes(d) /\ d[k + 1] = e[k] /\ k \in Nat
  BY <1>1, <1>2 DEF Welcomes
<1>4. \A k \in Welcomes(d) : k \in Nat /\ (k = 1 \/ (k - 1 \in Welcomes(e) /\ e[k - 1] = d[k]))
  <2>1. ASSUME NEW k \in Welcomes(d), k # 1
        PROVE  k - 1 \in 1..(Len(d) - 1) /\ k - 1 + 1 = k /\ IsYes(d[k])
    BY <1>1, <2>1 DEF Welcomes
  <2>2. \A k \in Welcomes(d) : k \in Nat
    BY <1>1 DEF Welcomes
  <2> QED
    BY <1>1, <1>2, <2>1, <2>2 DEF Welcomes
<1>5. 1 \in Welcomes(d) <=> IsYes(Head(d))
  BY <1>1 DEF Welcomes
<1>6. ASSUME Untold(s, d) PROVE Untold(t, e)
  BY <1>3, <1>5, <1>6 DEF Untold
<1>7. ASSUME Welcomes(d) = {}, s.isConnected, s.myName = name PROVE Told(t, e, name)
  <2>1. Welcomes(e) = {}
    BY <1>3, <1>7
  <2> QED
    BY <1>5, <1>7, <2>1 DEF Told
<1>8. ASSUME NEW k \in Welcomes(d), d[k].dst = name, \A j \in Welcomes(d) : j <= k
      PROVE  Told(t, e, name)
  <2>1. CASE k = 1
    <3>1. Welcomes(e) = {}
      <4>1. ASSUME NEW m \in Welcomes(e) PROVE FALSE
        BY <1>2, <1>3, <1>8, <2>1, <4>1 DEF Welcomes
      <4> QED
        BY <4>1
    <3>2. IsYes(Head(d)) /\ Head(d).dst = name
      BY <1>1, <1>5, <1>8, <2>1
    <3> QED
      BY <3>1, <3>2 DEF Told
  <2>2. CASE k # 1
    <3>1. k - 1 \in Welcomes(e) /\ e[k - 1].dst = name
      BY <1>4, <1>8, <2>2
    <3>2. \A j \in Welcomes(e) : j <= k - 1
      BY <1>3, <1>4, <1>8
    <3> QED
      BY <3>1, <3>2 DEF Told
  <2> QED
    BY <2>1, <2>2
<1> QED
  BY <1>6, <1>7, <1>8 DEF Told, e

\* Neither does a packet that is no welcome, or none at all.
LEMMA MoreTold ==
    ASSUME NEW d \in Seq(Downward), NEW w \in Seq(Downward), NEW s, NEW name,
           \A k \in DOMAIN w : ~IsYes(w[k])
    PROVE  /\ Told(s, d, name) => Told(s, d \o w, name)
           /\ Untold(s, d) => Untold(s, d \o w)
<1> DEFINE e == d \o w
<1>1. /\ DOMAIN d = 1..Len(d) /\ Len(d) \in Nat /\ DOMAIN w = 1..Len(w) /\ Len(w) \in Nat
      /\ DOMAIN e = 1..(Len(d) + Len(w))
      /\ \A k \in 1..(Len(d) + Len(w)) : e[k] = IF k <= Len(d) THEN d[k] ELSE w[k - Len(d)]
  OBVIOUS
<1> HIDE DEF e
<1>2. ASSUME NEW k \in 1..(Len(d) + Len(w)), k > Len(d) PROVE ~IsYes(e[k])
  <2>1. k - Len(d) \in DOMAIN w
    BY <1>1, <1>2
  <2> QED
    BY <1>1, <1>2, <2>1
<1>3. Welcomes(e) = Welcomes(d) /\ \A k \in Welcomes(d) : e[k] = d[k]
  <2>1. \A k \in Welcomes(d) : k \in Welcomes(e) /\ e[k] = d[k]
    BY <1>1 DEF Welcomes
  <2>2. \A k \in Welcomes(e) : k \in Welcomes(d)
    BY <1>1, <1>2 DEF Welcomes
  <2> QED
    BY <2>1, <2>2
<1> QED
  BY <1>3 DEF Told, Untold, e

\* After a welcome that is not lost the name in it is what will be known.
LEMMA WelcomeTold ==
    ASSUME NEW d \in Seq(Downward), NEW w \in Seq(Downward), w # <<>>, NEW s, NEW name,
           \A k \in DOMAIN w : IsYes(w[k]) /\ w[k].dst = name
    PROVE  Told(s, d \o w, name)
<1> DEFINE e == d \o w
           last == Len(d) + Len(w)
<1>1. /\ Len(d) \in Nat /\ DOMAIN w = 1..Len(w) /\ Len(w) \in Nat /\ Len(w) >= 1
      /\ DOMAIN e = 1..last
      /\ e[last] = w[Len(w)] /\ last \in 1..last
  OBVIOUS
<1> HIDE DEF e
<1>2. last \in Welcomes(e) /\ e[last].dst = name
  BY <1>1 DEF Welcomes
<1>3. \A j \in Welcomes(e) : j <= last
  BY <1>1 DEF Welcomes
<1> QED
  BY <1>2, <1>3 DEF Told, e

\* What a running client with a connection knows, or will when it has read
\* everything, is what the server's list says of that connection.
LoginFlows ==
    \A c \in Clients : client[c].pc = "running" /\ link[c] # 0 =>
       /\ \A i \in DOMAIN clientList :
             clientList[i].fd = link[c] /\ clientList[i].name \in Names =>
                Told(client[c], down[c], clientList[i].name)
       /\ (\A i \in DOMAIN clientList :
             clientList[i].fd = link[c] => clientList[i].name \notin Names) =>
                Untold(client[c], down[c])

SysInv == Typed /\ LoginFlows

-----------------------------------------------------------------------------
(* Every step keeps it.                                                    *)

\* A step that leaves the server alone leaves its invariant alone.
LEMMA ServerUntouched ==
    ASSUME S!IInv, UNCHANGED serverVars
    PROVE  S!IInv'
<1>1. /\ clientList' = clientList /\ UNCHANGED <<chatRoomList, deficit, openFds>>
      /\ isPing' = isPing /\ chatRoomAck' = chatRoomAck /\ MallocQ' = MallocQ
      /\ status' = status
  BY DEF serverVars
<1>2. /\ isPing' \in [1..MaxClients -> 0..MaxPings]
      /\ chatRoomAck' \in [0..Rooms -> 0..MaxMembers]
      /\ MallocQ' \in Seq(S!WaitRecord) /\ Len(MallocQ') <= PoolSize
      /\ status' \in {"running", "stopped"} \cup S!Faults
  BY <1>1 DEF S!IInv, S!TypeOK
<1> QED
  BY <1>1, <1>2, ServerAssumed, S!QuietStep

\* A client's move keeps the types and the connections,
LEMMA ClientKeepsTypes ==
    ASSUME Typed, NEW c \in Clients, ClientMoves(c), UNCHANGED serverVars
    PROVE  Typed'
<1>1. S!IInv' /\ ClientsTyped' /\ PipesTyped' /\ openFds' = openFds /\ status' = status
  BY ServerUntouched DEF Typed, ClientMoves, serverVars
<1>2. link' = link /\ LinksOpen' /\ LinksDiffer'
  BY <1>1 DEF ClientMoves, Typed, Connections, LinksOpen, LinksDiffer
<1>3. LinksLive'
  <2>1. ASSUME NEW d \in Clients \ {c}
        PROVE  client'[d] = client[d] /\ down'[d] = down[d]
    BY DEF ClientMoves, OthersStay
  <2>2. link[c] # 0 => client'[c].pc \in {"running", "ended"}
    BY DEF ClientMoves, Stops, GoesOn
  <2>3. client'[c].pc # "running" => down'[c] = <<>> /\ ~client'[c].isConnected
    BY DEF ClientMoves, Stops, GoesOn
  <2> QED
    BY <1>1, <1>2, <2>1, <2>2, <2>3 DEF Typed, Connections, LinksLive
<1> QED
  BY <1>1, <1>2, <1>3 DEF Typed, Connections

\* and what every running client knows or has been told of its login.
LEMMA ClientKeepsFlows ==
    ASSUME SysInv, NEW c \in Clients, ClientMoves(c), UNCHANGED serverVars
    PROVE  LoginFlows'
<1>1. link' = link /\ clientList' = clientList
  BY DEF ClientMoves, serverVars
<1>2. SUFFICES ASSUME NEW d \in Clients, client'[d].pc = "running", link[d] # 0
               PROVE  /\ client[d].pc = "running"
                      /\ \A name : Told(client[d], down[d], name) => Told(client'[d], down'[d], name)
                      /\ Untold(client[d], down[d]) => Untold(client'[d], down'[d])
  BY <1>1 DEF SysInv, LoginFlows
<1>3. CASE d # c
  BY <1>2, <1>3 DEF ClientMoves, OthersStay
<1>4. CASE d = c
  <2>1. GoesOn(c)
    BY <1>2, <1>4 DEF ClientMoves, Stops
  <2>2. down[c] \in Seq(Downward)
    BY DEF SysInv, Typed, PipesTyped
  <2>3. CASE down'[c] = down[c] /\ Knows(c, client'[c])
    BY <1>4, <2>1, <2>3 DEF GoesOn, Knows, Told, Untold
  <2>4. CASE down[c] # <<>> /\ down'[c] = Tail(down[c]) /\ Learns(c, client'[c])
    BY <1>4, <2>1, <2>2, <2>4, ReadTold DEF GoesOn, Learns, Knows
  <2> QED
    BY <2>1, <2>3, <2>4 DEF GoesOn
<1> QED
  BY <1>3, <1>4

\* The server welcomes nobody: what is listed is what was.
LEMMA QuietServiceKeeps ==
    ASSUME SysInv, S!IInv', S!Sends(Word), NobodyLogsIn, NEW r \in 0..Rooms,
           NEW unread \in [Clients -> Seq(Upward)], Delivers(r, unread)
    PROVE  SysInv'
<1>1. Typed' /\ Serves(r)
  BY DeliversKeeps DEF SysInv
<1>2. SUFFICES ASSUME NEW c \in Clients, client'[c].pc = "running", link'[c] # 0
               PROVE  /\ \A k \in DOMAIN clientList' :
                            clientList'[k].fd = link'[c] /\ clientList'[k].name \in Names =>
                               Told(client'[c], down'[c], clientList'[k].name)
                      /\ (\A k \in DOMAIN clientList' :
                            clientList'[k].fd = link'[c] => clientList'[k].name \notin Names) =>
                               Untold(client'[c], down'[c])
  BY <1>1 DEF SysInv, LoginFlows
<1>3. /\ client'[c] = client[c] /\ link'[c] = link[c] /\ link[c] \in openFds'
      /\ down'[c] = down[c] \o Written(link[c], r)
  BY <1>1, <1>2 DEF Serves
<1>4. /\ down[c] \in Seq(Downward) /\ Written(link[c], r) \in Seq(Downward)
      /\ \A k \in DOMAIN Written(link[c], r) : ~IsYes(Written(link[c], r)[k])
  BY WrittenIsDownward DEF SysInv, Typed, PipesTyped, NobodyLogsIn
<1>5. /\ \A name : Told(client[c], down[c], name) => Told(client'[c], down'[c], name)
      /\ Untold(client[c], down[c]) => Untold(client'[c], down'[c])
  BY <1>3, <1>4, MoreTold
<1>6. /\ \A i \in DOMAIN clientList :
            clientList[i].fd = link[c] /\ clientList[i].name \in Names =>
               Told(client[c], down[c], clientList[i].name)
      /\ (\A i \in DOMAIN clientList :
            clientList[i].fd = link[c] => clientList[i].name \notin Names) =>
               Untold(client[c], down[c])
  BY <1>2, <1>3 DEF SysInv, LoginFlows
<1>7. /\ \A k \in DOMAIN clientList' : \E i \in DOMAIN clientList :
            clientList'[k].fd = clientList[i].fd /\ clientList'[k].name = clientList[i].name
      /\ \A i \in DOMAIN clientList : clientList[i].fd \in openFds' =>
            \E k \in DOMAIN clientList' :
               clientList'[k].fd = clientList[i].fd /\ clientList'[k].name = clientList[i].name
  BY DEF NobodyLogsIn, S!NamesStay, S!SameClient
<1>8. ASSUME NEW k \in DOMAIN clientList', clientList'[k].fd = link'[c],
             clientList'[k].name \in Names
      PROVE  Told(client'[c], down'[c], clientList'[k].name)
  <2>1. PICK i \in DOMAIN clientList :
           clientList'[k].fd = clientList[i].fd /\ clientList'[k].name = clientList[i].name
    BY <1>7
  <2> QED
    BY <1>3, <1>5, <1>6, <1>8, <2>1
<1>9. ASSUME \A k \in DOMAIN clientList' :
               clientList'[k].fd = link'[c] => clientList'[k].name \notin Names
      PROVE  Untold(client'[c], down'[c])
  <2>1. ASSUME NEW i \in DOMAIN clientList, clientList[i].fd = link[c]
        PROVE  clientList[i].name \notin Names
    BY <1>3, <1>7, <1>9, <2>1
  <2> QED
    BY <1>5, <1>6, <2>1
<1> QED
  BY <1>8, <1>9

\* The server welcomes the client it reads from, which has not ended if it will
\* read the answer: none of its packets is lost.
LEMMA LoginKeeps ==
    ASSUME SysInv, S!IInv', S!Sends(Word), NEW i \in DOMAIN clientList, NEW name,
           NEW lost \in SUBSET Gone, LogsIn(i, name, lost), NEW r \in 0..Rooms,
           NEW unread \in [Clients -> Seq(Upward)], Delivers(r, unread)
    PROVE  SysInv'
<1>1. Typed' /\ Serves(r)
  BY DeliversKeeps DEF SysInv
<1>2. SUFFICES ASSUME NEW c \in Clients, client'[c].pc = "running", link'[c] # 0
               PROVE  /\ \A k \in DOMAIN clientList' :
                            clientList'[k].fd = link'[c] /\ clientList'[k].name \in Names =>
                               Told(client'[c], down'[c], clientList'[k].name)
                      /\ (\A k \in DOMAIN clientList' :
                            clientList'[k].fd = link'[c] => clientList'[k].name \notin Names) =>
                               Untold(client'[c], down'[c])
  BY <1>1 DEF SysInv, LoginFlows
<1> DEFINE w == Written(link[c], r)
<1>3. /\ client'[c] = client[c] /\ link'[c] = link[c] /\ link[c] # 0
      /\ client[c].pc = "running" /\ down'[c] = down[c] \o w
  BY <1>1, <1>2 DEF Serves
<1>4. down[c] \in Seq(Downward) /\ w \in Seq(Downward)
  BY WrittenIsDownward DEF SysInv, Typed, PipesTyped
<1>5. IsFiniteSet(out'.sent) /\ chatRoomList[r] \in Seq(Fds)
  BY DEF S!Sends, S!IsFiniteSet, IsFiniteSet, SysInv, Typed, S!IInv, S!TypeOK
<1>6. /\ name \in Names /\ DOMAIN clientList' = DOMAIN clientList
      /\ \A k \in DOMAIN clientList :
            /\ clientList'[k].fd = clientList[k].fd
            /\ clientList'[k].name = IF k = i THEN name ELSE clientList[k].name
  BY DEF LogsIn
<1>7. \A q \in out'.sent : /\ q.fd = clientList[i].fd /\ q.type = "CONN_ACK"
                           /\ q.body = "YES" /\ q.dst = name
  BY DEF LogsIn, S!Packet
<1> HIDE DEF w
<1>8. CASE clientList[i].fd = link[c]
  <2>1. w # <<>>
    <3>1. link[c] \notin Gone
      BY <1>3 DEF Gone, SysInv, Typed, Connections, LinksDiffer
    <3>2. link[c] \in openFds
      BY <1>3 DEF SysInv, Typed, Connections, LinksOpen
    <3>3. PICK q : q \in out'.sent
      BY <1>8, <3>1, <3>2 DEF LogsIn
    <3>4. q.fd = link[c] /\ q.type \notin OverRoom
      BY <1>7, <1>8, <3>3 DEF OverRoom
    <3>5. \A p \in out'.sent : p.fd = link[c] => Copied(p) \in {Copied(p0) : p0 \in out'.sent}
      OBVIOUS
    <3> QED
      BY <1>5, <3>3, <3>4, <3>5, WrittenAre DEF w
  <2>2. \A k \in DOMAIN w : IsYes(w[k]) /\ w[k].dst = name
    <3> DEFINE T == {p \in Downward : IsYes(p) /\ p.dst = name}
    <3>1. ASSUME NEW q \in out'.sent PROVE Copied(q) \in T
      <4>1. Copied(q) \in Downward
        <5>1. q \in S!Letters(Word)
          BY DEF S!Sends
        <5>2. S!SentType \subseteq DownType
          BY DEF S!SentType, DownType, PlainAck
        <5> QED
          BY <5>1, <5>2 DEF S!Letters, Copied, Downward
      <4> QED
        BY <1>7, <4>1 DEF Copied, IsYes
    <3> HIDE DEF T
    <3>2. w \in Seq(T)
      BY <1>5, <3>1, WrittenAre DEF w
    <3>3. \A k \in DOMAIN w : w[k] \in T
      BY <3>2
    <3> QED
      BY <3>3 DEF T
  <2>3. Told(client'[c], down'[c], name)
    BY <1>3, <1>4, <2>1, <2>2, WelcomeTold
  <2>4. \A k \in DOMAIN clientList : clientList[k].fd = link[c] => k = i
    BY <1>8 DEF SysInv, Typed, S!IInv, S!UniqueClients
  <2> QED
    BY <1>3, <1>6, <1>8, <2>3, <2>4
<1>9. CASE clientList[i].fd # link[c]
  <2>1. \A k \in DOMAIN w : ~IsYes(w[k])
    <3>1. \A q \in out'.sent : q.fd = link[c] => Copied(q) \in {}
      BY <1>7, <1>9
    <3>2. w \in Seq({})
      BY <1>5, <3>1, WrittenAre DEF w
    <3>3. \A k \in DOMAIN w : w[k] \in {}
      BY <3>2
    <3> QED
      BY <3>3
  <2>2. /\ \A other : Told(client[c], down[c], other) => Told(client'[c], down'[c], other)
        /\ Untold(client[c], down[c]) => Untold(client'[c], down'[c])
    BY <1>3, <1>4, <2>1, MoreTold
  <2>3. \A k \in DOMAIN clientList : clientList[k].fd = link[c] =>
           clientList'[k].fd = link[c] /\ clientList'[k].name = clientList[k].name
    BY <1>6, <1>9
  <2>4. \A k \in DOMAIN clientList : clientList'[k].fd = link[c] =>
           clientList[k].fd = link[c] /\ clientList'[k].name = clientList[k].name
    BY <1>6, <1>9
  <2>5. /\ \A k \in DOMAIN clientList :
              clientList[k].fd = link[c] /\ clientList[k].name \in Names =>
                 Told(client[c], down[c], clientList[k].name)
        /\ (\A k \in DOMAIN clientList :
              clientList[k].fd = link[c] => clientList[k].name \notin Names) =>
                 Untold(client[c], down[c])
    BY <1>3 DEF SysInv, LoginFlows
  <2> QED
    BY <1>3, <1>6, <2>2, <2>3, <2>4, <2>5
<1> QED
  BY <1>8, <1>9

\* Everything written to it stays where it is while the server reads.
LEMMA UnreadTyped ==
    ASSUME Typed, NEW c \in Clients
    PROVE  /\ up \in [Clients -> Seq(Upward)]
           /\ up[c] # <<>> => /\ Head(up[c]) \in Upward
                              /\ [up EXCEPT ![c] = Tail(@)] \in [Clients -> Seq(Upward)]
<1>1. up \in [Clients -> Seq(Upward)] /\ up[c] \in Seq(Upward)
  BY DEF Typed, PipesTyped
<1>2. up[c] # <<>> => Head(up[c]) \in Upward /\ Tail(up[c]) \in Seq(Upward)
  BY <1>1
<1> QED
  BY <1>1, <1>2

\* A handler run on the oldest packet of a connection keeps the invariant.
LEMMA ServerReadsKeeps ==
    ASSUME SysInv, NEW c \in Clients, ServerReads(c)
    PROVE  SysInv'
<1>1. PICK i \in DOMAIN clientList :
         /\ clientList[i].fd = link[c]
         /\ \/ Server!ReadNothing(i) /\ Delivers(0, up)
            \/ /\ up[c] # <<>>
               /\ \E lost \in SUBSET Gone : Handles(i, Head(up[c]), lost)
               /\ Delivers(RoomOf(i, Head(up[c])), [up EXCEPT ![c] = Tail(@)])
  BY DEF ServerReads
<1>2. S!IInv /\ Typed /\ up \in [Clients -> Seq(Upward)]
  BY UnreadTyped DEF SysInv, Typed
<1>3. CASE Server!ReadNothing(i) /\ Delivers(0, up)
  <2>1. S!ReadNothing(i)
    BY <1>3, SameActions
  <2>2. S!IInv' /\ S!NamesStay
    BY <1>2, <2>1, ServerAssumed, S!ReadNothingKeeps, S!HandledNames
  <2>3. S!Sends({})
    BY <2>1, ServerAssumed, S!SilentSends DEF S!ReadNothing
  <2>4. 0 \in 0..Rooms
    BY ServerAssumed DEF S!ChatServerAssumption
  <2> QED
    BY <1>2, <1>3, <2>2, <2>3, <2>4, FewerLetters, QuietServiceKeeps DEF NobodyLogsIn
<1>4. CASE /\ up[c] # <<>>
           /\ \E lost \in SUBSET Gone : Handles(i, Head(up[c]), lost)
           /\ Delivers(RoomOf(i, Head(up[c])), [up EXCEPT ![c] = Tail(@)])
  <2> DEFINE p == Head(up[c])
             r == RoomOf(i, p)
             unread == [up EXCEPT ![c] = Tail(@)]
  <2>1. p \in Upward /\ unread \in [Clients -> Seq(Upward)] /\ r \in 0..Rooms
    BY <1>2, <1>4, UnreadTyped, RoomOfType
  <2>2. PICK lost \in SUBSET Gone : Handles(i, p, lost)
    BY <1>4
  <2>3. Delivers(r, unread)
    BY <1>4
  <2> HIDE DEF p, r, unread
  <2>4. Handled(i, p, lost)
    BY <2>2, SameHandlers
  <2>5. /\ S!IInv' /\ S!Sends(Word)
        /\ NobodyLogsIn \/ LogsIn(i, p.src, lost)
    BY <1>2, <2>1, <2>4, HandledStep
  <2> QED
    BY <2>1, <2>3, <2>5, QuietServiceKeeps, LoginKeeps
<1> QED
  BY <1>1, <1>3, <1>4

\* So do the idle scans and the end of the server,
LEMMA ServerIdlesKeeps ==
    ASSUME SysInv, ServerIdles \/ ServerStops
    PROVE  SysInv'
<1>1. S!IInv /\ up \in [Clients -> Seq(Upward)] /\ 0 \in 0..Rooms /\ Delivers(0, up)
  BY ServerAssumed DEF SysInv, Typed, PipesTyped, S!ChatServerAssumption, ServerIdles, ServerStops
<1>2. S!Idle({}) \/ S!Interrupt({})
  BY SameActions DEF ServerIdles, ServerStops
<1>3. S!IInv' /\ S!Sends({})
  BY <1>1, <1>2, ServerAssumed, S!IdleKeeps, S!InterruptKeeps, S!IdleSends, S!InterruptSends
<1>4. S!NamesStay
  BY <1>1, <1>2, ServerAssumed, S!ClockNames
<1> QED
  BY <1>1, <1>3, <1>4, FewerLetters, QuietServiceKeeps DEF NobodyLogsIn

\* and a second of the clock.
LEMMA SecondKeeps ==
    ASSUME SysInv, SecondPasses
    PROVE  SysInv'
<1>1. S!Tick /\ UNCHANGED <<client, link, up, down>>
  BY SameActions DEF SecondPasses, clientVars
<1>2. S!IInv
  BY DEF SysInv, Typed
<1>3. S!IInv' /\ S!NamesStay
  BY <1>1, <1>2, ServerAssumed, S!TickKeeps, S!ClockNames
<1>4. openFds' = openFds /\ status' = status
  BY <1>1 DEF S!Tick
<1>5. Typed'
  BY <1>1, <1>3, <1>4 DEF SysInv, Typed, ClientsTyped, StateOK, PipesTyped, Connections,
     LinksOpen, LinksDiffer, LinksLive
<1>6. /\ \A k \in DOMAIN clientList' : \E i \in DOMAIN clientList :
            clientList'[k].fd = clientList[i].fd /\ clientList'[k].name = clientList[i].name
      /\ \A i \in DOMAIN clientList : clientList[i].fd \in openFds =>
            \E k \in DOMAIN clientList' :
               clientList'[k].fd = clientList[i].fd /\ clientList'[k].name = clientList[i].name
  BY <1>3, <1>4 DEF S!NamesStay, S!SameClient
<1>7. ASSUME NEW c \in Clients, client[c].pc = "running", link[c] # 0
      PROVE  /\ \A k \in DOMAIN clientList' :
                   clientList'[k].fd = link[c] /\ clientList'[k].name \in Names =>
                      Told(client[c], down[c], clientList'[k].name)
             /\ (\A k \in DOMAIN clientList' :
                   clientList'[k].fd = link[c] => clientList'[k].name \notin Names) =>
                      Untold(client[c], down[c])
  <2>1. link[c] \in openFds
    BY <1>7 DEF SysInv, Typed, Connections, LinksOpen
  <2>2. /\ \A i \in DOMAIN clientList :
              clientList[i].fd = link[c] /\ clientList[i].name \in Names =>
                 Told(client[c], down[c], clientList[i].name)
        /\ (\A i \in DOMAIN clientList :
              clientList[i].fd = link[c] => clientList[i].name \notin Names) =>
                 Untold(client[c], down[c])
    BY <1>7 DEF SysInv, LoginFlows
  <2>3. ASSUME NEW k \in DOMAIN clientList', clientList'[k].fd = link[c],
               clientList'[k].name \in Names
        PROVE  Told(client[c], down[c], clientList'[k].name)
    BY <1>6, <2>2, <2>3
  <2>4. ASSUME \A k \in DOMAIN clientList' :
                 clientList'[k].fd = link[c] => clientList'[k].name \notin Names
        PROVE  Untold(client[c], down[c])
    <3>1. ASSUME NEW i \in DOMAIN clientList, clientList[i].fd = link[c]
          PROVE  clientList[i].name \notin Names
      BY <1>6, <2>1, <2>4, <3>1
    <3> QED
      BY <2>2, <3>1
  <2> QED
    BY <2>3, <2>4
<1> QED
  BY <1>1, <1>5, <1>7 DEF SysInv, LoginFlows

\* A new connection gets a descriptor nobody has, and is listed without a
\* user's name if it is listed at all.
LEMMA AcceptsKeeps ==
    ASSUME SysInv, NEW c \in Clients, Accepts(c)
    PROVE  SysInv'
<1>1. PICK fd \in Fds : Server!Accept(fd) /\ link' = Links([link EXCEPT ![c] = fd])
  BY DEF Accepts
<1>2. S!IInv /\ S!Accept(fd)
  BY <1>1, SameActions DEF SysInv, Typed
<1>3. S!IInv'
  BY <1>2, ServerAssumed, S!AcceptKeeps
<1>4. /\ fd \notin openFds /\ openFds \subseteq openFds'
      /\ status' = "running" => fd \in openFds'
      /\ \A k \in DOMAIN clientList' :
            \/ \E i \in DOMAIN clientList : S!SameClient(i, k)
            \/ clientList'[k].fd = fd /\ clientList'[k].name \in S!Placeholder
      /\ \A i \in DOMAIN clientList : \E k \in DOMAIN clientList' : S!SameClient(i, k)
  BY <1>2, ServerAssumed, S!AcceptedNames
<1> DEFINE s == [client[c] EXCEPT !.pc = "running"]
<1>5. /\ client' = [client EXCEPT ![c] = s] /\ UNCHANGED <<up, down>>
      /\ client[c].pc = "trying"
  BY DEF Accepts, Connected
<1>6. /\ link[c] = 0 /\ down[c] = <<>> /\ ~client[c].isConnected /\ client[c] \in Process
      /\ StateOK(client[c])
  BY <1>5, ProcessOK DEF SysInv, Typed, Connections, LinksLive
<1>7. StateOK(s) /\ s.pc = "running" /\ ~s.isConnected
  BY <1>6 DEF StateOK, Process
<1> HIDE DEF s
<1>8. ClientsTyped' /\ client'[c] = s /\ \A d \in Clients \ {c} : client'[d] = client[d]
  BY <1>5, <1>7 DEF SysInv, Typed, ClientsTyped, StateOK
<1>9. PipesTyped'
  BY <1>5 DEF SysInv, Typed, PipesTyped
<1>10. link \in [Clients -> openFds \cup {0}] /\ 0 \notin Fds
  BY ChatSystemAssumption DEF SysInv, Typed, Connections, LinksOpen
<1>11. /\ link' \in [Clients -> openFds' \cup {0}]
       /\ link'[c] # 0 => link'[c] = fd /\ status' = "running"
       /\ \A d \in Clients \ {c} : link'[d] # 0 => link'[d] = link[d] /\ status' = "running"
  BY <1>1, <1>10 DEF Links
<1>12. LinksDiffer'
  <2>1. \A d \in Clients \ {c} : link'[d] # 0 => link'[d] # fd
    BY <1>4, <1>10, <1>11
  <2> QED
    BY <1>11, <2>1 DEF SysInv, Typed, Connections, LinksDiffer
<1>13. LinksLive'
  BY <1>5, <1>7, <1>8, <1>11 DEF SysInv, Typed, Connections, LinksLive
<1>14. Typed'
  BY <1>3, <1>8, <1>9, <1>11, <1>12, <1>13 DEF Typed, Connections, LinksOpen
<1>15. S!Placeholder \cap Names = {}
  BY ServerAssumption DEF Server!Placeholder, S!Placeholder
<1>16. \A i \in DOMAIN clientList : clientList[i].fd \in openFds
  BY DEF SysInv, Typed, S!IInv, S!UniqueClients
<1>17. ASSUME NEW d \in Clients, client'[d].pc = "running", link'[d] # 0
       PROVE  /\ \A k \in DOMAIN clientList' :
                    clientList'[k].fd = link'[d] /\ clientList'[k].name \in Names =>
                       Told(client'[d], down[d], clientList'[k].name)
              /\ (\A k \in DOMAIN clientList' :
                    clientList'[k].fd = link'[d] => clientList'[k].name \notin Names) =>
                       Untold(client'[d], down[d])
  <2>1. CASE d = c
    <3>1. Untold(client'[d], down[d])
      BY <1>6, <1>7, <1>8, <2>1 DEF Untold, Welcomes
    <3>2. \A k \in DOMAIN clientList' : clientList'[k].fd = fd => clientList'[k].name \notin Names
      BY <1>4, <1>15, <1>16 DEF S!SameClient
    <3> QED
      BY <1>11, <1>17, <2>1, <3>1, <3>2
  <2>2. CASE d # c
    <3>1. link'[d] = link[d] /\ client'[d] = client[d] /\ link[d] # fd
      BY <1>4, <1>8, <1>10, <1>11, <1>17, <2>2
    <3>2. /\ \A i \in DOMAIN clientList :
                clientList[i].fd = link[d] /\ clientList[i].name \in Names =>
                   Told(client[d], down[d], clientList[i].name)
          /\ (\A i \in DOMAIN clientList :
                clientList[i].fd = link[d] => clientList[i].name \notin Names) =>
                   Untold(client[d], down[d])
      BY <1>17, <3>1 DEF SysInv, LoginFlows
    <3>3. ASSUME NEW k \in DOMAIN clientList', clientList'[k].fd = link[d],
                 clientList'[k].name \in Names
          PROVE  Told(client[d], down[d], clientList'[k].name)
      BY <1>4, <3>1, <3>2, <3>3 DEF S!SameClient
    <3>4. ASSUME \A k \in DOMAIN clientList' :
                   clientList'[k].fd = link[d] => clientList'[k].name \notin Names
          PROVE  Untold(client[d], down[d])
      <4>1. ASSUME NEW i \in DOMAIN clientList, clientList[i].fd = link[d]
            PROVE  clientList[i].name \notin Names
        BY <1>4, <3>4, <4>1 DEF S!SameClient
      <4> QED
        BY <3>2, <4>1
    <3> QED
      BY <3>1, <3>3, <3>4
  <2> QED
    BY <2>1, <2>2
<1> QED
  BY <1>5, <1>14, <1>17 DEF SysInv, LoginFlows

-----------------------------------------------------------------------------
(* The theorems.                                                           *)

\* The server has no client, no process runs, nothing is in transit.
LEMMA InitSystem == Init => SysInv
<1> SUFFICES ASSUME Init PROVE SysInv
  OBVIOUS
<1>1. S!IInv
  BY SameActions, ServerAssumed, S!InitEstablishes DEF Init
<1>2. /\ client = [c \in Clients |-> Fresh(NoName)] /\ link = [c \in Clients |-> 0]
      /\ up = [c \in Clients |-> <<>>] /\ down = [c \in Clients |-> <<>>]
  BY DEF Init, ClientInit
<1>3. /\ Fresh(NoName) \in Process /\ Fresh(NoName).waits = <<>>
      /\ Fresh(NoName).pc = "off" /\ ~Fresh(NoName).isConnected
  <2>1. 0 \in 0..(MaxTries - 1) /\ NoName \in Word /\ <<>> \in Seq(WaitTypes)
    BY ChatClientAssumption DEF Word
  <2> QED
    BY <2>1 DEF Fresh, Process
<1>4. ClientsTyped
  BY <1>2, <1>3, ChatClientAssumption DEF ClientsTyped, StateOK
<1>5. PipesTyped
  BY <1>2 DEF PipesTyped
<1>6. Connections
  BY <1>2, <1>3 DEF Connections, LinksOpen, LinksDiffer, LinksLive
<1>7. LoginFlows
  BY <1>2 DEF LoginFlows
<1> QED
  BY <1>1, <1>4, <1>5, <1>6, <1>7 DEF SysInv, Typed

\* No step of a client, of the server or of the clock breaks it.
LEMMA NextSystem == SysInv /\ [Next]_vars => SysInv'
<1> SUFFICES ASSUME SysInv, [Next]_vars PROVE SysInv'
  OBVIOUS
<1>1. ASSUME NEW c \in Clients, UserActs(c) \/ ClientActs(c) PROVE SysInv'
  <2>1. ClientMoves(c) /\ UNCHANGED serverVars
    BY <1>1, ClientsMove DEF SysInv
  <2> QED
    BY <2>1, ClientKeepsTypes, ClientKeepsFlows DEF SysInv
<1>2. CASE UNCHANGED vars
  <2>1. UNCHANGED serverVars /\ UNCHANGED <<client, link, up, down>>
    BY <1>2 DEF vars, clientVars
  <2>2. clientList' = clientList /\ openFds' = openFds /\ status' = status
    BY <2>1 DEF serverVars
  <2>3. S!IInv'
    BY <2>1, ServerUntouched DEF SysInv, Typed
  <2>4. Typed'
    BY <2>1, <2>2, <2>3 DEF SysInv, Typed, ClientsTyped, StateOK, PipesTyped, Connections,
       LinksOpen, LinksDiffer, LinksLive
  <2> QED
    BY <2>1, <2>2, <2>4 DEF SysInv, LoginFlows
<1> QED
  BY <1>1, <1>2, AcceptsKeeps, ServerReadsKeeps, ServerIdlesKeeps, SecondKeeps DEF Next

\* What the theorems below rest on: types, connections and logins together.
THEOREM SystemInvariant == Spec => []SysInv
BY InitSystem, NextSystem, PTL DEF Spec

\* Every variable of both ends has its type: no server sends a packet its
\* client does not know, no client one the server does not, for any number of
\* clients, users, rooms and connections.
THEOREM SystemTypeCorrect == Spec => []TypeOK
<1>1. SysInv => TypeOK
  <2> SUFFICES ASSUME SysInv PROVE TypeOK
    OBVIOUS
  <2>1. Server!TypeOK
    <3>1. S!TypeOK
      BY DEF SysInv, Typed, S!IInv
    <3> QED
      BY <3>1 DEF S!TypeOK, Server!TypeOK, S!ClientRecord, Server!ClientRecord,
         S!ClientName, Server!ClientName, S!Placeholder, Server!Placeholder,
         S!WaitRecord, Server!WaitRecord, S!WaitType, Server!WaitType, S!AnyName,
         Server!AnyName, S!Faults, Server!Faults
  <2>2. ASSUME NEW c \in Clients
        PROVE  /\ client[c].pc \in {"off", "trying", "running", "ended"}
               /\ client[c].tries \in 0..(MaxTries - 1)
               /\ {client[c].myName, client[c].tryId} \subseteq Names \cup {NoName}
               /\ {client[c].isConnected, client[c].isChat, client[c].asked} \subseteq BOOLEAN
               /\ Len(client[c].waits) <= ClientPool
               /\ \A k \in DOMAIN client[c].waits : client[c].waits[k] \in WaitTypes
    <3>1. client[c] \in Process /\ Len(client[c].waits) <= ClientPool
      BY DEF SysInv, Typed, ClientsTyped, StateOK
    <3> QED
      BY <3>1 DEF Process, Word
  <2>3. ASSUME NEW c \in Clients
        PROVE  /\ link[c] \in openFds \cup {0}
               /\ \A k \in DOMAIN up[c] : up[c][k].type \in UpType
               /\ \A k \in DOMAIN down[c] : down[c][k].type \in DownType
    <3>1. link[c] \in openFds \cup {0} /\ up[c] \in Seq(Upward) /\ down[c] \in Seq(Downward)
      BY DEF SysInv, Typed, Connections, LinksOpen, PipesTyped
    <3>2. /\ \A k \in DOMAIN up[c] : up[c][k] \in Upward
          /\ \A k \in DOMAIN down[c] : down[c][k] \in Downward
      BY <3>1
    <3> QED
      BY <3>1, <3>2 DEF Upward, Downward
  <2> QED
    BY <2>1, <2>2, <2>3 DEF TypeOK
<1> QED
  BY <1>1, SystemInvariant, PTL

\* With nothing in transit both ends agree on whether the client is logged in
\* and under which name, for any number of clients, any names they share, and
\* whatever a myName held at first.
THEOREM LoginsAgree == Spec => []LoginAgrees
<1>1. SysInv => LoginAgrees
  <2> SUFFICES ASSUME SysInv, NEW c \in Clients, Quiet(c)
               PROVE  LET named == Listed(c) /\ Entry(c).name \in Names
                      IN  /\ client[c].isConnected <=> named
                          /\ named => Entry(c).name = client[c].myName
    BY DEF LoginAgrees
  <2>1. client[c].pc = "running" /\ link[c] # 0 /\ down[c] = <<>>
    BY DEF Quiet
  <2>2. Welcomes(down[c]) = {}
    BY <2>1 DEF Welcomes
  <2>3. /\ \A i \in DOMAIN clientList :
              clientList[i].fd = link[c] /\ clientList[i].name \in Names =>
                 client[c].isConnected /\ client[c].myName = clientList[i].name
        /\ (\A i \in DOMAIN clientList :
              clientList[i].fd = link[c] => clientList[i].name \notin Names) =>
                 ~client[c].isConnected
    BY <2>1, <2>2 DEF SysInv, LoginFlows, Told, Untold
  <2>4. \A i, j \in DOMAIN clientList : clientList[i].fd = clientList[j].fd => i = j
    BY DEF SysInv, Typed, S!IInv, S!UniqueClients
  <2>5. CASE Listed(c)
    <3>1. PICK i \in DOMAIN clientList : clientList[i].fd = link[c] /\ Entry(c) = clientList[i]
      BY <2>5 DEF Listed, Entry
    <3>2. \A j \in DOMAIN clientList : clientList[j].fd = link[c] => j = i
      BY <2>4, <3>1
    <3> QED
      BY <2>3, <2>5, <3>1, <3>2
  <2>6. CASE ~Listed(c)
    <3>1. \A i \in DOMAIN clientList : clientList[i].fd # link[c]
      BY <2>6 DEF Listed
    <3> QED
      BY <2>3, <2>6, <3>1
  <2> QED
    BY <2>5, <2>6
<1> QED
  BY <1>1, SystemInvariant, PTL

-----------------------------------------------------------------------------
(* What clients do to the server is what ChatServer lets anybody do.       *)

\* A packet of a client selects a handler that ChatServer runs for anybody.
LEMMA HandledServes ==
    ASSUME Word \subseteq HeaderNames, NEW i \in 1..MaxClients, NEW p \in Upward,
           NEW lost \in S!Losses, Handled(i, p, lost)
    PROVE  S!Serve(i)
<1>1. p.src \in HeaderNames /\ p.dst \in HeaderNames
  BY DEF Upward
<1>2. p.type = "INVITE_REQ" => Forward[p.dst] \in HeaderNames
  BY ChatSystemAssumption DEF Upward, Word
<1>3. p.type = "INVITE_ACK" => p.body \in {"yes", "no"}
  BY DEF Upward
<1>4. /\ (p.src \in Registered) \in BOOLEAN
      /\ (<<p.dst, p.src>> \in Rejected) \in BOOLEAN
  OBVIOUS
<1> DEFINE registered == p.src \in Registered
           rejected == <<p.dst, p.src>> \in Rejected
<1>5. registered \in BOOLEAN /\ rejected \in BOOLEAN
  BY <1>4
<1> HIDE DEF registered, rejected
<1>6. CASE p.type = "CONN_REQ" /\ S!ConnReq(i, p.src, registered, lost)
  BY <1>1, <1>5, <1>6 DEF S!Serve
<1>7. CASE /\ p.type = "INVITE_REQ"
           /\ S!InviteReq(i, p.src, p.dst, rejected, Forward[p.dst], lost)
  BY <1>1, <1>2, <1>5, <1>7 DEF S!Serve
<1>8. CASE p.type = "INVITE_ACK" /\ S!InviteAck(i, p.src, p.dst, p.body, lost)
  BY <1>1, <1>3, <1>8 DEF S!Serve
<1>9. CASE p.type \in S!ServiceReq /\ S!ServiceRequest(i, p.type, p.src, lost)
  BY <1>1, <1>9 DEF S!Serve
<1>10. CASE \E r \in 0..Rooms : S!CreateChatroomReq(i, r, p.src, lost)
  BY <1>1, <1>10 DEF S!Serve
<1>11. CASE \/ S!AllUserReq(i) \/ S!ExitReq(i, lost) \/ S!ExitAck(i)
            \/ S!AlramAck(i) \/ S!PingAck(i)
  BY <1>11 DEF S!Serve
<1>12. CASE \/ S!ExitChatroomReq(i, p.src, lost)
            \/ p.type = "STR_REQ" /\ S!StrReq(i, p.src, lost)
            \/ p.type = "STR_ACK" /\ S!StrAck(i, p.src, p.dst, lost)
  BY <1>1, <1>12 DEF S!Serve
<1> QED
  BY <1>6, <1>7, <1>8, <1>9, <1>10, <1>11, <1>12 DEF Handled, registered, rejected

\* Every step is one of the server's, or none of its business.
LEMMA NextServes ==
    ASSUME Word \subseteq HeaderNames, "LOSS" \in Traffic, SysInv, [Next]_vars
    PROVE  [S!Next]_serverVars
<1>1. S!Losses = SUBSET Fds
  BY DEF S!Losses
<1>2. /\ openFds \subseteq Fds /\ clientList \in Seq(S!ClientRecord)
      /\ Len(clientList) <= MaxClients /\ MaxClients \in Nat
  BY ServerAssumed DEF SysInv, Typed, S!IInv, S!TypeOK, S!ChatServerAssumption
<1>3. ASSUME NEW c \in Clients, UserActs(c) \/ ClientActs(c) PROVE UNCHANGED serverVars
  BY <1>3, ClientsMove DEF SysInv
<1>4. ASSUME NEW c \in Clients, Accepts(c) PROVE S!Next
  BY <1>4, SameActions DEF Accepts, S!Next
<1>5. ASSUME NEW c \in Clients, ServerReads(c) PROVE S!Next
  <2>1. PICK i \in DOMAIN clientList :
           \/ Server!ReadNothing(i)
           \/ /\ up[c] # <<>>
              /\ \E lost \in SUBSET Gone : Handles(i, Head(up[c]), lost)
    BY <1>5 DEF ServerReads
  <2>2. i \in 1..MaxClients
    BY <1>2
  <2>3. CASE Server!ReadNothing(i)
    BY <2>2, <2>3, SameActions DEF S!Serve, S!Next
  <2>4. CASE /\ up[c] # <<>>
             /\ \E lost \in SUBSET Gone : Handles(i, Head(up[c]), lost)
    <3>1. PICK lost \in SUBSET Gone : Handles(i, Head(up[c]), lost)
      BY <2>4
    <3>2. lost \in S!Losses
      BY <1>1, <1>2 DEF SysInv, Typed, Connections, LinksOpen, Gone
    <3>3. Head(up[c]) \in Upward
      BY <2>4 DEF SysInv, Typed, PipesTyped
    <3>4. S!Serve(i)
      BY <2>2, <3>1, <3>2, <3>3, SameHandlers, HandledServes
    <3> QED
      BY <2>2, <3>4 DEF S!Next
  <2> QED
    BY <2>1, <2>3, <2>4
<1>6. ASSUME ServerIdles \/ ServerStops PROVE S!Next
  BY <1>1, <1>6, SameActions DEF ServerIdles, ServerStops, S!Next
<1>7. ASSUME SecondPasses PROVE S!Next
  BY <1>7, SameActions DEF SecondPasses, S!Next
<1>8. CASE UNCHANGED vars
  BY <1>8 DEF vars
<1> QED
  BY <1>3, <1>4, <1>5, <1>6, <1>7, <1>8 DEF Next

\* The server in the company of its clients behaves as ChatServer allows when
\* the packets may hold any name of theirs and writes may fail: what is checked
\* and proved there, of clients that send anything at any time, is about it.
THEOREM ClientsAreServed ==
    ASSUME Word \subseteq HeaderNames, "LOSS" \in Traffic
    PROVE  Spec => S!Init /\ [][S!Next]_serverVars
<1>1. Init => S!Init
  BY SameActions DEF Init
<1>2. SysInv /\ [Next]_vars => [S!Next]_serverVars
  BY NextServes
<1> QED
  BY <1>1, <1>2, SystemInvariant, PTL DEF Spec

\* So the waits of the server stay sorted by age whatever its clients do.
THEOREM SystemQueueStaysSorted ==
    ASSUME Word \subseteq HeaderNames, "LOSS" \in Traffic
    PROVE  Spec => []S!QueueOldestFirst
<1>1. S!Init => S!QueueOldestFirst
  BY DEF S!Init, S!QueueOldestFirst
<1>2. SysInv /\ S!QueueOldestFirst /\ [S!Next]_serverVars => S!QueueOldestFirst'
  <2> SUFFICES ASSUME SysInv, S!QueueOldestFirst, [S!Next]_serverVars
               PROVE  S!QueueOldestFirst'
    OBVIOUS
  <2>1. CASE S!Next
    BY <2>1, ServerAssumed, S!NextSorted DEF SysInv, Typed
  <2>2. CASE UNCHANGED serverVars
    <3>1. MallocQ' = MallocQ
      BY <2>2 DEF serverVars
    <3> QED
      BY <3>1 DEF S!QueueOldestFirst
  <2> QED
    BY <2>1, <2>2
<1> QED
  BY <1>1, <1>2, ClientsAreServed, SystemInvariant, PTL
=============================================================================
