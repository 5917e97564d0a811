------------------------ MODULE ChatSystemWaits_proofs ------------------------
(***************************************************************************)
(* Chat messages and acknowledgements on their way are counted against the *)
(* waits in the server's queue: until a second has passed, and as long as  *)
(* the queue is not full, each has a wait of its own, for every number of  *)
(* clients, rooms and nodes.  Rests on the invariant of ChatSystem_proofs. *)
(***************************************************************************)
EXTENDS ChatSystem_proofs

-----------------------------------------------------------------------------
(* Counting the packets, or waits, of one type in a sequence.              *)

At(s, type) == {k \in DOMAIN s : s[k].type = type}
Many(s, type) == Cardinality(At(s, type))

\* There are finitely many.
LEMMA ManyIsNatural ==
    ASSUME NEW P, NEW s \in Seq(P), NEW type
    PROVE  IsFiniteSet(At(s, type)) /\ Many(s, type) \in Nat
<1>1. At(s, type) \subseteq 1..Len(s) /\ Len(s) \in Nat
  BY DEF At
<1>2. IsFiniteSet(1..Len(s))
  BY <1>1, FS_Interval
<1>3. IsFiniteSet(At(s, type))
  BY <1>1, <1>2, FS_Subset
<1> QED
  BY <1>3, FS_CardinalityType DEF Many

\* A sequence without that type has none.
LEMMA NoneOfType ==
    ASSUME NEW s, NEW type, \A k \in DOMAIN s : s[k].type # type
    PROVE  Many(s, type) = 0
<1>1. At(s, type) = {}
  BY DEF At
<1> QED
  BY <1>1, FS_EmptySet DEF Many

\* Positions moved by n are as many.
LEMMA MovedAreAsMany ==
    ASSUME NEW N \in SUBSET Nat, IsFiniteSet(N), NEW n \in Nat
    PROVE  LET M == {k + n : k \in N}
           IN  IsFiniteSet(M) /\ Cardinality(M) = Cardinality(N)
<1> DEFINE M == {k + n : k \in N}
           f == [k \in N |-> k + n]
<1>1. f \in Bijection(N, M)
  <2>1. f \in [N -> M] /\ \A m \in M : \E k \in N : f[k] = m
    OBVIOUS
  <2>2. \A j, k \in N : f[j] = f[k] => j = k
    OBVIOUS
  <2> QED
    BY <2>1, <2>2 DEF Bijection, Injection, Surjection, IsInjective
<1>2. ExistsBijection(N, M)
  BY <1>1 DEF ExistsBijection
<1> QED
  BY <1>2, FS_Bijection

\* Two sequences together have what both have.
LEMMA ManyTogether ==
    ASSUME NEW P, NEW s \in Seq(P), NEW t \in Seq(P), NEW type
    PROVE  Many(s \o t, type) = Many(s, type) + Many(t, type)
<1> DEFINE n == Len(s)
           M == {k + n : k \in At(t, type)}
<1>1. /\ n \in Nat /\ Len(t) \in Nat /\ DOMAIN s = 1..n /\ DOMAIN t = 1..Len(t)
      /\ s \o t \in Seq(P) /\ DOMAIN (s \o t) = 1..(n + Len(t))
      /\ \A k \in 1..n : (s \o t)[k] = s[k]
      /\ \A k \in 1..Len(t) : (s \o t)[k + n] = t[k]
  OBVIOUS
<1>2. /\ IsFiniteSet(At(s, type)) /\ IsFiniteSet(At(t, type))
      /\ Many(s, type) \in Nat /\ Many(t, type) \in Nat
  BY ManyIsNatural
<1>3. IsFiniteSet(M) /\ Cardinality(M) = Many(t, type)
  <2>1. At(t, type) \in SUBSET Nat
    BY <1>1 DEF At
  <2> QED
    BY <1>1, <1>2, <2>1, MovedAreAsMany DEF Many
<1> HIDE DEF n
<1>4. At(s \o t, type) = At(s, type) \cup M
  <2>1. ASSUME NEW k \in At(s \o t, type) PROVE k \in At(s, type) \cup M
    <3>1. CASE k <= n
      BY <1>1, <2>1, <3>1 DEF At
    <3>2. CASE ~(k <= n)
      <4>1. k - n \in 1..Len(t) /\ (k - n) + n = k
        BY <1>1, <2>1, <3>2 DEF At
      <4>2. k - n \in At(t, type)
        BY <1>1, <2>1, <4>1 DEF At
      <4> QED
        BY <4>1, <4>2
    <3> QED
      BY <3>1, <3>2
  <2>2. ASSUME NEW k \in At(s, type) PROVE k \in At(s \o t, type)
    <3>1. k \in 1..n /\ k \in 1..(n + Len(t))
      BY <1>1, <2>2 DEF At
    <3> QED
      BY <1>1, <2>2, <3>1 DEF At
  <2>3. ASSUME NEW k \in At(t, type) PROVE k + n \in At(s \o t, type)
    <3>1. k \in 1..Len(t) /\ k + n \in 1..(n + Len(t))
      BY <1>1, <2>3 DEF At
    <3> QED
      BY <1>1, <2>3, <3>1 DEF At
  <2> QED
    BY <2>1, <2>2, <2>3
<1>5. At(s, type) \cap M = {}
  <2>1. \A k \in At(s, type) : k <= n
    BY <1>1 DEF At
  <2>2. \A k \in At(t, type) : ~(k + n <= n)
    BY <1>1 DEF At
  <2> QED
    BY <2>1, <2>2
<1> HIDE DEF M
<1>6. Cardinality(At(s, type) \cup M) = Many(s, type) + Many(t, type) - Cardinality({})
  BY <1>2, <1>3, <1>5, FS_Union DEF Many
<1> QED
  BY <1>2, <1>4, <1>6, FS_EmptySet DEF Many

\* Without its head a sequence has one less, or as many.
LEMMA ManyInTail ==
    ASSUME NEW P, NEW s \in Seq(P), s # <<>>, NEW type
    PROVE  Many(s, type) = Many(Tail(s), type) + (IF Head(s).type = type THEN 1 ELSE 0)
<1>1. /\ <<Head(s)>> \in Seq(P) /\ Tail(s) \in Seq(P) /\ s = <<Head(s)>> \o Tail(s)
  OBVIOUS
<1>2. Many(s, type) = Many(<<Head(s)>>, type) + Many(Tail(s), type)
  BY <1>1, ManyTogether
<1>3. Many(<<Head(s)>>, type) = IF Head(s).type = type THEN 1 ELSE 0
  <2>1. CASE Head(s).type = type
    <3>1. At(<<Head(s)>>, type) = {1}
      BY <2>1 DEF At
    <3> QED
      BY <2>1, <3>1, FS_Singleton DEF Many
  <2>2. CASE Head(s).type # type
    <3>1. At(<<Head(s)>>, type) = {}
      BY <2>2 DEF At
    <3> QED
      BY <2>2, <3>1, FS_EmptySet DEF Many
  <2> QED
    BY <2>1, <2>2
<1>4. Many(Tail(s), type) \in Nat
  BY <1>1, ManyIsNatural
<1> QED
  BY <1>2, <1>3, <1>4

-----------------------------------------------------------------------------
(* Counting what is in transit.                                            *)

\* What is in transit, pipe by pipe.
LEMMA InTransitIs ==
    ASSUME NEW pipe, NEW type
    PROVE  \A x : x \in InTransit(pipe, type) <=>
                     \E c \in Clients : \E k \in At(pipe[c], type) : x = <<c, k>>
BY DEF InTransit, At

\* Of pipes no longer than others, and with the same packets, there is no more
\* in transit.
LEMMA NoMoreInTransit ==
    ASSUME NEW pipe, NEW pipe2, NEW type, IsFiniteSet(InTransit(pipe, type)),
           \A c \in Clients : At(pipe2[c], type) \subseteq At(pipe[c], type)
    PROVE  /\ IsFiniteSet(InTransit(pipe2, type))
           /\ Cardinality(InTransit(pipe2, type)) \in Nat
           /\ Cardinality(InTransit(pipe, type)) \in Nat
           /\ Cardinality(InTransit(pipe2, type)) <= Cardinality(InTransit(pipe, type))
<1>1. InTransit(pipe2, type) \subseteq InTransit(pipe, type)
  BY InTransitIs
<1> QED
  BY <1>1, FS_Subset, FS_CardinalityType

\* What one pipe adds to the others.
LEMMA OnePipe ==
    ASSUME NEW P, NEW pipe, NEW c \in Clients, pipe[c] \in Seq(P), NEW type
    PROVE  LET rest == {x \in InTransit(pipe, type) : x[1] # c}
           IN  /\ IsFiniteSet(InTransit(pipe, type)) <=> IsFiniteSet(rest)
               /\ IsFiniteSet(rest) =>
                     /\ Cardinality(rest) \in Nat
                     /\ Cardinality(InTransit(pipe, type)) = Cardinality(rest) + Many(pipe[c], type)
<1> DEFINE all == InTransit(pipe, type)
           rest == {x \in all : x[1] # c}
           here == At(pipe[c], type)
           mine == {<<c, k>> : k \in here}
           f == [k \in here |-> <<c, k>>]
<1>1. IsFiniteSet(here) /\ Many(pipe[c], type) \in Nat
  BY ManyIsNatural
<1>2. f \in Bijection(here, mine)
  <2>1. f \in [here -> mine] /\ \A m \in mine : \E k \in here : f[k] = m
    OBVIOUS
  <2>2. \A j, k \in here : f[j] = f[k] => j = k
    OBVIOUS
  <2> QED
    BY <2>1, <2>2 DEF Bijection, Injection, Surjection, IsInjective
<1>3. IsFiniteSet(mine) /\ Cardinality(mine) = Many(pipe[c], type)
  <2>1. ExistsBijection(here, mine)
    BY <1>2 DEF ExistsBijection
  <2> HIDE DEF here, mine
  <2> QED
    BY <1>1, <2>1, FS_Bijection DEF Many, here
<1>4. all = rest \cup mine
  BY InTransitIs
<1>5. rest \cap mine = {}
  OBVIOUS
<1>6. rest \subseteq all
  OBVIOUS
<1> HIDE DEF all, rest, here, mine
<1>7. IsFiniteSet(all) => IsFiniteSet(rest)
  BY <1>6, FS_Subset
<1>8. ASSUME IsFiniteSet(rest)
      PROVE  /\ IsFiniteSet(all) /\ Cardinality(rest) \in Nat
             /\ Cardinality(all) = Cardinality(rest) + Many(pipe[c], type)
  <2>1. /\ IsFiniteSet(rest \cup mine)
        /\ Cardinality(rest \cup mine) = Cardinality(rest) + Cardinality(mine) - Cardinality({})
    BY <1>3, <1>5, <1>8, FS_Union
  <2>2. Cardinality(rest) \in Nat
    BY <1>8, FS_CardinalityType
  <2> QED
    BY <1>1, <1>3, <1>4, <2>1, <2>2, FS_EmptySet
<1> QED
  BY <1>7, <1>8 DEF all, rest

\* When one pipe changes, so much more or less is in transit.
LEMMA OnePipeChanges ==
    ASSUME NEW P, NEW pipe, NEW pipe2, NEW type, IsFiniteSet(InTransit(pipe, type)),
           NEW c \in Clients, pipe[c] \in Seq(P), pipe2[c] \in Seq(P),
           \A d \in Clients \ {c} : pipe2[d] = pipe[d]
    PROVE  /\ IsFiniteSet(InTransit(pipe2, type))
           /\ Cardinality(InTransit(pipe2, type)) \in Nat
           /\ Cardinality(InTransit(pipe, type)) \in Nat
           /\ Cardinality(InTransit(pipe2, type)) + Many(pipe[c], type)
                = Cardinality(InTransit(pipe, type)) + Many(pipe2[c], type)
<1> DEFINE rest == {x \in InTransit(pipe, type) : x[1] # c}
           rest2 == {x \in InTransit(pipe2, type) : x[1] # c}
<1>1. rest2 = rest
  <2>1. \A x : x \in rest2 <=> \E d \in Clients \ {c} : \E k \in At(pipe2[d], type) : x = <<d, k>>
    BY InTransitIs
  <2>2. \A x : x \in rest <=> \E d \in Clients \ {c} : \E k \in At(pipe[d], type) : x = <<d, k>>
    BY InTransitIs
  <2>3. \A d \in Clients \ {c} : At(pipe2[d], type) = At(pipe[d], type)
    OBVIOUS
  <2> HIDE DEF rest, rest2
  <2> QED
    BY <2>1, <2>2, <2>3
<1>2. /\ IsFiniteSet(rest) /\ Cardinality(rest) \in Nat
      /\ Cardinality(InTransit(pipe, type)) = Cardinality(rest) + Many(pipe[c], type)
  BY OnePipe
<1>3. /\ IsFiniteSet(InTransit(pipe2, type))
      /\ Cardinality(InTransit(pipe2, type)) = Cardinality(rest2) + Many(pipe2[c], type)
  <2>1. IsFiniteSet(rest2)
    BY <1>1, <1>2
  <2> QED
    BY <2>1, OnePipe
<1>4. Many(pipe[c], type) \in Nat /\ Many(pipe2[c], type) \in Nat
  BY ManyIsNatural
<1>5. Cardinality(rest2) = Cardinality(rest)
  BY <1>1
<1> HIDE DEF rest, rest2
<1>6. /\ Cardinality(InTransit(pipe2, type)) = Cardinality(rest) + Many(pipe2[c], type)
      /\ Cardinality(InTransit(pipe2, type)) \in Nat /\ Cardinality(InTransit(pipe, type)) \in Nat
  BY <1>2, <1>3, <1>4, <1>5
<1> QED
  BY <1>2, <1>3, <1>4, <1>6

-----------------------------------------------------------------------------
(* A client writes an acknowledgement of a message only when it reads one. *)

AckFree == {p \in Upward : p.type # "STR_ACK"}
Unacking(send) == send.packets \in Seq(AckFree)
WritesNoAck(c) == \E packets \in Seq(AckFree) : up'[c] = up[c] \o packets

\* A sender of another type writes none.
LEMMA OtherSends ==
    ASSUME NEW self, NEW p, NEW waits, SendOK(Send(self, p, waits)), p.type # "STR_ACK"
    PROVE  Unacking(Send(self, p, waits))
<1>1. CASE self = NoName
  <2>1. Send(self, p, waits).packets = <<>>
    BY <1>1 DEF Send
  <2> QED
    BY <2>1 DEF Unacking
<1>2. CASE self # NoName
  <2>1. Send(self, p, waits).packets = <<p>>
    BY <1>2 DEF Send
  <2>2. <<p>> \in Seq(Upward)
    BY <2>1 DEF SendOK
  <2>3. <<p>>[1] \in Upward
    BY <2>2
  <2>4. p \in AckFree
    BY <2>3 DEF AckFree
  <2>5. <<p>> \in Seq(AckFree)
    BY <2>4
  <2> QED
    BY <2>1, <2>5 DEF Unacking
<1> QED
  BY <1>1, <1>2

\* So are all senders but one.
LEMMA OtherSenders ==
    ASSUME NEW self \in Word
    PROVE  /\ Unacking(Client_Connect_To_Server(self)) /\ Unacking(Client_Sign_Up(self))
           /\ Unacking(Client_Chat_Request(self)) /\ Unacking(Client_Exit_Request(self))
           /\ Unacking(Client_Create_ChatRoom(self))
           /\ \A another \in Names : Unacking(Client_Invite_Client_Request(self, another))
           /\ Unacking(Client_Exit_Chat_Room_Request(self))
           /\ Unacking(Client_Add_Lettering(self)) /\ Unacking(Client_Del_Lettering(self))
           /\ Unacking(Client_Add_Reject_Call(self)) /\ Unacking(Client_Del_Reject_Call(self))
           /\ Unacking(Client_Add_Call_Forwarding(self))
           /\ Unacking(Client_Del_Call_Forwarding(self))
           /\ Unacking(Client_All_Ueser_Request(self))
           /\ Unacking(Client_Ping_Ack(self)) /\ Unacking(Client_Exit_Ack(self))
           /\ Unacking(Client_Alram_Ack(self)) /\ Unacking(Nothing)
           /\ \A another \in Word, answer \in {"yes", "no"} :
                 Unacking(Client_Invite_Client_Ack(self, another, answer))
<1> USE DEF Request, Reply
<1>1. \A type, dst : Packet(type, self, dst).type = type
  BY DEF Packet
<1>2. \A type, dst, ack : type # "STR_ACK" /\ SendOK(Request(type, self, dst, ack))
                            => Unacking(Request(type, self, dst, ack))
  BY <1>1, OtherSends
<1>3. \A type : type # "STR_ACK" /\ SendOK(Reply(type, self)) => Unacking(Reply(type, self))
  BY <1>1, OtherSends
<1> HIDE DEF Request, Reply
<1>4. /\ Unacking(Client_Connect_To_Server(self)) /\ Unacking(Client_Sign_Up(self))
      /\ Unacking(Client_Chat_Request(self)) /\ Unacking(Client_Exit_Request(self))
      /\ Unacking(Client_Create_ChatRoom(self))
      /\ \A another \in Names : Unacking(Client_Invite_Client_Request(self, another))
      /\ Unacking(Client_Exit_Chat_Room_Request(self))
      /\ Unacking(Client_All_Ueser_Request(self))
  BY <1>2, <1>3, RequestsOK DEF Client_Connect_To_Server, Client_Sign_Up,
     Client_Chat_Request, Client_Exit_Request, Client_Create_ChatRoom,
     Client_Invite_Client_Request, Client_Exit_Chat_Room_Request, Client_All_Ueser_Request
<1>5. /\ Unacking(Client_Add_Lettering(self)) /\ Unacking(Client_Del_Lettering(self))
      /\ Unacking(Client_Add_Reject_Call(self)) /\ Unacking(Client_Del_Reject_Call(self))
      /\ Unacking(Client_Add_Call_Forwarding(self))
      /\ Unacking(Client_Del_Call_Forwarding(self))
  BY <1>2, RequestsOK DEF Client_Add_Lettering, Client_Del_Lettering,
     Client_Add_Reject_Call, Client_Del_Reject_Call, Client_Add_Call_Forwarding,
     Client_Del_Call_Forwarding
<1>6. /\ Unacking(Client_Ping_Ack(self)) /\ Unacking(Client_Exit_Ack(self))
      /\ Unacking(Client_Alram_Ack(self))
  BY <1>3, RepliesOK DEF Client_Ping_Ack, Client_Exit_Ack, Client_Alram_Ack
<1>7. Unacking(Nothing)
  BY DEF Unacking, Nothing
<1>8. ASSUME NEW another \in Word, NEW answer \in {"yes", "no"}
      PROVE  Unacking(Client_Invite_Client_Ack(self, another, answer))
  <2>1. [Packet("INVITE_ACK", self, another) EXCEPT !.body = answer].type = "INVITE_ACK"
    BY DEF Packet
  <2>2. SendOK(Client_Invite_Client_Ack(self, another, answer))
    BY RepliesOK
  <2> QED
    BY <2>1, <2>2, OtherSends DEF Client_Invite_Client_Ack
<1> QED
  BY <1>4, <1>5, <1>6, <1>7, <1>8

\* A pass of the loop writes what the sender built, or nothing.
LEMMA StepWrites ==
    ASSUME PipesTyped, NEW c \in Clients, NEW s, NEW send, Step(c, s, send)
    PROVE  /\ up'[c] = up[c] \/ up'[c] = up[c] \o send.packets
           /\ Unacking(send) => WritesNoAck(c)
<1>1. up[c] \in Seq(Upward) /\ up \in [Clients -> Seq(Upward)]
  BY DEF PipesTyped
<1>2. up'[c] = IF link[c] = 0 THEN up[c] ELSE up[c] \o send.packets
  BY <1>1 DEF Step
<1>3. <<>> \in Seq(AckFree) /\ up[c] = up[c] \o <<>>
  BY <1>1
<1> QED
  BY <1>2, <1>3 DEF Unacking, WritesNoAck

\* Lines typed by the user, and the retry of a login.
LEMMA CommandsWriteNoAck ==
    ASSUME Typed, NEW c \in Clients,
           \/ \E name \in Names : SignUp(c, name) \/ Connect(c, name) \/ Invite(c, name)
           \/ Exit(c) \/ Create(c) \/ Leave(c) \/ User(c) \/ Chat(c) \/ TimeOver(c)
           \/ \E command \in Services : Service(c, command)
    PROVE  WritesNoAck(c)
<1> DEFINE me == client[c]
<1>1. PipesTyped /\ me.myName \in Word /\ me.tryId \in Word /\ Names \subseteq Word
  BY ProcessOK DEF Typed, Word
<1>2. ASSUME NEW s, NEW send, Unacking(send), Command(c, s, send) PROVE WritesNoAck(c)
  BY <1>1, <1>2, StepWrites DEF Command
<1>3. ASSUME NEW name \in Names, SignUp(c, name) PROVE WritesNoAck(c)
  <2>1. /\ Unacking(Client_Sign_Up(name)) /\ Unacking(Client_Add_Lettering(name))
        /\ Unacking(Client_Add_Reject_Call(name)) /\ Unacking(Client_Add_Call_Forwarding(name))
    BY <1>1, OtherSenders
  <2>2. \A a, b : Unacking(a) /\ Unacking(b) => Unacking(Then(a, b))
    BY DEF Unacking, Then
  <2>3. Unacking(Then(Then(Client_Sign_Up(name), Client_Add_Lettering(name)),
                      Then(Client_Add_Reject_Call(name), Client_Add_Call_Forwarding(name))))
    BY <2>1, <2>2
  <2> QED
    BY <1>2, <1>3, <2>3 DEF SignUp
<1>4. ASSUME \E name \in Names : Connect(c, name) \/ Invite(c, name) PROVE WritesNoAck(c)
  BY <1>1, <1>2, <1>4, OtherSenders DEF Connect, Invite
<1>5. CASE Exit(c) \/ Create(c) \/ Leave(c) \/ User(c) \/ Chat(c)
  BY <1>1, <1>2, <1>5, OtherSenders DEF Exit, Create, Leave, User, Chat, RoomCommand
<1>6. ASSUME NEW command \in Services, Service(c, command) PROVE WritesNoAck(c)
  BY <1>1, <1>2, <1>6, OtherSenders DEF Service, Services
<1>7. CASE TimeOver(c)
  <2>1. Unacking(Retry(me))
    BY <1>1, OtherSenders DEF Retry
  <2> QED
    BY <1>2, <1>7, <2>1 DEF TimeOver
<1> QED
  BY <1>3, <1>4, <1>5, <1>6, <1>7

\* Packets of the server, but for a chat message.
LEMMA ReadsWriteNoAck ==
    ASSUME Typed, NEW c \in Clients, ClientReads(c), ~ReadChat(c)
    PROVE  WritesNoAck(c)
<1> DEFINE me == client[c]
           p == Head(down[c])
<1>1. PipesTyped /\ me.myName \in Word
  BY ProcessOK DEF Typed
<1>2. ASSUME NEW s, NEW send, Unacking(send), Took(c, s, send) PROVE WritesNoAck(c)
  BY <1>1, <1>2, StepWrites DEF Took
<1>3. Unacking(Nothing)
  BY <1>1, OtherSenders
<1>4. CASE ReadAck(c) \/ ReadExitAck(c) \/ ReadConnAck(c) \/ ReadRoomAck(c)
  BY <1>2, <1>3, <1>4 DEF ReadAck, ReadExitAck, ReadConnAck, ReadRoomAck
<1>5. CASE ReadPing(c) \/ ReadExit(c) \/ ReadAlarm(c)
  BY <1>1, <1>2, <1>5, OtherSenders DEF ReadPing, ReadExit, ReadAlarm
<1>6. ASSUME NEW answer \in {"yes", "no"}, ReadInvite(c, answer) PROVE WritesNoAck(c)
  <2>1. p.type = "INVITE_REQ" /\ down[c] # <<>>
        /\ Took(c, Invited(me, answer), Client_Invite_Client_Ack(p.src, p.dst, answer))
    BY <1>6 DEF ReadInvite, Reads
  <2>2. p \in Downward
    BY <1>1, <2>1 DEF PipesTyped
  <2>3. p.src \in Word /\ p.dst \in Word
    BY <2>1, <2>2 DEF Downward, S!Naming
  <2>4. Unacking(Client_Invite_Client_Ack(p.src, p.dst, answer))
    BY <2>3, OtherSenders
  <2> QED
    BY <1>2, <2>1, <2>4
<1> QED
  BY <1>4, <1>5, <1>6 DEF ClientReads

\* Whatever else a client does.
LEMMA ClientsWriteNoAck ==
    ASSUME Typed, NEW c \in Clients, UserActs(c) \/ ClientActs(c), ~ReadChat(c)
    PROVE  WritesNoAck(c)
<1>1. PipesTyped /\ client[c].myName \in Word /\ LoginNames \subseteq Names
  BY ProcessOK, ChatSystemAssumption DEF Typed
<1>2. up[c] \in Seq(Upward) /\ <<>> \in Seq(AckFree) /\ up[c] = up[c] \o <<>>
  BY <1>1 DEF PipesTyped
<1>3. ASSUME UNCHANGED up PROVE WritesNoAck(c)
  BY <1>2, <1>3 DEF WritesNoAck
<1>4. CASE ClientActs(c)
  BY <1>3, <1>4, ReadsWriteNoAck, CommandsWriteNoAck DEF ClientActs, ConnectFails
<1>5. ASSUME NEW name \in LoginNames, SignUp(c, name) \/ Connect(c, name) \/ Invite(c, name)
      PROVE  WritesNoAck(c)
  BY <1>1, <1>5, CommandsWriteNoAck
<1>6. CASE Killed(c) \/ \E name \in Leftover[c] : Start(c, name)
  BY <1>3, <1>6 DEF Killed, Start
<1>7. CASE Interrupted(c)
  <2>1. Unacking(Client_Exit_Request(client[c].myName))
    BY <1>1, OtherSenders
  <2> QED
    BY <1>1, <1>7, <2>1, StepWrites DEF Interrupted
<1>8. ASSUME \/ Exit(c) \/ Create(c) \/ Leave(c) \/ User(c) \/ Chat(c)
             \/ \E command \in Services : Service(c, command)
      PROVE  WritesNoAck(c)
  BY <1>8, CommandsWriteNoAck
<1>9. CASE UserActs(c)
  BY <1>5, <1>6, <1>7, <1>8, <1>9 DEF UserActs, Does
<1> QED
  BY <1>4, <1>9

\* A client's step takes as many messages as it adds acknowledgements, or more.
LEMMA ClientsAddNothing ==
    ASSUME Typed, NEW c \in Clients, UserActs(c) \/ ClientActs(c)
    PROVE  Many(down'[c], "STR_REQ") + Many(up'[c], "STR_ACK")
              <= Many(down[c], "STR_REQ") + Many(up[c], "STR_ACK")
<1>1. ClientMoves(c)
  BY ClientsMove
<1>2. /\ up[c] \in Seq(Upward) /\ up'[c] \in Seq(Upward)
      /\ down[c] \in Seq(Downward) /\ down'[c] \in Seq(Downward)
  BY <1>1 DEF Typed, PipesTyped, ClientMoves
<1>3. /\ Many(up[c], "STR_ACK") \in Nat /\ Many(up'[c], "STR_ACK") \in Nat
      /\ Many(down[c], "STR_REQ") \in Nat /\ Many(down'[c], "STR_REQ") \in Nat
  BY <1>2, ManyIsNatural
<1>4. CASE ReadChat(c)
  <2> DEFINE p == Head(down[c])
             send == ChatAck(client[c], p)
  <2>1. /\ down[c] # <<>> /\ p.type = "STR_REQ" /\ client[c].pc = "running"
        /\ Took(c, client[c], send)
    BY <1>4 DEF ReadChat, Reads
  <2>2. down'[c] = Tail(down[c]) /\ Step(c, client[c], send)
    BY <1>2, <2>1 DEF Took, Typed, PipesTyped
  <2>3. Many(down[c], "STR_REQ") = Many(down'[c], "STR_REQ") + 1
    BY <1>2, <2>1, <2>2, ManyInTail
  <2>4. p \in Downward /\ client[c].myName \in Word
    BY <1>2, <2>1, ProcessOK
  <2>5. p.src \in Word
    BY <2>1, <2>4 DEF Downward, S!Naming
  <2>6. SendOK(send)
    BY <2>4, <2>5, RepliesOK DEF ChatAck
  <2>7. send.packets \in Seq(Upward) /\ (send.packets = <<>> \/ \E q : send.packets = <<q>>)
    BY <2>6 DEF SendOK, ChatAck, Client_Chat_Ack, Send
  <2>8. Many(send.packets, "STR_ACK") <= 1 /\ Many(send.packets, "STR_ACK") \in Nat
    <3> DEFINE t == send.packets
    <3>1. t \in Seq(Upward) /\ At(t, "STR_ACK") \subseteq {1}
      BY <2>7 DEF At
    <3> HIDE DEF t
    <3>2. IsFiniteSet({1}) /\ Cardinality({1}) = 1
      BY FS_Singleton
    <3> QED
      BY <3>1, <3>2, FS_Subset, FS_CardinalityType, ManyIsNatural DEF Many, t
  <2>9. PipesTyped
    BY DEF Typed
  <2> HIDE DEF send, p
  <2>10. \/ up'[c] = up[c]
         \/ Many(up'[c], "STR_ACK") = Many(up[c], "STR_ACK") + Many(send.packets, "STR_ACK")
    <3>1. up'[c] = up[c] \/ up'[c] = up[c] \o send.packets
      BY <2>2, <2>9, StepWrites
    <3>2. Many(up[c] \o send.packets, "STR_ACK")
            = Many(up[c], "STR_ACK") + Many(send.packets, "STR_ACK")
      BY <1>2, <2>7, ManyTogether
    <3> QED
      BY <3>1, <3>2
  <2> QED
    BY <1>3, <2>3, <2>8, <2>10
<1>5. CASE ~ReadChat(c)
  <2>1. PICK packets \in Seq(AckFree) : up'[c] = up[c] \o packets
    BY <1>5, ClientsWriteNoAck DEF WritesNoAck
  <2>2. packets \in Seq(Upward) /\ \A k \in DOMAIN packets : packets[k].type # "STR_ACK"
    BY <2>1 DEF AckFree
  <2>3. Many(up'[c], "STR_ACK") = Many(up[c], "STR_ACK")
    <3>1. Many(packets, "STR_ACK") = 0
      BY <2>2, NoneOfType
    <3>2. Many(up[c] \o packets, "STR_ACK") = Many(up[c], "STR_ACK") + Many(packets, "STR_ACK")
      BY <1>2, <2>2, ManyTogether
    <3> QED
      BY <1>3, <2>1, <3>1, <3>2
  <2>4. Many(down'[c], "STR_REQ") <= Many(down[c], "STR_REQ")
    <3>1. CASE down'[c] = <<>>
      <4>1. Many(down'[c], "STR_REQ") = 0
        BY <3>1, NoneOfType
      <4> QED
        BY <1>3, <4>1
    <3>2. CASE down[c] # <<>> /\ down'[c] = Tail(down[c])
      BY <1>2, <1>3, <3>2, ManyInTail
    <3> QED
      BY <1>1, <1>3, <3>1, <3>2 DEF ClientMoves, Stops, GoesOn
  <2> QED
    BY <1>3, <2>3, <2>4
<1> QED
  BY <1>4, <1>5

-----------------------------------------------------------------------------
(* The server's queue loses a wait for a message only to an STR_ACK, until *)
(* waits grow old.                                                         *)

NewWait == {w \in S!WaitRecord : w.age = 0}
NewClient == {e \in S!ClientRecord : e.age = 0}
AllNew == MallocQ \in Seq(NewWait) /\ clientList \in Seq(NewClient)
Chats == Many(MallocQ, "STR_ACK")

\* What a push adds, and that it takes nothing.
LEMMA PushKeepsWaits ==
    ASSUME NEW q \in Seq(NewWait), Len(q) <= PoolSize, NEW waits \in Seq(NewWait), NEW type
    PROVE  /\ S!PushAll(q, waits) \in Seq(NewWait)
           /\ Many(S!PushAll(q, waits), type) >= Many(q, type)
           /\ Len(S!PushAll(q, waits)) < PoolSize =>
                 Many(S!PushAll(q, waits), type) = Many(q, type) + Many(waits, type)
<1> DEFINE n == IF Len(q) + Len(waits) < PoolSize THEN Len(q) + Len(waits) ELSE PoolSize
           all == q \o waits
           new == SubSeq(all, 1, n)
<1>1. PoolSize \in Nat /\ Len(q) \in Nat /\ Len(waits) \in Nat
  BY ServerAssumed DEF S!ChatServerAssumption
<1>2. all \in Seq(NewWait) /\ Len(all) = Len(q) + Len(waits) /\ \A k \in 1..Len(q) : all[k] = q[k]
  OBVIOUS
<1>3. n \in Nat /\ n <= Len(all) /\ Len(q) <= n /\ (n < PoolSize => n = Len(all))
  BY <1>1, <1>2
<1>4. Many(all, type) = Many(q, type) + Many(waits, type)
  BY ManyTogether
<1> HIDE DEF all, n
<1>5. /\ new \in Seq(NewWait) /\ Len(new) = n /\ \A k \in 1..n : new[k] = all[k]
  BY <1>2, <1>3
<1>6. Len(new) < PoolSize => new = all
  BY <1>2, <1>3, <1>5
<1> HIDE DEF new
<1>7. At(q, type) \subseteq At(new, type)
  <2>1. ASSUME NEW k \in At(q, type) PROVE k \in At(new, type)
    <3>1. k \in 1..Len(q) /\ k \in 1..n
      BY <1>1, <1>3, <2>1 DEF At
    <3>2. k \in DOMAIN new /\ new[k] = q[k]
      BY <1>2, <1>5, <3>1
    <3> QED
      BY <2>1, <3>2 DEF At
  <2> QED
    BY <2>1
<1>8. IsFiniteSet(At(new, type)) /\ Many(new, type) \in Nat /\ Many(q, type) \in Nat
  BY <1>5, ManyIsNatural
<1>9. Many(new, type) >= Many(q, type)
  BY <1>7, <1>8, FS_Subset DEF Many
<1>10. S!PushAll(q, waits) = new
  BY DEF S!PushAll, new, all, n
<1> QED
  BY <1>4, <1>5, <1>6, <1>9, <1>10

\* Popping on another type takes no wait for a message.
LEMMA PopKeepsWaits ==
    ASSUME MallocQ \in Seq(NewWait), Len(MallocQ) <= PoolSize, NEW type
    PROVE  /\ S!PopOnAck(type) \in Seq(NewWait) /\ Len(S!PopOnAck(type)) <= PoolSize
           /\ Many(S!PopOnAck(type), "STR_ACK") + 1 >= Chats
           /\ type # "STR_ACK" => Many(S!PopOnAck(type), "STR_ACK") = Chats
<1>1. /\ Chats \in Nat /\ PoolSize \in Nat /\ Len(MallocQ) \in Nat
      /\ MallocQ # <<>> => /\ Tail(MallocQ) \in Seq(NewWait) /\ Len(Tail(MallocQ)) <= PoolSize
                           /\ Many(Tail(MallocQ), "STR_ACK") \in Nat
  <2>1. MallocQ # <<>> => Tail(MallocQ) \in Seq(NewWait) /\ Len(Tail(MallocQ)) = Len(MallocQ) - 1
    OBVIOUS
  <2>2. PoolSize \in Nat /\ Len(MallocQ) \in Nat
    BY ServerAssumed DEF S!ChatServerAssumption
  <2>3. Chats \in Nat
    BY ManyIsNatural DEF Chats
  <2>4. MallocQ # <<>> => Many(Tail(MallocQ), "STR_ACK") \in Nat
    BY <2>1, ManyIsNatural
  <2>5. MallocQ # <<>> => Len(Tail(MallocQ)) <= PoolSize
    BY <2>1, <2>2
  <2> QED
    BY <2>1, <2>2, <2>3, <2>4, <2>5
<1>2. CASE S!PopOnAck(type) = MallocQ
  BY <1>1, <1>2 DEF Chats
<1>3. CASE MallocQ # <<>> /\ Head(MallocQ).type = type /\ S!PopOnAck(type) = Tail(MallocQ)
  <2>1. Chats = Many(Tail(MallocQ), "STR_ACK") + (IF type = "STR_ACK" THEN 1 ELSE 0)
    BY <1>3, ManyInTail DEF Chats
  <2> QED
    BY <1>1, <1>3, <2>1
<1> QED
  BY <1>2, <1>3 DEF S!PopOnAck

\* The waits of a handler are new, and finitely many.
LEMMA WaitsAreNew ==
    ASSUME S!IInv
    PROVE  /\ <<>> \in Seq(NewWait)
           /\ \A name \in S!AnyName, type \in S!WaitType : <<S!Wait(name, type)>> \in Seq(NewWait)
           /\ \A r \in 0..Rooms : \A fd, lost :
                 S!AlarmWaits(r, fd, lost) \in Seq(NewWait)
           /\ \A r \in 0..Rooms, src \in S!AnyName : \A fd, lost :
                 S!Copies(S!Cardinality(S!Reached(r, fd, lost)), S!Wait(src, "STR_ACK"))
                    \in Seq(NewWait)
<1>1. ASSUME NEW name \in S!AnyName \cup {ServerName}, NEW type \in S!WaitType
      PROVE  S!Wait(name, type) \in NewWait
  <2>1. S!Wait(name, type) \in S!WaitRecord
    BY ServerAssumed, S!WaitTypeOK
  <2> QED
    BY <2>1 DEF NewWait, S!Wait
<1>2. \A r \in 0..Rooms : chatRoomList[r] \in Seq(Fds)
  BY DEF S!IInv, S!TypeOK
<1>3. ASSUME NEW r \in 0..Rooms, NEW fd, NEW lost, NEW wait \in NewWait
      PROVE  S!Copies(S!Cardinality(S!Reached(r, fd, lost)), wait) \in Seq(NewWait)
  BY <1>2, ServerAssumed, S!CopiesType
<1>4. "STR_ACK" \in S!WaitType /\ "ALRAM_ACK" \in S!WaitType
  BY DEF S!WaitType
<1>5. ASSUME NEW r \in 0..Rooms, NEW fd, NEW lost PROVE S!AlarmWaits(r, fd, lost) \in Seq(NewWait)
  BY <1>1, <1>3, <1>4 DEF S!AlarmWaits
<1> QED
  BY <1>1, <1>3, <1>4, <1>5

\* What a handler other than that of STR_ACK does to the queue.
LEMMA QueueKeepsWaits ==
    ASSUME S!IInv, MallocQ \in Seq(NewWait), NEW waits \in Seq(NewWait), NEW type,
           type # "STR_ACK",
           \/ UNCHANGED MallocQ
           \/ MallocQ' = S!PopOnAck(type)
           \/ MallocQ' = S!PushAll(MallocQ, waits)
           \/ MallocQ' = S!PushAll(S!PopOnAck(type), waits)
    PROVE  MallocQ' \in Seq(NewWait) /\ Chats' >= Chats
<1>1. Len(MallocQ) <= PoolSize
  BY DEF S!IInv, S!TypeOK
<1> DEFINE popped == S!PopOnAck(type)
<1>2. popped \in Seq(NewWait) /\ Len(popped) <= PoolSize /\ Many(popped, "STR_ACK") = Chats
  BY <1>1, PopKeepsWaits
<1> HIDE DEF popped
<1>3. /\ S!PushAll(MallocQ, waits) \in Seq(NewWait)
      /\ Many(S!PushAll(MallocQ, waits), "STR_ACK") >= Chats
  BY <1>1, PushKeepsWaits DEF Chats
<1>4. /\ S!PushAll(popped, waits) \in Seq(NewWait)
      /\ Many(S!PushAll(popped, waits), "STR_ACK") >= Many(popped, "STR_ACK")
  BY <1>2, PushKeepsWaits
<1>5. Chats \in Nat
  BY ManyIsNatural DEF Chats
<1>6. Chats' = Many(MallocQ', "STR_ACK")
  BY DEF Chats, Many, At
<1>7. \/ MallocQ' = MallocQ \/ MallocQ' = popped \/ MallocQ' = S!PushAll(MallocQ, waits)
      \/ MallocQ' = S!PushAll(popped, waits)
  BY DEF popped
<1>8. Many(MallocQ, "STR_ACK") = Chats
  BY DEF Chats
<1> QED
  BY <1>2, <1>3, <1>4, <1>5, <1>6, <1>7, <1>8

NoMessage == \A q \in out'.sent : q.type # "STR_REQ"
\* No message is among the packets of a handler whose names matter to nobody.
LEMMA FewerMessages ==
    ASSUME S!Sends({})
    PROVE  NoMessage
<1>1. \A q \in S!Letters({}) : q.type # "STR_REQ"
  BY DEF S!Letters, S!Naming
<1> QED
  BY <1>1 DEF S!Sends, NoMessage

Harmless ==
    /\ MallocQ' \in Seq(NewWait) /\ Chats' >= Chats
    /\ NoMessage /\ status' # "NULL queue head"
\* The handlers of STR_ACK and STR_REQ apart, a handler takes no wait for a
\* message and writes none.
LEMMA HandledHarmless ==
    ASSUME S!IInv, MallocQ \in Seq(NewWait), NEW i, NEW p \in Upward, NEW lost,
           Handled(i, p, lost)
    PROVE  \/ Harmless
           \/ p.type = "STR_REQ" /\ S!StrReq(i, p.src, lost)
           \/ p.type = "STR_ACK" /\ S!StrAck(i, p.src, p.dst, lost)
<1>1. p.src \in Word /\ p.dst \in Word /\ p.body \in S!Body /\ (p.type = "INVITE_REQ" => p.dst \in Names)
  BY DEF Upward
<1>2. p.src \in S!AnyName /\ p.dst \in S!AnyName /\ NoName \in Word /\ NoName \in S!AnyName
  BY <1>1, WordsAreNames
<1>3. ASSUME NEW waits \in Seq(NewWait), NEW type \in {"INVITE_ACK", "ALRAM_ACK"}, NoMessage,
             status' # "NULL queue head",
             \/ UNCHANGED MallocQ \/ MallocQ' = S!PopOnAck(type)
             \/ MallocQ' = S!PushAll(MallocQ, waits)
             \/ MallocQ' = S!PushAll(S!PopOnAck(type), waits)
      PROVE  Harmless
  BY <1>3, QueueKeepsWaits DEF Harmless
<1>4. \A r \in 0..Rooms : \A fd, lost2 : S!AlarmWaits(r, fd, lost2) \in Seq(NewWait)
  BY WaitsAreNew
<1>5. <<>> \in Seq(NewWait)
  OBVIOUS
<1>6. ASSUME NoMessage, status' # "NULL queue head",
             \/ UNCHANGED MallocQ \/ MallocQ' = S!PopOnAck("INVITE_ACK")
             \/ MallocQ' = S!PopOnAck("ALRAM_ACK")
      PROVE  Harmless
  BY <1>3, <1>5, <1>6
<1>7. CASE p.type = "CONN_REQ" /\ S!ConnReq(i, p.src, p.src \in Registered, lost)
  <2>1. NoMessage
    BY <1>7 DEF NoMessage, S!ConnReq, S!Outcome, S!Server_Ack_To_Client, S!ToNamed, S!Packet
  <2> QED
    BY <1>6, <1>7, <2>1 DEF S!ConnReq, S!Reads, S!Running
<1>8. CASE p.type \in S!ServiceReq /\ S!ServiceRequest(i, p.type, p.src, lost)
  <2>1. S!Sends({})
    BY <1>2, <1>8, ServerAssumed, S!RequestSends
  <2> QED
    BY <1>6, <1>8, <2>1, FewerMessages DEF S!ServiceRequest, S!OnlyRefreshed, S!Reads, S!Running
<1>9. CASE S!AllUserReq(i) \/ S!ExitAck(i) \/ S!AlramAck(i)
  <2>1. S!Silent
    BY <1>9 DEF S!AllUserReq, S!ExitAck, S!AlramAck, S!Crash
  <2>2. NoMessage
    BY <2>1 DEF NoMessage, S!Silent
  <2> QED
    BY <1>6, <1>9, <2>2 DEF S!AllUserReq, S!ExitAck, S!AlramAck, S!Crash, S!OnlyRefreshed,
       S!Reads, S!Running
<1>10. CASE S!PingAck(i)
  <2>1. NoMessage
    BY <1>10 DEF S!PingAck, NoMessage, S!Silent
  <2>2. status' # "NULL queue head"
    BY <1>10 DEF S!PingAck, S!Reads, S!Running
  <2>3. UNCHANGED MallocQ \/ (MallocQ # <<>> /\ Head(MallocQ).type = "PING_ACK" /\ MallocQ' = Tail(MallocQ))
    BY <1>10 DEF S!PingAck
  <2>4. UNCHANGED MallocQ \/ MallocQ' = S!PopOnAck("PING_ACK")
    BY <2>3 DEF S!PopOnAck
  <2> QED
    BY <1>5, <2>1, <2>2, <2>4, QueueKeepsWaits DEF Harmless
<1>11. CASE S!ExitReq(i, lost)
  <2> DEFINE r == clientList[i].chatRoom
             waits == S!AlarmWaits(r, clientList[i].fd, lost)
  <2>1. UNCHANGED MallocQ \/ MallocQ' = S!PushAll(MallocQ, waits)
    BY <1>11 DEF S!ExitReq
  <2>2. r \in 0..Rooms
    BY <1>11, ServerAssumed, S!SlotType DEF S!ExitReq, S!Reads
  <2>3. S!Sends({}) /\ status' # "NULL queue head"
    BY <1>11, ServerAssumed, S!ExitReqSends DEF S!ExitReq, S!Reads, S!Running
  <2>4. waits \in Seq(NewWait)
    BY <1>4, <2>2
  <2> HIDE DEF waits
  <2> QED
    BY <1>3, <2>1, <2>3, <2>4, FewerMessages
<1>12. ASSUME NEW r \in 0..Rooms, S!CreateChatroomReq(i, r, p.src, lost) PROVE Harmless
  <2>1. S!Sends({})
    BY <1>2, <1>12, ServerAssumed, S!RequestSends
  <2>2. UNCHANGED MallocQ /\ status' # "NULL queue head"
    BY <1>12 DEF S!CreateChatroomReq, S!Crash, S!JoinFault, S!Reads, S!Running
  <2> QED
    BY <1>6, <2>1, <2>2, FewerMessages
<1>13. CASE S!ExitChatroomReq(i, p.src, lost)
  <2> DEFINE r == clientList[i].chatRoom
             waits == S!AlarmWaits(r, clientList[i].fd, lost)
  <2>1. MallocQ' = S!PushAll(MallocQ, waits)
    BY <1>13 DEF S!ExitChatroomReq
  <2>2. r \in 0..Rooms
    BY <1>13, ServerAssumed, S!SlotType DEF S!ExitChatroomReq, S!Reads
  <2>3. S!Sends({}) /\ status' # "NULL queue head"
    <3>1. S!Sends({})
      BY <1>2, <1>13, ServerAssumed, S!ExitChatroomReqSends
    <3> QED
      BY <1>13, <3>1 DEF S!ExitChatroomReq, S!Reads, S!Running
  <2>4. waits \in Seq(NewWait)
    BY <1>4, <2>2
  <2> HIDE DEF waits
  <2> QED
    BY <1>3, <2>1, <2>3, <2>4, FewerMessages
<1>14. CASE /\ p.type = "INVITE_REQ"
            /\ S!InviteReq(i, p.src, p.dst, <<p.dst, p.src>> \in Rejected, Forward[p.dst], lost)
  <2>1. Forward[p.dst] \in Word /\ Forward[p.dst] \in S!AnyName
    BY <1>1, <1>14, ChatSystemAssumption, WordsAreNames DEF Word
  <2>2. \A q \in out'.sent : q.type \in {"INVITE_ACK", "INVITE_REQ"}
    BY <1>1, <1>2, <1>14, <2>1, ServerAssumed, S!InviteReqSends
  <2>3. NoMessage
    BY <2>2 DEF NoMessage
  <2>4. status' # "NULL queue head"
    BY <1>14 DEF S!InviteReq, S!OnlyRefreshed, S!Reads, S!Running
  <2>5. UNCHANGED MallocQ \/ \E callee \in {p.dst, Forward[p.dst]} :
            MallocQ' = S!PushAll(MallocQ, <<S!Wait(callee, "INVITE_ACK")>>)
    BY <1>14 DEF S!InviteReq
  <2>6. ASSUME NEW callee \in {p.dst, Forward[p.dst]} 
        PROVE  <<S!Wait(callee, "INVITE_ACK")>> \in Seq(NewWait)
    BY <1>2, <2>1, WaitsAreNew DEF S!WaitType
  <2> QED
    BY <1>3, <1>6, <2>3, <2>4, <2>5, <2>6
<1>15. CASE p.type = "INVITE_ACK" /\ S!InviteAck(i, p.src, p.dst, p.body, lost)
  <2> DEFINE s == S!Server_Search_Client(p.src)
             r == clientList[s].chatRoom
             waits == S!AlarmWaits(r, clientList[i].fd, lost)
  <2>1. S!Sends({})
    BY <1>1, <1>2, <1>15, ServerAssumed, S!InviteAckSends
  <2>2. \/ UNCHANGED MallocQ \/ MallocQ' = S!PopOnAck("INVITE_ACK")
        \/ s # 0 /\ MallocQ' = S!PushAll(S!PopOnAck("INVITE_ACK"), waits)
    BY <1>15 DEF S!InviteAck, S!Crash
  <2>3. status' # "NULL queue head"
    BY <1>15 DEF S!InviteAck, S!Crash, S!JoinFault, S!OnlyRefreshed, S!Reads, S!Running
  <2>4. s # 0 => s \in DOMAIN clientList
    BY ServerAssumed, S!SearchFinds DEF S!IInv, S!TypeOK
  <2> HIDE DEF s
  <2>5. s # 0 => waits \in Seq(NewWait)
    BY <1>4, <2>4, ServerAssumed, S!SlotType
  <2> HIDE DEF waits
  <2> QED
    BY <1>3, <1>6, <2>1, <2>2, <2>3, <2>5, FewerMessages
<1>16. CASE \E r \in 0..Rooms : S!CreateChatroomReq(i, r, p.src, lost)
  BY <1>12, <1>16
<1> QED
  BY <1>7, <1>8, <1>9, <1>10, <1>11, <1>13, <1>14, <1>15, <1>16 DEF Handled

\* STR_ACK takes one wait for a message at most, and finds the queue not empty
\* if there was one.
LEMMA StrAckTakesOne ==
    ASSUME S!IInv, MallocQ \in Seq(NewWait), NEW i, NEW p \in Upward, NEW lost,
           S!StrAck(i, p.src, p.dst, lost)
    PROVE  /\ NoMessage
           /\ Chats > 0 => /\ MallocQ' \in Seq(NewWait) /\ Chats' + 1 >= Chats
                           /\ status' # "NULL queue head"
<1>1. p.src \in S!AnyName /\ p.dst \in S!AnyName
  <2>1. p.src \in Word /\ p.dst \in Word
    BY DEF Upward
  <2> QED
    BY <2>1, WordsAreNames
<1>2. NoMessage
  BY <1>1, ServerAssumed, S!StrAckSends, FewerMessages
<1>3. Len(MallocQ) <= PoolSize
  BY DEF S!IInv, S!TypeOK
<1>4. Chats' = Many(MallocQ', "STR_ACK") /\ Chats = Many(MallocQ, "STR_ACK") /\ Chats \in Nat
  BY ManyIsNatural DEF Chats, Many, At
<1>5. ASSUME Chats > 0
      PROVE  /\ MallocQ' \in Seq(NewWait) /\ Chats' + 1 >= Chats
             /\ status' # "NULL queue head"
  <2>1. MallocQ # <<>>
    <3>1. CASE MallocQ = <<>>
      <4>1. Many(MallocQ, "STR_ACK") = 0
        BY <3>1, NoneOfType
      <4> QED
        BY <1>4, <1>5, <4>1
    <3> QED
      BY <3>1
  <2>2. \/ UNCHANGED MallocQ /\ status' = "clientList[-1]"
        \/ MallocQ' = S!PopOnAck("STR_ACK") /\ status' = status /\ status = "running"
    BY <2>1 DEF S!StrAck, S!Crash, S!Reads, S!Running
  <2>3. S!PopOnAck("STR_ACK") \in Seq(NewWait) /\ Many(S!PopOnAck("STR_ACK"), "STR_ACK") + 1 >= Chats
    BY <1>3, PopKeepsWaits
  <2>4. CASE UNCHANGED MallocQ /\ status' = "clientList[-1]"
    <3>1. Chats' = Chats
      BY <1>4, <2>4
    <3> QED
      BY <1>4, <2>4, <3>1
  <2>5. CASE MallocQ' = S!PopOnAck("STR_ACK") /\ status' = status /\ status = "running"
    BY <1>4, <2>3, <2>5
  <2> QED
    BY <2>2, <2>4, <2>5
<1> QED
  BY <1>2, <1>5

\* Copies of one wait are as many as there are.
LEMMA CopiesAreMany ==
    ASSUME NEW n \in Nat, NEW wait
    PROVE  Many(S!Copies(n, wait), wait.type) = n
<1>1. S!Copies(n, wait) = [k \in 1..n |-> wait]
  BY DEF S!Copies
<1>2. At(S!Copies(n, wait), wait.type) = 1..n
  BY <1>1 DEF At
<1>3. Cardinality(1..n) = n
  BY FS_Interval
<1> QED
  BY <1>2, <1>3 DEF Many

\* The members a message reaches are finitely many, however they are counted.
LEMMA ReachedAreFinite ==
    ASSUME S!IInv, NEW r \in 0..Rooms, NEW fd, NEW lost
    PROVE  /\ IsFiniteSet(S!Reached(r, fd, lost))
           /\ Cardinality(S!Reached(r, fd, lost)) \in Nat
           /\ S!Cardinality(S!Reached(r, fd, lost)) = Cardinality(S!Reached(r, fd, lost))
<1>1. chatRoomList[r] \in Seq(Fds)
  BY DEF S!IInv, S!TypeOK
<1>2. S!Reached(r, fd, lost) \subseteq 1..Len(chatRoomList[r]) /\ Len(chatRoomList[r]) \in Nat
  BY <1>1 DEF S!Reached, S!Others
<1>3. IsFiniteSet(1..Len(chatRoomList[r]))
  BY <1>2, FS_Interval
<1> QED
  BY <1>2, <1>3, FS_Subset, FS_CardinalityType DEF S!Cardinality, Cardinality

\* STR_REQ pushes a wait for every member it reaches, unless the pool is empty.
LEMMA StrReqWaits ==
    ASSUME S!IInv, MallocQ \in Seq(NewWait), NEW i, NEW p \in Upward, NEW lost,
           S!StrReq(i, p.src, lost), Len(MallocQ') < PoolSize
    PROVE  LET r == clientList[i].chatRoom
               fd == clientList[i].fd
           IN  /\ i \in DOMAIN clientList /\ status' # "NULL queue head"
               /\ MallocQ' \in Seq(NewWait)
               /\ \/ NoMessage /\ Chats' = Chats
                  \/ /\ Chats' = Chats + Cardinality(S!Reached(r, fd, lost))
                     /\ out' = S!Outcome({S!Server_Chat_Request(chatRoomList[r][j], p.src) :
                                             j \in S!Others(r, fd)}, lost)
<1> DEFINE r == clientList[i].chatRoom
           fd == clientList[i].fd
           n == Cardinality(S!Reached(r, fd, lost))
           wait == S!Wait(p.src, "STR_ACK")
           waits == S!Copies(n, wait)
<1>1. i \in DOMAIN clientList /\ status' # "NULL queue head"
  BY DEF S!StrReq, S!Reads, S!Running, S!OnlyRefreshed
<1>2. r \in 0..Rooms /\ fd \in Fds
  BY <1>1, ServerAssumed, S!SlotType
<1>3. p.src \in S!AnyName
  <2>1. p.src \in Word
    BY DEF Upward
  <2> QED
    BY <2>1, WordsAreNames
<1>4. /\ n \in Nat /\ waits \in Seq(NewWait)
      /\ S!Cardinality(S!Reached(r, fd, lost)) = n
  <2> HIDE DEF r, fd
  <2>1. n \in Nat /\ S!Cardinality(S!Reached(r, fd, lost)) = n
    BY <1>2, ReachedAreFinite
  <2>2. S!Copies(S!Cardinality(S!Reached(r, fd, lost)), wait) \in Seq(NewWait)
    BY <1>2, <1>3, WaitsAreNew
  <2> QED
    BY <2>1, <2>2
<1>5. Chats' = Many(MallocQ', "STR_ACK") /\ Chats = Many(MallocQ, "STR_ACK") /\ Chats \in Nat
  BY ManyIsNatural DEF Chats, Many, At
<1>6. \/ UNCHANGED MallocQ /\ S!Silent
      \/ /\ MallocQ' = S!PushAll(MallocQ, waits)
         /\ out' = S!Outcome({S!Server_Chat_Request(chatRoomList[r][j], p.src) :
                                 j \in S!Others(r, fd)}, lost)
  BY <1>4 DEF S!StrReq
<1>7. CASE UNCHANGED MallocQ /\ S!Silent
  <2>1. NoMessage
    BY <1>7 DEF NoMessage, S!Silent
  <2> QED
    BY <1>1, <1>5, <1>7, <2>1
<1>8. CASE MallocQ' = S!PushAll(MallocQ, waits)
  <2>1. Many(waits, "STR_ACK") = n
    <3>1. wait.type = "STR_ACK"
      BY DEF S!Wait
    <3> HIDE DEF wait, n
    <3> QED
      BY <1>4, <3>1, CopiesAreMany
  <2>2. Len(MallocQ) <= PoolSize
    BY DEF S!IInv, S!TypeOK
  <2> HIDE DEF waits, n
  <2>3. /\ S!PushAll(MallocQ, waits) \in Seq(NewWait)
        /\ Len(S!PushAll(MallocQ, waits)) < PoolSize =>
              Many(S!PushAll(MallocQ, waits), "STR_ACK")
                 = Many(MallocQ, "STR_ACK") + Many(waits, "STR_ACK")
    BY <1>4, <2>2, PushKeepsWaits
  <2>4. MallocQ' \in Seq(NewWait) /\ Chats' = Chats + n
    BY <1>5, <1>8, <2>1, <2>3
  <2>5. NoMessage \/ out' = S!Outcome({S!Server_Chat_Request(chatRoomList[r][j], p.src) :
                                          j \in S!Others(r, fd)}, lost)
    BY <1>6 DEF NoMessage, S!Silent
  <2>6. CASE NoMessage /\ UNCHANGED MallocQ
    BY <1>1, <1>5, <2>4, <2>6
  <2>7. CASE out' = S!Outcome({S!Server_Chat_Request(chatRoomList[r][j], p.src) :
                                  j \in S!Others(r, fd)}, lost)
    BY <1>1, <2>4, <2>7 DEF n
  <2> QED
    BY <1>6, <1>7, <2>6, <2>7
<1> QED
  BY <1>6, <1>7, <1>8

\* Until a second has passed every client of the list was heard of in it.
LEMMA ListStaysNew ==
    ASSUME S!IInv, S!IInv', clientList \in Seq(NewClient), NEW i \in DOMAIN clientList,
           NEW p, NEW lost, Handled(i, p, lost)
    PROVE  clientList' \in Seq(NewClient)
<1>1. clientList \in Seq(S!ClientRecord) /\ clientList' \in Seq(S!ClientRecord) /\ S!UniqueClients
  BY DEF S!IInv, S!TypeOK
<1>2. ASSUME \A k \in DOMAIN clientList' : clientList'[k].age = 0
      PROVE  clientList' \in Seq(NewClient)
  <2>1. \A k \in DOMAIN clientList' : clientList'[k] \in NewClient
    BY <1>1, <1>2 DEF NewClient
  <2> QED
    BY <1>1, <2>1
<1> DEFINE old == S!Refreshed(i)
<1>3. /\ DOMAIN old = DOMAIN clientList
      /\ \A k \in DOMAIN old : old[k] \in S!ClientRecord /\ old[k].age = 0
  <2>1. old \in Seq(S!ClientRecord) /\ DOMAIN old = DOMAIN clientList
    BY <1>1, ServerAssumed, S!RefreshedType
  <2>2. \A k \in DOMAIN clientList : clientList[k] \in S!ClientRecord /\ clientList[k].age = 0
    BY DEF NewClient
  <2>3. ASSUME NEW k \in DOMAIN clientList PROVE old[k].age = 0
    BY <2>2 DEF S!Refreshed, S!ClientRecord
  <2> HIDE DEF old
  <2> QED
    BY <2>1, <2>3
<1> HIDE DEF old
<1>4. CASE clientList' = clientList
  BY <1>4
<1>5. CASE clientList' = old
  BY <1>2, <1>3, <1>5
<1>6. CASE \E d \in DOMAIN clientList : \E r : clientList' = [old EXCEPT ![d].chatRoom = r]
  <2>1. PICK d \in DOMAIN clientList : \E r : clientList' = [old EXCEPT ![d].chatRoom = r]
    BY <1>6
  <2>2. PICK r : clientList' = [old EXCEPT ![d].chatRoom = r]
    BY <2>1
  <2>3. ASSUME NEW k \in DOMAIN old PROVE clientList'[k].age = 0
    <3>1. [old[k] EXCEPT !.chatRoom = r].age = 0
      BY <1>3 DEF S!ClientRecord
    <3> QED
      BY <1>3, <2>2, <3>1
  <2>4. DOMAIN clientList' = DOMAIN old
    BY <2>2
  <2> QED
    BY <1>2, <2>3, <2>4
<1>7. CASE \E name : clientList' = [old EXCEPT ![i].name = name]
  <2>1. PICK name : clientList' = [old EXCEPT ![i].name = name]
    BY <1>7
  <2>2. ASSUME NEW k \in DOMAIN old PROVE clientList'[k].age = 0
    <3>1. [old[k] EXCEPT !.name = name].age = 0
      BY <1>3 DEF S!ClientRecord
    <3> QED
      BY <1>3, <2>1, <3>1
  <2>3. DOMAIN clientList' = DOMAIN old
    BY <2>1
  <2> QED
    BY <1>2, <2>2, <2>3
<1>8. CASE clientList' = S!WithoutClient(clientList, i)
  BY <1>8, ServerAssumed, S!WithoutClientShifts
<1>9. S!Server_Search_Client(clientList[i].name) = i
  BY <1>1, ServerAssumed, S!SearchOwnName
<1>10. CASE p.type = "CONN_REQ" /\ S!ConnReq(i, p.src, p.src \in Registered, lost)
  BY <1>5, <1>7, <1>10 DEF S!ConnReq, old
<1>11. CASE S!ExitReq(i, lost) \/ S!ExitAck(i)
  BY <1>8, <1>9, <1>11 DEF S!ExitReq, S!ExitAck, S!Server_Del_Client_List
<1>12. CASE \/ S!ServiceRequest(i, p.type, p.src, lost) \/ S!AllUserReq(i)
            \/ S!AlramAck(i) \/ S!PingAck(i)
            \/ S!InviteReq(i, p.src, p.dst, <<p.dst, p.src>> \in Rejected, Forward[p.dst], lost)
            \/ S!StrReq(i, p.src, lost) \/ S!StrAck(i, p.src, p.dst, lost)
  BY <1>4, <1>5, <1>12 DEF S!ServiceRequest, S!AllUserReq, S!AlramAck, S!PingAck,
     S!InviteReq, S!StrReq, S!StrAck, S!OnlyRefreshed, S!Crash, old
<1>13. CASE (\E r \in 0..Rooms : S!CreateChatroomReq(i, r, p.src, lost))
            \/ S!ExitChatroomReq(i, p.src, lost)
  BY <1>4, <1>6, <1>13 DEF S!CreateChatroomReq, S!ExitChatroomReq, S!Crash, old
<1>14. CASE p.type = "INVITE_ACK" /\ S!InviteAck(i, p.src, p.dst, p.body, lost)
  <2>1. S!Server_Search_Client(p.dst) # 0 => S!Server_Search_Client(p.dst) \in DOMAIN clientList
    BY <1>1, ServerAssumed, S!SearchFinds
  <2> QED
    BY <1>4, <1>5, <1>6, <1>14, <2>1 DEF S!InviteAck, S!OnlyRefreshed, S!Crash, old
<1> QED
  BY <1>10, <1>11, <1>12, <1>13, <1>14 DEF Handled

-----------------------------------------------------------------------------
(* What the server puts on its connections.                                *)

\* One sequence is flattened to itself.
LEMMA OneFlattened ==
    ASSUME NEW s
    PROVE  FlattenSeq(<<s>>) = s
<1> DEFINE seqs == <<s>>
           f == CHOOSE f : Flattens(f, seqs, 1)
<1>1. Len(seqs) = 1 /\ seqs[1] = s
  OBVIOUS
<1>2. Flattens(f, seqs, 1)
  BY FlattensAll
<1> HIDE DEF seqs
<1>3. FlattenSeq(seqs) = f[1]
  BY <1>1 DEF FlattenSeq, Flattens
<1> HIDE DEF f
<1>4. 1 \in 1..1 /\ f[1] = seqs[1]
  BY <1>2 DEF Flattens
<1> QED
  BY <1>1, <1>3, <1>4 DEF seqs

Cells(r, to) == {j \in DOMAIN chatRoomList[r] : chatRoomList[r][j] = to}
SentTo(to) == {p \in out'.sent : p.fd = to}

\* The cells of a room that hold a descriptor are finitely many.
LEMMA CellsAreFinite ==
    ASSUME NEW r, chatRoomList[r] \in Seq(Fds), NEW to
    PROVE  IsFiniteSet(Cells(r, to)) /\ Cardinality(Cells(r, to)) \in Nat
<1>1. Cells(r, to) \subseteq 1..Len(chatRoomList[r]) /\ Len(chatRoomList[r]) \in Nat
  BY DEF Cells
<1>2. IsFiniteSet(1..Len(chatRoomList[r]))
  BY <1>1, FS_Interval
<1> QED
  BY <1>1, <1>2, FS_Subset, FS_CardinalityType

\* The one packet of a room to a descriptor is written once for each of its
\* cells in the room.
LEMMA WrittenOnce ==
    ASSUME NEW to, NEW r, chatRoomList[r] \in Seq(Fds),
           NEW q, SentTo(to) = {q}, q.type \in OverRoom
    PROVE  Written(to, r) = [k \in 1..Cardinality(Cells(r, to)) |-> Copied(q)]
<1> DEFINE mine == {p \in out'.sent : p.fd = to}
           cells == Cardinality({j \in DOMAIN chatRoomList[r] : chatRoomList[r][j] = to})
           first == {p \in mine : p.type \in OverRoom \cup {"PING_REQ"}}
           copy(p) == [type |-> p.type, src |-> p.src, dst |-> p.dst, body |-> p.body]
           n(p) == IF p.type \in OverRoom THEN cells ELSE 1
           copies(p) == [k \in 1..n(p) |-> copy(p)]
           long(P) == FlattenSeq([k \in DOMAIN SetToSeq(P) |-> copies(SetToSeq(P)[k])])
<1>1. cells \in Nat /\ cells = Cardinality(Cells(r, to))
  BY CellsAreFinite DEF Cells
<1> HIDE DEF cells
<1>2. Written(to, r) = long(first) \o long(mine \ first)
  BY DEF Written, cells
<1>3. first = {q} /\ mine \ first = {}
  BY DEF SentTo
<1>4. SetToSeq({q}) = <<q>>
  <2> DEFINE s == SetToSeq({q})
  <2>1. s \in Seq({q}) /\ Len(s) = 1
    BY Enumerated, FS_Singleton
  <2> HIDE DEF s
  <2>2. s[1] = q /\ s = <<s[1]>>
    BY <2>1
  <2> QED
    BY <2>2 DEF s
<1>5. SetToSeq({}) = <<>>
  <2>1. SetToSeq({}) \in Seq({}) /\ Len(SetToSeq({})) = 0
    BY Enumerated, FS_EmptySet
  <2> QED
    BY <2>1
<1>6. copies(q) = [k \in 1..cells |-> Copied(q)]
  BY DEF Copied
<1> HIDE DEF first, mine, copies
<1>7. long({q}) = copies(q)
  <2>1. [k \in DOMAIN <<q>> |-> copies(<<q>>[k])] = <<copies(q)>>
    OBVIOUS
  <2> QED
    BY <1>4, <2>1, OneFlattened
<1>8. long({}) = <<>>
  <2>1. [k \in DOMAIN SetToSeq({}) |-> copies(SetToSeq({})[k])] = <<>>
    BY <1>5
  <2>2. Len(<<>>) = 0
    OBVIOUS
  <2>3. FlattenSeq(<<>>) = <<>>
    BY <2>2 DEF FlattenSeq
  <2> QED
    BY <2>1, <2>3
<1> HIDE DEF long
<1>9. Written(to, r) = copies(q) \o <<>>
  BY <1>2, <1>3, <1>7, <1>8
<1>10. copies(q) \o <<>> = copies(q)
  <2>1. copies(q) \in Seq({Copied(q)})
    BY <1>1, <1>6
  <2> DEFINE s == copies(q)
  <2>2. s \in Seq({Copied(q)})
    BY <2>1
  <2> HIDE DEF s
  <2>3. s \o <<>> = s
    BY <2>2
  <2> QED
    BY <2>3 DEF s
<1> QED
  BY <1>1, <1>6, <1>9, <1>10

\* A descriptor nothing was sent to is written nothing.
LEMMA NothingWritten ==
    ASSUME S!IInv, S!Sends(Word), NEW r \in 0..Rooms, NEW to,
           \A p \in out'.sent : p.fd # to
    PROVE  Written(to, r) = <<>>
<1>1. IsFiniteSet(out'.sent)
  BY DEF S!Sends, S!IsFiniteSet, IsFiniteSet
<1>2. chatRoomList[r] \in Seq(Fds)
  BY DEF S!IInv, S!TypeOK
<1>3. Written(to, r) \in Seq({})
  BY <1>1, <1>2, WrittenAre
<1> QED
  BY <1>3

\* Without a message among the packets none is put on a connection.
LEMMA NoMessageWritten ==
    ASSUME S!IInv, S!Sends(Word), NoMessage, NEW r \in 0..Rooms, NEW to
    PROVE  /\ Written(to, r) \in Seq(Downward)
           /\ \A k \in DOMAIN Written(to, r) : Written(to, r)[k].type # "STR_REQ"
<1> DEFINE T == {q \in Downward : q.type # "STR_REQ"}
<1>1. IsFiniteSet(out'.sent) /\ out'.sent \subseteq S!Letters(Word)
  BY DEF S!Sends, S!IsFiniteSet, IsFiniteSet
<1>2. chatRoomList[r] \in Seq(Fds)
  BY DEF S!IInv, S!TypeOK
<1>3. S!SentType \subseteq DownType
  BY DEF S!SentType, DownType, PlainAck
<1>4. ASSUME NEW q \in out'.sent PROVE Copied(q) \in T
  <2>1. q \in S!Letters(Word) /\ q.type # "STR_REQ"
    BY <1>1 DEF NoMessage
  <2>2. /\ q.type \in S!SentType /\ q.src \in S!AnyName /\ q.dst \in S!AnyName
        /\ q.body \in S!Body /\ (q.type \in S!Naming => q.src \in Word /\ q.dst \in Word)
    BY <2>1 DEF S!Letters
  <2>3. Copied(q) \in Downward
    BY <1>3, <2>2 DEF Copied, Downward
  <2>4. Copied(q).type = q.type
    BY DEF Copied
  <2> QED
    BY <2>1, <2>3, <2>4
<1> HIDE DEF T
<1>5. Written(to, r) \in Seq(T)
  BY <1>1, <1>2, <1>4, WrittenAre
<1>6. \A k \in DOMAIN Written(to, r) : Written(to, r)[k] \in T
  BY <1>5
<1>7. T \subseteq Downward /\ \A q \in T : q.type # "STR_REQ"
  BY DEF T
<1> QED
  BY <1>5, <1>6, <1>7

\* A message is written to a descriptor as often as the room holds it, in cells
\* the handler reached, or not at all.
LEMMA MessageWritten ==
    ASSUME S!IInv, S!Sends(Word), NEW r \in 0..Rooms, NEW fd, NEW src, NEW lost,
           out' = S!Outcome({S!Server_Chat_Request(chatRoomList[r][j], src) :
                                j \in S!Others(r, fd)}, lost),
           NEW to
    PROVE  \/ Written(to, r) = <<>>
           \/ /\ Cells(r, to) \subseteq S!Reached(r, fd, lost)
              /\ Len(Written(to, r)) = Cardinality(Cells(r, to))
<1> DEFINE q == S!Server_Chat_Request(to, src)
           P == {S!Server_Chat_Request(chatRoomList[r][j], src) : j \in S!Others(r, fd)}
<1>1. chatRoomList[r] \in Seq(Fds)
  BY DEF S!IInv, S!TypeOK
<1>2. out'.sent = {p \in P : S!Accepts(p.fd, lost)}
  BY DEF S!Outcome
<1>3. \A x : S!Server_Chat_Request(x, src).fd = x /\ S!Server_Chat_Request(x, src).type = "STR_REQ"
  BY DEF S!Server_Chat_Request, S!Packet
<1>4. CASE \A p \in out'.sent : p.fd # to
  BY <1>4, NothingWritten
<1>5. CASE \E p \in out'.sent : p.fd = to
  <2>1. PICK j \in S!Others(r, fd) :
           /\ S!Server_Chat_Request(chatRoomList[r][j], src) \in out'.sent
           /\ S!Server_Chat_Request(chatRoomList[r][j], src).fd = to
    BY <1>2, <1>5
  <2>2. chatRoomList[r][j] = to /\ to # fd /\ q \in out'.sent /\ S!Accepts(to, lost)
    BY <1>2, <1>3, <2>1 DEF S!Others
  <2>3. Cells(r, to) \subseteq S!Reached(r, fd, lost)
    BY <2>2 DEF S!Reached, S!Others, Cells
  <2>4. ASSUME NEW p \in out'.sent, p.fd = to PROVE p = q
    <3>1. PICK m \in S!Others(r, fd) : p = S!Server_Chat_Request(chatRoomList[r][m], src)
      BY <1>2
    <3> QED
      BY <1>3, <2>4, <3>1
  <2>5. SentTo(to) = {q} /\ q.type \in OverRoom
    BY <1>3, <2>2, <2>4 DEF OverRoom, SentTo
  <2> HIDE DEF q, P
  <2>6. Written(to, r) = [k \in 1..Cardinality(Cells(r, to)) |-> Copied(q)]
    BY <1>1, <2>5, WrittenOnce
  <2>7. Len(Written(to, r)) = Cardinality(Cells(r, to))
    BY <1>1, <2>6, CellsAreFinite
  <2> QED
    BY <2>3, <2>7
<1> QED
  BY <1>4, <1>5

\* What a step of the server appends to the pipe of a client.
LEMMA DeliveredTo ==
    ASSUME NEW r, NEW unread, Delivers(r, unread), NEW c \in Clients
    PROVE  \/ down'[c] = down[c]
           \/ link[c] # 0 /\ down'[c] = down[c] \o Written(link[c], r)
BY DEF Delivers, Delivered

\* A handler that writes no message puts none in transit.
LEMMA DeliversNoMessage ==
    ASSUME Typed, S!Sends(Word), NoMessage, NEW r \in 0..Rooms, NEW unread,
           Delivers(r, unread), NEW c \in Clients
    PROVE  At(down'[c], "STR_REQ") \subseteq At(down[c], "STR_REQ")
<1> DEFINE d == down[c]
           w == Written(link[c], r)
<1>1. /\ d \in Seq(Downward) /\ w \in Seq(Downward)
      /\ \A k \in DOMAIN w : w[k].type # "STR_REQ"
  BY NoMessageWritten DEF Typed, PipesTyped
<1>2. down'[c] = d \/ down'[c] = d \o w
  BY DeliveredTo
<1> HIDE DEF d, w
<1>3. ASSUME NEW k \in At(d \o w, "STR_REQ") PROVE k \in At(d, "STR_REQ")
  <2>1. /\ k \in 1..(Len(d) + Len(w)) /\ Len(d) \in Nat /\ Len(w) \in Nat
        /\ (d \o w)[k].type = "STR_REQ"
    BY <1>1, <1>3 DEF At
  <2>2. CASE k <= Len(d)
    BY <1>1, <2>1, <2>2 DEF At
  <2>3. CASE ~(k <= Len(d))
    <3>1. k - Len(d) \in DOMAIN w /\ (d \o w)[k] = w[k - Len(d)]
      BY <1>1, <2>1, <2>3
    <3> QED
      BY <1>1, <2>1, <3>1
  <2> QED
    BY <2>2, <2>3
<1> QED
  BY <1>2, <1>3 DEF d

HavePlaces(old, new, more, cells, J) ==
    /\ \A c, d \in Clients : c # d => cells[c] \cap cells[d] = {}
    /\ \A c \in Clients : \/ new[c] = old[c]
                          \/ /\ cells[c] \subseteq J
                             /\ more[c] \in Seq(Downward) /\ new[c] = old[c] \o more[c]
                             /\ Len(more[c]) = Cardinality(cells[c])
\* What is new on the pipes has a place each among the cells of a set, if each
\* pipe gets no more than one packet for each cell that holds its connection.
LEMMA NewHavePlaces ==
    ASSUME NEW old \in [Clients -> Seq(Downward)], NEW new, NEW type, NEW more, NEW J,
           IsFiniteSet(J), IsFiniteSet(InTransit(old, type)),
           NEW cells, HavePlaces(old, new, more, cells, J)
    PROVE  /\ IsFiniteSet(InTransit(new, type))
           /\ Cardinality(InTransit(new, type)) <= Cardinality(InTransit(old, type)) + Cardinality(J)
           /\ {Cardinality(InTransit(new, type)), Cardinality(InTransit(old, type)),
               Cardinality(J)} \subseteq Nat
<1> DEFINE N == InTransit(new, type) \ InTransit(old, type)
           b(c) == CHOOSE f : f \in Bijection(1..Cardinality(cells[c]), cells[c])
           h == [x \in N |-> b(x[1])[x[2] - Len(old[x[1]])]]
<1>1. ASSUME NEW x \in N
      PROVE  \E c \in Clients : \E k \in 1..Cardinality(cells[c]) :
                /\ x = <<c, Len(old[c]) + k>> /\ new[c] # old[c]
                /\ Len(old[c]) \in Nat
  <2>1. PICK c \in Clients : \E k \in At(new[c], type) : x = <<c, k>>
    BY InTransitIs
  <2>2. PICK k \in At(new[c], type) : x = <<c, k>>
    BY <2>1
  <2>3. k \notin At(old[c], type)
    BY <2>2, InTransitIs
  <2>4. new[c] # old[c]
    BY <2>3
  <2> DEFINE s == old[c]
             t == more[c]
  <2>5. /\ s \in Seq(Downward) /\ t \in Seq(Downward) /\ new[c] = s \o t
        /\ Len(t) = Cardinality(cells[c])
    BY <2>4 DEF HavePlaces
  <2> HIDE DEF s, t
  <2>6. /\ k \in 1..(Len(s) + Len(t)) /\ Len(s) \in Nat /\ Len(t) \in Nat
        /\ \A m \in 1..Len(s) : m \in DOMAIN s /\ (s \o t)[m] = s[m]
    BY <2>5 DEF At
  <2>7. ~(k <= Len(s))
    <3>1. SUFFICES ASSUME k <= Len(s) PROVE FALSE
      OBVIOUS
    <3>2. k \in 1..Len(s)
      BY <2>6, <3>1
    <3>3. k \in At(s, type)
      BY <2>5, <2>6, <3>2 DEF At
    <3> QED
      BY <2>3, <3>3 DEF s
  <2>8. k - Len(s) \in 1..Len(t) /\ k = Len(s) + (k - Len(s))
    BY <2>6, <2>7
  <2> QED
    BY <2>2, <2>4, <2>5, <2>6, <2>8 DEF s
<1>2. ASSUME NEW c \in Clients, new[c] # old[c]
      PROVE  b(c) \in Bijection(1..Cardinality(cells[c]), cells[c]) /\ cells[c] \subseteq J
  <2>1. IsFiniteSet(cells[c]) /\ cells[c] \subseteq J
    BY <1>2, FS_Subset DEF HavePlaces
  <2>2. \E f : f \in Bijection(1..Cardinality(cells[c]), cells[c])
    BY <2>1, FS_CardinalityType DEF ExistsBijection
  <2> QED
    BY <2>1, <2>2
<1> HIDE DEF N, b
<1>3. ASSUME NEW c \in Clients, NEW k \in 1..Cardinality(cells[c]), new[c] # old[c],
             Len(old[c]) \in Nat, <<c, Len(old[c]) + k>> \in N
      PROVE  h[<<c, Len(old[c]) + k>>] = b(c)[k] /\ b(c)[k] \in cells[c] /\ b(c)[k] \in J
  <2>1. (Len(old[c]) + k) - Len(old[c]) = k
    BY <1>3
  <2>2. b(c)[k] \in cells[c] /\ b(c)[k] \in J
    BY <1>2, <1>3 DEF Bijection, Injection
  <2> QED
    BY <1>3, <2>1, <2>2
<1>4. h \in [N -> J]
  <2>1. ASSUME NEW x \in N PROVE h[x] \in J
    BY <1>1, <1>3
  <2> QED
    BY <2>1
<1>5. ASSUME NEW x \in N, NEW y \in N, h[x] = h[y] PROVE x = y
  <2>1. PICK c \in Clients : \E k \in 1..Cardinality(cells[c]) :
           x = <<c, Len(old[c]) + k>> /\ new[c] # old[c] /\ Len(old[c]) \in Nat
    BY <1>1
  <2>2. PICK k \in 1..Cardinality(cells[c]) :
           x = <<c, Len(old[c]) + k>> /\ new[c] # old[c] /\ Len(old[c]) \in Nat
    BY <2>1
  <2>3. PICK d \in Clients : \E m \in 1..Cardinality(cells[d]) :
           y = <<d, Len(old[d]) + m>> /\ new[d] # old[d] /\ Len(old[d]) \in Nat
    BY <1>1
  <2>4. PICK m \in 1..Cardinality(cells[d]) :
           y = <<d, Len(old[d]) + m>> /\ new[d] # old[d] /\ Len(old[d]) \in Nat
    BY <2>3
  <2>5. h[x] = b(c)[k] /\ h[x] \in cells[c] /\ h[y] = b(d)[m] /\ h[y] \in cells[d]
    BY <1>3, <2>2, <2>4
  <2>6. c = d
    BY <1>5, <2>5 DEF HavePlaces
  <2>7. k = m
    <3>1. b(c) \in Bijection(1..Cardinality(cells[c]), cells[c])
      BY <1>2, <2>2
    <3>2. \A j, l \in 1..Cardinality(cells[c]) : b(c)[j] = b(c)[l] => j = l
      BY <3>1 DEF Bijection, Injection, IsInjective
    <3> QED
      BY <1>5, <2>5, <2>6, <3>2
  <2> QED
    BY <2>2, <2>4, <2>6, <2>7
<1> HIDE DEF h
<1>6. h \in Injection(N, J)
  BY <1>4, <1>5 DEF Injection, IsInjective
<1>7. IsFiniteSet(N) /\ Cardinality(N) <= Cardinality(J)
  BY <1>6, FS_Injection
<1>8. /\ InTransit(new, type) \subseteq InTransit(old, type) \cup N
      /\ InTransit(old, type) \cap N = {}
  BY DEF N
<1>9. /\ IsFiniteSet(InTransit(old, type) \cup N)
      /\ Cardinality(InTransit(old, type) \cup N)
            = Cardinality(InTransit(old, type)) + Cardinality(N) - Cardinality({})
  BY <1>7, <1>8, FS_Union
<1>10. /\ IsFiniteSet(InTransit(new, type))
       /\ Cardinality(InTransit(new, type)) <= Cardinality(InTransit(old, type) \cup N)
  BY <1>8, <1>9, FS_Subset
<1>11. {Cardinality(InTransit(new, type)), Cardinality(InTransit(old, type)),
        Cardinality(N), Cardinality(J)} \subseteq Nat
  BY <1>7, <1>10, FS_CardinalityType
<1> QED
  BY <1>7, <1>9, <1>10, <1>11, FS_EmptySet

\* A message is put in transit at most once for every member it reached.
LEMMA DeliversMessage ==
    ASSUME Typed, S!Sends(Word), NEW r \in 0..Rooms, NEW fd, NEW src, NEW lost,
           out' = S!Outcome({S!Server_Chat_Request(chatRoomList[r][j], src) :
                                j \in S!Others(r, fd)}, lost),
           NEW unread, Delivers(r, unread), IsFiniteSet(InTransit(down, "STR_REQ"))
    PROVE  LET J == S!Reached(r, fd, lost)
           IN  /\ IsFiniteSet(InTransit(down', "STR_REQ"))
               /\ Cardinality(InTransit(down', "STR_REQ"))
                     <= Cardinality(InTransit(down, "STR_REQ")) + Cardinality(J)
               /\ {Cardinality(InTransit(down', "STR_REQ")),
                   Cardinality(InTransit(down, "STR_REQ")), Cardinality(J)} \subseteq Nat
<1> DEFINE J == S!Reached(r, fd, lost)
           cells == [c \in Clients |-> Cells(r, link[c])]
           more == [c \in Clients |-> Written(link[c], r)]
<1>1. S!IInv /\ down \in [Clients -> Seq(Downward)]
  BY DEF Typed, PipesTyped
<1>2. IsFiniteSet(J)
  BY <1>1, ReachedAreFinite
<1>3. chatRoomList[r] \in Seq(Fds) /\ 0 \notin Fds
  BY <1>1, ChatSystemAssumption DEF S!IInv, S!TypeOK
<1>4. ASSUME NEW c \in Clients, NEW d \in Clients, c # d
      PROVE  cells[c] \cap cells[d] = {}
  <2>1. link[c] # 0 => link[c] # link[d]
    BY <1>4 DEF Typed, Connections, LinksDiffer
  <2>2. \A j \in DOMAIN chatRoomList[r] : chatRoomList[r][j] # 0
    BY <1>3
  <2> QED
    BY <2>1, <2>2 DEF Cells
<1>5. ASSUME NEW c \in Clients
      PROVE  \/ down'[c] = down[c]
             \/ /\ cells[c] \subseteq J
                /\ more[c] \in Seq(Downward) /\ down'[c] = down[c] \o more[c]
                /\ Len(more[c]) = Cardinality(cells[c])
  <2>1. more[c] \in Seq(Downward) /\ down[c] \in Seq(Downward)
    BY <1>1, WrittenIsDownward
  <2>2. down'[c] = down[c] \/ down'[c] = down[c] \o more[c]
    BY DeliveredTo
  <2>3. \/ more[c] = <<>>
        \/ cells[c] \subseteq J /\ Len(more[c]) = Cardinality(cells[c])
    BY <1>1, MessageWritten
  <2> HIDE DEF more, cells, J
  <2>4. CASE more[c] = <<>>
    <3>1. down[c] \o <<>> = down[c]
      BY <2>1
    <3> QED
      BY <2>2, <2>4, <3>1
  <2> QED
    BY <2>1, <2>2, <2>3, <2>4
<1> HIDE DEF more, cells, J
<1>6. HavePlaces(down, down', more, cells, J)
  BY <1>4, <1>5 DEF HavePlaces
<1>7. /\ IsFiniteSet(InTransit(down', "STR_REQ"))
      /\ Cardinality(InTransit(down', "STR_REQ"))
            <= Cardinality(InTransit(down, "STR_REQ")) + Cardinality(J)
      /\ {Cardinality(InTransit(down', "STR_REQ")),
          Cardinality(InTransit(down, "STR_REQ")), Cardinality(J)} \subseteq Nat
  BY <1>1, <1>2, <1>6, NewHavePlaces
<1> QED
  BY <1>7 DEF J

\* What the server leaves unread is what stays in transit to it, or less.
LEMMA UnreadStays ==
    ASSUME NEW r, NEW unread, Delivers(r, unread), IsFiniteSet(InTransit(unread, "STR_ACK"))
    PROVE  /\ IsFiniteSet(InTransit(up', "STR_ACK"))
           /\ Cardinality(InTransit(up', "STR_ACK")) \in Nat
           /\ Cardinality(InTransit(unread, "STR_ACK")) \in Nat
           /\ Cardinality(InTransit(up', "STR_ACK")) <= Cardinality(InTransit(unread, "STR_ACK"))
<1>1. ASSUME NEW c \in Clients
      PROVE  At(up'[c], "STR_ACK") \subseteq At(unread[c], "STR_ACK")
  <2>1. up'[c] = <<>> \/ up'[c] = unread[c]
    BY DEF Delivers
  <2>2. At(<<>>, "STR_ACK") = {}
    BY DEF At
  <2> QED
    BY <2>1, <2>2
<1> QED
  BY <1>1, NoMoreInTransit

-----------------------------------------------------------------------------
(* The inductive invariant, and the theorem.                               *)

Outbound == Cardinality(InTransit(down, "STR_REQ"))
Returning == Cardinality(InTransit(up, "STR_ACK"))
Counted ==
    /\ IsFiniteSet(InTransit(down, "STR_REQ")) /\ IsFiniteSet(InTransit(up, "STR_ACK"))
    /\ AllNew
    /\ status # "NULL queue head"
    /\ status = "running" => Chats >= Outbound + Returning
\* Until a second has passed every wait and every client is new, so nothing but
\* an STR_ACK takes a wait for a message from the queue.
Waits == ticks \in Nat /\ (ticks = 0 => Counted)

\* The counts are numbers.
LEMMA CountsAreNatural ==
    ASSUME Counted
    PROVE  Chats \in Nat /\ Outbound \in Nat /\ Returning \in Nat
BY ManyIsNatural, FS_CardinalityType DEF Counted, AllNew, Chats, Outbound, Returning

\* Waits that are no fewer for as many or fewer packets are enough.
LEMMA NoLess ==
    ASSUME NEW m \in Nat, NEW n \in Nat, NEW a \in Nat, NEW b \in Nat, NEW u \in Nat,
           NEW d \in Nat, NEW e \in Nat,
           m >= a + b, n + b >= m + u, d <= a, e <= u
    PROVE  n >= d + e
OBVIOUS

\* A step of the server that writes no message.
LEMMA QuietCounts ==
    ASSUME Typed, Counted, S!Sends(Word), NoMessage, NEW r \in 0..Rooms, NEW unread,
           IsFiniteSet(InTransit(unread, "STR_ACK")), Delivers(r, unread),
           AllNew', status' # "NULL queue head",
           status' = "running" =>
              /\ status = "running"
              /\ Chats' + Returning >= Chats + Cardinality(InTransit(unread, "STR_ACK"))
    PROVE  Counted'
<1>1. /\ IsFiniteSet(InTransit(down', "STR_REQ")) /\ Cardinality(InTransit(down', "STR_REQ")) \in Nat
      /\ Cardinality(InTransit(down', "STR_REQ")) <= Cardinality(InTransit(down, "STR_REQ"))
  <2>1. \A c \in Clients : At(down'[c], "STR_REQ") \subseteq At(down[c], "STR_REQ")
    BY DeliversNoMessage
  <2> QED
    BY <2>1, NoMoreInTransit DEF Counted
<1>2. /\ IsFiniteSet(InTransit(up', "STR_ACK")) /\ Cardinality(InTransit(up', "STR_ACK")) \in Nat
      /\ Cardinality(InTransit(unread, "STR_ACK")) \in Nat
      /\ Cardinality(InTransit(up', "STR_ACK")) <= Cardinality(InTransit(unread, "STR_ACK"))
  BY UnreadStays
<1>3. /\ InTransit(down, "STR_REQ")' = InTransit(down', "STR_REQ")
      /\ InTransit(up, "STR_ACK")' = InTransit(up', "STR_ACK")
  BY DEF InTransit
<1>4. Chats \in Nat /\ Outbound \in Nat /\ Returning \in Nat
  BY CountsAreNatural
<1>5. Chats' \in Nat
  <2>1. MallocQ' \in Seq(NewWait)
    BY DEF AllNew
  <2>2. Many(MallocQ', "STR_ACK") \in Nat
    BY <2>1, ManyIsNatural
  <2> QED
    BY <2>2 DEF Chats, Many, At
<1>6. Outbound' <= Outbound /\ Outbound' \in Nat
  BY <1>1, <1>3 DEF Outbound
<1>7. Returning' <= Cardinality(InTransit(unread, "STR_ACK")) /\ Returning' \in Nat
  BY <1>2, <1>3 DEF Returning
<1>8. status' = "running" => Chats' >= Outbound' + Returning'
  <2>1. SUFFICES ASSUME status' = "running" PROVE Chats' >= Outbound' + Returning'
    OBVIOUS
  <2>2. Chats >= Outbound + Returning
    BY <2>1 DEF Counted
  <2>3. Chats' + Returning >= Chats + Cardinality(InTransit(unread, "STR_ACK"))
    BY <2>1
  <2> QED
    <3>1. /\ {Chats, Chats', Outbound, Returning, Outbound', Returning',
              Cardinality(InTransit(unread, "STR_ACK"))} \subseteq Nat
          /\ Outbound' <= Outbound /\ Returning' <= Cardinality(InTransit(unread, "STR_ACK"))
      BY <1>2, <1>4, <1>5, <1>6, <1>7
    <3> QED
      BY <2>2, <2>3, <3>1, NoLess
<1> QED
  BY <1>1, <1>2, <1>3, <1>8 DEF Counted

\* A step of a client takes as much from its two pipes as it adds, or more.
LEMMA ClientCounts ==
    ASSUME Typed, Counted, NEW c \in Clients, UserActs(c) \/ ClientActs(c)
    PROVE  Counted'
<1>1. ClientMoves(c) /\ UNCHANGED serverVars
  BY ClientsMove
<1>2. /\ up[c] \in Seq(Upward) /\ down[c] \in Seq(Downward)
      /\ up'[c] \in Seq(Upward) /\ down'[c] \in Seq(Downward)
      /\ \A d \in Clients \ {c} : up'[d] = up[d] /\ down'[d] = down[d]
  BY <1>1 DEF Typed, PipesTyped, ClientMoves, OthersStay
<1>3. /\ IsFiniteSet(InTransit(down', "STR_REQ"))
      /\ Cardinality(InTransit(down', "STR_REQ")) \in Nat
      /\ Cardinality(InTransit(down, "STR_REQ")) \in Nat
      /\ Cardinality(InTransit(down', "STR_REQ")) + Many(down[c], "STR_REQ")
           = Cardinality(InTransit(down, "STR_REQ")) + Many(down'[c], "STR_REQ")
  <2>1. IsFiniteSet(InTransit(down, "STR_REQ"))
    BY DEF Counted
  <2>2. \A d \in Clients \ {c} : down'[d] = down[d]
    BY <1>2
  <2> QED
    BY <1>2, <2>1, <2>2, OnePipeChanges
<1>4. /\ IsFiniteSet(InTransit(up', "STR_ACK"))
      /\ Cardinality(InTransit(up', "STR_ACK")) \in Nat
      /\ Cardinality(InTransit(up, "STR_ACK")) \in Nat
      /\ Cardinality(InTransit(up', "STR_ACK")) + Many(up[c], "STR_ACK")
           = Cardinality(InTransit(up, "STR_ACK")) + Many(up'[c], "STR_ACK")
  <2>1. IsFiniteSet(InTransit(up, "STR_ACK"))
    BY DEF Counted
  <2>2. \A d \in Clients \ {c} : up'[d] = up[d]
    BY <1>2
  <2> QED
    BY <1>2, <2>1, <2>2, OnePipeChanges
<1>5. Many(down'[c], "STR_REQ") + Many(up'[c], "STR_ACK")
         <= Many(down[c], "STR_REQ") + Many(up[c], "STR_ACK")
  BY ClientsAddNothing
<1>6. {Many(down'[c], "STR_REQ"), Many(up'[c], "STR_ACK"), Many(down[c], "STR_REQ"),
       Many(up[c], "STR_ACK")} \subseteq Nat
  <2>1. Many(down'[c], "STR_REQ") \in Nat /\ Many(up'[c], "STR_ACK") \in Nat
    BY <1>2, ManyIsNatural
  <2>2. Many(down[c], "STR_REQ") \in Nat /\ Many(up[c], "STR_ACK") \in Nat
    BY <1>2, ManyIsNatural
  <2> QED
    BY <2>1, <2>2
<1>7. /\ InTransit(down, "STR_REQ")' = InTransit(down', "STR_REQ")
      /\ InTransit(up, "STR_ACK")' = InTransit(up', "STR_ACK")
  BY DEF InTransit
<1>8. Outbound' + Returning' <= Outbound + Returning /\ Outbound' \in Nat /\ Returning' \in Nat
  BY <1>3, <1>4, <1>5, <1>6, <1>7 DEF Outbound, Returning
<1>9. /\ AllNew' /\ status' = status /\ Chats' = Chats
  BY <1>1 DEF serverVars, Counted, AllNew, Chats, Many, At
<1>10. Chats \in Nat /\ Outbound \in Nat /\ Returning \in Nat
  BY CountsAreNatural
<1>11. status' = "running" => Chats' >= Outbound' + Returning'
  <2>1. SUFFICES ASSUME status' = "running" PROVE Chats' >= Outbound' + Returning'
    OBVIOUS
  <2>2. status = "running"
    BY <1>9, <2>1
  <2>3. Chats >= Outbound + Returning
    BY <2>2 DEF Counted
  <2>4. \A a, b, d, e \in Nat : \A m \in Nat : m >= a + b /\ d + e <= a + b => m >= d + e
    OBVIOUS
  <2> QED
    BY <1>8, <1>9, <1>10, <2>3, <2>4
<1> QED
  BY <1>3, <1>4, <1>7, <1>9, <1>11 DEF Counted

\* Messages added to both sides.
LEMMA NoLessWithMore ==
    ASSUME NEW m \in Nat, NEW a \in Nat, NEW b \in Nat, NEW n \in Nat, NEW d \in Nat,
           NEW e \in Nat, NEW u \in Nat, m >= a + b, d <= a + n, e <= u, u <= b
    PROVE  m + n >= d + e
OBVIOUS

\* One of the waits goes with one of the acknowledgements.
LEMMA OneForOne ==
    ASSUME NEW m \in Nat, NEW n \in Nat, NEW b \in Nat, NEW u \in Nat, NEW one \in {0, 1}
    PROVE  /\ b = u + one /\ n + one >= m => n + b >= m + u
           /\ n >= m => n + one >= m
OBVIOUS

\* Reading one packet takes an acknowledgement from the pipe if it is one.
LEMMA ReadTakesOne ==
    ASSUME PipesTyped, IsFiniteSet(InTransit(up, "STR_ACK")), NEW c \in Clients, up[c] # <<>>
    PROVE  LET unread == [up EXCEPT ![c] = Tail(@)]
           IN  /\ IsFiniteSet(InTransit(unread, "STR_ACK"))
               /\ Cardinality(InTransit(unread, "STR_ACK")) \in Nat
               /\ Returning = Cardinality(InTransit(unread, "STR_ACK"))
                                + (IF Head(up[c]).type = "STR_ACK" THEN 1 ELSE 0)
<1> DEFINE unread == [up EXCEPT ![c] = Tail(@)]
<1>1. /\ up[c] \in Seq(Upward) /\ Tail(up[c]) \in Seq(Upward) /\ unread[c] = Tail(up[c])
  BY DEF PipesTyped
<1>a. \A d \in Clients \ {c} : unread[d] = up[d]
  BY DEF PipesTyped
<1>b. IsFiniteSet(InTransit(up, "STR_ACK")) /\ unread[c] \in Seq(Upward)
  BY <1>1
<1> HIDE DEF unread
<1>2. /\ IsFiniteSet(InTransit(unread, "STR_ACK"))
      /\ Cardinality(InTransit(unread, "STR_ACK")) \in Nat
      /\ Cardinality(InTransit(up, "STR_ACK")) \in Nat
      /\ Cardinality(InTransit(unread, "STR_ACK")) + Many(up[c], "STR_ACK")
           = Cardinality(InTransit(up, "STR_ACK")) + Many(unread[c], "STR_ACK")
  <2>1. ASSUME NEW pipe, NEW pipe2, IsFiniteSet(InTransit(pipe, "STR_ACK")),
               pipe[c] \in Seq(Upward), pipe2[c] \in Seq(Upward),
               \A d \in Clients \ {c} : pipe2[d] = pipe[d]
        PROVE  /\ IsFiniteSet(InTransit(pipe2, "STR_ACK"))
               /\ Cardinality(InTransit(pipe2, "STR_ACK")) \in Nat
               /\ Cardinality(InTransit(pipe, "STR_ACK")) \in Nat
               /\ Cardinality(InTransit(pipe2, "STR_ACK")) + Many(pipe[c], "STR_ACK")
                    = Cardinality(InTransit(pipe, "STR_ACK")) + Many(pipe2[c], "STR_ACK")
    BY <2>1, OnePipeChanges
  <2> QED
    BY <1>1, <1>a, <1>b, <2>1
<1>3. Many(up[c], "STR_ACK") = Many(Tail(up[c]), "STR_ACK")
                                  + (IF Head(up[c]).type = "STR_ACK" THEN 1 ELSE 0)
  BY <1>1, ManyInTail
<1>4. Many(up[c], "STR_ACK") \in Nat /\ Many(Tail(up[c]), "STR_ACK") \in Nat
  <2>1. Many(Tail(up[c]), "STR_ACK") \in Nat
    BY <1>1, ManyIsNatural
  <2> QED
    BY <1>1, <2>1, ManyIsNatural
<1>5. Returning = Cardinality(InTransit(unread, "STR_ACK"))
                    + (IF Head(up[c]).type = "STR_ACK" THEN 1 ELSE 0)
  BY <1>1, <1>2, <1>3, <1>4 DEF Returning
<1> QED
  BY <1>2, <1>5 DEF unread

\* A message adds a wait for every packet it puts in transit.
LEMMA MessageCounts ==
    ASSUME Typed, Counted, S!Sends(Word), NEW r \in 0..Rooms, NEW fd, NEW src, NEW lost,
           out' = S!Outcome({S!Server_Chat_Request(chatRoomList[r][j], src) :
                                j \in S!Others(r, fd)}, lost),
           NEW unread, Delivers(r, unread), IsFiniteSet(InTransit(unread, "STR_ACK")),
           Cardinality(InTransit(unread, "STR_ACK")) <= Returning,
           AllNew', status = "running", status' # "NULL queue head",
           Chats' = Chats + Cardinality(S!Reached(r, fd, lost))
    PROVE  Counted'
<1> DEFINE n == Cardinality(S!Reached(r, fd, lost))
<1>1. IsFiniteSet(InTransit(down, "STR_REQ"))
  BY DEF Counted
<1>2. /\ IsFiniteSet(InTransit(down', "STR_REQ"))
      /\ Cardinality(InTransit(down', "STR_REQ")) <= Outbound + n
      /\ {Cardinality(InTransit(down', "STR_REQ")), Outbound, n} \subseteq Nat
  BY <1>1, DeliversMessage DEF Outbound
<1>3. /\ IsFiniteSet(InTransit(up', "STR_ACK")) /\ Cardinality(InTransit(up', "STR_ACK")) \in Nat
      /\ Cardinality(InTransit(unread, "STR_ACK")) \in Nat
      /\ Cardinality(InTransit(up', "STR_ACK")) <= Cardinality(InTransit(unread, "STR_ACK"))
  BY UnreadStays
<1>4. /\ InTransit(down, "STR_REQ")' = InTransit(down', "STR_REQ")
      /\ InTransit(up, "STR_ACK")' = InTransit(up', "STR_ACK")
  BY DEF InTransit
<1>5. Chats \in Nat /\ Returning \in Nat /\ Chats >= Outbound + Returning
  BY CountsAreNatural DEF Counted
<1> HIDE DEF n
<1>6. /\ Outbound' = Cardinality(InTransit(down', "STR_REQ"))
      /\ Returning' = Cardinality(InTransit(up', "STR_ACK"))
      /\ Chats' = Chats + n
  BY <1>4 DEF Outbound, Returning, n
<1>7. Chats' >= Outbound' + Returning'
  <2> DEFINE d == Cardinality(InTransit(down', "STR_REQ"))
             e == Cardinality(InTransit(up', "STR_ACK"))
             u == Cardinality(InTransit(unread, "STR_ACK"))
  <2>1. {Chats, Outbound, Returning, n, d, e, u} \subseteq Nat
    BY <1>2, <1>3, <1>5
  <2>2. Chats >= Outbound + Returning /\ d <= Outbound + n /\ e <= u /\ u <= Returning
    BY <1>2, <1>3, <1>5
  <2>3. Outbound' = d /\ Returning' = e /\ Chats' = Chats + n
    BY <1>6
  <2> HIDE DEF d, e, u
  <2>4. Chats + n >= d + e
    BY <2>1, <2>2, NoLessWithMore
  <2> QED
    BY <2>3, <2>4
<1> QED
  BY <1>2, <1>3, <1>4, <1>7 DEF Counted

\* A step of the server for a client, the pool of waits not being empty.
LEMMA ReadCounts ==
    ASSUME Typed, Counted, Len(MallocQ') < PoolSize, NEW c \in Clients, ServerReads(c)
    PROVE  Counted'
<1>1. PICK i \in DOMAIN clientList :
         /\ clientList[i].fd = link[c]
         /\ \/ /\ up[c] = <<>> /\ client[c].pc = "ended"
               /\ Server!ReadNothing(i)
               /\ Delivers(0, up)
            \/ /\ up[c] # <<>>
               /\ \E lost \in SUBSET Gone : Handles(i, Head(up[c]), lost)
               /\ Delivers(RoomOf(i, Head(up[c])), [up EXCEPT ![c] = Tail(@)])
  BY DEF ServerReads
<1>2. /\ S!IInv /\ PipesTyped /\ link[c] # 0 /\ status = "running" /\ AllNew
      /\ MallocQ \in Seq(NewWait) /\ clientList \in Seq(NewClient)
      /\ IsFiniteSet(InTransit(up, "STR_ACK"))
  BY DEF ServerReads, Typed, Connections, LinksLive, Counted, AllNew
<1>3. Chats \in Nat /\ Outbound \in Nat /\ Returning \in Nat /\ Chats >= Outbound + Returning
  BY <1>2, CountsAreNatural DEF Counted
<1>4. CASE up[c] = <<>> /\ Server!ReadNothing(i) /\ Delivers(0, up)
  <2>1. S!ReadNothing(i)
    BY <1>4, SameActions
  <2>2. S!Sends({})
    BY <1>2, <2>1, ServerAssumed, S!SilentSends DEF S!ReadNothing
  <2>3. 0 \in 0..Rooms
    BY ServerAssumed DEF S!ChatServerAssumption
  <2>4. MallocQ' = MallocQ /\ status' = status /\ clientList' = S!Refreshed(i)
    BY <2>1 DEF S!ReadNothing, S!OnlyRefreshed
  <2>5. AllNew'
    <3>1. ASSUME NEW k \in DOMAIN clientList
          PROVE  [clientList[k] EXCEPT !.age = 0] = clientList[k]
      <4>1. clientList[k] \in S!ClientRecord /\ clientList[k].age = 0
        BY <1>2 DEF NewClient
      <4> QED
        BY <4>1 DEF S!ClientRecord
    <3>2. clientList' = clientList
      BY <1>2, <2>4, <3>1 DEF S!Refreshed
    <3> QED
      BY <1>2, <2>4, <3>2 DEF AllNew
  <2>6. Chats' = Chats
    BY <2>4 DEF Chats, Many, At
  <2>7. Chats' + Returning >= Chats + Cardinality(InTransit(up, "STR_ACK"))
    <3>1. Cardinality(InTransit(up, "STR_ACK")) = Returning
      BY DEF Returning
    <3> QED
      BY <1>3, <2>6, <3>1
  <2>8. S!Sends(Word) /\ NoMessage
    BY <2>2, FewerLetters, FewerMessages
  <2> QED
    BY <1>2, <1>4, <2>3, <2>4, <2>5, <2>7, <2>8, QuietCounts
<1>5. CASE /\ up[c] # <<>>
           /\ \E lost \in SUBSET Gone : Handles(i, Head(up[c]), lost)
           /\ Delivers(RoomOf(i, Head(up[c])), [up EXCEPT ![c] = Tail(@)])
  <2> DEFINE p == Head(up[c])
             r == RoomOf(i, p)
             unread == [up EXCEPT ![c] = Tail(@)]
             one == IF p.type = "STR_ACK" THEN 1 ELSE 0
  <2>1. p \in Upward /\ r \in 0..Rooms
    BY <1>2, <1>5, UnreadTyped, RoomOfType
  <2>2. /\ IsFiniteSet(InTransit(unread, "STR_ACK"))
        /\ Cardinality(InTransit(unread, "STR_ACK")) \in Nat
        /\ Returning = Cardinality(InTransit(unread, "STR_ACK")) + one
    BY <1>2, <1>5, ReadTakesOne
  <2>3. PICK lost \in SUBSET Gone : Handles(i, p, lost)
    BY <1>5
  <2>4. Delivers(r, unread)
    BY <1>5
  <2>5. p.type # "INVITE_ACK" => r = clientList[i].chatRoom
    BY DEF RoomOf
  <2> HIDE DEF p, r, unread
  <2>6. Handled(i, p, lost)
    BY <2>3, SameHandlers
  <2>7. S!IInv' /\ S!Sends(Word)
    BY <1>2, <2>1, <2>6, HandledStep
  <2>8. clientList' \in Seq(NewClient)
    BY <1>2, <2>6, <2>7, ListStaysNew
  <2>9. one \in {0, 1} /\ Cardinality(InTransit(unread, "STR_ACK")) <= Returning
    BY <2>2
  <2>10. ASSUME MallocQ' \in Seq(NewWait), NoMessage, status' # "NULL queue head",
                Chats' + one >= Chats
         PROVE  Counted'
    <3>1. AllNew'
      BY <2>8, <2>10 DEF AllNew
    <3>2. Chats' \in Nat
      <4>1. Many(MallocQ', "STR_ACK") \in Nat
        BY <2>10, ManyIsNatural
      <4> QED
        BY <4>1 DEF Chats, Many, At
    <3> HIDE DEF one
    <3>3. Chats' + Returning >= Chats + Cardinality(InTransit(unread, "STR_ACK"))
      BY <1>3, <2>2, <2>9, <2>10, <3>2, OneForOne
    <3> QED
      BY <1>2, <2>1, <2>2, <2>4, <2>7, <2>10, <3>1, <3>3, QuietCounts
  <2>11. CASE Harmless
    <3>1. Chats' >= Chats /\ Chats' \in Nat
      <4>1. MallocQ' \in Seq(NewWait) /\ Chats' >= Chats
        BY <2>11 DEF Harmless
      <4>2. Many(MallocQ', "STR_ACK") \in Nat
        BY <4>1, ManyIsNatural
      <4> QED
        BY <4>1, <4>2 DEF Chats, Many, At
    <3> HIDE DEF one
    <3>2. Chats' + one >= Chats
      BY <1>3, <2>9, <3>1, OneForOne
    <3> QED
      BY <2>10, <2>11, <3>2 DEF Harmless
  <2>12. CASE p.type = "STR_ACK" /\ S!StrAck(i, p.src, p.dst, lost)
    <3>1. one = 1 /\ Chats > 0
      BY <1>3, <2>2, <2>12
    <3>2. /\ NoMessage /\ MallocQ' \in Seq(NewWait) /\ Chats' + 1 >= Chats
          /\ status' # "NULL queue head"
      BY <1>2, <2>1, <2>12, <3>1, StrAckTakesOne
    <3> QED
      BY <2>10, <3>1, <3>2
  <2>13. CASE p.type = "STR_REQ" /\ S!StrReq(i, p.src, lost)
    <3> DEFINE fd == clientList[i].fd
               P == {S!Server_Chat_Request(chatRoomList[r][j], p.src) : j \in S!Others(r, fd)}
    <3>1. r = clientList[i].chatRoom
      BY <2>5, <2>13
    <3>2. /\ status' # "NULL queue head" /\ MallocQ' \in Seq(NewWait)
          /\ \/ NoMessage /\ Chats' = Chats
             \/ Chats' = Chats + Cardinality(S!Reached(r, fd, lost)) /\ out' = S!Outcome(P, lost)
      BY <1>2, <2>1, <2>13, <3>1, StrReqWaits
    <3>3. CASE NoMessage /\ Chats' = Chats
      <4>1. Chats' + one >= Chats
        BY <1>3, <2>9, <3>3
      <4> QED
        BY <2>10, <3>2, <3>3, <4>1
    <3>4. CASE Chats' = Chats + Cardinality(S!Reached(r, fd, lost)) /\ out' = S!Outcome(P, lost)
      <4>1. AllNew'
        BY <2>8, <3>2 DEF AllNew
      <4> QED
        BY <1>2, <2>1, <2>2, <2>4, <2>7, <2>9, <3>2, <3>4, <4>1, MessageCounts
    <3> QED
      BY <3>2, <3>3, <3>4
  <2>14. \/ Harmless
         \/ p.type = "STR_REQ" /\ S!StrReq(i, p.src, lost)
         \/ p.type = "STR_ACK" /\ S!StrAck(i, p.src, p.dst, lost)
    BY <1>2, <2>1, <2>6, HandledHarmless
  <2> QED
    BY <2>11, <2>12, <2>13, <2>14
<1> QED
  BY <1>1, <1>4, <1>5

\* What is counted, of variables that do not change.
LEMMA SameCounts ==
    ASSUME up' = up, down' = down, MallocQ' = MallocQ
    PROVE  /\ InTransit(down, "STR_REQ")' = InTransit(down, "STR_REQ")
           /\ InTransit(up, "STR_ACK")' = InTransit(up, "STR_ACK")
           /\ Chats' = Chats
<1>1. InTransit(down, "STR_REQ")' = InTransit(down', "STR_REQ")
  BY DEF InTransit
<1>2. InTransit(up, "STR_ACK")' = InTransit(up', "STR_ACK")
  BY DEF InTransit
<1>3. Chats' = Many(MallocQ', "STR_ACK")
  BY DEF Chats, Many, At
<1> QED
  BY <1>1, <1>2, <1>3 DEF Chats

\* A connection that is accepted brings no message and takes no wait.
LEMMA AcceptCounts ==
    ASSUME Typed, Counted, NEW c \in Clients, Accepts(c)
    PROVE  Counted'
<1>1. PICK fd \in Fds : Server!Accept(fd)
  BY DEF Accepts
<1>2. S!Accept(fd)
  BY <1>1, SameActions
<1>3. S!IInv' /\ status = "running"
  BY <1>2, ServerAssumed, S!AcceptKeeps DEF Typed, S!Accept, S!Running
<1>4. /\ MallocQ' = MallocQ /\ up' = up /\ down' = down
      /\ status' \in {status, "client list overrun"}
      /\ \/ clientList' = clientList
         \/ clientList' = Append(clientList, [name |-> Len(clientList), fd |-> fd,
                                              chatRoom |-> 0, age |-> 0])
  BY <1>2 DEF Accepts, Connected, S!Accept, S!Crash
<1>5. clientList' \in Seq(NewClient)
  <2>1. clientList \in Seq(NewClient) /\ clientList' \in Seq(S!ClientRecord)
    BY <1>3 DEF Counted, AllNew, S!IInv, S!TypeOK
  <2>2. CASE clientList' = clientList
    BY <2>1, <2>2
  <2>3. CASE clientList' = Append(clientList, [name |-> Len(clientList), fd |-> fd,
                                               chatRoom |-> 0, age |-> 0])
    <3> DEFINE e == [name |-> Len(clientList), fd |-> fd, chatRoom |-> 0, age |-> 0]
    <3>1. e.age = 0 /\ clientList' = Append(clientList, e)
      BY <2>3
    <3> HIDE DEF e
    <3>2. Len(clientList') = Len(clientList) + 1 /\ clientList'[Len(clientList) + 1] = e
      BY <2>1, <3>1
    <3>3. e \in S!ClientRecord
      BY <2>1, <3>2
    <3>4. e \in NewClient
      BY <3>1, <3>3 DEF NewClient
    <3> QED
      BY <2>1, <3>1, <3>4
  <2> QED
    BY <1>4, <2>2, <2>3
<1>6. /\ InTransit(down, "STR_REQ")' = InTransit(down, "STR_REQ")
      /\ InTransit(up, "STR_ACK")' = InTransit(up, "STR_ACK")
      /\ Chats' = Chats
  BY <1>4, SameCounts
<1> QED
  BY <1>3, <1>4, <1>5, <1>6 DEF Counted, AllNew, Outbound, Returning

\* An idle pass before the first second finds nothing old enough.
LEMMA IdleCounts ==
    ASSUME Typed, Counted, ServerIdles
    PROVE  Counted'
<1>1. S!Idle({}) /\ Delivers(0, up) /\ 0 \in 0..Rooms
  BY SameActions, ServerAssumed DEF ServerIdles, S!ChatServerAssumption
<1>2. S!Sends(Word) /\ NoMessage
  BY <1>1, ServerAssumed, S!IdleSends, FewerLetters, FewerMessages DEF Typed
<1>3. /\ MallocQ \in Seq(NewWait) /\ Len(MallocQ) <= PoolSize /\ clientList \in Seq(NewClient)
      /\ clientList' = clientList /\ status' = status /\ status = "running"
  BY <1>1 DEF Counted, AllNew, S!Idle, S!Running, Typed, S!IInv, S!TypeOK
<1>4. IdleLimit \in Nat /\ AckLimit \in Nat
  BY ServerAssumed DEF S!ChatServerAssumption
<1>5. S!Pinged({}) = {}
  <2>1. ASSUME NEW i \in DOMAIN clientList PROVE ~(clientList[i].age > IdleLimit)
    <3>1. clientList[i].age = 0
      BY <1>3 DEF NewClient
    <3> QED
      BY <1>4, <3>1
  <2> QED
    BY <2>1 DEF S!Pinged, S!Tried, S!Due
<1>6. PICK order \in S!Increasing({}) : \E pings, pinged :
         S!CheckPacketTimeOver(
            S!PushAll(MallocQ, [k \in DOMAIN order |->
                                  S!Wait(clientList[order[k]].name, "PING_ACK")]),
            pings, pinged, {})
  BY <1>1, <1>5 DEF S!Idle
<1> DEFINE waits == [k \in DOMAIN order |-> S!Wait(clientList[order[k]].name, "PING_ACK")]
           q == S!PushAll(MallocQ, waits)
<1>7. waits \in Seq(NewWait)
  <2>1. DOMAIN order = {}
    <3>1. order \in [1..S!Cardinality({}) -> {}]
      BY DEF S!Increasing
    <3>2. \A k \in DOMAIN order : order[k] \in {}
      BY <3>1
    <3> QED
      BY <3>2
  <2>2. DOMAIN waits = {}
    BY <2>1
  <2> HIDE DEF waits
  <2>3. waits = <<>>
    BY <2>2 DEF waits
  <2> QED
    BY <2>3
<1> HIDE DEF waits
<1>8. q \in Seq(NewWait) /\ Many(q, "STR_ACK") >= Chats
  BY <1>3, <1>7, PushKeepsWaits DEF Chats
<1>9. PICK pings, pinged : S!CheckPacketTimeOver(q, pings, pinged, {})
  BY <1>6 DEF waits
<1> HIDE DEF q
<1>10. MallocQ' = q
  <2>1. ~(q # <<>> /\ Head(q).age > AckLimit)
    <3>1. ASSUME q # <<>> PROVE Head(q).age = 0
      <4>1. Head(q) \in NewWait
        BY <1>8, <3>1
      <4> QED
        BY <4>1 DEF NewWait
    <3> QED
      BY <1>4, <3>1
  <2> QED
    BY <1>9, <2>1 DEF S!CheckPacketTimeOver
<1>11. Chats' >= Chats
  BY <1>8, <1>10 DEF Chats, Many, At
<1>12. AllNew'
  BY <1>3, <1>8, <1>10 DEF AllNew
<1>13. IsFiniteSet(InTransit(up, "STR_ACK")) /\ status' # "NULL queue head"
  BY <1>3 DEF Counted
<1>14. Chats' + Returning >= Chats + Cardinality(InTransit(up, "STR_ACK"))
  <2>1. Chats' \in Nat
    <3>1. Many(MallocQ', "STR_ACK") \in Nat
      BY <1>12, ManyIsNatural DEF AllNew
    <3> QED
      BY <3>1 DEF Chats, Many, At
  <2>2. Chats \in Nat /\ Returning \in Nat /\ Returning = Cardinality(InTransit(up, "STR_ACK"))
    BY CountsAreNatural DEF Returning
  <2> QED
    BY <1>11, <2>1, <2>2
<1> QED
  BY <1>1, <1>2, <1>3, <1>12, <1>13, <1>14, QuietCounts

\* The end of the server takes its connections with it.
LEMMA StopCounts ==
    ASSUME Typed, Counted, ServerStops
    PROVE  Counted'
<1>1. S!Interrupt({}) /\ Delivers(0, up) /\ 0 \in 0..Rooms
  BY SameActions, ServerAssumed DEF ServerStops, S!ChatServerAssumption
<1>2. S!Sends(Word) /\ NoMessage
  BY <1>1, ServerAssumed, S!InterruptSends, FewerLetters, FewerMessages DEF Typed
<1>3. /\ MallocQ' = MallocQ /\ clientList' = <<>> /\ status' = "stopped"
      /\ MallocQ \in Seq(NewWait) /\ IsFiniteSet(InTransit(up, "STR_ACK"))
  BY <1>1 DEF S!Interrupt, Counted, AllNew
<1>4. AllNew'
  BY <1>3 DEF AllNew
<1> QED
  BY <1>1, <1>2, <1>3, <1>4, QuietCounts

-----------------------------------------------------------------------------
(* The theorem.                                                            *)

\* At first nothing is in transit, and nothing waited for.
LEMMA InitWaits == Init => Waits
<1> SUFFICES ASSUME Init PROVE Waits
  OBVIOUS
<1>1. /\ up = [c \in Clients |-> <<>>] /\ down = [c \in Clients |-> <<>>] /\ ticks = 0
      /\ MallocQ = <<>> /\ clientList = <<>> /\ status = "running"
  BY SameActions DEF Init, ClientInit, S!Init
<1>2. InTransit(down, "STR_REQ") = {} /\ InTransit(up, "STR_ACK") = {}
  BY <1>1 DEF InTransit
<1>3. Chats = 0 /\ Outbound = 0 /\ Returning = 0
  <2>1. At(MallocQ, "STR_ACK") = {}
    BY <1>1 DEF At
  <2> QED
    BY <1>2, <2>1, FS_EmptySet DEF Chats, Many, Outbound, Returning
<1>4. AllNew
  BY <1>1 DEF AllNew
<1>5. IsFiniteSet(InTransit(down, "STR_REQ")) /\ IsFiniteSet(InTransit(up, "STR_ACK"))
  BY <1>2, FS_EmptySet
<1>6. Counted
  BY <1>1, <1>3, <1>4, <1>5 DEF Counted
<1> QED
  BY <1>1, <1>6 DEF Waits

\* No step breaks it, as long as the pool of waits has nodes left.
LEMMA NextWaits ==
    ASSUME SysInv, Waits, Len(MallocQ') < PoolSize, [Next]_vars
    PROVE  Waits'
<1>1. Typed
  BY DEF SysInv
<1>2. CASE SecondPasses
  BY <1>2 DEF SecondPasses, Waits
<1>3. ASSUME ticks' = ticks, Counted => Counted'
      PROVE  Waits'
  BY <1>3 DEF Waits
<1>4. ASSUME NEW c \in Clients, UserActs(c) \/ ClientActs(c)
      PROVE  Waits'
  <2>1. ticks' = ticks
    BY <1>4 DEF UserActs, ClientActs, Quietly
  <2> QED
    BY <1>1, <1>3, <1>4, <2>1, ClientCounts
<1>5. ASSUME NEW c \in Clients, Accepts(c) PROVE Waits'
  <2>1. ticks' = ticks
    BY <1>5 DEF Accepts
  <2> QED
    BY <1>1, <1>3, <1>5, <2>1, AcceptCounts
<1>6. ASSUME NEW c \in Clients, ServerReads(c) PROVE Waits'
  <2>1. ticks' = ticks
    BY <1>6 DEF ServerReads
  <2> QED
    BY <1>1, <1>3, <1>6, <2>1, ReadCounts
<1>7. CASE ServerIdles
  <2>1. ticks' = ticks
    BY <1>7 DEF ServerIdles
  <2> QED
    BY <1>1, <1>3, <1>7, <2>1, IdleCounts
<1>8. CASE ServerStops
  <2>1. ticks' = ticks
    BY <1>8 DEF ServerStops
  <2> QED
    BY <1>1, <1>3, <1>8, <2>1, StopCounts
<1>9. CASE UNCHANGED vars
  <2>1. ticks' = ticks /\ (Counted => Counted')
    <3>1. /\ ticks' = ticks /\ up' = up /\ down' = down /\ MallocQ' = MallocQ
          /\ clientList' = clientList /\ status' = status
      BY <1>9 DEF vars, clientVars, serverVars
    <3>2. /\ InTransit(down, "STR_REQ")' = InTransit(down, "STR_REQ")
          /\ InTransit(up, "STR_ACK")' = InTransit(up, "STR_ACK")
          /\ Chats' = Chats
      BY <3>1, SameCounts
    <3> QED
      BY <3>1, <3>2 DEF Counted, AllNew, Outbound, Returning
  <2> QED
    BY <1>3, <2>1
<1> QED
  BY <1>2, <1>4, <1>5, <1>6, <1>7, <1>8, <1>9 DEF Next

\* Each chat message on its way to a client, and each acknowledgement on its
\* way back, has its STR_ACK in the server's queue: the head that handler reads
\* without looking (server.c:753) is there, for any number of clients, rooms
\* and messages, as long as no wait can have timed out and the pool of waits is
\* never used up, which loses the wait of a message without a word.
THEOREM EveryChatHasItsWait ==
    Spec /\ [](Len(MallocQ) < PoolSize) => []EveryChatIsWaited
<1>1. Waits => EveryChatIsWaited
  <2>1. Chats = Cardinality({k \in DOMAIN MallocQ : MallocQ[k].type = "STR_ACK"})
    BY DEF Chats, Many, At
  <2> QED
    BY <2>1 DEF Waits, Counted, EveryChatIsWaited, Outbound, Returning
<1>2. SysInv /\ Waits /\ (Len(MallocQ) < PoolSize)' /\ [Next]_vars => Waits'
  BY NextWaits
<1> QED
  BY <1>1, <1>2, InitWaits, SystemInvariant, PTL DEF Spec
=============================================================================
