------------------------ MODULE ChatSystemRooms_proofs ------------------------
(***************************************************************************)
(* A client that the server lists in a room knows that it is in one, when  *)
(* nothing is in transit between the two, for every number of clients,     *)
(* rooms and nodes.  Rests on the invariants of ChatSystem_proofs.         *)
(***************************************************************************)
EXTENDS ChatSystemWaits_proofs

-----------------------------------------------------------------------------
(* The requests and answers about rooms on the two pipes of a process.     *)

RoomReq == {"CREATE_CHATROOM_REQ", "EXIT_CHATROOM_REQ"}
RoomAck == {"CREATE_CHATROOM_ACK", "EXIT_CHATROOM_ACK"}
Having(q, types) == {k \in DOMAIN q : q[k].type \in types}
Accepting(p) == p.type = "INVITE_ACK" /\ p.body = "yes"
Asking(p) == p.type \in RoomReq \/ Accepting(p)
AwaitsExit(s) == \E j \in DOMAIN s.waits : s.waits[j] = "EXIT_ACK"

\* One question about rooms at a time: it is on its way, or its answer is.
OneAtMost(u, d) ==
    /\ Having(u, RoomReq) = {} \/ Having(d, RoomAck) = {}
    /\ \A j, k \in Having(u, RoomReq) : j = k
    /\ \A j, k \in Having(d, RoomAck) : j = k
Pending(u, d) == Having(u, RoomReq) # {} \/ Having(d, RoomAck) # {}
Creating(u, d) == Having(u, {"CREATE_CHATROOM_REQ"}) # {} \/ Having(d, {"CREATE_CHATROOM_ACK"}) # {}

\* What process s, with u on its way to the server and d on its way back, has
\* of a room when the server has it in one, or not.
RoomFlow(s, u, d, inRoom) ==
    /\ OneAtMost(u, d)
    /\ Pending(u, d) => s.asked
    /\ \A k \in Having(u, RoomReq) :
          u[k].src # NoName /\ (u[k].type = "CREATE_CHATROOM_REQ" => s.isConnected)
    /\ Creating(u, d) => AwaitsExit(s)
    /\ \A k \in DOMAIN u : Accepting(u[k]) =>
          s.isChat /\ Having(d, RoomAck) = {} /\ \A j \in Having(u, RoomReq) : k < j
    /\ inRoom => /\ Having(d, {"EXIT_CHATROOM_ACK"}) = {}
                 /\ Having(d, {"CREATE_CHATROOM_ACK"}) # {} \/ s.isChat

\* Pipe v has, of the packets that matter to rooms, only those of q from its
\* n-th place on, in their order: on the way up, and on the way down.
FewerAsked(q, v, n) ==
    \A k \in DOMAIN v : Asking(v[k]) => k + n \in DOMAIN q /\ q[k + n] = v[k]
FewerAnswers(q, v, n) ==
    \A k \in DOMAIN v : v[k].type \in RoomAck => k + n \in DOMAIN q /\ q[k + n] = v[k]

\* What is left when the oldest packet is read.
LEMMA TailIs ==
    ASSUME NEW T, NEW q \in Seq(T), q # <<>>
    PROVE  /\ Tail(q) \in Seq(T) /\ Head(q) = q[1] /\ 1 \in DOMAIN q /\ Head(q) \in T
           /\ \A k \in DOMAIN Tail(q) : k \in Nat /\ k + 1 \in DOMAIN q /\ Tail(q)[k] = q[k + 1]
           /\ \A k \in DOMAIN q : k \in Nat /\ (k # 1 => k - 1 \in DOMAIN Tail(q) /\ q[k] = Tail(q)[k - 1])
<1> DEFINE t == Tail(q)
<1>1. /\ DOMAIN q = 1..Len(q) /\ Len(q) \in Nat /\ Head(q) = q[1] /\ 1 \in DOMAIN q
      /\ t \in Seq(T) /\ Len(t) = Len(q) - 1
      /\ \A k \in 1..(Len(q) - 1) : t[k] = q[k + 1]
  OBVIOUS
<1>2. DOMAIN t = 1..(Len(q) - 1)
  BY <1>1
<1> HIDE DEF t
<1>3. \A k \in DOMAIN t : k \in Nat /\ k + 1 \in DOMAIN q /\ t[k] = q[k + 1]
  BY <1>1, <1>2
<1>4. ASSUME NEW k \in DOMAIN q
      PROVE  k \in Nat /\ (k # 1 => k - 1 \in DOMAIN t /\ q[k] = t[k - 1])
  <2>1. k \in Nat /\ (k # 1 => k - 1 \in 1..(Len(q) - 1) /\ (k - 1) + 1 = k)
    BY <1>1
  <2> QED
    BY <1>1, <1>2, <2>1
<1> QED
  BY <1>1, <1>3, <1>4 DEF t

\* What there is when more is written.
LEMMA JoinIs ==
    ASSUME NEW T, NEW q \in Seq(T), NEW w \in Seq(T)
    PROVE  /\ q \o w \in Seq(T) /\ Len(q) \in Nat
           /\ \A k \in DOMAIN q : k \in Nat /\ k <= Len(q) /\ k \in DOMAIN (q \o w) /\ (q \o w)[k] = q[k]
           /\ \A k \in DOMAIN w : k \in Nat /\ Len(q) + k \in DOMAIN (q \o w)
                                  /\ (q \o w)[Len(q) + k] = w[k]
           /\ \A k \in DOMAIN (q \o w) :
                 \/ k \in DOMAIN q /\ (q \o w)[k] = q[k]
                 \/ k > Len(q) /\ k - Len(q) \in DOMAIN w /\ (q \o w)[k] = w[k - Len(q)]
<1> DEFINE t == q \o w
<1>1. /\ DOMAIN q = 1..Len(q) /\ Len(q) \in Nat /\ DOMAIN w = 1..Len(w) /\ Len(w) \in Nat
      /\ t \in Seq(T) /\ DOMAIN t = 1..(Len(q) + Len(w))
      /\ \A k \in 1..(Len(q) + Len(w)) : t[k] = IF k <= Len(q) THEN q[k] ELSE w[k - Len(q)]
  OBVIOUS
<1> HIDE DEF t
<1>2. \A k \in DOMAIN q : k \in Nat /\ k <= Len(q) /\ k \in DOMAIN t /\ t[k] = q[k]
  BY <1>1
<1>3. ASSUME NEW k \in DOMAIN w
      PROVE  k \in Nat /\ Len(q) + k \in DOMAIN t /\ t[Len(q) + k] = w[k]
  <2>1. k \in Nat /\ Len(q) + k \in 1..(Len(q) + Len(w)) /\ ~(Len(q) + k <= Len(q))
        /\ (Len(q) + k) - Len(q) = k
    BY <1>1
  <2> QED
    BY <1>1, <2>1
<1>4. \A k \in DOMAIN t :
         \/ k \in DOMAIN q /\ t[k] = q[k]
         \/ k > Len(q) /\ k - Len(q) \in DOMAIN w /\ t[k] = w[k - Len(q)]
  BY <1>1
<1> QED
  BY <1>1, <1>2, <1>3, <1>4 DEF t

\* The ways in which a pipe comes to have fewer of them.
LEMMA FewerOf ==
    ASSUME NEW T, NEW q \in Seq(T)
    PROVE  /\ FewerAsked(q, q, 0) /\ FewerAnswers(q, q, 0) /\ FewerAnswers(q, <<>>, 0)
           /\ q # <<>> => FewerAsked(q, Tail(q), 1) /\ FewerAnswers(q, Tail(q), 1)
           /\ \A w \in Seq(T) :
                 /\ (\A k \in DOMAIN w : ~Asking(w[k])) => FewerAsked(q, q \o w, 0)
                 /\ (\A k \in DOMAIN w : w[k].type \notin RoomAck) => FewerAnswers(q, q \o w, 0)
<1>1. \A k \in DOMAIN q : k \in Nat /\ k + 0 = k
  OBVIOUS
<1>2. FewerAsked(q, q, 0) /\ FewerAnswers(q, q, 0) /\ FewerAnswers(q, <<>>, 0)
  BY <1>1 DEF FewerAsked, FewerAnswers
<1>3. q # <<>> => FewerAsked(q, Tail(q), 1) /\ FewerAnswers(q, Tail(q), 1)
  BY TailIs DEF FewerAsked, FewerAnswers
<1>4. ASSUME NEW w \in Seq(T)
      PROVE  /\ (\A k \in DOMAIN w : ~Asking(w[k])) => FewerAsked(q, q \o w, 0)
             /\ (\A k \in DOMAIN w : w[k].type \notin RoomAck) => FewerAnswers(q, q \o w, 0)
  <2> DEFINE t == q \o w
  <2>1. \A k \in DOMAIN t :
           \/ k \in DOMAIN q /\ t[k] = q[k]
           \/ k - Len(q) \in DOMAIN w /\ t[k] = w[k - Len(q)]
    BY JoinIs
  <2> HIDE DEF t
  <2>2. (\A k \in DOMAIN w : ~Asking(w[k])) => FewerAsked(q, t, 0)
    BY <1>1, <2>1 DEF FewerAsked
  <2>3. (\A k \in DOMAIN w : w[k].type \notin RoomAck) => FewerAnswers(q, t, 0)
    BY <1>1, <2>1 DEF FewerAnswers
  <2> QED
    BY <2>2, <2>3 DEF t
<1> QED
  BY <1>2, <1>3, <1>4

\* A flow with fewer of them goes on, if the process forgets nothing of what
\* it still needs.
LEMMA FewerFlow ==
    ASSUME NEW T, NEW u \in Seq(T), NEW v \in Seq(T), NEW d \in Seq(T), NEW e \in Seq(T),
           NEW n \in Nat, NEW m \in Nat, NEW s, NEW t, NEW a, NEW b,
           RoomFlow(s, u, d, a), FewerAsked(u, v, n), FewerAnswers(d, e, m),
           Pending(v, e) => t.asked,
           Creating(v, e) /\ AwaitsExit(s) => AwaitsExit(t),
           s.isConnected => t.isConnected,
           s.isChat => t.isChat \/ (~b /\ \A k \in DOMAIN v : ~Accepting(v[k])),
           b => a,
           b /\ Having(d, {"CREATE_CHATROOM_ACK"}) # {} =>
              Having(e, {"CREATE_CHATROOM_ACK"}) # {} \/ t.isChat
    PROVE  RoomFlow(t, v, e, b)
<1>1. /\ \A k \in DOMAIN u : k \in Nat
      /\ \A k \in DOMAIN v : k \in Nat
      /\ \A k \in DOMAIN d : k \in Nat
      /\ \A k \in DOMAIN e : k \in Nat
  OBVIOUS
<1>2. /\ \A types \in SUBSET RoomReq : \A k \in Having(v, types) :
            k + n \in Having(u, types) /\ u[k + n] = v[k]
      /\ \A types \in SUBSET RoomAck : \A k \in Having(e, types) :
            k + m \in Having(d, types) /\ d[k + m] = e[k]
  BY DEF Having, FewerAsked, FewerAnswers, Asking
<1>3. /\ RoomReq \in SUBSET RoomReq /\ RoomAck \in SUBSET RoomAck
      /\ {"CREATE_CHATROOM_REQ"} \in SUBSET RoomReq
      /\ {"CREATE_CHATROOM_ACK"} \in SUBSET RoomAck
      /\ {"EXIT_CHATROOM_ACK"} \in SUBSET RoomAck
  BY DEF RoomReq, RoomAck
<1>4. /\ Having(v, RoomReq) # {} => Having(u, RoomReq) # {}
      /\ Having(e, RoomAck) # {} => Having(d, RoomAck) # {}
      /\ Having(e, {"EXIT_CHATROOM_ACK"}) # {} => Having(d, {"EXIT_CHATROOM_ACK"}) # {}
      /\ Creating(v, e) => Creating(u, d)
  BY <1>2, <1>3 DEF Creating
<1>5. OneAtMost(v, e)
  <2>1. ASSUME NEW j \in Having(v, RoomReq), NEW k \in Having(v, RoomReq)
        PROVE  j + n = k + n /\ j \in Nat /\ k \in Nat
    <3>1. j + n \in Having(u, RoomReq) /\ k + n \in Having(u, RoomReq)
      BY <1>2, <1>3
    <3>2. j \in Nat /\ k \in Nat
      BY <1>1 DEF Having
    <3> QED
      BY <3>1, <3>2 DEF RoomFlow, OneAtMost
  <2>2. ASSUME NEW j \in Having(e, RoomAck), NEW k \in Having(e, RoomAck)
        PROVE  j + m = k + m /\ j \in Nat /\ k \in Nat
    <3>1. j + m \in Having(d, RoomAck) /\ k + m \in Having(d, RoomAck)
      BY <1>2, <1>3
    <3>2. j \in Nat /\ k \in Nat
      BY <1>1 DEF Having
    <3> QED
      BY <3>1, <3>2 DEF RoomFlow, OneAtMost
  <2>3. (\A j, k \in Having(v, RoomReq) : j = k) /\ (\A j, k \in Having(e, RoomAck) : j = k)
    BY <2>1, <2>2
  <2> QED
    BY <1>4, <2>3 DEF RoomFlow, OneAtMost
<1>6. \A k \in Having(v, RoomReq) :
         v[k].src # NoName /\ (v[k].type = "CREATE_CHATROOM_REQ" => t.isConnected)
  BY <1>2, <1>3 DEF RoomFlow
<1>7. Creating(v, e) => AwaitsExit(t)
  BY <1>4 DEF RoomFlow
<1>8. ASSUME NEW k \in DOMAIN v, Accepting(v[k])
      PROVE  t.isChat /\ Having(e, RoomAck) = {} /\ \A j \in Having(v, RoomReq) : k < j
  <2>1. k + n \in DOMAIN u /\ u[k + n] = v[k] /\ k \in Nat
    BY <1>1, <1>8 DEF FewerAsked, Asking
  <2>2. s.isChat /\ Having(d, RoomAck) = {} /\ \A j \in Having(u, RoomReq) : k + n < j
    BY <1>8, <2>1 DEF RoomFlow
  <2>3. \A j \in Having(v, RoomReq) : k + n < j + n /\ j \in Nat
    BY <1>1, <1>2, <1>3, <2>2 DEF Having
  <2>4. \A j \in Having(v, RoomReq) : k < j
    BY <2>1, <2>3
  <2> QED
    BY <1>4, <1>8, <2>2, <2>4
<1>9. b => /\ Having(e, {"EXIT_CHATROOM_ACK"}) = {}
           /\ Having(e, {"CREATE_CHATROOM_ACK"}) # {} \/ t.isChat
  BY <1>4 DEF RoomFlow
<1> QED
  BY <1>5, <1>6, <1>7, <1>8, <1>9 DEF RoomFlow

\* What a process writes of rooms, when it has no question on its way: it asks,
LEMMA AskedFlow ==
    ASSUME NEW T, NEW u \in Seq(T), NEW p \in T, NEW d, NEW s, NEW t, NEW a,
           RoomFlow(s, u, d, a), ~Pending(u, d), p.type \in RoomReq, p.src # NoName,
           p.type = "CREATE_CHATROOM_REQ" => s.isConnected /\ AwaitsExit(t),
           t.asked, s.isConnected => t.isConnected, s.isChat => t.isChat
    PROVE  RoomFlow(t, u \o <<p>>, d, a)
<1> DEFINE v == u \o <<p>>
           n == Len(u) + 1
<1>1. <<p>> \in Seq(T) /\ DOMAIN <<p>> = {1} /\ <<p>>[1] = p
  OBVIOUS
<1>2. /\ n \in Nat
      /\ \A k \in DOMAIN u : k \in Nat /\ k < n /\ k \in DOMAIN v /\ v[k] = u[k]
      /\ n \in DOMAIN v /\ v[n] = p
      /\ \A k \in DOMAIN v : (k \in DOMAIN u /\ v[k] = u[k]) \/ (k = n /\ v[k] = p)
  <2>1. /\ Len(u) \in Nat
        /\ \A k \in DOMAIN u : k \in Nat /\ k <= Len(u) /\ k \in DOMAIN v /\ v[k] = u[k]
        /\ n \in DOMAIN v /\ v[n] = p
        /\ \A k \in DOMAIN v : (k \in DOMAIN u /\ v[k] = u[k]) \/ (k = n /\ v[k] = p)
    OBVIOUS
  <2> QED
    BY <2>1
<1> HIDE DEF v, n
<1>3. Having(u, RoomReq) = {} /\ Having(d, RoomAck) = {}
  BY DEF Pending
<1>4. Having(v, RoomReq) = {n}
  BY <1>2, <1>3 DEF Having
<1>5. Having(d, {"CREATE_CHATROOM_ACK"}) = {} /\ Having(d, {"EXIT_CHATROOM_ACK"}) = {}
  BY <1>3 DEF Having, RoomAck
<1>6. p.type # "CREATE_CHATROOM_REQ" => Having(v, {"CREATE_CHATROOM_REQ"}) = {}
  BY <1>2, <1>4 DEF Having, RoomReq
<1>7. OneAtMost(v, d)
  BY <1>3, <1>4 DEF OneAtMost
<1>8. \A k \in DOMAIN v : Accepting(v[k]) => k \in DOMAIN u /\ Accepting(u[k]) /\ k < n
  BY <1>2 DEF Accepting, RoomReq
<1>9. \A k \in DOMAIN v : Accepting(v[k]) =>
         t.isChat /\ Having(d, RoomAck) = {} /\ \A j \in Having(v, RoomReq) : k < j
  BY <1>3, <1>4, <1>8 DEF RoomFlow
<1> QED
  BY <1>2, <1>4, <1>5, <1>6, <1>7, <1>9 DEF RoomFlow, Creating, v

\* or it accepts an invitation.
LEMMA AcceptedFlow ==
    ASSUME NEW T, NEW u \in Seq(T), NEW p \in T, NEW d, NEW s, NEW t, NEW a,
           RoomFlow(s, u, d, a), ~Pending(u, d), Accepting(p), t.isChat
    PROVE  RoomFlow(t, u \o <<p>>, d, a)
<1> DEFINE v == u \o <<p>>
           n == Len(u) + 1
<1>1. \A k \in DOMAIN v : (k \in DOMAIN u /\ v[k] = u[k]) \/ v[k] = p
  OBVIOUS
<1> HIDE DEF v
<1>2. Having(u, RoomReq) = {} /\ Having(d, RoomAck) = {}
  BY DEF Pending
<1>3. Having(v, RoomReq) = {}
  BY <1>1, <1>2 DEF Having, Accepting, RoomReq
<1>4. /\ Having(d, {"CREATE_CHATROOM_ACK"}) = {} /\ Having(d, {"EXIT_CHATROOM_ACK"}) = {}
      /\ Having(v, {"CREATE_CHATROOM_REQ"}) = {}
  BY <1>2, <1>3 DEF Having, RoomAck, RoomReq
<1> QED
  BY <1>2, <1>3, <1>4 DEF RoomFlow, Creating, Pending, OneAtMost, v

\* The server reads such a question and answers it,
LEMMA AnsweredFlow ==
    ASSUME NEW T, NEW u \in Seq(T), NEW d \in Seq(T), NEW p \in T, NEW s, NEW a, NEW b,
           RoomFlow(s, u, d, a), u # <<>>,
           \/ Head(u).type = "CREATE_CHATROOM_REQ" /\ p.type = "CREATE_CHATROOM_ACK"
           \/ Head(u).type = "EXIT_CHATROOM_REQ" /\ p.type = "EXIT_CHATROOM_ACK" /\ ~b
    PROVE  RoomFlow(s, Tail(u), d \o <<p>>, b)
<1> DEFINE v == Tail(u)
           e == d \o <<p>>
           n == Len(d) + 1
<1>1. /\ 1 \in DOMAIN u /\ Head(u) = u[1]
      /\ \A k \in DOMAIN v : k \in Nat /\ k + 1 \in DOMAIN u /\ v[k] = u[k + 1] /\ k + 1 # 1
  <2>1. /\ 1 \in DOMAIN u /\ Head(u) = u[1]
        /\ \A k \in DOMAIN v : k \in Nat /\ k + 1 \in DOMAIN u /\ v[k] = u[k + 1]
    BY TailIs
  <2>2. \A k \in DOMAIN v : k + 1 # 1
    OBVIOUS
  <2> QED
    BY <2>1, <2>2
<1>2. /\ n \in DOMAIN e /\ e[n] = p
      /\ \A k \in DOMAIN e : (k \in DOMAIN d /\ e[k] = d[k]) \/ (k = n /\ e[k] = p)
  OBVIOUS
<1> HIDE DEF v, e, n
<1>3. 1 \in Having(u, RoomReq)
  BY <1>1 DEF Having, RoomReq
<1>4. Having(d, RoomAck) = {} /\ \A k \in Having(u, RoomReq) : k = 1
  BY <1>3 DEF RoomFlow, OneAtMost
<1>5. Having(v, RoomReq) = {}
  BY <1>1, <1>4 DEF Having
<1>6. \A k \in DOMAIN v : ~Accepting(v[k])
  <2>1. ASSUME NEW k \in DOMAIN v, Accepting(v[k]) PROVE FALSE
    <3>1. k + 1 < 1 /\ k \in Nat
      BY <1>1, <1>3, <2>1 DEF RoomFlow
    <3> QED
      BY <3>1
  <2> QED
    BY <2>1
<1>7. p.type \in RoomAck
  BY DEF RoomAck
<1>8. Having(e, RoomAck) = {n}
  BY <1>2, <1>4, <1>7 DEF Having
<1>9. /\ Having(v, {"CREATE_CHATROOM_REQ"}) = {}
      /\ p.type = "CREATE_CHATROOM_ACK" =>
            n \in Having(e, {"CREATE_CHATROOM_ACK"}) /\ Having(e, {"EXIT_CHATROOM_ACK"}) = {}
      /\ p.type = "EXIT_CHATROOM_ACK" => Having(e, {"CREATE_CHATROOM_ACK"}) = {}
  BY <1>2, <1>4, <1>5 DEF Having, RoomReq, RoomAck
<1>10. s.asked /\ (Head(u).type = "CREATE_CHATROOM_REQ" => AwaitsExit(s))
  <2>1. Head(u).type = "CREATE_CHATROOM_REQ" => 1 \in Having(u, {"CREATE_CHATROOM_REQ"})
    BY <1>1 DEF Having
  <2> QED
    BY <1>3, <2>1 DEF RoomFlow, Pending, Creating
<1>11. OneAtMost(v, e)
  BY <1>5, <1>8 DEF OneAtMost
<1> QED
  BY <1>5, <1>6, <1>9, <1>10, <1>11 DEF RoomFlow, Creating, Pending, v, e

\* or reads that the invitation is accepted.
LEMMA InvitedFlow ==
    ASSUME NEW T, NEW u \in Seq(T), NEW d \in Seq(T), NEW w \in Seq(T), NEW s, NEW a, NEW b,
           RoomFlow(s, u, d, a), u # <<>>, Accepting(Head(u)),
           \A k \in DOMAIN w : w[k].type \notin RoomAck
    PROVE  RoomFlow(s, Tail(u), d \o w, b)
<1> DEFINE v == Tail(u)
           e == d \o w
<1>1. 1 \in DOMAIN u /\ Head(u) = u[1] /\ v \in Seq(T) /\ e \in Seq(T)
  BY TailIs, JoinIs
<1>2. s.isChat /\ Having(d, RoomAck) = {}
  BY <1>1 DEF RoomFlow
<1>3. FewerAsked(u, v, 1) /\ FewerAnswers(d, e, 0)
  BY FewerOf
<1>4. Having(e, RoomAck) = {}
  <2>1. \A k \in Having(e, RoomAck) : k + 0 \in Having(d, RoomAck)
    BY <1>3 DEF FewerAsked, FewerAnswers, Having, Asking
  <2> QED
    BY <1>2, <2>1
<1> HIDE DEF v, e
<1>5. Having(d, {"CREATE_CHATROOM_ACK"}) = {} /\ Having(e, {"EXIT_CHATROOM_ACK"}) = {}
  BY <1>2, <1>4 DEF Having, RoomAck
<1>6. RoomFlow(s, v, e, FALSE)
  <2>1. Pending(v, e) => Pending(u, d)
    <3>1. Having(v, RoomReq) # {} => Having(u, RoomReq) # {}
      BY <1>3 DEF FewerAsked, FewerAnswers, Having, Asking
    <3> QED
      BY <1>4, <3>1 DEF Pending
  <2>2. Pending(v, e) => s.asked
    BY <2>1 DEF RoomFlow
  <2>3. 0 \in Nat /\ 1 \in Nat
    OBVIOUS
  <2> QED
    BY <1>1, <1>2, <1>3, <2>2, <2>3, FewerFlow
<1> QED
  BY <1>2, <1>5, <1>6 DEF RoomFlow, v, e

-----------------------------------------------------------------------------
(* What a step of a process does to that flow.                             *)

Plain == {p \in Upward : p.type \notin RoomReq \cup {"INVITE_ACK"}}
Plainly(c) == \E w \in Seq(Plain) : up'[c] = up[c] \o w
Adds(c, p) == p \in Upward /\ up'[c] = up[c] \o <<p>>
ReadsOne(c) == down[c] # <<>> /\ down'[c] = Tail(down[c])

\* It runs no more; or it does nothing about rooms; or it asks one question,
\* answers an invitation, or reads the answer to a question.
Remembers(s, t) ==
    (s.asked => t.asked) /\ (s.isConnected => t.isConnected) /\ (s.isChat => t.isChat)
Unrelated(c) ==
    /\ Remembers(client[c], client'[c]) /\ Plainly(c)
    /\ c \in Patient /\ client[c].asked /\ AwaitsExit(client[c]) => AwaitsExit(client'[c])
    /\ down'[c] = down[c] \/ (ReadsOne(c) /\ Head(down[c]).type \notin RoomAck)
Asks(c) ==
    /\ Remembers(client[c], client'[c]) /\ client'[c].asked /\ Unhurried(c)
    /\ down'[c] = down[c]
    /\ \E p : /\ Adds(c, p) /\ p.type \in RoomReq /\ p.src # NoName
              /\ p.type = "CREATE_CHATROOM_REQ" =>
                    /\ client[c].isConnected
                    /\ Len(client[c].waits) < ClientPool => AwaitsExit(client'[c])
Replies(c) ==
    /\ Remembers(client[c], client'[c]) /\ client'[c].isChat
    /\ AwaitsExit(client[c]) => AwaitsExit(client'[c])
    /\ ReadsOne(c) /\ Head(down[c]).type = "INVITE_REQ"
    /\ \E p : /\ Adds(c, p) /\ p.type = "INVITE_ACK" /\ p.dst = Head(down[c]).dst
              /\ p.body = "yes" => Unhurried(c)
Learnt(c) ==
    /\ up'[c] = up[c] /\ ReadsOne(c) /\ Head(down[c]).type \in RoomAck
    /\ client[c].isConnected => client'[c].isConnected
    /\ Head(down[c]).type = "CREATE_CHATROOM_ACK" /\ AwaitsExit(client[c]) => client'[c].isChat
RoomStep(c) ==
    \/ client'[c].pc # "running" /\ Plainly(c)
    \/ client'[c].pc = "running" /\ (Unrelated(c) \/ Asks(c) \/ Replies(c) \/ Learnt(c))

\* A queue of waits that is given more keeps its own, and takes one more while
\* there is room.
LEMMA PushedKeeps ==
    ASSUME NEW queue \in Seq(WaitTypes), Len(queue) <= ClientPool, NEW waits \in Seq(WaitTypes)
    PROVE  /\ \A k \in DOMAIN queue :
                 k \in DOMAIN Pushed(queue, waits) /\ Pushed(queue, waits)[k] = queue[k]
           /\ Len(queue) < ClientPool /\ Len(waits) = 1 =>
                 LET k == Len(queue) + 1
                 IN  k \in DOMAIN Pushed(queue, waits) /\ Pushed(queue, waits)[k] = waits[1]
<1> DEFINE n == IF Len(queue) + Len(waits) < ClientPool THEN Len(queue) + Len(waits)
                                                        ELSE ClientPool
           all == queue \o waits
           more == SubSeq(all, 1, n)
<1>1. Len(queue) \in Nat /\ Len(waits) \in Nat /\ ClientPool \in Nat
  BY ChatClientAssumption
<1>2. /\ all \in Seq(WaitTypes) /\ Len(all) = Len(queue) + Len(waits)
      /\ \A k \in 1..Len(queue) : all[k] = queue[k]
      /\ Len(waits) = 1 => all[Len(queue) + 1] = waits[1]
  OBVIOUS
<1>3. n \in 0..Len(all) /\ Len(queue) <= n
  BY <1>1, <1>2
<1>8. Len(queue) < ClientPool /\ Len(waits) = 1 => n = Len(queue) + 1
  BY <1>1
<1> HIDE DEF all, n
<1>4. DOMAIN more = 1..n /\ \A k \in 1..n : more[k] = all[k]
  BY <1>2, <1>3
<1>5. Pushed(queue, waits) = more
  BY DEF Pushed, more, all, n
<1> HIDE DEF more
<1>6. ASSUME NEW k \in DOMAIN queue PROVE k \in DOMAIN more /\ more[k] = queue[k]
  <2>1. k \in 1..Len(queue) /\ k \in 1..n
    BY <1>1, <1>2, <1>3
  <2> QED
    BY <1>2, <1>4, <2>1
<1>7. ASSUME Len(queue) < ClientPool, Len(waits) = 1
      PROVE  Len(queue) + 1 \in DOMAIN more /\ more[Len(queue) + 1] = waits[1]
  <2>1. n = Len(queue) + 1 /\ n \in 1..n
    BY <1>1, <1>7, <1>8
  <2> QED
    BY <1>2, <1>4, <1>7, <2>1
<1> QED
  BY <1>5, <1>6, <1>7

\* A pass of the loop keeps what is waited for, and adds to it while it fits.
LEMMA StepAwaits ==
    ASSUME ClientsTyped, PipesTyped, NEW c \in Clients, NEW s, StateOK(s),
           NEW send, SendOK(send), Step(c, s, send)
    PROVE  /\ client'[c].pc = s.pc /\ client'[c].asked = s.asked
           /\ client'[c].isConnected = s.isConnected /\ client'[c].isChat = s.isChat
           /\ up'[c] = up[c] \/ up'[c] = up[c] \o send.packets
           /\ link[c] # 0 => up'[c] = up[c] \o send.packets
           /\ AwaitsExit(s) => AwaitsExit(client'[c])
           /\ Len(s.waits) < ClientPool /\ send.waits = <<"EXIT_ACK">> => AwaitsExit(client'[c])
<1> DEFINE more == Pushed(s.waits, send.waits)
           new == [s EXCEPT !.waits = more]
<1>1. s \in Process /\ s.waits \in Seq(WaitTypes) /\ send.waits \in Seq(WaitTypes)
      /\ Len(s.waits) <= ClientPool
  BY DEF StateOK, SendOK, Process
<1>2. /\ \A k \in DOMAIN s.waits : k \in DOMAIN more /\ more[k] = s.waits[k]
      /\ Len(s.waits) < ClientPool /\ Len(send.waits) = 1 =>
            Len(s.waits) + 1 \in DOMAIN more /\ more[Len(s.waits) + 1] = send.waits[1]
  BY <1>1, PushedKeeps
<1> HIDE DEF more
<1>3. AwaitsExit(s) => \E j \in DOMAIN more : more[j] = "EXIT_ACK"
  BY <1>2 DEF AwaitsExit
<1>4. send.waits = <<"EXIT_ACK">> => Len(send.waits) = 1 /\ send.waits[1] = "EXIT_ACK"
  OBVIOUS
<1>5. Len(s.waits) < ClientPool /\ send.waits = <<"EXIT_ACK">> =>
         \E j \in DOMAIN more : more[j] = "EXIT_ACK"
  BY <1>2, <1>4
<1>6. /\ new.pc = s.pc /\ new.asked = s.asked /\ new.isConnected = s.isConnected
      /\ new.isChat = s.isChat /\ new.waits = more
  BY <1>1 DEF Process
<1>7. client' = [client EXCEPT ![c] = new]
  BY DEF Step, more
<1> HIDE DEF new
<1>8. client'[c] = new
  BY <1>7 DEF ClientsTyped
<1>9. up'[c] = IF link[c] = 0 THEN up[c] ELSE up[c] \o send.packets
  BY DEF Step, PipesTyped
<1> QED
  BY <1>3, <1>5, <1>6, <1>8, <1>9 DEF AwaitsExit

\* Nothing else a sender writes is about rooms.
LEMMA PlainSends ==
    ASSUME NEW self, NEW p, NEW waits, SendOK(Send(self, p, waits)),
           p.type \notin RoomReq \cup {"INVITE_ACK"}
    PROVE  Send(self, p, waits).packets \in Seq(Plain)
<1>1. CASE self = NoName
  <2>1. Send(self, p, waits).packets = <<>>
    BY <1>1 DEF Send
  <2> QED
    BY <2>1
<1>2. CASE self # NoName
  <2>1. Send(self, p, waits).packets = <<p>>
    BY <1>2 DEF Send
  <2>2. <<p>> \in Seq(Upward)
    BY <2>1 DEF SendOK
  <2>3. <<p>>[1] \in Upward
    BY <2>2
  <2>4. p \in Plain
    BY <2>3 DEF Plain
  <2>5. <<p>> \in Seq(Plain)
    BY <2>4
  <2> QED
    BY <2>1, <2>5
<1> QED
  BY <1>1, <1>2

\* So with all senders but three.
LEMMA PlainSenders ==
    ASSUME NEW self \in Word
    PROVE  /\ Client_Connect_To_Server(self).packets \in Seq(Plain)
           /\ Client_Sign_Up(self).packets \in Seq(Plain)
           /\ Client_Chat_Request(self).packets \in Seq(Plain)
           /\ Client_Exit_Request(self).packets \in Seq(Plain)
           /\ \A another \in Names :
                 Client_Invite_Client_Request(self, another).packets \in Seq(Plain)
           /\ Client_Add_Lettering(self).packets \in Seq(Plain)
           /\ Client_Del_Lettering(self).packets \in Seq(Plain)
           /\ Client_Add_Reject_Call(self).packets \in Seq(Plain)
           /\ Client_Del_Reject_Call(self).packets \in Seq(Plain)
           /\ Client_Add_Call_Forwarding(self).packets \in Seq(Plain)
           /\ Client_Del_Call_Forwarding(self).packets \in Seq(Plain)
           /\ Client_All_Ueser_Request(self).packets \in Seq(Plain)
           /\ Client_Ping_Ack(self).packets \in Seq(Plain)
           /\ Client_Exit_Ack(self).packets \in Seq(Plain)
           /\ Client_Alram_Ack(self).packets \in Seq(Plain)
           /\ Nothing.packets \in Seq(Plain)
           /\ \A another \in Word : Client_Chat_Ack(self, another).packets \in Seq(Plain)
<1> USE DEF Request, Reply
<1>1. \A type, dst : Packet(type, self, dst).type = type
  BY DEF Packet
<1>2. ASSUME NEW type, type \notin RoomReq \cup {"INVITE_ACK"}
      PROVE  /\ \A dst, ack : SendOK(Request(type, self, dst, ack)) =>
                   Request(type, self, dst, ack).packets \in Seq(Plain)
             /\ SendOK(Reply(type, self)) => Reply(type, self).packets \in Seq(Plain)
  BY <1>1, <1>2, PlainSends
<1> HIDE DEF Request, Reply
<1> USE DEF RoomReq
<1>3. /\ Client_Connect_To_Server(self).packets \in Seq(Plain)
      /\ Client_Sign_Up(self).packets \in Seq(Plain)
      /\ Client_Chat_Request(self).packets \in Seq(Plain)
      /\ Client_Exit_Request(self).packets \in Seq(Plain)
      /\ \A another \in Names :
            Client_Invite_Client_Request(self, another).packets \in Seq(Plain)
      /\ Client_All_Ueser_Request(self).packets \in Seq(Plain)
  BY <1>2, RequestsOK DEF Client_Connect_To_Server, Client_Sign_Up,
     Client_Chat_Request, Client_Exit_Request, Client_Invite_Client_Request,
     Client_All_Ueser_Request
<1>4. /\ Client_Add_Lettering(self).packets \in Seq(Plain)
      /\ Client_Del_Lettering(self).packets \in Seq(Plain)
      /\ Client_Add_Reject_Call(self).packets \in Seq(Plain)
      /\ Client_Del_Reject_Call(self).packets \in Seq(Plain)
      /\ Client_Add_Call_Forwarding(self).packets \in Seq(Plain)
      /\ Client_Del_Call_Forwarding(self).packets \in Seq(Plain)
  BY <1>2, RequestsOK DEF Client_Add_Lettering, Client_Del_Lettering,
     Client_Add_Reject_Call, Client_Del_Reject_Call, Client_Add_Call_Forwarding,
     Client_Del_Call_Forwarding
<1>5. /\ Client_Ping_Ack(self).packets \in Seq(Plain)
      /\ Client_Exit_Ack(self).packets \in Seq(Plain)
      /\ Client_Alram_Ack(self).packets \in Seq(Plain)
  BY <1>2, RepliesOK DEF Client_Ping_Ack, Client_Exit_Ack, Client_Alram_Ack
<1>6. Nothing.packets \in Seq(Plain)
  BY DEF Nothing
<1>7. ASSUME NEW another \in Word PROVE Client_Chat_Ack(self, another).packets \in Seq(Plain)
  <2>1. SendOK(Client_Chat_Ack(self, another))
    BY RepliesOK
  <2> QED
    BY <1>1, <2>1, PlainSends DEF Client_Chat_Ack
<1> QED
  BY <1>3, <1>4, <1>5, <1>6, <1>7

\* A pass of the loop that is not about rooms.
LEMMA PlainStep ==
    ASSUME Typed, NEW c \in Clients, NEW s, StateOK(s), NEW send, SendOK(send),
           send.packets \in Seq(Plain), Step(c, s, send)
    PROVE  /\ s.pc # "running" => RoomStep(c)
           /\ /\ s.pc = "running" /\ Remembers(client[c], s)
              /\ c \in Patient /\ client[c].asked /\ AwaitsExit(client[c]) => AwaitsExit(s)
              /\ down'[c] = down[c] \/ (ReadsOne(c) /\ Head(down[c]).type \notin RoomAck)
              => RoomStep(c)
<1>1. /\ client'[c].pc = s.pc /\ client'[c].asked = s.asked
      /\ client'[c].isConnected = s.isConnected /\ client'[c].isChat = s.isChat
      /\ up'[c] = up[c] \/ up'[c] = up[c] \o send.packets
      /\ AwaitsExit(s) => AwaitsExit(client'[c])
  BY StepAwaits DEF Typed
<1>2. up[c] = up[c] \o <<>> /\ <<>> \in Seq(Plain)
  BY DEF Typed, PipesTyped
<1>3. Plainly(c)
  BY <1>1, <1>2 DEF Plainly
<1> QED
  BY <1>1, <1>3 DEF RoomStep, Unrelated, Remembers

\* A step that writes nothing, of a process that does not run.
LEMMA OffStep ==
    ASSUME Typed, NEW c \in Clients, client'[c].pc # "running", up' = up
    PROVE  RoomStep(c)
<1>1. up[c] = up[c] \o <<>> /\ <<>> \in Seq(Plain)
  BY DEF Typed, PipesTyped
<1> QED
  BY <1>1 DEF RoomStep, Plainly

\* Starting, failing to connect, and the two ways of being stopped.
LEMMA OffSteps ==
    ASSUME Typed, NEW c \in Clients,
           \/ ConnectFails(c) \/ Killed(c) \/ Interrupted(c)
           \/ \E name \in Leftover[c] : Start(c, name)
    PROVE  RoomStep(c)
<1>1. client \in [Clients -> Process]
  BY DEF Typed, ClientsTyped
<1>2. \A s, name : Ended(s).pc = "ended" /\ [Fresh(name) EXCEPT !.pc = "trying"].pc = "trying"
  BY DEF Ended, Fresh
<1>3. ASSUME NEW name, Start(c, name) PROVE RoomStep(c)
  BY <1>1, <1>2, <1>3, OffStep DEF Start
<1>4. CASE Killed(c)
  BY <1>1, <1>2, <1>4, OffStep DEF Killed
<1>5. CASE ConnectFails(c)
  <2>1. client'[c] = Ended(client[c]) \/ client'[c] = [client[c] EXCEPT !.tries = client[c].tries + 1]
    BY <1>1, <1>5 DEF ConnectFails
  <2>2. [client[c] EXCEPT !.tries = client[c].tries + 1].pc = client[c].pc
    BY <1>1 DEF Process
  <2> QED
    BY <1>2, <1>5, <2>1, <2>2, OffStep DEF ConnectFails
<1>6. CASE Interrupted(c)
  <2> DEFINE s == Ended(client[c])
             send == Client_Exit_Request(client[c].myName)
  <2>1. StateOK(s) /\ s.pc = "ended" /\ SendOK(send) /\ send.packets \in Seq(Plain)
    BY ProcessOK, RequestsOK, PlainSenders
  <2>2. Step(c, s, send)
    BY <1>6 DEF Interrupted
  <2> HIDE DEF s, send
  <2> QED
    BY <2>1, <2>2, PlainStep
<1> QED
  BY <1>3, <1>4, <1>5, <1>6

\* A line of the user, but for the two that ask about a room.
LEMMA PlainCommands ==
    ASSUME Typed, NEW c \in Clients,
           \/ \E name \in Names : SignUp(c, name) \/ Connect(c, name) \/ Invite(c, name)
           \/ Exit(c) \/ User(c) \/ Chat(c)
           \/ \E command \in Services : Service(c, command)
    PROVE  RoomStep(c)
<1> DEFINE me == client[c]
<1>1. me.pc = "running"
  BY DEF SignUp, Connect, Invite, Exit, User, Chat, Service, AtPrompt, Outside, InChat
<1>2. StateOK(me) /\ me \in Process /\ me.myName \in Word /\ Names \subseteq Word
  BY ProcessOK DEF Word
<1>3. ASSUME NEW s, StateOK(s), NEW send, SendOK(send), send.packets \in Seq(Plain),
             Command(c, s, send), s.pc = "running", Remembers(me, s), AwaitsExit(me) => AwaitsExit(s)
      PROVE  RoomStep(c)
  BY <1>1, <1>2, <1>3, PlainStep DEF Command
<1>4. ASSUME NEW send, SendOK(send), send.packets \in Seq(Plain), Command(c, me, send)
      PROVE  RoomStep(c)
  BY <1>1, <1>2, <1>3, <1>4 DEF Remembers
<1>5. ASSUME NEW name \in Names, Connect(c, name) PROVE RoomStep(c)
  <2> DEFINE s == [me EXCEPT !.tryId = name]
  <2>1. StateOK(s) /\ s.pc = "running" /\ Remembers(me, s) /\ (AwaitsExit(me) => AwaitsExit(s))
    BY <1>1, <1>2 DEF StateOK, Process, Remembers, AwaitsExit
  <2>2. /\ Command(c, s, Client_Connect_To_Server(name)) /\ SendOK(Client_Connect_To_Server(name))
        /\ Client_Connect_To_Server(name).packets \in Seq(Plain)
    BY <1>2, <1>5, RequestsOK, PlainSenders DEF Connect
  <2> HIDE DEF s
  <2> QED
    BY <1>3, <2>1, <2>2
<1>6. ASSUME NEW name \in Names, SignUp(c, name) PROVE RoomStep(c)
  <2>1. /\ SendOK(Client_Sign_Up(name)) /\ SendOK(Client_Add_Lettering(name))
        /\ SendOK(Client_Add_Reject_Call(name)) /\ SendOK(Client_Add_Call_Forwarding(name))
    BY <1>2, RequestsOK
  <2>2. /\ Client_Sign_Up(name).packets \in Seq(Plain)
        /\ Client_Add_Lettering(name).packets \in Seq(Plain)
        /\ Client_Add_Reject_Call(name).packets \in Seq(Plain)
        /\ Client_Add_Call_Forwarding(name).packets \in Seq(Plain)
    BY <1>2, PlainSenders
  <2>3. \A a, b : a.packets \in Seq(Plain) /\ b.packets \in Seq(Plain)
                     => Then(a, b).packets \in Seq(Plain)
    BY DEF Then
  <2> DEFINE one == Then(Client_Sign_Up(name), Client_Add_Lettering(name))
             two == Then(Client_Add_Reject_Call(name), Client_Add_Call_Forwarding(name))
  <2>4. SendOK(one) /\ SendOK(two) /\ one.packets \in Seq(Plain) /\ two.packets \in Seq(Plain)
    BY <2>1, <2>2, <2>3, ThenOK
  <2>5. Command(c, me, Then(one, two))
    BY <1>6 DEF SignUp
  <2> HIDE DEF one, two
  <2>6. SendOK(Then(one, two)) /\ Then(one, two).packets \in Seq(Plain)
    BY <2>3, <2>4, ThenOK
  <2> QED
    BY <1>4, <2>5, <2>6
<1>7. ASSUME (\E name \in Names : Invite(c, name)) \/ Exit(c) \/ User(c) \/ Chat(c)
      PROVE  RoomStep(c)
  BY <1>2, <1>4, <1>7, RequestsOK, PlainSenders DEF Invite, Exit, User, Chat
<1>8. ASSUME NEW command \in Services, Service(c, command) PROVE RoomStep(c)
  <2> DEFINE a(x) == SendOK(x) /\ x.packets \in Seq(Plain) /\ Command(c, me, x)
  <2>1. \E x \in {Client_Add_Lettering(me.myName), Client_Del_Lettering(me.myName),
                  Client_Add_Reject_Call(me.myName), Client_Del_Reject_Call(me.myName),
                  Client_Add_Call_Forwarding(me.myName), Client_Del_Call_Forwarding(me.myName)} :
           Command(c, me, x)
    BY <1>8 DEF Service, Services
  <2>2. \E x : a(x)
    BY <1>2, <2>1, RequestsOK, PlainSenders
  <2> QED
    BY <1>4, <2>2
<1> QED
  BY <1>5, <1>6, <1>7, <1>8

\* The two commands that ask about a room.
LEMMA RoomCommands ==
    ASSUME Typed, NEW c \in Clients, Create(c) \/ Leave(c)
    PROVE  RoomStep(c)
<1> DEFINE me == client[c]
           s == [me EXCEPT !.asked = TRUE]
<1>1. /\ StateOK(me) /\ me \in Process /\ me.myName \in Word
      /\ me.pc = "running" /\ link[c] # 0 /\ Unhurried(c)
  BY ProcessOK DEF Create, Leave, RoomCommand, Outside, InChat, AtPrompt
<1>2. /\ StateOK(s) /\ s.pc = "running" /\ Remembers(me, s) /\ s.asked
      /\ AwaitsExit(me) => AwaitsExit(s)
      /\ s.waits = me.waits
  BY <1>1 DEF StateOK, Process, Remembers, AwaitsExit
<1>3. /\ SendOK(Client_Create_ChatRoom(me.myName))
      /\ SendOK(Client_Exit_Chat_Room_Request(me.myName))
  BY <1>1, RequestsOK
<1>4. PICK send, type, ack :
        /\ type \in RoomReq /\ SendOK(send) /\ Command(c, s, send)
        /\ send = Send(me.myName, Packet(type, me.myName, NoName), <<ack>>)
        /\ type = "CREATE_CHATROOM_REQ" => me.isConnected /\ ack = "EXIT_ACK"
  <2>1. CASE Create(c)
    <3>1. Command(c, s, Client_Create_ChatRoom(me.myName)) /\ me.isConnected
      BY <2>1 DEF Create, RoomCommand, Outside
    <3>2. "CREATE_CHATROOM_REQ" \in RoomReq
      BY DEF RoomReq
    <3> HIDE DEF s, me
    <3>3. Client_Create_ChatRoom(me.myName)
            = Send(me.myName, Packet("CREATE_CHATROOM_REQ", me.myName, NoName), <<"EXIT_ACK">>)
      BY DEF Client_Create_ChatRoom, Request
    <3> QED
      BY <1>3, <3>1, <3>2, <3>3
  <2>2. CASE Leave(c)
    <3>1. Command(c, s, Client_Exit_Chat_Room_Request(me.myName))
      BY <2>2 DEF Leave, RoomCommand
    <3>2. "EXIT_CHATROOM_REQ" \in RoomReq
      BY DEF RoomReq
    <3> HIDE DEF s, me
    <3>3. Client_Exit_Chat_Room_Request(me.myName)
            = Send(me.myName, Packet("EXIT_CHATROOM_REQ", me.myName, NoName),
                   <<"EXIT_CHATROOM_ACK">>)
      BY DEF Client_Exit_Chat_Room_Request, Request
    <3>4. "EXIT_CHATROOM_REQ" # "CREATE_CHATROOM_REQ"
      OBVIOUS
    <3> QED
      BY <1>3, <3>1, <3>2, <3>3, <3>4
  <2> QED
    BY <2>1, <2>2
<1>5. Step(c, s, send) /\ down'[c] = down[c]
  BY <1>4 DEF Command
<1>6. /\ client'[c].pc = s.pc /\ client'[c].asked = s.asked
      /\ client'[c].isConnected = s.isConnected /\ client'[c].isChat = s.isChat
      /\ up'[c] = up[c] \o send.packets
      /\ Len(s.waits) < ClientPool /\ send.waits = <<"EXIT_ACK">> => AwaitsExit(client'[c])
  BY <1>1, <1>2, <1>4, <1>5, StepAwaits DEF Typed
<1>7. Remembers(me, client'[c])
  BY <1>2, <1>6 DEF Remembers
<1> HIDE DEF s
<1>8. CASE me.myName = NoName
  <2>1. send.packets \in Seq(Plain)
    BY <1>4, <1>8 DEF Send
  <2> QED
    BY <1>2, <1>4, <1>5, <2>1, PlainStep
<1>9. CASE me.myName # NoName
  <2> DEFINE p == Packet(type, me.myName, NoName)
  <2>1. p.type = type /\ p.src = me.myName
    BY DEF Packet
  <2>2. send.packets = <<p>> /\ send.waits = <<ack>>
    BY <1>4, <1>9 DEF Send
  <2> HIDE DEF p
  <2>3. <<p>> \in Seq(Upward) /\ <<p>>[1] = p
    BY <1>4, <2>2 DEF SendOK
  <2>4. p \in Upward
    BY <2>3
  <2>5. Adds(c, p)
    BY <1>6, <2>2, <2>4 DEF Adds
  <2>6. Asks(c)
    BY <1>1, <1>2, <1>4, <1>5, <1>6, <1>7, <1>9, <2>1, <2>2, <2>5 DEF Asks
  <2> QED
    BY <1>2, <1>6, <2>6 DEF RoomStep
<1> QED
  BY <1>8, <1>9

\* A wait that has timed out, and the retry of a login: not while a patient
\* user waits for an answer.
LEMMA TimeOverStep ==
    ASSUME Typed, NEW c \in Clients, TimeOver(c)
    PROVE  RoomStep(c)
<1> DEFINE me == client[c]
           s == [me EXCEPT !.waits = Tail(me.waits)]
<1>1. /\ me.pc = "running" /\ me.waits # <<>> /\ Command(c, s, Retry(me))
      /\ c \in Patient => ~me.asked
  BY DEF TimeOver, AtPrompt, Stale, Expired, Unhurried
<1>2. /\ StateOK(me) /\ me \in Process /\ me.tryId \in Word /\ SendOK(Nothing)
      /\ me.waits \in Seq(WaitTypes) /\ Len(me.waits) <= ClientPool /\ Len(me.waits) \in Nat
  BY ProcessOK, RepliesOK DEF StateOK
<1>3. Tail(me.waits) \in Seq(WaitTypes) /\ Len(Tail(me.waits)) = Len(me.waits) - 1
  BY <1>1, <1>2
<1>4. ClientPool \in Nat
  BY ChatClientAssumption
<1>5. Len(Tail(me.waits)) <= ClientPool
  BY <1>2, <1>3, <1>4
<1>6. StateOK(s) /\ s.pc = "running" /\ Remembers(me, s)
  BY <1>1, <1>2, <1>3, <1>5 DEF StateOK, Process, Remembers
<1>7. SendOK(Retry(me)) /\ Retry(me).packets \in Seq(Plain)
  BY <1>2, RequestsOK, PlainSenders DEF Retry
<1>8. Step(c, s, Retry(me)) /\ down'[c] = down[c]
  BY <1>1 DEF Command
<1> HIDE DEF s
<1> QED
  BY <1>1, <1>6, <1>7, <1>8, PlainStep

\* An acknowledgement of another type pops no wait for EXIT_ACK.
LEMMA PoppedAwaits ==
    ASSUME NEW s, StateOK(s), NEW type, type # "EXIT_ACK"
    PROVE  /\ Remembers(s, Popped(s, type)) /\ StateOK(Popped(s, type))
           /\ Popped(s, type).pc = s.pc
           /\ AwaitsExit(s) => AwaitsExit(Popped(s, type))
<1> DEFINE q == s.waits
           left == IF q # <<>> /\ Head(q) = type THEN Tail(q) ELSE q
<1>1. s \in Process /\ q \in Seq(WaitTypes)
  BY DEF StateOK, Process
<1>2. Popped(s, type) = [s EXCEPT !.waits = left]
  BY DEF Popped
<1>3. (\E j \in DOMAIN q : q[j] = "EXIT_ACK") => \E j \in DOMAIN left : left[j] = "EXIT_ACK"
  <2>1. ASSUME q # <<>>, Head(q) = type, NEW j \in DOMAIN q, q[j] = "EXIT_ACK"
        PROVE  \E k \in DOMAIN Tail(q) : Tail(q)[k] = "EXIT_ACK"
    <3>1. j # 1
      BY <1>1, <2>1
    <3>2. j - 1 \in DOMAIN Tail(q) /\ q[j] = Tail(q)[j - 1]
      BY <1>1, <2>1, <3>1, TailIs
    <3> QED
      BY <2>1, <3>2
  <2> QED
    BY <2>1
<1> HIDE DEF left
<1>4. StateOK(Popped(s, type)) /\ Popped(s, type).pc = s.pc
  BY PoppedOK
<1> QED
  BY <1>1, <1>2, <1>3, <1>4 DEF Remembers, AwaitsExit, Process

\* A packet that is read, and is no answer about a room.
LEMMA PlainReads ==
    ASSUME Typed, NEW c \in Clients,
           \/ ReadAck(c) \/ ReadExitAck(c) \/ ReadConnAck(c)
           \/ ReadPing(c) \/ ReadExit(c) \/ ReadChat(c) \/ ReadAlarm(c)
    PROVE  RoomStep(c)
<1> DEFINE me == client[c]
           p == Head(down[c])
<1>1. me.pc = "running" /\ down[c] # <<>> /\ p.type \notin RoomAck
  BY DEF ReadAck, ReadExitAck, ReadConnAck, ReadPing, ReadExit, ReadChat, ReadAlarm, Reads,
     PlainAck, RoomAck
<1>2. /\ StateOK(me) /\ me \in Process /\ me.myName \in Word
      /\ SendOK(Nothing) /\ Nothing.packets \in Seq(Plain)
      /\ StateOK(Ended(me)) /\ Ended(me).pc = "ended"
  BY ProcessOK, RepliesOK, PlainSenders
<1>3. p \in Downward /\ down \in [Clients -> Seq(Downward)]
  BY <1>1 DEF Typed, PipesTyped
<1>4. p.type \in S!Naming => p.src \in Word /\ p.dst \in Word
  BY <1>3 DEF Downward
<1> HIDE DEF p
<1>5. ASSUME NEW s, StateOK(s), NEW send, SendOK(send), send.packets \in Seq(Plain),
             Took(c, s, send), s.pc = "running", Remembers(me, s), AwaitsExit(me) => AwaitsExit(s)
      PROVE  RoomStep(c)
  <2>1. Step(c, s, send) /\ down' = [down EXCEPT ![c] = Tail(down[c])]
    BY <1>5 DEF Took
  <2>2. ReadsOne(c)
    BY <1>1, <1>3, <2>1 DEF ReadsOne
  <2> QED
    BY <1>1, <1>5, <2>1, <2>2, PlainStep DEF p
<1>6. ASSUME NEW send, SendOK(send), send.packets \in Seq(Plain), Took(c, me, send)
      PROVE  RoomStep(c)
  BY <1>1, <1>2, <1>5, <1>6 DEF Remembers
<1>7. ASSUME NEW send, SendOK(send), send.packets \in Seq(Plain), Took(c, Ended(me), send)
      PROVE  RoomStep(c)
  BY <1>2, <1>7, PlainStep DEF Took
<1>8. ASSUME NEW type \in PlainAck, Took(c, Popped(me, type), Nothing)
      PROVE  RoomStep(c)
  <2>1. type # "EXIT_ACK"
    BY <1>8 DEF PlainAck
  <2> QED
    BY <1>1, <1>2, <1>5, <1>8, <2>1, PoppedAwaits
<1>9. CASE ReadConnAck(c)
  <2> DEFINE t == Popped(me, "CONN_ACK")
             s == Welcome(t, p)
  <2>1. StateOK(t) /\ t.pc = "running" /\ Remembers(me, t) /\ (AwaitsExit(me) => AwaitsExit(t))
    BY <1>1, <1>2, PoppedAwaits
  <2>2. p.type = "CONN_ACK" /\ Took(c, s, Nothing)
    BY <1>9 DEF ReadConnAck, Reads, p
  <2>3. p.dst \in Word
    BY <1>4, <2>2 DEF S!Naming
  <2> HIDE DEF t
  <2>4. StateOK(s) /\ s.pc = "running" /\ Remembers(me, s) /\ (AwaitsExit(me) => AwaitsExit(s))
    BY <2>1, <2>3 DEF Welcome, StateOK, Process, Remembers, AwaitsExit
  <2> HIDE DEF s
  <2> QED
    BY <1>2, <1>5, <2>2, <2>4
<1>10. CASE ReadExitAck(c) \/ ReadExit(c)
  <2>1. /\ SendOK(Client_Exit_Ack(me.myName))
        /\ Client_Exit_Ack(me.myName).packets \in Seq(Plain)
    BY <1>2, RepliesOK, PlainSenders
  <2> QED
    BY <1>2, <1>7, <1>10, <2>1 DEF ReadExitAck, ReadExit
<1>11. CASE ReadPing(c) \/ ReadAlarm(c)
  <2>1. SendOK(Client_Ping_Ack(me.myName)) /\ SendOK(Client_Alram_Ack(me.myName))
    BY <1>2, RepliesOK
  <2>2. /\ Client_Ping_Ack(me.myName).packets \in Seq(Plain)
        /\ Client_Alram_Ack(me.myName).packets \in Seq(Plain)
    BY <1>2, PlainSenders
  <2> QED
    BY <1>6, <1>11, <2>1, <2>2 DEF ReadPing, ReadAlarm
<1>12. CASE ReadChat(c)
  <2>1. p.type = "STR_REQ" /\ Took(c, me, ChatAck(me, p))
    BY <1>12 DEF ReadChat, Reads, p
  <2>2. p.src \in Word
    BY <1>4, <2>1 DEF S!Naming
  <2>3. SendOK(ChatAck(me, p)) /\ ChatAck(me, p).packets \in Seq(Plain)
    BY <1>2, <2>2, RepliesOK, PlainSenders DEF ChatAck
  <2> QED
    BY <1>6, <2>1, <2>3
<1>13. CASE ReadAck(c)
  BY <1>8, <1>13 DEF ReadAck
<1> QED
  BY <1>9, <1>10, <1>11, <1>12, <1>13

\* An answer about a room: the wait that Create left makes it count.
LEMMA RoomAckStep ==
    ASSUME Typed, NEW c \in Clients, ReadRoomAck(c)
    PROVE  RoomStep(c)
<1> DEFINE me == client[c]
           p == Head(down[c])
<1>1. PICK type \in RoomAck, in \in BOOLEAN :
        /\ Reads(c, type) /\ Took(c, Answered(me, type, in), Nothing)
        /\ type = "CREATE_CHATROOM_ACK" => in
  BY DEF ReadRoomAck, RoomAck
<1>2. me.pc = "running" /\ down[c] # <<>> /\ p.type = type
  BY <1>1 DEF Reads
<1> HIDE DEF p
<1>3. StateOK(me) /\ me \in Process /\ SendOK(Nothing) /\ Nothing.packets = <<>>
  BY ProcessOK, RepliesOK DEF Nothing
<1> DEFINE t == Popped(me, type)
           u == [t EXCEPT !.isChat = in]
           v == IF me.waits = <<>> THEN me ELSE u
           s == [v EXCEPT !.asked = FALSE]
<1>4. StateOK(t) /\ t.pc = "running" /\ t.isConnected = me.isConnected
  BY <1>2, <1>3, PoppedOK
<1> HIDE DEF t
<1>5. StateOK(u) /\ u.pc = "running" /\ u.isConnected = me.isConnected /\ u.isChat = in
  BY <1>4 DEF StateOK, Process
<1> HIDE DEF u
<1>6. /\ StateOK(v) /\ v.pc = "running" /\ v.isConnected = me.isConnected
      /\ me.waits # <<>> => v.isChat = in
  BY <1>2, <1>3, <1>5
<1> HIDE DEF v
<1>7. /\ StateOK(s) /\ s.pc = "running" /\ s.isConnected = me.isConnected
      /\ me.waits # <<>> => s.isChat = in
  BY <1>6 DEF StateOK, Process
<1>8. Answered(me, type, in) = s
  BY DEF Answered, s, v, u, t
<1> HIDE DEF s
<1>9. Step(c, s, Nothing) /\ down' = [down EXCEPT ![c] = Tail(down[c])]
  BY <1>1, <1>7, <1>8 DEF Took
<1>10. /\ client'[c].pc = s.pc /\ client'[c].isConnected = s.isConnected
       /\ client'[c].isChat = s.isChat
       /\ up'[c] = up[c] \/ up'[c] = up[c] \o <<>>
  <2>1. ClientsTyped /\ PipesTyped /\ StateOK(s) /\ SendOK(Nothing) /\ Step(c, s, Nothing)
    BY <1>3, <1>7, <1>9 DEF Typed
  <2>2. /\ client'[c].pc = s.pc /\ client'[c].isConnected = s.isConnected
        /\ client'[c].isChat = s.isChat
        /\ up'[c] = up[c] \/ up'[c] = up[c] \o Nothing.packets
    BY <2>1, StepAwaits
  <2> QED
    BY <1>3, <2>2
<1>11. up'[c] = up[c] /\ ReadsOne(c)
  BY <1>2, <1>9, <1>10 DEF Typed, PipesTyped, ReadsOne
<1>12. AwaitsExit(me) => me.waits # <<>>
  BY DEF AwaitsExit
<1>13. Learnt(c)
  BY <1>1, <1>2, <1>7, <1>10, <1>11, <1>12 DEF Learnt, p
<1> QED
  BY <1>7, <1>10, <1>13 DEF RoomStep

\* An invitation: what is answered is about the name that was invited.
LEMMA InviteStep ==
    ASSUME Typed, NEW c \in Clients, NEW answer \in {"yes", "no"}, ReadInvite(c, answer)
    PROVE  RoomStep(c)
<1> DEFINE me == client[c]
           p == Head(down[c])
           s == Invited(me, answer)
           send == Client_Invite_Client_Ack(p.src, p.dst, answer)
           q == [Packet("INVITE_ACK", p.src, p.dst) EXCEPT !.body = answer]
<1>1. /\ me.pc = "running" /\ down[c] # <<>> /\ p.type = "INVITE_REQ"
      /\ Took(c, s, send) /\ (answer = "yes" => Unhurried(c))
  BY DEF ReadInvite, Reads
<1>2. p \in Downward /\ down \in [Clients -> Seq(Downward)]
  BY <1>1 DEF Typed, PipesTyped
<1>3. p.src \in Word /\ p.dst \in Word
  BY <1>1, <1>2 DEF Downward, S!Naming
<1> HIDE DEF p
<1>4. SendOK(send)
  BY <1>3, RepliesOK
<1>5. StateOK(me) /\ me \in Process
  BY ProcessOK
<1>6. /\ StateOK(s) /\ s.pc = "running" /\ Remembers(me, s) /\ s.isChat
      /\ AwaitsExit(me) => AwaitsExit(s)
  BY <1>1, <1>5 DEF Invited, StateOK, Process, Remembers, AwaitsExit
<1>7. q.type = "INVITE_ACK" /\ q.dst = p.dst /\ q.body = answer
  BY DEF Packet
<1>8. send = Send(p.src, q, <<>>)
  BY DEF Client_Invite_Client_Ack
<1> HIDE DEF s, send, q
<1>9. Step(c, s, send) /\ down' = [down EXCEPT ![c] = Tail(down[c])]
  BY <1>1, <1>6 DEF Took
<1>10. ReadsOne(c)
  BY <1>1, <1>2, <1>9 DEF ReadsOne
<1>11. /\ client'[c].pc = s.pc /\ client'[c].asked = s.asked
       /\ client'[c].isConnected = s.isConnected /\ client'[c].isChat = s.isChat
       /\ up'[c] = up[c] \/ up'[c] = up[c] \o send.packets
       /\ AwaitsExit(s) => AwaitsExit(client'[c])
  BY <1>4, <1>6, <1>9, StepAwaits DEF Typed
<1>12. Remembers(me, client'[c]) /\ (AwaitsExit(me) => AwaitsExit(client'[c]))
  BY <1>6, <1>11 DEF Remembers
<1>13. CASE up'[c] = up[c] \/ p.src = NoName
  <2>1. p.src = NoName => send.packets = <<>>
    BY <1>8 DEF Send
  <2>2. up[c] = up[c] \o <<>> /\ <<>> \in Seq(Plain)
    BY DEF Typed, PipesTyped
  <2>3. Plainly(c)
    BY <1>11, <1>13, <2>1, <2>2 DEF Plainly
  <2>4. p.type \notin RoomAck
    BY <1>1 DEF RoomAck
  <2> QED
    BY <1>6, <1>10, <1>11, <1>12, <2>3, <2>4 DEF RoomStep, Unrelated, p
<1>14. CASE up'[c] = up[c] \o send.packets /\ p.src # NoName
  <2>1. send.packets = <<q>>
    BY <1>8, <1>14 DEF Send
  <2>2. <<q>> \in Seq(Upward) /\ <<q>>[1] = q
    BY <1>4, <2>1 DEF SendOK
  <2>3. q \in Upward
    BY <2>2
  <2>4. Adds(c, q)
    BY <1>14, <2>1, <2>3 DEF Adds
  <2> QED
    BY <1>1, <1>6, <1>7, <1>10, <1>11, <1>12, <2>4 DEF RoomStep, Replies, p
<1> QED
  BY <1>11, <1>13, <1>14

\* Whatever a client does.
LEMMA ClientRooms ==
    ASSUME Typed, NEW c \in Clients, UserActs(c) \/ ClientActs(c)
    PROVE  RoomStep(c)
<1>1. LoginNames \subseteq Names
  BY ChatSystemAssumption
<1>2. CASE ClientActs(c)
  <2>1. ClientReads(c) \/ TimeOver(c) \/ ConnectFails(c)
    BY <1>2 DEF ClientActs
  <2> QED
    BY <2>1, PlainReads, RoomAckStep, InviteStep, TimeOverStep, OffSteps DEF ClientReads
<1>3. ASSUME NEW name \in LoginNames, SignUp(c, name) \/ Connect(c, name) \/ Invite(c, name)
      PROVE  RoomStep(c)
  BY <1>1, <1>3, PlainCommands
<1>4. ASSUME NEW name \in Leftover[c], Start(c, name) PROVE RoomStep(c)
  BY <1>4, OffSteps
<1>5. CASE Interrupted(c) \/ Killed(c)
  BY <1>5, OffSteps
<1>6. ASSUME \/ Exit(c) \/ User(c) \/ Chat(c)
             \/ \E command \in Services : Service(c, command)
      PROVE  RoomStep(c)
  BY <1>6, PlainCommands
<1>7. CASE Create(c) \/ Leave(c)
  BY <1>7, RoomCommands
<1>8. CASE UserActs(c)
  BY <1>3, <1>4, <1>5, <1>6, <1>7, <1>8 DEF UserActs, Does
<1> QED
  BY <1>2, <1>8

-----------------------------------------------------------------------------
(* The invariant, and the steps of the clients.                            *)

\* The server has the client of descriptor fd in a room.
InRoom(fd) == \E i \in DOMAIN clientList : clientList[i].fd = fd /\ clientList[i].chatRoom > 0
RoomsFlow ==
    \A c \in Patient : client[c].pc = "running" /\ link[c] # 0 =>
       /\ RoomFlow(client[c], up[c], down[c], InRoom(link[c]))
       /\ \A i \in DOMAIN clientList :
             clientList[i].fd = link[c] /\ clientList[i].chatRoom > 0 =>
                clientList[i].name \in Names

\* Invitations, and the answers to them, hold the name their client is listed
\* under.
Called(u, d, name) ==
    /\ \A k \in Having(u, {"INVITE_ACK"}) : u[k].dst = name
    /\ \A k \in Having(d, {"INVITE_REQ"}) : d[k].dst = name
CallsFlow ==
    \A c \in Clients, i \in DOMAIN clientList :
       link[c] # 0 /\ clientList[i].fd = link[c] => Called(up[c], down[c], clientList[i].name)
Unlinked == \A c \in Clients : status = "running" /\ link[c] = 0 => up[c] = <<>>
RoomInv == RoomsFlow /\ CallsFlow /\ Unlinked

\* A client that is logged in asks for no other name, and the queue of waits of
\* a patient one has nodes left.
OneName ==
    \A c \in Clients, i \in DOMAIN clientList :
       clientList[i].fd = link[c] /\ clientList[i].name \in Names =>
          \A k \in DOMAIN up[c] :
             up[c][k].type = "CONN_REQ" => up[c][k].src = clientList[i].name
WaitsFit == \A c \in Patient : Len(client[c].waits) < ClientPool

\* What is pending of fewer packets was pending of all of them.
LEMMA FewerPending ==
    ASSUME NEW u, NEW v, NEW d, NEW e, NEW n, NEW m,
           FewerAsked(u, v, n), FewerAnswers(d, e, m)
    PROVE  /\ Pending(v, e) => Pending(u, d)
           /\ Creating(v, e) => Pending(v, e)
<1>1. /\ \A k \in Having(v, RoomReq) : k + n \in Having(u, RoomReq)
      /\ \A k \in Having(e, RoomAck) : k + m \in Having(d, RoomAck)
  BY DEF Having, FewerAsked, FewerAnswers, Asking
<1>2. /\ Having(v, {"CREATE_CHATROOM_REQ"}) \subseteq Having(v, RoomReq)
      /\ Having(e, {"CREATE_CHATROOM_ACK"}) \subseteq Having(e, RoomAck)
  BY DEF Having, RoomReq, RoomAck
<1> QED
  BY <1>1, <1>2 DEF Pending, Creating

\* A process that does nothing about rooms.
LEMMA UnrelatedFlow ==
    ASSUME NEW T, NEW c \in Patient, Plain \subseteq T, up[c] \in Seq(T), down[c] \in Seq(T),
           NEW a, RoomFlow(client[c], up[c], down[c], a), Unrelated(c)
    PROVE  RoomFlow(client'[c], up'[c], down'[c], a)
<1> DEFINE u == up[c]
           d == down[c]
           e == down'[c]
           s == client[c]
           t == client'[c]
<1>1. PICK w \in Seq(Plain) : up'[c] = u \o w
  BY DEF Unrelated, Plainly
<1> DEFINE v == u \o w
<1>2. w \in Seq(T) /\ u \in Seq(T) /\ d \in Seq(T)
  BY <1>1
<1>3. v \in Seq(T)
  BY <1>2
<1>4. \A k \in DOMAIN w : ~Asking(w[k])
  <2>1. \A k \in DOMAIN w : w[k] \in Plain
    BY <1>1
  <2> QED
    BY <2>1 DEF Plain, Asking, Accepting
<1> HIDE DEF u, d, s
<1>5. FewerAsked(u, v, 0)
  BY <1>2, <1>4, FewerOf
<1>6. RoomFlow(s, u, d, a)
  BY DEF s, u, d
<1>7. PICK m \in Nat :
         /\ e \in Seq(T) /\ FewerAnswers(d, e, m)
         /\ Having(d, {"CREATE_CHATROOM_ACK"}) # {} => Having(e, {"CREATE_CHATROOM_ACK"}) # {}
  <2>1. CASE e = d
    <3>1. FewerAnswers(d, d, 0)
      BY <1>2, FewerOf
    <3> QED
      BY <1>2, <2>1, <3>1
  <2>2. CASE d # <<>> /\ e = Tail(d) /\ Head(d).type \notin RoomAck
    <3>1. FewerAnswers(d, Tail(d), 1)
      BY <1>2, <2>2, FewerOf
    <3>2. /\ Tail(d) \in Seq(T) /\ Head(d) = d[1]
          /\ \A k \in DOMAIN d : k # 1 => k - 1 \in DOMAIN Tail(d) /\ d[k] = Tail(d)[k - 1]
      BY <1>2, <2>2, TailIs
    <3>3. ASSUME NEW k \in Having(d, {"CREATE_CHATROOM_ACK"})
          PROVE  k - 1 \in Having(Tail(d), {"CREATE_CHATROOM_ACK"})
      BY <2>2, <3>2 DEF Having, RoomAck
    <3> QED
      BY <2>2, <3>1, <3>2, <3>3
  <2> QED
    BY <2>1, <2>2 DEF Unrelated, ReadsOne, d
<1> HIDE DEF v, e, t
<1>8. Remembers(s, t)
  BY DEF Unrelated, s, t
<1>9. Pending(v, e) => s.asked
  BY <1>5, <1>6, <1>7, FewerPending DEF RoomFlow
<1>10. Creating(v, e) /\ AwaitsExit(s) => AwaitsExit(t)
  <2>1. Creating(v, e) => s.asked
    BY <1>5, <1>7, <1>9, FewerPending
  <2> QED
    BY <2>1 DEF Unrelated, s, t
<1>11. RoomFlow(t, v, e, a)
  BY <1>2, <1>3, <1>5, <1>6, <1>7, <1>8, <1>9, <1>10, FewerFlow DEF Remembers
<1> QED
  BY <1>1, <1>11 DEF v, e, t

\* One that asks for a room, or to leave it, has asked for nothing else.
LEMMA AsksFlow ==
    ASSUME NEW T, NEW c \in Patient, Upward \subseteq T, up[c] \in Seq(T),
           NEW a, RoomFlow(client[c], up[c], down[c], a), Asks(c),
           Len(client[c].waits) < ClientPool
    PROVE  RoomFlow(client'[c], up'[c], down'[c], a)
<1>1. PICK p : /\ Adds(c, p) /\ p.type \in RoomReq /\ p.src # NoName
               /\ p.type = "CREATE_CHATROOM_REQ" =>
                     /\ client[c].isConnected
                     /\ Len(client[c].waits) < ClientPool => AwaitsExit(client'[c])
  BY DEF Asks
<1>2. p \in T /\ up'[c] = up[c] \o <<p>> /\ down'[c] = down[c]
  BY <1>1 DEF Adds, Asks
<1>3. ~Pending(up[c], down[c])
  BY DEF Asks, Unhurried, RoomFlow
<1>4. /\ client'[c].asked
      /\ client[c].isConnected => client'[c].isConnected
      /\ client[c].isChat => client'[c].isChat
  BY DEF Asks, Remembers
<1> QED
  BY <1>1, <1>2, <1>3, <1>4, AskedFlow

\* So has one that accepts an invitation; a refusal is nothing about rooms.
LEMMA RepliesFlow ==
    ASSUME NEW T, NEW c \in Patient, Upward \subseteq T, up[c] \in Seq(T), down[c] \in Seq(T),
           NEW a, RoomFlow(client[c], up[c], down[c], a), Replies(c)
    PROVE  RoomFlow(client'[c], up'[c], down'[c], a)
<1> DEFINE u == up[c]
           d == down[c]
           s == client[c]
           t == client'[c]
           e == Tail(d)
<1>1. /\ d # <<>> /\ down'[c] = e /\ Head(d).type = "INVITE_REQ" /\ t.isChat
      /\ Remembers(s, t) /\ (AwaitsExit(s) => AwaitsExit(t))
  BY DEF Replies, ReadsOne
<1>2. PICK p : /\ Adds(c, p) /\ p.type = "INVITE_ACK"
               /\ p.body = "yes" => Unhurried(c)
  BY DEF Replies
<1>3. p \in T /\ up'[c] = u \o <<p>>
  BY <1>2 DEF Adds
<1>4. ~Pending(u, d) \/ ~s.asked \/ p.body # "yes"
  BY <1>2 DEF Unhurried
<1>5. RoomFlow(s, u, d, a) /\ u \in Seq(T) /\ d \in Seq(T)
  OBVIOUS
<1> HIDE DEF u, d, s, t
<1>6. e \in Seq(T) /\ FewerAsked(u, u, 0) /\ FewerAnswers(d, e, 1)
  BY <1>1, <1>5, FewerOf, TailIs
<1>7. Pending(u, e) => t.asked
  BY <1>1, <1>5, <1>6, FewerPending DEF RoomFlow, Remembers
<1> HIDE DEF e
<1>8. RoomFlow(t, u, e, a)
  BY <1>1, <1>5, <1>6, <1>7, FewerFlow DEF Remembers
<1>9. CASE Accepting(p)
  <2>1. ~Pending(u, d)
    BY <1>2, <1>4, <1>5, <1>9 DEF Accepting, RoomFlow
  <2>2. ~Pending(u, e)
    BY <1>6, <2>1, FewerPending
  <2>3. RoomFlow(t, u \o <<p>>, e, a)
    BY <1>1, <1>3, <1>5, <1>8, <1>9, <2>2, AcceptedFlow
  <2> QED
    BY <1>1, <1>3, <2>3 DEF t
<1>10. CASE ~Accepting(p)
  <2> DEFINE w == <<p>>
  <2>1. w \in Seq(T) /\ \A k \in DOMAIN w : ~Asking(w[k])
    BY <1>2, <1>3, <1>10 DEF Asking, RoomReq
  <2> HIDE DEF w
  <2> DEFINE v == u \o w
  <2>2. FewerAsked(u, v, 0) /\ FewerAnswers(e, e, 0) /\ v \in Seq(T)
    BY <1>5, <1>6, <2>1, FewerOf, JoinIs
  <2> HIDE DEF v
  <2>3. Pending(v, e) => t.asked
    BY <1>8, <2>2, FewerPending DEF RoomFlow
  <2>4. RoomFlow(t, v, e, a)
    BY <1>5, <1>6, <1>8, <2>2, <2>3, FewerFlow
  <2> QED
    BY <1>1, <1>3, <2>4 DEF t, v, w
<1> QED
  BY <1>9, <1>10

\* The answer to the one question takes with it what was pending.
LEMMA LearntFlow ==
    ASSUME NEW T, NEW c \in Patient, up[c] \in Seq(T), down[c] \in Seq(T),
           NEW a, RoomFlow(client[c], up[c], down[c], a), Learnt(c)
    PROVE  RoomFlow(client'[c], up'[c], down'[c], a)
<1> DEFINE u == up[c]
           d == down[c]
           s == client[c]
           t == client'[c]
           e == Tail(d)
<1>1. /\ d # <<>> /\ down'[c] = e /\ up'[c] = u /\ Head(d).type \in RoomAck
      /\ s.isConnected => t.isConnected
      /\ Head(d).type = "CREATE_CHATROOM_ACK" /\ AwaitsExit(s) => t.isChat
  BY DEF Learnt, ReadsOne
<1>2. RoomFlow(s, u, d, a) /\ u \in Seq(T) /\ d \in Seq(T)
  OBVIOUS
<1> HIDE DEF u, d, s, t
<1>3. e \in Seq(T) /\ FewerAsked(u, u, 0) /\ FewerAnswers(d, e, 1)
  BY <1>1, <1>2, FewerOf, TailIs
<1>4. 1 \in Having(d, RoomAck) /\ Head(d) = d[1]
  BY <1>1, <1>2, TailIs DEF Having
<1>5. ~Pending(u, e)
  <2>1. Having(u, RoomReq) = {} /\ \A k \in Having(d, RoomAck) : k = 1
    BY <1>2, <1>4 DEF RoomFlow, OneAtMost
  <2>2. \A k \in DOMAIN e : k \in Nat /\ k # 0
    BY <1>3
  <2>3. \A k \in Having(e, RoomAck) : k + 1 = 1 /\ k \in Nat /\ k # 0
    BY <1>3, <2>1, <2>2 DEF Having, FewerAnswers
  <2>4. Having(e, RoomAck) = {}
    BY <2>3
  <2> QED
    BY <2>1, <2>4 DEF Pending
<1>6. ~Creating(u, e)
  BY <1>3, <1>5, FewerPending
<1>7. \A k \in DOMAIN u : ~Accepting(u[k])
  BY <1>2, <1>4 DEF RoomFlow
<1>8. t.isChat \/ ~a
  <2>1. CASE Head(d).type = "CREATE_CHATROOM_ACK"
    <3>1. Having(d, {"CREATE_CHATROOM_ACK"}) # {}
      BY <1>4, <2>1 DEF Having
    <3> QED
      BY <1>1, <1>2, <2>1, <3>1 DEF RoomFlow, Creating
  <2>2. CASE Head(d).type = "EXIT_CHATROOM_ACK"
    <3>1. Having(d, {"EXIT_CHATROOM_ACK"}) # {}
      BY <1>4, <2>2 DEF Having
    <3> QED
      BY <1>2, <3>1 DEF RoomFlow
  <2> QED
    BY <1>1, <2>1, <2>2 DEF RoomAck
<1> HIDE DEF e
<1>9. RoomFlow(t, u, e, a)
  BY <1>1, <1>2, <1>3, <1>5, <1>6, <1>7, <1>8, FewerFlow
<1> QED
  BY <1>1, <1>9 DEF u, t

\* Pipes that are read, and given answers under that name.
LEMMA CalledStill ==
    ASSUME NEW T, NEW u \in Seq(T), NEW d \in Seq(T), NEW w \in Seq(T), NEW e, NEW name,
           Called(u, d, name), \A k \in DOMAIN w : w[k].type = "INVITE_ACK" => w[k].dst = name,
           e = d \/ e = <<>> \/ (d # <<>> /\ e = Tail(d))
    PROVE  Called(u, e, name) /\ Called(u \o w, e, name)
<1> DEFINE v == u \o w
<1>1. \A k \in DOMAIN v :
         \/ k \in DOMAIN u /\ v[k] = u[k]
         \/ k - Len(u) \in DOMAIN w /\ v[k] = w[k - Len(u)]
  BY JoinIs
<1> HIDE DEF v
<1>2. \A k \in Having(v, {"INVITE_ACK"}) : v[k].dst = name
  BY <1>1 DEF Having, Called
<1>3. ASSUME NEW k \in Having(e, {"INVITE_REQ"}) PROVE e[k].dst = name
  <2>1. CASE e = d
    BY <1>3, <2>1 DEF Called
  <2>2. CASE e = <<>>
    BY <1>3, <2>2 DEF Having
  <2>3. CASE d # <<>> /\ e = Tail(d)
    <3>1. \A j \in DOMAIN e : j + 1 \in DOMAIN d /\ e[j] = d[j + 1]
      BY <2>3, TailIs
    <3> QED
      BY <1>3, <3>1 DEF Having, Called
  <2> QED
    BY <2>1, <2>2, <2>3
<1> QED
  BY <1>2, <1>3 DEF Called, v

\* A step of a process leaves invitations under the name they were.
LEMMA StepCalled ==
    ASSUME PipesTyped, NEW c \in Clients, RoomStep(c), ClientMoves(c), NEW name,
           Called(up[c], down[c], name)
    PROVE  Called(up'[c], down'[c], name)
<1> DEFINE T == Upward \cup Downward
           u == up[c]
           d == down[c]
           e == down'[c]
<1>1. u \in Seq(Upward) /\ d \in Seq(Downward)
  BY DEF PipesTyped
<1>2. u \in Seq(T) /\ d \in Seq(T)
  BY <1>1
<1>3. e = d \/ e = <<>> \/ (d # <<>> /\ e = Tail(d))
  BY DEF ClientMoves, GoesOn, Stops
<1>4. Called(u, d, name)
  OBVIOUS
<1>5. CASE Plainly(c)
  <2>1. PICK w \in Seq(Plain) : up'[c] = u \o w
    BY <1>5 DEF Plainly
  <2>2. \A k \in DOMAIN w : w[k] \in Plain
    OBVIOUS
  <2>3. \A k \in DOMAIN w : w[k].type # "INVITE_ACK"
    BY <2>2 DEF Plain
  <2>4. w \in Seq(T)
    BY DEF Plain
  <2> HIDE DEF u, d, e, T
  <2>5. Called(u \o w, e, name)
    BY <1>2, <1>3, <1>4, <2>3, <2>4, CalledStill
  <2> QED
    BY <2>1, <2>5 DEF e
<1>6. CASE Asks(c) \/ Replies(c)
  <2>1. PICK p : /\ Adds(c, p)
                 /\ p.type = "INVITE_ACK" => d # <<>> /\ Head(d).type = "INVITE_REQ" /\ p.dst = Head(d).dst
    BY <1>6 DEF Asks, Replies, ReadsOne, RoomReq
  <2>2. p \in T /\ up'[c] = u \o <<p>>
    BY <2>1 DEF Adds
  <2> HIDE DEF u, d, e, T
  <2>3. ASSUME p.type = "INVITE_ACK" PROVE p.dst = name
    <3>1. Head(d) = d[1] /\ 1 \in DOMAIN d
      BY <1>2, <2>1, <2>3, TailIs
    <3> QED
      BY <1>4, <2>1, <2>3, <3>1 DEF Called, Having
  <2> DEFINE w == <<p>>
  <2>4. w \in Seq(T) /\ \A k \in DOMAIN w : w[k].type = "INVITE_ACK" => w[k].dst = name
    BY <2>2, <2>3
  <2> HIDE DEF w
  <2>5. Called(u \o w, e, name)
    BY <1>2, <1>3, <1>4, <2>4, CalledStill
  <2> QED
    BY <2>2, <2>5 DEF e, w
<1>7. CASE Learnt(c)
  <2>1. up'[c] = u
    BY <1>7 DEF Learnt
  <2> HIDE DEF u, d, e, T
  <2> DEFINE w == <<>>
  <2>2. w \in Seq(T) /\ \A k \in DOMAIN w : w[k].type = "INVITE_ACK" => w[k].dst = name
    OBVIOUS
  <2> HIDE DEF w
  <2>3. Called(u, e, name)
    BY <1>2, <1>3, <1>4, <2>2, CalledStill
  <2> QED
    BY <2>1, <2>3 DEF e
<1> QED
  BY <1>5, <1>6, <1>7 DEF RoomStep, Unrelated

\* A running process of a patient user goes on with what it had of rooms.
LEMMA StepFlow ==
    ASSUME PipesTyped, NEW c \in Patient, RoomStep(c), client'[c].pc = "running",
           Len(client[c].waits) < ClientPool, NEW a, RoomFlow(client[c], up[c], down[c], a)
    PROVE  RoomFlow(client'[c], up'[c], down'[c], a)
<1> DEFINE T == Upward \cup Downward
<1>1. c \in Clients
  BY ChatClientAssumption
<1>2. up[c] \in Seq(Upward) /\ down[c] \in Seq(Downward)
  BY <1>1 DEF PipesTyped
<1>3. up[c] \in Seq(T) /\ down[c] \in Seq(T) /\ Upward \subseteq T /\ Plain \subseteq T
  BY <1>2 DEF Plain
<1> HIDE DEF T
<1> QED
  BY <1>3, UnrelatedFlow, AsksFlow, RepliesFlow, LearntFlow DEF RoomStep

\* What a client does breaks nothing of it.
LEMMA ClientKeepsRooms ==
    ASSUME SysInv, RoomInv, WaitsFit, NEW c \in Clients, UserActs(c) \/ ClientActs(c)
    PROVE  RoomInv'
<1>1. Typed /\ PipesTyped
  BY DEF SysInv, Typed
<1>2. ClientMoves(c) /\ UNCHANGED serverVars /\ RoomStep(c)
  BY <1>1, ClientsMove, ClientRooms
<1>3. /\ link' = link /\ clientList' = clientList /\ status' = status
      /\ \A d \in Clients \ {c} : client'[d] = client[d] /\ up'[d] = up[d] /\ down'[d] = down[d]
      /\ link[c] = 0 => up'[c] = up[c]
  BY <1>2 DEF ClientMoves, OthersStay, serverVars
<1>4. client'[c].pc = "running" => client[c].pc = "running"
  BY <1>2 DEF ClientMoves, Stops, GoesOn
<1>5. Unlinked'
  BY <1>3 DEF RoomInv, Unlinked
<1>6. CallsFlow'
  <2>1. ASSUME NEW d \in Clients, NEW i \in DOMAIN clientList, link[d] # 0,
               clientList[i].fd = link[d]
        PROVE  Called(up'[d], down'[d], clientList[i].name)
    <3>1. Called(up[d], down[d], clientList[i].name)
      BY <2>1 DEF RoomInv, CallsFlow
    <3> QED
      BY <1>1, <1>2, <1>3, <3>1, StepCalled
  <2> QED
    BY <1>3, <2>1 DEF CallsFlow
<1>7. RoomsFlow'
  <2>1. ASSUME NEW d \in Patient, client'[d].pc = "running", link[d] # 0
        PROVE  /\ RoomFlow(client'[d], up'[d], down'[d], InRoom(link[d]))
               /\ \A i \in DOMAIN clientList :
                     clientList[i].fd = link[d] /\ clientList[i].chatRoom > 0 =>
                        clientList[i].name \in Names
    <3>1. d \in Clients
      BY ChatClientAssumption
    <3>2. client[d].pc = "running" /\ Len(client[d].waits) < ClientPool
      BY <1>3, <1>4, <2>1, <3>1 DEF WaitsFit
    <3>3. /\ RoomFlow(client[d], up[d], down[d], InRoom(link[d]))
          /\ \A i \in DOMAIN clientList :
                clientList[i].fd = link[d] /\ clientList[i].chatRoom > 0 =>
                   clientList[i].name \in Names
      BY <2>1, <3>2 DEF RoomInv, RoomsFlow
    <3>4. RoomFlow(client'[d], up'[d], down'[d], InRoom(link[d]))
      BY <1>1, <1>2, <1>3, <2>1, <3>1, <3>2, <3>3, StepFlow
    <3> QED
      BY <3>3, <3>4
  <2>2. \A d \in Patient : InRoom(link[d])' = InRoom(link[d])
    BY <1>3 DEF InRoom
  <2> QED
    BY <1>3, <2>1, <2>2 DEF RoomsFlow
<1> QED
  BY <1>5, <1>6, <1>7 DEF RoomInv

-----------------------------------------------------------------------------
(* What the server does to its list, and what it writes.                   *)

\* Slot j before the step and slot k after it are of one client, in one room.
Stays(j, k) ==
    /\ clientList'[k].fd = clientList[j].fd /\ clientList'[k].name = clientList[j].name
    /\ clientList'[k].chatRoom = clientList[j].chatRoom
RoomsStay == \A k \in DOMAIN clientList' : \E j \in DOMAIN clientList : Stays(j, k)

\* Reading p from client i gives nobody but i a name, and puts nobody but i, or
\* who p says accepts an invitation, in a room.
Named(i, p, j, k) ==
    \/ clientList'[k].name = clientList[j].name
    \/ p.type = "CONN_REQ" /\ j = i /\ clientList'[k].name = p.src /\ p.src \in Names
Moved(i, p, j, k) ==
    \/ clientList'[k].chatRoom = clientList[j].chatRoom /\ (p.type = "EXIT_CHATROOM_REQ" => j # i)
    \/ p.type = "EXIT_CHATROOM_REQ" /\ j = i /\ clientList'[k].chatRoom = 0
    \/ p.type = "CREATE_CHATROOM_REQ" /\ j = i
    \/ Accepting(p) /\ clientList[j].name = p.dst
Moves(i, p) ==
    \A k \in DOMAIN clientList' : \E j \in DOMAIN clientList :
       clientList'[k].fd = clientList[j].fd /\ Named(i, p, j, k) /\ Moved(i, p, j, k)

\* A list of which only ages change, and at most one room.
LEMMA RefreshedRooms ==
    ASSUME S!IInv, NEW i \in DOMAIN clientList
    PROVE  /\ clientList' = clientList \/ clientList' = S!Refreshed(i) => RoomsStay
           /\ \A d \in DOMAIN clientList : \A room :
                 clientList' = [S!Refreshed(i) EXCEPT ![d].chatRoom = room] =>
                    /\ DOMAIN clientList' = DOMAIN clientList
                    /\ \A k \in DOMAIN clientList :
                          /\ clientList'[k].fd = clientList[k].fd
                          /\ clientList'[k].name = clientList[k].name
                          /\ clientList'[k].chatRoom = IF k = d THEN room
                                                       ELSE clientList[k].chatRoom
<1> DEFINE old == S!Refreshed(i)
<1>1. clientList \in Seq(S!ClientRecord)
  BY DEF S!IInv, S!TypeOK
<1>2. /\ old \in Seq(S!ClientRecord) /\ DOMAIN old = DOMAIN clientList
      /\ \A k \in DOMAIN clientList :
            /\ old[k].name = clientList[k].name /\ old[k].fd = clientList[k].fd
            /\ old[k].chatRoom = clientList[k].chatRoom
  BY <1>1, ServerAssumed, S!RefreshedType
<1> HIDE DEF old
<1>3. clientList' = clientList \/ clientList' = old => RoomsStay
  BY <1>2 DEF RoomsStay, Stays
<1>4. ASSUME NEW d \in DOMAIN clientList, NEW room,
             clientList' = [old EXCEPT ![d].chatRoom = room]
      PROVE  /\ DOMAIN clientList' = DOMAIN clientList
             /\ \A k \in DOMAIN clientList :
                   /\ clientList'[k].fd = clientList[k].fd
                   /\ clientList'[k].name = clientList[k].name
                   /\ clientList'[k].chatRoom = IF k = d THEN room ELSE clientList[k].chatRoom
  <2>1. DOMAIN clientList' = DOMAIN clientList
    BY <1>2, <1>4
  <2>2. ASSUME NEW k \in DOMAIN clientList
        PROVE  /\ clientList'[k].fd = old[k].fd /\ clientList'[k].name = old[k].name
               /\ clientList'[k].chatRoom = IF k = d THEN room ELSE old[k].chatRoom
    <3>1. old[k] \in S!ClientRecord
      BY <1>2
    <3>2. /\ [old[k] EXCEPT !.chatRoom = room].name = old[k].name
          /\ [old[k] EXCEPT !.chatRoom = room].fd = old[k].fd
          /\ [old[k] EXCEPT !.chatRoom = room].chatRoom = room
      BY <3>1 DEF S!ClientRecord
    <3>3. clientList'[k] = IF k = d THEN [old[k] EXCEPT !.chatRoom = room] ELSE old[k]
      BY <1>2, <1>4
    <3> QED
      BY <3>2, <3>3
  <2> QED
    BY <1>2, <2>1, <2>2
<1> QED
  BY <1>3, <1>4 DEF old

\* Deletion leaves the others where they are.
LEMMA DeletedRooms ==
    ASSUME S!IInv, NEW d \in DOMAIN clientList, S!Server_Del_Client_List(d)
    PROVE  RoomsStay
<1>1. clientList \in Seq(S!ClientRecord) /\ clientList' = S!WithoutClient(clientList, d)
  BY DEF S!IInv, S!TypeOK, S!Server_Del_Client_List
<1> DEFINE list == S!WithoutClient(clientList, d)
<1>2. /\ Len(list) = Len(clientList) - 1 /\ list \in Seq(S!ClientRecord)
      /\ \A m \in 1..(Len(clientList) - 1) :
            list[m] = clientList[IF m < d THEN m ELSE m + 1]
  BY <1>1, ServerAssumed, S!WithoutClientShifts
<1> HIDE DEF list
<1>3. Len(clientList) \in Nat /\ DOMAIN clientList = 1..Len(clientList)
  BY <1>1
<1>4. DOMAIN list = 1..(Len(clientList) - 1)
  BY <1>2
<1>5. ASSUME NEW k \in DOMAIN list
      PROVE  \E j \in DOMAIN clientList : list[k] = clientList[j]
  <2>1. (IF k < d THEN k ELSE k + 1) \in DOMAIN clientList
    BY <1>3, <1>4
  <2> QED
    BY <1>2, <1>4, <2>1
<1>6. clientList' = list
  BY <1>1 DEF list
<1> QED
  BY <1>5, <1>6 DEF RoomsStay, Stays

\* A login changes no room.
LEMMA LoginMoves ==
    ASSUME S!IInv, NEW i, NEW p, NEW lost, p.type = "CONN_REQ",
           S!ConnReq(i, p.src, p.src \in Registered, lost)
    PROVE  Moves(i, p)
<1>1. i \in DOMAIN clientList /\ clientList \in Seq(S!ClientRecord)
  BY DEF S!ConnReq, S!Reads, S!IInv, S!TypeOK
<1> DEFINE old == S!Refreshed(i)
           renamed == [old[i] EXCEPT !.name = p.src]
<1>2. /\ old \in Seq(S!ClientRecord) /\ DOMAIN old = DOMAIN clientList
      /\ \A k \in DOMAIN clientList :
            /\ old[k].name = clientList[k].name /\ old[k].fd = clientList[k].fd
            /\ old[k].chatRoom = clientList[k].chatRoom
  BY <1>1, ServerAssumed, S!RefreshedType
<1>3. clientList' = old \/ (p.src \in Registered /\ clientList' = [old EXCEPT ![i].name = p.src])
  BY DEF S!ConnReq, S!Admitted
<1> HIDE DEF old
<1>4. renamed.fd = old[i].fd /\ renamed.name = p.src /\ renamed.chatRoom = old[i].chatRoom
  <2>1. old[i] \in S!ClientRecord
    BY <1>1, <1>2
  <2> QED
    BY <2>1 DEF S!ClientRecord
<1>5. CASE clientList' = old
  BY <1>2, <1>5 DEF Moves, Named, Moved
<1>6. CASE p.src \in Registered /\ clientList' = [old EXCEPT ![i] = renamed]
  <2> HIDE DEF renamed
  <2>1. DOMAIN clientList' = DOMAIN clientList
    BY <1>2, <1>6
  <2>2. p.src \in Names
    BY <1>6, ChatSystemAssumption
  <2>3. ASSUME NEW k \in DOMAIN clientList
        PROVE  clientList'[k].fd = clientList[k].fd /\ Named(i, p, k, k) /\ Moved(i, p, k, k)
    <3>1. clientList'[k] = IF k = i THEN renamed ELSE old[k]
      BY <1>2, <1>6
    <3> QED
      BY <1>1, <1>2, <1>4, <2>2, <3>1 DEF Named, Moved
  <2> QED
    BY <2>1, <2>3 DEF Moves
<1> QED
  BY <1>3, <1>5, <1>6

\* Whatever the packet is.
LEMMA HandledMoves ==
    ASSUME S!IInv, NEW i \in DOMAIN clientList, NEW p \in Upward, NEW lost, Handled(i, p, lost)
    PROVE  Moves(i, p)
<1>1. clientList \in Seq(S!ClientRecord) /\ S!UniqueClients
  BY DEF S!IInv, S!TypeOK
<1>2. ASSUME RoomsStay, p.type # "EXIT_CHATROOM_REQ"
      PROVE  Moves(i, p)
  BY <1>2 DEF RoomsStay, Stays, Moves, Named, Moved
<1>3. ASSUME clientList' = clientList \/ clientList' = S!Refreshed(i)
      PROVE  RoomsStay
  BY <1>3, RefreshedRooms
<1>4. CASE p.type = "CONN_REQ" /\ S!ConnReq(i, p.src, p.src \in Registered, lost)
  BY <1>4, LoginMoves
<1>5. CASE \/ p.type \in S!ServiceReq /\ S!ServiceRequest(i, p.type, p.src, lost)
           \/ p.type = "ALL_USER_REQ" /\ S!AllUserReq(i)
           \/ p.type = "ALRAM_ACK" /\ S!AlramAck(i)
           \/ p.type = "PING_ACK" /\ S!PingAck(i)
           \/ /\ p.type = "INVITE_REQ"
              /\ S!InviteReq(i, p.src, p.dst, <<p.dst, p.src>> \in Rejected, Forward[p.dst], lost)
           \/ p.type = "STR_REQ" /\ S!StrReq(i, p.src, lost)
           \/ p.type = "STR_ACK" /\ S!StrAck(i, p.src, p.dst, lost)
  <2>1. p.type # "EXIT_CHATROOM_REQ"
    BY <1>5 DEF S!ServiceReq
  <2>2. clientList' = clientList \/ clientList' = S!Refreshed(i)
    BY <1>5 DEF S!ServiceRequest, S!AllUserReq, S!AlramAck, S!PingAck,
       S!InviteReq, S!StrReq, S!StrAck, S!OnlyRefreshed, S!Crash
  <2> QED
    BY <1>2, <1>3, <2>1, <2>2
<1>6. CASE \/ p.type = "EXIT_REQ" /\ S!ExitReq(i, lost)
           \/ p.type = "EXIT_ACK" /\ S!ExitAck(i)
  <2>1. S!Server_Search_Client(clientList[i].name) = i
    BY <1>1, ServerAssumed, S!SearchOwnName
  <2>2. S!Server_Del_Client_List(i)
    BY <1>6, <2>1 DEF S!ExitReq, S!ExitAck
  <2> QED
    BY <1>2, <1>6, <2>2, DeletedRooms
<1>7. CASE /\ p.type = "CREATE_CHATROOM_REQ"
           /\ \E r \in 0..Rooms : S!CreateChatroomReq(i, r, p.src, lost)
  <2>1. PICK r \in 0..Rooms : S!CreateChatroomReq(i, r, p.src, lost)
    BY <1>7
  <2>2. clientList' = clientList \/ clientList' = [S!Refreshed(i) EXCEPT ![i].chatRoom = r]
    BY <2>1 DEF S!CreateChatroomReq, S!Crash
  <2>3. ASSUME clientList' = [S!Refreshed(i) EXCEPT ![i].chatRoom = r]
        PROVE  /\ DOMAIN clientList' = DOMAIN clientList
               /\ \A k \in DOMAIN clientList :
                     /\ clientList'[k].fd = clientList[k].fd
                     /\ clientList'[k].name = clientList[k].name
                     /\ k # i => clientList'[k].chatRoom = clientList[k].chatRoom
    BY <2>3, RefreshedRooms
  <2> QED
    BY <1>2, <1>3, <1>7, <2>2, <2>3 DEF Moves, Named, Moved
<1>8. CASE p.type = "EXIT_CHATROOM_REQ" /\ S!ExitChatroomReq(i, p.src, lost)
  <2>1. clientList' = [S!Refreshed(i) EXCEPT ![i].chatRoom = 0]
    BY <1>8 DEF S!ExitChatroomReq
  <2>2. /\ DOMAIN clientList' = DOMAIN clientList
        /\ \A k \in DOMAIN clientList :
              /\ clientList'[k].fd = clientList[k].fd
              /\ clientList'[k].name = clientList[k].name
              /\ clientList'[k].chatRoom = IF k = i THEN 0 ELSE clientList[k].chatRoom
    BY <2>1, RefreshedRooms
  <2> QED
    BY <1>8, <2>2 DEF Moves, Named, Moved
<1>9. CASE p.type = "INVITE_ACK" /\ S!InviteAck(i, p.src, p.dst, p.body, lost)
  <2> DEFINE d == S!Server_Search_Client(p.dst)
             r == clientList[S!Server_Search_Client(p.src)].chatRoom
  <2>1. d # 0 => d \in DOMAIN clientList /\ clientList[d].name = p.dst
    BY <1>1, ServerAssumed, S!SearchFinds
  <2>2. \/ clientList' = clientList \/ clientList' = S!Refreshed(i)
        \/ d # 0 /\ p.body = "yes" /\ clientList' = [S!Refreshed(i) EXCEPT ![d].chatRoom = r]
    BY <1>9 DEF S!InviteAck, S!OnlyRefreshed, S!Crash
  <2> HIDE DEF d, r
  <2>3. ASSUME d # 0, p.body = "yes", clientList' = [S!Refreshed(i) EXCEPT ![d].chatRoom = r]
        PROVE  Moves(i, p)
    <3>1. /\ DOMAIN clientList' = DOMAIN clientList
          /\ \A k \in DOMAIN clientList :
                /\ clientList'[k].fd = clientList[k].fd
                /\ clientList'[k].name = clientList[k].name
                /\ k # d => clientList'[k].chatRoom = clientList[k].chatRoom
      BY <2>1, <2>3, RefreshedRooms
    <3> QED
      BY <1>9, <2>1, <2>3, <3>1 DEF Moves, Named, Moved, Accepting
  <2> QED
    BY <1>2, <1>3, <1>9, <2>2, <2>3
<1> QED
  BY <1>4, <1>5, <1>6, <1>7, <1>8, <1>9 DEF Handled

\* What it writes about rooms answers p, and it invites under the name listed.
Writes(i, p) ==
    \A q \in out'.sent :
       /\ q.type \in RoomAck => p.type \in RoomReq /\ q.fd = clientList[i].fd
       /\ q.type = "INVITE_REQ" =>
             \E j \in DOMAIN clientList : clientList[j].fd = q.fd /\ clientList[j].name = q.dst
Answers(i, p, lost) ==
    p.src # NoName /\ clientList[i].fd \in openFds \ lost /\ status' = "running" =>
       /\ p.type = "CREATE_CHATROOM_REQ" =>
             \E q : SentTo(clientList[i].fd) = {q} /\ q.type = "CREATE_CHATROOM_ACK"
       /\ p.type = "EXIT_CHATROOM_REQ" =>
             \E q : SentTo(clientList[i].fd) = {q} /\ q.type = "EXIT_CHATROOM_ACK"
NoRooms == \A q \in out'.sent : q.type \notin RoomAck \cup {"INVITE_REQ"}

\* What is sent is part of what there is to send.
LEMMA SentIs ==
    ASSUME NEW P, NEW lost, out' = S!Outcome(P, lost)
    PROVE  out'.sent = {q \in P : q.fd \in openFds \ lost}
BY DEF S!Outcome, S!Accepts

\* A packet that is held back when its name is empty is that packet.
LEMMA ToNamedIs == \A name, p : \A q \in S!ToNamed(name, p) : q = p
BY DEF S!ToNamed

\* The packets that are not about rooms.
LEMMA OtherWrites ==
    ASSUME NEW fd, NEW a, NEW b, NEW body
    PROVE  /\ S!Server_Exit_Ack(fd, a).type \notin RoomAck \cup {"INVITE_REQ"}
           /\ S!Server_Exit_Request(fd, a).type \notin RoomAck \cup {"INVITE_REQ"}
           /\ S!Server_Ping_Request(fd, a).type \notin RoomAck \cup {"INVITE_REQ"}
           /\ S!RepeatedPing(fd).type \notin RoomAck \cup {"INVITE_REQ"}
           /\ S!Server_Chat_Request(fd, a).type \notin RoomAck \cup {"INVITE_REQ"}
           /\ S!Server_Invite_Client_Ack(fd, a, b, body).type \notin RoomAck \cup {"INVITE_REQ"}
           /\ \A q \in S!Server_Ack_To_Client(fd, a, body) : q.type \notin RoomAck \cup {"INVITE_REQ"}
           /\ \A q \in S!Server_Chat_Ack(fd, a, b) : q.type \notin RoomAck \cup {"INVITE_REQ"}
           /\ \A q \in S!Server_Service_Ack(fd, a, b) : q.type \notin RoomAck \cup {"INVITE_REQ"}
<1> DEFINE Apart(type) == type \notin RoomAck \cup {"INVITE_REQ"}
<1>1. ASSUME NEW q \in S!Server_Service_Ack(fd, a, b) PROVE Apart(q.type)
  <2>1. S!Server_Service_Ack(fd, a, b) = S!ToNamed(a, S!Packet(fd, S!ServiceAck(b), NoName, a, ""))
    BY DEF S!Server_Service_Ack
  <2>2. q = S!Packet(fd, S!ServiceAck(b), NoName, a, "")
    BY <1>1, <2>1, ToNamedIs
  <2>3. q.type = S!ServiceAck(b)
    BY <2>2 DEF S!Packet
  <2>4. Apart(S!ServiceAck(b))
    BY DEF S!ServiceAck, RoomAck
  <2> QED
    BY <2>3, <2>4
<1>2. ASSUME NEW q \in S!Server_Ack_To_Client(fd, a, body) PROVE Apart(q.type)
  <2>1. S!Server_Ack_To_Client(fd, a, body)
           = S!ToNamed(a, S!Packet(fd, "CONN_ACK", NoName, a, body))
    BY DEF S!Server_Ack_To_Client
  <2>2. q = S!Packet(fd, "CONN_ACK", NoName, a, body)
    BY <1>2, <2>1, ToNamedIs
  <2>3. q.type = "CONN_ACK"
    BY <2>2 DEF S!Packet
  <2> QED
    BY <2>3 DEF RoomAck
<1>3. ASSUME NEW q \in S!Server_Chat_Ack(fd, a, b) PROVE Apart(q.type)
  <2>1. S!Server_Chat_Ack(fd, a, b) = S!ToNamed(a, S!Packet(fd, "STR_ACK", NoName, b, ""))
    BY DEF S!Server_Chat_Ack
  <2>2. q = S!Packet(fd, "STR_ACK", NoName, b, "")
    BY <1>3, <2>1, ToNamedIs
  <2>3. q.type = "STR_ACK"
    BY <2>2 DEF S!Packet
  <2> QED
    BY <2>3 DEF RoomAck
<1>4. /\ S!Server_Exit_Ack(fd, a).type = "EXIT_ACK"
      /\ S!Server_Exit_Request(fd, a).type = "EXIT_REQ"
      /\ S!Server_Ping_Request(fd, a).type = "PING_REQ"
      /\ S!RepeatedPing(fd).type = "PING_REQ"
      /\ S!Server_Chat_Request(fd, a).type = "STR_REQ"
      /\ S!Server_Invite_Client_Ack(fd, a, b, body).type = "INVITE_ACK"
  BY DEF S!Server_Exit_Ack, S!Server_Exit_Request, S!Server_Ping_Request, S!RepeatedPing,
     S!Server_Chat_Request, S!Server_Invite_Client_Ack, S!Packet
<1>5. \A type \in {"EXIT_ACK", "EXIT_REQ", "PING_REQ", "STR_REQ", "INVITE_ACK"} : Apart(type)
  BY DEF RoomAck
<1> HIDE DEF Apart
<1>6. /\ Apart(S!Server_Exit_Ack(fd, a).type) /\ Apart(S!Server_Exit_Request(fd, a).type)
      /\ Apart(S!Server_Ping_Request(fd, a).type) /\ Apart(S!RepeatedPing(fd).type)
      /\ Apart(S!Server_Chat_Request(fd, a).type)
      /\ Apart(S!Server_Invite_Client_Ack(fd, a, b, body).type)
  BY <1>4, <1>5
<1> QED
  BY <1>1, <1>2, <1>3, <1>6 DEF Apart

\* The alarms of a room go to others than fd.
LEMMA AlarmWrites ==
    ASSUME NEW r, NEW fd
    PROVE  \A q \in S!Alarms(r, fd) : q.fd # fd /\ q.type \notin RoomAck \cup {"INVITE_REQ"}
BY DEF S!Alarms, S!Others, S!Server_Alram_Request, S!Packet, RoomAck

\* A handler of something else writes nothing about rooms, or invites.
LEMMA OtherHandlers ==
    ASSUME S!IInv, NEW i \in DOMAIN clientList, NEW p \in Upward, NEW lost,
           Handled(i, p, lost), p.type \notin RoomReq \cup {"INVITE_REQ"}
    PROVE  NoRooms
<1> USE DEF NoRooms
<1>1. CASE S!Silent
  BY <1>1 DEF S!Silent
<1>2. CASE p.type = "CONN_REQ" /\ S!ConnReq(i, p.src, p.src \in Registered, lost)
  <2> DEFINE P(state) == S!Server_Ack_To_Client(clientList[i].fd, p.src, state)
  <2>1. PICK state : out' = S!Outcome(P(state), lost)
    BY <1>2 DEF S!ConnReq
  <2>2. \A q \in P(state) : q.type \notin RoomAck \cup {"INVITE_REQ"}
    BY OtherWrites
  <2> HIDE DEF P
  <2> QED
    BY <2>1, <2>2, SentIs
<1>3. CASE p.type \in S!ServiceReq /\ S!ServiceRequest(i, p.type, p.src, lost)
  <2> DEFINE P == S!Server_Service_Ack(clientList[i].fd, p.src, p.type)
  <2>1. out' = S!Outcome(P, lost)
    BY <1>3 DEF S!ServiceRequest
  <2>2. \A q \in P : q.type \notin RoomAck \cup {"INVITE_REQ"}
    BY OtherWrites
  <2> HIDE DEF P
  <2> QED
    BY <2>1, <2>2, SentIs
<1>4. CASE S!AllUserReq(i) \/ S!ExitAck(i) \/ S!AlramAck(i) \/ S!PingAck(i)
  BY <1>1, <1>4 DEF S!AllUserReq, S!ExitAck, S!AlramAck, S!PingAck, S!Crash
<1>5. CASE p.type = "EXIT_REQ" /\ S!ExitReq(i, lost)
  <2> DEFINE alarms == IF clientList[i].chatRoom # 0 /\ deficit[clientList[i].chatRoom] # 1
                       THEN S!Alarms(clientList[i].chatRoom, clientList[i].fd) ELSE {}
             bye == S!Server_Exit_Ack(clientList[i].fd, clientList[i].name)
  <2>1. out' = S!Outcome(alarms \cup {bye}, lost)
    BY <1>5 DEF S!ExitReq
  <2>2. \A q \in alarms : q.type \notin RoomAck \cup {"INVITE_REQ"}
    BY AlarmWrites
  <2>3. bye.type \notin RoomAck \cup {"INVITE_REQ"}
    BY OtherWrites
  <2> HIDE DEF alarms, bye
  <2> QED
    BY <2>1, <2>2, <2>3, SentIs
<1>6. CASE p.type = "INVITE_ACK" /\ S!InviteAck(i, p.src, p.dst, p.body, lost)
  <2> DEFINE r == clientList[S!Server_Search_Client(p.src)].chatRoom
             reply == S!Server_Invite_Client_Ack(clientList[S!Server_Search_Client(p.src)].fd,
                                                 p.src, p.dst, p.body)
             alarms == S!Alarms(r, clientList[i].fd)
  <2>1. \/ S!Silent \/ out' = S!Outcome({reply}, lost)
        \/ out' = S!Outcome(alarms \cup {reply}, lost)
    BY <1>6 DEF S!InviteAck, S!Crash
  <2>2. \A q \in alarms : q.type \notin RoomAck \cup {"INVITE_REQ"}
    BY AlarmWrites
  <2>3. reply.type \notin RoomAck \cup {"INVITE_REQ"}
    BY OtherWrites
  <2> HIDE DEF alarms, reply, r
  <2> QED
    BY <1>1, <2>1, <2>2, <2>3, SentIs
<1>7. CASE p.type = "STR_REQ" /\ S!StrReq(i, p.src, lost)
  <2> DEFINE r == clientList[i].chatRoom
             P == {S!Server_Chat_Request(chatRoomList[r][j], p.src) :
                      j \in S!Others(r, clientList[i].fd)}
  <2>1. S!Silent \/ out' = S!Outcome(P, lost)
    BY <1>7 DEF S!StrReq
  <2>2. \A q \in P : q.type \notin RoomAck \cup {"INVITE_REQ"}
    BY OtherWrites
  <2> HIDE DEF P
  <2> QED
    BY <1>1, <2>1, <2>2, SentIs
<1>8. CASE p.type = "STR_ACK" /\ S!StrAck(i, p.src, p.dst, lost)
  <2> DEFINE P == S!Server_Chat_Ack(clientList[S!Server_Search_Client(p.src)].fd, p.src, p.dst)
  <2>1. S!Silent \/ out' = S!Outcome(P, lost) \/ out' = S!Outcome({}, lost)
    BY <1>8 DEF S!StrAck, S!Crash
  <2>2. \A q \in P : q.type \notin RoomAck \cup {"INVITE_REQ"}
    BY OtherWrites
  <2> HIDE DEF P
  <2> QED
    BY <1>1, <2>1, <2>2, SentIs
<1> QED
  BY <1>2, <1>3, <1>4, <1>5, <1>6, <1>7, <1>8 DEF Handled, RoomReq

\* A question about rooms is answered, by that alone.
LEMMA RoomHandlers ==
    ASSUME S!IInv, NEW i \in DOMAIN clientList, NEW p \in Upward, NEW lost,
           Handled(i, p, lost), p.type \in RoomReq
    PROVE  Writes(i, p) /\ Answers(i, p, lost)
<1> DEFINE fd == clientList[i].fd
           create == S!Packet(fd, "CREATE_CHATROOM_ACK", NoName, p.src, "")
           leave == S!Packet(fd, "EXIT_CHATROOM_ACK", NoName, p.src, "")
<1>1. /\ create.fd = fd /\ create.type = "CREATE_CHATROOM_ACK"
      /\ leave.fd = fd /\ leave.type = "EXIT_CHATROOM_ACK"
  BY DEF S!Packet
<1>2. CASE /\ p.type = "CREATE_CHATROOM_REQ"
           /\ \E r \in 0..Rooms : S!CreateChatroomReq(i, r, p.src, lost)
  <2>1. \/ S!Silent /\ status' # "running"
        \/ out' = S!Outcome(S!ToNamed(p.src, create), lost)
    BY <1>2 DEF S!CreateChatroomReq, S!Crash, S!JoinFault, S!Server_Create_Chat_Room_Ack
  <2> HIDE DEF fd, create, leave
  <2>2. CASE S!Silent /\ status' # "running"
    BY <2>2 DEF S!Silent, Writes, Answers
  <2>3. CASE out' = S!Outcome(S!ToNamed(p.src, create), lost)
    <3>1. out'.sent = {q \in S!ToNamed(p.src, create) : q.fd \in openFds \ lost}
      BY <2>3, SentIs
    <3>2. \A q \in out'.sent : q = create
      BY <3>1 DEF S!ToNamed
    <3>3. p.src # NoName /\ fd \in openFds \ lost => SentTo(fd) = {create}
      BY <1>1, <3>1 DEF S!ToNamed, SentTo
    <3>4. Writes(i, p)
      BY <1>1, <1>2, <3>2 DEF Writes, fd, RoomReq, RoomAck
    <3> QED
      BY <1>1, <1>2, <3>3, <3>4 DEF Answers, fd
  <2> QED
    BY <2>1, <2>2, <2>3
<1>3. CASE p.type = "EXIT_CHATROOM_REQ" /\ S!ExitChatroomReq(i, p.src, lost)
  <2> DEFINE alarms == S!Alarms(clientList[i].chatRoom, fd)
  <2>1. out' = S!Outcome(alarms \cup S!ToNamed(p.src, leave), lost)
    BY <1>3 DEF S!ExitChatroomReq, S!Server_Exit_Chat_Romm_Ack
  <2>2. \A q \in alarms : q.fd # fd /\ q.type \notin RoomAck \cup {"INVITE_REQ"}
    BY AlarmWrites
  <2> DEFINE P == alarms \cup S!ToNamed(p.src, leave)
  <2>0. out' = S!Outcome(P, lost)
    BY <2>1
  <2> HIDE DEF fd, create, leave, alarms, P
  <2>3. out'.sent = {q \in P : q.fd \in openFds \ lost}
    BY <2>0, SentIs
  <2>4. \A q \in out'.sent : q \in alarms \/ q = leave
    BY <2>3, ToNamedIs DEF P
  <2>5. p.src # NoName /\ fd \in openFds \ lost => SentTo(fd) = {leave}
    <3>1. p.src # NoName => leave \in P
      BY DEF P, S!ToNamed
    <3> QED
      BY <1>1, <2>2, <2>3, <2>4, <3>1 DEF SentTo
  <2>6. Writes(i, p)
    BY <1>1, <1>3, <2>2, <2>4 DEF Writes, fd, RoomReq, RoomAck
  <2> QED
    BY <1>1, <1>3, <2>5, <2>6 DEF Answers, fd
<1> QED
  BY <1>2, <1>3 DEF Handled, RoomReq, S!ServiceReq

\* An invitation goes to the descriptor of its name.
LEMMA InviteHandler ==
    ASSUME S!IInv, NEW i \in DOMAIN clientList, NEW p \in Upward, NEW lost,
           Handled(i, p, lost), p.type = "INVITE_REQ"
    PROVE  Writes(i, p)
<1>1. clientList \in Seq(S!ClientRecord)
  BY DEF S!IInv, S!TypeOK
<1> DEFINE callee == IF S!Server_Search_Client(Forward[p.dst]) # 0 THEN Forward[p.dst] ELSE p.dst
           t == S!Server_Search_Client(callee)
           request == S!Server_Invite_Client_Request(clientList[t].fd, p.src, callee)
           refusal(name, answer) == S!Server_Invite_Client_Ack(clientList[i].fd, p.src, name, answer)
<1>2. S!InviteReq(i, p.src, p.dst, <<p.dst, p.src>> \in Rejected, Forward[p.dst], lost)
  BY DEF Handled, RoomReq, S!ServiceReq
<1>3. \/ S!Silent \/ out' = S!Outcome({refusal(p.dst, "no")}, lost)
      \/ out' = S!Outcome({refusal(callee, "busy")}, lost)
      \/ S!Server_Search_Client(p.dst) # 0 /\ out' = S!Outcome({request}, lost)
  BY <1>2 DEF S!InviteReq
<1>4. \A name, answer : refusal(name, answer).type \notin RoomAck \cup {"INVITE_REQ"}
  BY OtherWrites
<1>5. request.type = "INVITE_REQ" /\ request.fd = clientList[t].fd /\ request.dst = callee
  BY DEF S!Server_Invite_Client_Request, S!Packet
<1>6. S!Server_Search_Client(p.dst) # 0 => t # 0
  OBVIOUS
<1>7. t # 0 => t \in DOMAIN clientList /\ clientList[t].name = callee
  BY <1>1, ServerAssumed, S!SearchFinds
<1> HIDE DEF callee, t, request, refusal
<1>8. CASE S!Silent
  BY <1>8 DEF S!Silent, Writes
<1>9. CASE out' = S!Outcome({refusal(p.dst, "no")}, lost) \/ out' = S!Outcome({refusal(callee, "busy")}, lost)
  BY <1>4, <1>9, SentIs DEF Writes
<1>10. CASE S!Server_Search_Client(p.dst) # 0 /\ out' = S!Outcome({request}, lost)
  <2> DEFINE P == {request}
  <2>0. out' = S!Outcome(P, lost) /\ \A q \in P : q = request
    BY <1>10
  <2> HIDE DEF P
  <2>1. \A q \in out'.sent : q = request
    BY <2>0, SentIs
  <2> QED
    BY <1>5, <1>6, <1>7, <1>10, <2>1 DEF Writes, RoomAck
<1> QED
  BY <1>3, <1>8, <1>9, <1>10

\* Whatever the packet is.
LEMMA HandledWrites ==
    ASSUME S!IInv, NEW i \in DOMAIN clientList, NEW p \in Upward, NEW lost, Handled(i, p, lost)
    PROVE  Writes(i, p) /\ Answers(i, p, lost)
<1>1. CASE p.type \in RoomReq
  BY <1>1, RoomHandlers
<1>2. CASE p.type = "INVITE_REQ"
  BY <1>2, InviteHandler DEF Answers
<1>3. CASE p.type \notin RoomReq \cup {"INVITE_REQ"}
  BY <1>3, OtherHandlers DEF NoRooms, Writes, Answers, RoomReq
<1> QED
  BY <1>1, <1>2, <1>3

-----------------------------------------------------------------------------
(* What the server puts on the connections, and that it keeps the flows.   *)

\* What is written to a descriptor is copied from what is sent to it.
LEMMA WrittenFrom ==
    ASSUME S!IInv, S!Sends(Word), NEW r \in 0..Rooms, NEW to,
           NEW k \in DOMAIN Written(to, r)
    PROVE  \E q \in out'.sent : q.fd = to /\ Written(to, r)[k] = Copied(q)
<1> DEFINE T == {Copied(q) : q \in SentTo(to)}
<1>1. IsFiniteSet(out'.sent)
  BY DEF S!Sends, S!IsFiniteSet, IsFiniteSet
<1>2. chatRoomList[r] \in Seq(Fds)
  BY DEF S!IInv, S!TypeOK
<1>3. \A q \in out'.sent : q.fd = to => Copied(q) \in T
  BY DEF SentTo
<1> HIDE DEF T
<1>4. Written(to, r) \in Seq(T)
  BY <1>1, <1>2, <1>3, WrittenAre
<1>5. Written(to, r)[k] \in T
  BY <1>4
<1> QED
  BY <1>5 DEF T, SentTo

\* The one answer to a descriptor is written once.
LEMMA WrittenAlone ==
    ASSUME NEW to, NEW r, NEW q, SentTo(to) = {q}, q.type \notin OverRoom \cup {"PING_REQ"}
    PROVE  Written(to, r) = <<Copied(q)>>
<1> DEFINE mine == {p \in out'.sent : p.fd = to}
           cells == Cardinality({j \in DOMAIN chatRoomList[r] : chatRoomList[r][j] = to})
           first == {p \in mine : p.type \in OverRoom \cup {"PING_REQ"}}
           copy(p) == [type |-> p.type, src |-> p.src, dst |-> p.dst, body |-> p.body]
           n(p) == IF p.type \in OverRoom THEN cells ELSE 1
           copies(p) == [k \in 1..n(p) |-> copy(p)]
           long(P) == FlattenSeq([k \in DOMAIN SetToSeq(P) |-> copies(SetToSeq(P)[k])])
<1> HIDE DEF cells
<1>2. Written(to, r) = long(first) \o long(mine \ first)
  BY DEF Written, cells
<1>3. first = {} /\ mine \ first = {q}
  BY DEF SentTo
<1>4. SetToSeq({q}) = <<q>>
  <2> DEFINE s == SetToSeq({q})
  <2>1. s \in Seq({q}) /\ Len(s) = 1
    BY Enumerated, FS_Singleton
  <2> HIDE DEF s
  <2>2. s[1] = q /\ s = <<s[1]>>
    BY <2>1
  <2> QED
    BY <2>2 DEF s
<1>5. SetToSeq({}) = <<>>
  <2>1. SetToSeq({}) \in Seq({}) /\ Len(SetToSeq({})) = 0
    BY Enumerated, FS_EmptySet
  <2> QED
    BY <2>1
<1>6. copies(q) = <<Copied(q)>>
  <2>1. n(q) = 1
    OBVIOUS
  <2>2. copies(q) = [k \in 1..1 |-> Copied(q)]
    BY <2>1 DEF Copied
  <2> HIDE DEF copies
  <2> QED
    BY <2>2
<1> HIDE DEF first, mine, copies
<1>7. long({q}) = copies(q)
  <2>1. [k \in DOMAIN <<q>> |-> copies(<<q>>[k])] = <<copies(q)>>
    OBVIOUS
  <2> QED
    BY <1>4, <2>1, OneFlattened
<1>8. long({}) = <<>>
  <2>1. [k \in DOMAIN SetToSeq({}) |-> copies(SetToSeq({})[k])] = <<>>
    BY <1>5
  <2>2. Len(<<>>) = 0
    OBVIOUS
  <2>3. FlattenSeq(<<>>) = <<>>
    BY <2>2 DEF FlattenSeq
  <2> QED
    BY <2>1, <2>3
<1> HIDE DEF long
<1>9. Written(to, r) = <<>> \o <<Copied(q)>>
  BY <1>2, <1>3, <1>6, <1>7, <1>8
<1> QED
  BY <1>9

\* A flow goes on when a packet that matters to no room is read, or none, and
\* others are written, unless the server puts the client in a room.
LEMMA LeftFlow ==
    ASSUME NEW T, NEW u \in Seq(T), NEW d \in Seq(T), NEW w \in Seq(T), NEW s, NEW a, NEW b,
           RoomFlow(s, u, d, a), b => a, \A k \in DOMAIN w : w[k].type \notin RoomAck,
           NEW v, v = u \/ (u # <<>> /\ v = Tail(u))
    PROVE  RoomFlow(s, v, d \o w, b)
<1> DEFINE e == d \o w
<1>1. /\ e \in Seq(T) /\ FewerAnswers(d, e, 0)
      /\ \A k \in DOMAIN d : k \in DOMAIN e /\ e[k] = d[k]
  BY JoinIs, FewerOf
<1> HIDE DEF e
<1>2. PICK n \in Nat : v \in Seq(T) /\ FewerAsked(u, v, n)
  <2>1. 0 \in Nat /\ 1 \in Nat
    OBVIOUS
  <2>2. CASE v = u
    BY <2>1, <2>2, FewerOf
  <2>3. CASE u # <<>> /\ v = Tail(u)
    BY <2>1, <2>3, FewerOf, TailIs
  <2> QED
    BY <2>2, <2>3
<1>3. Pending(v, e) => s.asked
  BY <1>1, <1>2, FewerPending DEF RoomFlow
<1>4. Having(d, {"CREATE_CHATROOM_ACK"}) # {} => Having(e, {"CREATE_CHATROOM_ACK"}) # {}
  BY <1>1 DEF Having
<1>5. 0 \in Nat
  OBVIOUS
<1>6. RoomFlow(s, v, e, b)
  BY <1>1, <1>2, <1>3, <1>4, <1>5, FewerFlow
<1> QED
  BY <1>6 DEF e

-----------------------------------------------------------------------------
(* Who is in a room after a step, and who is told.                         *)

\* The server will have the client of that descriptor in a room.
WillBeIn(fd) ==
    \E k \in DOMAIN clientList' : clientList'[k].fd = fd /\ clientList'[k].chatRoom > 0

\* Nobody is in a room that was not, and it stays under its name.
LEMMA StaysOut ==
    ASSUME RoomsStay, NEW fd
    PROVE  /\ WillBeIn(fd) => InRoom(fd)
           /\ \A k \in DOMAIN clientList' : \E j \in DOMAIN clientList :
                 /\ clientList'[k].fd = clientList[j].fd
                 /\ clientList'[k].name = clientList[j].name
                 /\ clientList'[k].chatRoom = clientList[j].chatRoom
BY DEF RoomsStay, Stays, InRoom, WillBeIn

\* A step that reads and writes nothing, of a list that stays as it is.
LEMMA StillRooms ==
    ASSUME RoomInv, RoomsStay, client' = client, link' = link, up' = up, down' = down,
           status' = status
    PROVE  RoomInv'
<1>1. Unlinked'
  BY DEF RoomInv, Unlinked
<1>2. CallsFlow'
  BY StaysOut DEF RoomInv, CallsFlow
<1>3. RoomsFlow'
  <2>1. ASSUME NEW d \in Patient, client[d].pc = "running", link[d] # 0
        PROVE  /\ RoomFlow(client[d], up[d], down[d], WillBeIn(link[d]))
               /\ \A k \in DOMAIN clientList' :
                     clientList'[k].fd = link[d] /\ clientList'[k].chatRoom > 0 =>
                        clientList'[k].name \in Names
    <3>1. /\ RoomFlow(client[d], up[d], down[d], InRoom(link[d]))
          /\ \A i \in DOMAIN clientList :
                clientList[i].fd = link[d] /\ clientList[i].chatRoom > 0 =>
                   clientList[i].name \in Names
      BY <2>1 DEF RoomInv, RoomsFlow
    <3>2. WillBeIn(link[d]) => InRoom(link[d])
      BY StaysOut
    <3>3. RoomFlow(client[d], up[d], down[d], WillBeIn(link[d]))
      BY <3>1, <3>2 DEF RoomFlow
    <3> QED
      BY <3>1, <3>3, StaysOut
  <2>2. \A d \in Patient : InRoom(link[d])' = WillBeIn(link[d])
    BY DEF InRoom, WillBeIn
  <2> QED
    BY <2>1, <2>2 DEF RoomsFlow
<1> QED
  BY <1>1, <1>2, <1>3 DEF RoomInv

\* A step of the server that is about no room, and reads nothing.
LEMMA QuietRooms ==
    ASSUME SysInv, RoomInv, RoomsStay, NoRooms, S!IInv', S!Sends(Word), NEW r \in 0..Rooms,
           Delivers(r, up)
    PROVE  RoomInv'
<1> DEFINE T == Upward \cup Downward
<1>1. Typed /\ up \in [Clients -> Seq(Upward)]
  BY DEF SysInv, Typed, PipesTyped
<1>2. Serves(r)
  BY <1>1, DeliversKeeps
<1>3. /\ client' = client
      /\ \A d \in Clients : up'[d] = IF link'[d] = 0 THEN <<>> ELSE up[d]
      /\ \A d \in Clients : link'[d] # 0 => link'[d] = link[d]
  BY <1>2 DEF Delivers, Serves
<1>4. \A d \in Clients : link'[d] # 0 => link'[d] = link[d] /\ up'[d] = up[d]
  BY <1>3
<1>5. ASSUME NEW to
      PROVE  /\ Written(to, r) \in Seq(T)
             /\ \A k \in DOMAIN Written(to, r) :
                   Written(to, r)[k].type \notin RoomAck \cup {"INVITE_REQ"}
  <2>1. Written(to, r) \in Seq(Downward)
    BY <1>1, WrittenIsDownward DEF Typed
  <2>2. ASSUME NEW k \in DOMAIN Written(to, r)
        PROVE  Written(to, r)[k].type \notin RoomAck \cup {"INVITE_REQ"}
    <3>1. PICK q \in out'.sent : q.fd = to /\ Written(to, r)[k] = Copied(q)
      BY <1>1, WrittenFrom DEF Typed
    <3>2. Copied(q).type = q.type
      BY DEF Copied
    <3> QED
      BY <3>1, <3>2 DEF NoRooms
  <2> QED
    BY <2>1, <2>2
<1>6. \A d \in Clients : up[d] \in Seq(T) /\ down[d] \in Seq(T)
  BY <1>1 DEF Typed, PipesTyped
<1> HIDE DEF T
<1>7. Unlinked'
  BY <1>3 DEF Unlinked
<1>8. CallsFlow'
  <2>1. ASSUME NEW d \in Clients, NEW k \in DOMAIN clientList', link'[d] # 0,
               clientList'[k].fd = link'[d]
        PROVE  Called(up'[d], down'[d], clientList'[k].name)
    <3> DEFINE name == clientList'[k].name
               w == Written(link[d], r)
    <3>1. Called(up[d], down[d], name)
      BY <1>4, <2>1, StaysOut DEF RoomInv, CallsFlow
    <3>2. down'[d] = down[d] \/ down'[d] = down[d] \o w
      BY DeliveredTo
    <3>3. w \in Seq(T) /\ \A k0 \in DOMAIN w : w[k0].type # "INVITE_REQ"
      BY <1>5
    <3> HIDE DEF w
    <3> DEFINE e == down[d] \o w
    <3>4. \A j \in DOMAIN e : (j \in DOMAIN down[d] /\ e[j] = down[d][j]) \/ e[j].type # "INVITE_REQ"
      <4>1. \A j \in DOMAIN e :
               \/ j \in DOMAIN down[d] /\ e[j] = down[d][j]
               \/ j - Len(down[d]) \in DOMAIN w /\ e[j] = w[j - Len(down[d])]
        BY <1>6, <3>3, JoinIs
      <4> HIDE DEF e
      <4> QED
        BY <3>3, <4>1
    <3> HIDE DEF e
    <3>5. Called(up[d], e, name)
      BY <3>1, <3>4 DEF Called, Having
    <3> QED
      BY <1>4, <2>1, <3>1, <3>2, <3>5 DEF e
  <2> QED
    BY <2>1 DEF CallsFlow
<1>9. RoomsFlow'
  <2>1. ASSUME NEW d \in Patient, client'[d].pc = "running", link'[d] # 0
        PROVE  /\ RoomFlow(client'[d], up'[d], down'[d], WillBeIn(link'[d]))
               /\ \A k \in DOMAIN clientList' :
                     clientList'[k].fd = link'[d] /\ clientList'[k].chatRoom > 0 =>
                        clientList'[k].name \in Names
    <3> DEFINE w == Written(link[d], r)
               b == WillBeIn(link[d])
    <3>1. d \in Clients
      BY ChatClientAssumption
    <3>2. /\ link'[d] = link[d] /\ up'[d] = up[d] /\ client'[d] = client[d]
          /\ down'[d] = down[d] \o w
      BY <1>2, <1>3, <1>4, <2>1, <3>1 DEF Serves
    <3>3. /\ RoomFlow(client[d], up[d], down[d], InRoom(link[d]))
          /\ \A i \in DOMAIN clientList :
                clientList[i].fd = link[d] /\ clientList[i].chatRoom > 0 =>
                   clientList[i].name \in Names
      BY <2>1, <3>2 DEF RoomInv, RoomsFlow
    <3>4. b => InRoom(link[d])
      BY StaysOut
    <3>5. w \in Seq(T) /\ \A k \in DOMAIN w : w[k].type \notin RoomAck
      BY <1>5
    <3>6. WillBeIn(link'[d]) = b
      BY <3>2
    <3> HIDE DEF w, b
    <3>7. RoomFlow(client[d], up[d], down[d] \o w, b)
      BY <1>6, <3>1, <3>3, <3>4, <3>5, LeftFlow
    <3> QED
      BY <3>2, <3>3, <3>6, <3>7, StaysOut
  <2>2. \A d \in Patient : InRoom(link[d])' = WillBeIn(link'[d])
    BY DEF InRoom, WillBeIn
  <2> QED
    BY <2>1, <2>2 DEF RoomsFlow
<1> QED
  BY <1>7, <1>8, <1>9 DEF RoomInv

\* The idle scans are about no room.
LEMMA IdleWrites ==
    ASSUME NEW lost, S!Idle(lost)
    PROVE  NoRooms
<1> DEFINE Calm(P) == \A q \in P : q.type \notin RoomAck \cup {"INVITE_REQ"}
           pinged == {S!PingOf(i) : i \in S!Tried(lost)}
<1>1. ASSUME NEW P, out' = S!Outcome(P, lost), Calm(P) PROVE NoRooms
  BY <1>1, SentIs DEF NoRooms
<1>2. /\ \A fd, name : S!Server_Exit_Request(fd, name).type \notin RoomAck \cup {"INVITE_REQ"}
      /\ \A fd, name : S!Server_Ping_Request(fd, name).type \notin RoomAck \cup {"INVITE_REQ"}
      /\ \A fd : S!RepeatedPing(fd).type \notin RoomAck \cup {"INVITE_REQ"}
  BY OtherWrites
<1>3. PICK q : \E pings : S!CheckPacketTimeOver(q, pings, pinged, lost)
  BY DEF S!Idle
<1>4. PICK pings : S!CheckPacketTimeOver(q, pings, pinged, lost)
  BY <1>3
<1>5. Calm(pinged)
  BY <1>2 DEF S!PingOf
<1> HIDE DEF pinged
<1> DEFINE s == S!Server_Search_Client(Head(q).name)
           ping == Head(q).type = "PING_ACK"
           kicked == {S!Server_Exit_Request(clientList[s].fd, clientList[s].name)}
           repeated == {S!RepeatedPing(clientList[S!Server_Search_Client(w.name)].fd) :
                          w \in {Tail(q)[k] : k \in
                            {k \in DOMAIN Tail(q) : Tail(q)[k].type = "PING_ACK" /\
                               S!Server_Search_Client(Tail(q)[k].name) # 0}}}
           last == IF ping THEN kicked ELSE {}
           once == {S!RepeatedPing(clientList[s].fd)}
<1>6. \/ out' = S!Outcome(pinged, lost)
      \/ out' = S!Outcome(pinged \cup once, lost)
      \/ out' = S!Outcome(pinged \cup repeated \cup last, lost)
  BY <1>4 DEF S!CheckPacketTimeOver
<1>7. Calm(kicked) /\ Calm(repeated) /\ Calm(once)
  BY <1>2
<1>8. Calm(last)
  BY <1>7
<1> HIDE DEF kicked, repeated, last, once
<1>9. Calm(pinged \cup once) /\ Calm(pinged \cup repeated \cup last)
  BY <1>5, <1>7, <1>8
<1> HIDE DEF Calm
<1> QED
  BY <1>1, <1>5, <1>6, <1>9

\* They leave the rooms as they are, and so does the clock.
LEMMA ClockKeepsRooms ==
    ASSUME SysInv, RoomInv, SecondPasses \/ ServerIdles
    PROVE  RoomInv'
<1>1. S!IInv /\ S!IInv'
  BY ServerIdlesKeeps, SecondKeeps DEF SysInv, Typed
<1>2. ASSUME clientList' = clientList PROVE RoomsStay
  BY <1>2 DEF RoomsStay, Stays
<1>3. CASE SecondPasses
  <2>1. S!Tick /\ UNCHANGED <<client, link, up, down>>
    BY <1>3, SameActions DEF SecondPasses, clientVars
  <2>2. clientList \in Seq(S!ClientRecord)
    BY <1>1 DEF S!IInv, S!TypeOK
  <2>3. /\ clientList' = [k \in DOMAIN clientList |->
                            [clientList[k] EXCEPT !.age = S!Older(@, IdleLimit)]]
        /\ status' = status
    BY <2>1 DEF S!Tick
  <2>4. ASSUME NEW k \in DOMAIN clientList PROVE Stays(k, k)
    <3>1. clientList[k] \in S!ClientRecord
      BY <2>2
    <3> QED
      BY <2>3, <3>1 DEF Stays, S!ClientRecord
  <2>5. RoomsStay
    BY <2>3, <2>4 DEF RoomsStay
  <2> QED
    BY <2>1, <2>3, <2>5, StillRooms
<1>4. CASE ServerIdles
  <2>1. S!Idle({}) /\ Delivers(0, up)
    BY <1>4, SameActions DEF ServerIdles
  <2>2. S!Sends(Word) /\ NoRooms
    BY <1>1, <2>1, ServerAssumed, S!IdleSends, FewerLetters, IdleWrites
  <2>3. RoomsStay /\ 0 \in 0..Rooms
    BY <1>2, <2>1, ServerAssumed DEF S!Idle, S!ChatServerAssumption
  <2> QED
    BY <1>1, <2>1, <2>2, <2>3, QuietRooms
<1> QED
  BY <1>3, <1>4

\* The end of the server leaves nobody connected.
LEMMA StopKeepsRooms ==
    ASSUME ServerStops
    PROVE  RoomInv'
<1>1. S!Interrupt({}) /\ Delivers(0, up)
  BY SameActions DEF ServerStops
<1>2. status' # "running"
  BY <1>1 DEF S!Interrupt
<1>3. \A c \in Clients : link'[c] = 0
  BY <1>1, <1>2 DEF Delivers, Links
<1> QED
  BY <1>2, <1>3, ChatClientAssumption DEF RoomInv, RoomsFlow, CallsFlow, Unlinked

\* A connection is accepted to no room.
LEMMA AcceptedRooms ==
    ASSUME S!IInv, NEW fd \in Fds, S!Accept(fd)
    PROVE  /\ fd \notin openFds /\ status = "running"
           /\ \A k \in DOMAIN clientList' :
                 \/ \E j \in DOMAIN clientList : Stays(j, k)
                 \/ clientList'[k].fd = fd /\ clientList'[k].chatRoom = 0
<1> DEFINE new == [name |-> Len(clientList), fd |-> fd, chatRoom |-> 0, age |-> 0]
<1>1. clientList \in Seq(S!ClientRecord) /\ Len(clientList) \in Nat
  BY DEF S!IInv, S!TypeOK
<1>2. fd \notin openFds /\ status = "running"
  BY DEF S!Accept, S!Running
<1>3. CASE clientList' = clientList
  BY <1>2, <1>3 DEF Stays
<1>4. CASE clientList' = Append(clientList, new)
  <2>1. new.fd = fd /\ new.chatRoom = 0
    OBVIOUS
  <2> HIDE DEF new
  <2>2. \A k \in DOMAIN clientList' :
           \/ k \in DOMAIN clientList /\ clientList'[k] = clientList[k]
           \/ clientList'[k] = new
    BY <1>1, <1>4
  <2> QED
    BY <1>2, <2>1, <2>2 DEF Stays
<1> QED
  BY <1>3, <1>4 DEF S!Accept, S!Crash

\* So a client that connects has nothing of a room.
LEMMA AcceptKeepsRooms ==
    ASSUME SysInv, RoomInv, NEW c \in Clients, Accepts(c)
    PROVE  RoomInv'
<1>1. PICK fd \in Fds : S!Accept(fd) /\ link' = Links([link EXCEPT ![c] = fd])
  BY SameActions DEF Accepts
<1>2. /\ fd \notin openFds /\ status = "running"
      /\ \A k \in DOMAIN clientList' :
            \/ \E j \in DOMAIN clientList : Stays(j, k)
            \/ clientList'[k].fd = fd /\ clientList'[k].chatRoom = 0
  BY <1>1, AcceptedRooms DEF SysInv, Typed
<1>3. \A j \in DOMAIN clientList : clientList[j].fd \in openFds /\ clientList[j].fd # fd
  BY <1>2 DEF SysInv, Typed, S!IInv, S!UniqueClients
<1>4. /\ client[c].pc = "trying" /\ UNCHANGED <<up, down>>
      /\ \A d \in Clients \ {c} : client'[d] = client[d]
  BY DEF Accepts, Connected, SysInv, Typed, ClientsTyped
<1>5. link \in [Clients -> openFds \cup {0}] /\ 0 \notin Fds
  BY ChatSystemAssumption DEF SysInv, Typed, Connections, LinksOpen
<1>6. up[c] = <<>> /\ down[c] = <<>>
  BY <1>2, <1>4 DEF SysInv, Typed, Connections, LinksLive, RoomInv, Unlinked
<1>7. /\ link'[c] # 0 => link'[c] = fd
      /\ \A d \in Clients \ {c} : link'[d] # 0 => link'[d] = link[d] /\ link[d] # fd
      /\ \A d \in Clients : status' = "running" /\ link'[d] = 0 => up[d] = <<>>
  <2>1. /\ \A d \in Clients \ {c} : link'[d] = IF link[d] \in openFds' /\ status' = "running"
                                               THEN link[d] ELSE 0
        /\ link'[c] = IF fd \in openFds' /\ status' = "running" THEN fd ELSE 0
    BY <1>1, <1>5 DEF Links
  <2>2. openFds \subseteq openFds'
    BY <1>1, ServerAssumed, S!AcceptedNames DEF SysInv, Typed
  <2> QED
    BY <1>2, <1>5, <1>6, <2>1, <2>2 DEF RoomInv, Unlinked
<1>8. Unlinked'
  BY <1>4, <1>7 DEF Unlinked
<1>9. ASSUME NEW k \in DOMAIN clientList', clientList'[k].fd # fd
      PROVE  \E j \in DOMAIN clientList : Stays(j, k)
  BY <1>2, <1>9
<1>10. CallsFlow'
  <2>1. ASSUME NEW d \in Clients, NEW k \in DOMAIN clientList', link'[d] # 0,
               clientList'[k].fd = link'[d]
        PROVE  Called(up[d], down[d], clientList'[k].name)
    <3>1. CASE d = c
      BY <1>6, <3>1 DEF Called, Having
    <3>2. CASE d # c
      <4>1. PICK j \in DOMAIN clientList : Stays(j, k)
        BY <1>7, <1>9, <2>1, <3>2
      <4> QED
        BY <1>7, <2>1, <3>2, <4>1 DEF Stays, RoomInv, CallsFlow
    <3> QED
      BY <3>1, <3>2
  <2> QED
    BY <1>4, <2>1 DEF CallsFlow
<1>11. RoomsFlow'
  <2>1. ASSUME NEW d \in Patient, client'[d].pc = "running", link'[d] # 0
        PROVE  /\ RoomFlow(client'[d], up[d], down[d], WillBeIn(link'[d]))
               /\ \A k \in DOMAIN clientList' :
                     clientList'[k].fd = link'[d] /\ clientList'[k].chatRoom > 0 =>
                        clientList'[k].name \in Names
    <3>1. d \in Clients
      BY ChatClientAssumption
    <3>2. CASE d = c
      <4>1. \A k \in DOMAIN clientList' : clientList'[k].fd = fd => clientList'[k].chatRoom = 0
        BY <1>2, <1>3 DEF Stays
      <4>2. ~WillBeIn(link'[d])
        BY <1>7, <2>1, <3>2, <4>1 DEF WillBeIn
      <4> QED
        BY <1>6, <1>7, <2>1, <3>2, <4>1, <4>2 DEF RoomFlow, OneAtMost, Pending, Creating, Having
    <3>3. CASE d # c
      <4>1. link'[d] = link[d] /\ link[d] # fd /\ client'[d] = client[d]
        BY <1>4, <1>7, <2>1, <3>1, <3>3
      <4>2. /\ RoomFlow(client[d], up[d], down[d], InRoom(link[d]))
            /\ \A i \in DOMAIN clientList :
                  clientList[i].fd = link[d] /\ clientList[i].chatRoom > 0 =>
                     clientList[i].name \in Names
        BY <2>1, <4>1 DEF RoomInv, RoomsFlow
      <4>3. \A k \in DOMAIN clientList' : clientList'[k].fd = link[d] =>
               \E j \in DOMAIN clientList : Stays(j, k)
        BY <1>9, <4>1
      <4>4. WillBeIn(link[d]) => InRoom(link[d])
        BY <4>3 DEF WillBeIn, InRoom, Stays
      <4>5. RoomFlow(client[d], up[d], down[d], WillBeIn(link[d]))
        BY <4>2, <4>4 DEF RoomFlow
      <4>6. \A k \in DOMAIN clientList' :
               clientList'[k].fd = link[d] /\ clientList'[k].chatRoom > 0 =>
                  clientList'[k].name \in Names
        BY <4>2, <4>3 DEF Stays
      <4> QED
        BY <4>1, <4>5, <4>6
    <3> QED
      BY <3>2, <3>3
  <2>2. \A d \in Patient : InRoom(link[d])' = WillBeIn(link'[d])
    BY DEF InRoom, WillBeIn
  <2> QED
    BY <1>4, <2>1, <2>2 DEF RoomsFlow
<1> QED
  BY <1>8, <1>10, <1>11 DEF RoomInv

-----------------------------------------------------------------------------
(* The server reads the oldest packet of one client.                       *)

\* The oldest packet of client c, client i of the list, is p, and is handled.
ReadsFrom(c, i, p, lost, r) ==
    /\ clientList[i].fd = link[c] /\ link[c] # 0 /\ up[c] # <<>> /\ p = Head(up[c])
    /\ lost \in SUBSET Gone /\ Handled(i, p, lost)
    /\ Delivers(r, [up EXCEPT ![c] = Tail(@)])

\* What of the pipes of client d is left, and what is added.
Leaves(c, i, d, r) ==
    /\ client' = client
    /\ up[d] \in Seq(Upward) /\ down[d] \in Seq(Downward)
    /\ Written(link[d], r) \in Seq(Downward)
    /\ link'[d] = 0 => up'[d] = <<>>
    /\ link'[d] # 0 => /\ link'[d] = link[d] /\ link[d] \in openFds' /\ status' = "running"
                       /\ up'[d] = IF d = c THEN Tail(up[d]) ELSE up[d]
    /\ link'[d] # 0 /\ client[d].pc = "running" =>
          down'[d] = down[d] \o Written(link[d], r)
    /\ \A e \in Clients : link[e] = link[c] => e = c
    /\ \A j \in DOMAIN clientList : clientList[j].fd = clientList[i].fd => j = i
\* It is so for every client.
LEMMA ReadsLeave ==
    ASSUME SysInv, S!IInv', S!Sends(Word), NEW c \in Clients, NEW i \in DOMAIN clientList, NEW p,
           NEW lost, NEW r \in 0..Rooms, ReadsFrom(c, i, p, lost, r), NEW d \in Clients
    PROVE  p \in Upward /\ Leaves(c, i, d, r)
<1> DEFINE unread == [up EXCEPT ![c] = Tail(@)]
<1>1. Typed /\ up[c] # <<>> /\ link[c] # 0 /\ p = Head(up[c]) /\ Delivers(r, unread)
  BY DEF SysInv, ReadsFrom
<1>2. /\ up \in [Clients -> Seq(Upward)] /\ unread \in [Clients -> Seq(Upward)]
      /\ p \in Upward
  BY <1>1, UnreadTyped
<1>3. unread[d] = IF d = c THEN Tail(up[d]) ELSE up[d]
  BY <1>2
<1> HIDE DEF unread
<1>4. Serves(r)
  BY <1>1, <1>2, DeliversKeeps
<1>5. client' = client /\ up'[d] = IF link'[d] = 0 THEN <<>> ELSE unread[d]
  BY <1>1 DEF Delivers
<1>6. Written(link[d], r) \in Seq(Downward)
  BY <1>1, WrittenIsDownward DEF Typed
<1>7. up[d] \in Seq(Upward) /\ down[d] \in Seq(Downward)
  BY <1>1 DEF Typed, PipesTyped
<1>8. \A e \in Clients : link[e] = link[c] => e = c
  BY <1>1 DEF Typed, Connections, LinksDiffer
<1>9. \A j \in DOMAIN clientList : clientList[j].fd = clientList[i].fd => j = i
  BY <1>1 DEF Typed, S!IInv, S!UniqueClients
<1> QED
  BY <1>2, <1>3, <1>4, <1>5, <1>6, <1>7, <1>8, <1>9 DEF Serves, Leaves

\* Invitations and their answers are left under the name they were, and the
\* new ones are under it.
LEMMA ReadsCalled ==
    ASSUME SysInv, S!IInv', S!Sends(Word), NEW c \in Clients, NEW i \in DOMAIN clientList, NEW p,
           NEW lost, NEW r \in 0..Rooms, ReadsFrom(c, i, p, lost, r), Writes(i, p),
           NEW d \in Clients, link'[d] # 0, NEW j \in DOMAIN clientList,
           clientList[j].fd = link[d], Called(up[d], down[d], clientList[j].name)
    PROVE  Called(up'[d], down'[d], clientList[j].name)
<1> DEFINE name == clientList[j].name
           u == up[d]
           w == Written(link[d], r)
           e == down[d] \o w
<1>1. /\ u \in Seq(Upward) /\ down[d] \in Seq(Downward) /\ w \in Seq(Downward)
      /\ up'[d] = IF d = c THEN Tail(u) ELSE u
  <2>1. Leaves(c, i, d, r)
    BY ReadsLeave
  <2> QED
    BY <2>1 DEF Leaves
<1>2. u = up[c] => u # <<>>
  BY DEF ReadsFrom
<1>3. \A k \in Having(up'[d], {"INVITE_ACK"}) : up'[d][k].dst = name
  <2>1. CASE d = c
    <3> HIDE DEF u
    <3> DEFINE v == Tail(u)
    <3>1. \A k \in DOMAIN v : k + 1 \in DOMAIN u /\ v[k] = u[k + 1]
      BY <1>1, <1>2, <2>1, TailIs DEF u
    <3> HIDE DEF v
    <3>2. \A k \in Having(v, {"INVITE_ACK"}) : v[k].dst = name
      BY <3>1 DEF Called, Having, u
    <3> QED
      BY <1>1, <2>1, <3>2 DEF v
  <2>2. CASE d # c
    BY <1>1, <2>2 DEF Called
  <2> QED
    BY <2>1, <2>2
<1>4. \A k \in DOMAIN w : w[k].type = "INVITE_REQ" => w[k].dst = name
  <2>1. ASSUME NEW k \in DOMAIN w, w[k].type = "INVITE_REQ"
        PROVE  w[k].dst = name
    <3>1. PICK q \in out'.sent : q.fd = link[d] /\ w[k] = Copied(q)
      BY WrittenFrom DEF SysInv, Typed
    <3>2. q.type = "INVITE_REQ" /\ w[k].dst = q.dst
      BY <2>1, <3>1 DEF Copied
    <3>3. PICK l \in DOMAIN clientList : clientList[l].fd = q.fd /\ clientList[l].name = q.dst
      BY <3>2 DEF Writes
    <3>4. l = j
      BY <3>1, <3>3 DEF SysInv, Typed, S!IInv, S!UniqueClients
    <3> QED
      BY <3>2, <3>3, <3>4
  <2> QED
    BY <2>1
<1>5. \A k \in Having(e, {"INVITE_REQ"}) : e[k].dst = name
  <2> HIDE DEF w
  <2>1. \A k \in DOMAIN e :
           \/ k \in DOMAIN down[d] /\ e[k] = down[d][k]
           \/ k - Len(down[d]) \in DOMAIN w /\ e[k] = w[k - Len(down[d])]
    BY <1>1, JoinIs
  <2> HIDE DEF e
  <2> QED
    BY <1>4, <2>1 DEF Having, Called
<1>6. down'[d] = down[d] \/ down'[d] = e
  BY DeliveredTo DEF ReadsFrom
<1>7. \A k \in Having(down'[d], {"INVITE_REQ"}) : down'[d][k].dst = name
  <2> HIDE DEF e
  <2> QED
    BY <1>5, <1>6 DEF Called
<1> QED
  BY <1>3, <1>7 DEF Called

\* A client that logs in was invited under no name.
LEMMA NotCalled ==
    ASSUME NEW u \in Seq(Upward), NEW d \in Seq(Downward), NEW old \in S!ClientName \ Names,
           NEW name, Called(u, d, old)
    PROVE  Called(u, d, name)
<1>1. old \notin Word
  BY ServerAssumed DEF S!ChatServerAssumption, Word, S!ClientName, S!Placeholder
<1>2. \A k \in DOMAIN u : u[k].dst \in Word
  <2>1. \A k \in DOMAIN u : u[k] \in Upward
    OBVIOUS
  <2> QED
    BY <2>1 DEF Upward
<1>3. \A k \in DOMAIN d : d[k].type = "INVITE_REQ" => d[k].dst \in Word
  <2>1. \A k \in DOMAIN d : d[k] \in Downward
    OBVIOUS
  <2> QED
    BY <2>1 DEF Downward, S!Naming
<1> QED
  BY <1>1, <1>2, <1>3 DEF Called, Having

\* So the invitations of everybody are in order.
LEMMA ReadsKeepCalls ==
    ASSUME SysInv, RoomInv, OneName, S!IInv', S!Sends(Word), NEW c \in Clients,
           NEW i \in DOMAIN clientList, NEW p, NEW lost, NEW r \in 0..Rooms,
           ReadsFrom(c, i, p, lost, r), Writes(i, p), Moves(i, p),
           NEW d \in Clients, link'[d] # 0, NEW k \in DOMAIN clientList',
           clientList'[k].fd = link'[d]
    PROVE  Called(up'[d], down'[d], clientList'[k].name)
<1>1. PICK j \in DOMAIN clientList : clientList'[k].fd = clientList[j].fd /\ Named(i, p, j, k)
  BY DEF Moves
<1>0. Leaves(c, i, d, r) /\ Leaves(c, i, c, r)
  BY ReadsLeave
<1>2. link'[d] = link[d] /\ \A e \in Clients : link[e] = link[c] => e = c
  BY <1>0 DEF Leaves
<1>3. Called(up'[d], down'[d], clientList[j].name)
  <2>1. Called(up[d], down[d], clientList[j].name)
    BY <1>1, <1>2 DEF RoomInv, CallsFlow
  <2> QED
    BY <1>1, <1>2, <2>1, ReadsCalled
<1>4. CASE p.type = "CONN_REQ" /\ j = i /\ clientList'[k].name = p.src /\ p.src \in Names
  <2>1. d = c
    BY <1>1, <1>2, <1>4 DEF ReadsFrom
  <2>2. up[c] \in Seq(Upward) /\ up[c] # <<>> /\ p = Head(up[c])
    BY <1>0 DEF ReadsFrom, Leaves
  <2>3. 1 \in DOMAIN up[c] /\ up[c][1] = p
    BY <2>2, TailIs
  <2>4. CASE clientList[i].name \in Names
    <3>1. p.src = clientList[i].name
      BY <1>4, <2>3, <2>4 DEF OneName, ReadsFrom
    <3> QED
      BY <1>3, <1>4, <3>1
  <2>5. CASE clientList[i].name \notin Names
    <3>1. clientList[i].name \in S!ClientName
      <4>1. clientList \in Seq(S!ClientRecord)
        BY DEF SysInv, Typed, S!IInv, S!TypeOK
      <4>2. clientList[i] \in S!ClientRecord
        BY <4>1
      <4> QED
        BY <4>2 DEF S!ClientRecord
    <3>2. up'[d] \in Seq(Upward) /\ down'[d] \in Seq(Downward)
      <4> DEFINE w == Written(link[d], r)
      <4>1. /\ up[d] \in Seq(Upward) /\ down[d] \in Seq(Downward) /\ w \in Seq(Downward)
            /\ up'[d] = IF d = c THEN Tail(up[d]) ELSE up[d]
        BY <1>0 DEF Leaves
      <4>2. Tail(up[c]) \in Seq(Upward)
        BY <2>2
      <4>3. down'[d] = down[d] \/ down'[d] = down[d] \o w
        BY DeliveredTo DEF ReadsFrom
      <4> HIDE DEF w
      <4>4. down[d] \o w \in Seq(Downward)
        BY <4>1
      <4> QED
        BY <2>1, <4>1, <4>2, <4>3, <4>4
    <3> QED
      BY <1>3, <1>4, <2>5, <3>1, <3>2, NotCalled
  <2> QED
    BY <2>4, <2>5
<1> QED
  BY <1>1, <1>3, <1>4 DEF Named

\* A client that is put in a room is listed under the name of a user: it asked
\* for the room once logged in, or its name was accepted for.
LEMMA ReadsName ==
    ASSUME SysInv, RoomInv, S!IInv', S!Sends(Word), NEW c \in Clients,
           NEW i \in DOMAIN clientList, NEW p, NEW lost, NEW r \in 0..Rooms,
           ReadsFrom(c, i, p, lost, r), Moves(i, p),
           NEW d \in Patient, client[d].pc = "running", link'[d] # 0,
           NEW k \in DOMAIN clientList', clientList'[k].fd = link'[d],
           clientList'[k].chatRoom > 0
    PROVE  clientList'[k].name \in Names
<1>1. d \in Clients
  BY ChatClientAssumption
<1>2. Leaves(c, i, d, r) /\ p \in Upward
  BY <1>1, ReadsLeave
<1>3. link'[d] = link[d] /\ \A e \in Clients : link[e] = link[c] => e = c
  BY <1>2 DEF Leaves
<1>4. PICK j \in DOMAIN clientList :
         clientList'[k].fd = clientList[j].fd /\ Named(i, p, j, k) /\ Moved(i, p, j, k)
  BY DEF Moves
<1>5. /\ RoomFlow(client[d], up[d], down[d], InRoom(link[d]))
      /\ \A l \in DOMAIN clientList :
            clientList[l].fd = link[d] /\ clientList[l].chatRoom > 0 =>
               clientList[l].name \in Names
  BY <1>3 DEF RoomInv, RoomsFlow
<1>6. CASE clientList'[k].chatRoom = clientList[j].chatRoom
  BY <1>3, <1>4, <1>5, <1>6 DEF Named
<1>7. CASE p.type = "CREATE_CHATROOM_REQ" /\ j = i
  <2>1. d = c
    BY <1>1, <1>3, <1>4, <1>7 DEF ReadsFrom
  <2>2. up[d] \in Seq(Upward) /\ up[d] # <<>> /\ p = Head(up[d])
    BY <1>2, <2>1 DEF Leaves, ReadsFrom
  <2>3. 1 \in Having(up[d], RoomReq) /\ up[d][1] = p
    BY <1>7, <2>2, TailIs DEF Having, RoomReq
  <2>4. client[d].isConnected
    BY <1>5, <1>7, <2>3 DEF RoomFlow
  <2>5. \E l \in DOMAIN clientList : clientList[l].fd = link[d] /\ clientList[l].name \in Names
    BY <1>1, <1>3, <2>4 DEF SysInv, LoginFlows, Untold
  <2>6. clientList[i].name \in Names
    BY <1>3, <1>4, <1>7, <2>5 DEF SysInv, Typed, S!IInv, S!UniqueClients
  <2> QED
    BY <1>4, <1>7, <2>6 DEF Named
<1>8. CASE Accepting(p) /\ clientList[j].name = p.dst
  <2>1. clientList[j].name \in S!ClientName
    <3>1. clientList \in Seq(S!ClientRecord)
      BY DEF SysInv, Typed, S!IInv, S!TypeOK
    <3>2. clientList[j] \in S!ClientRecord
      BY <3>1
    <3> QED
      BY <3>2 DEF S!ClientRecord
  <2>2. p.dst \in Word
    BY <1>2 DEF Upward
  <2>3. NoName \notin S!ClientName
    BY ServerAssumed DEF S!ChatServerAssumption, S!ClientName, S!Placeholder
  <2>4. clientList[j].name \in Names
    BY <1>8, <2>1, <2>2, <2>3 DEF Word
  <2> QED
    BY <1>4, <2>4 DEF Named
<1>9. CASE clientList'[k].chatRoom = 0
  BY <1>9
<1> QED
  BY <1>4, <1>6, <1>7, <1>8, <1>9 DEF Moved

\* Nobody else is put in a room by what a client wrote.
LEMMA ReadsMoveNobody ==
    ASSUME SysInv, RoomInv, NEW c \in Clients, NEW i \in DOMAIN clientList, NEW p,
           up[c] \in Seq(Upward), up[c] # <<>>, p = Head(up[c]),
           clientList[i].fd = link[c], link[c] # 0, Moves(i, p), NEW fd,
           \/ fd # link[c]
           \/ p.type \notin RoomReq /\ ~Accepting(p)
    PROVE  WillBeIn(fd) => InRoom(fd)
<1>1. SUFFICES ASSUME NEW k \in DOMAIN clientList', clientList'[k].fd = fd,
                      clientList'[k].chatRoom > 0
               PROVE  InRoom(fd)
  BY DEF WillBeIn
<1>2. PICK j \in DOMAIN clientList :
         clientList'[k].fd = clientList[j].fd /\ Moved(i, p, j, k)
  BY DEF Moves
<1>3. clientList'[k].chatRoom # 0
  BY <1>1
<1>4. clientList'[k].chatRoom = clientList[j].chatRoom
  <2>1. CASE fd # link[c]
    <3>1. j # i
      BY <1>1, <1>2, <2>1
    <3>2. ASSUME Accepting(p), clientList[j].name = p.dst PROVE FALSE
      <4>1. 1 \in DOMAIN up[c] /\ up[c][1] = p
        BY TailIs
      <4>2. Called(up[c], down[c], clientList[i].name)
        BY DEF RoomInv, CallsFlow
      <4>3. p.dst = clientList[i].name
        BY <3>2, <4>1, <4>2 DEF Called, Having, Accepting
      <4> QED
        BY <3>1, <3>2, <4>3 DEF SysInv, Typed, S!IInv, S!UniqueClients
    <3> QED
      BY <1>2, <1>3, <3>1, <3>2 DEF Moved
  <2>2. CASE p.type \notin RoomReq /\ ~Accepting(p)
    BY <1>2, <2>2 DEF Moved, RoomReq
  <2> QED
    BY <2>1, <2>2
<1> QED
  BY <1>1, <1>2, <1>4 DEF InRoom

\* An answer about rooms is written to who asked, alone, and nothing else
\* follows it.
LEMMA ReadsAnswer ==
    ASSUME SysInv, RoomInv, S!IInv', S!Sends(Word), NEW c \in Patient,
           NEW i \in DOMAIN clientList, NEW p, NEW lost, NEW r \in 0..Rooms,
           ReadsFrom(c, i, p, lost, r), Moves(i, p), Answers(i, p, lost),
           client[c].pc = "running", link'[c] # 0, p.type \in RoomReq
    PROVE  \E q : /\ Written(link[c], r) = <<q>> /\ q \in Downward
                  /\ \/ p.type = "CREATE_CHATROOM_REQ" /\ q.type = "CREATE_CHATROOM_ACK"
                     \/ /\ p.type = "EXIT_CHATROOM_REQ" /\ q.type = "EXIT_CHATROOM_ACK"
                        /\ ~WillBeIn(link[c])
<1>1. c \in Clients
  BY ChatClientAssumption
<1>2. Leaves(c, i, c, r) /\ p \in Upward
  BY <1>1, ReadsLeave
<1>3. /\ link'[c] = link[c] /\ link[c] # 0 /\ status' = "running"
      /\ up[c] \in Seq(Upward) /\ up[c] # <<>> /\ p = Head(up[c])
      /\ Written(link[c], r) \in Seq(Downward)
      /\ \A j \in DOMAIN clientList : clientList[j].fd = clientList[i].fd => j = i
      /\ clientList[i].fd = link[c] /\ lost \in SUBSET Gone
  BY <1>2 DEF Leaves, ReadsFrom
<1>4. link[c] \in openFds \ lost
  <2>1. link[c] \notin Gone
    BY <1>1, <1>3 DEF Gone, SysInv, Typed, Connections, LinksDiffer
  <2>2. link[c] \in openFds
    BY <1>1, <1>3 DEF SysInv, Typed, Connections, LinksOpen
  <2> QED
    BY <1>3, <2>1, <2>2
<1>5. p.src # NoName
  <2>1. 1 \in Having(up[c], RoomReq) /\ up[c][1] = p
    BY <1>3, TailIs DEF Having
  <2> QED
    BY <1>3, <2>1 DEF RoomInv, RoomsFlow, RoomFlow
<1>6. PICK q : /\ SentTo(link[c]) = {q}
               /\ \/ p.type = "CREATE_CHATROOM_REQ" /\ q.type = "CREATE_CHATROOM_ACK"
                  \/ p.type = "EXIT_CHATROOM_REQ" /\ q.type = "EXIT_CHATROOM_ACK"
  BY <1>3, <1>4, <1>5 DEF Answers, RoomReq
<1>7. Written(link[c], r) = <<Copied(q)>>
  <2>1. q.type \notin OverRoom \cup {"PING_REQ"}
    BY <1>6 DEF OverRoom
  <2> QED
    BY <1>6, <2>1, WrittenAlone
<1>8. Copied(q) \in Downward /\ Copied(q).type = q.type
  <2>1. <<Copied(q)>> \in Seq(Downward)
    BY <1>3, <1>7
  <2>2. Copied(q).type = q.type
    BY DEF Copied
  <2> DEFINE x == Copied(q)
  <2>3. <<x>> \in Seq(Downward)
    BY <2>1
  <2> HIDE DEF x
  <2>4. x \in Downward
    BY <2>3
  <2> QED
    BY <2>2, <2>4 DEF x
<1>9. p.type = "EXIT_CHATROOM_REQ" => ~WillBeIn(link[c])
  <2>1. ASSUME p.type = "EXIT_CHATROOM_REQ", NEW k \in DOMAIN clientList',
               clientList'[k].fd = link[c]
        PROVE  clientList'[k].chatRoom = 0
    <3>1. PICK j \in DOMAIN clientList :
             clientList'[k].fd = clientList[j].fd /\ Moved(i, p, j, k)
      BY DEF Moves
    <3>2. j = i
      BY <1>3, <2>1, <3>1
    <3> QED
      BY <2>1, <3>1, <3>2 DEF Moved, Accepting
  <2>2. ~(0 > 0)
    OBVIOUS
  <2> QED
    BY <2>1, <2>2 DEF WillBeIn
<1> QED
  BY <1>6, <1>7, <1>8, <1>9

\* So every patient client goes on with what it had of rooms.
LEMMA ReadsFlow ==
    ASSUME SysInv, RoomInv, S!IInv', S!Sends(Word), NEW c \in Clients,
           NEW i \in DOMAIN clientList, NEW p, NEW lost, NEW r \in 0..Rooms,
           ReadsFrom(c, i, p, lost, r), Moves(i, p), Writes(i, p), Answers(i, p, lost),
           NEW d \in Patient, client[d].pc = "running", link'[d] # 0
    PROVE  RoomFlow(client'[d], up'[d], down'[d], WillBeIn(link'[d]))
<1> DEFINE T == Upward \cup Downward
           w == Written(link[d], r)
           s == client[d]
           a == InRoom(link[d])
           b == WillBeIn(link[d])
<1>1. d \in Clients
  BY ChatClientAssumption
<1>2. Leaves(c, i, d, r) /\ Leaves(c, i, c, r)
  BY <1>1, ReadsLeave
<1>3. /\ client'[d] = s /\ link'[d] = link[d]
      /\ up[d] \in Seq(Upward) /\ down[d] \in Seq(Downward) /\ w \in Seq(Downward)
      /\ down'[d] = down[d] \o w
      /\ up'[d] = IF d = c THEN Tail(up[d]) ELSE up[d]
      /\ up[c] \in Seq(Upward) /\ up[c] # <<>> /\ p = Head(up[c])
      /\ clientList[i].fd = link[c] /\ link[c] # 0
      /\ link[d] = link[c] => d = c
  BY <1>1, <1>2 DEF Leaves, ReadsFrom
<1>4. RoomFlow(s, up[d], down[d], a)
  BY <1>3 DEF RoomInv, RoomsFlow
<1>5. up[d] \in Seq(T) /\ down[d] \in Seq(T) /\ w \in Seq(T)
  BY <1>3
<1>6. ~(d = c /\ p.type \in RoomReq) => \A k \in DOMAIN w : w[k].type \notin RoomAck
  <2>1. ASSUME NEW k \in DOMAIN w, w[k].type \in RoomAck
        PROVE  d = c /\ p.type \in RoomReq
    <3>1. PICK q \in out'.sent : q.fd = link[d] /\ w[k] = Copied(q)
      BY WrittenFrom DEF SysInv, Typed
    <3>2. q.type \in RoomAck
      BY <2>1, <3>1 DEF Copied
    <3> QED
      BY <1>3, <3>1, <3>2 DEF Writes
  <2> QED
    BY <2>1
<1>7. d # c \/ (p.type \notin RoomReq /\ ~Accepting(p)) => (b => a)
  BY <1>3, ReadsMoveNobody
<1>8. d = c /\ p.type \in RoomReq =>
         \E q : /\ w = <<q>> /\ q \in Downward
                /\ \/ p.type = "CREATE_CHATROOM_REQ" /\ q.type = "CREATE_CHATROOM_ACK"
                   \/ /\ p.type = "EXIT_CHATROOM_REQ" /\ q.type = "EXIT_CHATROOM_ACK"
                      /\ ~b
  BY ReadsAnswer
<1> HIDE DEF w, s, a, b
<1>9. CASE d = c /\ p.type \in RoomReq
  <2>1. PICK q : /\ w = <<q>> /\ q \in Downward
                 /\ \/ p.type = "CREATE_CHATROOM_REQ" /\ q.type = "CREATE_CHATROOM_ACK"
                    \/ /\ p.type = "EXIT_CHATROOM_REQ" /\ q.type = "EXIT_CHATROOM_ACK"
                       /\ ~b
    BY <1>8, <1>9
  <2>2. q \in T
    BY <2>1
  <2> HIDE DEF T
  <2>3. RoomFlow(s, Tail(up[d]), down[d] \o <<q>>, b)
    BY <1>3, <1>4, <1>5, <1>9, <2>1, <2>2, AnsweredFlow
  <2> QED
    BY <1>3, <1>9, <2>1, <2>3 DEF b
<1> HIDE DEF T
<1>10. CASE d = c /\ Accepting(p)
  <2>1. p.type \notin RoomReq
    BY <1>10 DEF Accepting, RoomReq
  <2>2. RoomFlow(s, Tail(up[d]), down[d] \o w, b)
    BY <1>3, <1>4, <1>5, <1>6, <1>10, <2>1, InvitedFlow
  <2> QED
    BY <1>3, <1>10, <2>2 DEF b
<1>11. CASE d # c \/ (p.type \notin RoomReq /\ ~Accepting(p))
  <2>1. RoomFlow(s, up'[d], down[d] \o w, b)
    BY <1>3, <1>4, <1>5, <1>6, <1>7, <1>11, LeftFlow
  <2> QED
    BY <1>3, <2>1 DEF b
<1> QED
  BY <1>9, <1>10, <1>11

\* The server reads, and the flows go on.
LEMMA ReadsKeepRooms ==
    ASSUME SysInv, RoomInv, OneName, NEW c \in Clients, ServerReads(c)
    PROVE  RoomInv'
<1>1. PICK i \in DOMAIN clientList :
         /\ clientList[i].fd = link[c]
         /\ \/ Server!ReadNothing(i) /\ Delivers(0, up)
            \/ /\ up[c] # <<>>
               /\ \E lost \in SUBSET Gone : Handles(i, Head(up[c]), lost)
               /\ Delivers(RoomOf(i, Head(up[c])), [up EXCEPT ![c] = Tail(@)])
  BY DEF ServerReads
<1>2. S!IInv /\ S!IInv' /\ Typed
  BY ServerReadsKeeps DEF SysInv, Typed
<1>3. CASE Server!ReadNothing(i) /\ Delivers(0, up)
  <2>1. S!ReadNothing(i)
    BY <1>3, SameActions
  <2>2. RoomsStay
    <3>1. clientList' = S!Refreshed(i)
      BY <2>1 DEF S!ReadNothing, S!OnlyRefreshed
    <3> QED
      BY <1>2, <3>1, RefreshedRooms
  <2>3. S!Sends(Word) /\ NoRooms
    <3>1. S!Silent
      BY <2>1 DEF S!ReadNothing
    <3> QED
      BY <3>1, ServerAssumed, S!SilentSends DEF S!Silent, NoRooms
  <2>4. 0 \in 0..Rooms
    BY ServerAssumed DEF S!ChatServerAssumption
  <2> QED
    BY <1>2, <1>3, <2>2, <2>3, <2>4, QuietRooms
<1>4. CASE /\ up[c] # <<>>
           /\ \E lost \in SUBSET Gone : Handles(i, Head(up[c]), lost)
           /\ Delivers(RoomOf(i, Head(up[c])), [up EXCEPT ![c] = Tail(@)])
  <2> DEFINE p == Head(up[c])
             r == RoomOf(i, p)
  <2>1. p \in Upward /\ r \in 0..Rooms
    BY <1>2, <1>4, UnreadTyped, RoomOfType
  <2>2. PICK lost \in SUBSET Gone : Handles(i, p, lost)
    BY <1>4
  <2>3. ReadsFrom(c, i, p, lost, r)
    <3>1. Handled(i, p, lost)
      BY <2>2, SameHandlers
    <3>2. link[c] # 0
      BY DEF ServerReads
    <3> QED
      BY <1>1, <1>4, <3>1, <3>2 DEF ReadsFrom
  <2> HIDE DEF p, r
  <2>4. Handled(i, p, lost)
    BY <2>3 DEF ReadsFrom
  <2>5. S!Sends(Word)
    BY <1>2, <2>1, <2>4, HandledStep
  <2>6. Moves(i, p) /\ Writes(i, p) /\ Answers(i, p, lost)
    BY <1>2, <2>1, <2>4, HandledMoves, HandledWrites
  <2>7. \A d \in Clients : Leaves(c, i, d, r)
    BY <1>2, <2>1, <2>3, <2>5, ReadsLeave
  <2>8. Unlinked'
    BY <2>7 DEF Unlinked, Leaves
  <2>9. CallsFlow'
    BY <1>2, <2>1, <2>3, <2>5, <2>6, ReadsKeepCalls DEF CallsFlow
  <2>10. RoomsFlow'
    <3>1. ASSUME NEW d \in Patient, client'[d].pc = "running", link'[d] # 0
          PROVE  /\ RoomFlow(client'[d], up'[d], down'[d], WillBeIn(link'[d]))
                 /\ \A k \in DOMAIN clientList' :
                       clientList'[k].fd = link'[d] /\ clientList'[k].chatRoom > 0 =>
                          clientList'[k].name \in Names
      <4>1. client[d].pc = "running"
        BY <2>7, <3>1, ChatClientAssumption DEF Leaves
      <4>2. RoomFlow(client'[d], up'[d], down'[d], WillBeIn(link'[d]))
        BY <1>2, <2>1, <2>3, <2>5, <2>6, <3>1, <4>1, ReadsFlow
      <4>3. ASSUME NEW k \in DOMAIN clientList', clientList'[k].fd = link'[d],
                   clientList'[k].chatRoom > 0
            PROVE  clientList'[k].name \in Names
        BY <1>2, <2>1, <2>3, <2>5, <2>6, <3>1, <4>1, <4>3, ReadsName
      <4> QED
        BY <4>2, <4>3
    <3>2. \A d \in Patient : InRoom(link[d])' = WillBeIn(link'[d])
      BY DEF InRoom, WillBeIn
    <3> QED
      BY <3>1, <3>2 DEF RoomsFlow
  <2> QED
    BY <2>8, <2>9, <2>10 DEF RoomInv
<1> QED
  BY <1>1, <1>3, <1>4

\* At first nobody is connected.
LEMMA InitRooms == Init => RoomInv
<1> SUFFICES ASSUME Init PROVE RoomInv
  OBVIOUS
<1>1. \A c \in Clients : link[c] = 0 /\ up[c] = <<>>
  BY DEF Init, ClientInit
<1> QED
  BY <1>1, ChatClientAssumption DEF RoomInv, RoomsFlow, CallsFlow, Unlinked

\* No step of a client, of the server or of the clock breaks it, as long as
\* nobody asks for a second name and no wait finds the pool empty.
LEMMA NextRooms ==
    ASSUME SysInv, RoomInv, OneName, WaitsFit, [Next]_vars
    PROVE  RoomInv'
<1>1. CASE UNCHANGED vars
  <2>1. /\ client' = client /\ link' = link /\ up' = up /\ down' = down
        /\ clientList' = clientList /\ status' = status
    BY <1>1 DEF vars, clientVars, serverVars
  <2>2. RoomsStay
    BY <2>1 DEF RoomsStay, Stays
  <2> QED
    BY <2>1, <2>2, StillRooms
<1> QED
  BY <1>1, ClientKeepsRooms, AcceptKeepsRooms, ReadsKeepRooms, ClockKeepsRooms, StopKeepsRooms
     DEF Next

\* A patient client the server has in a room, with nothing in transit, can
\* talk and leave: it is logged in and knows that it is in a room, for any
\* number of clients, rooms and invitations, as long as no client that is
\* logged in asks for another name and the waits of its user's questions fit in
\* its pool: without its wait for EXIT_ACK a client would not take up the
\* answer to Create (client.c).
THEOREM RoomsAreKnown == Spec /\ []OneName /\ []WaitsFit => []RoomIsKnown
<1>1. ASSUME SysInv, RoomInv PROVE RoomIsKnown
  <2> SUFFICES ASSUME NEW c \in Patient, Quiet(c), Listed(c), Entry(c).chatRoom > 0
               PROVE  client[c].isConnected /\ client[c].isChat
    BY DEF RoomIsKnown
  <2>1. /\ client[c].pc = "running" /\ link[c] # 0 /\ down[c] = <<>> /\ c \in Clients
    BY ChatClientAssumption DEF Quiet
  <2>2. PICK i \in DOMAIN clientList : clientList[i].fd = link[c] /\ Entry(c) = clientList[i]
    BY DEF Listed, Entry
  <2>3. RoomFlow(client[c], up[c], down[c], InRoom(link[c])) /\ clientList[i].name \in Names
    BY <1>1, <2>1, <2>2 DEF RoomInv, RoomsFlow
  <2>4. client[c].isChat
    BY <2>1, <2>2, <2>3 DEF RoomFlow, InRoom, Having
  <2>5. client[c].isConnected
    BY <1>1, <2>1, <2>2, <2>3 DEF SysInv, LoginFlows, Told, Welcomes
  <2> QED
    BY <2>4, <2>5
<1>2. SysInv /\ RoomInv /\ OneName /\ WaitsFit /\ [Next]_vars => RoomInv'
  BY NextRooms
<1>3. SysInv /\ RoomInv => RoomIsKnown
  BY <1>1
<1> QED
  BY <1>2, <1>3, InitRooms, SystemInvariant, PTL DEF Spec
===============================================================================
