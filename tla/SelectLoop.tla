----------------------------- MODULE SelectLoop -----------------------------
(***************************************************************************)
(* The main loop of src/Server/server.c: select, the idle branch, one line *)
(* of the console, one new connection, and the dispatch, which goes over   *)
(* the client list for as long as fdNum says a descriptor is left.         *)
(*                                                                         *)
(* What a packet does is in ChatServer; here it only matters how its       *)
(* handler leaves the dispatch:                                            *)
(*   "plain"  the list is unchanged and fdNum is decremented,              *)
(*   "leave"  the client is deleted, the list shifts, fdNum is decremented *)
(*            (EXIT_REQ, EXIT_ACK),                                        *)
(*   "lost"   continue, without fdNum-- (INVITE_REQ or INVITE_ACK for a    *)
(*            client that is not there, or that is rejected).              *)
(*                                                                         *)
(* readn spins on EAGAIN: it is a step that is not enabled until the rest  *)
(* of the packet, or the end of the stream, has arrived.                   *)
(***************************************************************************)
EXTENDS Integers, SequencesExt, FiniteSets

CONSTANTS
    Fds,        \* descriptors of connections
    Limit,      \* clients beyond which a new one is asked to exit, 10
    MaxUnread,  \* bound: whole packets a connection holds unread, at least 1
    MaxTyped    \* bound: lines of the console that wait, at least 1

ASSUME LoopAssumption ==
    /\ IsFiniteSet(Fds) /\ Fds \cap {"stdin", "listen"} = {}
    /\ Limit \in Nat /\ MaxUnread \in Nat \ {0} /\ MaxTyped \in Nat \ {0}

VARIABLES
    pc,         \* where the loop is
    clientList, \* descriptors of the clients, in the order of the list
    reads,      \* what select found ready, of Fds and "stdin", "listen"
    fdNum,      \* how many of them the loop believes to be left
    i,          \* index of the dispatch, from 1
    prompts,    \* names a console command still waits for
    conn,       \* connections: none, waiting for accept, or open
    input,      \* packets a connection has received whole
    partial,    \* part of a packet has arrived behind them
    eof,        \* the other side has closed
    typed,      \* lines on stdin
    IS_SIG,     \* set by the SIGINT handler
    times,      \* history: how often the pass has read each descriptor
    upset       \* history: a client left, or a handler did not count, in the pass

loopVars == <<pc, clientList, reads, fdNum, i, prompts, times, upset>>
streams == <<input, partial, eof>>
vars == <<loopVars, conn, streams, typed, IS_SIG>>

Kinds == {"plain", "leave", "lost"}
Clients == Range(clientList)
Readable(f) == input[f] # <<>> \/ partial[f] \/ eof[f]

Init ==
    /\ pc = "select" /\ clientList = <<>> /\ reads = {} /\ fdNum = 0
    /\ i = 1 /\ prompts = 0
    /\ conn = [f \in Fds |-> "none"] /\ input = [f \in Fds |-> <<>>]
    /\ partial = [f \in Fds |-> FALSE] /\ eof = [f \in Fds |-> FALSE]
    /\ typed = 0 /\ IS_SIG = FALSE
    /\ times = [f \in Fds |-> 0] /\ upset = FALSE

-----------------------------------------------------------------------------
(* The loop                                                                *)

Ready == {f \in Clients : Readable(f)}
    \cup (IF typed > 0 THEN {"stdin"} ELSE {})
    \cup (IF \E f \in Fds : conn[f] = "pending" THEN {"listen"} ELSE {})

\* The top of the loop clears the read set and the count.
Top(where) ==
    /\ pc' = where /\ reads' = {} /\ fdNum' = 0 /\ i' = 1
    /\ times' = [f \in Fds |-> 0] /\ upset' = FALSE
\* while (fdNum > 0), from the first client.
Dispatch(left) ==
    IF left > 0 THEN pc' = "scan" /\ i' = 1 /\ fdNum' = left
                     /\ UNCHANGED <<reads, times, upset>>
    ELSE Top("select")

\* A signal is seen at the top of the loop or ends the select.
BugSignalled == IS_SIG /\ clientList # <<>>
Signalled == IS_SIG
Select ==
    /\ pc = "select"
    /\ IF Signalled THEN Top("stopped")
       ELSE IF Ready = {} THEN Top("idle")
       ELSE /\ reads' = Ready /\ fdNum' = Cardinality(Ready)
            /\ pc' = IF "stdin" \in Ready THEN "console"
                     ELSE IF "listen" \in Ready THEN "accept" ELSE "scan"
            /\ UNCHANGED <<i, times, upset>>
    /\ UNCHANGED <<clientList, prompts, conn, streams, typed, IS_SIG>>

\* The two idle scans, which are in ChatServer.
Idle ==
    /\ pc = "idle"
    /\ Top(IF Signalled THEN "stopped" ELSE "select")
    /\ UNCHANGED <<clientList, prompts, conn, streams, typed, IS_SIG>>

\* A line is a command without a name, or AddUser or DelUser (one name), or
\* ModifyUser (two), or none of these.  scanf waits for the names.
AfterStdin ==
    IF "listen" \in reads
    THEN pc' = "accept" /\ fdNum' = fdNum - 1 /\ UNCHANGED <<reads, i, times, upset>>
    ELSE Dispatch(fdNum - 1)
BugLineTaken(n) == n
LineTaken(n) == n - 1
Console ==
    /\ pc = "console"
    /\ typed' = LineTaken(typed)
    /\ \/ prompts' \in {1, 2} /\ pc' = "prompt"
          /\ UNCHANGED <<fdNum, reads, i, times, upset>>
       \/ prompts' = 0 /\ AfterStdin
    /\ UNCHANGED <<clientList, conn, streams, IS_SIG>>
Prompt ==
    /\ pc = "prompt" /\ typed > 0
    /\ typed' = LineTaken(typed) /\ prompts' = prompts - 1
    /\ IF prompts > 1 THEN UNCHANGED <<pc, fdNum, reads, i, times, upset>> ELSE AfterStdin
    /\ UNCHANGED <<clientList, conn, streams, IS_SIG>>

\* A connection whose placeholder name is taken is not listed (ChatServer's
\* Accept); one beyond the limit ends the pass.
Accept ==
    /\ pc = "accept"
    /\ \E f \in Fds :
          /\ conn[f] = "pending"
          /\ conn' = [conn EXCEPT ![f] = "open"]
          /\ clientList' \in {Append(clientList, f), clientList}
    /\ IF Len(clientList') > Limit THEN Top("select") ELSE Dispatch(fdNum - 1)
    /\ UNCHANGED <<prompts, streams, typed, IS_SIG>>

\* The index goes over the list as it is now, to the next client in the read
\* set; fdNum is looked at when it is through, not before.
Scan ==
    /\ pc = "scan"
    /\ LET ahead == {j \in i..Len(clientList) : clientList[j] \in reads}
       IN  IF ahead # {}
           THEN /\ \E first \in ahead : (\A j \in ahead : first <= j) /\ i' = first
                /\ pc' = "read" /\ UNCHANGED <<fdNum, reads, times, upset>>
           ELSE Dispatch(fdNum)
    /\ UNCHANGED <<clientList, prompts, conn, streams, typed, IS_SIG>>

BugWithout(list, k) == RemoveAt(list, Len(list))
Without(list, k) == RemoveAt(list, k)
BugUncountedLeave(left, packet) == IF packet = "plain" THEN left - 1 ELSE left
BugUncounted(left, packet) == IF packet = "leave" THEN left - 1 ELSE left
Counted(left, packet) == IF packet = "lost" THEN left ELSE left - 1

Handled(f, packet) ==
    /\ fdNum' = Counted(fdNum, packet)
    /\ upset' = (upset \/ packet # "plain")
    /\ IF packet = "leave"
       THEN /\ clientList' = Without(clientList, i)
            /\ conn' = [conn EXCEPT ![f] = "none"]
            /\ input' = [input EXCEPT ![f] = <<>>]
            /\ partial' = [partial EXCEPT ![f] = FALSE]
            /\ eof' = [eof EXCEPT ![f] = FALSE]
       ELSE input' = [input EXCEPT ![f] = Tail(@)]
            /\ UNCHANGED <<clientList, conn, partial, eof>>

BugEofUncounted(left) == left
BugEofTwice(left) == left - 2
AfterEof(left) == left - 1
\* The end of the stream: what was read of a packet is gone.
ReadNothing(f) ==
    /\ fdNum' = AfterEof(fdNum)
    /\ partial' = [partial EXCEPT ![f] = FALSE]
    /\ UNCHANGED <<clientList, conn, input, eof, upset>>

Read ==
    /\ pc = "read"
    /\ LET f == clientList[i] IN
          /\ \/ input[f] # <<>> /\ Handled(f, Head(input[f]))
             \/ input[f] = <<>> /\ eof[f] /\ ReadNothing(f)
          /\ times' = [times EXCEPT ![f] = IF @ = 2 THEN 2 ELSE @ + 1]
    /\ pc' = "scan" /\ i' = i + 1
    /\ UNCHANGED <<reads, prompts, typed, IS_SIG>>

Server == Select \/ Idle \/ Console \/ Prompt \/ Accept \/ Scan \/ Read

-----------------------------------------------------------------------------
(* Clients, the operator and the signal.  Nothing ends the input: only     *)
(* what waits unread is bounded.                                           *)

Connect(f) ==
    /\ conn[f] = "none"
    /\ conn' = [conn EXCEPT ![f] = "pending"]
    /\ UNCHANGED <<loopVars, streams, typed, IS_SIG>>

\* A packet arrives in two parts, or at once.
Arrive(f) ==
    /\ conn[f] = "open" /\ ~eof[f] /\ ~partial[f]
    /\ partial' = [partial EXCEPT ![f] = TRUE]
    /\ UNCHANGED <<loopVars, conn, input, eof, typed, IS_SIG>>
Send(f, kind) ==
    /\ conn[f] = "open" /\ ~eof[f] /\ Len(input[f]) < MaxUnread
    /\ input' = [input EXCEPT ![f] = Append(@, kind)]
    /\ partial' = [partial EXCEPT ![f] = FALSE]
    /\ UNCHANGED <<loopVars, conn, eof, typed, IS_SIG>>
\* The client ends, or its machine does.
Close(f) ==
    /\ conn[f] = "open" /\ ~eof[f]
    /\ eof' = [eof EXCEPT ![f] = TRUE]
    /\ UNCHANGED <<loopVars, conn, input, partial, typed, IS_SIG>>
Type ==
    /\ typed < MaxTyped /\ typed' = typed + 1
    /\ UNCHANGED <<loopVars, conn, streams, IS_SIG>>
Interrupt ==
    /\ ~IS_SIG /\ IS_SIG' = TRUE
    /\ UNCHANGED <<loopVars, conn, streams, typed>>

Outside ==
    \/ \E f \in Fds : Connect(f) \/ Arrive(f) \/ Close(f)
    \/ \E f \in Fds, kind \in Kinds : Send(f, kind)
    \/ Type \/ Interrupt

Next == Server \/ Outside
Spec == Init /\ [][Next]_vars
\* The process is scheduled; nothing is assumed about anybody else.
FairSpec == Spec /\ WF_vars(Server)

-----------------------------------------------------------------------------
(* Properties                                                              *)

InPass == pc \in {"scan", "read"}
Spins(f) == input[f] = <<>> /\ ~eof[f]
Stuck == \/ pc = "read" /\ Spins(clientList[i])
         \/ pc = "prompt" /\ typed = 0

TypeOK ==
    /\ pc \in {"select", "idle", "console", "prompt", "accept", "scan", "read", "stopped"}
    /\ clientList \in Seq(Fds)
    /\ reads \subseteq Fds \cup {"stdin", "listen"} /\ fdNum \in Int
    /\ i \in 1..(Len(clientList) + 2)
    /\ pc = "read" => i \in DOMAIN clientList
    /\ conn \in [Fds -> {"none", "pending", "open"}]
    /\ IsInjective(clientList) /\ \A f \in Clients : conn[f] = "open"

\* The while loop cannot turn over nothing: as long as fdNum is positive, at
\* least that many clients of the list, as it is now, are in the read set,
\* although handlers shift the list and some do not count (server.c:286).
SomebodyLeft == InPass => fdNum <= Cardinality(reads \cap Clients)

\* A pass in which nobody left and every handler counted has read each ready
\* client once when it ends, with nothing left over.
QuietPassServesAll ==
    [][pc = "scan" /\ pc' = "select" /\ ~upset
       => fdNum = 0 /\ \A f \in reads \cap Fds : times[f] = 1]_vars

\* The server waits inside readn only for the rest of a packet, or because a
\* client left or a handler did not count (server.c:477, :620, :851).
SpinsOnlyWhenUpset ==
    pc = "read" /\ Spins(clientList[i]) => upset \/ partial[clientList[i]]

\* The next packet is one that leaves the dispatch without fdNum--.
UncountedNext ==
    /\ pc = "read" /\ input[clientList[i]] # <<>>
    /\ Head(input[clientList[i]]) = "lost"

\* The loop comes back to select, or ends on a signal, or waits for ever for
\* one descriptor or for the operator, or is fed for ever with packets whose
\* handler leaves by continue without fdNum-- (server.c:617, :678): only such
\* packets, or silence in the middle of something, keep it from select.
ComesBack ==
    \/ []<>(pc = "select") \/ <>[](pc = "stopped")
    \/ <>[]Stuck \/ []<>UncountedNext

\* Once clients, operator and signal are silent the idle scans, which are the
\* keep-alive, recur, unless the loop waits or a client that closed is still
\* listed: end of file keeps its descriptor ready (server.c:134, :301).
IdleScansRecur ==
    \/ []<><<Outside>>_vars
    \/ []<>(pc = "idle") \/ <>[](pc = "stopped") \/ <>[]Stuck
    \/ <>[](\E f \in Clients : eof[f])

\* SIGINT ends the server, unless it waits, or packets that are not counted
\* keep it from the top of the loop for ever.
SignalStops == (IS_SIG ~> (pc = "stopped" \/ Stuck)) \/ []<>UncountedNext
=============================================================================
