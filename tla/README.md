# A verification project for TCP-IP_CHATTING

The program is a chat service in C: one server process (`src/Server`), a
terminal client (`src/Client`), a queue of packets that wait for an
acknowledgement (`src/Queue.c`, linked into both) and four subscriber tables
(`src/Server/ServiceHeader`). This directory holds TLA+ models of it, TLC
configurations that check them on small instances, and proofs for instances of
every size.

## Which program is modelled

The committed server does not compile: `server.c:141` and `:155` contain stray
words, `:66` calls `printF`, `serverFunction.c:695` uses a field `isRemove`
that `Node` does not have, and the brace at `server.c:284` closes the main loop
before the packet dispatch of lines 286-854, which uses the loop's variables.
The models read the program as its text means: the dispatch is nested in the
main loop (as it is in the binary `src/Server/server.out`), the stray words are
absent, and the `isRemove` loop, whose flag nothing sets, does nothing.

## Inventory

| part | state | operations | interacts with | module |
|---|---|---|---|---|
| connections (`server.c:256-315`, `serverFunction.c:603-682`) | `clientList`, `clientListSize`, open descriptors | accept, search, add, delete | everything below reads the list | `ChatServer` |
| rooms and chat (`server.c:418-523`, `584-785`) | `chatRoomList[6][11]`, `chatRoomAck[6]`, `clientList[].chatRoom` | create, invite, answer, chat, leave, exit | list; queue (a wait per packet); tables (rejection, forwarding, lettering) | `ChatServer` |
| keep-alive (`server.c:134-154`, `817-828`, `serverFunction.c:684-802`) | `clientList[].time`, `isPing`, queue | idle scans, ping acknowledgement | list; queue | `ChatServer` |
| packet queue (`Queue.c`) | 100 nodes in two linked lists | init, push, pop, free | pushed by every sender, popped by every acknowledgement and by the timeout scan, in both programs | `PacketQueue` |
| packet I/O (`ReadNWrite.c`) | - | write, read a whole packet | non-blocking descriptors | `SelectLoop`, `ChatServer` |
| select loop (`server.c:80-133`, `286-312`) | `fdNum`, `reads` | one pass over ready descriptors | runs the handlers, which change the list it iterates over | `SelectLoop` |
| subscriber tables and their files (`ServiceHeader/*.c`, `ServiceData/*.txt`) | arrays, hash chains, files | add, delete, modify, search, save, load | asked by CONN_REQ, INVITE_REQ, STR_REQ | `SubscriberTables` |
| server console (`server.c:158-253`) | the names it still waits for | AddUser, DelUser, ModifyUser, listing | tables; blocks the select loop | `SubscriberTables`, `SelectLoop` |
| client (`client.c`, `clientFunction.c`) | `myName`, `isConnected`, `isChat`, connection, own queue | login, commands, packets, timeouts, SIGINT | the server, by packets | `ChatClient`, `ChatSystem` |

Hard behaviours, each listed with its line as a hazard in `PROJECT.json`:
membership recorded twice and kept by five handlers; slots that move on
deletion, one field of them not; waits that name a client which is renamed or
gone; one timeout that restarts all others; one descriptor counted by a
handler and iterated over by the loop around it; the rest of a packet waited for
in the only thread; two ends that learn of one event at different times; answers
that come after the asker left; arrays written without bound checks; handlers
that leave the dispatch without counting the descriptor; files rewritten in place.

What makes each part correct: the list has no two entries with one name or
descriptor; the two records of membership agree and everybody in a room is
reached; a new room is nobody's; a client that rings is free; the queue is
sorted by age; no queue node is lost; a silent client is checked, and its
connection released; a pass reads every ready client and ends; a lookup answers
with a stored entry and with values entered for that name; both ends agree on
who is logged in and on who is in a room; a goodbye releases the connection.

## Modules

* `ChatServer` - the server without its tables: one action for accept, for each
  packet handler, for the idle pass (both scans, in order), for a second of
  clock and for SIGINT. The server is a single thread, so a handler is atomic
  and interleaving is the order in which packets, ticks and idle passes come.
* `ChatServer_proofs` - its inductive invariant and the theorems about rooms and
  lists; `ChatServerSteps_proofs` - the queue's order, the slots that move and
  the invited client.
* `MCChatServer` - a VIEW without the last step's packets.
* `SelectLoop` - the main loop as steps (top, idle, console, accept, dispatch,
  read), between which clients, operator and the signal act;
  `SelectLoop_proofs` - its inductive invariant and theorems.
* `SubscriberTables` - array, chains, file and phase of a table;
  `StoredNames` - what a table keeps for its callers; `MCSubscriberTables` - an
  instance; `SubscriberTables_proofs` - the invariant of indices and values, the
  one that counts names, when a request overruns, and the refinement.
* `PacketQueue` - `Queue.c` with head, tail, next and prev; `PacketPool` - the
  bounded FIFO pool it promises to be; `MCPacketQueue` - an instance;
  `PacketQueue_proofs` - the proof that the one implements the other.
* `ChatClient` - the client program, a set of processes; `ChatSystem` - those
  processes, their connections and `ChatServer` (an INSTANCE), in which the
  server reads what a client wrote and nothing else; `MCChatSystem` - instances;
  `ChatSystem_proofs` - the invariant of both ends, logins, and that the server
  among its clients implements `ChatServer`; `ChatSystemWaits_proofs` - the waits
  for chat messages; `ChatSystemRooms_proofs` - what clients know of their rooms.

### ChatServer and the code

| variable | code |
|---|---|
| `clientList` | `clientList[0..clientListSize-1]`; `clientList[i]` here is slot `i-1` there; `age` is the current time minus `time` |
| `isPing` | the field of that name, of every slot: deletion does not move it |
| `chatRoomList`, `deficit` | cells `1..count` of each row, and how far a count is below zero |
| `chatRoomAck` | the same array |
| `MallocQ` | the waiting packets, oldest first (`PacketQueue` has the pointers) |
| `openFds` | descriptors accepted and not closed; larger than the list when one was leaked |
| `status` | running, stopped, or the undefined access that ended the behaviour |
| `out` | packets of the last step, written or refused: what the action properties read |

A name is a member of `Names`, or the number `k` for the placeholder
`unknown<k>` of a connection that has not logged in, or `NoName` for an empty
field. `lost` is the set of descriptors whose next write fails. A table lookup
is an input of the handler (`registered`, `rejected`, `forward`). Every store
outside an array or on a count, negative index and NULL access ends the behaviour
with its name in `status`; loads whose value is overwritten before anything reads
it have no effect. So the types of the list and the rows say nothing about
overruns, which are real; `OverrunsNeedFull` says when they can come. The queue is
taken as `PacketQueue` gives it when malloc returned zeros. The senders that only differ in their type
(`serverFunction.c:407-571`) are one constructor.

The actions only accept packets whose type is in `Traffic`: an instance selects
what its environment does, and a handler outside `Traffic` never runs in it.

### SelectLoop and the code

What a packet does is in `ChatServer`; the loop tells its handlers apart by how
they leave the dispatch: `plain` (fdNum--), `leave` (the list shifts, fdNum--)
and `lost` (`continue` without fdNum--, `server.c:617-628` and `678-688`).
`readn` spins on EAGAIN (`ReadNWrite.c:63`): its step is disabled until the rest
of the packet, or the end of the stream, is there. The same goes for the names
that a console command reads with scanf (`server.c:162`). Clients and operator
never fall silent by themselves: only what waits unread is bounded. `pc`, `i`, `fdNum` and
`reads` are the variables of those names; `times` and `upset` are history
variables of the pass. The newline that scanf leaves behind is not modelled.

### SubscriberTables and the code

The four files under `ServiceHeader` repeat one program over different entries;
one behaviour is about one of them (`kind`). A request edits the table and opens
the file for writing, which truncates it; the fclose that writes it is the next
step, so `Stop` can come between them. `fopen` may fail on a save. `Get_Key` is
the constant `BucketOf`, any function from names to rows. A name is opaque;
`TooLong` holds the pairs of a name and a value that have 37 characters or more
together, a line longer than the `fgets` that reads it back (`Lettering.c:19`), and
`Cut` is what the torn line leaves.

### PacketQueue and the code

`FreeQ` and `MallocQ` are the two headers, which come from malloc and are read
before they are written (`Queue.c:6-13`); the nodes are static and zero. The
server has read four files into buffers it has freed by then (`server.c:23-42`), so
`FreshHeaders` is any set of headers. A push or pop that follows a pointer to no
node ends the behaviour with the result "wild". `zeroed` remembers whether both
headers were zeros: what the queue promises, it promises then.

### ChatClient, ChatSystem and the code

`client[c]` holds the variables of process `c`; one action is one pass of its
loop: a line of the user, a packet, or an idle pass. `myName` is never
initialised (`client.c:6`): `Leftover` is what it may hold. `up[c]` and `down[c]`
are the two directions of the connection, `link[c]` the descriptor the server
knows it by. `ServerReads(c)` takes the oldest packet of `up[c]`, performs the
server's handler for it, with tables from the constants, and appends what it
sent to the connections it went to: alarms and pings first, then the answer, as
the handlers write them. A slot is used again only after the server has closed
its descriptor. SIGKILL is a connection that breaks; a packet written to it is
refused.

## Fairness

* `ChatServer!FairSpec`: weak fairness of `Tick` and of the idle pass. The process
  loops while it runs, `select` has a timeout of 5 ms, and in the run that uses
  it nobody sends, so the timeout branch recurs. Nothing is assumed about clients.
* `SelectLoop!FairSpec`: weak fairness of the server's own steps: the process is
  scheduled. A step that waits for the rest of a packet or for a name is not
  enabled, and nothing is assumed about who would send it.
* `ChatSystem!FairSpec`: for each client, weak fairness of the server reading it and
  of the client reading its packets (its user answers an invitation). The server's
  pass reads every ready client unless it is disturbed (`QuietPassServesAll`); with
  two clients, no invitations and whole packets, which is the login run, no pass
  stays disturbed. Nothing is assumed about what users type.
* `MCChatSystem!FairSession` adds that seconds pass and that the idle passes of a
  client recur, which they do while nobody types and nothing arrives. It only
  serves a violation: the counterexample does not stop for want of a step.

## What is checked

| run | instance | shows |
|---|---|---|
| `rooms` | 3 connections, 1 numbered room, room 0 | membership agrees, counts, broadcast and departure reach the room, creation is fresh, an invitation rings nobody in a numbered room under forwarding and rejection, slots move whole, stores overrun only a full list or row |
| `keepalive` | 2 listed connections and a third, 1 name, queue of 3, lost writes | the queue stays sorted by age through timeouts and restarts, and within its pool; names stay unique through logins; a connection beyond the list ends in its fault |
| `queue` | 4 nodes, 2 kinds of packet, allocation that may fail, headers of zeros or of somebody's leftovers | from zeros no node is lost and `PacketQueue` implements `PacketPool` |
| `select` | 2 connections, limit 1, endless packets, console lines, a signal | while fdNum is positive somebody is left to read; readn waits in an undisturbed pass only for the rest of a packet; such a pass reads every ready client; the loop comes back unless somebody withholds input, or feeds it for ever with packets that are not counted; the idle scans recur once all are silent and no listed client stays readable; a signal ends the loop, with the same two exceptions |
| `tables` | 4 kinds of table, 3 slots, 2 rows of 2 indices, 2 values | lookups answer stored entries; chains count their rows; requests overrun only what is full, a load of what was saved nothing; values stay with their names; the table implements `StoredNames` |
| `login` | 2 clients, 2 moves, 1 second, a pool of 4 waits | with nothing in transit both ends agree on the login; a goodbye that was sent releases the connection; the client's pool is never exceeded |
| `session` | 2 clients, already logged in, 1 room, 4 moves | a client in a room knows it; no STR_ACK finds the server's queue empty |
| `lookup`, `admit`, `checks`, `silent`, `unanswered` | the instances above | the five disagreements below |

`lookup`, `admit`, `checks`, `silent` and `unanswered` expect a violation. `StoredNames` lets a
crash empty the file, because the code does: between the truncation and fclose
the file holds nothing, and a stop there loses every entry.

Bounds. Three connections are the least for which a deletion shifts a slot that
is not the last while a room keeps two members; one numbered room makes the
second creator fall into room 0; rows of three cells let a doubled descriptor
overflow one. Ages stop one above the limit they are compared with, which no
comparison can tell from a larger age. `MaxDeficit` bounds how often room 0 is
left below zero: one is enough to reach the overwritten count. Three waits are the least for which a timeout
that restarts only the new head would leave the queue unsorted.

Two descriptors are enough for the dispatch to shift the list under itself with
somebody left behind the one that went; `Limit` 1 makes the second connection the
one that is asked to go. `MaxUnread` 1 lets a connection hold one whole packet and
part of the next; a new one may come as soon as that is read, without end. In the tables two names share a row
and one is alone in its own; three slots are the least in which a deletion moves
an entry whose row is another one's; a row of two indices is full with two users.
Four moves let a session create, invite, answer and chat before somebody leaves;
`MaxTicks` 0 there leaves timeouts to the login run. `SessionSpec` starts where
two clients have logged in and the first has created room 1, which the server
reaches from its initial state by two logins and a creation. `Patient` users wait
for the answer to a room command before they type the next: without that,
`RoomIsKnown` fails (two `!Exit` in a row, or an invitation accepted while an
`!Exit` is under way). What further conditions it has in general is in the proof.

`CHECK_DEADLOCK FALSE` where `status` may end the behaviour (a fault, SIGINT) or
where the instance's environment may fall silent.

### What the code does not do

* `lookup`: `ReadMe.md:39`, a subscriber can be looked up. `User_Del_List` shifts
  the array and leaves the indices of the shifted users in their chains: after
  the deletion of the first of two, the second cannot log in.
* `admit`: `ReadMe.md:12`, ten clients are admitted. After two connections and
  the departure of the first, the third is named like the second, is not listed,
  and its descriptor stays open unread.
* `checks`: `ReadMe.md:26`, a silent client is sent a connection check. A client
  pinged before its login and logged in before its answer is never checked again.
* `silent`: `ReadMe.md:28`, the connection of a client that does not answer is
  released. It is sent EXIT_REQ; nothing closes the descriptor.
* `unanswered`: `ReadMe.md:21`, a client that gets no answer to a request in time
  releases its connection. It pops the wait and goes on (`clientFunction.c:604`), or,
  if it was a login, tries again; an invitation of somebody absent is never answered.
  A client that has no name (its connection was not listed, or its login failed)
  does not even pop (`clientFunction.c:594`).

One more has no run of its own, because it is what the exceptions of a property
say. `ReadMe.md:26` and `:28` also promise a check to, and the release of, a client
that closes without EXIT_REQ. It stays readable for ever, select never times out,
and the idle scans that would find it never run (`server.c:301`): the last disjunct
of `IdleScansRecur`.

## What is proved

Everything in this section holds for every value of the constants that satisfies
the named ASSUMEs of the modules.

`ChatServer_proofs` proves, for every value of the constants that satisfies
`ChatServerAssumption` and `HeaderAssumption`, `Spec => []IInv` with

    IInv == TypeOK /\ UniqueClients /\ RoomListsMember /\ CountsNonNegative

and from it the four invariants and three action properties
(`BroadcastReachesRoom`, `DepartureIsAnnounced`, `CreatedRoomIsFresh`).

That lists and rows keep their types says nothing of overruns, because the model
ends in them. `OverrunsOnlyWhenFull` does: a join that overruns a row has found it
full or, for room 0, below zero (`CountsNonNegative` excludes the others), and an
accept that overruns the list has as many descriptors open as the list has slots
(`UniqueClients`: the slots hold distinct open ones). `FewClientsFit` draws the
conclusion for no more than `MaxClients` descriptors: the list is safe, and a row
overruns only when a descriptor is in it twice or all of them are, which is what
invitations into another room and EXIT_ACK leave behind (`server.c:697`, `:812`).

The conjuncts need each other. EXIT_REQ leaves the room of slot `i` and deletes
the slot a search for `i`'s name returns: only `UniqueClients` makes them one
slot. A leave decrements a count whether or not the removal found anybody:
`RoomListsMember` says it does, and so `CountsNonNegative` survives. A removal
drops one cell: that every other client keeps its own needs descriptors to be
unique. The proof has a lemma per helper, then what a leave, a join and a
deletion do to the rooms and the list, then one lemma per handler; the action
properties add that a companion in the room sits behind a cell the handler
writes to.

`ChatServerSteps_proofs` proves the properties that need no invariant beyond that
one. `QueueOldestFirst` is inductive by itself: a push appends a wait of age 0, a
pop takes the head, a tick ages all alike, and a timeout restarts all that stay.
`SlotsMoveWhole` compares a slot with the slot its name has after the step, for
each handler, through what refreshing, deleting, renaming and admitting do to a
list of unique names. `InvitedIsFree`: only `InviteReq` writes an INVITE_REQ, to
the descriptor of the client whose room it has tested, and a descriptor belongs
to one client. Its last part, what each handler writes and who is listed under
which name after it, is what the proofs of `ChatSystem` cite.

`SelectLoop_proofs` proves `[]IInv` of the loop, where IInv joins the list (distinct
open connections), the streams, the program counter, what holds before a pass,
and within one:

    fdNum <= the number of listed clients in reads           (SomebodyLeft)
    ~upset: fdNum is the number of those not read yet; those before i are read once

The equality is what `SpinsOnlyWhenUpset` and `QuietPassServesAll` follow from; the
inequality is what survives when a deletion moves the unread client before `i`.

`SubscriberTables_proofs` proves `[]IInv` of the tables: sizes and chains are in
bounds, the values of a slot were asked for by its name, the values of a rejection
entry end at their number, and the slots behind the end are clear. The last one
is why a stale index that points behind the end finds nobody, and so why
`FoundIsStored` holds although chains are never renumbered. A lookup takes the
first hit of a chain, the least of a finite set of integers, which is proved to
exist by counting.

`PacketQueue_proofs` proves that the pointers implement `PacketPool`, for every
number of nodes and every `FreshHeaders`, in the behaviours in which malloc returned
zeros; in the others nothing of the kind holds. What becomes of one of them is
`FullHeaderKeepsNothing`: when the free list's header reads as full with a head that
is no node, no packet is ever kept. (It is no idle case: with glibc, a header read
from a buffer that held a table file before has text in `queueSize`, a number far
above 100.) The invariant names the nodes of the two lists: there are sequences `f` and `m`,
linked from head to tail along `next` and ended by NULL, disjoint, as long as the
sizes say and together all the nodes built. A move takes the head off one and
appends it to the other. That following the links meets just that sequence is
proved from the least place where it would not.

The second half of `SubscriberTables_proofs` is about how many names fall into a
row. Its invariant, `NamesInv`, says that every entry is named and each row of the hash table
has as many indices as the array has entries of that row; that the file fits the
array and the rows; and that while it is loaded the table holds its first lines,
completely indexed. Deleting takes one entry of a row and one index from that row,
be it the right one: that is why `ChainsCountRows` survives the stale indices, and
why no file that was written overruns anything when it is read back
(`LoadNeverOverruns`). A request does overrun, but only what is full
(`OverrunsNeedFull`): a row that has no room for an index has as many entries. `ImplementsStoredNames` follows step by step: a request is a
step of the store of names, a lookup and a line loaded are none.

`ChatSystem_proofs` is about clients, connections and server together, for any
number of each. It takes the server's lemmas from
`S == INSTANCE ChatServerSteps_proofs` and rests on the assumptions of `ChatClient`,
`ChatSystem` and `ChatServer`, `ServerAssumption` (no user is called `unknown<k>`)
among them. The invariant is

    SysInv == Typed /\ LoginFlows

`Typed` has the server's IInv, the types of clients and pipes, and that connections
are not shared. `LoginAgrees` speaks of empty pipes only, so it cannot be inductive:
`LoginFlows` says of any pipe that the last welcome still in it, or what the client
knows if there is none, is what the list says of that connection. What the server
writes (`Written`, a concatenation over a set in any order) is handled by the least
place at which a claim about it would fail.

`ClientsAreServed` says that every step of the composition is a step of
`ChatServer!Next` or leaves the server's variables alone, if `HeaderNames` has all
names of the clients and `Traffic` lost writes (`MCChatSystem`'s instances do). So
the environment `ChatServer` is checked and proved in, of clients that send anything
at any time, is wide enough for the real ones. `SystemQueueStaysSorted` is
an example of what carries over.

`ChatSystemWaits_proofs` proves `EveryChatIsWaited`. Until a second has passed every
wait is new, so nothing but STR_ACK pops a wait for a message; the invariant is

    chat messages in transit + their acknowledgements in transit
        <= waits of type STR_ACK in the queue

A message adds one wait per cell it is written to and at most as many packets; a
client turns a message into at most one acknowledgement; STR_ACK takes one of each.
The hypothesis `[](Len(MallocQ) < PoolSize)` is needed: a push on a used-up pool
(100 nodes in the code) is dropped without a word, and then the wait is missing
while the message is on its way. TLC shows it with `PoolSize` 1 in the `session`
instance.

`ChatSystemRooms_proofs` proves `RoomIsKnown`. That property, too, speaks of empty
pipes only. Its invariant `RoomInv` says of any pipes

* `RoomsFlow`: a patient client has at most one question about rooms under way, on
  the way up or as its answer on the way down. While it creates a room, its wait for
  EXIT_ACK is there, which is what makes the client take up the answer
  (`client.c:464`). An invitation it accepts is in front of every question. If the
  server has it in a room, then the client knows, or the answer that tells it is on
  its way down, and no answer to an `!Exit` is.
* `CallsFlow`: invitations on their way, and the answers to them, hold the name
  under which that connection is listed. The server looks the callee up by this
  name and not by the descriptor the answer came from (`server.c:683`); with
  `UniqueClients` the two are one client.
* `Unlinked`: what a dead connection held is gone before its slot is used again.

It is proved in three parts: what a pass of a client may do to its flow
(`RoomStep`: one lemma per command and per kind of packet), what each handler of
the server does to the rooms and writes about them (`HandledMoves`,
`HandledWrites`), and the flows put together when the server reads a packet. Two
hypotheses remain, and each is needed:

* `[]WaitsFit`, a patient client has nodes left in its pool (10, `client.c:61`):
  with `ClientPool` 1 a `Create` on a used-up pool leaves no wait, the client
  ignores the answer, and TLC violates `RoomIsKnown` in the `session` instance.
* `[]OneName`, a listed client sends no CONN_REQ under a second name. Connect is
  possible as long as no answer has come, so two logins can be under way. With
  three clients TLC finds: c2 logs in as b and at once as c, is listed as b, is
  invited by c1 as b, becomes c; c3 logs in as b; c2's answer to the invitation
  puts c3 in the room, which was never told. The instances of the runs have two
  clients and do not reach it.

Both hold in every state of the `session` instance, and so do the conjuncts of
`RoomInv`.

Only model-checked:

* Liveness under fairness, which the prover does not do.
* The five disagreements: TLC's counterexample is the evidence.

## What the models show beyond the properties

Behaviour that nothing in the repository speaks about, and that a run reaches:

* An INVITE_REQ for somebody absent leaves `fdNum` one too high: the pass reads a
  client again that has nothing more to say, and the server serves nobody until
  that client sends (`server.c:617`). A client that keeps sending them keeps the
  server in one pass: no select, no idle scan, no end on SIGINT.
* A client that never logged in has an empty name, and its senders write nothing
  then: it answers neither pings nor EXIT_REQ (`clientFunction.c:44`, `:235`).
* The client enters chat mode when it answers an invitation, also with `no`; a
  placeholder can be invited, and that blocks its Connect (`client.c:572`).
* Two waits of the client name acknowledgements that the server never sends
  (`clientFunction.c:227`, `:552`): they leave the queue only by age.
* EXIT_CHATROOM_ACK is ignored when the wait for it has gone (`client.c:475`).
* `!User` ends the server (`server.c:837`); the `session` run reaches it.

## Not modelled

* `writen` on a full socket buffer (`ReadNWrite.c:28`): it returns -1 on EAGAIN,
  possibly after part of a packet, and every later packet of that connection is
  then read out of step. A write is whole or refused here; packet I/O is
  therefore listed as partly modelled.
* What follows once room 0 was left more often than entered, and a join then stores a
  descriptor in `chatRoomList[0][0]`: the store is inside the array, the program
  goes on with a count of that descriptor plus one (`server.c:601`, `:698`). The
  behaviour ends there, and what is shown holds up to there.
* A file of more than one stdio buffer (4096 bytes with glibc): `fprintf` writes it in
  parts, and a kill can leave the first of them. `SaveFile` writes it at once.
* What a queue does after it followed a pointer left by somebody else
  (`PacketQueue`'s "wild"); server and clients are modelled with the queue that
  headers of zeros give.
* The arithmetic of `Get_Key`; a name that contains a separator of the table
  files; the rest of a rejection line beyond the 2023 characters that are read;
  a table file that is missing at the start, which ends the server.
* Listing and help commands of both consoles, `printQ`, prompts and logging: they
  change no state. Build settings and includes have no behaviour.
* `ChatServer` is checked with tables that answer anything, and `ChatSystem` with
  tables that do not change while it runs; the dispatch order of a pass is checked
  in `SelectLoop` alone. Composing the three exceeds what TLC can explore; the
  parts meet at how a handler leaves the dispatch and at what a lookup answers.
