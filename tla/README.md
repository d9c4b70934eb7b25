# Formal models of GameServerStudying

TLA+ specifications of the servers, clients and libraries of this repository, the
TLC runs that check them, and the theorems that TLAPS proves about them.

Paths: `TF` is `src/WindowsSocketPrograming/TCPFighter_Server/TCPFighter_Server`,
`W` is `src/WindowsSocketPrograming`.  The Korean comments are in CP949.

## 1. The system

The repository is a collection of game-server studies in C++ on Winsock.  Its
parts are separate programs that share a few library classes.

| Component | State it keeps | Operations | Hard part |
|---|---|---|---|
| Ring buffer (`TF/RingBuffer`, `src/MyLibrary/RingBuffer`) | array of size + 1 bytes, `m_front`, `m_rear` | Enqueue, Dequeue, Peek, ClearBuffer; direct mode: GetRearPtr / GetDirectEnqueueSize / MoveRear and the same for the front | empty, full and wrapped positions; copying and direct calls mixed on one ring |
| Fighter server (`TF`) | `users`, `disconnects`, `uniqueID`, `serverShut`; per session a socket, readQ, writeQ, action, position, HP | networkProc (select, acceptProc, readProc, writeProc, deleteUser), packetProc_*, update, unicast, broadcast, disconnect | streams cut anywhere; full write queues; handlers that disconnect other sessions, or their own, in the middle of a loop over the users |
| IOCP echo server (`W/IOCPServer`) | per session an overlapped structure, a buffer, recvBytes, sendBytes; the completion port | main: accept and the first WSARecv; worker threads: completion, delete or account, next WSASend or WSARecv | no lock: the protocol has to keep a session in one thread's hands; partial sends; refused operations; clients that leave |
| OnlineStar (`W/OnlineStar`) | server: sessions with rings that also count used bytes; client: table of stars | select loop, ID / create / delete / move messages | the counter against the indices; slots reused; the server ends at its first accept (null pointer, `OnlineStar_Server.cpp` 276) |
| Select, WSAEventSelect and overlapped echo servers (`W/EchoSelect`, `W/WSAEventSelectServer`, `W/OverlappedIOServer`) | arrays of sockets, sessions and events | handlers per ready index; removal by moving the last entry | indices used after a removal; a second thread |
| WSAAsyncSelect client (`W/WSAAsyncSelect_Client`) | ring buffers, window state | FD_CONNECT/READ/WRITE/CLOSE messages | partial reads and writes |
| Packet (`TF/Packet`, `src/MyLibrary/SerializeBuffer`) | buffer, read and write position, size | PutData, GetData, operators, MoveWritePos, MoveReadPos | positions modulo the size, without bounds checks; an unsigned argument |
| Movement (`TF/Contents`, `TF/PacketProc`) | position, action, direction | a frame of `update`, MOVE_START, MOVE_STOP | the bounds in eight directions; claims taken over within 50 |
| myList (`TF/myList.h`) | doubly linked nodes with two dummies | push, erase, remove, iterators | an iterator outlives an erase |
| Pathfinding (`src/AStar`) | grid, start and goal, open and closed lists | mouse and key handlers, FindPath | re-ordering, bounds, freed nodes |
| MemoryPool (`src/MyLibrary/MemoryPool`) | free list of blocks | Alloc, Free | recycled blocks |
| Synchronisation demos (`src/MultiThread`) | lock flag; queue with condition variable or event | lock/unlock, produce/consume | lost wake-ups, coalesced signals |
| Small samples, monitors, the message compiler | — | straight-line calls | none |

How they interact: clients send bytes to a server and get bytes back, which the
network may cut anywhere; the fighter server's handlers reach other sessions
through their writeQs and through `disconnect`, which calls `broadcast`, which
may call `disconnect`; `disconnect` marks and `deleteUser`, at the end of the
pass, removes.  In the IOCP server main, the system and the workers hand a
session to one another through posted operations and completions.

The hazards that follow from this are listed with their lines in `PROJECT.json`.

## 2. Modules

| Module | Models | Code |
|---|---|---|
| `ByteQueue` | what a ring promises: a bounded FIFO with the code's return values | abstract |
| `RingBuffer` | the fighter server's ring, index by index, in both modes | `TF/RingBuffer.cpp` |
| `CountedRing` | the ring that also counts, as operators on a ring's state | `W/OnlineStar/.../RingBuffer.cpp`, shared by the drawing client |
| `SessionStream` | one session of the fighter server: bytes in, packets, bytes out | `TF/Network.cpp`, `Protocol.h` |
| `FighterServer` | the main loop, all sessions, and what each client has on screen | `TF/Network.cpp`, `PacketProc.cpp`, `Contents.cpp` |
| `Movement` | a player on the field: frames and claims | `TF/Contents.cpp`, `PacketProc.cpp` |
| `Packet` | the serialisation buffer | `src/MyLibrary/SerializeBuffer`, `TF/Packet.cpp` |
| `MyList` | the linked list, node by node | `TF/myList.h` |
| `IOCPServer` | main, the workers, the completion port and the clients | `W/IOCPServer/IOCPServer/IOCPServer.cpp` |
| `EchoClients` | the clients and sockets of the four servers below | external |
| `SelectServer` | the select echo server | `W/EchoSelect/SelectTcpServer` |
| `EventSelectServer` | the WSAEventSelect echo server | `W/WSAEventSelectServer` |
| `OverlappedServer` | main and the worker over shared arrays | `OverlappedIOServer_Event.cpp` |
| `RoutineServer` | main and the worker over one variable and two events | `OverlappedIOServer_CompletionRoutine.cpp` |
| `StarClient` | the OnlineStar client | `W/OnlineStar/OnlineStar_Client/.../Main.cpp` |
| `DrawClient` | the WSAAsyncSelect client | `W/WSAAsyncSelect_Client` |
| `PathFinder` | the grid's handlers and FindPath | `src/AStar/AStar/AStar.cpp` |
| `MemoryPool` | the free list | `src/MyLibrary/MemoryPool` |
| `SpinLock`, `Mutex` | both locks with their programs; the abstract lock | `src/MultiThread/SpinLock`, `SleepLock` |
| `Handoff` | producer and consumer, over a condition variable or an event | `src/MultiThread/Condition_Variable`, `Event` |
| `RingBufferProofs`, `IOCPServerProofs`, `SessionStreamProofs`, `FighterServerProofs` | the theorems of the module they are named after | |
| `EchoServersProofs`, `LibrariesProofs`, `ClientsProofs` | the theorems of the programs that `MCEchoServers`, `MCLibraries` and `MCClients` put side by side | |
| `SequenceLemmas` | what the proofs need of sequences: cuts, prefixes, flattening, induction | |
| `MC*` | the constants of the runs and, in `MCEchoServers`, `MCClients` and `MCLibraries`, the programs side by side | |

They form a ladder: `RingBuffer` implements `ByteQueue`; `SessionStream` keeps a
ring as its byte sequence together with the two indices (taking the sizes and
index arithmetic from `RingBuffer` by INSTANCE); `FighterServer` keeps a writeQ
as a sequence of messages with the count of used bytes, `Movement` the positions it
leaves out; `DrawClient` keeps two whole rings of `CountedRing`; `SpinLock`
implements `Mutex`; the echo servers share `EchoClients`.  Programs that do not
interact are checked in one run, one program per behaviour (the variables `server`
and `program`, the two disjuncts of MCClients' Init).

### RingBuffer

`buf`, `front`, `rear` are `m_bufferPtr`, `m_front`, `m_rear`; `out` and `ret` are
what a call handed to its caller.  One action per method.  `MoveRear` and
`MoveFront` are never called alone in the servers: they are part of `RecvInto`
(`readProc`: recv at GetRearPtr, then MoveRear) and `SendFrom` (`writeProc`).
`SendFrom(0)` and `RecvInto(<<>>)` are the transfers of no bytes that do occur
when an index stands on the last slot.

### SessionStream

`pc` walks through a pass of `networkProc`: accept (once), select, read, parse
(once per packet), write, delete.  `client`, `sent` and `inbox` are the client
and the socket's buffer; ClientSend and ClientLeave may happen at any time.
`recv(n)` takes any number of the bytes that have arrived up to the direct size
of readQ, `writeProc(n)` any number up to the direct size of writeQ.  The other
sessions are seen through `broadcast`, which any of their handlers may perform at
any point of the pass.  A header is two bytes here (the code, then type and
size), a byte being a pair of what it is and which packet it belongs to.

### FighterServer

A handler of the code is one action.  Within a handler the calls of broadcast,
unicast and disconnect are operators on a record (`World`) of what they change:
the write queues, HP, the list of disconnected sessions.  The loops over the users
are folds (`ForEachUser`).  The code's disconnect calls broadcast, which calls
disconnect: `DisconnectWithin[n]` is disconnect when n more of it may be within
one another, and it uses `DisconnectWithin[n - 1]`.  The record remembers which
sessions disconnect is busy with (`within`); coming back to one of them means that
the code's recursion never ends, for nothing is taken out of a queue meanwhile:
`crashed`.  So the sessions that are nested are different ones, and as many as
there are sessions are enough.

`known` and `met` are the clients' side: the characters a client has on screen,
and those it was ever told of.  The client program is not in the repository;
it is taken to add at CREATE_OTHER and to remove at DELETE, as `Protocol.h` says.

An attack may hit any set of the other players, a move may be accepted or
refused: positions are left out.  ATTACK1 and ATTACK2 take DAMAGE1, ATTACK3
DAMAGE2; ATTACK3's extra test of HP changes nothing, for the subtraction stops
at 0.  Bytes become messages: `Size` says that DELETE is shorter than the others.

### IOCPServer

A worker's iteration is cut at its accesses to what others might share: taking a
completion, the update of the counts, the post.  (closesocket and delete are one
step.)  `pending[s]` and `done[s]` are the operations the system has and the
completions that wait on the port.  WSASend and WSARecv either leave the operation
pending, also when they succeed at once, because a completion is queued all the
same, or are refused.  `Received`, `Transmitted` and `Failed` are the system: any
part of what arrived, any part of what was to be sent, a failure after a reset.

### EchoClients and the four servers

A client connects, sends numbered bytes, closes or resets; `handle` is the server's
socket for it.  What recv and send may return is in `RecvResults` and `SendResults`.

* `SelectServer`: a pass is selectCall, acceptCall, and one step per entry of the
  walk (`at` is the loop's i).  `RemoveSocketInfo` moves the last entry into the gap
  while the walk counts on, as in the code.  The length of the send is
  recvBytes - recvBytes, which is what line 155 says: nothing is ever sent.
* `EventSelectServer`: `recorded` and `armed` are Winsock's record of what happened
  on a socket and what it would record next; a call of accept, recv or send
  re-enables its event.  `index` and `startIdx` are the code's.  At the limit of
  events the code takes no client and does not call accept, so that FD_ACCEPT is
  never re-enabled.  `readEvent` has both ends of recv's branch, but neither
  WSAEWOULDBLOCK nor the 0 on which line 152 removes the session at `startIdx` occurs:
  FD_READ is handled before FD_CLOSE and finds the bytes that were recorded.
* `OverlappedServer`: `acceptPc` cuts main where it leaves the lock, `workPc` the
  worker's walk.  The session at `startIdx` (`first`) is removed, whichever entry the
  loop looked at (line 158): a client whose event was signalled is dropped when
  another's operation is still pending.  `fields` holds the counts and what wsaBuf
  names (`from`, `len`): main posts to the session that stands at the end of the array
  with whatever that session's wsaBuf names, which is an older session's when a
  removal came in between.  `doubled` remembers the sessions that were given an
  operation before another one of theirs was served.  `slotSession` and `slotEvent`
  keep what stands behind the count `slots`, as the code's arrays do, because main's
  RemoveSession after a refused receive (124) uses an index computed before it takes
  the lock (`computeIndex`, then `removeRefused`).  When the worker removes an entry in
  between, the index is behind the table and names a session that was moved down: it is
  deleted where it stands, and the last one drops out.  `strayed` remembers both.
  From then on the wait fails, for it is given the event of a deleted session; a use of
  a deleted session ends the behaviour as "undefined".  Reading
  `sessions[clientCnt - 1]` and posting are one step of main, serving a completion is
  one of the worker.
* `RoutineServer`: main waits for hReadEvent and accepts into the global, the worker
  waits for hWriteEvent and makes a session of it.  The routine closes the *global*
  clientSock on an error or at the end of a stream (line 165), and the model does so.

### StarClient and DrawClient

StarClient's step is one frame: keyInput, selects, recvMessage.  The stream is cut
in halves of messages: a recv that returns less than 16 bytes closes the connection
(line 288), also a healthy one.  `known` is what the messages say of the players;
a star for which no slot is free is dropped (318).  The OnlineStar server is the
environment, for the real one does not get beyond its first accept; what it says to
the client that comes is `Greeting`: the id, then a creation for everybody there.

DrawClient handles one posted message at a time (dispatch), its readProc loop being
cut at the places where it calls recv.  `writeProc` takes the bytes from the ring
before it sends them, and loses what send does not take (283-294).  FD_CLOSE and
FD_READ are posted as WSAAsyncSelect documents it.  A mouse line before the
connection makes send fail, which destroys the window (`hasty`).

### The libraries

`Movement`: a frame moves a player by FP_X and FP_Y unless it would end on a bound
in a diagonal; a claim within dfERROR_RANGE is taken over as it is, on the field or
not.  `Packet`: `use` is the life of a packet, for its callers either put or
receive first.  Values may be taken that are not there: `missing` are the bytes
taken before anything was put in their place, as a handler does when the client's payload
is shorter than the fields it reads (`PacketProc.cpp` 50).  `MyList`: `order` is the list that the calls describe;
remove and clear take a step per node.  `PathFinder`: `tile` includes the memory
behind the array that FindPath reads, because it compares coordinates with `>`
(379); whether a way exists is said by `Reachable`: a square is reachable when it is in
every set that holds the start and that no step leaves.  A start or goal placed on its
old square is freed and used all the same (524, 589), after which the search may do
anything.  `MemoryPool`: `free`, `held` and `recycled` are the history of the calls,
`built` the blocks in which an object was constructed and not destroyed.  `SpinLock`:
`tryAgain` is the place where the locks differ, resetting `expected`.  `Handoff`: the mutex and the signal apart.

## 3. Runs

| Run | Shows | Bounds | Distinct states |
|---|---|---|---|
| `ring_buffer` | the two size functions and IsEmpty/IsFull agree, direct transfers are safe, the ring is the FIFO | 3 bytes of 2 values, requests up to 4 | 1 344 |
| `session_stream` | packets handled whole, in order, and eventually; nothing but a prefix of the server's packets reaches the client | readQ 7, writeQ 5, 2 client packets of 3 or 4 bytes, 3 server packets | about 350 000 |
| `session_kept` | violated: a well-behaved client is dropped | same | |
| `fighter` | the dead and the disconnected leave by the end of the pass; introductions are complete and come first; only leaving clients have cut packets | 3 clients, 1 packet, writeQ of 3½ messages, HP 2 | about 514 000 |
| `fighter_gone` | violated: a new player keeps a character that is gone | same | |
| `fighter_crash` | violated: disconnect and broadcast never return | same | |
| `iocp` | one holder per session, no use after delete, exact and complete echo, sessions of leavers deleted | 2 sessions, 2 workers, BUFSIZE 2, 2 bytes per client | about 206 000 |
| `iocp_refused` | violated: a refused operation leaves its session for ever | same | |
| `echo_servers` | the tables of the four servers stay in step while walks go over them, echoes are exact and in order, the hand-over is exact, and which clients the servers notice leaving | 2 clients that send 2 and 1 bytes, or 3 that send none; BUFSIZE 2; tables of 2 or 3 | about 181 000 |
| `overlapped_race` | violated: a session gets an operation before another one of its was served | same | |
| `clients` | the star client shows the players there are and ends when the server is gone; the drawing client draws all lines and stays while all is well | 3 slots, 3 messages, up to 3 others; rings of 4 bytes, 2 lines of 3 | about 96 000 |
| `libraries` | no update lost, no block shared, the list is a sequence, a way is found if there is one, no signal lost | 2 rounds; 3 items; 3 blocks; 3 nodes and 6 calls; grids of 2 by 2 with 5 window messages, or any obstacles | about 154 000 |

Why the bounds are enough.  A ring of three bytes has every relation of front and
rear (equal, ahead, behind, on the last slot, full) and requests larger than what
fits.  A readQ of seven bytes with packets of three and four puts a packet's end
on, before and after the array's end; a writeQ of five holds one packet and cuts
the second.  With three sessions a handler of one can disconnect a second while a
third is waiting for its turn or is being introduced, which is as far as the
handlers reach; 3½ messages let a queue be filled exactly or cut.  One packet is
one handler call of a client: MOVE, or an attack that kills any set of the others;
sends, failures, leaving and accepting are not bounded by it.  In the IOCP server
two bytes and a buffer of two give receives and sends in one part or two, and the
second worker and session give every pair of holders.

Two connected clients are what a removal in the middle of a walk needs (one
removed, one moved), and a third finds the table of two full; the crowd of three
sends nothing because the walks, not the bytes, are what it is for.  With 2 bytes a
receive and a send can be cut once.  Three slots of the star table leave two for
the others, so that a third finds none; three messages are a join, a leave and a
join into the slot.  A ring of four goes round with the second line of three.  The
pool of one initial block allocates a second and a third; the grid of 2 by 2 has the
column and row beyond it, and every set of obstacles; six calls fill a list of three
and empty it.

Deadlock is not checked where the system may stop: when `serverShut` is set, after
a crash, or when every client has come and gone.

Fairness.  The fighter server is one thread whose loop has no blocking call, so
its next step is always taken (weak fairness on a pass in SessionStream, on Serve
in FighterServer); no fairness is put on clients.  In IOCPServer threads are
scheduled (weak fairness of firstRecv and of each worker's Continue), the system
completes an operation that it can complete (weak fairness per session), and a
completion on the port is eventually taken: the port is a FIFO and workers keep
coming back to it, which is strong fairness per session because other sessions'
completions may occupy the workers in between.

The select and the WSAEventSelect server are one thread whose loop goes on
(SelectFairness, EventFairness, with the system recording what happens).  In the
overlapped servers both threads are scheduled; the system completes what can be
completed in OverlappedFairness, and is not needed in RoutineFairness.  Clients
have no fairness but that the message loop is run (StarFairness, DrawFairness), that
what was sent arrives, and that FD_CLOSE is posted.  In Handoff a thread that is in
the middle of a round goes on; the producer need not come back, and the consumer is
never woken without a signal unless wakesSpuriously happens, which is not assumed.

Every property of a passing run has a mutant, a plausible slip in the code's
place (a missing `- 1`, a length that forgets the offset, a `continue` left out)
that makes TLC find it violated; they are the definitions marked "Mutant".

### What the violated runs say about the code

* `session_kept`: on the last slot the direct sizes are 0 and
  `readProc` takes the 0 that recv returns for the end of the stream.  Client
  packets are 8 bytes and the ring takes 1000, so a client's 125th packet ends on
  the last slot, and the client is dropped at its next one.  `writeProc` in the
  same position sends nothing, for ever: a client gets at most the first 1000
  bytes that are queued for it, then its queue fills and it is disconnected.
* `fighter_gone`: the loop that tells the new player of the others (`Network.cpp`
  109) still meets the ones that the announcement at line 105 disconnected.
* `fighter_crash`: two full queues and one more broadcast overflow the stack.
* `iocp_refused`: the place where a comment says "delete the session" is empty.
* `overlapped_race`: main adds a session under the lock and reads
  `sessions[clientCnt - 1]` without it; a removal in between makes that another
  session, whose WSAOVERLAPPED and buffer then serve two operations, or one
  between a completion and its being served.

The passing runs say as precisely what the code does not do: SlotsMatch
exempts the sessions in `strayed`, for main's removal at a stale index (124) deletes a
session that it leaves in the table and pushes another one out; QuietLeaversAreRemoved
is of clients the select server has not read from, since it asks a client it has
read from for writing for ever; LoneClientIsEchoed of a client alone with the
overlapped server; KeptWhileHealthy of a drawing client that sent no line before it
was connected; ShownAreThePlayers of a table that never overflowed, for a star that
found no slot is not shown later; FindsAPath of ways over the grid and of ways that
may pass beyond it.

## 4. Theorems

TLC checks the instances above; TLAPS proves, for every value of the constants that
the modules' assumptions allow, every safety property of the passing runs, and some
that no run checks.  A property is rarely inductive as it stands; what its
invariant adds is where the argument lies.  Each invariant was checked by TLC on
small instances before it was proved.

* `RingBufferProofs`: `[]TypeOK`, `[]SizesAgree`, `[]DirectTransfersAreSafe`, and
  `Spec => Queue!Spec`, that the ring implements the bounded FIFO.  TypeOK is
  inductive, the size properties follow from it.  The refinement rests on lemmas
  that say, for each kind of transfer, what the stored bytes are afterwards: a copy
  that goes around the end is split there, so the proof looks at an index of the
  queue and asks on which side of the split its slot lies.
* `SessionStreamProofs`: `[]TypeOK`, `[]PacketsAreFramed`, `[]NoPacketIsLeftWaiting`,
  `[]ClientSeesAPrefix`, from `StreamInv`.  Its parts say that the two indices and
  the bytes of a ring always agree on how much is used (`Typed`); that the packets
  handled, the bytes in readQ and those still on their way are, put together, what the
  client sent, as long as the connection was not reset (`Framing`); that what the
  client got and writeQ are what was offered, or, once a packet did not fit, the
  start of it, with writeQ full and the session marked, so that nothing gets behind
  the cut (`Outgoing`); and that only an unknown type or a going session keeps
  readProc from handling a whole packet (`Waiting`).  Readings in packets and in bytes
  are related by the lemmas on flattening.
* `FighterServerProofs`: `[]TypeOK`, `[]NobodyIsLeftDying`,
  `[]EveryPlayerIsIntroduced`, `[]NothingBeforeCreation`, `[]CutOnlyWhenLeaving`.  The
  properties hold between handlers; in the middle of one a session is marked but not
  yet listed, a pair not yet introduced.  A World is therefore `Sound` with respect
  to the sessions that are still allowed to be leaving and the pairs known to be
  introduced, and each operator is shown to keep a World sound or to crash.  For
  disconnect within broadcast within disconnect this is an induction on the depth
  (`DropIsSound`); for the loops over users, an induction over the list.  That used
  is what is queued needs a witness of the sums along the queue.
* `IOCPServerProofs`: `[]TypeOK`, `[]OneHolder`, `[]NoUseAfterDelete`, of one
  invariant `IInv` that adds `WorkersAreBusy` (a worker that is not waiting has a
  session) and `CountsAreRight`.  The bounds of a send need to know that sendBytes is
  less than recvBytes when a send completes, and that a completion is of the
  operation posted: `CountsAreRight` relates the counts to the operation or
  completion that the session has out, and needs OneHolder, since a second operation
  could change the counts under the first; OneHolder in turn needs NoUseAfterDelete,
  for accept makes a session anew.  On top of it `[]EchoIsAPrefix`: what a client got,
  what is in the buffer from sendBytes to recvBytes, and what is in its inbox are
  together what it sent (`EchoIsOnTheWay`), as long as the connection was not reset.
* `EchoServersProofs`: the tables hold each open session once, and no closed one, for
  the select server (`[]SocketsAreInTable`) and the WSAEventSelect server
  (`[]EventsMatchSessions`), though each moves the last entry into a gap while something
  still counts over the table; this needs that a client waits to be accepted once, and
  has no socket until then (`Crowd`), and for the latter that what is recorded is there
  to be received (`ReadsAreThere`).  For the overlapped server (`[]SlotsMatch`) the
  arrays are parallel and no session is in the table twice, whatever the threads do;
  that its entries are open, and that a session with an operation pending is in it,
  holds except for the sessions in `strayed`, to which the code does otherwise.  `[]HandedOverInOrder`: of main accepting, either event being set and
  the worker taking the socket, one holds at a time.  `[]EchoedInOrder` for the
  WSAEventSelect and the completion routine server and `[]OverlappedEchoInOrder` for
  the overlapped one: the bytes echoed, those in the session's buffer still to be
  echoed and those in the inbox are the client's own, in the order it sent them and
  none twice.  Bytes may be missing in between (a partial send is not always gone on
  with), so it is not a prefix.  `SelectServerIsSilent`: the select server's sends
  are all empty.
  OverlappedEchoInOrder is of the sessions that were not `doubled`.  Main's receive to an
  older session goes where that session's wsaBuf points, into bytes that may still have
  to be echoed, also when the session's own operation has completed but was not yet
  served: nothing can be said of its buffer from then on.
* `LibrariesProofs`:
  - `[]SumIsExact` and `LockSpec => ImplementsMutex`, for any number of rounds and
    both locks.  Whoever is between lock and unlock has the flag set and is alone.
  - `[]BlocksAreNotShared`, for any pool: following `next` from `top` gives the
    sequence `free`.  `[]BuiltUnlessRecycled` says which blocks hold an object: with
    placement new those in use; without, those never given back, because Free destroys
    the object all the same (line 135) and nothing constructs another.  A pool without
    placement new hands out recycled blocks without an object.  The argument needs
    that a block once given back stays the pool's (`RecycledAreKept`), so that what
    malloc returns is none of them.
  - `[]FieldIsKept` and `[][NoJumps]_moveVars`, for every field, speed and tolerance,
    under the assumption StartsOnField that acceptProc's middle is on the field (it
    is for the code's constants).
  - `[]TakenAsWritten`, for every size of the buffer and whatever is taken, there or
    not: as long as what is put and taken ends inside the buffer, the positions
    never go round.  The bytes that were there come back as they were put; those behind
    the end of a payload are the buffer's, and `m_dataSize < 0` is how the code could
    tell, though it never asks.
  - `[]FindsAPath`, for every grid, obstacles, start and goal.  During a search every
    free square next to a closed one is open or closed (`NoneMissed`), every square seen
    but the start has a parent that is closed and one step away, and the goal is not
    among them (`Explored`), and all of them can be reached (`Reached`); so when nothing is
    open no step leaves the closed squares, and the goal is not one of them.  What is
    painted are the parents (`Painted`).  That a search does not change what is free
    (`SameGrid`) is used at each of its steps.
  - `[]ListIsASequence`, for any nodes and values: the links forwards and backwards
    are `order` (`Holds`), except while remove or clear is under way: there they are
    what is left of the old list (`RemovedUpTo`, `Clearing`).
* `ClientsProofs`:
  - `[]ShownAreThePlayers`, for any number of slots, players and messages.  An id stays in
    a slot whose star is gone, so the search by id may find an old one:
    `FirstWithItsId` says that a star shown stands before every other slot that holds
    its id.  `Greeted` says that the id comes first and once, `CreatedOnce` that no
    creation on its way is of a star already known, which is what makes the slot that
    a creation takes the only one.
  - `[]KeptWhileHealthy`, for any sizes of ring, packet and recv.  What was received
    is the lines drawn and the bytes in readQ, a header in front (`Aligned`, over
    lemmas on what Enqueue, Dequeue and Peek of the counting ring do to the bytes
    stored).  The rest is about messages: FD_READ is posted at most once, and while it
    is, there is something to read and room for it (`Undisturbed`), since readProc
    leaves less than a line in the ring.  From the same invariant, `[]LinesInOrder`:
    the lines drawn are the server's, in order, also when the connection ends badly.

FieldIsKept, NoJumps, TakenAsWritten, BuiltUnlessRecycled, LinesInOrder,
ImplementsMutex and SelectServerIsSilent are in no run: the theorems say them of every instance.  The
theorems about a program that shares a run with others are
about its own specification (LockSpec, StarSpec, ...), without fairness.

The proofs assume only the constants' assumptions (`RingAssumption`,
`IOCPAssumption`, ...: positive sizes, nonempty sets, a null that is no address, a
packet that fits the ring) and, for Movement, StartsOnField.  Induction over numbers
is `SetInduction`, which is about a set of numbers: the library's induction theorems
take an operator as parameter, which the provers cannot instantiate.

Only model-checked: all liveness properties, which rest on fairness and are outside
of what the prover does.  They are EveryPacketIsHandled, DisconnectedAreDeleted,
EverythingIsEchoed, LeftAreDeleted, QuietLeaversAreRemoved, ClosersAreRemoved,
LoneClientIsEchoed, AcceptedAreTaken, ClientKeepsUp, LinesAreDrawn and
SignalsAreAnswered (the one property of Handoff).

## 5. What is abstracted, and why

* `WSAEWOULDBLOCK`: recv and send come right after select reported the socket, on
  the only thread that uses it, so they are taken not to fail this way.  (They
  would move an index back by one: `MoveRear(-1)`.)
* FD_SETSIZE: three clients never fill an fd_set of 64.
* accept fails in two ways, with and without WSAEWOULDBLOCK; both go on to make a
  session of the invalid socket, which makes the next select fail.
* The IDs of sessions are not reused (`uniqueID` is a 32-bit counter).
* deleteUser: the fields of a session that nobody can reach any more are reset in
  FighterServer, as nothing reads them.
* In IOCPServer completions of different sessions may be taken in any order, a
  superset of what the port does.
* Start-up, shut-down, printing and the wording of messages are left out.
* The echo servers: WSACreateEvent and new succeed; the memory of a deleted session
  is not used again; the overlapped worker's polling (timeout 0, WSA_WAIT_TIMEOUT) has
  an empty walk and is no step.
* The clients are checked against any server of their protocol, not against the
  repository's.
* PathFinder: f is kept in tenths; of squares with the same f any may be taken.
* Packet: what is put in fits the buffer, and what is taken ends inside it.  The
  messages the server builds are far below 1000 bytes, a payload has at most 255, and
  the handlers take 5, whatever the payload's length.
* MyList: a deleted node keeps its links in the model; erase and clear read them before.
* OverlappedServer: RemoveSession at a stale index with an empty table and a live
  session behind it, which would copy the null entry 0, is left out; no run comes to it.

## 6. Not modelled

* The OnlineStar server: its first accept broadcasts to everybody with a null
  player, which line 276 dereferences; nothing can be said of what never runs.
* AStar's older copy of myList, which no program uses; Packet's operator=, the
  same.  AStar's drawing and zooming.
* The future demo (each future is waited for before the next is made), the leak
  detector, the frame monitor, the name lookup, the straight-line socket samples, the
  message compiler, ServerLibrary (a skeleton) and the bitmap mixer.

What could still be done: properties for the hazards that have none; `PROJECT.json` says
of each why it has none.
