---------------------------- MODULE FighterServer ----------------------------
(* The fighter server as a whole: the loop of main (networkProc, update),    *)
(* its sessions and the packets it queues for them.  One thread does all the *)
(* work; what is concurrent are the clients, who decide which sockets select *)
(* reports, what recv brings and how much send takes.                        *)
(* A packet is one message, with a size, so that a writeQ can be full or cut *)
(* a packet short; the streams' bytes are in SessionStream.  Coordinates are *)
(* left out: an attack may hit any set of players, a move is accepted or     *)
(* refused.                                                                  *)
EXTENDS Integers, Sequences, FiniteSets, SequencesExt

CONSTANTS MaxSessions,          \* bound: clients that ever connect
          MaxPackets,           \* bound: packets the clients send in all
          Capacity,             \* size of a writeQ (DEFAULT_BUFSIZE)
          MaxHP,                \* MAX_HP
          Damage1, Damage2      \* DAMAGE1, DAMAGE2

ASSUME FighterAssumption ==
  /\ {MaxSessions, MaxPackets, Capacity, MaxHP, Damage1, Damage2} \subseteq Nat
  /\ MaxHP > 0

Id == 0..MaxSessions - 1        \* session IDs, handed out by uniqueID

VARIABLES
  users,                        \* the list of sessions
  disconnects,                  \* those waiting for deleteUser (the list's order
                                \* and repetitions change nothing deleteUser does)
  uniqueID,
  hp, moving,                   \* SESSION: HP, and action # STOP
  sock,                         \* "open", "invalid" (accept failed), "closed", "none"
  queue,                        \* writeQ of each session
  known, met,                   \* what each client has read: the characters it
                                \* has on screen, and those it ever had
  serverShut, crashed,          \* crashed: the stack of the server overflowed
  pc, turn,                     \* where the loop stands; turn indexes users
  rSet, wSet,                   \* the sessions registered for select
  packets                       \* packets received so far

charVars == <<hp, moving>>
viewVars == <<known, met>>
loopVars == <<turn, rSet, wSet>>
vars == <<users, disconnects, uniqueID, charVars, sock, queue, viewVars,
          serverShut, crashed, pc, loopVars, packets>>

-----------------------------------------------------------------------------
\* Messages to clients.  Only DELETE is shorter than the others.
MessageType == {"CREATE_MY", "CREATE_OTHER", "MOVE_START", "MOVE_STOP", "ATTACK",
                "DAMAGE", "DELETE", "CUT"}
Messages == [type : MessageType, id : Id]
Message(t, id) == [type |-> t, id |-> id]
Size(m) == IF m.type = "DELETE" THEN 1 ELSE 2

EmptyQueue == [msgs |-> <<>>, used |-> 0]

\* Mutant: the count grows by the message also when only a part of it fits.
EnqueuedUncapped(q, m) == [msgs |-> Append(q.msgs, m), used |-> q.used + Size(m)]

\* RingBuffer::Enqueue of a message: what fits of it; a cut message is marked.
Enqueued(q, m) ==
  IF Capacity - q.used >= Size(m)
  THEN [msgs |-> Append(q.msgs, m), used |-> q.used + Size(m)]
  ELSE [msgs |-> Append(q.msgs, [m EXCEPT !.type = "CUT"]), used |-> Capacity]

IsFull(q) == q.used = Capacity

\* What a handler works on: the writeQs, the players' HP and the
\* disconnected sessions; "within" holds the sessions disconnect is busy with.
World == [queue |-> queue, hp |-> hp, disconnects |-> disconnects,
          within |-> {}, crashed |-> FALSE, shut |-> serverShut]

Worlds == [queue : [Id -> [msgs : Seq(Messages), used : Nat]], hp : [Id -> Nat],
           disconnects : SUBSET Id, within : SUBSET Id, crashed : BOOLEAN, shut : BOOLEAN]

\* A loop over the users, each turn taking what the one before left.
ForEachUser(turnOf, start) == FoldLeft(LAMBDA v, c : turnOf[c][v], start, users)

\* Mutant: a packet that did not fit is left cut and the session goes on.
OfferToOrCut(drop, w, c, m) ==
  IF w.crashed THEN w
  ELSE IF IsFull(w.queue[c]) THEN drop[c][w]
  ELSE [w EXCEPT !.queue[c] = Enqueued(@, m)]

\* One turn of broadcast's loop; drop is the disconnect it may call.
OfferTo(drop, w, c, m) ==
  IF w.crashed THEN w
  ELSE IF IsFull(w.queue[c]) THEN drop[c][w]
  ELSE LET w1 == [w EXCEPT !.queue[c] = Enqueued(@, m)] IN
       IF Capacity - w.queue[c].used < Size(m) THEN drop[c][w1] ELSE w1

\* To every user but p; nobody is p = NoOne.
NoOne == -1
BroadcastBy(drop, w, p, m) ==
  ForEachUser([c \in Id |-> [v \in Worlds |-> IF c = p THEN v ELSE OfferTo(drop, v, c, m)]], w)

\* disconnect: one broadcast of DELETE for each other user, then the push.
\* broadcast may call disconnect again, which is drop.  When it comes back to a
\* session that disconnect is already busy with, both sessions have full queues,
\* nothing is ever taken from a queue meanwhile, and the recursion has no end.
DisconnectBy(drop) == [p \in Id |-> [w \in Worlds |->
  IF w.crashed THEN w
  ELSE IF p \in w.within THEN [w EXCEPT !.crashed = TRUE]
  ELSE LET w1 == ForEachUser([c \in Id |-> [v \in Worlds |->
                                IF c = p THEN v
                                ELSE BroadcastBy(drop, v, p, Message("DELETE", p))]],
                             [w EXCEPT !.within = @ \cup {p}])
       IN  [w1 EXCEPT !.disconnects = @ \cup {p}, !.within = @ \ {p}]]]

\* disconnect with up to n further ones within it.  (Of MaxSessions + 1 calls
\* within each other, one comes back to a session.)
DisconnectWithin[n \in 0..MaxSessions] ==
  DisconnectBy(IF n = 0 THEN [p \in Id |-> [w \in Worlds |-> [w EXCEPT !.crashed = TRUE]]]
               ELSE DisconnectWithin[n - 1])

Disconnect(w, p) == DisconnectWithin[MaxSessions][p][w]
Broadcast(w, p, m) == BroadcastBy(DisconnectWithin[MaxSessions], w, p, m)

\* unicast also stops the server when the message did not fit.
Unicast(w, c, m) ==
  LET short == ~IsFull(w.queue[c]) /\ Capacity - w.queue[c].used < Size(m)
      w1 == OfferTo(DisconnectWithin[MaxSessions], w, c, m)
  IN  [w1 EXCEPT !.shut = @ \/ short]

\* The variables a handler changes through World.
Commit(w) == /\ queue' = w.queue /\ hp' = w.hp
             /\ disconnects' = w.disconnects
             /\ crashed' = w.crashed
             /\ serverShut' = w.shut

Running == ~crashed

-----------------------------------------------------------------------------
Init == /\ users = <<>> /\ disconnects = {} /\ uniqueID = 0
        /\ hp = [i \in Id |-> MaxHP] /\ moving = [i \in Id |-> FALSE]
        /\ sock = [i \in Id |-> "none"]
        /\ queue = [i \in Id |-> EmptyQueue]
        /\ known = [i \in Id |-> {}] /\ met = [i \in Id |-> {}]
        /\ serverShut = FALSE /\ crashed = FALSE
        /\ pc = "select" /\ turn = 0 /\ rSet = {} /\ wSet = {}
        /\ packets = 0

Users == ToSet(users)

\* Everybody is registered for reading, and for writing who has something
\* queued.  select may report nothing; or a connection that waits and any of the
\* registered sessions, which is decided when the loop asks FD_ISSET.
select(somethingReady, connecting) ==
  /\ pc = "select" /\ Running /\ ~serverShut
  /\ \A u \in Users : sock[u] = "open"
  /\ connecting => somethingReady /\ uniqueID < MaxSessions
  /\ rSet' = IF somethingReady THEN Users ELSE {}
  /\ wSet' = IF somethingReady THEN {u \in Users : queue[u].used > 0} ELSE {}
  /\ turn' = IF somethingReady THEN 1 ELSE 0
  /\ pc' = IF connecting THEN "accept" ELSE IF somethingReady THEN "read" ELSE "update"
  /\ UNCHANGED <<users, disconnects, uniqueID, charVars, sock, queue, viewVars,
                 serverShut, crashed, packets>>

\* select fails on a session whose socket is INVALID_SOCKET.
selectFails ==
  /\ pc = "select" /\ Running /\ ~serverShut
  /\ \E u \in Users : sock[u] = "invalid"
  /\ serverShut' = TRUE /\ pc' = "update"
  /\ UNCHANGED <<users, disconnects, uniqueID, charVars, sock, queue, viewVars,
                 crashed, loopVars, packets>>

\* Mutants: a new player is told of the moving players only, or of a player's
\* movement before the player.
IntroduceMoving(w, new, u) ==
  IF moving[u]
  THEN Unicast(Unicast(w, new, Message("CREATE_OTHER", u)), new, Message("MOVE_START", u))
  ELSE w
IntroduceSwapped(w, new, u) ==
  Unicast(IF moving[u] THEN Unicast(w, new, Message("MOVE_START", u)) ELSE w,
          new, Message("CREATE_OTHER", u))

\* A player u there is, told to the new one.
Introduce(w, new, u) ==
  LET v == Unicast(w, new, Message("CREATE_OTHER", u))
  IN  IF moving[u] THEN Unicast(v, new, Message("MOVE_START", u)) ELSE v

\* acceptProc.  Where accept fails, with or without WSAEWOULDBLOCK, the code
\* goes on and makes a session of the invalid socket.
acceptProc(socket, wouldBlock) ==
  /\ pc = "accept" /\ Running
  /\ LET new == uniqueID
         w0 == [World EXCEPT !.hp[new] = MaxHP,
                             !.shut = @ \/ (socket = "invalid" /\ ~wouldBlock)]
         w1 == Unicast(w0, new, Message("CREATE_MY", new))
         w2 == Broadcast(w1, NoOne, Message("CREATE_OTHER", new))
     IN  Commit(ForEachUser([u \in Id |-> [w \in Worlds |-> Introduce(w, new, u)]], w2))
  /\ users' = Append(users, uniqueID)
  /\ uniqueID' = uniqueID + 1
  /\ sock' = [sock EXCEPT ![uniqueID] = socket]
  /\ moving' = [moving EXCEPT ![uniqueID] = FALSE]
  /\ pc' = "read"
  /\ UNCHANGED <<viewVars, loopVars, packets>>

-----------------------------------------------------------------------------
\* The session whose turn it is in networkProc's loop.
Current == users[turn]
HasTurn == turn <= Len(users)

\* After readProc comes writeProc for the same session, then the next one's turn.
AfterRead  == IF Current \in wSet THEN pc' = "write" /\ UNCHANGED turn
                                  ELSE pc' = "read" /\ turn' = turn + 1

\* Mutant: a session is served again until all of its writeQ is sent.
AfterWriteAll == /\ pc' = "read"
                 /\ turn' = IF queue[Current].used > 0 THEN turn ELSE turn + 1
AfterWrite == pc' = "read" /\ turn' = turn + 1

\* FD_ISSET says no, for reading or for writing; or readProc finds no further
\* packet it can handle (none complete, a wrong code, an unknown type).
NotReady ==
  /\ pc \in {"read", "parse", "write"} /\ Running /\ HasTurn
  /\ IF pc = "write" THEN AfterWrite ELSE AfterRead
  /\ UNCHANGED <<users, disconnects, uniqueID, charVars, sock, queue, viewVars,
                 serverShut, crashed, rSet, wSet, packets>>

Readable == pc = "read" /\ Running /\ HasTurn /\ Current \in rSet
Writable == pc = "write" /\ Running /\ HasTurn /\ Current \in wSet

\* readProc when readQ is full, the peer is gone, or recv was given no room.
readProcDisconnects ==
  /\ Readable /\ AfterRead
  /\ Commit(Disconnect(World, Current))
  /\ UNCHANGED <<users, uniqueID, moving, sock, viewVars, rSet, wSet, packets>>

\* readProc or writeProc when recv or send fails in any way but CONNRESET.
SocketError ==
  /\ \/ Readable /\ AfterRead
     \/ Writable /\ AfterWrite
  /\ serverShut' = TRUE
  /\ UNCHANGED <<users, disconnects, uniqueID, charVars, sock, queue, viewVars,
                 crashed, rSet, wSet, packets>>

\* A turn of readProc's loop on a packet of the client; a handler that returns
\* false ends the loop.
Receiving == /\ pc \in {"read", "parse"} /\ Running /\ HasTurn /\ Current \in rSet
             /\ packets < MaxPackets
             /\ packets' = packets + 1

packetProc_MOVE_START ==
  /\ Receiving /\ pc' = "parse"
  /\ moving' = [moving EXCEPT ![Current] = TRUE]
  /\ Commit(Broadcast(World, Current, Message("MOVE_START", Current)))
  /\ UNCHANGED <<users, uniqueID, sock, viewVars, loopVars>>

packetProc_MOVE_STOP ==
  /\ Receiving /\ pc' = "parse"
  /\ moving' = [moving EXCEPT ![Current] = FALSE]
  /\ Commit(Broadcast(World, Current, Message("MOVE_STOP", Current)))
  /\ UNCHANGED <<users, uniqueID, sock, viewVars, loopVars>>

\* A coordinate off by more than dfERROR_RANGE.
packetProc_MOVE_refused ==
  /\ Receiving /\ AfterRead
  /\ Commit(Disconnect(World, Current))
  /\ UNCHANGED <<users, uniqueID, moving, sock, viewVars, rSet, wSet>>

Positive(n) == IF n > 0 THEN n ELSE 0

\* Mutant: the dead are left to update.
HitOnly(w, v, damage) ==
  LET left == Positive(w.hp[v] - damage)
  IN  Broadcast([w EXCEPT !.hp[v] = left], NoOne, Message("DAMAGE", v))

\* One victim: lose HP, tell everybody, and go when none is left.
Hit(w, v, damage) ==
  LET left == Positive(w.hp[v] - damage)
      told == Broadcast([w EXCEPT !.hp[v] = left], NoOne, Message("DAMAGE", v))
  IN  IF left <= 0 THEN Disconnect(told, v) ELSE told

\* ATTACK1 and ATTACK2 take DAMAGE1, ATTACK3 DAMAGE2 (of a player with HP left,
\* which the subtraction down to zero makes no difference for).
packetProc_ATTACK(victims, damage) ==
  /\ Receiving /\ pc' = "parse"
  /\ victims \subseteq Users \ {Current}
  /\ LET w0 == Broadcast(World, Current, Message("ATTACK", Current))
     IN  Commit(ForEachUser([v \in Id |-> [w \in Worlds |->
                             IF v \in victims THEN Hit(w, v, damage) ELSE w]], w0))
  /\ UNCHANGED <<users, uniqueID, moving, sock, viewVars, loopVars>>

-----------------------------------------------------------------------------
\* What a client that had S on its screen has there after reading msgs: what was
\* created, or there before, and not deleted since.
ShownAfter(S, msgs) ==
  {u \in Id : \E k \in 0..Len(msgs) :
     /\ IF k = 0 THEN u \in S ELSE msgs[k] = Message("CREATE_OTHER", u)
     /\ \A j \in k + 1..Len(msgs) : msgs[j] # Message("DELETE", u)}

Created(msgs) == {m.id : m \in {x \in ToSet(msgs) : x.type = "CREATE_OTHER"}}

\* Enqueued's count without m, which was sent.
Without == [m \in Messages |-> [used \in Nat |-> used - Size(m)]]

\* writeProc: send takes the first n messages (none, where the ring gives it no
\* bytes), and the client reads them.
writeProc(n) ==
  /\ Writable /\ AfterWrite
  /\ LET q == queue[Current].msgs
         taken == SubSeq(q, 1, n)
         left == SubSeq(q, n + 1, Len(q))
     IN  /\ n <= Len(q)
         /\ queue' = [queue EXCEPT ![Current] =
                        [msgs |-> left,
                         used |-> FoldLeft(LAMBDA used, m : Without[m][used], @.used, taken)]]
         /\ \A i \in 1..n : q[i].type # "CUT"
         /\ known' = [known EXCEPT ![Current] = ShownAfter(@, taken)]
         /\ met' = [met EXCEPT ![Current] = @ \cup Created(taken)]
  /\ UNCHANGED <<users, disconnects, uniqueID, charVars, sock, serverShut, crashed,
                 rSet, wSet, packets>>

writeProcDisconnects ==
  /\ Writable /\ AfterWrite
  /\ Commit(Disconnect(World, Current))
  /\ UNCHANGED <<users, uniqueID, moving, sock, viewVars, rSet, wSet, packets>>

\* The list without the disconnected: users.remove of each of them.
Staying == [u \in Id |-> [list \in Seq(Id) |->
              IF u \in disconnects THEN list ELSE Append(list, u)]]

\* deleteUser closes the disconnected sessions' sockets and takes them off the
\* list; nobody can reach such a session again, so its fields read as new.
deleteUser ==
  /\ pc = "read" /\ Running /\ ~HasTurn
  /\ LET Fresh(f, new) == [i \in Id |-> IF i \in disconnects THEN new ELSE f[i]] IN
     /\ users' = ForEachUser(Staying, <<>>)
     /\ sock' = Fresh(sock, "closed")
     /\ queue' = Fresh(queue, EmptyQueue)
     /\ hp' = Fresh(hp, MaxHP) /\ moving' = Fresh(moving, FALSE)
     /\ known' = Fresh(known, {}) /\ met' = Fresh(met, {})
  /\ disconnects' = {}
  /\ rSet' = {} /\ wSet' = {} /\ turn' = 0
  /\ pc' = "update"
  /\ UNCHANGED <<uniqueID, serverShut, crashed, packets>>

\* update, every 20 ms (due): whoever has no HP left is disconnected; the others
\* move.
update(due) ==
  /\ pc = "update" /\ Running
  /\ Commit(IF ~due THEN World ELSE
     ForEachUser([u \in Id |-> [w \in Worlds |->
                    IF w.hp[u] <= 0 THEN Disconnect(w, u) ELSE w]], World))
  /\ pc' = "select"
  /\ UNCHANGED <<users, uniqueID, moving, sock, viewVars, loopVars, packets>>

-----------------------------------------------------------------------------
Serve == \/ \E ready, connecting \in BOOLEAN : select(ready, connecting)
         \/ selectFails
         \/ acceptProc("open", FALSE)
         \/ \E wouldBlock \in BOOLEAN : acceptProc("invalid", wouldBlock)
         \/ NotReady \/ readProcDisconnects \/ SocketError
         \/ packetProc_MOVE_START \/ packetProc_MOVE_STOP \/ packetProc_MOVE_refused
         \/ \E V \in SUBSET Users, d \in {Damage1, Damage2} : packetProc_ATTACK(V, d)
         \/ writeProcDisconnects
         \/ \E n \in 0..Capacity : writeProc(n)
         \/ deleteUser
         \/ \E due \in BOOLEAN : update(due)

\* One thread that never waits: main's loop always takes its next step, until
\* serverShut.
Spec == Init /\ [][Serve]_vars /\ WF_vars(Serve)
-----------------------------------------------------------------------------
TypeOK ==
  /\ users \in Seq(Id) /\ disconnects \subseteq Id /\ uniqueID \in 0..MaxSessions
  /\ hp \in [Id -> 0..MaxHP] /\ moving \in [Id -> BOOLEAN]
  /\ sock \in [Id -> {"open", "invalid", "closed", "none"}]
  /\ \A i \in Id : /\ queue[i].used \in 0..Capacity
                   /\ queue[i].msgs \in Seq(Messages)
  /\ known \in [Id -> SUBSET Id] /\ met \in [Id -> SUBSET Id]
  /\ serverShut \in BOOLEAN /\ crashed \in BOOLEAN
  /\ pc \in {"select", "accept", "read", "parse", "write", "update"}
  /\ rSet \subseteq Id /\ wSet \subseteq Id /\ turn \in 0..MaxSessions + 1
  /\ packets \in 0..MaxPackets

\* A session that lost its connection, broke a rule or died during a pass is
\* gone at its end: outside a pass nobody is disconnected or dead, update's own
\* handling of the dead never has anything to do, and every user's socket lives.
NobodyIsLeftDying ==
  Running /\ pc \in {"update", "select"} =>
    /\ disconnects = {}
    /\ \A u \in Users : hp[u] > 0 /\ sock[u] # "closed"

\* What client c will have on screen when it has read everything queued for it.
View(c) == ShownAfter(known[c], queue[c].msgs)

\* Between passes every client is told of every other player there is.
EveryPlayerIsIntroduced ==
  Running /\ pc = "select" => \A c \in Users : Users \ {c} \subseteq View(c)

\* Nothing a client is told of a character comes before the character's creation
\* (for a session that is not about to be deleted).
NothingBeforeCreation ==
  \A c \in Users \ disconnects : \A i \in DOMAIN queue[c].msgs :
    LET m == queue[c].msgs[i] IN
    m.type \in {"MOVE_START", "MOVE_STOP", "ATTACK", "DAMAGE"} /\ m.id # c =>
      m.id \in met[c] \cup Created(SubSeq(queue[c].msgs, 1, i))

\* A packet that was cut short is never followed by another in what a session
\* that survives the pass is sent.
CutOnlyWhenLeaving ==
  Running => \A c \in Users \ disconnects : \A i \in DOMAIN queue[c].msgs :
    queue[c].msgs[i].type # "CUT"

\* A pass always comes to the point where the disconnected are deleted, unless
\* the server crashes on the way.
DisconnectedAreDeleted == disconnects # {} ~> (disconnects = {} \/ crashed)

\* Protocol.h: DELETE is sent when a character's connection ends or it dies.  So
\* between passes no client keeps a character that is gone.
GoneCharactersAreDeleted ==
  Running /\ pc = "select" => \A c \in Users : View(c) \subseteq Users

\* Network.cpp: deleteUser is the late deletion of the disconnected sessions.  So
\* whoever is disconnected is deleted, whatever the server does before.
DisconnectedAreAlwaysDeleted == disconnects # {} ~> disconnects = {}
=============================================================================
