----------------------------- MODULE StarClient -----------------------------
(* The OnlineStar client: its table of stars, the keys that move its own, and *)
(* the messages of 16 bytes that a server of Protocol.h sends.  The stream    *)
(* may reach it cut anywhere: a message is two halves.                        *)
EXTENDS Integers, Sequences, FiniteSets

CONSTANTS MAX_CLIENTS,                   \* slots of the table
          SCREEN_WIDTH, SCREEN_HEIGHT,
          MaxMessages                    \* bound: messages the server sends

ASSUME StarAssumption == /\ MAX_CLIENTS \in Nat \ {0}
                         /\ SCREEN_WIDTH \in Nat \ {0} /\ SCREEN_HEIGHT \in Nat \ {0}
                         /\ MaxMessages \in Nat

VARIABLES
  stars,     \* the table
  myStar,    \* the pointer to slot 0 is set
  step,      \* where the program is: "start", "keys", "select", "recv", "ended"
  link,      \* the server's side of the connection: "open", "closed", "reset"
  stream,    \* messages sent and not yet received
  halves,    \* how many halves of these have arrived
  others,    \* the other players on the server
  nextId,    \* the next player's id
  said,      \* number of messages the server has sent
  known,     \* what the messages received say of the other players
  crowded    \* there were more of them than the table has slots for

starVars == <<stars, myStar, step, link, stream, halves, others, nextId, said, known, crowded>>

serverVars == <<link, others, nextId, said>>

Slot == 0..MAX_CLIENTS - 1

OnScreen(pos) == pos[1] \in 0..SCREEN_WIDTH - 1 /\ pos[2] \in 0..SCREEN_HEIGHT - 1

Center == <<SCREEN_WIDTH \div 2, SCREEN_HEIGHT \div 2>>

\* The program before its start, or, for a run of another one, over.
StarInit(l, s) ==
            /\ stars = [i \in Slot |-> [id |-> 0, pos |-> <<0, 0>>, isAlive |-> FALSE]]
            /\ myStar = FALSE /\ step = s
            /\ link = l /\ stream = <<>> /\ halves = 0
            /\ others = {} /\ nextId = 0
            /\ said = 0 /\ known = {} /\ crowded = FALSE

-----------------------------------------------------------------------------
(* A server that follows Protocol.h: it tells a new client its id, the        *)
(* players there are and its own star, and then of all that changes.          *)
Message(type, id, pos) == [type |-> type, id |-> id, pos |-> pos]

\* What the client with id n is told first: the others came before it.
Creations(n) == [i \in 1..n |-> Message("STAR_CREATE", i - 1, Center)]

Greeting(n) == <<Message("ID_ALLOC", n, Center)>> \o Creations(n)
                 \o <<Message("STAR_CREATE", n, Center)>>

sends(msg) == /\ link = "open" /\ step # "start" /\ said < MaxMessages
              /\ said' = said + 1
              /\ stream' = Append(stream, msg)
              /\ UNCHANGED <<stars, myStar, step, link, halves, known, crowded>>

playerJoins == /\ sends(Message("STAR_CREATE", nextId, Center))
               /\ others' = others \cup {nextId} /\ nextId' = nextId + 1

playerLeaves(i) == /\ i \in others /\ sends(Message("STAR_DELETE", i, Center))
                   /\ others' = others \ {i} /\ UNCHANGED nextId

\* A player may move anywhere; the server passes it on.
playerMoves(i) == /\ i \in others
                  /\ \E pos \in {<<0, 0>>, <<SCREEN_WIDTH, 0>>} : sends(Message("STAR_MOVE", i, pos))
                  /\ UNCHANGED <<others, nextId>>

arrivesHalf == /\ halves < 2 * Len(stream)
               /\ halves' \in {halves + 1, 2 * Len(stream)}
               /\ UNCHANGED <<stars, myStar, step, stream, serverVars, known, crowded>>

serverGoes == /\ link = "open"
              /\ \/ link' = "closed" /\ UNCHANGED <<stream, halves>>
                 \/ link' = "reset" /\ stream' = <<>> /\ halves' = 0
              /\ UNCHANGED <<stars, myStar, step, others, nextId, said, known, crowded>>

-----------------------------------------------------------------------------
(* The client.                                                               *)
\* Start-up: no connection, no program.  The server has a player or none.
start == /\ step = "start"
         /\ \/ link = "open" /\ step' = "keys" /\ halves' = 0
               /\ \E n \in 0..1 :
                    /\ others' = 0..n - 1 /\ nextId' = n + 1
                    /\ stream' = Greeting(n)
            \/ step' = "ended" /\ UNCHANGED <<stream, halves, others, nextId>>
         /\ UNCHANGED <<stars, myStar, link, said, known, crowded>>

\* One key: a step that stays on the screen.
Moved(pos, dx, dy) == LET next == <<pos[1] + dx, pos[2] + dy>>
                      IN  IF OnScreen(next) THEN next ELSE pos

\* The four keys, looked at one after the other: where the star passes.
Passed(pos, keys) ==
  LET after(p, key, dx, dy) == IF key \in keys THEN Moved(p, dx, dy) ELSE p
      up == after(pos, "up", 0, -1)
      down == after(up, "down", 0, 1)
      right == after(down, "right", 1, 0)
      left == after(right, "left", -1, 0)
  IN  <<pos, up, down, right, left>>

\* Where any key moved the star the new position is sent: lost if there is no
\* room, and the end of the program if the connection is gone.
keyInput == /\ step = "keys"
            /\ \/ ~myStar /\ step' = "select" /\ UNCHANGED stars
               \/ /\ myStar
                  /\ \E keys \in SUBSET {"up", "down", "right", "left"} :
                       LET passed == Passed(stars[0].pos, keys)
                           isMove == \E i \in 1..4 : passed[i] # passed[i + 1]
                       IN  /\ stars' = [stars EXCEPT ![0].pos = passed[5]]
                           /\ step' \in IF isMove /\ link = "reset" THEN {"ended"} ELSE {"select"}
            /\ UNCHANGED <<myStar, stream, halves, serverVars, known, crowded>>

Readable == halves > 0 \/ link # "open"

selects == /\ step = "select"
           /\ step' = IF Readable THEN "recv" ELSE "keys"
           /\ UNCHANGED <<stars, myStar, stream, halves, serverVars, known, crowded>>

\* Mutant: only an error ends the program, not recv's 0.
EndsOnError == halves = 0 /\ link = "reset"

\* recv fails, reports the end, or returns other than 16 bytes.
Ends == halves = 1 \/ (halves = 0 /\ link # "open")

Taken == Head(stream)

\* Mutant: an own star that is not there yet is taken for a free slot.
FreeSlotsFromOwn == {i \in Slot : ~stars[i].isAlive}

FreeSlots == {i \in Slot \ {0} : ~stars[i].isAlive}

SlotsOf(id, from) == {i \in from : stars[i].id = id}

First(slots) == CHOOSE i \in slots : \A j \in slots : i <= j

\* The table after a message.
AfterIdAlloc(m) == IF stars[0].isAlive THEN stars ELSE [stars EXCEPT ![0].id = m.id]

AfterCreate(m) ==
  LET star == [id |-> m.id, pos |-> m.pos, isAlive |-> TRUE]
  IN  IF myStar /\ stars[0].id = m.id THEN [stars EXCEPT ![0] = star]
      ELSE IF FreeSlots = {} THEN stars
      ELSE [stars EXCEPT ![First(FreeSlots)] = star]

AfterDelete(m) == LET slots == SlotsOf(m.id, Slot \ {0})
                  IN  IF slots = {} THEN stars ELSE [stars EXCEPT ![First(slots)].isAlive = FALSE]

AfterMove(m) == LET slots == SlotsOf(m.id, Slot)
                IN  IF slots = {} THEN stars ELSE [stars EXCEPT ![First(slots)].pos = m.pos]

\* What a message says of the other players; m is the next one received.
Learn(m) == LET mine == myStar /\ stars[0].id = m.id
                without == {k \in known : k[1] # m.id}
                told == CASE m.type = "STAR_CREATE" /\ ~mine -> known \cup {<<m.id, m.pos>>}
                          [] m.type = "STAR_DELETE" -> without
                          [] m.type = "STAR_MOVE" /\ OnScreen(m.pos) /\ ~mine ->
                               IF without = known THEN known ELSE without \cup {<<m.id, m.pos>>}
                          [] OTHER -> known
            IN  /\ known' = told
                /\ crowded' = (crowded \/ Cardinality(told) >= MAX_CLIENTS)

recvMessage ==
  /\ step = "recv" /\ halves >= 2
  /\ stream' = Tail(stream) /\ halves' = halves - 2
  /\ Learn(Taken)
  /\ CASE Taken.type = "ID_ALLOC" -> stars' = AfterIdAlloc(Taken) /\ step' = step
       [] Taken.type = "STAR_CREATE" -> stars' = AfterCreate(Taken) /\ step' = step
       [] Taken.type = "STAR_DELETE" -> stars' = AfterDelete(Taken) /\ step' = step
       [] Taken.type = "STAR_MOVE" /\ OnScreen(Taken.pos) -> stars' = AfterMove(Taken) /\ step' = step
       [] OTHER -> stars' = stars /\ step' = "keys"
  /\ myStar' = (myStar \/ (Taken.type = "ID_ALLOC" /\ ~stars[0].isAlive))
  /\ UNCHANGED serverVars

recvEnds == /\ step = "recv" /\ Ends
            /\ step' = "ended"
            /\ UNCHANGED <<stars, myStar, stream, halves, serverVars, known, crowded>>

\* WSAEWOULDBLOCK: this frame is done.
recvWouldBlock == /\ step = "recv" /\ halves = 0 /\ ~Ends
                  /\ step' = "keys"
                  /\ UNCHANGED <<stars, myStar, stream, halves, serverVars, known, crowded>>

StarNext == \/ playerJoins \/ arrivesHalf \/ serverGoes \/ start
            \/ \E i \in others : playerLeaves(i) \/ playerMoves(i)
            \/ keyInput \/ selects \/ recvMessage \/ recvEnds \/ recvWouldBlock

\* The frames go on, and what is sent arrives.
StarFairness == /\ WF_starVars(keyInput \/ selects \/ recvMessage \/ recvEnds \/ recvWouldBlock)
                /\ WF_starVars(arrivesHalf)
-----------------------------------------------------------------------------
Shown == {<<stars[i].id, stars[i].pos>> : i \in {j \in Slot \ {0} : stars[j].isAlive}}

(* The stars shown, beside its own, are the players the messages speak of,    *)
(* each in its last position and none twice, as long as there were never more *)
(* of them than slots; slots are reused, and their old ids stay in them.      *)
(* However many there are, no star is shown of a player that is not there.    *)
ShownAreThePlayers ==
  /\ Shown \subseteq known
  /\ ~crowded => /\ Shown = known
                 /\ Cardinality({j \in Slot \ {0} : stars[j].isAlive}) = Cardinality(known)

(* The client reads all it is sent, and ends when the server has gone: a      *)
(* frame that stops at a move off the screen leaves nothing unread for good.  *)
ClientKeepsUp == /\ stream # <<>> ~> (stream = <<>> \/ step = "ended")
                 /\ (step # "start" /\ link # "open") ~> step = "ended"
=============================================================================
