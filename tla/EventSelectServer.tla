-------------------------- MODULE EventSelectServer --------------------------
(* The WSAEventSelect echo server: one thread that waits for the event       *)
(* objects of the listening socket (entry 1) and of the sessions.  The       *)
(* system records what happened on a socket, signals its event object, and   *)
(* records the same thing again only after the call that takes it (accept,   *)
(* recv) was made.  An event object goes by the name of its socket.          *)
(* WSACreateEvent is taken to succeed.                                       *)
EXTENDS EchoClients

CONSTANTS MaxEvents,      \* WSA_MAXIMUM_WAIT_EVENTS
          Listening       \* the listening socket

ASSUME EventAssumption == MaxEvents \in Nat \ {0} /\ Listening \notin Client

VARIABLES
  eventPc,            \* "wait", "walk"
  index, startIdx,    \* the walk's index and where it began
  sessions, events,   \* the two parallel arrays up to clientCnt
  armed,              \* per socket: the network events that may be recorded
  recorded,           \* per socket: those that are
  signalled           \* the event objects that are signalled

eventVars == <<eventPc, index, startIdx, sessions, events, armed, recorded, signalled>>

EventInit == /\ eventPc = "wait" /\ index = 1 /\ startIdx = 1
             /\ sessions = <<Listening>> /\ events = <<Listening>>
             /\ armed = [s \in Client \cup {Listening} |->
                           IF s = Listening THEN {"ACCEPT"} ELSE {}]
             /\ recorded = [s \in Client \cup {Listening} |-> {}]
             /\ signalled = {}

clientCnt == Len(sessions)

-----------------------------------------------------------------------------
(* The system.                                                               *)
Happens(s, e) == CASE e = "ACCEPT" -> backlog # <<>>
                   [] e = "READ"   -> inbox[s] # <<>>
                   [] e = "CLOSE"  -> HasEnded(s)

Record(s, e) == /\ server = "event"
                /\ e \in armed[s] /\ Happens(s, e)
                /\ s \in Client => handle[s] = "open"
                /\ armed' = [armed EXCEPT ![s] = @ \ {e}]
                /\ recorded' = [recorded EXCEPT ![s] = @ \cup {e}]
                /\ signalled' = signalled \cup {s}
                /\ UNCHANGED <<clientVars, eventPc, index, startIdx, sessions, events>>

RecordSomething == \E s \in Client \cup {Listening}, e \in {"ACCEPT", "READ", "CLOSE"} :
                      Record(s, e)

-----------------------------------------------------------------------------
(* The server.                                                               *)
\* The wait returns the lowest signalled entry.
waitEvents ==
  /\ eventPc = "wait"
  /\ \E i \in 1..clientCnt : /\ events[i] \in signalled
                             /\ \A j \in 1..i - 1 : events[j] \notin signalled
                             /\ startIdx' = i /\ index' = i
  /\ eventPc' = "walk"
  /\ UNCHANGED <<clientVars, sessions, events, armed, recorded, signalled>>

\* WSAEnumNetworkEvents for the entry the walk has come to: the records are
\* taken and the event object is reset.
InTurnOf(s) == eventPc = "walk" /\ index <= clientCnt /\ sessions[index] = s

TakeRecords(s) == /\ recorded' = [recorded EXCEPT ![s] = {}]
                  /\ signalled' = signalled \ {events[index]}

Rearm(s, E) == armed' = [armed EXCEPT ![s] = @ \cup E]

Goto(i) == eventPc' = "walk" /\ index' = i /\ UNCHANGED startIdx

Wait == eventPc' = "wait" /\ index' = 1 /\ startIdx' = 1

\* AddSession, and WSAEventSelect for the new session's socket.
acceptSession ==
  LET c == Head(backlog) IN
  /\ InTurnOf(Listening) /\ "ACCEPT" \in recorded[Listening]
  /\ clientCnt < MaxEvents
  /\ TakeRecords(Listening)
  /\ AcceptNext
  /\ sessions' = Append(sessions, c) /\ events' = Append(events, c)
  /\ armed' = [armed EXCEPT ![Listening] = {"ACCEPT"}, ![c] = {"READ", "CLOSE"}]
  /\ Goto(index + 1)
  /\ UNCHANGED <<server, plan, conn, inbox, sent, echoed>>

\* accept takes a client, and WSAEventSelect refuses its socket; the session
\* just added is removed again.
acceptRefused ==
  LET c == Head(backlog) IN
  /\ InTurnOf(Listening) /\ "ACCEPT" \in recorded[Listening]
  /\ clientCnt < MaxEvents
  /\ TakeRecords(Listening)
  /\ backlog' = Tail(backlog) /\ CloseSocket(c)
  /\ Rearm(Listening, {"ACCEPT"})
  /\ Goto(index + 1)
  /\ UNCHANGED <<server, plan, conn, inbox, sent, echoed, sessions, events>>

\* The array is full, and `continue` leaves the client where it is: accept was
\* not called, so ACCEPT is never recorded again.  Or accept itself fails.
acceptNothing ==
  /\ InTurnOf(Listening) /\ "ACCEPT" \in recorded[Listening]
  /\ TakeRecords(Listening)
  /\ \/ clientCnt >= MaxEvents /\ UNCHANGED <<armed, backlog>>
     \/ /\ clientCnt < MaxEvents /\ conn[Head(backlog)] = "reset"
        /\ Rearm(Listening, {"ACCEPT"}) /\ backlog' = Tail(backlog)
  /\ Goto(index + 1)
  /\ UNCHANGED <<server, plan, conn, handle, inbox, sent, echoed, sessions, events>>

\* Mutant: the last session is moved and its event is not.
MovedSessionsOnly(i) ==
  /\ sessions' = SubSeq([sessions EXCEPT ![i] = sessions[clientCnt]], 1, clientCnt - 1)
  /\ events' = SubSeq(events, 1, clientCnt - 1)

MovedLast(i) ==
  /\ sessions' = SubSeq([sessions EXCEPT ![i] = sessions[clientCnt]], 1, clientCnt - 1)
  /\ events' = SubSeq([events EXCEPT ![i] = events[clientCnt]], 1, clientCnt - 1)

RemoveSession(i) == CloseSocket(sessions[i]) /\ MovedLast(i)

KeepSessions == UNCHANGED <<handle, sessions, events>>

\* Mutant: FD_CLOSE is looked at only when there was nothing to read.
ClosesIfNothingRead(s) == recorded[s] = {"CLOSE"}

Closes(s) == "CLOSE" \in recorded[s]

CloseEvent(s) == \/ Closes(s) /\ RemoveSession(index)
                 \/ ~Closes(s) /\ KeepSessions

Echo(s, n, m) == echoed' = [echoed EXCEPT ![s] = @ \o SubSeq(inbox[s], 1, m)]

\* FD_READ: recv n bytes, send them once, of which m go; the rest is dropped, as
\* line 177 assigns where it was to compare.  (So sendBytes is always 0 there.)
\* recv finds what was recorded, so that WSAEWOULDBLOCK does not come, nor the 0
\* after which line 152 removes the session where the walk began.
readEvent(s, n, m) ==
  /\ InTurnOf(s) /\ "READ" \in recorded[s]
  /\ TakeRecords(s)
  /\ n \in RecvResults(s)
  /\ TakeFromInbox(s, n)
  /\ Rearm(s, {"READ"})
  /\ \/ /\ n <= 0 /\ m = 0         \* break: what else was recorded is forgotten
        /\ IF n = 0 THEN RemoveSession(startIdx) ELSE KeepSessions
        /\ Wait /\ UNCHANGED echoed
     \/ /\ n > 0 /\ m \in SendResults(s, n) /\ m < 0       \* continue: likewise
        /\ KeepSessions /\ Goto(index + 1) /\ UNCHANGED echoed
     \/ /\ n > 0 /\ m \in SendResults(s, n) /\ m > 0
        /\ Echo(s, n, m)
        /\ CloseEvent(s) /\ Goto(index + 1)
  /\ UNCHANGED <<server, plan, conn, backlog, sent>>

otherEvent(s) ==
  /\ InTurnOf(s) /\ recorded[s] \cap {"READ", "ACCEPT"} = {}
  /\ TakeRecords(s)
  /\ CloseEvent(s) /\ Goto(index + 1)
  /\ UNCHANGED <<server, plan, conn, backlog, inbox, sent, echoed, armed>>

walkDone == /\ eventPc = "walk" /\ index > clientCnt
            /\ Wait
            /\ UNCHANGED <<clientVars, sessions, events, armed, recorded, signalled>>

EventServes ==
  /\ server = "event"
  /\ \/ waitEvents \/ walkDone
     \/ acceptSession \/ acceptRefused \/ acceptNothing
     \/ otherEvent(Listening)
     \/ \E c \in Client : \/ otherEvent(c)
                          \/ \E n, m \in -1..BUFSIZE : readEvent(c, n, m)

EventNext == RecordSomething \/ EventServes

\* The server with its clients, without the other servers of EchoClients.
EventStep == EventNext \/ (ClientsNext /\ UNCHANGED eventVars)

EventSpec == ClientsInit /\ EventInit /\ [][EventStep]_<<clientVars, eventVars>>

\* The system records what happens; the thread runs.
EventFairness == /\ WF_<<clientVars, eventVars>>(RecordSomething)
                 /\ WF_<<clientVars, eventVars>>(EventServes)

-----------------------------------------------------------------------------
(* The event object at a position is that of the socket at the same position, *)
(* so that WSAEnumNetworkEvents resets the right one; the arrays hold every   *)
(* open socket once and no closed one.                                        *)
EventsMatchSessions ==
  /\ sessions = events
  /\ \A i, j \in 1..clientCnt : sessions[i] = sessions[j] => i = j
  /\ server = "event" => {sessions[i] : i \in 1..clientCnt} =
                            {Listening} \cup {c \in Client : handle[c] = "open"}

(* A client that closes its connection is removed, whatever its FD_CLOSE was  *)
(* recorded together with, and whichever entry was moved when.                *)
ClosersAreRemoved ==
  \A c \in Client : []<>(conn[c] = "closed" => handle[c] # "open" \/ server # "event")
=============================================================================
