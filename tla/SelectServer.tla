---------------------------- MODULE SelectServer ----------------------------
(* The select echo server: one thread, one table of sockets, walked by index *)
(* after every select.  A removed entry is replaced by the last one, which   *)
(* the walk then does not come to.                                           *)
EXTENDS EchoClients

CONSTANT MaxSockets       \* FD_SETSIZE - 1

ASSUME SelectAssumption == MaxSockets \in Nat \ {0}

VARIABLES
  selectPc,     \* "select", "accept", "walk", "stopped"
  at,           \* the walk's index i, from 1 here
  socketInfo,   \* SocketInfoArray up to nTotalSockets
  rSet, wSet,   \* what select left in the sets
  turnedAway    \* sockets accepted when the table was full

selectVars == <<selectPc, at, socketInfo, rSet, wSet, turnedAway>>

SelectInit == /\ selectPc = "select" /\ at = 1
              /\ socketInfo = <<>>
              /\ rSet = {} /\ wSet = {} /\ turnedAway = {}

Entries == {socketInfo[i] : i \in DOMAIN socketInfo}

HasToSend(e) == e.recvBytes > e.sendBytes

\* select waits until a socket of the sets is ready; a socket whose entry has
\* something to send is asked for writing only.
selectCall ==
  LET r == {e.sock : e \in {x \in Entries : ~HasToSend(x)}}
      w == {e.sock : e \in {x \in Entries : HasToSend(x)}}
      readable == {c \in r : inbox[c] # <<>> \/ HasEnded(c)} IN
  /\ selectPc = "select"
  /\ backlog # <<>> \/ readable \cup w # {}
  /\ rSet' = readable /\ wSet' = w
  /\ selectPc' = IF backlog # <<>> THEN "accept" ELSE "walk"
  /\ UNCHANGED <<clientVars, at, socketInfo, turnedAway>>

\* AddSocketInfo, whose result main ignores: a socket that finds no room stays
\* open and is in no set.
AddSocketInfo(c) ==
  IF Len(socketInfo) >= MaxSockets
  THEN turnedAway' = turnedAway \cup {c} /\ UNCHANGED socketInfo
  ELSE /\ socketInfo' = Append(socketInfo,
                [sock |-> c, buf |-> <<>>, recvBytes |-> 0, sendBytes |-> 0])
       /\ UNCHANGED turnedAway

acceptCall ==
  /\ selectPc = "accept"
  /\ AcceptNext
  /\ AddSocketInfo(Head(backlog))
  /\ selectPc' = "walk"
  /\ UNCHANGED <<server, plan, conn, inbox, sent, echoed, at, rSet, wSet>>

\* accept may report that the client it was to return has reset its connection:
\* the server's loop ends.
acceptFails ==
  /\ selectPc = "accept" /\ conn[Head(backlog)] = "reset"
  /\ selectPc' = "stopped"
  /\ UNCHANGED <<clientVars, at, socketInfo, rSet, wSet, turnedAway>>

\* Mutant: the entry is dropped from the end, and the last one is not moved.
RemoveLast(i) == /\ CloseSocket(socketInfo[i].sock)
                 /\ socketInfo' = SubSeq(socketInfo, 1, Len(socketInfo) - 1)

RemoveSocketInfo(i) ==
  LET last == Len(socketInfo) IN
  /\ CloseSocket(socketInfo[i].sock)
  /\ socketInfo' = SubSeq([socketInfo EXCEPT ![i] = socketInfo[last]], 1, last - 1)

InTurn(sock) == /\ selectPc = "walk" /\ at <= Len(socketInfo)
                /\ socketInfo[at].sock = sock
                /\ at' = at + 1

\* Mutant: the end of the stream is taken for a receive of nothing.
EndsOnError(n) == n < 0

Ends(n) == n <= 0

recvCall(c, n) ==
  /\ InTurn(c) /\ c \in rSet
  /\ n \in RecvResults(c)
  /\ TakeFromInbox(c, n)
  /\ \/ Ends(n) /\ RemoveSocketInfo(at)
     \/ /\ ~Ends(n)
        /\ socketInfo' = [socketInfo EXCEPT ![at].recvBytes = n,
                                            ![at].buf = SubSeq(inbox[c], 1, n)]
        /\ UNCHANGED handle
  /\ UNCHANGED <<server, plan, conn, backlog, sent, echoed, selectPc, rSet, wSet, turnedAway>>

\* The length is written recvBytes - recvBytes.
SendLength(e) == e.recvBytes - e.recvBytes

sendCall(c, n) ==
  LET e == socketInfo[at]
      total == e.sendBytes + n
      all == total = e.recvBytes IN
  /\ InTurn(c) /\ c \in wSet
  /\ n \in SendResults(c, SendLength(e))
  /\ \/ /\ n < 0
        /\ RemoveSocketInfo(at)
        /\ UNCHANGED echoed
     \/ /\ n >= 0
        /\ socketInfo' = [socketInfo EXCEPT
              ![at].recvBytes = IF all THEN 0 ELSE @,
              ![at].sendBytes = IF all THEN 0 ELSE total]
        /\ echoed' = [echoed EXCEPT ![c] = @ \o SubSeq(e.buf, e.sendBytes + 1, total)]
        /\ UNCHANGED handle
  /\ UNCHANGED <<server, plan, conn, backlog, inbox, sent, selectPc, rSet, wSet, turnedAway>>

notReady(c) ==
  /\ InTurn(c) /\ c \notin rSet \cup wSet
  /\ UNCHANGED <<clientVars, selectPc, socketInfo, rSet, wSet, turnedAway>>

walkEnds ==
  /\ selectPc = "walk" /\ at > Len(socketInfo)
  /\ selectPc' = "select" /\ at' = 1
  /\ rSet' = {} /\ wSet' = {}
  /\ UNCHANGED <<clientVars, socketInfo, turnedAway>>

SelectNext ==
  /\ server = "select"
  /\ \/ selectCall \/ acceptCall \/ acceptFails \/ walkEnds
     \/ \E c \in Client : \/ notReady(c)
                          \/ \E n \in -1..BUFSIZE : recvCall(c, n) \/ sendCall(c, n)

\* The server with its clients, without the other servers of EchoClients.
SelectStep == SelectNext \/ (ClientsNext /\ UNCHANGED selectVars)

SelectSpec == ClientsInit /\ SelectInit /\ [][SelectStep]_<<clientVars, selectVars>>

\* One thread whose loop always goes on.
SelectFairness == WF_<<clientVars, selectVars>>(SelectNext)

-----------------------------------------------------------------------------
(* RemoveSocketInfo moves entries while the walk counts up: the table still  *)
(* has each open socket once, and no closed one.  Only sockets for which      *)
(* AddSocketInfo found no room are open outside of it.                        *)
SocketsAreInTable ==
  /\ \A i, j \in DOMAIN socketInfo :
        socketInfo[i].sock = socketInfo[j].sock => i = j
  /\ server = "select" =>
        {e.sock : e \in Entries} \cup turnedAway = {c \in Client : handle[c] = "open"}

(* A client that leaves without having been read from is accepted all the    *)
(* same and its socket closed, although the entry moved into a removed one's  *)
(* place is passed over: the next pass comes to it.  (One that has been read  *)
(* from is asked for writing for ever, for its send has length 0.)            *)
Read(c) == \E e \in Entries : e.sock = c /\ e.recvBytes > 0

QuietLeaversAreRemoved ==
  \A c \in Client : []<>(conn[c] = "closed" /\ server = "select" =>
    handle[c] = "closed" \/ Read(c) \/ c \in turnedAway \/ selectPc = "stopped")
=============================================================================
