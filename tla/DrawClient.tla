----------------------------- MODULE DrawClient -----------------------------
(* The drawing client over WSAAsyncSelect: a window whose message loop also   *)
(* gets the socket's events.  Lines that the server sends are drawn, lines    *)
(* drawn with the mouse are sent.  Unit i of the server's stream is unit      *)
(* (i - 1) % PacketSize of line (i - 1) \div PacketSize + 1; unit 0 is the    *)
(* header.                                                                    *)
EXTENDS CountedRing

CONSTANTS PacketSize,   \* header and DRAW_PACKET
          MAX_BUFSIZE,  \* what recv asks for at most
          MaxLines,     \* bound: lines the server sends
          BadLines      \* bound: where the server's stream may go wrong

ASSUME DrawAssumption == /\ PacketSize \in 2..RING_SIZE
                         /\ MAX_BUFSIZE \in Nat /\ MAX_BUFSIZE >= RING_SIZE
                         /\ MaxLines \in Nat /\ BadLines \subseteq Nat

VARIABLES
  wire,         \* "connecting", "open", "closed" or "reset" by the server, "failed"
  badLine,      \* first line whose header announces another length, if any
  arrived,      \* units of the server's stream that have arrived
  received,     \* of those, how many recv has taken
  posted,       \* messages posted to the window, oldest first
  readEnabled,  \* the next arrival posts FD_READ
  blocked,      \* FD_WRITE is posted when there is room again
  closeTold,    \* FD_CLOSE has been posted
  isConnected, isDrag, readQ, writeQ,
  sockOpen,     \* closesocket has not been called
  window,       \* "running", "reading" in readProc's loop, "quitting", "ended"
  drawn,        \* lines drawn for the server; 0, a line of mixed bytes
  hasty         \* a line was sent before there was a connection

drawVars == <<wire, badLine, arrived, received, posted, readEnabled, blocked, closeTold, isConnected,
              isDrag, readQ, writeQ, sockOpen, window, drawn, hasty>>

\* The program after its start, or, for a run of another one, over.
DrawInit(l, w) ==
            /\ wire = l /\ badLine = 1 /\ arrived = 0 /\ received = 0
            /\ posted = <<>> /\ readEnabled = TRUE /\ blocked = FALSE /\ closeTold = FALSE
            /\ isConnected = FALSE /\ isDrag = FALSE
            /\ readQ = NewRing(<<0, 0>>) /\ writeQ = NewRing(<<0, 0>>)
            /\ sockOpen = TRUE /\ window = w /\ drawn = <<>> /\ hasty = FALSE

windowVars == <<isConnected, isDrag, readQ, writeQ, sockOpen, window, drawn, hasty>>

Post(m) == posted' = Append(posted, m)

-----------------------------------------------------------------------------
(* Winsock: what happens at the socket, and the messages posted about it     *)
(* while it is open.  FD_CLOSE follows the last data; with an error code the  *)
(* message is "ERROR".                                                        *)
connects == /\ wire = "connecting"
            /\ \/ /\ wire' = "open" /\ badLine' \in BadLines
                  /\ posted' = posted \o <<"CONNECT", "WRITE">>
               \/ wire' = "failed" /\ Post("ERROR") /\ UNCHANGED badLine
            /\ UNCHANGED <<arrived, received, readEnabled, blocked, closeTold, windowVars>>

arrives(n) == /\ wire = "open" /\ sockOpen /\ arrived + n <= MaxLines * PacketSize
              /\ arrived' = arrived + n
              /\ readEnabled' = FALSE
              /\ IF readEnabled THEN Post("READ") ELSE UNCHANGED posted
              /\ UNCHANGED <<wire, badLine, received, blocked, closeTold, windowVars>>

serverLeaves == /\ wire = "open" /\ sockOpen
                /\ \/ wire' = "closed" /\ UNCHANGED <<arrived, posted, closeTold>>
                   \/ /\ wire' = "reset" /\ arrived' = received
                      /\ Post("ERROR") /\ closeTold' = TRUE
                /\ UNCHANGED <<badLine, received, readEnabled, blocked, windowVars>>

tellsClose == /\ wire = "closed" /\ sockOpen /\ ~closeTold /\ arrived = received
              /\ Post("CLOSE") /\ closeTold' = TRUE
              /\ UNCHANGED <<wire, badLine, arrived, received, readEnabled, blocked, windowVars>>

roomAgain == /\ blocked /\ wire = "open" /\ sockOpen
             /\ Post("WRITE") /\ blocked' = FALSE
             /\ UNCHANGED <<wire, badLine, arrived, received, readEnabled, closeTold, windowVars>>

-----------------------------------------------------------------------------
(* The window.                                                               *)
Unit(i) == LET line == (i - 1) \div PacketSize + 1
               part == (i - 1) % PacketSize
           IN  <<line, IF part = 0 /\ line >= badLine THEN -1 ELSE part>>

\* Mutant: recv may take more than the ring has room for.
RecvLimitOfBuffer(q) == MAX_BUFSIZE

RecvLimit(q) == IF MAX_BUFSIZE < GetFreeSize(q) THEN MAX_BUFSIZE ELSE GetFreeSize(q)

\* readProc up to its loop, when recv takes as many units as there are and as it
\* asked for.
recvIntoRing(rest) ==
  /\ sockOpen /\ wire # "reset" /\ GetFreeSize(readQ) > 0 /\ arrived > received
  /\ \E n \in {IF arrived - received < RecvLimit(readQ) THEN arrived - received
               ELSE RecvLimit(readQ)} :
       LET again == arrived > received + n
           short == EnqueueSize(readQ, n) # n
       IN  /\ received' = received + n
           /\ readEnabled' = ~again
           /\ readQ' = Enqueue(readQ, [i \in 1..n |-> Unit(received + i)])
           /\ window' = IF short THEN window ELSE "reading"
           /\ posted' = rest \o (IF again THEN <<"READ">> ELSE <<>>)
                             \o (IF short THEN <<"DESTROY">> ELSE <<>>)
  /\ UNCHANGED drawn

\* readProc when the ring is full, recv fails, or the stream has ended.
readFails(rest) ==
  /\ ~sockOpen \/ wire = "reset" \/ GetFreeSize(readQ) = 0 \/ arrived = received
  /\ posted' = Append(rest, "DESTROY")
  /\ UNCHANGED <<received, readEnabled, readQ, window, drawn>>

\* writeProc for the queue q: all of it is dequeued and handed to send, whatever
\* send then does with it.
writeProc(q, rest) ==
  /\ writeQ' = Dequeue(q, GetUsedSize(q))
  /\ \/ GetUsedSize(q) = 0 /\ posted' = rest /\ UNCHANGED blocked
     \/ /\ GetUsedSize(q) > 0 /\ sockOpen /\ wire \in {"open", "closed"}
        /\ posted' = rest
        /\ blocked' \in {blocked, TRUE}
     \/ /\ GetUsedSize(q) > 0 /\ (~sockOpen \/ wire \notin {"open", "closed"})
        /\ posted' = Append(rest, "DESTROY")
        /\ UNCHANGED blocked

fdConnect(rest) == /\ isConnected' = TRUE /\ posted' = rest
                   /\ UNCHANGED <<received, readEnabled, blocked, readQ, writeQ, sockOpen, window, drawn>>

fdClose(rest) == /\ posted' = Append(rest, "DESTROY")
                 /\ UNCHANGED <<received, readEnabled, blocked, isConnected, readQ, writeQ, sockOpen, window, drawn>>

fdRead(rest) == /\ IF isConnected THEN recvIntoRing(rest) \/ readFails(rest)
                   ELSE posted' = rest /\ UNCHANGED <<received, readEnabled, readQ, window, drawn>>
                /\ UNCHANGED <<blocked, isConnected, writeQ, sockOpen>>

fdWrite(rest) == /\ IF isConnected THEN writeProc(writeQ, rest)
                    ELSE posted' = rest /\ UNCHANGED <<writeQ, blocked>>
                 /\ UNCHANGED <<received, readEnabled, isConnected, readQ, sockOpen, window, drawn>>

wmDestroy(rest) == /\ sockOpen' = FALSE /\ window' = "quitting" /\ posted' = rest
                   /\ UNCHANGED <<received, readEnabled, blocked, isConnected, readQ, writeQ, drawn>>

ignored(rest) == /\ posted' = rest
                 /\ UNCHANGED <<received, readEnabled, blocked, isConnected, readQ, writeQ, sockOpen, window, drawn>>

\* The message loop dispatches the oldest posted message.
dispatch ==
  /\ posted # <<>> /\ window \in {"running", "quitting"}
  /\ LET m == Head(posted)
         rest == Tail(posted)
     IN  \/ m = "CONNECT" /\ fdConnect(rest)
         \/ m = "CLOSE" /\ fdClose(rest)
         \/ m = "READ" /\ fdRead(rest)
         \/ m = "WRITE" /\ fdWrite(rest)
         \/ m = "DESTROY" /\ wmDestroy(rest)
         \/ m = "ERROR" /\ ignored(rest)
  /\ UNCHANGED <<wire, badLine, arrived, closeTold, isDrag, hasty>>

\* One round of readProc's loop over the ring: an incomplete packet ends it, a
\* header that does not announce a DRAW_PACKET breaks it off.
readRound ==
  /\ window = "reading"
  /\ LET used == GetUsedSize(readQ)
         header == Peek(readQ, 1)[1]
         payload == [k \in 1..PacketSize - 1 |-> Peek(readQ, PacketSize)[k + 1]]
         whole == \A k \in DOMAIN payload : payload[k] = <<header[1], k>>
         incomplete == IF used = 0 THEN TRUE ELSE header[2] = 0 /\ used < PacketSize
     IN  \/ /\ incomplete
            /\ window' = "running"
            /\ UNCHANGED <<posted, readQ, drawn>>
         \/ /\ used > 0 /\ header[2] # 0
            /\ window' = "running" /\ Post("DESTROY")
            /\ UNCHANGED <<readQ, drawn>>
         \/ /\ used >= PacketSize /\ header[2] = 0
            /\ readQ' = Dequeue(Dequeue(readQ, 1), PacketSize - 1)
            /\ drawn' = Append(drawn, IF whole THEN header[1] ELSE 0)
            /\ UNCHANGED <<posted, window>>
  /\ UNCHANGED <<wire, badLine, arrived, received, readEnabled, blocked, closeTold, isConnected, isDrag, writeQ,
                 sockOpen, hasty>>

\* GetMessage returns WM_QUIT when nothing is posted any more.
quits == /\ posted = <<>> /\ window = "quitting"
         /\ window' = "ended"
         /\ UNCHANGED <<wire, badLine, arrived, received, posted, readEnabled, blocked, closeTold, isConnected,
                        isDrag, readQ, writeQ, sockOpen, drawn, hasty>>

\* The mouse's messages come after the posted ones.
mouseButton == /\ posted = <<>> /\ window = "running"
               /\ isDrag' \in BOOLEAN
               /\ UNCHANGED <<wire, badLine, arrived, received, posted, readEnabled, blocked, closeTold,
                              isConnected, readQ, writeQ, sockOpen, window, drawn, hasty>>

moveProc ==
  /\ posted = <<>> /\ window = "running" /\ isDrag
  /\ LET header == Enqueue(writeQ, <<<<0, 0>>>>)
         payload == [k \in 1..PacketSize - 1 |-> <<0, k>>]
     IN  \/ /\ EnqueueSize(writeQ, 1) = 1 /\ EnqueueSize(header, PacketSize - 1) = PacketSize - 1
            /\ writeProc(Enqueue(header, payload), posted)
         \/ /\ EnqueueSize(writeQ, 1) # 1 \/ EnqueueSize(header, PacketSize - 1) # PacketSize - 1
            /\ writeQ' = IF EnqueueSize(writeQ, 1) # 1 THEN writeQ ELSE Enqueue(header, payload)
            /\ Post("DESTROY") /\ UNCHANGED blocked
  /\ hasty' = (hasty \/ wire \in {"connecting", "failed"})
  /\ UNCHANGED <<wire, badLine, arrived, received, readEnabled, closeTold, isConnected, isDrag, readQ, sockOpen,
                 window, drawn>>

DrawNext == \/ connects \/ serverLeaves \/ tellsClose \/ roomAgain
            \/ \E n \in 1..MaxLines * PacketSize : arrives(n)
            \/ dispatch \/ readRound \/ quits \/ mouseButton \/ moveProc

\* The message loop runs on; a close indication is delivered.
DrawFairness == WF_drawVars(dispatch \/ readRound \/ quits) /\ WF_drawVars(tellsClose)
-----------------------------------------------------------------------------
(* As long as the server is connected and sends whole lines, the window is    *)
(* not closed: neither the cut of the stream into recvs nor the ring's limits *)
(* ever look like a broken stream.  Not so if the mouse drew a line before    *)
(* there was a connection.                                                    *)
KeptWhileHealthy == wire = "open" /\ received <= (badLine - 1) * PacketSize /\ ~hasty =>
  /\ window \in {"running", "reading"}
  /\ \A i \in DOMAIN posted : posted[i] # "DESTROY"

(* Every line that arrived whole is drawn, in order and with its own bytes,   *)
(* unless the connection is reset or the window closed before.                *)
LinesAreDrawn == \A n \in 1..MaxLines :
  arrived >= n * PacketSize ~> \/ Len(drawn) >= n /\ \A i \in 1..n : drawn[i] = i
                               \/ wire = "reset" \/ window = "ended"
=============================================================================
