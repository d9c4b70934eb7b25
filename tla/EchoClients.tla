----------------------------- MODULE EchoClients -----------------------------
(* The clients of the echo servers and the sockets that connect them, with   *)
(* one of the four server programs listening.  A client and the socket the   *)
(* server has for it go by the same name; byte k of client c is <<c, k>>.    *)
EXTENDS Integers, Sequences

CONSTANTS Client,
          Plans,       \* bound: the crowds of clients considered, see plan
          BUFSIZE      \* what a server's recv asks for

ASSUME ClientsAssumption == Plans \subseteq [Client -> Int] /\ BUFSIZE \in Nat \ {0}

VARIABLES
  server,   \* the program that serves: "select", "event", "overlapped", "routine"
  plan,     \* how many bytes a client will send at most; -1, it never connects
  conn,     \* the client's side: "none", "open", "closed", "reset"
  backlog,  \* clients that wait to be accepted, oldest first
  handle,   \* the server's socket for each client: "none", "open", "closed"
  inbox,    \* bytes that have arrived at that socket
  sent,     \* number of bytes the client sent
  echoed    \* what came back to the client

clientVars == <<server, plan, conn, backlog, handle, inbox, sent, echoed>>

ClientsInit == /\ plan \in Plans
               /\ conn = [c \in Client |-> "none"]
               /\ backlog = <<>>
               /\ handle = [c \in Client |-> "none"]
               /\ inbox = [c \in Client |-> <<>>]
               /\ sent = [c \in Client |-> 0]
               /\ echoed = [c \in Client |-> <<>>]

Connect(c) == /\ conn[c] = "none" /\ plan[c] >= 0
              /\ conn' = [conn EXCEPT ![c] = "open"]
              /\ backlog' = Append(backlog, c)
              /\ UNCHANGED <<server, plan, handle, inbox, sent, echoed>>

ClientSend(c) == /\ conn[c] = "open" /\ sent[c] < plan[c] /\ handle[c] # "closed"
                 /\ sent' = [sent EXCEPT ![c] = @ + 1]
                 /\ inbox' = [inbox EXCEPT ![c] = Append(@, <<c, sent[c] + 1>>)]
                 /\ UNCHANGED <<server, plan, conn, backlog, handle, echoed>>

\* A client closes its connection, or resets it; the answer of a closed one to
\* what is still sent to it is a reset, too.
ClientLeave(c, how) == /\ handle[c] # "closed"
                       /\ \/ conn[c] = "open"
                          \/ conn[c] = "closed" /\ how = "reset"
                       /\ conn' = [conn EXCEPT ![c] = how]
                       /\ inbox' = [inbox EXCEPT ![c] = IF how = "reset" THEN <<>> ELSE @]
                       /\ UNCHANGED <<server, plan, backlog, handle, sent, echoed>>

ClientsNext == \E c \in Client : \/ Connect(c) \/ ClientSend(c)
                                 \/ ClientLeave(c, "closed") \/ ClientLeave(c, "reset")

-----------------------------------------------------------------------------
(* What the servers see of a socket.                                         *)
HasEnded(c) == conn[c] \in {"closed", "reset"}

\* recv with something to report returns a byte count, 0 at the end, -1 on error.
RecvResults(c) == IF conn[c] = "reset" THEN {-1}
                  ELSE IF inbox[c] = <<>> THEN {0}
                  ELSE 1..(IF Len(inbox[c]) < BUFSIZE THEN Len(inbox[c]) ELSE BUFSIZE)

\* send of len bytes takes some of them, or fails on a reset connection.
SendResults(c, len) == IF conn[c] = "reset" THEN {-1}
                       ELSE IF len = 0 THEN {0} ELSE 1..len

\* The first n bytes leave the socket's buffer; n is not more than there are.
TakeFromInbox(c, n) ==
  inbox' = [inbox EXCEPT ![c] = IF n > 0 THEN SubSeq(@, n + 1, Len(@)) ELSE @]

\* accept takes the client that has waited longest.
AcceptNext == /\ backlog' = Tail(backlog)
              /\ handle' = [handle EXCEPT ![Head(backlog)] = "open"]

CloseSocket(c) == handle' = [handle EXCEPT ![c] = "closed"]

-----------------------------------------------------------------------------
InOrder(c) == LET e == echoed[c] IN
  /\ \A i \in DOMAIN e : e[i][1] = c /\ e[i][2] \in 1..sent[c]
  /\ \A i, j \in DOMAIN e : i < j => e[i][2] < e[j][2]

(* What a client gets back is bytes it sent itself, in the order it sent      *)
(* them, none of them twice, with whatever was in the buffer before and       *)
(* wherever recv and send cut.  (OverlappedServer has its own statement.)     *)
EchoedInOrder == server # "overlapped" => \A c \in Client : InOrder(c)
=============================================================================
