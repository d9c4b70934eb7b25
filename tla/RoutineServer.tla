---------------------------- MODULE RoutineServer ----------------------------
(* The overlapped echo server with completion routines.  main accepts into    *)
(* the global clientSock, the worker makes a session of it; two auto-reset    *)
(* events hand the variable over and back.  The worker's alertable wait runs  *)
(* the routines of the completed receives.  A send, and the receive after it, *)
(* are posted without a routine: nothing ever follows on the first echo, so   *)
(* the code for later completions (178, 197-212) is never reached.            *)
EXTENDS EchoClients

CONSTANT NoSocket

ASSUME RoutineAssumption == NoSocket \notin Client

VARIABLES
  mainPc,                       \* "wait", "accept", "stopped"
  hReadEvent, hWriteEvent,      \* the two events, TRUE when signalled
  clientSock,                   \* the global variable, or NoSocket
  workerPc,                     \* "wait", "taken", "post", "dead"
  newSession,                   \* the socket of the worker's new Session, or NoSocket
  receiving,                    \* sessions whose WSARecv is pending
  completed,                    \* routines due: <<session, bytes>>, oldest first
  buffer,                       \* per session: the bytes its receive put into buf
  sending,                      \* pending WSASends: <<socket, session>>
  accepted, taken               \* history: sockets accepted, and made into sessions

routineVars == <<mainPc, hReadEvent, hWriteEvent, clientSock, workerPc, newSession,
                 receiving, completed, buffer, sending, accepted, taken>>

RoutineInit == /\ mainPc = "wait" /\ hReadEvent = TRUE /\ hWriteEvent = FALSE
               /\ clientSock = NoSocket
               /\ workerPc = "wait" /\ newSession = NoSocket
               /\ receiving = {} /\ completed = <<>> /\ sending = {}
               /\ buffer = [c \in Client |-> <<>>]
               /\ accepted = <<>> /\ taken = <<>>

systemVars == <<receiving, completed, buffer, sending>>
ownClientVars == <<server, plan, conn, sent>>      \* changed by the clients only

-----------------------------------------------------------------------------
(* main                                                                      *)
waitForRead == /\ mainPc = "wait" /\ hReadEvent
               /\ hReadEvent' = FALSE /\ mainPc' = "accept"
               /\ UNCHANGED <<clientVars, systemVars, hWriteEvent, clientSock, workerPc,
                              newSession, accepted, taken>>

\* Mutant: hWriteEvent is not set.
acceptSilently ==
  /\ mainPc = "accept" /\ backlog # <<>>
  /\ AcceptNext
  /\ clientSock' = Head(backlog) /\ accepted' = Append(accepted, Head(backlog))
  /\ mainPc' = "wait"
  /\ UNCHANGED <<ownClientVars, inbox, echoed, systemVars, hReadEvent, hWriteEvent, workerPc,
                 newSession, taken>>

acceptIntoGlobal ==
  /\ mainPc = "accept" /\ backlog # <<>>
  /\ AcceptNext
  /\ clientSock' = Head(backlog) /\ accepted' = Append(accepted, Head(backlog))
  /\ hWriteEvent' = TRUE /\ mainPc' = "wait"
  /\ UNCHANGED <<ownClientVars, inbox, echoed, systemVars, hReadEvent, workerPc,
                 newSession, taken>>

\* accept fails: main leaves its loop and returns, which ends the process.
acceptBreaks ==
  /\ mainPc = "accept" /\ backlog # <<>> /\ conn[Head(backlog)] = "reset"
  /\ mainPc' = "stopped" /\ clientSock' = NoSocket
  /\ UNCHANGED <<clientVars, systemVars, hReadEvent, hWriteEvent, workerPc, newSession,
                 accepted, taken>>

-----------------------------------------------------------------------------
(* The worker                                                                *)
waitForWrite == /\ workerPc = "wait" /\ hWriteEvent
                /\ hWriteEvent' = FALSE /\ workerPc' = "taken"
                /\ UNCHANGED <<clientVars, systemVars, mainPc, hReadEvent, clientSock,
                               newSession, accepted, taken>>

\* newSession->socket = clientSock
takeSocket == /\ workerPc = "taken" /\ newSession = NoSocket
              /\ newSession' = clientSock /\ taken' = Append(taken, clientSock)
              /\ UNCHANGED <<clientVars, systemVars, mainPc, hReadEvent, hWriteEvent,
                             clientSock, workerPc, accepted>>

\* Mutant: the variable is given back before it was read.
giveBackFirst == /\ workerPc = "taken"
                 /\ hReadEvent' = TRUE
                 /\ workerPc' = IF newSession = NoSocket THEN "taken" ELSE "post"
                 /\ UNCHANGED <<clientVars, systemVars, mainPc, hWriteEvent, clientSock,
                                newSession, accepted, taken>>

giveBack == /\ workerPc = "taken" /\ newSession # NoSocket
            /\ hReadEvent' = TRUE /\ workerPc' = "post"
            /\ UNCHANGED <<clientVars, systemVars, mainPc, hWriteEvent, clientSock,
                           newSession, accepted, taken>>

\* The first WSARecv.  If it is refused the worker returns: nobody takes sockets
\* or runs routines any more.
postFirst == /\ workerPc = "post"
             /\ newSession' = NoSocket
             /\ \/ receiving' = receiving \cup {newSession} /\ workerPc' = "wait"
                \/ /\ conn[newSession] = "reset" \/ handle[newSession] = "closed"
                   /\ workerPc' = "dead" /\ UNCHANGED receiving
             /\ UNCHANGED <<clientVars, mainPc, hReadEvent, hWriteEvent, clientSock,
                            completed, buffer, sending, accepted, taken>>

\* Mutant: the echo goes to the global socket, as the closesocket does.
SocketInGlobal(s) == clientSock

\* session->socket
SocketOf(s) == s

\* CompletionRoutine: an error or the end of the stream closes the socket in
\* clientSock, which is the one accepted last, whosever routine this is.
CompletionRoutine ==
  LET s == Head(completed)[1]
      result == Head(completed)[2] IN
  /\ workerPc = "wait" /\ completed # <<>>
  /\ completed' = Tail(completed)
  /\ \/ /\ result <= 0
        /\ handle' = [c \in Client |-> IF c = clientSock THEN "closed" ELSE handle[c]]
        /\ UNCHANGED sending
     \/ /\ result > 0
        /\ sending' = IF conn[s] = "reset" \/ handle[s] = "closed" THEN sending
                      ELSE sending \cup {<<SocketOf(s), s>>}
        /\ UNCHANGED handle
  /\ UNCHANGED <<ownClientVars, backlog, inbox, echoed, mainPc, hReadEvent, hWriteEvent,
                 clientSock, workerPc, newSession, receiving, buffer, accepted, taken>>

-----------------------------------------------------------------------------
(* The system: a pending receive gets what has arrived, the end of the       *)
(* stream, or an error, also when the server closed the socket itself.       *)
ReceiveCompletes(s, n) ==
  /\ s \in receiving
  /\ IF handle[s] = "closed" THEN n = -1 ELSE n \in RecvResults(s)
  /\ inbox[s] # <<>> \/ HasEnded(s) \/ handle[s] = "closed"
  /\ receiving' = receiving \ {s}
  /\ completed' = Append(completed, <<s, n>>)
  /\ buffer' = [buffer EXCEPT ![s] = SubSeq(inbox[s], 1, n)]
  /\ TakeFromInbox(s, n)
  /\ UNCHANGED <<ownClientVars, backlog, handle, echoed, sending, mainPc, hReadEvent,
                 hWriteEvent, clientSock, workerPc, newSession, accepted, taken>>

SendCompletes(t, s, n) ==
  /\ <<t, s>> \in sending
  /\ IF handle[t] = "closed" THEN n = -1 ELSE n \in SendResults(t, Len(buffer[s]))
  /\ sending' = sending \ {<<t, s>>}
  /\ echoed' = [echoed EXCEPT ![t] = @ \o SubSeq(buffer[s], 1, n)]
  /\ UNCHANGED <<ownClientVars, backlog, handle, inbox, receiving, completed, buffer, mainPc,
                 hReadEvent, hWriteEvent, clientSock, workerPc, newSession, accepted, taken>>

-----------------------------------------------------------------------------
Running == server = "routine" /\ mainPc # "stopped"

RoutineMain == Running /\ (waitForRead \/ acceptIntoGlobal \/ acceptBreaks)

RoutineWorker == /\ Running
                 /\ \/ waitForWrite \/ takeSocket \/ giveBack \/ postFirst
                    \/ CompletionRoutine

RoutineSystem == /\ Running
                 /\ \E s \in Client, n \in -1..BUFSIZE :
                       \/ ReceiveCompletes(s, n)
                       \/ \E t \in Client : SendCompletes(t, s, n)

RoutineNext == RoutineMain \/ RoutineWorker \/ RoutineSystem

\* The server with its clients, without the other servers of EchoClients.
RoutineStep == RoutineNext \/ (ClientsNext /\ UNCHANGED routineVars)

RoutineSpec == ClientsInit /\ RoutineInit /\ [][RoutineStep]_<<clientVars, routineVars>>

\* Both threads run; the system is not assumed to complete anything.
RoutineFairness == /\ WF_<<clientVars, routineVars>>(RoutineMain)
                   /\ WF_<<clientVars, routineVars>>(RoutineWorker)

-----------------------------------------------------------------------------
(* The hand-over through one variable and two events: the sockets made into   *)
(* sessions are the accepted ones in their order, none lost by being          *)
(* overwritten and none taken twice; at most the last is still to be taken.   *)
HandedOverInOrder ==
  taken = accepted \/ (accepted # <<>> /\ taken = SubSeq(accepted, 1, Len(accepted) - 1))

(* Every accepted socket becomes a session, unless main has returned or the   *)
(* worker has, over a refused receive.                                        *)
AcceptedAreTaken ==
  Len(accepted) > Len(taken) ~>
    Len(accepted) = Len(taken) \/ workerPc = "dead" \/ mainPc = "stopped"
=============================================================================
