----------------------------- MODULE IOCPServer -----------------------------
(* The echo server on an I/O completion port.  main accepts clients and posts *)
(* the first WSARecv of each; worker threads take completions off the port    *)
(* and post the next WSASend or WSARecv of the session.  No lock protects a   *)
(* session: the protocol itself has to see to it that a session is in one     *)
(* pair of hands at a time, main's, the system's or one worker's.             *)
EXTENDS Integers, Sequences

CONSTANTS Session,      \* the sessions that main may create, one per client
          Worker,       \* the worker threads
          BUFSIZE,
          MaxBytes,     \* bound: bytes a client sends
          NoSession     \* a null Session*

ASSUME IOCPAssumption == /\ BUFSIZE \in Nat \ {0} /\ MaxBytes \in Nat
                          /\ NoSession \notin Session

VARIABLES
  state,                  \* "none", "live" (after new), "freed" (after delete)
  buf, recvBytes, sendBytes,    \* the fields of Session
  mainSession,            \* the session main is about to post for, or NoSession
  pending,                \* operations posted on each session, oldest first
  done,                   \* completions of each session on the port, oldest first
  refused,                \* sessions for which a WSASend or WSARecv was refused
  wpc, wsession, result,  \* per worker: where it stands, session, what it got
  conn,                   \* each client's connection: "none", "open", "closed", "reset"
  inbox,                  \* bytes in the socket's receive buffer
  sent,                   \* number of bytes the client sent (byte k is number k)
  echoed                  \* bytes sent back to the client

sessionVars == <<state, buf, recvBytes, sendBytes>>
portVars    == <<pending, done, refused>>
workerVars  == <<wpc, wsession, result>>
clientVars  == <<conn, inbox, sent, echoed>>
vars == <<sessionVars, mainSession, portVars, workerVars, clientVars>>

Init == /\ state = [s \in Session |-> "none"]
        /\ buf = [s \in Session |-> [i \in 0..BUFSIZE - 1 |-> 0]]
        /\ recvBytes = [s \in Session |-> 0] /\ sendBytes = [s \in Session |-> 0]
        /\ mainSession = NoSession
        /\ pending = [s \in Session |-> <<>>] /\ done = [s \in Session |-> <<>>]
        /\ refused = {}
        /\ wpc = [w \in Worker |-> "wait"]
        /\ wsession = [w \in Worker |-> NoSession]
        /\ result = [w \in Worker |-> 0]
        /\ conn = [s \in Session |-> "none"]
        /\ inbox = [s \in Session |-> <<>>] /\ sent = [s \in Session |-> 0]
        /\ echoed = [s \in Session |-> <<>>]

\* WSARecv or WSASend: the operation is pending, also when it could be done at
\* once; or it is refused, and the code goes on either way.
Post(s, op) ==
  /\ UNCHANGED done
  /\ \/ pending' = [pending EXCEPT ![s] = Append(@, op)] /\ UNCHANGED refused
     \/ refused' = refused \cup {s} /\ UNCHANGED pending

\* Mutant: the receive may fill the array, and leaves no place for the '\0' that
\* the worker puts behind what it received.
RecvOpOfArray == [kind |-> "recv", from |-> 0, len |-> BUFSIZE + 1]

RecvOp == [kind |-> "recv", from |-> 0, len |-> BUFSIZE]

\* Mutant: the offset of a further send forgets what was sent.
SendFromStart(s) == [kind |-> "send", from |-> 0, len |-> recvBytes[s] - sendBytes[s]]

SendOp(s) == [kind |-> "send", from |-> sendBytes[s],
              len |-> recvBytes[s] - sendBytes[s]]

-----------------------------------------------------------------------------
\* main: accept, and the session made for the client.
accept(s) ==
  /\ mainSession = NoSession /\ state[s] = "none"
  /\ mainSession' = s
  /\ state' = [state EXCEPT ![s] = "live"]
  /\ recvBytes' = [recvBytes EXCEPT ![s] = 0]
  /\ sendBytes' = [sendBytes EXCEPT ![s] = 0]
  /\ conn' = [conn EXCEPT ![s] = "open"]
  /\ UNCHANGED <<buf, portVars, workerVars, inbox, sent, echoed>>

\* main: the session's first WSARecv.
firstRecv ==
  /\ mainSession # NoSession
  /\ Post(mainSession, RecvOp)
  /\ mainSession' = NoSession
  /\ UNCHANGED <<sessionVars, workerVars, clientVars>>

-----------------------------------------------------------------------------
\* The client.
ClientSend(s) ==
  /\ conn[s] = "open" /\ sent[s] < MaxBytes
  /\ sent' = [sent EXCEPT ![s] = @ + 1]
  /\ inbox' = [inbox EXCEPT ![s] = Append(@, sent[s] + 1)]
  /\ UNCHANGED <<sessionVars, mainSession, portVars, workerVars, conn, echoed>>

ClientLeave(s, how) ==
  /\ conn[s] = "open"
  /\ conn' = [conn EXCEPT ![s] = how]
  /\ inbox' = [inbox EXCEPT ![s] = IF how = "reset" THEN <<>> ELSE @]
  /\ UNCHANGED <<sessionVars, mainSession, portVars, workerVars, sent, echoed>>

-----------------------------------------------------------------------------
\* The system completes the oldest operation of a session: a completion is the
\* number of bytes transferred, 0 at the end of the stream, -1 for a failure.
Complete(s, n) ==
  /\ pending' = [pending EXCEPT ![s] = Tail(@)]
  /\ done' = [done EXCEPT ![s] = Append(@, n)]
  /\ UNCHANGED <<state, recvBytes, sendBytes, mainSession, refused, workerVars,
                 conn, sent>>

Received(s, n) ==
  /\ pending[s] # <<>> /\ Head(pending[s]).kind = "recv" /\ conn[s] # "reset"
  /\ n <= Head(pending[s]).len /\ n <= Len(inbox[s])
  /\ n = 0 => inbox[s] = <<>> /\ conn[s] = "closed"
  /\ LET at == Head(pending[s]).from IN
     buf' = [buf EXCEPT ![s] = [i \in 0..BUFSIZE - 1 |->
               IF i - at \in 0..n - 1 THEN inbox[s][i - at + 1] ELSE @[i]]]
  /\ inbox' = [inbox EXCEPT ![s] = SubSeq(@, n + 1, Len(@))]
  /\ UNCHANGED echoed
  /\ Complete(s, n)

Transmitted(s, n) ==
  /\ pending[s] # <<>> /\ Head(pending[s]).kind = "send" /\ conn[s] # "reset"
  /\ n \in 1..Head(pending[s]).len
  /\ LET at == Head(pending[s]).from IN
     echoed' = [echoed EXCEPT ![s] = @ \o [i \in 1..n |-> buf[s][at + i - 1]]]
  /\ UNCHANGED <<buf, inbox>>
  /\ Complete(s, n)

Failed(s) ==
  /\ pending[s] # <<>> /\ conn[s] = "reset"
  /\ UNCHANGED <<buf, inbox, echoed>>
  /\ Complete(s, -1)

SystemCompletes(s) == \/ \E n \in 0..BUFSIZE : Received(s, n) \/ Transmitted(s, n)
                      \/ Failed(s)

-----------------------------------------------------------------------------
\* Mutant: only a failure ends a session, not the end of the client's stream.
GetIgnoringEnd(w, s) ==
  /\ wpc[w] = "wait" /\ done[s] # <<>>
  /\ done' = [done EXCEPT ![s] = Tail(@)]
  /\ wsession' = [wsession EXCEPT ![w] = s]
  /\ result' = [result EXCEPT ![w] = Head(done[s])]
  /\ wpc' = [wpc EXCEPT ![w] = IF Head(done[s]) < 0 THEN "delete" ELSE "update"]
  /\ UNCHANGED <<sessionVars, mainSession, pending, refused, clientVars>>

\* WorkerThread, one action per access to what other threads might share.
GetQueuedCompletionStatus(w, s) ==
  /\ wpc[w] = "wait" /\ done[s] # <<>>
  /\ done' = [done EXCEPT ![s] = Tail(@)]
  /\ wsession' = [wsession EXCEPT ![w] = s]
  /\ result' = [result EXCEPT ![w] = Head(done[s])]
  /\ wpc' = [wpc EXCEPT ![w] = IF Head(done[s]) <= 0 THEN "delete" ELSE "update"]
  /\ UNCHANGED <<sessionVars, mainSession, pending, refused, clientVars>>

\* Mutant: the continue after delete is missing.
deleteThenGoOn(w) ==
  /\ wpc[w] = "delete"
  /\ state' = [state EXCEPT ![wsession[w]] = "freed"]
  /\ wpc' = [wpc EXCEPT ![w] = "update"]
  /\ UNCHANGED <<buf, recvBytes, sendBytes, mainSession, portVars, wsession, result,
                 clientVars>>

\* closesocket, delete session
deleteSession(w) ==
  /\ wpc[w] = "delete"
  /\ state' = [state EXCEPT ![wsession[w]] = "freed"]
  /\ wpc' = [wpc EXCEPT ![w] = "wait"]
  /\ wsession' = [wsession EXCEPT ![w] = NoSession]
  /\ UNCHANGED <<buf, recvBytes, sendBytes, mainSession, portVars, result, clientVars>>

\* Mutant: the count of the last echo is not reset.
updateWithoutReset(w) ==
  /\ wpc[w] = "update"
  /\ LET s == wsession[w] IN
     IF recvBytes[s] = 0
     THEN /\ recvBytes' = [recvBytes EXCEPT ![s] = result[w]]
          /\ UNCHANGED sendBytes
     ELSE /\ sendBytes' = [sendBytes EXCEPT ![s] = @ + result[w]]
          /\ UNCHANGED recvBytes
  /\ wpc' = [wpc EXCEPT ![w] = "post"]
  /\ UNCHANGED <<state, buf, mainSession, portVars, wsession, result, clientVars>>

\* A session with recvBytes = 0 was receiving, any other was sending.
updateBytes(w) ==
  /\ wpc[w] = "update"
  /\ LET s == wsession[w] IN
     IF recvBytes[s] = 0
     THEN /\ recvBytes' = [recvBytes EXCEPT ![s] = result[w]]
          /\ sendBytes' = [sendBytes EXCEPT ![s] = 0]
     ELSE /\ sendBytes' = [sendBytes EXCEPT ![s] = @ + result[w]]
          /\ UNCHANGED recvBytes
  /\ wpc' = [wpc EXCEPT ![w] = "post"]
  /\ UNCHANGED <<state, buf, mainSession, portVars, wsession, result, clientVars>>

\* Mutant: the next receive is posted together with a send.
postBoth(w) ==
  /\ wpc[w] = "post"
  /\ LET s == wsession[w]
         ops == IF recvBytes[s] > sendBytes[s] THEN <<SendOp(s), RecvOp>> ELSE <<RecvOp>>
     IN  /\ pending' = [pending EXCEPT ![s] = @ \o ops]
         /\ recvBytes' = [recvBytes EXCEPT ![s] = IF Len(ops) = 1 THEN 0 ELSE @]
  /\ wpc' = [wpc EXCEPT ![w] = "wait"]
  /\ wsession' = [wsession EXCEPT ![w] = NoSession]
  /\ UNCHANGED <<state, buf, sendBytes, done, refused, mainSession, result, clientVars>>

\* WSASend of what is not echoed yet, or the next WSARecv.
postNext(w) ==
  /\ wpc[w] = "post"
  /\ LET s == wsession[w] IN
     IF recvBytes[s] > sendBytes[s]
     THEN /\ Post(s, SendOp(s))
          /\ UNCHANGED recvBytes
     ELSE /\ recvBytes' = [recvBytes EXCEPT ![s] = 0]
          /\ Post(s, RecvOp)
  /\ wpc' = [wpc EXCEPT ![w] = "wait"]
  /\ wsession' = [wsession EXCEPT ![w] = NoSession]
  /\ UNCHANGED <<state, buf, sendBytes, mainSession, result, clientVars>>

Continue(w) == deleteSession(w) \/ updateBytes(w) \/ postNext(w)

-----------------------------------------------------------------------------
Next == \/ \E s \in Session : \/ accept(s) \/ ClientSend(s) \/ SystemCompletes(s)
                              \/ \E how \in {"closed", "reset"} : ClientLeave(s, how)
                              \/ \E w \in Worker : GetQueuedCompletionStatus(w, s)
        \/ firstRecv
        \/ \E w \in Worker : Continue(w)

\* Threads that are scheduled, a system that completes what it can, and a port
\* that hands out completions in their order, so that none waits forever.
Fairness ==
  /\ WF_vars(firstRecv)
  /\ \A w \in Worker : WF_vars(Continue(w))
  /\ \A s \in Session :
       /\ WF_vars(SystemCompletes(s))
       /\ SF_vars(\E w \in Worker : GetQueuedCompletionStatus(w, s))

Spec == Init /\ [][Next]_vars /\ Fairness
-----------------------------------------------------------------------------
Operation == [kind : {"recv", "send"}, from : 0..BUFSIZE, len : 1..BUFSIZE]

TypeOK ==
  /\ state \in [Session -> {"none", "live", "freed"}]
  /\ buf \in [Session -> [0..BUFSIZE - 1 -> Nat]]
  /\ recvBytes \in [Session -> 0..BUFSIZE] /\ sendBytes \in [Session -> 0..BUFSIZE]
  /\ mainSession \in Session \cup {NoSession}
  /\ pending \in [Session -> Seq(Operation)]
  /\ done \in [Session -> Seq(-1..BUFSIZE)]
  /\ refused \subseteq Session
  /\ wpc \in [Worker -> {"wait", "delete", "update", "post"}]
  /\ wsession \in [Worker -> Session \cup {NoSession}]
  /\ result \in [Worker -> -1..BUFSIZE]
  /\ conn \in [Session -> {"none", "open", "closed", "reset"}]
  /\ inbox \in [Session -> Seq(Nat)] /\ sent \in [Session -> 0..MaxBytes]
  /\ echoed \in [Session -> Seq(Nat)]

Holds(w, s) == wsession[w] = s

\* A session is in one pair of hands at a time: at most one of main, a pending
\* operation, a completion on the port and a worker has it.  (Two workers on one
\* session would race on its fields, and one of them could delete it under the
\* other.)
OneHolder ==
  \A s \in Session :
    /\ Len(pending[s]) <= 1 /\ Len(done[s]) <= 1
    /\ pending[s] # <<>> => done[s] = <<>>
    /\ mainSession = s => (pending[s] = <<>> /\ done[s] = <<>>)
    /\ \A w \in Worker : Holds(w, s) =>
         /\ pending[s] = <<>> /\ done[s] = <<>> /\ mainSession # s
         /\ \A v \in Worker : Holds(v, s) => v = w

\* Nobody has a session that was deleted, or that was not made yet.
NoUseAfterDelete ==
  \A s \in Session :
    state[s] # "live" =>
      /\ pending[s] = <<>> /\ done[s] = <<>> /\ mainSession # s
      /\ \A w \in Worker : ~Holds(w, s)

\* The bytes a client gets back are the first ones it sent, in order, however
\* recv and send cut them.
EchoIsAPrefix ==
  \A s \in Session : \A k \in DOMAIN echoed[s] : echoed[s][k] = k /\ k <= sent[s]

\* Everything a client sends is echoed, unless the client leaves or the system
\* refuses an operation.
EverythingIsEchoed ==
  \A s \in Session :
    sent[s] > 0 ~> Len(echoed[s]) = sent[s] \/ conn[s] # "open" \/ s \in refused

\* The session of a client that left is deleted, unless an operation on it was
\* refused.
LeftAreDeleted ==
  \A s \in Session :
    conn[s] \in {"closed", "reset"} ~> state[s] = "freed" \/ s \in refused

\* IOCPServer.cpp, where the first WSARecv was refused: the session is deleted.
RefusedAreDeleted == \A s \in Session : s \in refused ~> state[s] = "freed"
=============================================================================
