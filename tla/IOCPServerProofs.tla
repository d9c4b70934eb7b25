-------------------------- MODULE IOCPServerProofs --------------------------
(* The sessions of IOCPServer are in one pair of hands at a time, for every  *)
(* number of clients, workers and bytes.                                     *)
EXTENDS IOCPServer, SequenceTheorems, TLAPS

\* A worker has a session exactly while it works on one.
WorkersAreBusy == \A w \in Worker : wpc[w] = "wait" <=> wsession[w] = NoSession

\* What a session's counts say of the hands it is in: with recvBytes = 0 it is
\* receiving, otherwise its echo is under way and no result exceeds the rest.
WithinRemaining(s, n) == recvBytes[s] > 0 => n <= recvBytes[s] - sendBytes[s]

MatchesCounts(s, op) == \/ op = RecvOp /\ recvBytes[s] = 0
                        \/ op = SendOp(s) /\ recvBytes[s] > 0

CountsAreRight ==
  /\ \A s \in Session : /\ mainSession = s => recvBytes[s] = 0
                        /\ pending[s] # <<>> => MatchesCounts(s, Head(pending[s]))
                        /\ done[s] # <<>> => WithinRemaining(s, Head(done[s]))
  /\ \A w \in Worker :
       wpc[w] = "update" => /\ result[w] > 0
                            /\ WithinRemaining(wsession[w], result[w])

IInv == TypeOK /\ OneHolder /\ NoUseAfterDelete /\ WorkersAreBusy /\ CountsAreRight

-----------------------------------------------------------------------------
\* An operation posted where none was pending is the one operation there is.
LEMMA FirstOfQueue ==
  ASSUME NEW S, NEW e \in S
  PROVE  /\ Append(<<>>, e) \in Seq(S) /\ Append(<<>>, e) # <<>>
         /\ Len(Append(<<>>, e)) = 1 /\ Head(Append(<<>>, e)) = e
  OBVIOUS

\* A queue of one is empty when its head is taken.
LEMMA LastOfQueue ==
  ASSUME NEW S, NEW q \in Seq(S), q # <<>>, Len(q) <= 1
  PROVE  Len(q) = 1 /\ Head(q) \in S /\ Tail(q) = <<>>
<1>1. Len(q) = 1
  <2>1. Len(q) \in Nat \ {0}
    BY EmptySeq
  <2> QED
    BY <2>1
<1>2. Head(q) \in S /\ Tail(q) \in Seq(S) /\ Len(Tail(q)) = 0
  BY <1>1, HeadTailProperties
<1> QED
  BY <1>1, <1>2, EmptySeq

\* Both kinds of operation are operations.
LEMMA OperationsAreTyped ==
  ASSUME TypeOK, NEW s \in Session
  PROVE  /\ RecvOp \in Operation
         /\ recvBytes[s] > sendBytes[s] => SendOp(s) \in Operation
<1>1. BUFSIZE \in Nat \ {0}
  BY IOCPAssumption
<1>2. recvBytes[s] \in 0..BUFSIZE /\ sendBytes[s] \in 0..BUFSIZE
  BY DEF TypeOK
<1>3. RecvOp \in Operation
  BY <1>1 DEF RecvOp, Operation
<1>4. ASSUME recvBytes[s] > sendBytes[s]
      PROVE  SendOp(s) \in Operation
  <2>1. recvBytes[s] - sendBytes[s] \in 1..BUFSIZE
    BY <1>1, <1>2, <1>4
  <2> QED
    BY <1>2, <2>1 DEF SendOp, Operation
<1> QED
  BY <1>3, <1>4

\* What the invariant says of a session that somebody has.
LEMMA InHands ==
  ASSUME IInv, NEW s \in Session
  PROVE  /\ mainSession = s =>
              /\ state[s] = "live" /\ pending[s] = <<>> /\ done[s] = <<>>
              /\ recvBytes[s] = 0 /\ \A w \in Worker : ~Holds(w, s)
         /\ pending[s] # <<>> =>
              /\ state[s] = "live" /\ mainSession # s /\ done[s] = <<>>
              /\ Len(pending[s]) = 1 /\ Head(pending[s]) \in Operation
              /\ Tail(pending[s]) = <<>> /\ MatchesCounts(s, Head(pending[s]))
              /\ \A w \in Worker : ~Holds(w, s)
         /\ done[s] # <<>> =>
              /\ state[s] = "live" /\ mainSession # s /\ pending[s] = <<>>
              /\ Len(done[s]) = 1 /\ Head(done[s]) \in -1..BUFSIZE
              /\ Tail(done[s]) = <<>> /\ WithinRemaining(s, Head(done[s]))
              /\ \A w \in Worker : ~Holds(w, s)
         /\ \A w \in Worker : Holds(w, s) =>
              /\ state[s] = "live" /\ mainSession # s
              /\ pending[s] = <<>> /\ done[s] = <<>>
              /\ \A v \in Worker : Holds(v, s) => v = w
<1>1. pending[s] \in Seq(Operation) /\ done[s] \in Seq(-1..BUFSIZE)
  BY DEF IInv, TypeOK
<1>2. OneHolder /\ NoUseAfterDelete /\ CountsAreRight
  BY DEF IInv
<1>3. Len(pending[s]) <= 1 /\ Len(done[s]) <= 1
  BY <1>2 DEF OneHolder
<1>4. pending[s] # <<>> => Len(pending[s]) = 1 /\ Head(pending[s]) \in Operation
                           /\ Tail(pending[s]) = <<>>
  BY <1>1, <1>3, LastOfQueue
<1>5. done[s] # <<>> => Len(done[s]) = 1 /\ Head(done[s]) \in -1..BUFSIZE
                        /\ Tail(done[s]) = <<>>
  BY <1>1, <1>3, LastOfQueue
<1> QED
  BY <1>2, <1>4, <1>5 DEF OneHolder, NoUseAfterDelete, CountsAreRight

\* What it says of a worker at work: its session is a session, in its hands alone.
LEMMA AtWork ==
  ASSUME IInv, NEW w \in Worker, wpc[w] # "wait"
  PROVE  LET s == wsession[w] IN
         /\ s \in Session /\ Holds(w, s) /\ state[s] = "live" /\ mainSession # s
         /\ pending[s] = <<>> /\ done[s] = <<>>
         /\ \A v \in Worker : Holds(v, s) => v = w
<1>1. wsession[w] \in Session
  BY DEF IInv, TypeOK, WorkersAreBusy
<1> QED
  BY <1>1, InHands DEF Holds

-----------------------------------------------------------------------------
\* At the start there is no session to hold.
LEMMA InitHolds == Init => IInv
<1> SUFFICES ASSUME Init PROVE IInv
  OBVIOUS
<1> USE IOCPAssumption DEF Init
<1>1. TypeOK
  BY DEF TypeOK
<1>2. OneHolder /\ NoUseAfterDelete /\ WorkersAreBusy
  BY DEF OneHolder, NoUseAfterDelete, WorkersAreBusy, Holds
<1>3. CountsAreRight
  BY DEF CountsAreRight
<1> QED
  BY <1>1, <1>2, <1>3 DEF IInv

\* main makes a session and holds it.
LEMMA AcceptHolds ==
  ASSUME IInv, NEW s \in Session, accept(s)
  PROVE  IInv'
<1>1. TypeOK /\ OneHolder /\ NoUseAfterDelete /\ WorkersAreBusy /\ CountsAreRight
  BY DEF IInv
<1>2. /\ state \in [Session -> {"none", "live", "freed"}]
      /\ recvBytes \in [Session -> 0..BUFSIZE] /\ sendBytes \in [Session -> 0..BUFSIZE]
      /\ state[s] # "live" /\ mainSession = NoSession
  BY <1>1 DEF TypeOK, accept
<1>3. /\ pending[s] = <<>> /\ done[s] = <<>>
      /\ \A w \in Worker : wsession[w] # s
  BY <1>1, <1>2 DEF NoUseAfterDelete, Holds
<1>4. /\ state'[s] = "live" /\ recvBytes'[s] = 0 /\ mainSession' = s
      /\ \A t \in Session \ {s} : /\ state'[t] = state[t] /\ recvBytes'[t] = recvBytes[t]
                                  /\ sendBytes'[t] = sendBytes[t]
  BY <1>2 DEF accept
<1>5. UNCHANGED <<pending, done, wpc, wsession, result>>
  BY DEF accept, portVars, workerVars
<1>6. TypeOK'
  <2>1. state' \in [Session -> {"none", "live", "freed"}]
    BY <1>2 DEF accept
  <2>2. recvBytes' \in [Session -> 0..BUFSIZE] /\ sendBytes' \in [Session -> 0..BUFSIZE]
    BY <1>2, IOCPAssumption DEF accept
  <2>3. conn' \in [Session -> {"none", "open", "closed", "reset"}]
    BY <1>1 DEF TypeOK, accept
  <2> QED
    BY <1>1, <2>1, <2>2, <2>3 DEF TypeOK, accept, portVars, workerVars
<1>7. OneHolder'
  BY <1>1, <1>2, <1>3, <1>4, <1>5 DEF OneHolder, Holds, TypeOK
<1>8. NoUseAfterDelete'
  BY <1>1, <1>2, <1>3, <1>4, <1>5 DEF NoUseAfterDelete, Holds
<1>9. WorkersAreBusy'
  BY <1>1, <1>5 DEF WorkersAreBusy
<1>10. CountsAreRight'
  <2>1. ASSUME NEW t \in Session
        PROVE  /\ (mainSession = t => recvBytes[t] = 0)'
               /\ (pending[t] # <<>> => MatchesCounts(t, Head(pending[t])))'
               /\ (done[t] # <<>> => WithinRemaining(t, Head(done[t])))'
    <3>1. CASE t = s
      BY <1>3, <1>4, <1>5, <3>1
    <3>2. CASE t # s
      BY <1>1, <1>4, <1>5, <3>2
         DEF CountsAreRight, MatchesCounts, WithinRemaining, SendOp, RecvOp
    <3> QED
      BY <3>1, <3>2
  <2>2. ASSUME NEW w \in Worker, wpc[w] = "update"
        PROVE  result[w] > 0 /\ WithinRemaining(wsession[w], result[w])'
    <3>1. wsession[w] \in Session \ {s}
      BY <1>3, <2>2, AtWork
    <3> QED
      BY <1>1, <1>4, <1>5, <2>2, <3>1 DEF CountsAreRight, WithinRemaining
  <2> QED
    BY <1>5, <2>1, <2>2 DEF CountsAreRight
<1> QED
  BY <1>6, <1>7, <1>8, <1>9, <1>10 DEF IInv

\* main hands the session to the system, or leaves it to nobody.
LEMMA FirstRecvHolds ==
  ASSUME IInv, firstRecv
  PROVE  IInv'
<1> DEFINE s == mainSession
<1>1. TypeOK /\ OneHolder /\ NoUseAfterDelete /\ WorkersAreBusy /\ CountsAreRight
  BY DEF IInv
<1>2. s \in Session /\ pending \in [Session -> Seq(Operation)]
  BY <1>1 DEF TypeOK, firstRecv
<1>3. /\ state[s] = "live" /\ pending[s] = <<>> /\ done[s] = <<>> /\ recvBytes[s] = 0
      /\ \A w \in Worker : ~Holds(w, s)
  BY <1>2, InHands
<1>4. /\ UNCHANGED <<state, buf, recvBytes, sendBytes, done, wpc, wsession, result,
                     conn, inbox, sent, echoed>>
      /\ mainSession' = NoSession /\ NoSession \notin Session
  BY IOCPAssumption DEF firstRecv, Post, sessionVars, workerVars, clientVars
<1>5. \/ pending' = [pending EXCEPT ![s] = Append(<<>>, RecvOp)] /\ UNCHANGED refused
      \/ refused' = refused \cup {s} /\ UNCHANGED pending
  BY <1>2, <1>3 DEF firstRecv, Post
<1>6. /\ pending'[s] # <<>> => Head(pending'[s]) = RecvOp
      /\ Len(pending'[s]) <= 1 /\ pending'[s] \in Seq(Operation)
      /\ \A t \in Session \ {s} : pending'[t] = pending[t]
      /\ pending' \in [Session -> Seq(Operation)]
  <2>1. RecvOp \in Operation
    BY <1>1, <1>2, OperationsAreTyped
  <2>2. Len(<<>>) = 0 /\ <<>> \in Seq(Operation)
    BY EmptySeq
  <2>3. CASE pending' = [pending EXCEPT ![s] = Append(<<>>, RecvOp)]
    <3>1. /\ Append(<<>>, RecvOp) \in Seq(Operation)
          /\ Len(Append(<<>>, RecvOp)) = 1 /\ Head(Append(<<>>, RecvOp)) = RecvOp
      BY <2>1, FirstOfQueue
    <3> HIDE DEF s
    <3> QED
      BY <1>2, <2>3, <3>1
  <2>4. CASE UNCHANGED pending
    BY <1>2, <1>3, <2>2, <2>4
  <2> QED
    BY <1>5, <2>3, <2>4
<1>7. TypeOK'
  <2>1. refused' \subseteq Session
    BY <1>1, <1>2, <1>5 DEF TypeOK
  <2> QED
    BY <1>1, <1>4, <1>6, <2>1 DEF TypeOK
<1>8. OneHolder'
  BY <1>1, <1>2, <1>3, <1>4, <1>6 DEF OneHolder, Holds
<1>9. NoUseAfterDelete'
  BY <1>1, <1>2, <1>3, <1>4, <1>6 DEF NoUseAfterDelete, Holds
<1>10. WorkersAreBusy'
  BY <1>1, <1>4 DEF WorkersAreBusy
<1>11. CountsAreRight'
  <2>1. RecvOp' = RecvOp /\ \A t \in Session : SendOp(t)' = SendOp(t)
    BY <1>4 DEF RecvOp, SendOp
  <2> QED
    BY <1>1, <1>2, <1>3, <1>4, <1>6, <2>1 DEF CountsAreRight, MatchesCounts, WithinRemaining
<1> QED
  BY <1>7, <1>8, <1>9, <1>10, <1>11 DEF IInv

\* What a client does changes nothing the invariant is about.
LEMMA ClientHolds ==
  ASSUME IInv, NEW s \in Session,
         ClientSend(s) \/ \E how \in {"closed", "reset"} : ClientLeave(s, how)
  PROVE  IInv'
<1>1. TypeOK /\ OneHolder /\ NoUseAfterDelete /\ WorkersAreBusy /\ CountsAreRight
  BY DEF IInv
<1>2. UNCHANGED <<state, buf, recvBytes, sendBytes, mainSession, pending, done, refused,
                  wpc, wsession, result, echoed>>
  BY DEF ClientSend, ClientLeave, sessionVars, portVars, workerVars
<1>3. TypeOK'
  <2>1. /\ conn \in [Session -> {"none", "open", "closed", "reset"}]
        /\ inbox \in [Session -> Seq(Nat)] /\ sent \in [Session -> 0..MaxBytes]
    BY <1>1 DEF TypeOK
  <2>2. conn' \in [Session -> {"none", "open", "closed", "reset"}]
    BY <2>1 DEF ClientSend, ClientLeave
  <2>3. inbox' \in [Session -> Seq(Nat)]
    <3>1. CASE ClientSend(s)
      <4>1. sent[s] + 1 \in Nat
        BY <2>1, IOCPAssumption
      <4>2. Append(inbox[s], sent[s] + 1) \in Seq(Nat)
        BY <2>1, <4>1, AppendProperties
      <4> QED
        BY <2>1, <3>1, <4>2 DEF ClientSend
    <3>2. CASE \E how \in {"closed", "reset"} : ClientLeave(s, how)
      BY <2>1, <3>2, EmptySeq DEF ClientLeave
    <3> QED
      BY <3>1, <3>2
  <2>4. sent' \in [Session -> 0..MaxBytes]
    <3>1. CASE ClientSend(s)
      <4>1. sent[s] + 1 \in 0..MaxBytes
        BY <2>1, <3>1, IOCPAssumption DEF ClientSend
      <4> QED
        BY <2>1, <3>1, <4>1 DEF ClientSend
    <3>2. CASE \E how \in {"closed", "reset"} : ClientLeave(s, how)
      BY <2>1, <3>2 DEF ClientLeave
    <3> QED
      BY <3>1, <3>2
  <2> QED
    BY <1>1, <1>2, <2>2, <2>3, <2>4 DEF TypeOK
<1>4. OneHolder' /\ NoUseAfterDelete' /\ WorkersAreBusy'
  BY <1>1, <1>2 DEF OneHolder, NoUseAfterDelete, WorkersAreBusy, Holds
<1>5. CountsAreRight'
  BY <1>1, <1>2 DEF CountsAreRight, MatchesCounts, WithinRemaining, SendOp, RecvOp
<1> QED
  BY <1>3, <1>4, <1>5 DEF IInv

-----------------------------------------------------------------------------
\* An offset of 0 to n - 1 is an index of 1 to n, and the other way round.
LEMMA OffsetInRange ==
  ASSUME NEW i \in Int, NEW at \in Nat, NEW n \in Nat, i - at \in 0..n - 1
  PROVE  i - at + 1 \in 1..n
  OBVIOUS

LEMMA IndexInRange ==
  ASSUME NEW at \in Nat, NEW n \in Nat, NEW size \in Nat, at + n <= size, NEW i \in 1..n
  PROVE  at + i - 1 \in 0..size - 1
  OBVIOUS

\* The bytes a completed operation moves stay bytes.
LEMMA CompleteMovesBytes ==
  ASSUME IInv, NEW s \in Session, NEW n \in -1..BUFSIZE,
         \/ n \in Nat /\ (Received(s, n) \/ Transmitted(s, n))
         \/ n = -1 /\ Failed(s)
  PROVE  /\ buf' \in [Session -> [0..BUFSIZE - 1 -> Nat]]
         /\ inbox' \in [Session -> Seq(Nat)] /\ echoed' \in [Session -> Seq(Nat)]
<1> DEFINE op == Head(pending[s])
<1>1. /\ buf \in [Session -> [0..BUFSIZE - 1 -> Nat]]
      /\ inbox \in [Session -> Seq(Nat)] /\ echoed \in [Session -> Seq(Nat)]
      /\ recvBytes[s] \in 0..BUFSIZE /\ sendBytes[s] \in 0..BUFSIZE
      /\ BUFSIZE \in Nat
  BY IOCPAssumption DEF IInv, TypeOK
<1>2. op \in Operation /\ MatchesCounts(s, op)
  BY InHands DEF Received, Transmitted, Failed
<1>3. op.from \in Nat /\ op.len \in Nat /\ op.from + op.len <= BUFSIZE
  <2>1. CASE op = RecvOp
    BY <1>1, <2>1 DEF RecvOp
  <2>2. CASE op = SendOp(s)
    <3>1. op.from = sendBytes[s] /\ op.len = recvBytes[s] - sendBytes[s]
      BY <2>2 DEF SendOp
    <3>2. op.len \in Nat
      BY <1>2 DEF Operation
    <3> QED
      BY <1>1, <3>1, <3>2
  <2> QED
    BY <1>2, <2>1, <2>2 DEF MatchesCounts
<1> HIDE DEF op
<1>4. CASE n \in Nat /\ Received(s, n)
  <2> DEFINE new == [i \in 0..BUFSIZE - 1 |->
               IF i - op.from \in 0..n - 1 THEN inbox[s][i - op.from + 1] ELSE buf[s][i]]
  <2>1. buf' = [buf EXCEPT ![s] = new] /\ UNCHANGED echoed
    BY <1>4 DEF Received, op
  <2>2. inbox' = [inbox EXCEPT ![s] = SubSeq(inbox[s], n + 1, Len(inbox[s]))]
    BY <1>4 DEF Received
  <2>3. n <= Len(inbox[s]) /\ n \in Int /\ n + 1 >= 1
    <3>1. n <= Len(inbox[s])
      BY <1>4 DEF Received
    <3> QED
      BY <1>4, <3>1
  <2>4. ASSUME NEW i \in 0..BUFSIZE - 1
        PROVE  new[i] \in Nat
    <3>1. CASE i - op.from \in 0..n - 1
      <4>1. i - op.from + 1 \in 1..n
        BY <1>3, <1>4, <3>1, OffsetInRange
      <4>2. i - op.from + 1 \in 1..Len(inbox[s])
        BY <1>1, <2>3, <4>1, LenProperties
      <4>3. inbox[s][i - op.from + 1] \in Nat
        BY <1>1, <4>2, ElementOfSeq
      <4> QED
        BY <3>1, <4>3
    <3>2. CASE i - op.from \notin 0..n - 1
      BY <1>1, <3>2
    <3> QED
      BY <3>1, <3>2
  <2>5. new \in [0..BUFSIZE - 1 -> Nat]
    BY <2>4
  <2>6. SubSeq(inbox[s], n + 1, Len(inbox[s])) \in Seq(Nat)
    <3>1. inbox[s] \in Seq(Nat)
      BY <1>1
    <3>2. Len(inbox[s]) \in Nat
      BY <3>1, LenProperties
    <3>3. CASE n + 1 <= Len(inbox[s])
      BY <2>3, <3>1, <3>2, <3>3, SubSeqProperties
    <3>4. CASE n + 1 > Len(inbox[s])
      BY <2>3, <3>2, <3>4, SubSeqEmpty, EmptySeq
    <3> QED
      BY <2>3, <3>2, <3>3, <3>4
  <2> HIDE DEF new
  <2> QED
    BY <1>1, <2>1, <2>2, <2>5, <2>6
<1>5. CASE n \in Nat /\ Transmitted(s, n)
  <2> DEFINE new == [i \in 1..n |-> buf[s][op.from + i - 1]]
  <2>1. echoed' = [echoed EXCEPT ![s] = echoed[s] \o new] /\ UNCHANGED <<buf, inbox>>
    BY <1>5 DEF Transmitted, op
  <2>2. n \in Nat /\ n <= op.len
    BY <1>3, <1>5 DEF Transmitted, op
  <2>3. ASSUME NEW i \in 1..n
        PROVE  buf[s][op.from + i - 1] \in Nat
    <3>1. op.from + i - 1 \in 0..BUFSIZE - 1
      <4>1. op.from + n <= BUFSIZE /\ n \in Nat
        BY <1>1, <1>3, <2>2
      <4> QED
        BY <1>1, <1>3, <4>1, IndexInRange
    <3> QED
      BY <1>1, <3>1
  <2>4. new \in Seq(Nat)
    BY <2>2, <2>3, IsASeq
  <2>5. echoed[s] \o new \in Seq(Nat)
    BY <1>1, <2>4, ConcatProperties
  <2> HIDE DEF new
  <2> QED
    BY <1>1, <2>1, <2>5
<1>6. CASE Failed(s)
  BY <1>1, <1>6 DEF Failed
<1> QED
  BY <1>4, <1>5, <1>6

\* The system turns the operation into its completion.  A failure is less than
\* nothing, a send's result is no more than what is left to echo.
LEMMA CompleteHolds ==
  ASSUME IInv, NEW s \in Session, SystemCompletes(s)
  PROVE  IInv'
<1>1. TypeOK /\ OneHolder /\ NoUseAfterDelete /\ WorkersAreBusy /\ CountsAreRight
  BY DEF IInv
<1>2. PICK n \in -1..BUFSIZE :
        \/ n \in Nat /\ (Received(s, n) \/ Transmitted(s, n))
        \/ n = -1 /\ Failed(s)
  <2>1. BUFSIZE \in Nat
    BY IOCPAssumption
  <2>2. CASE Failed(s)
    <3>1. -1 \in -1..BUFSIZE
      BY <2>1
    <3> QED
      BY <2>2, <3>1
  <2>3. CASE \E n \in 0..BUFSIZE : Received(s, n) \/ Transmitted(s, n)
    <3>1. \A n \in 0..BUFSIZE : n \in Nat /\ n \in -1..BUFSIZE
      BY <2>1
    <3>2. PICK m \in 0..BUFSIZE : Received(s, m) \/ Transmitted(s, m)
      BY <2>3
    <3>3. m \in -1..BUFSIZE /\ m \in Nat
      BY <3>1
    <3> QED
      BY <3>2, <3>3
  <2> QED
    BY <2>2, <2>3 DEF SystemCompletes
<1>3. Complete(s, n) /\ pending[s] # <<>>
  BY <1>2 DEF Received, Transmitted, Failed
<1>4. /\ state[s] = "live" /\ mainSession # s /\ done[s] = <<>>
      /\ Head(pending[s]) \in Operation
      /\ Tail(pending[s]) = <<>> /\ MatchesCounts(s, Head(pending[s]))
      /\ \A w \in Worker : ~Holds(w, s)
  BY <1>3, InHands
<1>5. /\ pending \in [Session -> Seq(Operation)] /\ done \in [Session -> Seq(-1..BUFSIZE)]
      /\ recvBytes \in [Session -> 0..BUFSIZE] /\ sendBytes \in [Session -> 0..BUFSIZE]
  BY <1>1 DEF TypeOK
<1>6. /\ Append(<<>>, n) \in Seq(-1..BUFSIZE) /\ Append(<<>>, n) # <<>>
      /\ Len(Append(<<>>, n)) = 1 /\ Head(Append(<<>>, n)) = n
      /\ <<>> \in Seq(Operation) /\ Len(<<>>) = 0
  BY FirstOfQueue, EmptySeq
<1>7. /\ pending' = [pending EXCEPT ![s] = <<>>]
      /\ done' = [done EXCEPT ![s] = Append(<<>>, n)]
  BY <1>3, <1>4, <1>5 DEF Complete
<1>8. /\ pending'[s] = <<>> /\ done'[s] # <<>> /\ Len(done'[s]) = 1 /\ Head(done'[s]) = n
      /\ \A t \in Session \ {s} : pending'[t] = pending[t] /\ done'[t] = done[t]
  BY <1>5, <1>6, <1>7
<1>9. UNCHANGED <<state, recvBytes, sendBytes, mainSession, refused, wpc, wsession, result,
                  conn, sent>>
  BY <1>3 DEF Complete, workerVars
<1>10. TypeOK'
  <2>1. /\ buf' \in [Session -> [0..BUFSIZE - 1 -> Nat]]
        /\ inbox' \in [Session -> Seq(Nat)] /\ echoed' \in [Session -> Seq(Nat)]
    BY <1>2, CompleteMovesBytes
  <2>2. pending' \in [Session -> Seq(Operation)] /\ done' \in [Session -> Seq(-1..BUFSIZE)]
    BY <1>5, <1>6, <1>7
  <2> QED
    BY <1>1, <1>9, <2>1, <2>2 DEF TypeOK
<1>11. OneHolder'
  <2>1. ASSUME NEW t \in Session, t # s
        PROVE  /\ pending'[t] = pending[t] /\ done'[t] = done[t]
               /\ mainSession' = mainSession /\ wsession' = wsession
    BY <1>8, <1>9, <2>1
  <2>2. /\ pending'[s] = <<>> /\ Len(pending'[s]) <= 1 /\ Len(done'[s]) <= 1
        /\ mainSession' # s /\ \A w \in Worker : wsession'[w] # s
    BY <1>4, <1>6, <1>8, <1>9 DEF Holds
  <2>3. ASSUME NEW t \in Session
        PROVE  (/\ Len(pending[t]) <= 1 /\ Len(done[t]) <= 1
                /\ pending[t] # <<>> => done[t] = <<>>
                /\ mainSession = t => (pending[t] = <<>> /\ done[t] = <<>>)
                /\ \A w \in Worker : Holds(w, t) =>
                     /\ pending[t] = <<>> /\ done[t] = <<>> /\ mainSession # t
                     /\ \A v \in Worker : Holds(v, t) => v = w)'
    <3>1. CASE t = s
      BY <2>2, <3>1, Zenon DEF Holds
    <3>2. CASE t # s
      BY <1>1, <2>1, <3>2 DEF OneHolder, Holds
    <3> QED
      BY <3>1, <3>2
  <2> QED
    BY <2>3 DEF OneHolder
<1>12. NoUseAfterDelete'
  BY <1>1, <1>4, <1>8, <1>9 DEF NoUseAfterDelete, Holds
<1>13. WorkersAreBusy'
  BY <1>1, <1>9 DEF WorkersAreBusy
<1>14. CountsAreRight'
  <2>1. WithinRemaining(s, n)
    <3>1. CASE Received(s, n)
      BY <1>4, <3>1 DEF Received, MatchesCounts, SendOp, WithinRemaining
    <3>2. CASE Transmitted(s, n)
      <4>1. Head(pending[s]) = SendOp(s) /\ n <= Head(pending[s]).len
        BY <1>4, <3>2 DEF Transmitted, MatchesCounts, RecvOp
      <4> QED
        BY <4>1 DEF SendOp, WithinRemaining
    <3>3. CASE n = -1 /\ Failed(s)
      <4>1. recvBytes[s] > 0 => recvBytes[s] - sendBytes[s] >= 1
        <5>1. CASE Head(pending[s]) = RecvOp /\ recvBytes[s] = 0
          BY <5>1
        <5>2. CASE Head(pending[s]) = SendOp(s)
          BY <1>4, <5>2, IOCPAssumption DEF SendOp, Operation
        <5> QED
          BY <1>4, <5>1, <5>2 DEF MatchesCounts
      <4>2. recvBytes[s] \in Int /\ sendBytes[s] \in Int
        BY <1>5
      <4> QED
        BY <3>3, <4>1, <4>2 DEF WithinRemaining
    <3> QED
      BY <1>2, <3>1, <3>2, <3>3
  <2>2. RecvOp' = RecvOp /\ \A t \in Session : SendOp(t)' = SendOp(t)
    BY <1>9 DEF RecvOp, SendOp
  <2> QED
    BY <1>1, <1>8, <1>9, <2>1, <2>2 DEF CountsAreRight, MatchesCounts, WithinRemaining
<1> QED
  BY <1>10, <1>11, <1>12, <1>13, <1>14 DEF IInv

-----------------------------------------------------------------------------
\* A worker takes a completion, and the session with it.
LEMMA GetHolds ==
  ASSUME IInv, NEW s \in Session, NEW w \in Worker, GetQueuedCompletionStatus(w, s)
  PROVE  IInv'
<1>1. TypeOK /\ OneHolder /\ NoUseAfterDelete /\ WorkersAreBusy /\ CountsAreRight
  BY DEF IInv
<1>2. /\ state[s] = "live" /\ mainSession # s /\ pending[s] = <<>>
      /\ Head(done[s]) \in -1..BUFSIZE /\ Tail(done[s]) = <<>>
      /\ WithinRemaining(s, Head(done[s]))
      /\ \A v \in Worker : ~Holds(v, s)
  BY InHands DEF GetQueuedCompletionStatus
<1>3. /\ done \in [Session -> Seq(-1..BUFSIZE)]
      /\ wpc \in [Worker -> {"wait", "delete", "update", "post"}]
      /\ wsession \in [Worker -> Session \cup {NoSession}]
      /\ result \in [Worker -> -1..BUFSIZE]
      /\ NoSession \notin Session
  BY <1>1, IOCPAssumption DEF TypeOK
<1>4. UNCHANGED <<state, buf, recvBytes, sendBytes, mainSession, pending, refused,
                  conn, inbox, sent, echoed>>
  BY DEF GetQueuedCompletionStatus, sessionVars, clientVars
<1>5. done' = [done EXCEPT ![s] = <<>>]
  BY <1>2, <1>3 DEF GetQueuedCompletionStatus
<1>6. /\ done'[s] = <<>> /\ \A t \in Session \ {s} : done'[t] = done[t]
      /\ wsession'[w] = s /\ result'[w] = Head(done[s])
      /\ wpc'[w] = IF Head(done[s]) <= 0 THEN "delete" ELSE "update"
      /\ \A v \in Worker \ {w} :
           wpc'[v] = wpc[v] /\ wsession'[v] = wsession[v] /\ result'[v] = result[v]
  BY <1>3, <1>5 DEF GetQueuedCompletionStatus
<1>7. TypeOK'
  <2>1. done' \in [Session -> Seq(-1..BUFSIZE)]
    BY <1>3, <1>5, EmptySeq
  <2>2. /\ wpc' \in [Worker -> {"wait", "delete", "update", "post"}]
        /\ wsession' \in [Worker -> Session \cup {NoSession}]
        /\ result' \in [Worker -> -1..BUFSIZE]
    BY <1>2, <1>3 DEF GetQueuedCompletionStatus
  <2> QED
    BY <1>1, <1>4, <2>1, <2>2 DEF TypeOK
<1>8. OneHolder'
  <2>1. Len(<<>>) = 0
    BY EmptySeq
  <2> QED
    BY <1>1, <1>2, <1>4, <1>6, <2>1 DEF OneHolder, Holds
<1>9. NoUseAfterDelete'
  BY <1>1, <1>2, <1>4, <1>6 DEF NoUseAfterDelete, Holds
<1>10. WorkersAreBusy'
  BY <1>1, <1>3, <1>6 DEF WorkersAreBusy
<1>11. CountsAreRight'
  <2>1. /\ RecvOp' = RecvOp /\ \A t \in Session : SendOp(t)' = SendOp(t)
        /\ Head(done[s]) \in Int
    BY <1>2, <1>4 DEF RecvOp, SendOp
  <2> QED
    BY <1>1, <1>2, <1>4, <1>6, <2>1 DEF CountsAreRight, MatchesCounts, WithinRemaining
<1> QED
  BY <1>7, <1>8, <1>9, <1>10, <1>11 DEF IInv

\* The one worker that has a session deletes it and lets go of it.
LEMMA DeleteHolds ==
  ASSUME IInv, NEW w \in Worker, deleteSession(w)
  PROVE  IInv'
<1> DEFINE s == wsession[w]
<1>1. TypeOK /\ OneHolder /\ NoUseAfterDelete /\ WorkersAreBusy /\ CountsAreRight
  BY DEF IInv
<1>2. /\ s \in Session /\ mainSession # s /\ pending[s] = <<>> /\ done[s] = <<>>
      /\ \A v \in Worker : Holds(v, s) => v = w
  BY AtWork DEF deleteSession
<1>3. /\ state \in [Session -> {"none", "live", "freed"}]
      /\ wpc \in [Worker -> {"wait", "delete", "update", "post"}]
      /\ wsession \in [Worker -> Session \cup {NoSession}]
      /\ NoSession \notin Session
  BY <1>1, IOCPAssumption DEF TypeOK
<1>4. UNCHANGED <<buf, recvBytes, sendBytes, mainSession, pending, done, refused, result,
                  conn, inbox, sent, echoed>>
  BY DEF deleteSession, portVars, clientVars
<1>5. /\ \A t \in Session \ {s} : state'[t] = state[t]
      /\ wpc'[w] = "wait" /\ wsession'[w] = NoSession
      /\ \A v \in Worker \ {w} : wpc'[v] = wpc[v] /\ wsession'[v] = wsession[v]
  BY <1>2, <1>3 DEF deleteSession
<1>6. TypeOK'
  <2>1. /\ state' \in [Session -> {"none", "live", "freed"}]
        /\ wpc' \in [Worker -> {"wait", "delete", "update", "post"}]
        /\ wsession' \in [Worker -> Session \cup {NoSession}]
    BY <1>2, <1>3 DEF deleteSession
  <2> QED
    BY <1>1, <1>4, <2>1 DEF TypeOK
<1>7. OneHolder'
  BY <1>1, <1>3, <1>4, <1>5 DEF OneHolder, Holds
<1>8. NoUseAfterDelete'
  BY <1>1, <1>2, <1>3, <1>4, <1>5 DEF NoUseAfterDelete, Holds
<1>9. WorkersAreBusy'
  BY <1>1, <1>5 DEF WorkersAreBusy
<1>10. CountsAreRight'
  BY <1>1, <1>4, <1>5 DEF CountsAreRight, MatchesCounts, WithinRemaining, SendOp, RecvOp
<1> QED
  BY <1>6, <1>7, <1>8, <1>9, <1>10 DEF IInv

\* The counts stay within the buffer, for no result exceeds what remains.
LEMMA UpdateHolds ==
  ASSUME IInv, NEW w \in Worker, updateBytes(w)
  PROVE  IInv'
<1> DEFINE s == wsession[w]
<1>1. TypeOK /\ OneHolder /\ NoUseAfterDelete /\ WorkersAreBusy /\ CountsAreRight
  BY DEF IInv
<1>2. /\ s \in Session /\ mainSession # s /\ pending[s] = <<>> /\ done[s] = <<>>
      /\ \A v \in Worker : Holds(v, s) => v = w
  BY AtWork DEF updateBytes
<1>3. /\ recvBytes \in [Session -> 0..BUFSIZE] /\ sendBytes \in [Session -> 0..BUFSIZE]
      /\ wpc \in [Worker -> {"wait", "delete", "update", "post"}]
      /\ BUFSIZE \in Nat /\ NoSession \notin Session
  BY <1>1, IOCPAssumption DEF TypeOK
<1>4. /\ result[w] \in 1..BUFSIZE
      /\ recvBytes[s] > 0 => sendBytes[s] + result[w] \in 0..BUFSIZE
  <2>1. result[w] \in -1..BUFSIZE /\ recvBytes[s] \in 0..BUFSIZE /\ sendBytes[s] \in 0..BUFSIZE
    BY <1>1, <1>2, <1>3 DEF TypeOK
  <2>2. result[w] > 0 /\ WithinRemaining(s, result[w])
    BY <1>1 DEF CountsAreRight, updateBytes
  <2> QED
    BY <1>3, <2>1, <2>2 DEF WithinRemaining
<1>5. /\ UNCHANGED <<state, buf, mainSession, pending, done, refused, wsession, result,
                     conn, inbox, sent, echoed>>
      /\ wpc' = [wpc EXCEPT ![w] = "post"]
  BY DEF updateBytes, portVars, clientVars
<1>6. /\ recvBytes' \in [Session -> 0..BUFSIZE] /\ sendBytes' \in [Session -> 0..BUFSIZE]
      /\ \A t \in Session \ {s} : recvBytes'[t] = recvBytes[t] /\ sendBytes'[t] = sendBytes[t]
  <2>1. CASE recvBytes[s] = 0
    <3>1. /\ recvBytes' = [recvBytes EXCEPT ![s] = result[w]]
          /\ sendBytes' = [sendBytes EXCEPT ![s] = 0]
      BY <2>1 DEF updateBytes
    <3>2. result[w] \in 0..BUFSIZE /\ 0 \in 0..BUFSIZE
      BY <1>3, <1>4
    <3> HIDE DEF s
    <3> QED
      BY <1>2, <1>3, <3>1, <3>2
  <2>2. CASE recvBytes[s] > 0
    <3>1. /\ sendBytes' = [sendBytes EXCEPT ![s] = sendBytes[s] + result[w]]
          /\ recvBytes' = recvBytes
      BY <2>2, <1>3 DEF updateBytes
    <3>2. sendBytes[s] + result[w] \in 0..BUFSIZE
      BY <1>4, <2>2
    <3> HIDE DEF s
    <3> QED
      BY <1>2, <1>3, <3>1, <3>2
  <2>3. recvBytes[s] \in 0..BUFSIZE
    BY <1>2, <1>3
  <2> QED
    BY <1>3, <2>1, <2>2, <2>3
<1>7. TypeOK'
  <2>1. wpc' \in [Worker -> {"wait", "delete", "update", "post"}]
    BY <1>3, <1>5
  <2> QED
    BY <1>1, <1>5, <1>6, <2>1 DEF TypeOK
<1>8. OneHolder' /\ NoUseAfterDelete'
  BY <1>1, <1>5 DEF OneHolder, NoUseAfterDelete, Holds
<1>9. WorkersAreBusy'
  BY <1>1, <1>2, <1>3, <1>5 DEF WorkersAreBusy
<1>10. CountsAreRight'
  <2>1. ASSUME NEW t \in Session
        PROVE  /\ (mainSession = t => recvBytes[t] = 0)'
               /\ (pending[t] # <<>> => MatchesCounts(t, Head(pending[t])))'
               /\ (done[t] # <<>> => WithinRemaining(t, Head(done[t])))'
    <3>1. CASE t = s
      BY <1>2, <1>5, <3>1
    <3>2. CASE t # s
      BY <1>1, <1>5, <1>6, <3>2
         DEF CountsAreRight, MatchesCounts, WithinRemaining, SendOp, RecvOp
    <3> QED
      BY <3>1, <3>2
  <2>2. ASSUME NEW v \in Worker, wpc'[v] = "update"
        PROVE  (result[v] > 0 /\ WithinRemaining(wsession[v], result[v]))'
    <3>1. v # w /\ wpc[v] = "update"
      BY <1>3, <1>5, <2>2
    <3>2. wsession[v] \in Session \ {s}
      BY <1>2, <3>1, AtWork DEF Holds
    <3> QED
      BY <1>1, <1>5, <1>6, <3>1, <3>2 DEF CountsAreRight, WithinRemaining
  <2> QED
    BY <2>1, <2>2 DEF CountsAreRight
<1> QED
  BY <1>7, <1>8, <1>9, <1>10 DEF IInv

\* The worker hands the session to the system, or it is lost to everybody.
LEMMA PostHolds ==
  ASSUME IInv, NEW w \in Worker, postNext(w)
  PROVE  IInv'
<1> PICK s : s = wsession[w]
  OBVIOUS
<1> PICK op : op = IF recvBytes[s] > sendBytes[s] THEN SendOp(s) ELSE RecvOp
  OBVIOUS
<1>1. TypeOK /\ OneHolder /\ NoUseAfterDelete /\ WorkersAreBusy /\ CountsAreRight
  BY DEF IInv
<1>2. /\ s \in Session /\ state[s] = "live" /\ mainSession # s
      /\ pending[s] = <<>> /\ done[s] = <<>>
      /\ \A v \in Worker : Holds(v, s) => v = w
  BY AtWork DEF postNext
<1>3. /\ recvBytes \in [Session -> 0..BUFSIZE] /\ sendBytes \in [Session -> 0..BUFSIZE]
      /\ wpc \in [Worker -> {"wait", "delete", "update", "post"}]
      /\ wsession \in [Worker -> Session \cup {NoSession}]
      /\ pending \in [Session -> Seq(Operation)] /\ refused \subseteq Session
      /\ BUFSIZE \in Nat /\ NoSession \notin Session
  BY <1>1, IOCPAssumption DEF TypeOK
<1>4. op \in Operation
  BY <1>1, <1>2, OperationsAreTyped
<1>5. /\ UNCHANGED <<state, buf, sendBytes, done, mainSession, result,
                     conn, inbox, sent, echoed>>
      /\ wpc' = [wpc EXCEPT ![w] = "wait"]
      /\ wsession' = [wsession EXCEPT ![w] = NoSession]
      /\ Post(s, op)
      /\ recvBytes' = IF recvBytes[s] > sendBytes[s] THEN recvBytes ELSE [recvBytes EXCEPT ![s] = 0]
  BY DEF postNext, Post, clientVars
<1>6. /\ pending' \in [Session -> Seq(Operation)] /\ refused' \subseteq Session
      /\ pending'[s] # <<>> => Head(pending'[s]) = op
      /\ Len(pending'[s]) <= 1
      /\ \A t \in Session \ {s} : pending'[t] = pending[t]
  <2>1. /\ Append(<<>>, op) \in Seq(Operation)
        /\ Len(Append(<<>>, op)) = 1 /\ Head(Append(<<>>, op)) = op
        /\ Len(<<>>) = 0
    BY <1>4, FirstOfQueue, EmptySeq
  <2>2. CASE pending' = [pending EXCEPT ![s] = Append(<<>>, op)] /\ UNCHANGED refused
    BY <1>2, <1>3, <2>1, <2>2
  <2>3. CASE UNCHANGED pending /\ refused' = refused \cup {s}
    BY <1>2, <1>3, <2>1, <2>3
  <2> QED
    BY <1>2, <1>5, <2>2, <2>3 DEF Post
<1>7. /\ recvBytes' \in [Session -> 0..BUFSIZE]
      /\ recvBytes[s] > sendBytes[s] => recvBytes'[s] = recvBytes[s]
      /\ ~(recvBytes[s] > sendBytes[s]) => recvBytes'[s] = 0
      /\ \A t \in Session \ {s} : recvBytes'[t] = recvBytes[t]
  BY <1>2, <1>3, <1>5
<1>8. /\ wpc'[w] = "wait" /\ wsession'[w] = NoSession
      /\ \A v \in Worker \ {w} : wpc'[v] = wpc[v] /\ wsession'[v] = wsession[v]
  BY <1>3, <1>5
<1>9. TypeOK'
  <2>1. /\ wpc' \in [Worker -> {"wait", "delete", "update", "post"}]
        /\ wsession' \in [Worker -> Session \cup {NoSession}]
    BY <1>3, <1>5
  <2> QED
    BY <1>1, <1>5, <1>6, <1>7, <2>1 DEF TypeOK
<1>10. OneHolder'
  BY <1>1, <1>2, <1>3, <1>5, <1>6, <1>8 DEF OneHolder, Holds
<1>11. NoUseAfterDelete'
  BY <1>1, <1>2, <1>3, <1>5, <1>6, <1>8 DEF NoUseAfterDelete, Holds
<1>12. WorkersAreBusy'
  BY <1>1, <1>8 DEF WorkersAreBusy
<1>13. CountsAreRight'
  <2>1. RecvOp' = RecvOp /\ \A t \in Session \ {s} : SendOp(t)' = SendOp(t)
    BY <1>5, <1>7 DEF RecvOp, SendOp
  <2>2. MatchesCounts(s, op)'
    <3>1. CASE recvBytes[s] > sendBytes[s]
      <4>1. op = SendOp(s) /\ recvBytes'[s] = recvBytes[s]
        BY <1>7, <3>1
      <4>2. SendOp(s)' = SendOp(s) /\ recvBytes[s] > 0
        BY <1>2, <1>3, <1>5, <3>1, <4>1 DEF SendOp
      <4> QED
        BY <4>1, <4>2 DEF MatchesCounts
    <3>2. CASE ~(recvBytes[s] > sendBytes[s])
      BY <1>7, <2>1, <3>2 DEF MatchesCounts
    <3> QED
      BY <3>1, <3>2
  <2>3. ASSUME NEW t \in Session
        PROVE  /\ (mainSession = t => recvBytes[t] = 0)'
               /\ (pending[t] # <<>> => MatchesCounts(t, Head(pending[t])))'
               /\ (done[t] # <<>> => WithinRemaining(t, Head(done[t])))'
    <3>1. CASE t = s
      BY <1>2, <1>5, <1>6, <2>2, <3>1 DEF MatchesCounts
    <3>2. CASE t # s
      BY <1>1, <1>5, <1>6, <1>7, <2>1, <3>2 DEF CountsAreRight, MatchesCounts, WithinRemaining
    <3> QED
      BY <3>1, <3>2
  <2>4. ASSUME NEW v \in Worker, wpc'[v] = "update"
        PROVE  (result[v] > 0 /\ WithinRemaining(wsession[v], result[v]))'
    <3>1. v # w /\ wpc[v] = "update" /\ wsession'[v] = wsession[v]
      BY <1>8, <2>4
    <3>2. wsession[v] \in Session \ {s}
      BY <1>2, <3>1, AtWork DEF Holds
    <3> QED
      BY <1>1, <1>5, <1>7, <3>1, <3>2 DEF CountsAreRight, WithinRemaining
  <2> QED
    BY <2>3, <2>4 DEF CountsAreRight
<1> QED
  BY <1>9, <1>10, <1>11, <1>12, <1>13 DEF IInv

-----------------------------------------------------------------------------
\* The invariant holds in every reachable state, whatever the fairness.
LEMMA InvariantHolds == Spec => []IInv
<1>1. IInv /\ [Next]_vars => IInv'
  <2> SUFFICES ASSUME IInv, [Next]_vars PROVE IInv'
    OBVIOUS
  <2>1. CASE \E s \in Session : accept(s)
    BY <2>1, AcceptHolds
  <2>2. CASE firstRecv
    BY <2>2, FirstRecvHolds
  <2>3. CASE \E s \in Session : \/ ClientSend(s)
                                \/ \E how \in {"closed", "reset"} : ClientLeave(s, how)
    BY <2>3, ClientHolds
  <2>4. CASE \E s \in Session : SystemCompletes(s)
    BY <2>4, CompleteHolds
  <2>5. CASE \E s \in Session, w \in Worker : GetQueuedCompletionStatus(w, s)
    BY <2>5, GetHolds
  <2>6. CASE \E w \in Worker : Continue(w)
    BY <2>6, DeleteHolds, UpdateHolds, PostHolds DEF Continue
  <2>7. CASE UNCHANGED vars
    <3>1. UNCHANGED <<state, buf, recvBytes, sendBytes, mainSession, pending, done, refused,
                      wpc, wsession, result, conn, inbox, sent, echoed>>
      BY <2>7 DEF vars, sessionVars, portVars, workerVars, clientVars
    <3>2. TypeOK' /\ OneHolder' /\ NoUseAfterDelete' /\ WorkersAreBusy'
      BY <3>1 DEF IInv, TypeOK, OneHolder, NoUseAfterDelete, WorkersAreBusy, Holds
    <3>3. CountsAreRight'
      BY <3>1 DEF IInv, CountsAreRight, MatchesCounts, WithinRemaining, SendOp, RecvOp
    <3> QED
      BY <3>2, <3>3 DEF IInv
  <2> QED
    BY <2>1, <2>2, <2>3, <2>4, <2>5, <2>6, <2>7 DEF Next
<1> QED
  BY <1>1, InitHolds, PTL DEF Spec

\* Every variable keeps its type; the counts never exceed the buffer.
THEOREM ServerTypeCorrect == Spec => []TypeOK
<1>1. IInv => TypeOK
  BY DEF IInv
<1> QED
  BY <1>1, InvariantHolds, PTL

\* A session is never in two pairs of hands: no two workers, nor a worker and a
\* pending operation, ever work on it together.
THEOREM OneHolderAtATime == Spec => []OneHolder
<1>1. IInv => OneHolder
  BY DEF IInv
<1> QED
  BY <1>1, InvariantHolds, PTL

\* No worker and no operation touches a session that was deleted.
THEOREM NeverUsedAfterDelete == Spec => []NoUseAfterDelete
<1>1. IInv => NoUseAfterDelete
  BY DEF IInv
<1> QED
  BY <1>1, InvariantHolds, PTL

-----------------------------------------------------------------------------
(* What is echoed.  The count of what was echoed follows from what was       *)
(* received and from how much of the last receive is still to be sent, and   *)
(* buf holds just that receive.  A reset loses what the socket held, and     *)
(* nothing is transmitted after it.                                          *)
\* What the server has received of a client's stream.
Got(s) == sent[s] - Len(inbox[s])

\* The socket's buffer holds what the client sent last.
InboxIsTheRest(s) ==
  /\ Len(inbox[s]) <= sent[s]
  /\ \A k \in 1..Len(inbox[s]) : inbox[s][k] = Got(s) + k

\* The last r bytes received are at the start of buf, and x of them are echoed.
Echoing(s, r, x) ==
  /\ Len(echoed[s]) = Got(s) - r + x
  /\ \A i \in 0..BUFSIZE - 1 : i < r => buf[s][i] = Got(s) - r + i + 1

\* The same of a session whose operation ended with n bytes.
EchoingAfter(s, n) ==
  IF recvBytes[s] = 0 THEN Echoing(s, n, 0) ELSE Echoing(s, recvBytes[s], sendBytes[s] + n)

EchoIsOnTheWay(s) ==
  /\ InboxIsTheRest(s)
  /\ mainSession = s => Echoing(s, 0, 0)
  /\ pending[s] # <<>> => Echoing(s, recvBytes[s], IF recvBytes[s] = 0 THEN 0 ELSE sendBytes[s])
  /\ done[s] # <<>> /\ Head(done[s]) > 0 => EchoingAfter(s, Head(done[s]))
  /\ \A w \in Worker : Holds(w, s) =>
       /\ wpc[w] = "update" => EchoingAfter(s, result[w])
       /\ wpc[w] = "post" => Echoing(s, recvBytes[s], sendBytes[s])

NothingBeforeAccept(s) ==
  /\ conn[s] = "none" /\ inbox[s] = <<>> /\ sent[s] = 0 /\ echoed[s] = <<>>

EchoInv ==
  /\ EchoIsAPrefix
  /\ \A s \in Session : /\ state[s] = "none" => NothingBeforeAccept(s)
                        /\ conn[s] # "reset" => EchoIsOnTheWay(s)
  /\ \A w \in Worker : wpc[w] = "post" => sendBytes[wsession[w]] <= recvBytes[wsession[w]]

-----------------------------------------------------------------------------
\* The numbers that Echoing relates.
LEMMA EchoNumbers ==
  ASSUME IInv, NEW s \in Session
  PROVE  /\ sent[s] \in Nat /\ Len(inbox[s]) \in Nat /\ Len(echoed[s]) \in Nat
         /\ Got(s) \in Int
         /\ recvBytes[s] \in 0..BUFSIZE /\ sendBytes[s] \in 0..BUFSIZE
         /\ BUFSIZE \in Nat /\ MaxBytes \in Nat
<1>1. /\ sent \in [Session -> 0..MaxBytes] /\ inbox \in [Session -> Seq(Nat)]
      /\ echoed \in [Session -> Seq(Nat)]
      /\ recvBytes \in [Session -> 0..BUFSIZE] /\ sendBytes \in [Session -> 0..BUFSIZE]
      /\ BUFSIZE \in Nat /\ MaxBytes \in Nat
  BY IOCPAssumption DEF IInv, TypeOK
<1>2. Len(inbox[s]) \in Nat /\ Len(echoed[s]) \in Nat
  BY <1>1, LenProperties
<1> QED
  BY <1>1, <1>2 DEF Got

\* Whose hands the session is in may change, if its fields and streams do not.
LEMMA EchoUntouched ==
  ASSUME NEW s \in Session, EchoIsOnTheWay(s),
         /\ inbox'[s] = inbox[s] /\ sent'[s] = sent[s] /\ echoed'[s] = echoed[s]
         /\ buf'[s] = buf[s] /\ recvBytes'[s] = recvBytes[s] /\ sendBytes'[s] = sendBytes[s],
         mainSession' = s => mainSession = s,
         pending'[s] # <<>> => pending[s] # <<>>,
         done'[s] # <<>> => done'[s] = done[s],
         \A w \in Worker : wsession'[w] = s =>
            wsession[w] = s /\ wpc'[w] = wpc[w] /\ result'[w] = result[w]
  PROVE  EchoIsOnTheWay(s)'
<1>1. Got(s)' = Got(s)
  BY DEF Got
<1>2. InboxIsTheRest(s)'
  BY <1>1 DEF EchoIsOnTheWay, InboxIsTheRest
<1>3. \A r, x : Echoing(s, r, x) => Echoing(s, r, x)'
  BY <1>1 DEF Echoing
<1>4. \A n : EchoingAfter(s, n) => EchoingAfter(s, n)'
  BY <1>3 DEF EchoingAfter
<1> QED
  BY <1>2, <1>3, <1>4 DEF EchoIsOnTheWay, Holds

\* At the start nothing is on any way.
LEMMA InitEchoes == Init => EchoInv
<1> SUFFICES ASSUME Init PROVE EchoInv
  OBVIOUS
<1> USE IOCPAssumption DEF Init
<1>1. EchoIsAPrefix
  BY DEF EchoIsAPrefix
<1>2. ASSUME NEW s \in Session
      PROVE  NothingBeforeAccept(s) /\ EchoIsOnTheWay(s)
  <2>1. NothingBeforeAccept(s)
    BY DEF NothingBeforeAccept
  <2>2. InboxIsTheRest(s)
    BY DEF InboxIsTheRest
  <2> QED
    BY <2>1, <2>2 DEF EchoIsOnTheWay, Holds
<1> QED
  BY <1>1, <1>2 DEF EchoInv

\* A new session's streams are empty.
LEMMA AcceptEchoes ==
  ASSUME IInv, EchoInv, NEW s \in Session, accept(s)
  PROVE  EchoInv'
<1>1. /\ state' = [state EXCEPT ![s] = "live"] /\ state[s] = "none" /\ mainSession' = s
      /\ recvBytes' = [recvBytes EXCEPT ![s] = 0] /\ sendBytes' = [sendBytes EXCEPT ![s] = 0]
      /\ conn' = [conn EXCEPT ![s] = "open"] /\ mainSession = NoSession
      /\ UNCHANGED <<buf, pending, done, refused, wpc, wsession, result, inbox, sent, echoed>>
  BY DEF accept, portVars, workerVars
<1>2. /\ state \in [Session -> {"none", "live", "freed"}]
      /\ recvBytes \in [Session -> 0..BUFSIZE] /\ sendBytes \in [Session -> 0..BUFSIZE]
      /\ conn \in [Session -> {"none", "open", "closed", "reset"}]
      /\ BUFSIZE \in Nat /\ NoSession \notin Session
  BY IOCPAssumption DEF IInv, TypeOK
<1>3. EchoIsAPrefix'
  BY <1>1 DEF EchoInv, EchoIsAPrefix
<1>4. /\ pending[s] = <<>> /\ done[s] = <<>> /\ \A w \in Worker : wsession[w] # s
      /\ NothingBeforeAccept(s)
  BY <1>1 DEF IInv, NoUseAfterDelete, Holds, EchoInv
<1>5. EchoIsOnTheWay(s)'
  <2>1. /\ inbox'[s] = <<>> /\ sent'[s] = 0 /\ echoed'[s] = <<>>
        /\ pending'[s] = <<>> /\ done'[s] = <<>> /\ \A w \in Worker : wsession'[w] # s
    BY <1>1, <1>4 DEF NothingBeforeAccept
  <2>2. InboxIsTheRest(s)'
    BY <2>1 DEF InboxIsTheRest
  <2>3. Echoing(s, 0, 0)'
    <3>1. \A i \in 0..BUFSIZE - 1 : ~(i < 0)
      BY <1>2
    <3>2. Len(<<>>) = 0
      OBVIOUS
    <3>3. Len(echoed'[s]) = 0 /\ Len(inbox'[s]) = 0 /\ sent'[s] = 0
      BY <2>1, <3>2, Zenon
    <3>4. Got(s)' = 0
      BY <3>3 DEF Got
    <3> QED
      BY <3>1, <3>3, <3>4 DEF Echoing
  <2> QED
    BY <2>1, <2>2, <2>3 DEF EchoIsOnTheWay, Holds
<1>6. ASSUME NEW t \in Session, t # s
      PROVE  /\ state'[t] = "none" => NothingBeforeAccept(t)'
             /\ conn'[t] # "reset" => EchoIsOnTheWay(t)'
  <2>1. /\ state'[t] = state[t] /\ conn'[t] = conn[t]
        /\ recvBytes'[t] = recvBytes[t] /\ sendBytes'[t] = sendBytes[t] /\ mainSession' # t
    BY <1>1, <1>2, <1>6
  <2>2. state'[t] = "none" => NothingBeforeAccept(t)'
    BY <1>1, <2>1 DEF EchoInv, NothingBeforeAccept
  <2>3. conn'[t] # "reset" => EchoIsOnTheWay(t)'
    <3> SUFFICES ASSUME EchoIsOnTheWay(t) PROVE EchoIsOnTheWay(t)'
      BY <2>1 DEF EchoInv
    <3> QED
      BY <1>1, <2>1, EchoUntouched
  <2> QED
    BY <2>2, <2>3
<1>7. \A w \in Worker : wpc'[w] = "post" =>
        sendBytes'[wsession'[w]] <= recvBytes'[wsession'[w]]
  <2> SUFFICES ASSUME NEW w \in Worker, wpc[w] = "post"
               PROVE  sendBytes'[wsession[w]] <= recvBytes'[wsession[w]]
    BY <1>1
  <2>1. wsession[w] \in Session /\ wsession[w] # s
    BY <1>4, AtWork
  <2> QED
    BY <1>1, <1>2, <2>1 DEF EchoInv
<1>8. state'[s] # "none"
  BY <1>1, <1>2
<1> QED
  BY <1>3, <1>5, <1>6, <1>7, <1>8 DEF EchoInv

\* main posts the receive of a session of which nothing is under way.
LEMMA FirstRecvEchoes ==
  ASSUME IInv, EchoInv, firstRecv
  PROVE  EchoInv'
<1> PICK s : s = mainSession
  OBVIOUS
<1>1. /\ Post(s, RecvOp) /\ mainSession' = NoSession
      /\ UNCHANGED <<state, buf, recvBytes, sendBytes, done, wpc, wsession, result,
                     conn, inbox, sent, echoed>>
  BY DEF firstRecv, Post, sessionVars, workerVars, clientVars
<1>2. /\ s \in Session /\ NoSession \notin Session /\ recvBytes[s] = 0
      /\ pending \in [Session -> Seq(Operation)] /\ pending[s] = <<>> /\ done[s] = <<>>
      /\ \A w \in Worker : wsession[w] # s
  <2>1. mainSession \in Session
    BY DEF IInv, TypeOK, firstRecv
  <2> QED
    BY <2>1, IOCPAssumption, InHands DEF IInv, TypeOK, Holds
<1>3. \A t \in Session \ {s} : pending'[t] = pending[t]
  BY <1>1, <1>2 DEF Post
<1>4. ASSUME NEW t \in Session, EchoIsOnTheWay(t)
      PROVE  EchoIsOnTheWay(t)'
  <2>1. CASE t = s
    <3>1. /\ InboxIsTheRest(s)' /\ Echoing(s, 0, 0)'
      BY <1>1, <1>4, <2>1 DEF EchoIsOnTheWay, InboxIsTheRest, Echoing, Got
    <3>2. recvBytes'[s] = 0 /\ done'[s] = <<>> /\ mainSession' # s
          /\ \A w \in Worker : wsession'[w] # s
      BY <1>1, <1>2
    <3> QED
      BY <2>1, <3>1, <3>2 DEF EchoIsOnTheWay, Holds
  <2>2. CASE t # s
    BY <1>1, <1>2, <1>3, <1>4, <2>2, EchoUntouched
  <2> QED
    BY <2>1, <2>2
<1>5. EchoIsAPrefix'
  BY <1>1 DEF EchoInv, EchoIsAPrefix
<1> QED
  BY <1>1, <1>4, <1>5 DEF EchoInv, NothingBeforeAccept

\* What a client sends goes behind the rest; a reset client is not echoed to.
LEMMA ClientSendEchoes ==
  ASSUME IInv, EchoInv, NEW s \in Session, ClientSend(s)
  PROVE  EchoInv'
<1>1. /\ sent' = [sent EXCEPT ![s] = sent[s] + 1] /\ conn[s] = "open"
      /\ inbox' = [inbox EXCEPT ![s] = Append(inbox[s], sent[s] + 1)]
      /\ UNCHANGED <<state, buf, recvBytes, sendBytes, mainSession, pending, done, refused,
                     wpc, wsession, result, conn, echoed>>
  BY DEF ClientSend, sessionVars, portVars, workerVars
<1>2. /\ sent \in [Session -> 0..MaxBytes] /\ inbox \in [Session -> Seq(Nat)]
      /\ sent[s] \in Nat /\ inbox[s] \in Seq(Nat) /\ Len(inbox[s]) \in Nat
      /\ Len(echoed[s]) \in Nat
  BY EchoNumbers DEF IInv, TypeOK
<1>3. /\ sent'[s] = sent[s] + 1 /\ Len(inbox'[s]) = Len(inbox[s]) + 1
      /\ \A k \in 1..Len(inbox[s]) : inbox'[s][k] = inbox[s][k]
      /\ inbox'[s][Len(inbox[s]) + 1] = sent[s] + 1
  <2>1. inbox'[s] = Append(inbox[s], sent[s] + 1) /\ sent'[s] = sent[s] + 1
    BY <1>1, <1>2
  <2>2. sent[s] + 1 \in Nat
    BY <1>2
  <2> QED
    BY <1>2, <2>1, <2>2, AppendProperties
<1>4. Got(s)' = Got(s)
  BY <1>2, <1>3 DEF Got
<1>5. InboxIsTheRest(s) => InboxIsTheRest(s)'
  <2> SUFFICES ASSUME InboxIsTheRest(s), NEW k \in 1..Len(inbox[s]) + 1
               PROVE  /\ Len(inbox[s]) + 1 <= sent[s] + 1
                      /\ inbox'[s][k] = Got(s) + k
    BY <1>3, <1>4 DEF InboxIsTheRest
  <2>1. Len(inbox[s]) <= sent[s]
    BY DEF InboxIsTheRest
  <2>2. CASE k = Len(inbox[s]) + 1
    <3>1. inbox'[s][k] = sent[s] + 1
      BY <1>3, <2>2
    <3>2. Got(s) + k = sent[s] + 1
      BY <1>2, <2>2 DEF Got
    <3> QED
      BY <1>2, <2>1, <3>1, <3>2
  <2>3. CASE k \in 1..Len(inbox[s])
    BY <1>2, <1>3, <2>1, <2>3 DEF InboxIsTheRest
  <2> QED
    BY <1>2, <2>2, <2>3
<1>6. ASSUME NEW t \in Session, EchoIsOnTheWay(t)
      PROVE  EchoIsOnTheWay(t)'
  <2>1. CASE t = s
    <3>1. InboxIsTheRest(s)'
      BY <1>5, <1>6, <2>1 DEF EchoIsOnTheWay
    <3>2. \A r, x : Echoing(s, r, x) => Echoing(s, r, x)'
      BY <1>1, <1>4 DEF Echoing
    <3>3. \A n : EchoingAfter(s, n) => EchoingAfter(s, n)'
      BY <1>1, <3>2 DEF EchoingAfter
    <3> QED
      BY <1>1, <1>6, <2>1, <3>1, <3>2, <3>3 DEF EchoIsOnTheWay, Holds
  <2>2. CASE t # s
    <3>1. inbox'[t] = inbox[t] /\ sent'[t] = sent[t]
      BY <1>1, <1>2, <2>2
    <3> QED
      BY <1>1, <1>6, <3>1, EchoUntouched
  <2> QED
    BY <2>1, <2>2
<1>7. EchoIsAPrefix'
  <2> SUFFICES ASSUME NEW t \in Session, NEW k \in DOMAIN echoed[t]
               PROVE  echoed[t][k] = k /\ k <= sent'[t]
    BY <1>1 DEF EchoIsAPrefix
  <2>1. echoed[t][k] = k /\ k <= sent[t]
    BY DEF EchoInv, EchoIsAPrefix
  <2>2. echoed[t] \in Seq(Nat)
    BY DEF IInv, TypeOK
  <2>3. k \in Int
    BY <2>2, LenProperties
  <2>4. sent'[t] >= sent[t] /\ sent[t] \in Int /\ sent'[t] \in Int
    BY <1>1, <1>2
  <2> QED
    BY <2>1, <2>3, <2>4
<1>8. ASSUME NEW t \in Session, state'[t] = "none"
      PROVE  NothingBeforeAccept(t)'
  <2>1. t # s /\ NothingBeforeAccept(t)
    BY <1>1, <1>8 DEF EchoInv, NothingBeforeAccept
  <2> QED
    BY <1>1, <1>2, <2>1 DEF NothingBeforeAccept
<1> QED
  BY <1>1, <1>6, <1>7, <1>8 DEF EchoInv

LEMMA ClientLeaveEchoes ==
  ASSUME IInv, EchoInv, NEW s \in Session, NEW how \in {"closed", "reset"},
         ClientLeave(s, how)
  PROVE  EchoInv'
<1>1. /\ conn' = [conn EXCEPT ![s] = how] /\ conn[s] = "open"
      /\ inbox' = [inbox EXCEPT ![s] = IF how = "reset" THEN <<>> ELSE inbox[s]]
      /\ UNCHANGED <<state, buf, recvBytes, sendBytes, mainSession, pending, done, refused,
                     wpc, wsession, result, sent, echoed>>
  BY DEF ClientLeave, sessionVars, portVars, workerVars
<1>2. /\ conn \in [Session -> {"none", "open", "closed", "reset"}]
      /\ inbox \in [Session -> Seq(Nat)]
  BY DEF IInv, TypeOK
<1>3. EchoIsAPrefix'
  BY <1>1 DEF EchoInv, EchoIsAPrefix
<1>4. ASSUME NEW t \in Session, conn'[t] # "reset"
      PROVE  EchoIsOnTheWay(t)'
  <2>1. conn[t] # "reset" /\ inbox'[t] = inbox[t]
    BY <1>1, <1>2, <1>4
  <2>2. EchoIsOnTheWay(t)
    BY <2>1 DEF EchoInv
  <2> QED
    BY <1>1, <2>1, <2>2, EchoUntouched
<1>5. ASSUME NEW t \in Session, state'[t] = "none"
      PROVE  NothingBeforeAccept(t)'
  <2>1. t # s /\ NothingBeforeAccept(t)
    BY <1>1, <1>5 DEF EchoInv, NothingBeforeAccept
  <2> QED
    BY <1>1, <1>2, <2>1 DEF NothingBeforeAccept
<1> QED
  BY <1>1, <1>3, <1>4, <1>5 DEF EchoInv

\* A receive moves the first bytes of the rest to the start of buf, a send
\* echoes the next of those in buf.
LEMMA ReceivedEchoes ==
  ASSUME IInv, EchoInv, NEW s \in Session, NEW n \in 0..BUFSIZE, Received(s, n)
  PROVE  /\ InboxIsTheRest(s)'
         /\ n > 0 => EchoingAfter(s, n)'
         /\ echoed' = echoed
<1>1. /\ pending[s] # <<>> /\ conn[s] # "reset" /\ n <= Len(inbox[s])
      /\ Head(pending[s]).kind = "recv"
      /\ UNCHANGED <<recvBytes, sendBytes, echoed, sent>>
  BY DEF Received, Complete
<1>2. Head(pending[s]) = RecvOp /\ recvBytes[s] = 0
  <2>1. MatchesCounts(s, Head(pending[s]))
    BY <1>1, InHands
  <2>2. SendOp(s).kind # "recv"
    BY DEF SendOp
  <2> QED
    BY <1>1, <2>1, <2>2 DEF MatchesCounts
<1>3. /\ Len(inbox[s]) \in Nat /\ BUFSIZE \in Nat /\ n \in Nat
      /\ sent[s] \in Nat /\ Len(echoed[s]) \in Nat
  BY EchoNumbers
<1>t. /\ inbox \in [Session -> Seq(Nat)] /\ buf \in [Session -> [0..BUFSIZE - 1 -> Nat]]
      /\ inbox[s] \in Seq(Nat)
  BY DEF IInv, TypeOK
<1>4. buf'[s] = [i \in 0..BUFSIZE - 1 |->
                   IF i - 0 \in 0..n - 1 THEN inbox[s][i - 0 + 1] ELSE buf[s][i]]
  <2>1. Head(pending[s]).from = 0
    BY <1>2 DEF RecvOp
  <2> QED
    BY <1>t, <2>1 DEF Received
<1>5. inbox'[s] = SubSeq(inbox[s], n + 1, Len(inbox[s]))
  BY <1>t DEF Received
<1>6. /\ Len(inbox'[s]) = Len(inbox[s]) - n
      /\ \A k \in 1..Len(inbox[s]) - n : inbox'[s][k] = inbox[s][n + k]
  <2>1. \A k \in n + 1..Len(inbox[s]) : inbox[s][k] \in Nat
    BY <1>3, <1>t, ElementOfSeq
  <2>2. /\ Len(inbox'[s]) = IF n + 1 <= Len(inbox[s]) THEN Len(inbox[s]) - (n + 1) + 1 ELSE 0
        /\ \A k \in 1..Len(inbox[s]) - (n + 1) + 1 : inbox'[s][k] = inbox[s][n + 1 + k - 1]
    BY <1>3, <1>5, <2>1, SubSeqProperties
  <2>3. Len(inbox[s]) - (n + 1) + 1 = Len(inbox[s]) - n
    BY <1>3
  <2>4. \A k \in 1..Len(inbox[s]) - n : n + 1 + k - 1 = n + k
    BY <1>3
  <2> QED
    BY <1>1, <1>3, <2>2, <2>3, <2>4
<1>7. Got(s)' = Got(s) + n /\ Got(s) \in Int
  BY <1>1, <1>3, <1>6 DEF Got
<1>8. EchoIsOnTheWay(s)
  BY <1>1 DEF EchoInv
<1>9. InboxIsTheRest(s)'
  <2> SUFFICES ASSUME NEW k \in 1..Len(inbox[s]) - n
               PROVE  /\ Len(inbox[s]) - n <= sent[s]
                      /\ inbox[s][n + k] = Got(s) + n + k
    BY <1>1, <1>3, <1>6, <1>7, <1>8 DEF InboxIsTheRest, EchoIsOnTheWay
  <2>1. Len(inbox[s]) <= sent[s]
    BY <1>8 DEF EchoIsOnTheWay, InboxIsTheRest
  <2>2. n + k \in 1..Len(inbox[s])
    BY <1>3
  <2>3. inbox[s][n + k] = Got(s) + (n + k)
    BY <1>8, <2>2 DEF EchoIsOnTheWay, InboxIsTheRest
  <2> QED
    BY <1>3, <1>7, <2>1, <2>3
<1>10. ASSUME n > 0
       PROVE  EchoingAfter(s, n)'
  <2>1. Len(echoed[s]) = Got(s) - 0 + 0
    BY <1>1, <1>2, <1>8 DEF EchoIsOnTheWay, Echoing
  <2>2. Len(echoed'[s]) = Got(s)' - n + 0
    BY <1>1, <1>3, <1>7, <2>1
  <2>3. ASSUME NEW i \in 0..BUFSIZE - 1, i < n
        PROVE  buf'[s][i] = Got(s)' - n + i + 1
    <3>1. i - 0 \in 0..n - 1 /\ i - 0 + 1 = i + 1 /\ i + 1 \in 1..Len(inbox[s])
      BY <1>1, <1>3, <2>3
    <3>2. buf'[s][i] = inbox[s][i + 1]
      BY <1>4, <3>1
    <3>3. inbox[s][i + 1] = Got(s) + (i + 1)
      BY <1>8, <3>1 DEF EchoIsOnTheWay, InboxIsTheRest
    <3> QED
      BY <1>3, <1>7, <3>2, <3>3
  <2>4. Echoing(s, n, 0)'
    BY <2>2, <2>3 DEF Echoing
  <2> QED
    BY <1>1, <1>2, <2>4 DEF EchoingAfter
<1> QED
  BY <1>1, <1>9, <1>10

LEMMA TransmittedEchoes ==
  ASSUME IInv, EchoInv, NEW s \in Session, NEW n \in 0..BUFSIZE, Transmitted(s, n)
  PROVE  /\ InboxIsTheRest(s)'
         /\ EchoingAfter(s, n)'
         /\ \A k \in DOMAIN echoed'[s] : echoed'[s][k] = k /\ k <= sent'[s]
         /\ \A t \in Session \ {s} : echoed'[t] = echoed[t]
<1> DEFINE op == Head(pending[s])
           new == [i \in 1..n |-> buf[s][op.from + i - 1]]
<1>1. /\ pending[s] # <<>> /\ conn[s] # "reset" /\ n \in 1..op.len /\ op.kind = "send"
      /\ echoed' = [echoed EXCEPT ![s] = echoed[s] \o new]
      /\ UNCHANGED <<recvBytes, sendBytes, buf, inbox, sent>>
  BY DEF Transmitted, Complete
<1>2. op = SendOp(s) /\ recvBytes[s] > 0
  BY <1>1, InHands DEF MatchesCounts, RecvOp
<1>3. /\ Len(inbox[s]) \in Nat /\ BUFSIZE \in Nat
      /\ sent[s] \in Nat /\ Len(echoed[s]) \in Nat
      /\ recvBytes[s] \in 0..BUFSIZE /\ sendBytes[s] \in 0..BUFSIZE /\ Got(s) \in Int
  BY EchoNumbers
<1>t. /\ echoed \in [Session -> Seq(Nat)] /\ buf \in [Session -> [0..BUFSIZE - 1 -> Nat]]
      /\ echoed[s] \in Seq(Nat)
  BY DEF IInv, TypeOK
<1>4. /\ op.from = sendBytes[s] /\ n \in Nat /\ n >= 1
      /\ n <= recvBytes[s] - sendBytes[s]
  BY <1>1, <1>2, <1>3 DEF SendOp
<1>5. EchoIsOnTheWay(s)
  BY <1>1 DEF EchoInv
<1>6. /\ Len(echoed[s]) = Got(s) - recvBytes[s] + sendBytes[s]
      /\ \A i \in 0..BUFSIZE - 1 : i < recvBytes[s] => buf[s][i] = Got(s) - recvBytes[s] + i + 1
  BY <1>1, <1>2, <1>3, <1>5 DEF EchoIsOnTheWay, Echoing
<1>7. \A i \in 1..n : new[i] = Len(echoed[s]) + i
  <2> SUFFICES ASSUME NEW i \in 1..n
               PROVE  buf[s][sendBytes[s] + i - 1] = Len(echoed[s]) + i
    BY <1>4
  <2>1. sendBytes[s] + i - 1 \in 0..BUFSIZE - 1 /\ sendBytes[s] + i - 1 < recvBytes[s]
    BY <1>3, <1>4
  <2>2. buf[s][sendBytes[s] + i - 1] = Got(s) - recvBytes[s] + (sendBytes[s] + i - 1) + 1
    BY <1>6, <2>1
  <2> QED
    BY <1>3, <1>4, <1>6, <2>2, SMTT(60)
<1>8. new \in Seq(Nat) /\ Len(new) = n
  <2>1. \A i \in 1..n : Len(echoed[s]) + i \in Nat
    BY <1>3
  <2>2. \A i \in 1..n : new[i] \in Nat
    BY <1>7, <2>1
  <2> HIDE DEF op
  <2>3. new \in Seq(Nat)
    BY <1>4, <2>2, IsASeq
  <2>4. DOMAIN new = 1..n
    OBVIOUS
  <2> QED
    BY <1>4, <2>3, <2>4, LenProperties
<1> HIDE DEF new, op
<1>9. /\ Len(echoed'[s]) = Len(echoed[s]) + n
      /\ \A k \in 1..Len(echoed[s]) : echoed'[s][k] = echoed[s][k]
      /\ \A i \in 1..n : echoed'[s][Len(echoed[s]) + i] = new[i]
      /\ DOMAIN echoed'[s] = 1..Len(echoed[s]) + n
  <2>1. echoed'[s] = echoed[s] \o new
    BY <1>1, <1>t
  <2>2. echoed'[s] \in Seq(Nat) /\ Len(echoed'[s]) = Len(echoed[s]) + n
    BY <1>t, <1>8, <2>1, ConcatProperties, ZenonT(60)
  <2>3. \A i \in 1..n : /\ Len(echoed[s]) + i \in 1..Len(echoed[s]) + n
                        /\ Len(echoed[s]) + i > Len(echoed[s])
                        /\ Len(echoed[s]) + i - Len(echoed[s]) = i
    BY <1>3, <1>4
  <2>4. \A k \in 1..Len(echoed[s]) : k \in 1..Len(echoed[s]) + n
    BY <1>3, <1>4
  <2> QED
    BY <1>3, <1>t, <1>8, <2>1, <2>2, <2>3, <2>4, ConcatProperties, LenProperties, SMTT(60)
<1>10. Got(s)' = Got(s)
  BY <1>1 DEF Got
<1>11. InboxIsTheRest(s)'
  BY <1>1, <1>5, <1>10 DEF EchoIsOnTheWay, InboxIsTheRest
<1>12. EchoingAfter(s, n)'
  <2>1. Len(echoed'[s]) = Got(s)' - recvBytes[s] + (sendBytes[s] + n)
    BY <1>3, <1>4, <1>6, <1>9, <1>10
  <2> QED
    BY <1>1, <1>2, <1>3, <1>6, <1>10, <2>1 DEF EchoingAfter, Echoing
<1>13. ASSUME NEW k \in DOMAIN echoed'[s]
       PROVE  echoed'[s][k] = k /\ k <= sent'[s]
  <2>1. Len(echoed[s]) + n <= Got(s) /\ Got(s) <= sent[s]
    BY <1>3, <1>4, <1>6, SMTT(60) DEF Got
  <2>2. k \in 1..Len(echoed[s]) + n
    BY <1>9
  <2>3. k <= sent'[s]
    BY <1>1, <1>3, <1>4, <2>1, <2>2
  <2>4. CASE k \in 1..Len(echoed[s])
    <3>1. k \in DOMAIN echoed[s]
      BY <1>t, <2>4, LenProperties
    <3> QED
      BY <1>9, <2>3, <2>4, <3>1 DEF EchoInv, EchoIsAPrefix
  <2>5. CASE k > Len(echoed[s])
    <3>0. n \in Nat /\ Len(echoed[s]) \in Nat
      BY <1>3, <1>4
    <3>1. k - Len(echoed[s]) \in 1..n /\ Len(echoed[s]) + (k - Len(echoed[s])) = k
      BY <2>2, <2>5, <3>0
    <3> QED
      BY <1>7, <1>9, <2>3, <3>1
  <2> QED
    BY <1>3, <2>2, <2>4, <2>5
<1> QED
  BY <1>1, <1>t, <1>11, <1>12, <1>13

\* The echoes of one session do not touch the other sessions'.
LEMMA CompleteEchoes ==
  ASSUME IInv, EchoInv, NEW s \in Session, SystemCompletes(s)
  PROVE  EchoInv'
<1>1. PICK n \in -1..BUFSIZE :
        \/ n \in 0..BUFSIZE /\ (Received(s, n) \/ Transmitted(s, n))
        \/ n = -1 /\ Failed(s)
  <2>1. -1 \in -1..BUFSIZE /\ \A n \in 0..BUFSIZE : n \in -1..BUFSIZE
    BY IOCPAssumption
  <2> QED
    BY <2>1 DEF SystemCompletes
<1>2. /\ Complete(s, n) /\ pending[s] # <<>>
      /\ UNCHANGED <<state, recvBytes, sendBytes, mainSession, refused, wpc, wsession,
                     result, conn, sent>>
  BY <1>1 DEF Received, Transmitted, Failed, Complete, workerVars
<1>3. /\ state[s] = "live" /\ mainSession # s /\ done[s] = <<>> /\ Tail(pending[s]) = <<>>
      /\ \A w \in Worker : wsession[w] # s
  BY <1>2, InHands DEF Holds
<1>4. /\ buf \in [Session -> [0..BUFSIZE - 1 -> Nat]] /\ inbox \in [Session -> Seq(Nat)]
      /\ echoed \in [Session -> Seq(Nat)]
      /\ pending \in [Session -> Seq(Operation)] /\ done \in [Session -> Seq(-1..BUFSIZE)]
  BY DEF IInv, TypeOK
<1>5. \A t \in Session \ {s} :
        /\ buf'[t] = buf[t] /\ inbox'[t] = inbox[t] /\ echoed'[t] = echoed[t]
        /\ pending'[t] = pending[t] /\ done'[t] = done[t]
  <2>1. \A t \in Session \ {s} : pending'[t] = pending[t] /\ done'[t] = done[t]
    BY <1>2, <1>4 DEF Complete
  <2>2. \A t \in Session \ {s} : buf'[t] = buf[t] /\ inbox'[t] = inbox[t]
    BY <1>1, <1>4 DEF Received, Transmitted, Failed
  <2>3. \A t \in Session \ {s} : echoed'[t] = echoed[t]
    BY <1>1, <1>4 DEF Received, Transmitted, Failed
  <2> QED
    BY <2>1, <2>2, <2>3
<1>6. /\ pending'[s] = <<>> /\ done'[s] # <<>> /\ Head(done'[s]) = n
  <2>1. Append(<<>>, n) # <<>> /\ Head(Append(<<>>, n)) = n
    BY FirstOfQueue
  <2>2. pending'[s] = <<>> /\ done'[s] = Append(<<>>, n)
    BY <1>2, <1>3, <1>4 DEF Complete
  <2> QED
    BY <2>1, <2>2
<1>7. conn'[s] # "reset" => EchoIsOnTheWay(s)'
  <2> SUFFICES ASSUME conn[s] # "reset" PROVE EchoIsOnTheWay(s)'
    BY <1>2
  <2>1. n \in 0..BUFSIZE /\ (Received(s, n) \/ Transmitted(s, n))
    BY <1>1 DEF Failed
  <2>2. InboxIsTheRest(s)' /\ (n > 0 => EchoingAfter(s, n)')
    BY <2>1, ReceivedEchoes, TransmittedEchoes
  <2>3. EchoingAfter(s, Head(done[s]))' <=> EchoingAfter(s, n)'
    BY <1>6 DEF EchoingAfter, Echoing, Got
  <2> QED
    BY <1>2, <1>3, <1>6, <2>2, <2>3 DEF EchoIsOnTheWay, Holds
<1>8. ASSUME NEW t \in Session, t # s
      PROVE  /\ state'[t] = "none" => NothingBeforeAccept(t)'
             /\ conn'[t] # "reset" => EchoIsOnTheWay(t)'
  <2>1. state'[t] = "none" => NothingBeforeAccept(t)'
    BY <1>2, <1>5, <1>8 DEF EchoInv, NothingBeforeAccept
  <2>2. ASSUME conn'[t] # "reset"
        PROVE  EchoIsOnTheWay(t)'
    <3>1. EchoIsOnTheWay(t)
      BY <1>2, <2>2 DEF EchoInv
    <3> QED
      BY <1>2, <1>5, <1>8, <3>1, EchoUntouched
  <2> QED
    BY <2>1, <2>2
<1>9. EchoIsAPrefix'
  <2>1. \A k \in DOMAIN echoed'[s] : echoed'[s][k] = k /\ k <= sent'[s]
    <3>1. CASE n \in 0..BUFSIZE /\ Transmitted(s, n)
      BY <3>1, TransmittedEchoes
    <3>2. CASE Received(s, n) \/ Failed(s)
      BY <1>2, <3>2 DEF Received, Failed, EchoInv, EchoIsAPrefix
    <3> QED
      BY <1>1, <3>1, <3>2
  <2>2. ASSUME NEW t \in Session
        PROVE  \A k \in DOMAIN echoed'[t] : echoed'[t][k] = k /\ k <= sent'[t]
    <3>1. CASE t = s
      BY <2>1, <3>1
    <3>2. CASE t # s
      BY <1>2, <1>5, <3>2 DEF EchoInv, EchoIsAPrefix
    <3> QED
      BY <3>1, <3>2
  <2> QED
    BY <2>2 DEF EchoIsAPrefix
<1>10. \A w \in Worker : wpc'[w] = "post" =>
         sendBytes'[wsession'[w]] <= recvBytes'[wsession'[w]]
  BY <1>2 DEF EchoInv
<1>11. state'[s] # "none"
  BY <1>2, <1>3
<1> QED
  BY <1>7, <1>8, <1>9, <1>10, <1>11 DEF EchoInv

-----------------------------------------------------------------------------
\* A worker changes the fields of its own session only; the streams it leaves.
LEMMA GetEchoes ==
  ASSUME IInv, EchoInv, NEW s \in Session, NEW w \in Worker, GetQueuedCompletionStatus(w, s)
  PROVE  EchoInv'
<1>1. /\ wpc[w] = "wait" /\ done[s] # <<>> /\ done' = [done EXCEPT ![s] = Tail(done[s])]
      /\ wsession' = [wsession EXCEPT ![w] = s]
      /\ result' = [result EXCEPT ![w] = Head(done[s])]
      /\ wpc' = [wpc EXCEPT ![w] = IF Head(done[s]) <= 0 THEN "delete" ELSE "update"]
      /\ UNCHANGED <<state, buf, recvBytes, sendBytes, mainSession, pending, refused,
                     conn, inbox, sent, echoed>>
  BY DEF GetQueuedCompletionStatus, sessionVars, clientVars
<1>2. /\ done \in [Session -> Seq(-1..BUFSIZE)]
      /\ wpc \in [Worker -> {"wait", "delete", "update", "post"}]
      /\ wsession \in [Worker -> Session \cup {NoSession}]
      /\ result \in [Worker -> -1..BUFSIZE]
  BY DEF IInv, TypeOK
<1>3. /\ mainSession # s /\ pending[s] = <<>> /\ Tail(done[s]) = <<>>
      /\ Head(done[s]) \in -1..BUFSIZE /\ \A v \in Worker : wsession[v] # s
  BY <1>1, InHands DEF Holds
<1>4. /\ wsession'[w] = s /\ result'[w] = Head(done[s]) /\ done'[s] = <<>>
      /\ wpc'[w] = "update" => Head(done[s]) > 0
      /\ wpc'[w] # "post"
      /\ \A v \in Worker \ {w} : /\ wsession'[v] = wsession[v] /\ result'[v] = result[v]
                                 /\ wpc'[v] = wpc[v]
      /\ \A t \in Session \ {s} : done'[t] = done[t]
  <2>1. Head(done[s]) > 0 \/ Head(done[s]) <= 0
    BY <1>3, IOCPAssumption
  <2> QED
    BY <1>1, <1>2, <1>3, <2>1
<1>5. ASSUME NEW t \in Session, EchoIsOnTheWay(t)
      PROVE  EchoIsOnTheWay(t)'
  <2>1. CASE t = s
    <3>1. Got(s)' = Got(s) /\ InboxIsTheRest(s)'
      BY <1>1, <1>5, <2>1 DEF EchoIsOnTheWay, InboxIsTheRest, Got
    <3>2. wpc'[w] = "update" => EchoingAfter(s, result[w])'
      BY <1>1, <1>4, <1>5, <2>1, <3>1 DEF EchoIsOnTheWay, EchoingAfter, Echoing
    <3>3. \A v \in Worker : wsession'[v] = s => v = w
      BY <1>3, <1>4
    <3> QED
      BY <1>1, <1>3, <1>4, <2>1, <3>1, <3>2, <3>3 DEF EchoIsOnTheWay, Holds
  <2>2. CASE t # s
    BY <1>1, <1>4, <1>5, <2>2, EchoUntouched
  <2> QED
    BY <2>1, <2>2
<1>6. EchoIsAPrefix'
  BY <1>1 DEF EchoInv, EchoIsAPrefix
<1>7. \A v \in Worker : wpc'[v] = "post" =>
        sendBytes'[wsession'[v]] <= recvBytes'[wsession'[v]]
  BY <1>1, <1>4 DEF EchoInv
<1> QED
  BY <1>1, <1>5, <1>6, <1>7 DEF EchoInv, NothingBeforeAccept

LEMMA DeleteEchoes ==
  ASSUME IInv, EchoInv, NEW w \in Worker, deleteSession(w)
  PROVE  EchoInv'
<1>1. /\ state' = [state EXCEPT ![wsession[w]] = "freed"] /\ wpc[w] = "delete"
      /\ wpc' = [wpc EXCEPT ![w] = "wait"] /\ wsession' = [wsession EXCEPT ![w] = NoSession]
      /\ UNCHANGED <<buf, recvBytes, sendBytes, mainSession, pending, done, refused, result,
                     conn, inbox, sent, echoed>>
  BY DEF deleteSession, portVars, clientVars
<1>2. /\ state \in [Session -> {"none", "live", "freed"}]
      /\ wpc \in [Worker -> {"wait", "delete", "update", "post"}]
      /\ wsession \in [Worker -> Session \cup {NoSession}] /\ NoSession \notin Session
  BY IOCPAssumption DEF IInv, TypeOK
<1>3. \A v \in Worker : \/ v = w /\ wpc'[v] = "wait" /\ wsession'[v] = NoSession
                        \/ v # w /\ wpc'[v] = wpc[v] /\ wsession'[v] = wsession[v]
  BY <1>1, <1>2
<1>4. ASSUME NEW t \in Session, EchoIsOnTheWay(t)
      PROVE  EchoIsOnTheWay(t)'
  BY <1>1, <1>2, <1>3, <1>4, EchoUntouched
<1>5. EchoIsAPrefix'
  BY <1>1 DEF EchoInv, EchoIsAPrefix
<1>6. \A t \in Session : state'[t] = "none" => state[t] = "none"
  BY <1>1, <1>2
<1>7. \A v \in Worker : wpc'[v] = "post" =>
        sendBytes'[wsession'[v]] <= recvBytes'[wsession'[v]]
  BY <1>1, <1>3 DEF EchoInv
<1> QED
  BY <1>1, <1>4, <1>5, <1>6, <1>7 DEF EchoInv, NothingBeforeAccept

\* The counts take in what the operation's result says.
LEMMA UpdateEchoes ==
  ASSUME IInv, EchoInv, NEW w \in Worker, updateBytes(w)
  PROVE  EchoInv'
<1> PICK s : s = wsession[w]
  OBVIOUS
<1>1. /\ wpc[w] = "update" /\ wpc' = [wpc EXCEPT ![w] = "post"]
      /\ UNCHANGED <<state, buf, mainSession, pending, done, refused, wsession, result,
                     conn, inbox, sent, echoed>>
  BY DEF updateBytes, portVars, clientVars
<1>2. /\ s \in Session /\ wsession[w] = s /\ mainSession # s
      /\ pending[s] = <<>> /\ done[s] = <<>>
      /\ \A v \in Worker : wsession[v] = s => v = w
  BY <1>1, AtWork DEF Holds
<1>3. /\ recvBytes \in [Session -> 0..BUFSIZE] /\ sendBytes \in [Session -> 0..BUFSIZE]
      /\ wpc \in [Worker -> {"wait", "delete", "update", "post"}]
      /\ result[w] \in -1..BUFSIZE /\ BUFSIZE \in Nat
  BY IOCPAssumption DEF IInv, TypeOK
<1>4. result[w] > 0 /\ WithinRemaining(s, result[w])
  BY <1>1, <1>2 DEF IInv, CountsAreRight
<1>5. /\ recvBytes[s] = 0 => recvBytes'[s] = result[w] /\ sendBytes'[s] = 0
      /\ recvBytes[s] # 0 => /\ recvBytes'[s] = recvBytes[s]
                             /\ sendBytes'[s] = sendBytes[s] + result[w]
      /\ \A t \in Session \ {s} : recvBytes'[t] = recvBytes[t] /\ sendBytes'[t] = sendBytes[t]
  <2>1. CASE recvBytes[s] = 0
    <3>1. recvBytes' = [recvBytes EXCEPT ![s] = result[w]] /\ sendBytes' = [sendBytes EXCEPT ![s] = 0]
      BY <1>2, <2>1 DEF updateBytes
    <3> QED
      BY <1>2, <1>3, <2>1, <3>1
  <2>2. CASE recvBytes[s] # 0
    <3>1. /\ sendBytes' = [sendBytes EXCEPT ![s] = sendBytes[s] + result[w]]
          /\ recvBytes' = recvBytes
      BY <1>2, <2>2 DEF updateBytes
    <3> QED
      BY <1>2, <1>3, <2>2, <3>1
  <2> QED
    BY <2>1, <2>2
<1>6. wpc'[w] = "post" /\ \A v \in Worker \ {w} : wpc'[v] = wpc[v]
  BY <1>1, <1>3
<1>7. ASSUME NEW t \in Session, EchoIsOnTheWay(t)
      PROVE  EchoIsOnTheWay(t)'
  <2>1. CASE t = s
    <3>1. Got(s)' = Got(s) /\ InboxIsTheRest(s)'
      BY <1>1, <1>7, <2>1 DEF EchoIsOnTheWay, InboxIsTheRest, Got
    <3>2. EchoingAfter(s, result[w])
      BY <1>1, <1>2, <1>7, <2>1 DEF EchoIsOnTheWay, Holds
    <3>3. Echoing(s, recvBytes[s], sendBytes[s])'
      BY <1>1, <1>5, <3>1, <3>2 DEF EchoingAfter, Echoing
    <3> QED
      BY <1>1, <1>2, <1>6, <2>1, <3>1, <3>3 DEF EchoIsOnTheWay, Holds
  <2>2. CASE t # s
    BY <1>1, <1>2, <1>5, <1>6, <1>7, <2>2, EchoUntouched
  <2> QED
    BY <2>1, <2>2
<1>8. EchoIsAPrefix'
  BY <1>1 DEF EchoInv, EchoIsAPrefix
<1>9. ASSUME NEW v \in Worker, wpc'[v] = "post"
      PROVE  sendBytes'[wsession'[v]] <= recvBytes'[wsession'[v]]
  <2>1. CASE v = w
    <3>1. sendBytes'[s] <= recvBytes'[s]
      <4>1. recvBytes[s] \in Nat /\ sendBytes[s] \in Nat /\ result[w] \in Int
        BY <1>2, <1>3
      <4> QED
        BY <1>4, <1>5, <4>1 DEF WithinRemaining
    <3> QED
      BY <1>1, <1>2, <2>1, <3>1
  <2>2. CASE v # w
    <3>1. wpc[v] = "post"
      BY <1>6, <1>9, <2>2
    <3>2. wsession[v] \in Session \ {s}
      BY <1>2, <2>2, <3>1, AtWork
    <3> QED
      BY <1>1, <1>5, <3>1, <3>2 DEF EchoInv
  <2> QED
    BY <2>1, <2>2
<1> QED
  BY <1>1, <1>7, <1>8, <1>9 DEF EchoInv, NothingBeforeAccept

\* All of a receive is echoed when the next one is posted.
LEMMA PostEchoes ==
  ASSUME IInv, EchoInv, NEW w \in Worker, postNext(w)
  PROVE  EchoInv'
<1> PICK s : s = wsession[w]
  OBVIOUS
<1>1. /\ wpc[w] = "post" /\ wpc' = [wpc EXCEPT ![w] = "wait"]
      /\ wsession' = [wsession EXCEPT ![w] = NoSession]
      /\ UNCHANGED <<state, buf, sendBytes, done, mainSession, result, conn, inbox, sent, echoed>>
  BY DEF postNext, Post, clientVars
<1>2. /\ s \in Session /\ wsession[w] = s /\ mainSession # s
      /\ pending[s] = <<>> /\ done[s] = <<>>
      /\ \A v \in Worker : wsession[v] = s => v = w
  BY <1>1, AtWork DEF Holds
<1>3. /\ recvBytes \in [Session -> 0..BUFSIZE] /\ sendBytes \in [Session -> 0..BUFSIZE]
      /\ wpc \in [Worker -> {"wait", "delete", "update", "post"}]
      /\ wsession \in [Worker -> Session \cup {NoSession}] /\ NoSession \notin Session
      /\ pending \in [Session -> Seq(Operation)] /\ BUFSIZE \in Nat
  BY IOCPAssumption DEF IInv, TypeOK
<1>4. sendBytes[s] <= recvBytes[s]
  BY <1>1, <1>2 DEF EchoInv
<1>5. /\ recvBytes[s] > sendBytes[s] => recvBytes'[s] = recvBytes[s]
      /\ ~(recvBytes[s] > sendBytes[s]) => recvBytes'[s] = 0
      /\ \A t \in Session \ {s} : recvBytes'[t] = recvBytes[t]
      /\ \A t \in Session \ {s} : pending'[t] = pending[t]
  BY <1>2, <1>3 DEF postNext, Post
<1>6. \A v \in Worker : \/ v = w /\ wpc'[v] = "wait" /\ wsession'[v] = NoSession
                        \/ v # w /\ wpc'[v] = wpc[v] /\ wsession'[v] = wsession[v]
  BY <1>1, <1>3
<1>7. ASSUME NEW t \in Session, EchoIsOnTheWay(t)
      PROVE  EchoIsOnTheWay(t)'
  <2>1. CASE t = s
    <3>1. Got(s)' = Got(s) /\ InboxIsTheRest(s)'
      BY <1>1, <1>7, <2>1 DEF EchoIsOnTheWay, InboxIsTheRest, Got
    <3>2. Echoing(s, recvBytes[s], sendBytes[s])
      BY <1>1, <1>2, <1>7, <2>1 DEF EchoIsOnTheWay, Holds
    <3>3. Echoing(s, recvBytes[s], IF recvBytes[s] = 0 THEN 0 ELSE sendBytes[s])'
      <4>1. CASE recvBytes[s] > sendBytes[s]
        <5>1. recvBytes'[s] # 0
          BY <1>2, <1>3, <1>5, <4>1
        <5> QED
          BY <1>1, <1>5, <3>1, <3>2, <4>1, <5>1 DEF Echoing
      <4>2. CASE ~(recvBytes[s] > sendBytes[s])
        <5>1. recvBytes[s] \in Nat /\ sendBytes[s] = recvBytes[s] /\ Got(s) \in Int
          BY <1>2, <1>3, <1>4, <4>2, EchoNumbers
        <5>2. Len(echoed[s]) = Got(s) - 0 + 0
          BY <3>2, <5>1 DEF Echoing
        <5>3. \A i \in 0..BUFSIZE - 1 : ~(i < 0)
          BY <1>3
        <5> QED
          BY <1>1, <1>5, <3>1, <4>2, <5>2, <5>3 DEF Echoing
      <4> QED
        BY <4>1, <4>2
    <3>4. \A v \in Worker : wsession'[v] # s
      BY <1>2, <1>3, <1>6
    <3> QED
      BY <1>1, <1>2, <2>1, <3>1, <3>3, <3>4 DEF EchoIsOnTheWay, Holds
  <2>2. CASE t # s
    BY <1>1, <1>2, <1>3, <1>5, <1>6, <1>7, <2>2, EchoUntouched
  <2> QED
    BY <2>1, <2>2
<1>8. EchoIsAPrefix'
  BY <1>1 DEF EchoInv, EchoIsAPrefix
<1>9. ASSUME NEW v \in Worker, wpc'[v] = "post"
      PROVE  sendBytes'[wsession'[v]] <= recvBytes'[wsession'[v]]
  <2>1. v # w /\ wpc[v] = "post" /\ wsession'[v] = wsession[v]
    BY <1>6, <1>9
  <2>2. wsession[v] \in Session \ {s}
    BY <1>2, <2>1, AtWork
  <2> QED
    BY <1>1, <1>5, <2>1, <2>2 DEF EchoInv
<1> QED
  BY <1>1, <1>7, <1>8, <1>9 DEF EchoInv, NothingBeforeAccept

\* What a client gets back are the first bytes it sent, in order, through every
\* partial receive and send, for every number of workers and size of the buffer.
THEOREM EchoedInOrder == Spec => []EchoIsAPrefix
<1>1. IInv /\ EchoInv /\ [Next]_vars => EchoInv'
  <2> SUFFICES ASSUME IInv, EchoInv, [Next]_vars PROVE EchoInv'
    OBVIOUS
  <2>1. CASE \E s \in Session : accept(s)
    BY <2>1, AcceptEchoes
  <2>2. CASE firstRecv
    BY <2>2, FirstRecvEchoes
  <2>3. CASE \E s \in Session : \/ ClientSend(s)
                                \/ \E how \in {"closed", "reset"} : ClientLeave(s, how)
    BY <2>3, ClientSendEchoes, ClientLeaveEchoes
  <2>4. CASE \E s \in Session : SystemCompletes(s)
    BY <2>4, CompleteEchoes
  <2>5. CASE \E s \in Session, w \in Worker : GetQueuedCompletionStatus(w, s)
    BY <2>5, GetEchoes
  <2>6. CASE \E w \in Worker : Continue(w)
    BY <2>6, DeleteEchoes, UpdateEchoes, PostEchoes DEF Continue
  <2>7. CASE UNCHANGED vars
    <3>1. UNCHANGED <<state, buf, recvBytes, sendBytes, mainSession, pending, done,
                      wpc, wsession, result, conn, inbox, sent, echoed>>
      BY <2>7 DEF vars, sessionVars, portVars, workerVars, clientVars
    <3>2. \A s \in Session : EchoIsOnTheWay(s) => EchoIsOnTheWay(s)'
      BY <3>1, EchoUntouched
    <3> QED
      BY <3>1, <3>2 DEF EchoInv, EchoIsAPrefix, NothingBeforeAccept
  <2> QED
    BY <2>1, <2>2, <2>3, <2>4, <2>5, <2>6, <2>7 DEF Next
<1>2. Init => EchoInv
  BY InitEchoes
<1>3. EchoInv => EchoIsAPrefix
  BY DEF EchoInv
<1> QED
  BY <1>1, <1>2, <1>3, InvariantHolds, PTL DEF Spec
=============================================================================
