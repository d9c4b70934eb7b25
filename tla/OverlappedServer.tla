-------------------------- MODULE OverlappedServer --------------------------
(* The overlapped echo server with events.  main accepts, adds a session and *)
(* posts its first receive; the worker walks the sessions from the signalled *)
(* one on.  A lock guards each change of the two arrays, not what main does  *)
(* between adding a session and posting for it, nor the index that either    *)
(* thread hands to RemoveSession.  Sessions stand at 1..slots; behind them   *)
(* the arrays keep what stood there, and a stale index still finds it.       *)
(* The worker's wait has timeout 0: when nothing is signalled its walk is    *)
(* empty and it polls again, which is no step here; so is main's signal that *)
(* there is a new session (events[0]), after which the worker waits again.   *)
(* Neither the memory nor the event handle of a deleted session is used      *)
(* again, WSACreateEvent succeeds.                                           *)
EXTENDS EchoClients

CONSTANTS MaxSlots     \* WSA_MAXIMUM_WAIT_EVENTS - 1

ASSUME OverlappedAssumption == MaxSlots \in Nat \ {0}

VARIABLES
  acceptPc,           \* main: "accept", "post", "refused", "remove"
  removing,           \* the index main computed for RemoveSession
  slots,              \* clientCnt - 1
  slotSession, slotEvent,     \* sessions[1..] and events[1..] as far as ever written
  slotSignals,        \* the sessions whose event is signalled
  workPc,             \* "wait", "walk", "drop", or "undefined": freed memory was used
  cnt, first,         \* the walk's position and startIdx
  overlapped,         \* per session: [busy, bytes], as WSAGetOverlappedResult sees it
  operations,         \* per session: operations posted and not completed
  fields,             \* per session: recvBytes, sendBytes, and the from and len of wsaBuf
  content,            \* per session: the bytes in buf
  doubled,            \* history: sessions given one operation before another was served
  strayed             \* history: what a removal at an index behind the table hit

arrayVars == <<slots, slotSession, slotEvent, strayed>>
opVars == <<overlapped, operations, fields, content, doubled>>
overlappedVars == <<acceptPc, removing, arrayVars, slotSignals, workPc, cnt, first, opVars>>
peerVars == <<server, plan, conn, sent>>

Zeroed == [busy |-> FALSE, bytes |-> 0]

OverlappedInit == /\ acceptPc = "accept" /\ removing = 0
                  /\ slots = 0 /\ slotSession = <<>> /\ slotEvent = <<>> /\ strayed = {}
                  /\ slotSignals = {} /\ doubled = {}
                  /\ workPc = "wait" /\ cnt = 1 /\ first = 1
                  /\ overlapped = [c \in Client |-> Zeroed]
                  /\ operations = [c \in Client |-> <<>>]
                  /\ fields = [c \in Client |-> [recvBytes |-> 0, sendBytes |-> 0,
                                                from |-> 0, len |-> BUFSIZE]]
                  /\ content = [c \in Client |-> <<>>]

\* WSARecv or WSASend on s: pending, with the event reset, or refused, which
\* happens on a broken connection and leaves the overlapped structure zeroed.
\* The worker has served s's last operation; for main, s ought to be new.
Posted(s, op, served) ==
  /\ operations' = [operations EXCEPT ![s] = Append(@, op)]
  /\ overlapped' = [overlapped EXCEPT ![s] = [busy |-> TRUE, bytes |-> 0]]
  /\ slotSignals' = slotSignals \ {s}
  /\ doubled' = IF operations[s] = <<>> /\ (served \/ overlapped[s] = Zeroed)
                THEN doubled ELSE doubled \cup {s}

Broken(s) == conn[s] = "reset" \/ handle[s] = "closed"

Refused(s) == /\ Broken(s)
              /\ overlapped' = [overlapped EXCEPT ![s] = Zeroed]
              /\ UNCHANGED <<operations, slotSignals, doubled>>

\* Mutant: the events are not moved along.
MovedWithoutEvents(i) == /\ slotSession' = [slotSession EXCEPT ![i] = slotSession[slots]]
                         /\ UNCHANGED slotEvent

LastMoved(i) == /\ slotSession' = [slotSession EXCEPT ![i] = slotSession[slots]]
                /\ slotEvent' = [slotEvent EXCEPT ![i] = slotEvent[slots]]

\* RemoveSession, for whatever session stands at the index.  Behind the table
\* that may be one that was moved down since: it is deleted where it is in use,
\* and the last session of the table is the one that drops out.
RemoveSlot(i) == /\ CloseSocket(slotSession[i])
                 /\ LastMoved(i)
                 /\ slots' = slots - 1
                 /\ strayed' = IF i <= slots THEN strayed
                               ELSE strayed \cup {slotSession[i], slotSession[slots]}
                 /\ operations' = [operations EXCEPT ![slotSession[i]] = <<>>]
                 /\ overlapped' = [overlapped EXCEPT ![slotSession[i]] = Zeroed]
                 /\ slotSignals' = slotSignals \ {slotEvent[i]}

\* The pointer at index i of sessions is that of a session not yet deleted;
\* sessions[0] is null.
IsLive(i) == i > 0 /\ handle[slotSession[i]] # "closed"

\* (With no session in the table and a live one behind it, entry 0 would be
\* copied and the dummy event given up; no run comes to that.)
CanRemove(i) == IsLive(i) /\ slots > 0

-----------------------------------------------------------------------------
(* main                                                                      *)
\* The entry behind the table is written.
Put(entries, c) == IF slots < Len(entries) THEN [entries EXCEPT ![slots + 1] = c]
                   ELSE Append(entries, c)

\* accept fails on a connection that was reset; at the limit the socket is left
\* as it is; otherwise AddSession.
acceptErrs == /\ acceptPc = "accept" /\ backlog # <<>> /\ conn[Head(backlog)] = "reset"
               /\ backlog' = Tail(backlog)
               /\ UNCHANGED <<peerVars, handle, inbox, echoed, overlappedVars>>

acceptAndAdd ==
  LET c == Head(backlog) IN
  /\ acceptPc = "accept" /\ backlog # <<>>
  /\ AcceptNext
  /\ \/ slots >= MaxSlots /\ UNCHANGED <<acceptPc, arrayVars>>
     \/ /\ slots < MaxSlots /\ acceptPc' = "post"
        /\ slots' = slots + 1
        /\ slotSession' = Put(slotSession, c) /\ slotEvent' = Put(slotEvent, c)
        /\ UNCHANGED strayed
  /\ UNCHANGED <<peerVars, inbox, echoed, removing, slotSignals, workPc, cnt, first, opVars>>

\* The session at the end of the array, which need not be the one just added
\* if the worker has removed one since, gets a receive into what its wsaBuf
\* names.
FirstReceive(f) == [kind |-> "recv", from |-> f.from, len |-> f.len]

postAtEnd ==
  /\ acceptPc = "post" /\ IsLive(slots)
  /\ LET s == slotSession[slots] IN
     \/ Posted(s, FirstReceive(fields[s]), FALSE) /\ acceptPc' = "accept"
     \/ Refused(s) /\ acceptPc' = "refused"
  /\ UNCHANGED <<clientVars, removing, arrayVars, workPc, cnt, first, fields, content>>

\* Refused: clientCnt - 1 is evaluated for RemoveSession, which then waits for
\* the lock; the worker may have removed an entry before either.
computeIndex == /\ acceptPc = "refused"
                /\ acceptPc' = "remove" /\ removing' = slots
                /\ UNCHANGED <<clientVars, arrayVars, slotSignals, workPc, cnt, first, opVars>>

removeRefused ==
  /\ acceptPc = "remove" /\ CanRemove(removing)
  /\ RemoveSlot(removing)
  /\ acceptPc' = "accept" /\ removing' = 0
  /\ UNCHANGED <<peerVars, backlog, inbox, echoed, workPc, cnt, first,
                 fields, content, doubled>>

\* Null or a deleted session stands at the index.
mainUsesFreed ==
  /\ \/ acceptPc = "post" /\ ~IsLive(slots)
     \/ acceptPc = "remove" /\ ~CanRemove(removing)
  /\ workPc' = "undefined"
  /\ UNCHANGED <<clientVars, acceptPc, removing, arrayVars, slotSignals, cnt, first, opVars>>

OverlappedMain == \/ acceptAndAdd \/ acceptErrs \/ postAtEnd
                  \/ computeIndex \/ removeRefused \/ mainUsesFreed

-----------------------------------------------------------------------------
(* The worker                                                                *)
\* The wait fails while the event of a deleted session is in the array.
waitSignalled ==
  /\ workPc = "wait" /\ \A i \in 1..slots : IsLive(i)
  /\ \E i \in 1..slots : /\ slotEvent[i] \in slotSignals
                         /\ \A j \in 1..i - 1 : slotEvent[j] \notin slotSignals
                         /\ slotSignals' = slotSignals \ {slotEvent[i]}
                         /\ cnt' = i /\ first' = i
  /\ workPc' = "walk"
  /\ UNCHANGED <<clientVars, acceptPc, removing, arrayVars, opVars>>

\* WSAGetOverlappedResult fails for an operation that is not complete, too.
lookFails ==
  /\ workPc = "walk" /\ cnt <= slots /\ IsLive(cnt)
  /\ LET o == overlapped[slotSession[cnt]] IN o.busy \/ o.bytes <= 0
  /\ workPc' = "drop"
  /\ UNCHANGED <<clientVars, acceptPc, removing, arrayVars, slotSignals, cnt, first, opVars>>

\* Either way the session at startIdx is removed, whichever was looked at.
dropFirst ==
  /\ workPc = "drop" /\ CanRemove(first)
  /\ RemoveSlot(first)
  /\ workPc' = "walk" /\ cnt' = cnt + 1
  /\ UNCHANGED <<peerVars, backlog, inbox, echoed, acceptPc, removing, first,
                 fields, content, doubled>>

workerUsesFreed ==
  /\ \/ workPc = "walk" /\ cnt <= slots /\ ~IsLive(cnt)
     \/ workPc = "drop" /\ ~CanRemove(first)
  /\ workPc' = "undefined"
  /\ UNCHANGED <<clientVars, acceptPc, removing, arrayVars, slotSignals, cnt, first, opVars>>

\* Mutant: recvBytes is not reset when everything received was sent.
AccountedWithoutReset(f, result) ==
  IF f.recvBytes = 0 THEN [f EXCEPT !.recvBytes = result, !.sendBytes = 0]
  ELSE [f EXCEPT !.sendBytes = @ + result]

Accounted(f, result) ==
  LET g == IF f.recvBytes = 0 THEN [f EXCEPT !.recvBytes = result, !.sendBytes = 0]
           ELSE [f EXCEPT !.sendBytes = @ + result]
  IN  IF g.recvBytes > g.sendBytes THEN g ELSE [g EXCEPT !.recvBytes = 0]

\* Mutant: what is left of a partial send is sent from the start of buf.
NextFromStart(f) ==
  IF f.recvBytes > f.sendBytes
  THEN [kind |-> "send", from |-> 0, len |-> f.recvBytes - f.sendBytes]
  ELSE [kind |-> "recv", from |-> 0, len |-> BUFSIZE]

NextOperation(f) ==
  IF f.recvBytes > f.sendBytes
  THEN [kind |-> "send", from |-> f.sendBytes, len |-> f.recvBytes - f.sendBytes]
  ELSE [kind |-> "recv", from |-> 0, len |-> BUFSIZE]

serveCompleted ==
  /\ workPc = "walk" /\ cnt <= slots /\ IsLive(cnt)
  /\ LET s == slotSession[cnt]
         f == Accounted(fields[s], overlapped[s].bytes)
         op == NextOperation(f) IN
     /\ ~overlapped[s].busy /\ overlapped[s].bytes > 0
     /\ fields' = [fields EXCEPT ![s] = [f EXCEPT !.from = op.from, !.len = op.len]]
     /\ Posted(s, op, TRUE) \/ Refused(s)
  /\ cnt' = cnt + 1
  /\ UNCHANGED <<clientVars, acceptPc, removing, arrayVars, workPc, first, content>>

walkOver == /\ workPc = "walk" /\ cnt > slots
            /\ workPc' = "wait" /\ cnt' = 1 /\ first' = 1
            /\ UNCHANGED <<clientVars, acceptPc, removing, arrayVars, slotSignals, opVars>>

OverlappedWorker == \/ waitSignalled \/ lookFails \/ dropFirst
                    \/ workerUsesFreed \/ serveCompleted \/ walkOver

-----------------------------------------------------------------------------
(* The system completes the oldest operation of a session.                   *)
Overwritten(old, from, new) ==
  SubSeq(old, 1, from) \o new \o SubSeq(old, from + Len(new) + 1, Len(old))

CompleteOldest(s, n) ==
  /\ operations[s] # <<>>
  /\ LET op == Head(operations[s]) IN
     \/ /\ op.kind = "recv" /\ n \in RecvResults(s) /\ n <= op.len
        /\ inbox[s] # <<>> \/ HasEnded(s)
        /\ content' = [content EXCEPT ![s] =
              IF n > 0 THEN Overwritten(@, op.from, SubSeq(inbox[s], 1, n)) ELSE @]
        /\ TakeFromInbox(s, n)
        /\ UNCHANGED echoed
     \/ /\ op.kind = "send" /\ n \in SendResults(s, op.len)
        /\ echoed' = [echoed EXCEPT ![s] = @ \o SubSeq(content[s], op.from + 1, op.from + n)]
        /\ UNCHANGED <<content, inbox>>
  /\ operations' = [operations EXCEPT ![s] = Tail(@)]
  /\ overlapped' = [overlapped EXCEPT ![s] = [busy |-> FALSE, bytes |-> n]]
  /\ slotSignals' = slotSignals \cup {s}
  /\ UNCHANGED <<peerVars, backlog, handle, acceptPc, removing, arrayVars, workPc, cnt,
                 first, fields, doubled>>

OverlappedSystem == \E s \in Client, n \in -1..BUFSIZE : CompleteOldest(s, n)

Overlapping == server = "overlapped" /\ workPc # "undefined"

OverlappedNext == Overlapping /\ (OverlappedMain \/ OverlappedWorker \/ OverlappedSystem)

\* The server with its clients, without the other servers of EchoClients.
OverlappedStep == OverlappedNext \/ (ClientsNext /\ UNCHANGED overlappedVars)

OverlappedSpec ==
  ClientsInit /\ OverlappedInit /\ [][OverlappedStep]_<<clientVars, overlappedVars>>

\* Both threads run, and what can complete does.
OverlappedFairness ==
  /\ WF_<<clientVars, overlappedVars>>(Overlapping /\ OverlappedMain)
  /\ WF_<<clientVars, overlappedVars>>(Overlapping /\ OverlappedWorker)
  /\ WF_<<clientVars, overlappedVars>>(Overlapping /\ OverlappedSystem)

-----------------------------------------------------------------------------
(* AddSession and RemoveSession, called from both threads, keep the arrays    *)
(* parallel and every session at one position of the table.  A session in the *)
(* table is open, and one with an operation pending is in the table, so that  *)
(* the worker comes to know of its completion.  The code does not hold to the *)
(* latter two for the sessions in strayed: an index that main or the worker   *)
(* computed before RemoveSession's lock, gone stale, deletes a session that   *)
(* was moved down and leaves it in the table, from which another drops out.   *)
SlotsMatch ==
  /\ slotEvent = slotSession
  /\ \A i, j \in 1..slots : slotSession[i] = slotSession[j] => i = j
  /\ \A i \in 1..slots : handle[slotSession[i]] = "open" \/ slotSession[i] \in strayed
  /\ \A c \in Client \ strayed :
       operations[c] # <<>> => \E i \in 1..slots : slotSession[i] = c

(* The echo is the client's own bytes in their order, a send being posted     *)
(* from the buffer that the next receive fills; only a session that was given *)
(* one operation before another was served, see below, is exempt.             *)
OverlappedEchoInOrder == \A c \in Client \ doubled : InOrder(c)

(* A client that has the server to itself gets everything back (with a        *)
(* second one there, the worker drops it at line 158 as soon as the second's  *)
(* operation is looked at before it is complete).                             *)
Alone(c) == \A d \in Client \ {c} : conn[d] = "none"

LoneClientIsEchoed ==
  \A c \in Client :
    server = "overlapped" /\ sent[c] > 0 ~>
      Len(echoed[c]) = sent[c] \/ HasEnded(c) \/ ~Alone(c)

(* OverlappedIOServer_Event.cpp:119, on what main posts for the session it    *)
(* has just added: "only a recv for now".  So a session has one operation at  *)
(* a time, and the worker serves its completion before the next is posted.    *)
(* (A run shows that this fails: see postAtEnd.)                              *)
OneOperationAtATime == doubled = {}
=============================================================================
