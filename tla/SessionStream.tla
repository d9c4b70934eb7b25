---------------------------- MODULE SessionStream ----------------------------
(* One client of the fighter server: its byte streams to and from the server *)
(* through the session's readQ and writeQ, during the passes of networkProc. *)
(* What a ring holds is a sequence (RingBufferProofs shows that this is what *)
(* RingBuffer provides); its indices stay, for the direct sizes that recv    *)
(* and send are given depend on where in the array the data happens to lie.  *)
(* The other sessions appear by what they do to this one: they make select   *)
(* return, and their handlers broadcast to it at any point of a pass.        *)
EXTENDS Integers, Sequences, SequencesExt

CONSTANTS ReadSize,    \* capacity of readQ (DEFAULT_BUFSIZE)
          WriteSize,   \* capacity of writeQ (DEFAULT_BUFSIZE)
          MaxPackets,  \* bound: packets the client sends
          MaxOffers,   \* bound: packets the server has for the client
          Sizes        \* payload sizes that occur

ASSUME StreamAssumption == /\ ReadSize \in Nat \ {0} /\ WriteSize \in Nat \ {0}
                           /\ MaxPackets \in Nat /\ MaxOffers \in Nat
                           /\ Sizes \subseteq Nat \ {0}

VARIABLES
  client,     \* "open", or how the connection ended: "closed", "reset", "aborted"
  sent,       \* packets the client wrote, in order
  inbox,      \* bytes in the server's socket buffer
  rdata, rfront, rrear,      \* readQ: its bytes and indices
  handled,    \* packets given to packetProc
  offered,    \* packets unicast or broadcast to this session, in order
  wdata, wfront, wrear,      \* writeQ
  delivered,  \* bytes send took from writeQ
  session,    \* "user", "disconnected" (in users and in disconnects), "deleted"
  pc, rSet, wSet,            \* where networkProc stands, and what select reported
  serverShut

clientVars == <<client, sent>>
readVars   == <<rdata, rfront, rrear>>
writeVars  == <<wdata, wfront, wrear, delivered>>
passVars   == <<pc, rSet, wSet>>
vars == <<clientVars, inbox, readVars, handled, offered, writeVars, session,
          passVars, serverShut>>

R == INSTANCE RingBuffer WITH Size <- ReadSize, front <- rfront, rear <- rrear,
       buf <- <<>>, out <- <<>>, ret <- 0, Byte <- {0}, MaxRequest <- 0
W == INSTANCE RingBuffer WITH Size <- WriteSize, front <- wfront, rear <- wrear,
       buf <- <<>>, out <- <<>>, ret <- 0, Byte <- {0}, MaxRequest <- 0

-----------------------------------------------------------------------------
\* A packet's kind is what packetProc makes of it: "ok" is handled, "offrange"
\* fails the coordinate check and is answered with disconnect, "unknown" has a
\* type that packetProc does not know.
Packet == [id : Nat, kind : {"ok", "offrange", "unknown"}, size : Sizes]

\* On the wire: PACKET_CODE, then the rest of the header (type and size), then
\* the payload.  A byte is a pair of what it is and its value.
Code == <<"code", 0>>
HeaderSize == 2
Encode(p) == <<Code, <<p.kind, p.size>>>> \o [i \in 1..p.size |-> <<"data", p.id>>]
Bytes(ps) == FlattenSeq([i \in DOMAIN ps |-> Encode(ps[i])])

\* What is announced by the header at the start of the readable bytes.
AnnouncedType == rdata[2][1]
AnnouncedSize == rdata[2][2]
HeaderThere == Len(rdata) >= HeaderSize
CodeRight   == rdata[1] = Code
\* Mutant: a packet that is the last in readQ is not seen.
PacketAndMoreThere == Len(rdata) > HeaderSize + AnnouncedSize

PacketThere == Len(rdata) >= HeaderSize + AnnouncedSize

disconnect == session' = IF session = "deleted" THEN "deleted" ELSE "disconnected"

Init == /\ client = "open" /\ sent = <<>> /\ inbox = <<>>
        /\ rdata = <<>> /\ rfront = 0 /\ rrear = 0 /\ handled = <<>>
        /\ offered = <<>> /\ delivered = <<>>
        /\ wdata = <<>> /\ wfront = 0 /\ wrear = 0
        /\ session = "user"
        /\ pc = "accept" /\ rSet = FALSE /\ wSet = FALSE
        /\ serverShut = FALSE

-----------------------------------------------------------------------------
\* The client, and the network between it and the server's socket.
ClientSend(kind, n) ==
  LET p == [id |-> Len(sent) + 1, kind |-> kind, size |-> n] IN
  /\ client = "open" /\ session # "deleted" /\ Len(sent) < MaxPackets
  /\ sent' = Append(sent, p)
  /\ inbox' = inbox \o Encode(p)
  /\ UNCHANGED <<client, readVars, handled, offered, writeVars, session, passVars, serverShut>>

\* A closed connection still delivers what was sent; a reset or aborted one does not.
ClientLeave(how) ==
  /\ client = "open" /\ session # "deleted"
  /\ client' = how
  /\ inbox' = IF how = "closed" THEN inbox ELSE <<>>
  /\ UNCHANGED <<sent, readVars, handled, offered, writeVars, session, passVars, serverShut>>

-----------------------------------------------------------------------------
\* unicast and broadcast to this session: writeQ takes what fits of the packet.
OfferedPacket == [id : Nat, kind : {"ok"}, size : {1}]

Offered == [id |-> Len(offered) + 1, kind |-> "ok", size |-> 1]

\* Mutant: Enqueue counts what does not fit.
AcceptsAll == Len(Encode(Offered))

Accepts == IF W!FreeSize >= Len(Encode(Offered)) THEN Len(Encode(Offered)) ELSE W!FreeSize

EnqueueOffer ==
  /\ offered' = Append(offered, Offered)
  /\ wdata' = wdata \o SubSeq(Encode(Offered), 1, Accepts)
  /\ wrear' = W!Advance(wrear, Accepts)
  /\ UNCHANGED <<wfront, delivered>>

\* Only acceptProc unicasts, to the new session, which is not selected yet.
unicast ==
  /\ pc = "accept" /\ Len(offered) < MaxOffers
  /\ EnqueueOffer
  /\ IF W!IsFull \/ Accepts < Len(Encode(Offered))
     THEN disconnect ELSE UNCHANGED session
  /\ serverShut' = (serverShut \/ (~W!IsFull /\ Accepts < Len(Encode(Offered))))
  /\ UNCHANGED <<clientVars, inbox, readVars, handled, passVars>>

\* Another session's handler, or this one's, broadcasts during the pass.
broadcast ==
  /\ pc \in {"read", "parse", "delete"} /\ session # "deleted"
  /\ Len(offered) < MaxOffers
  /\ EnqueueOffer
  /\ IF W!IsFull \/ Accepts < Len(Encode(Offered))
     THEN disconnect ELSE UNCHANGED session
  /\ UNCHANGED <<clientVars, inbox, readVars, handled, passVars, serverShut>>

\* acceptProc has pushed the session; this pass's sets do not contain it.
AcceptDone ==
  /\ pc = "accept"
  /\ pc' = "read"
  /\ UNCHANGED <<clientVars, inbox, readVars, handled, offered, writeVars, session,
                 rSet, wSet, serverShut>>

-----------------------------------------------------------------------------
\* select; some socket is ready, this one (for reading, for writing) or another.
Readable == inbox # <<>> \/ client # "open"

Select(writable) ==
  /\ pc = "select" /\ ~serverShut /\ session # "deleted"
  /\ rSet' = Readable
  /\ wSet' = (W!UsedSize > 0 /\ writable)
  /\ pc' = "read"
  /\ UNCHANGED <<clientVars, inbox, readVars, handled, offered, writeVars, session, serverShut>>

RecvFails ==
  \/ R!IsFull
  \/ client = "reset"
  \/ R!DirectEnqueueSize = 0                \* recv of no bytes returns 0
  \/ inbox = <<>> /\ client = "closed"      \* end of stream returns 0

\* readProc up to MoveRear, for a socket in rSet.
recv(n) ==
  /\ pc = "read" /\ rSet
  /\ IF RecvFails
     THEN /\ n = 0 /\ disconnect
          /\ pc' = "write"
          /\ UNCHANGED <<inbox, rdata, rrear, serverShut>>
     ELSE IF client = "aborted"             \* any error but WSAECONNRESET
     THEN /\ n = 0
          /\ serverShut' = TRUE /\ pc' = "write"
          /\ UNCHANGED <<inbox, rdata, rrear, session>>
     ELSE /\ n \in 1..Len(inbox) /\ n <= R!DirectEnqueueSize
          /\ inbox' = SubSeq(inbox, n + 1, Len(inbox))
          /\ rdata' = rdata \o SubSeq(inbox, 1, n)
          /\ rrear' = R!Advance(rrear, n)
          /\ pc' = "parse"
          /\ UNCHANGED <<session, serverShut>>
  /\ UNCHANGED <<clientVars, rfront, handled, offered, writeVars, rSet, wSet>>

NotReadable ==
  /\ pc = "read" /\ ~rSet
  /\ pc' = "write"
  /\ UNCHANGED <<clientVars, inbox, readVars, handled, offered, writeVars, session,
                 rSet, wSet, serverShut>>

\* Mutants: the header is peeked at and not skipped, or one packet is handled in
\* a pass.
ParseKeepingHeader ==
  /\ pc = "parse"
  /\ HeaderThere /\ CodeRight /\ PacketThere
  /\ handled' = Append(handled, SubSeq(rdata, 1, HeaderSize + AnnouncedSize))
  /\ rdata' = SubSeq(rdata, AnnouncedSize + 1, Len(rdata))
  /\ rfront' = R!Advance(rfront, AnnouncedSize)
  /\ pc' = IF AnnouncedType = "ok" THEN "parse" ELSE "write"
  /\ IF AnnouncedType = "offrange" THEN disconnect ELSE UNCHANGED session
  /\ UNCHANGED <<clientVars, inbox, rrear, offered, writeVars, rSet, wSet, serverShut>>

ParseOnce ==
  /\ pc = "parse"
  /\ HeaderThere /\ CodeRight /\ PacketThere
  /\ LET n == HeaderSize + AnnouncedSize IN
     /\ handled' = Append(handled, SubSeq(rdata, 1, n))
     /\ rdata' = SubSeq(rdata, n + 1, Len(rdata))
     /\ rfront' = R!Advance(rfront, n)
  /\ pc' = "write"
  /\ IF AnnouncedType = "offrange" THEN disconnect ELSE UNCHANGED session
  /\ UNCHANGED <<clientVars, inbox, rrear, offered, writeVars, rSet, wSet, serverShut>>

\* One turn of readProc's loop: the header is skipped, the payload dequeued and
\* packetProc called; a packet it refuses ends the loop.
ParsePacket ==
  /\ pc = "parse"
  /\ HeaderThere /\ CodeRight /\ PacketThere
  /\ LET n == HeaderSize + AnnouncedSize IN
     /\ handled' = Append(handled, SubSeq(rdata, 1, n))
     /\ rdata' = SubSeq(rdata, n + 1, Len(rdata))
     /\ rfront' = R!Advance(rfront, n)
  /\ pc' = IF AnnouncedType = "ok" THEN "parse" ELSE "write"
  /\ IF AnnouncedType = "offrange" THEN disconnect ELSE UNCHANGED session
  /\ UNCHANGED <<clientVars, inbox, rrear, offered, writeVars, rSet, wSet, serverShut>>

ParseDone ==
  /\ pc = "parse"
  /\ ~(HeaderThere /\ CodeRight /\ PacketThere)
  /\ pc' = "write"
  /\ UNCHANGED <<clientVars, inbox, readVars, handled, offered, writeVars, session,
                 rSet, wSet, serverShut>>

SendError == client \in {"reset", "aborted"}

\* Mutant: the front moves by what send was given, not by what it took.
writeProcMovingByOffer(n) ==
  /\ pc = "write" /\ (wSet => ~SendError)
  /\ pc' = "delete"
  /\ IF ~wSet
     THEN n = 0 /\ UNCHANGED writeVars
     ELSE /\ n <= W!DirectDequeueSize
          /\ delivered' = delivered \o SubSeq(wdata, 1, n)
          /\ wdata' = SubSeq(wdata, W!DirectDequeueSize + 1, Len(wdata))
          /\ wfront' = W!Advance(wfront, W!DirectDequeueSize)
          /\ UNCHANGED wrear
  /\ UNCHANGED <<clientVars, inbox, readVars, handled, offered, session, rSet, wSet,
                 serverShut>>

\* writeProc: send takes some of the bytes it is given, all contiguous ones.
writeProc(n) ==
  /\ pc = "write"
  /\ pc' = "delete"
  /\ IF ~wSet
     THEN n = 0 /\ UNCHANGED <<writeVars, session, serverShut>>
     ELSE IF SendError
     THEN /\ n = 0
          /\ IF client = "reset" THEN disconnect ELSE UNCHANGED session
          /\ serverShut' = (serverShut \/ client = "aborted")
          /\ UNCHANGED writeVars
     ELSE /\ n <= W!DirectDequeueSize /\ (n = 0 => W!DirectDequeueSize = 0)
          /\ delivered' = delivered \o SubSeq(wdata, 1, n)
          /\ wdata' = SubSeq(wdata, n + 1, Len(wdata))
          /\ wfront' = W!Advance(wfront, n)
          /\ UNCHANGED <<wrear, session, serverShut>>
  /\ UNCHANGED <<clientVars, inbox, readVars, handled, offered, rSet, wSet>>

\* deleteUser closes the sessions that were disconnected during the pass.
deleteUser ==
  /\ pc = "delete"
  /\ session' = IF session = "disconnected" THEN "deleted" ELSE session
  /\ pc' = "select"
  /\ UNCHANGED <<clientVars, inbox, readVars, handled, offered, writeVars,
                 rSet, wSet, serverShut>>

-----------------------------------------------------------------------------
Recv  == \E n \in 0..ReadSize : recv(n)
Write == \E n \in 0..WriteSize : writeProc(n)
Pass  == \/ AcceptDone \/ (\E b \in BOOLEAN : Select(b))
         \/ Recv \/ NotReadable \/ ParsePacket \/ ParseDone \/ Write \/ deleteUser

Client == \/ \E kind \in {"ok", "offrange", "unknown"}, n \in Sizes : ClientSend(kind, n)
          \/ \E how \in {"closed", "reset", "aborted"} : ClientLeave(how)

Next == Client \/ unicast \/ broadcast \/ Pass

\* main() runs networkProc in a loop and every handler returns.
Fairness == WF_vars(Pass)

Spec == Init /\ [][Next]_vars /\ Fairness
-----------------------------------------------------------------------------
TypeOK ==
  /\ client \in {"open", "closed", "reset", "aborted"}
  /\ sent \in Seq(Packet) /\ offered \in Seq(OfferedPacket)
  /\ rfront \in 0..ReadSize /\ rrear \in 0..ReadSize /\ Len(rdata) = R!UsedSize
  /\ wfront \in 0..WriteSize /\ wrear \in 0..WriteSize /\ Len(wdata) = W!UsedSize
  /\ session \in {"user", "disconnected", "deleted"}
  /\ pc \in {"accept", "select", "read", "parse", "write", "delete"}
  /\ rSet \in BOOLEAN /\ wSet \in BOOLEAN /\ serverShut \in BOOLEAN

\* Framing: however recv cuts the stream, what packetProc was given are exactly
\* the first packets the client sent, and the unread bytes still start at a
\* packet boundary.
PacketsAreFramed ==
  /\ \A i \in DOMAIN handled : i <= Len(sent) /\ handled[i] = Encode(sent[i])
  /\ IsPrefix(FlattenSeq(handled) \o rdata, Bytes(sent))

\* Between passes no complete packet waits in readQ, except behind one of an
\* unknown type (packetProc's refusal leaves the loop with packets unread).
NoPacketIsLeftWaiting ==
  pc = "select" /\ session = "user" /\ HeaderThere /\ PacketThere =>
    \E i \in DOMAIN sent : sent[i].kind = "unknown"

\* However send takes the queued bytes, and though a packet may be cut short or
\* dropped and others queued behind the cut, a client never receives anything
\* but the first bytes of the server's packets, in order.
ClientSeesAPrefix == IsPrefix(delivered, Bytes(offered))

\* Every packet of known type the client sent is handled, if the session and
\* the server last and the type of no packet is unknown.
EveryPacketIsHandled ==
  \A k \in 1..MaxPackets :
    Len(sent) >= k ~>
      \/ Len(handled) >= k
      \/ session # "user" \/ client # "open" \/ serverShut
      \/ \E i \in DOMAIN sent : sent[i].kind = "unknown"

\* Network.cpp drops a session when it closed, when it broke a rule, or when a
\* ring is full "of data that cannot be processed".  So a well-behaved client
\* whose rings have room stays.
WellBehaved == client = "open" /\ \A i \in DOMAIN sent : sent[i].kind = "ok"

HealthyClientIsKept ==
  WellBehaved /\ offered = <<>> => session = "user"
=============================================================================
