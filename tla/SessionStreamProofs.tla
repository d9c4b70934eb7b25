------------------------- MODULE SessionStreamProofs -------------------------
(* Proofs about SessionStream, for every size of the two rings, every number *)
(* and size of packets, and every way recv and send cut the streams: what is *)
(* handled are the first packets the client sent, no complete packet is left *)
(* behind, and what the client gets are the first bytes it was to get.       *)
EXTENDS SessionStream, SequenceLemmas

-----------------------------------------------------------------------------
\* The sizes of a ring of S + 1 slots, and the moves of its indices.
UsedOf(S, f, r) == IF r >= f THEN r - f ELSE S - f + r + 1
FreeOf(S, f, r) == IF r >= f THEN S - r + f ELSE f - r - 1

LEMMA OneLap ==
  ASSUME NEW N \in Nat \ {0}, NEW a \in 0..(2 * N - 1)
  PROVE  a % N = IF a < N THEN a ELSE a - N
<1>1. CASE a < N
  BY <1>1
<1>2. CASE ~(a < N)
  BY <1>2
<1> QED
  BY <1>1, <1>2

LEMMA Wrapped ==
  ASSUME NEW S \in Nat \ {0}, NEW i \in 0..S, NEW n \in 0..S
  PROVE  (i + n) % (S + 1) = IF i + n <= S THEN i + n ELSE i + n - (S + 1)
<1> DEFINE N == S + 1
           a == i + n
<1>1. N \in Nat \ {0} /\ a \in 0..(2 * N - 1)
  OBVIOUS
<1>2. a % N = IF a < N THEN a ELSE a - N
  <2> HIDE DEF N, a
  <2> QED
    BY <1>1, OneLap
<1> QED
  BY <1>2

LEMMA RingFills ==
  ASSUME NEW S \in Nat \ {0}, NEW f \in 0..S, NEW r \in 0..S,
         NEW n \in Nat, n <= FreeOf(S, f, r)
  PROVE  /\ (r + n) % (S + 1) \in 0..S
         /\ UsedOf(S, f, (r + n) % (S + 1)) = UsedOf(S, f, r) + n
<1> DEFINE k == (r + n) % (S + 1)
<1>1. n \in 0..S
  BY DEF FreeOf
<1>2. k = IF r + n <= S THEN r + n ELSE r + n - (S + 1)
  BY <1>1, Wrapped
<1> HIDE DEF k
<1>3. k \in 0..S /\ UsedOf(S, f, k) = UsedOf(S, f, r) + n
  <2>1. CASE r >= f
    BY <1>1, <1>2, <2>1 DEF UsedOf, FreeOf
  <2>2. CASE ~(r >= f)
    BY <1>1, <1>2, <2>2 DEF UsedOf, FreeOf
  <2> QED
    BY <2>1, <2>2
<1> QED
  BY <1>3 DEF k

LEMMA RingDrains ==
  ASSUME NEW S \in Nat \ {0}, NEW f \in 0..S, NEW r \in 0..S,
         NEW n \in Nat, n <= UsedOf(S, f, r)
  PROVE  /\ (f + n) % (S + 1) \in 0..S
         /\ UsedOf(S, (f + n) % (S + 1), r) = UsedOf(S, f, r) - n
<1> DEFINE k == (f + n) % (S + 1)
<1>1. n \in 0..S
  BY DEF UsedOf
<1>2. k = IF f + n <= S THEN f + n ELSE f + n - (S + 1)
  BY <1>1, Wrapped
<1> HIDE DEF k
<1>3. k \in 0..S /\ UsedOf(S, k, r) = UsedOf(S, f, r) - n
  <2>1. CASE r >= f
    BY <1>1, <1>2, <2>1 DEF UsedOf
  <2>2. CASE ~(r >= f)
    BY <1>1, <1>2, <2>2 DEF UsedOf
  <2> QED
    BY <2>1, <2>2
<1> QED
  BY <1>3 DEF k

\* The two rings of the session, with those operators.
Indices == /\ rfront \in 0..ReadSize /\ rrear \in 0..ReadSize
           /\ wfront \in 0..WriteSize /\ wrear \in 0..WriteSize

LEMMA RingSizes ==
  ASSUME Indices
  PROVE  /\ R!UsedSize = UsedOf(ReadSize, rfront, rrear)
         /\ R!DirectEnqueueSize <= FreeOf(ReadSize, rfront, rrear)
         /\ W!UsedSize = UsedOf(WriteSize, wfront, wrear)
         /\ W!FreeSize = FreeOf(WriteSize, wfront, wrear)
         /\ W!FreeSize \in Nat /\ W!FreeSize + W!UsedSize = WriteSize
         /\ W!DirectDequeueSize \in Nat /\ W!DirectDequeueSize <= W!UsedSize
         /\ R!DirectEnqueueSize \in Nat
BY StreamAssumption
DEF Indices, UsedOf, FreeOf, R!UsedSize, R!DirectEnqueueSize, W!UsedSize, W!FreeSize,
    W!DirectDequeueSize

-----------------------------------------------------------------------------
\* Packets on the wire.
Kind == {"ok", "offrange", "unknown"}
WireByte == ({"code", "data"} \cup Kind) \X Nat
AnyPacket == [id : Nat, kind : Kind, size : Nat]

LEMMA EncodeType ==
  ASSUME NEW p \in AnyPacket
  PROVE  /\ Encode(p) \in Seq(WireByte) /\ Len(Encode(p)) = 2 + p.size
         /\ Encode(p)[1] = Code /\ Encode(p)[2] = <<p.kind, p.size>>
<1> DEFINE header == <<Code, <<p.kind, p.size>>>>
           data == [i \in 1..p.size |-> <<"data", p.id>>]
<1>1. p.size \in Nat /\ p.id \in Nat /\ p.kind \in Kind
  BY DEF AnyPacket
<1>2. header \in Seq(WireByte) /\ Len(header) = 2
      /\ header[1] = Code /\ header[2] = <<p.kind, p.size>>
  BY <1>1 DEF Code, WireByte
<1>3. data \in [1..p.size -> WireByte]
  BY <1>1 DEF WireByte
<1>4. data \in Seq(WireByte)
  BY <1>1, <1>3, SeqDef
<1>5. Len(data) = p.size
  <2>1. DOMAIN data = 1..Len(data) /\ Len(data) \in Nat
    BY <1>4, LenProperties
  <2> QED
    BY <1>1, <2>1
<1> HIDE DEF header, data
<1>6. /\ header \o data \in Seq(WireByte) /\ Len(header \o data) = 2 + p.size
      /\ \A i \in 1..2 + p.size :
           (header \o data)[i] = IF i <= 2 THEN header[i] ELSE data[i - 2]
  <2>1. /\ header \o data \in Seq(WireByte)
        /\ Len(header \o data) = Len(header) + Len(data)
        /\ \A i \in 1..Len(header) + Len(data) :
             (header \o data)[i] =
               IF i <= Len(header) THEN header[i] ELSE data[i - Len(header)]
    BY <1>2, <1>4, ConcatProperties
  <2> QED
    BY <1>2, <1>5, <2>1
<1>7. 1 \in 1..2 + p.size /\ 2 \in 1..2 + p.size
  BY <1>1
<1>8. Encode(p) = header \o data
  BY DEF Encode, header, data
<1> QED
  BY <1>2, <1>6, <1>7, <1>8

Encoded(ps) == [i \in DOMAIN ps |-> Encode(ps[i])]

LEMMA EncodedType ==
  ASSUME NEW ps \in Seq(AnyPacket)
  PROVE  /\ Encoded(ps) \in Seq(Seq(WireByte)) /\ Len(Encoded(ps)) = Len(ps)
         /\ \A i \in 1..Len(ps) : Encoded(ps)[i] = Encode(ps[i])
         /\ Bytes(ps) = FlattenSeq(Encoded(ps)) /\ Bytes(ps) \in Seq(WireByte)
<1>1. Len(ps) \in Nat /\ DOMAIN ps = 1..Len(ps)
  BY LenProperties
<1>2. \A i \in 1..Len(ps) : Encode(ps[i]) \in Seq(WireByte)
  BY ElementOfSeq, EncodeType
<1>3. Encoded(ps) \in [1..Len(ps) -> Seq(WireByte)]
  BY <1>1, <1>2 DEF Encoded
<1>4. Encoded(ps) \in Seq(Seq(WireByte))
  BY <1>1, <1>3, SeqDef
<1>5. Len(Encoded(ps)) = Len(ps)
  <2>1. DOMAIN Encoded(ps) = 1..Len(Encoded(ps)) /\ Len(Encoded(ps)) \in Nat
    BY <1>4, LenProperties
  <2> QED
    BY <1>1, <1>3, <2>1
<1>6. Bytes(ps) = FlattenSeq(Encoded(ps))
  BY DEF Bytes, Encoded
<1> QED
  BY <1>1, <1>4, <1>5, <1>6, FlattenType DEF Encoded

\* One more packet on the wire.
LEMMA BytesAppend ==
  ASSUME NEW ps \in Seq(AnyPacket), NEW p \in AnyPacket
  PROVE  Bytes(Append(ps, p)) = Bytes(ps) \o Encode(p)
<1> DEFINE qs == Append(ps, p)
<1>1. /\ Len(ps) \in Nat /\ qs \in Seq(AnyPacket) /\ Len(qs) = Len(ps) + 1
      /\ qs[Len(ps) + 1] = p /\ \A i \in 1..Len(ps) : qs[i] = ps[i]
  BY LenProperties, AppendProperties
<1>2. Encode(p) \in Seq(WireByte)
  BY EncodeType
<1>3. /\ Encoded(ps) \in Seq(Seq(WireByte)) /\ Len(Encoded(ps)) = Len(ps)
      /\ \A i \in 1..Len(ps) : Encoded(ps)[i] = Encode(ps[i])
      /\ Bytes(ps) = FlattenSeq(Encoded(ps))
  BY EncodedType
<1> HIDE DEF qs
<1>4. /\ Encoded(qs) \in Seq(Seq(WireByte)) /\ Len(Encoded(qs)) = Len(ps) + 1
      /\ \A i \in 1..Len(ps) + 1 : Encoded(qs)[i] = Encode(qs[i])
      /\ Bytes(qs) = FlattenSeq(Encoded(qs))
  BY <1>1, EncodedType
<1> DEFINE more == Append(Encoded(ps), Encode(p))
<1>5. /\ more \in Seq(Seq(WireByte)) /\ Len(more) = Len(ps) + 1
      /\ more[Len(ps) + 1] = Encode(p)
      /\ \A i \in 1..Len(ps) : more[i] = Encoded(ps)[i]
  BY <1>2, <1>3, AppendProperties
<1> HIDE DEF more
<1>6. \A i \in 1..Len(ps) + 1 : Encoded(qs)[i] = more[i]
  <2>1. ASSUME NEW i \in 1..Len(ps) + 1, i # Len(ps) + 1
        PROVE  Encoded(qs)[i] = more[i]
    <3>1. i \in 1..Len(ps)
      BY <1>1, <2>1
    <3> QED
      BY <1>1, <1>3, <1>4, <1>5, <3>1
  <2>2. Len(ps) + 1 \in 1..Len(ps) + 1
    BY <1>1
  <2> QED
    BY <1>1, <1>4, <1>5, <2>1, <2>2
<1>7. Encoded(qs) = more
  BY <1>4, <1>5, <1>6, SeqEqual
<1>8. FlattenSeq(more) = FlattenSeq(Encoded(ps)) \o Encode(p)
  BY <1>2, <1>3, FlattenAppend DEF more
<1> QED
  BY <1>3, <1>4, <1>7, <1>8 DEF qs

-----------------------------------------------------------------------------
\* What the streams consist of, besides what TypeOK says.
Typed ==
  /\ TypeOK
  /\ inbox \in Seq(WireByte) /\ rdata \in Seq(WireByte)
  /\ wdata \in Seq(WireByte) /\ delivered \in Seq(WireByte)
  /\ handled \in Seq(Seq(WireByte))

LEMMA PacketsAreAny ==
  ASSUME Typed
  PROVE  /\ sent \in Seq(AnyPacket) /\ offered \in Seq(AnyPacket)
         /\ Offered \in OfferedPacket /\ Offered \in AnyPacket
         /\ Len(sent) \in Nat /\ Len(offered) \in Nat
<1>1. Packet \subseteq AnyPacket
  BY StreamAssumption DEF Packet, AnyPacket, Kind
<1>2. OfferedPacket \subseteq AnyPacket
  BY DEF OfferedPacket, AnyPacket, Kind
<1>3. sent \in Seq(Packet) /\ offered \in Seq(OfferedPacket)
  BY DEF Typed, TypeOK
<1>4. Len(sent) \in Nat /\ Len(offered) \in Nat
  BY <1>3, LenProperties
<1>5. Offered \in OfferedPacket
  BY <1>4 DEF Offered, OfferedPacket
<1> QED
  BY <1>1, <1>2, <1>3, <1>4, <1>5, SeqMonotonic

LEMMA TypedSizes ==
  ASSUME Typed
  PROVE  /\ Indices
         /\ Len(rdata) = UsedOf(ReadSize, rfront, rrear)
         /\ Len(wdata) = UsedOf(WriteSize, wfront, wrear)
         /\ R!DirectEnqueueSize \in Nat
         /\ R!DirectEnqueueSize <= FreeOf(ReadSize, rfront, rrear)
         /\ W!FreeSize \in Nat /\ W!FreeSize = FreeOf(WriteSize, wfront, wrear)
         /\ W!FreeSize + Len(wdata) = WriteSize
         /\ W!DirectDequeueSize \in Nat /\ W!DirectDequeueSize <= Len(wdata)
<1>1. /\ Indices /\ Len(rdata) = R!UsedSize /\ Len(wdata) = W!UsedSize
  BY DEF Typed, TypeOK, Indices
<1> QED
  BY <1>1, RingSizes

\* What is queued for the client of one more packet: all of it, or what fits.
LEMMA EnqueueOfferQueues ==
  ASSUME Typed, EnqueueOffer
  PROVE  /\ offered' \in Seq(OfferedPacket) /\ wdata' \in Seq(WireByte)
         /\ wrear' \in 0..WriteSize /\ Len(wdata') = UsedOf(WriteSize, wfront, wrear')
         /\ Bytes(offered') = Bytes(offered) \o Encode(Offered)
         /\ Accepts \in 0..Len(Encode(Offered)) /\ Len(Encode(Offered)) \in Nat
         /\ Encode(Offered) \in Seq(WireByte)
         /\ wdata' = wdata \o SubSeq(Encode(Offered), 1, Accepts)
         /\ Accepts < Len(Encode(Offered)) => Len(wdata') = WriteSize
         /\ Len(wdata) = WriteSize => Accepts = 0
<1>1. /\ offered \in Seq(AnyPacket) /\ Offered \in OfferedPacket /\ Offered \in AnyPacket
      /\ offered \in Seq(OfferedPacket) /\ wdata \in Seq(WireByte)
  BY PacketsAreAny DEF Typed, TypeOK
<1>2. /\ Indices /\ Len(wdata) = UsedOf(WriteSize, wfront, wrear)
      /\ W!FreeSize \in Nat /\ W!FreeSize = FreeOf(WriteSize, wfront, wrear)
      /\ W!FreeSize + Len(wdata) = WriteSize
  BY TypedSizes
<1>3. offered' \in Seq(OfferedPacket) /\ Bytes(offered') = Bytes(offered) \o Encode(Offered)
  BY <1>1, BytesAppend, AppendProperties DEF EnqueueOffer
<1> DEFINE e == Encode(Offered)
<1>4. e \in Seq(WireByte) /\ Len(e) \in Nat /\ Len(e) # 0
  <2>1. e \in Seq(WireByte) /\ Len(e) = 2 + Offered.size /\ Offered.size = 1
    BY <1>1, EncodeType DEF Offered
  <2> QED
    BY <2>1
<1> HIDE DEF e
<1>5. /\ Accepts = IF W!FreeSize >= Len(e) THEN Len(e) ELSE W!FreeSize
      /\ wdata' = wdata \o SubSeq(e, 1, Accepts)
      /\ wrear' = (wrear + Accepts) % (WriteSize + 1)
  BY DEF EnqueueOffer, Accepts, W!Advance, e
<1>6. Accepts \in Nat /\ Accepts <= W!FreeSize /\ Accepts \in 0..Len(e)
  BY <1>2, <1>4, <1>5
<1>7. SubSeq(e, 1, Accepts) \in Seq(WireByte) /\ Len(SubSeq(e, 1, Accepts)) = Accepts
  BY <1>4, <1>6, TakeDrop
<1>8. wdata' \in Seq(WireByte) /\ Len(wdata') = Len(wdata) + Accepts
  BY <1>1, <1>5, <1>7, ConcatProperties
<1>9. /\ (wrear + Accepts) % (WriteSize + 1) \in 0..WriteSize
      /\ UsedOf(WriteSize, wfront, (wrear + Accepts) % (WriteSize + 1))
           = UsedOf(WriteSize, wfront, wrear) + Accepts
  BY <1>2, <1>6, RingFills, StreamAssumption DEF Indices
<1>10. Len(wdata') = UsedOf(WriteSize, wfront, wrear') /\ wrear' \in 0..WriteSize
  BY <1>2, <1>5, <1>8, <1>9
<1>11. /\ Accepts < Len(e) => Len(wdata') = WriteSize
       /\ Len(wdata) = WriteSize => Accepts = 0
  <2>1. Len(wdata) \in Nat /\ WriteSize \in Nat
    BY <1>1, LenProperties, StreamAssumption
  <2> QED
    BY <1>2, <1>4, <1>5, <1>8, <2>1
<1> QED
  BY <1>1, <1>3, <1>4, <1>5, <1>6, <1>8, <1>10, <1>11 DEF e

-----------------------------------------------------------------------------
LEMMA InitTyped == ASSUME Init PROVE Typed
<1>1. Len(<<>>) = 0
  OBVIOUS
<1>2. /\ <<>> \in Seq(WireByte) /\ <<>> \in Seq(Seq(WireByte))
      /\ <<>> \in Seq(Packet) /\ <<>> \in Seq(OfferedPacket)
  BY EmptySeq
<1>3. 0 \in 0..ReadSize /\ 0 \in 0..WriteSize
  BY StreamAssumption
<1>4. R!UsedSize = 0 /\ W!UsedSize = 0
  BY DEF Init, R!UsedSize, W!UsedSize
<1>5. Len(rdata) = R!UsedSize /\ Len(wdata) = W!UsedSize
  BY <1>1, <1>4, Zenon DEF Init
<1> QED
  BY <1>2, <1>3, <1>5 DEF Init, Typed, TypeOK

\* Steps that leave the streams alone.
Settled == UNCHANGED <<sent, inbox, readVars, handled, offered, writeVars>>

LEMMA SettledTyped ==
  ASSUME Typed, Settled,
         client' \in {"open", "closed", "reset", "aborted"},
         session' \in {"user", "disconnected", "deleted"},
         pc' \in {"accept", "select", "read", "parse", "write", "delete"},
         rSet' \in BOOLEAN, wSet' \in BOOLEAN, serverShut' \in BOOLEAN
  PROVE  Typed'
BY DEF Typed, TypeOK, Settled, readVars, writeVars, R!UsedSize, W!UsedSize

LEMMA ClientSendTyped ==
  ASSUME Typed, NEW kind \in {"ok", "offrange", "unknown"}, NEW n \in Sizes,
         ClientSend(kind, n)
  PROVE  Typed'
<1> DEFINE p == [id |-> Len(sent) + 1, kind |-> kind, size |-> n]
<1>1. p \in Packet /\ p \in AnyPacket
  <2>1. Len(sent) + 1 \in Nat /\ n \in Nat
    BY PacketsAreAny, StreamAssumption
  <2> QED
    BY <2>1 DEF Packet, AnyPacket, Kind
<1>2. Encode(p) \in Seq(WireByte)
  BY <1>1, EncodeType
<1>3. sent' = Append(sent, p) /\ inbox' = inbox \o Encode(p)
  BY DEF ClientSend
<1> HIDE DEF p
<1>4. sent' \in Seq(Packet) /\ inbox' \in Seq(WireByte)
  BY <1>1, <1>2, <1>3, AppendProperties, ConcatProperties DEF Typed, TypeOK
<1> QED
  BY <1>4 DEF Typed, TypeOK, ClientSend, readVars, writeVars, passVars, R!UsedSize, W!UsedSize

LEMMA ClientLeaveTyped ==
  ASSUME Typed, NEW how \in {"closed", "reset", "aborted"}, ClientLeave(how)
  PROVE  Typed'
<1>1. inbox' \in Seq(WireByte)
  BY EmptySeq DEF Typed, ClientLeave
<1> QED
  BY <1>1 DEF Typed, TypeOK, ClientLeave, readVars, writeVars, passVars, R!UsedSize, W!UsedSize

LEMMA OfferTyped ==
  ASSUME Typed, unicast \/ broadcast
  PROVE  Typed'
<1>1. EnqueueOffer
  BY DEF unicast, broadcast
<1>2. /\ offered' \in Seq(OfferedPacket) /\ wdata' \in Seq(WireByte)
      /\ wrear' \in 0..WriteSize /\ Len(wdata') = UsedOf(WriteSize, wfront, wrear')
  BY <1>1, EnqueueOfferQueues
<1>3. wfront' = wfront /\ delivered' = delivered
  BY <1>1 DEF EnqueueOffer
<1>4. Len(wdata') = W!UsedSize'
  BY <1>2, <1>3 DEF W!UsedSize, UsedOf
<1>5. /\ session' \in {"user", "disconnected", "deleted"}
      /\ serverShut' \in BOOLEAN
  BY DEF unicast, broadcast, disconnect, Typed, TypeOK
<1>6. UNCHANGED <<clientVars, inbox, readVars, handled, passVars>>
  BY DEF unicast, broadcast
<1> QED
  BY <1>2, <1>3, <1>4, <1>5, <1>6
  DEF Typed, TypeOK, clientVars, readVars, passVars, R!UsedSize

LEMMA RecvTyped ==
  ASSUME Typed, NEW n \in 0..ReadSize, recv(n)
  PROVE  Typed'
<1>0. n \in Nat
  BY StreamAssumption
<1>1. /\ UNCHANGED <<clientVars, rfront, handled, offered, writeVars, rSet, wSet>>
      /\ pc' \in {"write", "parse"}
      /\ session' \in {"user", "disconnected", "deleted"} /\ serverShut' \in BOOLEAN
  BY DEF recv, disconnect, Typed, TypeOK
<1>2. /\ inbox' \in Seq(WireByte) /\ rdata' \in Seq(WireByte) /\ rrear' \in 0..ReadSize
      /\ Len(rdata') = UsedOf(ReadSize, rfront, rrear')
  <2>1. CASE UNCHANGED <<inbox, rdata, rrear>>
    BY <2>1, TypedSizes DEF Typed, TypeOK
  <2>2. CASE /\ n \in 1..Len(inbox) /\ n <= R!DirectEnqueueSize
             /\ inbox' = SubSeq(inbox, n + 1, Len(inbox))
             /\ rdata' = rdata \o SubSeq(inbox, 1, n)
             /\ rrear' = R!Advance(rrear, n)
    <3>1. n \in 0..Len(inbox) /\ inbox \in Seq(WireByte) /\ rdata \in Seq(WireByte)
      BY <2>2 DEF Typed
    <3>2. /\ SubSeq(inbox, 1, n) \in Seq(WireByte) /\ Len(SubSeq(inbox, 1, n)) = n
          /\ SubSeq(inbox, n + 1, Len(inbox)) \in Seq(WireByte)
      BY <3>1, TakeDrop
    <3>3. rdata' \in Seq(WireByte) /\ Len(rdata') = Len(rdata) + n
      BY <2>2, <3>1, <3>2, ConcatProperties
    <3>4. /\ Indices /\ n <= FreeOf(ReadSize, rfront, rrear)
          /\ Len(rdata) = UsedOf(ReadSize, rfront, rrear)
      <4>1. Indices /\ Len(rdata) = UsedOf(ReadSize, rfront, rrear)
        BY TypedSizes
      <4>2. FreeOf(ReadSize, rfront, rrear) \in Int
        BY <4>1, StreamAssumption DEF FreeOf, Indices
      <4>3. /\ R!DirectEnqueueSize \in Nat
            /\ R!DirectEnqueueSize <= FreeOf(ReadSize, rfront, rrear)
        BY TypedSizes
      <4>4. n <= R!DirectEnqueueSize
        BY <2>2
      <4> QED
        BY <1>0, <4>1, <4>2, <4>3, <4>4
    <3>5. /\ (rrear + n) % (ReadSize + 1) \in 0..ReadSize
          /\ UsedOf(ReadSize, rfront, (rrear + n) % (ReadSize + 1))
               = UsedOf(ReadSize, rfront, rrear) + n
      BY <1>0, <3>4, RingFills, StreamAssumption DEF Indices
    <3>6. rrear' = (rrear + n) % (ReadSize + 1)
      BY <2>2 DEF R!Advance
    <3> QED
      BY <2>2, <3>2, <3>3, <3>4, <3>5, <3>6
  <2> QED
    BY <2>1, <2>2 DEF recv
<1>3. Len(rdata') = R!UsedSize'
  BY <1>1, <1>2 DEF R!UsedSize, UsedOf
<1> QED
  BY <1>1, <1>2, <1>3 DEF Typed, TypeOK, clientVars, writeVars, W!UsedSize

LEMMA ParseTyped ==
  ASSUME Typed, ParsePacket, AnnouncedSize \in Nat
  PROVE  Typed'
<1> DEFINE n == HeaderSize + AnnouncedSize
<1>1. /\ rdata \in Seq(WireByte) /\ handled \in Seq(Seq(WireByte)) /\ n \in Nat
      /\ n \in 0..Len(rdata)
  BY DEF Typed, ParsePacket, PacketThere, HeaderSize
<1>2. /\ handled' = Append(handled, SubSeq(rdata, 1, n))
      /\ rdata' = SubSeq(rdata, n + 1, Len(rdata))
      /\ rfront' = (rfront + n) % (ReadSize + 1)
  BY DEF ParsePacket, R!Advance
<1> HIDE DEF n
<1>3. /\ SubSeq(rdata, 1, n) \in Seq(WireByte)
      /\ rdata' \in Seq(WireByte) /\ Len(rdata') = Len(rdata) - n
  BY <1>1, <1>2, TakeDrop
<1>4. handled' \in Seq(Seq(WireByte))
  BY <1>1, <1>2, <1>3, AppendProperties
<1>5. /\ Indices /\ Len(rdata) = UsedOf(ReadSize, rfront, rrear)
      /\ n <= UsedOf(ReadSize, rfront, rrear)
  BY <1>1, TypedSizes
<1>6. /\ (rfront + n) % (ReadSize + 1) \in 0..ReadSize
      /\ UsedOf(ReadSize, (rfront + n) % (ReadSize + 1), rrear)
           = UsedOf(ReadSize, rfront, rrear) - n
  BY <1>1, <1>5, RingDrains, StreamAssumption DEF Indices
<1>7. /\ UNCHANGED <<clientVars, inbox, rrear, offered, writeVars, rSet, wSet, serverShut>>
      /\ pc' \in {"write", "parse"} /\ session' \in {"user", "disconnected", "deleted"}
  BY DEF ParsePacket, disconnect, Typed, TypeOK
<1>8. rfront' \in 0..ReadSize /\ Len(rdata') = R!UsedSize'
  BY <1>2, <1>3, <1>5, <1>6, <1>7 DEF R!UsedSize, UsedOf
<1> QED
  BY <1>3, <1>4, <1>7, <1>8 DEF Typed, TypeOK, clientVars, writeVars, W!UsedSize

LEMMA WriteTyped ==
  ASSUME Typed, NEW n \in 0..WriteSize, writeProc(n)
  PROVE  Typed'
<1>0. n \in Nat
  BY StreamAssumption
<1>1. /\ UNCHANGED <<clientVars, inbox, readVars, handled, offered, rSet, wSet, wrear>>
      /\ pc' = "delete"
      /\ session' \in {"user", "disconnected", "deleted"} /\ serverShut' \in BOOLEAN
  BY DEF writeProc, disconnect, writeVars, Typed, TypeOK
<1>2. /\ wdata' \in Seq(WireByte) /\ delivered' \in Seq(WireByte) /\ wfront' \in 0..WriteSize
      /\ Len(wdata') = UsedOf(WriteSize, wfront', wrear)
  <2>1. CASE UNCHANGED writeVars
    BY <2>1, TypedSizes DEF Typed, TypeOK, writeVars
  <2>2. CASE /\ n <= W!DirectDequeueSize
             /\ delivered' = delivered \o SubSeq(wdata, 1, n)
             /\ wdata' = SubSeq(wdata, n + 1, Len(wdata))
             /\ wfront' = W!Advance(wfront, n)
    <3>1. /\ wdata \in Seq(WireByte) /\ delivered \in Seq(WireByte)
          /\ Len(wdata) = UsedOf(WriteSize, wfront, wrear) /\ Indices
          /\ W!DirectDequeueSize \in Nat /\ W!DirectDequeueSize <= Len(wdata)
          /\ Len(wdata) \in Nat
      BY TypedSizes, LenProperties DEF Typed
    <3>2. n <= Len(wdata) /\ n \in 0..Len(wdata)
      BY <1>0, <2>2, <3>1
    <3>3. /\ SubSeq(wdata, 1, n) \in Seq(WireByte)
          /\ wdata' \in Seq(WireByte) /\ Len(wdata') = Len(wdata) - n
      BY <2>2, <3>1, <3>2, TakeDrop
    <3>4. delivered' \in Seq(WireByte)
      BY <2>2, <3>1, <3>3, ConcatProperties
    <3>5. /\ (wfront + n) % (WriteSize + 1) \in 0..WriteSize
          /\ UsedOf(WriteSize, (wfront + n) % (WriteSize + 1), wrear)
               = UsedOf(WriteSize, wfront, wrear) - n
      BY <1>0, <3>1, <3>2, RingDrains, StreamAssumption DEF Indices
    <3>6. wfront' = (wfront + n) % (WriteSize + 1)
      BY <2>2 DEF W!Advance
    <3> QED
      BY <3>1, <3>3, <3>4, <3>5, <3>6
  <2> QED
    BY <2>1, <2>2 DEF writeProc
<1>3. Len(wdata') = W!UsedSize'
  BY <1>1, <1>2 DEF W!UsedSize, UsedOf
<1> QED
  BY <1>1, <1>2, <1>3 DEF Typed, TypeOK, clientVars, readVars, R!UsedSize

-----------------------------------------------------------------------------
\* The framing of what the server reads: PacketsAreFramed, and nothing between
\* readQ and the socket buffer is lost while the connection is not broken.
Framing ==
  /\ PacketsAreFramed
  /\ client \in {"open", "closed"} =>
       Bytes(sent) = FlattenSeq(handled) \o (rdata \o inbox)

\* If packets were handled in order and bytes are left, they begin the next one.
LEMMA NextPacketIsAhead ==
  ASSUME Typed, Framing, rdata # <<>>
  PROVE  /\ Len(handled) < Len(sent) /\ sent[Len(handled) + 1] \in AnyPacket
         /\ \E later, rest \in Seq(WireByte) :
              /\ rdata \o rest = Encode(sent[Len(handled) + 1]) \o later
              /\ Bytes(sent) = (FlattenSeq(handled) \o rdata) \o rest
              /\ Bytes(sent)
                   = (FlattenSeq(handled) \o Encode(sent[Len(handled) + 1])) \o later
<1> DEFINE h == Len(handled)
           F == FlattenSeq(handled)
           E == Encoded(sent)
           N == Len(sent)
<1>1. /\ sent \in Seq(AnyPacket) /\ N \in Nat
      /\ rdata \in Seq(WireByte) /\ handled \in Seq(Seq(WireByte))
  BY PacketsAreAny DEF Typed
<1>2. /\ E \in Seq(Seq(WireByte)) /\ Len(E) = N
      /\ \A i \in 1..N : E[i] = Encode(sent[i])
      /\ Bytes(sent) = FlattenSeq(E) /\ Bytes(sent) \in Seq(WireByte)
  BY <1>1, EncodedType
<1>3. F \in Seq(WireByte) /\ h \in Nat
  BY <1>1, FlattenType, LenProperties
<1>4. \A i \in 1..h : i <= N /\ handled[i] = Encode(sent[i])
  BY <1>1, LenProperties DEF Framing, PacketsAreFramed
<1>5. F \o rdata \in Seq(WireByte) /\ IsPrefix(F \o rdata, Bytes(sent))
  BY <1>1, <1>3, ConcatProperties DEF Framing, PacketsAreFramed
<1>6. PICK rest \in Seq(WireByte) : Bytes(sent) = (F \o rdata) \o rest
  BY <1>2, <1>5, PrefixHasRest, ZenonT(60)
<1>7. h <= N
  <2>1. CASE h = 0
    BY <1>1, <2>1
  <2>2. CASE h # 0
    BY <1>3, <1>4, <2>2
  <2> QED
    BY <2>1, <2>2
<1> HIDE DEF E, F, h, N
<1>8. \A i \in 1..h : E[i] = handled[i]
  BY <1>1, <1>2, <1>3, <1>4, <1>7
<1>9. h # N
  <2> SUFFICES ASSUME h = N PROVE FALSE
    OBVIOUS
  <2>1. handled = E
    BY <1>1, <1>2, <1>8, SeqEqual DEF h
  <2>2. F = (F \o rdata) \o rest
    BY <1>2, <1>6, <2>1 DEF F
  <2>3. F = F \o (rdata \o rest) /\ rdata \o rest \in Seq(WireByte)
    BY <1>1, <1>3, <2>2, ConcatAssociative, ConcatProperties
  <2>4. rdata \o rest = <<>>
    BY <1>3, <2>3, ConcatEqualIffEmpty
  <2> QED
    BY <1>1, <2>4, ConcatEqualIffEmpty
<1> DEFINE k == h + 1
<1>10. k \in Nat /\ k \in 1..N /\ k \in 0..Len(E) /\ h < N
  BY <1>1, <1>2, <1>3, <1>7, <1>9
<1>11. sent[k] \in AnyPacket
  BY <1>1, <1>10, ElementOfSeq DEF N
<1> DEFINE e == Encode(sent[k])
           first == SubSeq(E, 1, k)
           last == SubSeq(E, k + 1, Len(E))
<1>12. e \in Seq(WireByte)
  BY <1>11, EncodeType
<1>13. /\ first \in Seq(Seq(WireByte)) /\ Len(first) = k
       /\ last \in Seq(Seq(WireByte)) /\ E = first \o last
       /\ \A i \in 1..k : first[i] = E[i]
  <2> HIDE DEF k
  <2> QED
    BY <1>2, <1>10, TakeDrop, SMTT(60)
<1>14. E[k] = e
  BY <1>2, <1>10
<1> HIDE DEF e, first, last
<1> DEFINE more == Append(handled, e)
<1>15. /\ more \in Seq(Seq(WireByte)) /\ Len(more) = k /\ more[k] = e
       /\ \A i \in 1..h : more[i] = handled[i]
  BY <1>1, <1>12, AppendProperties DEF h
<1> HIDE DEF more
<1>16. first = more
  <2>1. ASSUME NEW i \in 1..k PROVE first[i] = more[i]
    <3>1. CASE i = k
      BY <1>13, <1>14, <1>15, <3>1
    <3>2. CASE i # k
      <4>1. i \in 1..h
        BY <1>3, <3>2
      <4> QED
        BY <1>8, <1>13, <1>15, <4>1
    <3> QED
      BY <3>1, <3>2
  <2> HIDE DEF k
  <2> QED
    BY <1>13, <1>15, <2>1, SeqEqual
<1>17. FlattenSeq(first) = F \o e
  BY <1>1, <1>12, <1>16, FlattenAppend DEF more, F
<1> DEFINE later == FlattenSeq(last)
<1>18. Bytes(sent) = (F \o e) \o later /\ later \in Seq(WireByte)
  BY <1>2, <1>13, <1>17, FlattenConcat, FlattenType
<1> HIDE DEF later, k
<1>19. rdata \o rest = e \o later
  <2>1. F \o (rdata \o rest) = F \o (e \o later)
    <3>1. (F \o rdata) \o rest = F \o (rdata \o rest)
      BY <1>1, <1>3, ConcatAssociative
    <3>2. (F \o e) \o later = F \o (e \o later)
      BY <1>3, <1>12, <1>18, ConcatAssociative
    <3> QED
      BY <1>6, <1>18, <3>1, <3>2
  <2>2. rdata \o rest \in Seq(WireByte) /\ e \o later \in Seq(WireByte)
    BY <1>1, <1>12, <1>18, ConcatProperties
  <2> QED
    BY <1>3, <2>1, <2>2, ConcatSimplifications
<1> QED
  BY <1>6, <1>10, <1>11, <1>18, <1>19 DEF e, k, h, F, N

\* So the header is the next packet's, and when all of it is there, the bytes
\* that are dequeued are that packet.
LEMMA HeaderIsNext ==
  ASSUME Typed, Framing, HeaderThere
  PROVE  /\ Len(handled) < Len(sent) /\ CodeRight
         /\ AnnouncedType = sent[Len(handled) + 1].kind
         /\ AnnouncedSize = sent[Len(handled) + 1].size
         /\ sent[Len(handled) + 1] \in AnyPacket
<1>1. rdata \in Seq(WireByte) /\ Len(rdata) \in Nat /\ Len(rdata) >= 2
  BY LenProperties DEF Typed, HeaderThere, HeaderSize
<1>2. rdata # <<>>
  BY <1>1, EmptySeq
<1> DEFINE p == sent[Len(handled) + 1]
<1>3. /\ Len(handled) < Len(sent) /\ p \in AnyPacket
      /\ \E later, rest \in Seq(WireByte) : rdata \o rest = Encode(p) \o later
  BY <1>2, NextPacketIsAhead
<1> HIDE DEF p
<1>4. PICK later, rest \in Seq(WireByte) : rdata \o rest = Encode(p) \o later
  BY <1>3
<1>5. /\ Encode(p) \in Seq(WireByte) /\ Len(Encode(p)) = 2 + p.size /\ p.size \in Nat
      /\ Encode(p)[1] = Code /\ Encode(p)[2] = <<p.kind, p.size>>
  BY <1>3, EncodeType DEF AnyPacket
<1>6. \A i \in 1..2 : rdata[i] = Encode(p)[i]
  <2> SUFFICES ASSUME NEW i \in 1..2 PROVE rdata[i] = Encode(p)[i]
    OBVIOUS
  <2>1. Len(rest) \in Nat /\ Len(later) \in Nat
    BY LenProperties
  <2>2. i \in 1..Len(rdata) + Len(rest) /\ i <= Len(rdata)
    BY <1>1, <2>1
  <2>3. i \in 1..Len(Encode(p)) + Len(later) /\ i <= Len(Encode(p))
    BY <1>5, <2>1
  <2>4. (rdata \o rest)[i] = rdata[i]
    BY <1>1, <2>2, ConcatProperties
  <2>5. (Encode(p) \o later)[i] = Encode(p)[i]
    BY <1>5, <2>3, ConcatProperties
  <2> QED
    BY <1>4, <2>4, <2>5
<1>7. rdata[1] = Code /\ rdata[2] = <<p.kind, p.size>>
  BY <1>5, <1>6
<1> QED
  BY <1>3, <1>7 DEF CodeRight, AnnouncedType, AnnouncedSize, p

LEMMA PacketIsNext ==
  ASSUME Typed, Framing, HeaderThere, PacketThere
  PROVE  LET n == HeaderSize + AnnouncedSize
             e == Encode(sent[Len(handled) + 1])
             more == SubSeq(rdata, n + 1, Len(rdata))
         IN  /\ SubSeq(rdata, 1, n) = e /\ more \in Seq(WireByte)
             /\ e \in Seq(WireByte) /\ rdata = e \o more
             /\ IsPrefix((FlattenSeq(handled) \o e) \o more, Bytes(sent))
<1> DEFINE p == sent[Len(handled) + 1]
           e == Encode(p)
           F == FlattenSeq(handled)
           n == HeaderSize + AnnouncedSize
           more == SubSeq(rdata, n + 1, Len(rdata))
<1>1. p \in AnyPacket /\ AnnouncedSize = p.size
  BY HeaderIsNext
<1>2. e \in Seq(WireByte) /\ Len(e) = 2 + p.size /\ p.size \in Nat
  BY <1>1, EncodeType DEF AnyPacket
<1>3. rdata \in Seq(WireByte) /\ Len(rdata) \in Nat /\ F \in Seq(WireByte)
  BY FlattenType, LenProperties DEF Typed
<1>4. n = Len(e) /\ n \in 0..Len(rdata) /\ n # 0
  BY <1>1, <1>2, <1>3 DEF PacketThere, HeaderSize
<1>5. rdata # <<>>
  BY <1>3, <1>4, EmptySeq
<1>6. PICK later, rest \in Seq(WireByte) :
         /\ rdata \o rest = e \o later
         /\ Bytes(sent) = (F \o e) \o later
  BY <1>5, NextPacketIsAhead
<1> HIDE DEF p, e, F, n
<1>7. /\ SubSeq(rdata, 1, n) \in Seq(WireByte) /\ Len(SubSeq(rdata, 1, n)) = n
      /\ more \in Seq(WireByte) /\ rdata = SubSeq(rdata, 1, n) \o more
  BY <1>3, <1>4, TakeDrop, ZenonT(60)
<1> DEFINE a == SubSeq(rdata, 1, n)
<1> HIDE DEF more, a
<1>8. a = e /\ more \o rest = later
  <2>1. a \o (more \o rest) = e \o later
    <3>1. a \in Seq(WireByte) /\ more \in Seq(WireByte)
      BY <1>7 DEF a
    <3>2. (a \o more) \o rest = a \o (more \o rest)
      BY <3>1
    <3> QED
      BY <1>6, <1>7, <3>2 DEF a
  <2>2. a \in Seq(WireByte) /\ Len(a) = Len(e) /\ more \o rest \in Seq(WireByte)
    BY <1>4, <1>7, ConcatProperties DEF a
  <2> QED
    BY <1>2, <1>6, <2>1, <2>2, SameCut
<1>9. IsPrefix((F \o e) \o more, Bytes(sent))
  <2>1. F \o e \in Seq(WireByte) /\ (F \o e) \o more \in Seq(WireByte)
    BY <1>2, <1>3, <1>7, ConcatProperties
  <2>2. Bytes(sent) = ((F \o e) \o more) \o rest
    <3>1. F \o e \in Seq(WireByte) /\ more \in Seq(WireByte)
      BY <1>7, <2>1
    <3>2. (F \o e) \o (more \o rest) = ((F \o e) \o more) \o rest
      BY <3>1, SMTT(60)
    <3> QED
      BY <1>6, <1>8, <3>2
  <2> QED
    BY <2>1, <2>2, PrefixByRest
<1> QED
  BY <1>2, <1>7, <1>8, <1>9 DEF a, more, n, e, p, F

-----------------------------------------------------------------------------
LEMMA InitFramed == ASSUME Init PROVE Framing
<1>1. <<>> \in Seq(AnyPacket) /\ <<>> \in Seq(WireByte)
  BY EmptySeq
<1>2. Encoded(<<>>) = <<>>
  <2>1. /\ Encoded(<<>>) \in Seq(Seq(WireByte)) /\ Len(Encoded(<<>>)) = Len(<<>>)
    BY <1>1, EncodedType
  <2>2. Len(<<>>) = 0
    OBVIOUS
  <2> QED
    BY <2>1, <2>2, EmptySeq
<1>3. Bytes(<<>>) = <<>>
  BY <1>1, <1>2, EncodedType, FlattenEmpty
<1>4. <<>> \o <<>> = <<>>
  BY <1>1, ConcatEmptySeq
<1>5. IsPrefix(<<>>, <<>>)
  BY <1>1, <1>4, PrefixByRest
<1>6. DOMAIN handled = {}
  BY DEF Init
<1> QED
  BY <1>3, <1>4, <1>5, <1>6, FlattenEmpty DEF Init, Framing, PacketsAreFramed

LEMMA ClientSendFramed ==
  ASSUME Typed, Framing, NEW kind \in {"ok", "offrange", "unknown"}, NEW n \in Sizes,
         ClientSend(kind, n)
  PROVE  Framing'
<1> DEFINE p == [id |-> Len(sent) + 1, kind |-> kind, size |-> n]
           e == Encode(p)
           F == FlattenSeq(handled)
<1>1. p \in AnyPacket
  <2>1. Len(sent) + 1 \in Nat /\ n \in Nat
    BY PacketsAreAny, StreamAssumption
  <2> QED
    BY <2>1 DEF AnyPacket, Kind
<1>2. e \in Seq(WireByte)
  BY <1>1, EncodeType
<1>3. /\ sent' = Append(sent, p) /\ inbox' = inbox \o e /\ client = "open"
      /\ client' = client /\ handled' = handled /\ rdata' = rdata
  BY DEF ClientSend, readVars
<1> HIDE DEF e, p
<1>4. /\ sent \in Seq(AnyPacket) /\ handled \in Seq(Seq(WireByte))
      /\ rdata \in Seq(WireByte) /\ inbox \in Seq(WireByte)
  BY PacketsAreAny DEF Typed
<1>5. Bytes(sent') = Bytes(sent) \o e /\ Bytes(sent) \in Seq(WireByte)
  BY <1>1, <1>3, <1>4, BytesAppend, EncodedType DEF e
<1>6. F \in Seq(WireByte) /\ F \o rdata \in Seq(WireByte)
  BY <1>4, FlattenType, ConcatProperties
<1>7. IsPrefix(F \o rdata, Bytes(sent'))
  <2>1. IsPrefix(F \o rdata, Bytes(sent))
    BY DEF Framing, PacketsAreFramed
  <2> HIDE DEF F
  <2> QED
    BY <1>2, <1>5, <1>6, <2>1, PrefixOfLonger
<1>8. Bytes(sent') = F \o (rdata \o inbox')
  <2>1. Bytes(sent) = F \o (rdata \o inbox)
    BY <1>3 DEF Framing
  <2> HIDE DEF F
  <2>2. (F \o (rdata \o inbox)) \o e = F \o (rdata \o (inbox \o e))
    <3>1. /\ F \in Seq(WireByte) /\ rdata \in Seq(WireByte)
          /\ inbox \in Seq(WireByte) /\ e \in Seq(WireByte)
      BY <1>2, <1>4, <1>6
    <3> QED
      BY <3>1, SMTT(60)
  <2> QED
    BY <1>3, <1>5, <2>1, <2>2
<1>9. \A i \in DOMAIN handled : i <= Len(sent') /\ handled[i] = Encode(sent'[i])
  <2> SUFFICES ASSUME NEW i \in DOMAIN handled
               PROVE  i <= Len(sent') /\ handled[i] = Encode(sent'[i])
    OBVIOUS
  <2>1. i <= Len(sent) /\ handled[i] = Encode(sent[i]) /\ i \in Nat /\ i >= 1
    BY <1>4, LenProperties DEF Framing, PacketsAreFramed
  <2>2. Len(sent) \in Nat /\ i \in 1..Len(sent)
    BY <1>4, <2>1, LenProperties
  <2>3. Len(sent') = Len(sent) + 1 /\ sent'[i] = sent[i]
    BY <1>1, <1>3, <1>4, <2>2, AppendProperties
  <2> QED
    BY <2>1, <2>2, <2>3
<1> QED
  BY <1>3, <1>7, <1>8, <1>9 DEF Framing, PacketsAreFramed

LEMMA ClientLeaveFramed ==
  ASSUME Framing, NEW how \in {"closed", "reset", "aborted"}, ClientLeave(how)
  PROVE  Framing'
BY DEF ClientLeave, Framing, PacketsAreFramed, readVars

LEMMA InputSettledFramed ==
  ASSUME Framing, UNCHANGED <<client, sent, inbox, rdata, handled>>
  PROVE  Framing'
BY DEF Framing, PacketsAreFramed

LEMMA RecvFramed ==
  ASSUME Typed, Framing, NEW n \in 0..ReadSize, recv(n)
  PROVE  Framing'
<1>1. UNCHANGED <<client, sent, handled>>
  BY DEF recv, clientVars
<1>2. CASE UNCHANGED <<inbox, rdata>>
  BY <1>1, <1>2, InputSettledFramed
<1>3. CASE /\ ~RecvFails /\ client # "aborted" /\ n \in 1..Len(inbox)
           /\ inbox' = SubSeq(inbox, n + 1, Len(inbox))
           /\ rdata' = rdata \o SubSeq(inbox, 1, n)
  <2> DEFINE a == SubSeq(inbox, 1, n)
             F == FlattenSeq(handled)
  <2>1. /\ inbox \in Seq(WireByte) /\ rdata \in Seq(WireByte)
        /\ F \in Seq(WireByte)
    BY FlattenType DEF Typed
  <2>2. n \in 0..Len(inbox)
    BY <1>3
  <2>3. a \in Seq(WireByte) /\ inbox' \in Seq(WireByte) /\ inbox = a \o inbox'
    BY <1>3, <2>1, <2>2, TakeDrop
  <2>4. client \in {"open", "closed"}
    BY <1>3 DEF RecvFails, Typed, TypeOK
  <2>5. Bytes(sent) = F \o (rdata \o inbox)
    BY <2>4 DEF Framing
  <2> HIDE DEF F, a
  <2>6. /\ F \o ((rdata \o a) \o inbox') = F \o (rdata \o (a \o inbox'))
        /\ F \o (rdata \o a) \in Seq(WireByte)
        /\ (F \o (rdata \o a)) \o inbox' = F \o (rdata \o (a \o inbox'))
    <3>1. /\ F \in Seq(WireByte) /\ rdata \in Seq(WireByte)
          /\ a \in Seq(WireByte) /\ inbox' \in Seq(WireByte)
      BY <2>1, <2>3
    <3>2. (rdata \o a) \o inbox' = rdata \o (a \o inbox')
      BY <3>1
    <3>5. (F \o (rdata \o a)) \o inbox' = F \o (rdata \o (a \o inbox'))
      BY <3>1, SMTT(60)
    <3>3. rdata \o a \in Seq(WireByte)
      BY <3>1, ConcatProperties
    <3>4. F \o (rdata \o a) \in Seq(WireByte)
      BY <3>1, <3>3, ConcatProperties
    <3> QED
      BY <3>2, <3>4, <3>5
  <2>7. Bytes(sent) = F \o (rdata' \o inbox') /\ Bytes(sent) = (F \o rdata') \o inbox'
    BY <1>3, <2>3, <2>5, <2>6 DEF a
  <2>8. F \o rdata' \in Seq(WireByte)
    BY <1>3, <2>6 DEF a
  <2>9. IsPrefix(F \o rdata', Bytes(sent))
    BY <2>3, <2>7, <2>8, PrefixByRest
  <2> QED
    BY <1>1, <2>7, <2>9 DEF Framing, PacketsAreFramed, F
<1> QED
  BY <1>2, <1>3 DEF recv

LEMMA ParseFramed ==
  ASSUME Typed, Framing, ParsePacket
  PROVE  Framing'
<1> DEFINE n == HeaderSize + AnnouncedSize
           h == Len(handled)
           e == Encode(sent[h + 1])
           F == FlattenSeq(handled)
<1>1. /\ HeaderThere /\ PacketThere /\ UNCHANGED <<client, sent, inbox>>
      /\ handled' = Append(handled, SubSeq(rdata, 1, n))
      /\ rdata' = SubSeq(rdata, n + 1, Len(rdata))
  BY DEF ParsePacket, clientVars
<1>2. /\ SubSeq(rdata, 1, n) = e /\ rdata' \in Seq(WireByte)
      /\ e \in Seq(WireByte) /\ rdata = e \o rdata'
      /\ IsPrefix((F \o e) \o rdata', Bytes(sent))
  BY <1>1, PacketIsNext
<1>3. h < Len(sent) /\ h \in Nat /\ Len(sent) \in Nat
  BY <1>1, HeaderIsNext, PacketsAreAny, LenProperties DEF Typed
<1>4. /\ handled \in Seq(Seq(WireByte)) /\ inbox \in Seq(WireByte)
      /\ F \in Seq(WireByte)
  BY FlattenType DEF Typed
<1>5. handled' = Append(handled, e)
  BY <1>1, <1>2
<1>6. FlattenSeq(handled') = F \o e
  BY <1>2, <1>4, <1>5, FlattenAppend
<1> HIDE DEF F, e, n
<1>7. client \in {"open", "closed"} => Bytes(sent) = (F \o e) \o (rdata' \o inbox)
  <2> SUFFICES ASSUME client \in {"open", "closed"}
               PROVE  Bytes(sent) = (F \o e) \o (rdata' \o inbox)
    OBVIOUS
  <2>1. Bytes(sent) = F \o ((e \o rdata') \o inbox)
    BY <1>2 DEF Framing, F
  <2>2. /\ F \in Seq(WireByte) /\ e \in Seq(WireByte)
        /\ rdata' \in Seq(WireByte) /\ inbox \in Seq(WireByte)
    BY <1>2, <1>4
  <2>3. (F \o e) \o (rdata' \o inbox) = F \o ((e \o rdata') \o inbox)
    BY <2>2, SMTT(60)
  <2> QED
    BY <2>1, <2>3
<1>8. \A i \in DOMAIN handled' : i <= Len(sent) /\ handled'[i] = Encode(sent[i])
  <2>1. /\ handled' \in Seq(Seq(WireByte)) /\ Len(handled') = h + 1 /\ handled'[h + 1] = e
        /\ \A i \in 1..h : handled'[i] = handled[i]
    BY <1>2, <1>4, <1>5, AppendProperties
  <2>2. DOMAIN handled' = 1..h + 1 /\ DOMAIN handled = 1..h
    BY <1>4, <2>1, LenProperties
  <2> SUFFICES ASSUME NEW i \in 1..h + 1
               PROVE  i <= Len(sent) /\ handled'[i] = Encode(sent[i])
    BY <2>2
  <2>3. CASE i = h + 1
    BY <1>3, <2>1, <2>3 DEF e
  <2>4. CASE i # h + 1
    <3>1. i \in 1..h
      BY <1>3, <2>4
    <3> QED
      BY <2>1, <2>2, <3>1 DEF Framing, PacketsAreFramed
  <2> QED
    BY <2>3, <2>4
<1> QED
  BY <1>1, <1>2, <1>6, <1>7, <1>8 DEF Framing, PacketsAreFramed

-----------------------------------------------------------------------------
\* Outside the parsing loop no complete packet is left in readQ of a session
\* that stays, except behind one of an unknown type.
Waiting ==
  HeaderThere /\ PacketThere /\ session = "user" /\ pc # "parse" =>
    \E i \in DOMAIN sent : sent[i].kind = "unknown"

LEMMA InitWaiting == ASSUME Init PROVE Waiting
<1>1. Len(<<>>) = 0
  OBVIOUS
<1>2. Len(rdata) = 0
  BY <1>1, Zenon DEF Init
<1> QED
  BY <1>2 DEF Waiting, HeaderThere, HeaderSize

LEMMA InputSettledWaiting ==
  ASSUME Waiting, UNCHANGED <<sent, rdata>>,
         session' = "user" /\ pc' # "parse" => session = "user" /\ pc # "parse"
  PROVE  Waiting'
BY DEF Waiting, HeaderThere, PacketThere, AnnouncedSize

LEMMA ClientSendWaiting ==
  ASSUME Typed, Waiting, NEW kind \in {"ok", "offrange", "unknown"}, NEW n \in Sizes,
         ClientSend(kind, n)
  PROVE  Waiting'
<1> DEFINE p == [id |-> Len(sent) + 1, kind |-> kind, size |-> n]
<1>1. sent' = Append(sent, p) /\ rdata' = rdata /\ session' = session /\ pc' = pc
  BY DEF ClientSend, readVars, passVars
<1>2. p \in AnyPacket
  <2>1. Len(sent) + 1 \in Nat /\ n \in Nat
    BY PacketsAreAny, StreamAssumption
  <2> QED
    BY <2>1 DEF AnyPacket, Kind
<1> HIDE DEF p
<1>3. ASSUME NEW i \in DOMAIN sent, sent[i].kind = "unknown"
      PROVE  i \in DOMAIN sent' /\ sent'[i].kind = "unknown"
  <2>1. sent \in Seq(AnyPacket) /\ i \in 1..Len(sent) /\ Len(sent) \in Nat
    BY PacketsAreAny, LenProperties
  <2>2. sent' \in Seq(AnyPacket) /\ Len(sent') = Len(sent) + 1 /\ sent'[i] = sent[i]
    BY <1>1, <1>2, <2>1, AppendProperties
  <2>3. i \in 1..Len(sent')
    BY <2>1, <2>2
  <2> QED
    BY <1>3, <2>2, <2>3, LenProperties
<1> QED
  BY <1>1, <1>3 DEF Waiting, HeaderThere, PacketThere, AnnouncedSize

LEMMA ParseWaiting ==
  ASSUME Typed, Framing, ParsePacket
  PROVE  Waiting'
<1> DEFINE k == Len(handled) + 1
<1>1. HeaderThere /\ sent' = sent
  BY DEF ParsePacket, clientVars
<1>2. /\ k - 1 < Len(sent) /\ AnnouncedType = sent[k].kind /\ sent[k] \in AnyPacket
      /\ Len(handled) \in Nat
  BY <1>1, HeaderIsNext, LenProperties DEF Typed
<1>3. k \in DOMAIN sent
  BY <1>2, PacketsAreAny, LenProperties
<1> HIDE DEF k
<1>4. CASE AnnouncedType = "unknown"
  BY <1>1, <1>2, <1>3, <1>4 DEF Waiting
<1>5. CASE AnnouncedType = "offrange"
  <2>1. session' # "user"
    BY <1>5 DEF ParsePacket, disconnect
  <2> QED
    BY <2>1 DEF Waiting
<1>6. CASE AnnouncedType = "ok"
  <2>1. pc' = "parse"
    BY <1>6 DEF ParsePacket
  <2> QED
    BY <2>1 DEF Waiting
<1> QED
  BY <1>2, <1>4, <1>5, <1>6 DEF AnyPacket, Kind

LEMMA ParseDoneWaiting ==
  ASSUME Typed, Framing, ParseDone
  PROVE  Waiting'
<1>1. ~(HeaderThere /\ PacketThere)
  BY HeaderIsNext DEF ParseDone
<1>2. rdata' = rdata
  BY DEF ParseDone, readVars
<1> QED
  BY <1>1, <1>2 DEF Waiting, HeaderThere, PacketThere, AnnouncedSize

-----------------------------------------------------------------------------
\* What the client gets.  A packet that did not fit marks the session as
\* disconnected with writeQ full, so nothing is queued behind the cut before the
\* pass's one send, and the session is deleted before the next.
Outgoing ==
  /\ session = "deleted" => pc = "select"
  /\ \/ delivered \o wdata = Bytes(offered)
     \/ /\ session = "disconnected" /\ pc \in {"accept", "read", "parse", "write"}
        /\ Len(wdata) = WriteSize /\ IsPrefix(delivered \o wdata, Bytes(offered))
     \/ /\ session = "deleted" \/ (session = "disconnected" /\ pc = "delete")
        /\ IsPrefix(delivered, Bytes(offered))

LEMMA InitOutgoing == ASSUME Init PROVE Outgoing
<1>1. <<>> \in Seq(AnyPacket) /\ <<>> \in Seq(WireByte)
  BY EmptySeq
<1>2. Encoded(<<>>) = <<>>
  <2>1. /\ Encoded(<<>>) \in Seq(Seq(WireByte)) /\ Len(Encoded(<<>>)) = Len(<<>>)
    BY <1>1, EncodedType
  <2>2. Len(<<>>) = 0
    OBVIOUS
  <2> QED
    BY <2>1, <2>2, EmptySeq
<1>3. Bytes(<<>>) = <<>>
  BY <1>1, <1>2, EncodedType, FlattenEmpty
<1>4. <<>> \o <<>> = <<>>
  BY <1>1, ConcatEmptySeq
<1> QED
  BY <1>3, <1>4 DEF Init, Outgoing

LEMMA OutgoingTypes ==
  ASSUME Typed
  PROVE  /\ delivered \in Seq(WireByte) /\ wdata \in Seq(WireByte)
         /\ delivered \o wdata \in Seq(WireByte) /\ Bytes(offered) \in Seq(WireByte)
BY PacketsAreAny, EncodedType, ConcatProperties DEF Typed

\* In all three cases the client has a prefix of what it was to get.
LEMMA OutgoingIsPrefix ==
  ASSUME Typed, Outgoing
  PROVE  ClientSeesAPrefix
<1>1. /\ delivered \in Seq(WireByte) /\ wdata \in Seq(WireByte)
      /\ delivered \o wdata \in Seq(WireByte) /\ Bytes(offered) \in Seq(WireByte)
  BY OutgoingTypes
<1>2. IsPrefix(delivered, delivered \o wdata)
  BY <1>1, PrefixByRest
<1>3. CASE delivered \o wdata = Bytes(offered)
  BY <1>2, <1>3 DEF ClientSeesAPrefix
<1>4. CASE IsPrefix(delivered \o wdata, Bytes(offered))
  BY <1>1, <1>2, <1>4, PrefixTransitive DEF ClientSeesAPrefix
<1> QED
  BY <1>3, <1>4 DEF Outgoing, ClientSeesAPrefix

\* A pass only goes on from write to delete and from delete to select, and a
\* disconnected session stays so until it is deleted.
LEMMA OutputSettled ==
  ASSUME Outgoing, UNCHANGED <<offered, wdata, delivered>>,
         session' = "deleted" => session = "deleted",
         session = "deleted" => session' = "deleted",
         session = "disconnected" => session' = "disconnected",
         pc = "select" /\ session = "deleted" => pc' = "select",
         pc \in {"accept", "read", "parse", "write"} /\ session = "disconnected" =>
           pc' \in {"accept", "read", "parse", "write"},
         pc = "delete" /\ session = "disconnected" => pc' = "delete"
  PROVE  Outgoing'
BY DEF Outgoing

LEMMA OfferOutgoing ==
  ASSUME Typed, Outgoing, unicast \/ broadcast
  PROVE  Outgoing'
<1> DEFINE e == Encode(Offered)
           a == SubSeq(e, 1, Accepts)
           z == SubSeq(e, Accepts + 1, Len(e))
           B == Bytes(offered)
<1>1. /\ EnqueueOffer /\ pc' = pc /\ pc \in {"accept", "read", "parse", "delete"}
      /\ session # "deleted"
  BY DEF unicast, broadcast, passVars, Outgoing
<1>2. /\ session' # "deleted" /\ session' \in {"user", "disconnected"}
      /\ session = "disconnected" => session' = "disconnected"
      /\ Accepts < Len(e) => session' = "disconnected"
  BY <1>1 DEF unicast, broadcast, disconnect, Typed, TypeOK
<1>3. delivered' = delivered
  BY <1>1 DEF EnqueueOffer
<1>4. /\ Bytes(offered') = B \o e
      /\ Accepts \in 0..Len(e) /\ Len(e) \in Nat /\ e \in Seq(WireByte)
      /\ wdata' = wdata \o a
      /\ Accepts < Len(e) => Len(wdata') = WriteSize
      /\ Len(wdata) = WriteSize => Accepts = 0
  BY <1>1, EnqueueOfferQueues
<1>5. /\ delivered \in Seq(WireByte) /\ wdata \in Seq(WireByte)
      /\ delivered \o wdata \in Seq(WireByte) /\ B \in Seq(WireByte)
  BY OutgoingTypes
<1> HIDE DEF e, B
<1>6. /\ a \in Seq(WireByte) /\ z \in Seq(WireByte) /\ e = a \o z /\ Len(a) = Accepts
      /\ Len(z) = Len(e) - Accepts
  BY <1>4, TakeDrop, ZenonT(60)
<1> HIDE DEF a, z
<1>7. delivered' \o wdata' = (delivered \o wdata) \o a
  <2>1. delivered \in Seq(WireByte) /\ wdata \in Seq(WireByte) /\ a \in Seq(WireByte)
    BY <1>5, <1>6
  <2>2. (delivered \o wdata) \o a = delivered \o (wdata \o a)
    BY <2>1
  <2> QED
    BY <1>3, <1>4, <2>2
<1>8. CASE delivered \o wdata = B
  <2>1. CASE Accepts = Len(e)
    <3>1. z = <<>>
      BY <1>4, <1>6, <2>1, EmptySeq
    <3>2. a = e
      BY <1>6, <3>1, ConcatEmptySeq
    <3>3. delivered' \o wdata' = Bytes(offered')
      BY <1>4, <1>7, <1>8, <3>2
    <3> QED
      BY <1>2, <3>3 DEF Outgoing
  <2>2. CASE Accepts # Len(e)
    <3>1. Accepts < Len(e) /\ session' = "disconnected" /\ Len(wdata') = WriteSize
      BY <1>2, <1>4, <2>2
    <3>2. B \o e = (B \o a) \o z /\ B \o a \in Seq(WireByte)
      <4>1. B \in Seq(WireByte) /\ a \in Seq(WireByte) /\ z \in Seq(WireByte)
        BY <1>5, <1>6
      <4>2. B \o (a \o z) = (B \o a) \o z
        BY <4>1
      <4> QED
        BY <1>6, <4>1, <4>2, ConcatProperties
    <3>3. IsPrefix(delivered' \o wdata', Bytes(offered'))
      BY <1>4, <1>6, <1>7, <1>8, <3>2, PrefixByRest
    <3>4. delivered' \in Seq(WireByte) /\ wdata' \in Seq(WireByte)
      BY <1>3, <1>4, <1>5, <1>6, ConcatProperties
    <3>5. IsPrefix(delivered', Bytes(offered'))
      <4>1. IsPrefix(delivered', delivered' \o wdata')
        BY <3>4, PrefixByRest
      <4>2. delivered' \o wdata' \in Seq(WireByte) /\ Bytes(offered') \in Seq(WireByte)
        BY <1>4, <1>5, <3>4, ConcatProperties
      <4> QED
        BY <3>3, <3>4, <4>1, <4>2, PrefixTransitive
    <3> QED
      BY <1>1, <3>1, <3>3, <3>5 DEF Outgoing
  <2> QED
    BY <2>1, <2>2
<1>9. CASE /\ session = "disconnected" /\ pc \in {"accept", "read", "parse", "write"}
           /\ Len(wdata) = WriteSize /\ IsPrefix(delivered \o wdata, B)
  <2>1. a = <<>>
    BY <1>4, <1>6, <1>9, EmptySeq
  <2>2. wdata' = wdata /\ delivered' \o wdata' = delivered \o wdata
    BY <1>3, <1>4, <1>5, <2>1, ConcatEmptySeq
  <2>3. IsPrefix(delivered' \o wdata', Bytes(offered'))
    BY <1>4, <1>5, <1>9, <2>2, PrefixOfLonger
  <2> QED
    BY <1>1, <1>2, <1>9, <2>2, <2>3 DEF Outgoing
<1>10. CASE session = "disconnected" /\ pc = "delete" /\ IsPrefix(delivered, B)
  <2>1. IsPrefix(delivered', Bytes(offered'))
    BY <1>3, <1>4, <1>5, <1>10, PrefixOfLonger
  <2> QED
    BY <1>1, <1>2, <1>10, <2>1 DEF Outgoing
<1> QED
  BY <1>1, <1>8, <1>9, <1>10 DEF Outgoing, B

LEMMA WriteOutgoing ==
  ASSUME Typed, Outgoing, NEW n \in 0..WriteSize, writeProc(n)
  PROVE  Outgoing'
<1>0. n \in Nat
  BY StreamAssumption
<1>1. /\ pc = "write" /\ pc' = "delete" /\ offered' = offered
      /\ session # "deleted" /\ session' # "deleted"
      /\ session = "disconnected" => session' = "disconnected"
  BY DEF writeProc, disconnect, Outgoing
<1>2. /\ delivered \in Seq(WireByte) /\ wdata \in Seq(WireByte)
      /\ delivered \o wdata \in Seq(WireByte) /\ Bytes(offered) \in Seq(WireByte)
  BY OutgoingTypes
<1>3. /\ delivered' \in Seq(WireByte) /\ wdata' \in Seq(WireByte)
      /\ delivered' \o wdata' = delivered \o wdata
  <2>1. CASE UNCHANGED writeVars
    BY <1>2, <2>1 DEF writeVars
  <2>2. CASE /\ n <= W!DirectDequeueSize
             /\ delivered' = delivered \o SubSeq(wdata, 1, n)
             /\ wdata' = SubSeq(wdata, n + 1, Len(wdata))
    <3>1. W!DirectDequeueSize \in Nat /\ W!DirectDequeueSize <= Len(wdata)
      BY TypedSizes
    <3>2. n \in 0..Len(wdata)
      BY <1>0, <1>2, <2>2, <3>1, LenProperties
    <3> DEFINE a == SubSeq(wdata, 1, n)
    <3>3. a \in Seq(WireByte) /\ wdata' \in Seq(WireByte) /\ wdata = a \o wdata'
      BY <1>2, <2>2, <3>2, TakeDrop
    <3>4. delivered' = delivered \o a
      BY <2>2
    <3> HIDE DEF a
    <3>5. (delivered \o a) \o wdata' = delivered \o (a \o wdata')
      <4>1. delivered \in Seq(WireByte) /\ a \in Seq(WireByte) /\ wdata' \in Seq(WireByte)
        BY <1>2, <3>3
      <4> QED
        BY <4>1, SMTT(60)
    <3>6. delivered' \in Seq(WireByte)
      BY <1>2, <3>3, <3>4, ConcatProperties
    <3> QED
      BY <3>3, <3>4, <3>5, <3>6
  <2> QED
    BY <2>1, <2>2 DEF writeProc
<1>4. CASE delivered \o wdata = Bytes(offered)
  BY <1>1, <1>3, <1>4 DEF Outgoing
<1>5. CASE session = "disconnected" /\ IsPrefix(delivered \o wdata, Bytes(offered))
  <2>1. IsPrefix(delivered', delivered' \o wdata')
    BY <1>3, PrefixByRest
  <2>2. IsPrefix(delivered', Bytes(offered'))
    BY <1>1, <1>2, <1>3, <1>5, <2>1, PrefixTransitive
  <2> QED
    BY <1>1, <1>5, <2>2 DEF Outgoing
<1> QED
  BY <1>1, <1>4, <1>5 DEF Outgoing

-----------------------------------------------------------------------------
StreamInv == Typed /\ Framing /\ Waiting /\ Outgoing

LEMMA StreamStep ==
  ASSUME StreamInv, [Next]_vars
  PROVE  StreamInv'
<1> USE DEF StreamInv
<1>1. ASSUME NEW kind \in {"ok", "offrange", "unknown"}, NEW n \in Sizes,
             ClientSend(kind, n)
      PROVE  StreamInv'
  <2>1. Typed' /\ Framing' /\ Waiting'
    BY <1>1, ClientSendTyped, ClientSendFramed, ClientSendWaiting
  <2>2. Outgoing'
    BY <1>1, OutputSettled DEF ClientSend, writeVars, passVars
  <2> QED
    BY <2>1, <2>2
<1>2. ASSUME NEW how \in {"closed", "reset", "aborted"}, ClientLeave(how)
      PROVE  StreamInv'
  <2>1. Typed' /\ Framing'
    BY <1>2, ClientLeaveTyped, ClientLeaveFramed
  <2>2. Waiting'
    BY <1>2, InputSettledWaiting DEF ClientLeave, readVars, passVars
  <2>3. Outgoing'
    BY <1>2, OutputSettled DEF ClientLeave, writeVars, passVars
  <2> QED
    BY <2>1, <2>2, <2>3
<1>3. CASE unicast \/ broadcast
  <2>1. Typed' /\ Outgoing'
    BY <1>3, OfferTyped, OfferOutgoing
  <2>2. /\ UNCHANGED <<client, sent, inbox, rdata, handled, pc>>
        /\ session' = "user" => session = "user"
    BY <1>3 DEF unicast, broadcast, disconnect, clientVars, readVars, passVars
  <2>3. Framing' /\ Waiting'
    BY <2>2, InputSettledFramed, InputSettledWaiting
  <2> QED
    BY <2>1, <2>3
<1>4. CASE AcceptDone \/ NotReadable
  <2>1. /\ Settled /\ UNCHANGED <<client, session, rSet, wSet, serverShut>>
        /\ pc \in {"accept", "read"} /\ pc' \in {"read", "write"}
    BY <1>4 DEF AcceptDone, NotReadable, Settled, clientVars
  <2>2. Typed'
    BY <2>1, SettledTyped DEF Typed, TypeOK
  <2>3. Framing' /\ Waiting'
    BY <2>1, InputSettledFramed, InputSettledWaiting DEF Settled, readVars
  <2>4. Outgoing'
    BY <2>1, OutputSettled DEF Settled, writeVars
  <2> QED
    BY <2>2, <2>3, <2>4
<1>5. ASSUME NEW b \in BOOLEAN, Select(b)
      PROVE  StreamInv'
  <2>1. /\ Settled /\ UNCHANGED <<client, session, serverShut>>
        /\ pc = "select" /\ pc' = "read" /\ session # "deleted"
        /\ rSet' \in BOOLEAN /\ wSet' \in BOOLEAN
    BY <1>5 DEF Select, Settled, clientVars, Readable
  <2>2. Typed'
    BY <2>1, SettledTyped DEF Typed, TypeOK
  <2>3. Framing' /\ Waiting'
    BY <2>1, InputSettledFramed, InputSettledWaiting DEF Settled, readVars
  <2>4. Outgoing'
    BY <2>1, OutputSettled DEF Settled, writeVars
  <2> QED
    BY <2>2, <2>3, <2>4
<1>6. ASSUME NEW n \in 0..ReadSize, recv(n)
      PROVE  StreamInv'
  <2>1. Typed' /\ Framing'
    BY <1>6, RecvTyped, RecvFramed
  <2>2. Waiting'
    <3>1. CASE pc' = "parse"
      BY <3>1 DEF Waiting
    <3>2. CASE pc' # "parse"
      <4>1. /\ UNCHANGED <<sent, rdata>> /\ pc = "read"
            /\ session' = "user" => session = "user"
        BY <1>6, <3>2 DEF recv, clientVars, disconnect
      <4> QED
        BY <4>1, InputSettledWaiting
    <3> QED
      BY <3>1, <3>2
  <2>3. Outgoing'
    <3>1. /\ pc = "read" /\ pc' \in {"parse", "write"}
          /\ UNCHANGED <<offered, wdata, delivered>>
          /\ session' = session \/ disconnect
      BY <1>6 DEF recv, writeVars
    <3>2. session # "deleted"
      BY <3>1 DEF Outgoing
    <3> QED
      BY <3>1, <3>2, OutputSettled DEF disconnect
  <2> QED
    BY <2>1, <2>2, <2>3
<1>7. CASE ParsePacket
  <2>1. AnnouncedSize \in Nat
    BY <1>7, HeaderIsNext DEF ParsePacket, AnyPacket
  <2>2. Typed' /\ Framing' /\ Waiting'
    BY <1>7, <2>1, ParseTyped, ParseFramed, ParseWaiting
  <2>3. Outgoing'
    <3>1. /\ pc = "parse" /\ pc' \in {"parse", "write"}
          /\ UNCHANGED <<offered, wdata, delivered>>
          /\ session' = session \/ disconnect
      BY <1>7 DEF ParsePacket, writeVars
    <3>2. session # "deleted"
      BY <3>1 DEF Outgoing
    <3> QED
      BY <3>1, <3>2, OutputSettled DEF disconnect
  <2> QED
    BY <2>2, <2>3
<1>8. CASE ParseDone
  <2>1. /\ Settled /\ UNCHANGED <<client, session, rSet, wSet, serverShut>>
        /\ pc = "parse" /\ pc' = "write"
    BY <1>8 DEF ParseDone, Settled, clientVars
  <2>2. Typed'
    BY <2>1, SettledTyped DEF Typed, TypeOK
  <2>3. Framing' /\ Waiting'
    BY <1>8, <2>1, InputSettledFramed, ParseDoneWaiting DEF Settled, readVars
  <2>4. Outgoing'
    BY <2>1, OutputSettled DEF Settled, writeVars
  <2> QED
    BY <2>2, <2>3, <2>4
<1>9. ASSUME NEW n \in 0..WriteSize, writeProc(n)
      PROVE  StreamInv'
  <2>1. Typed' /\ Outgoing'
    BY <1>9, WriteTyped, WriteOutgoing
  <2>2. /\ UNCHANGED <<client, sent, inbox, rdata, handled>> /\ pc = "write"
        /\ session' = "user" => session = "user"
    BY <1>9 DEF writeProc, disconnect, clientVars, readVars
  <2>3. Framing' /\ Waiting'
    BY <2>2, InputSettledFramed, InputSettledWaiting
  <2> QED
    BY <2>1, <2>3
<1>10. CASE deleteUser
  <2>1. /\ Settled /\ UNCHANGED <<client, rSet, wSet, serverShut>>
        /\ pc = "delete" /\ pc' = "select"
        /\ session' = IF session = "disconnected" THEN "deleted" ELSE session
    BY <1>10 DEF deleteUser, Settled, clientVars
  <2>2. session' \in {"user", "disconnected", "deleted"}
    BY <2>1 DEF Typed, TypeOK
  <2>3. Typed'
    BY <2>1, <2>2, SettledTyped DEF Typed, TypeOK
  <2>4. Framing' /\ Waiting'
    BY <2>1, InputSettledFramed, InputSettledWaiting DEF Settled, readVars
  <2>5. Outgoing'
    <3>1. UNCHANGED <<offered, wdata, delivered>>
      BY <2>1 DEF Settled, writeVars
    <3>2. ClientSeesAPrefix
      BY OutgoingIsPrefix
    <3> QED
      BY <2>1, <3>1, <3>2 DEF Outgoing, ClientSeesAPrefix
  <2> QED
    BY <2>3, <2>4, <2>5
<1>11. CASE UNCHANGED vars
  <2>1. /\ Settled /\ UNCHANGED <<client, session, pc, rSet, wSet, serverShut>>
    BY <1>11 DEF vars, clientVars, passVars, Settled
  <2>2. Typed'
    BY <2>1, SettledTyped DEF Typed, TypeOK
  <2>3. Framing' /\ Waiting' /\ Outgoing'
    BY <2>1, InputSettledFramed, InputSettledWaiting, OutputSettled
    DEF Settled, readVars, writeVars
  <2> QED
    BY <2>2, <2>3
<1> QED
  BY <1>1, <1>2, <1>3, <1>4, <1>5, <1>6, <1>7, <1>8, <1>9, <1>10, <1>11
  DEF Next, Client, Pass, Recv, Write

LEMMA StreamInvariant == Spec => []StreamInv
<1>1. Init => StreamInv
  BY InitTyped, InitFramed, InitWaiting, InitOutgoing DEF StreamInv
<1>2. StreamInv /\ [Next]_vars => StreamInv'
  BY StreamStep
<1> QED
  BY <1>1, <1>2, PTL DEF Spec

\* The indices of both rings stay inside their arrays and always count exactly
\* the bytes that were put in and not yet taken out, whatever is transferred.
THEOREM StreamTypes == Spec => []TypeOK
<1>1. StreamInv => TypeOK
  BY DEF StreamInv, Typed
<1> QED
  BY <1>1, StreamInvariant, PTL

\* Framing: what packetProc was given are exactly the first packets the client
\* sent, for rings and packets of every size and however recv cuts the stream.
THEOREM HandledAsSent == Spec => []PacketsAreFramed
<1>1. StreamInv => PacketsAreFramed
  BY DEF StreamInv, Framing
<1> QED
  BY <1>1, StreamInvariant, PTL

\* readProc's loop leaves no complete packet behind for a session that stays,
\* but behind one of an unknown type.
THEOREM ReadProcDrains == Spec => []NoPacketIsLeftWaiting
<1>1. StreamInv => NoPacketIsLeftWaiting
  BY DEF StreamInv, Waiting, NoPacketIsLeftWaiting
<1> QED
  BY <1>1, StreamInvariant, PTL

\* Though writeQ cuts or drops packets when it is full, the client only ever
\* gets the first bytes of what was queued for it, in order and without a gap.
THEOREM SentInOrder == Spec => []ClientSeesAPrefix
<1>1. StreamInv => ClientSeesAPrefix
  BY OutgoingIsPrefix DEF StreamInv
<1> QED
  BY <1>1, StreamInvariant, PTL
=============================================================================
