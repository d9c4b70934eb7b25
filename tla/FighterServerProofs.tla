------------------------ MODULE FighterServerProofs -------------------------
(* What holds of the fighter server for any number of sessions, packets and  *)
(* any size of writeQ: what it keeps queued for a client, and what that      *)
(* client is told.  The argument goes through the handlers' work on a World: *)
(* a broadcast or a disconnection, which can be within each other, leaves a  *)
(* sound world sound (or the server crashes).                                *)
EXTENDS FighterServer, SequenceLemmas

\* The bytes of a queued message; one that was cut short is a byte.
Weight(m) == IF m.type = "CUT" THEN 1 ELSE Size(m)

\* h[i] bytes are in the first i messages.
Weighs(h, msgs) ==
  /\ h \in [0..Len(msgs) -> Nat]
  /\ h[0] = 0
  /\ \A i \in 1..Len(msgs) : h[i] = h[i - 1] + Weight(msgs[i])
  /\ \A i, j \in 0..Len(msgs) : i <= j => h[i] <= h[j]

QueueSound(q) ==
  /\ q \in [msgs : Seq(Messages), used : Nat]
  /\ q.used <= Capacity
  /\ \E h : Weighs(h, q.msgs) /\ h[Len(q.msgs)] = q.used

\* CREATE_OTHER of u is among the first n messages.
CreatedIn(msgs, n, u) == \E k \in 1..n : msgs[k] = Message("CREATE_OTHER", u)

\* A message about a character that the client must have been told of.
Tells(m) == m.type \in {"MOVE_START", "MOVE_STOP", "ATTACK", "DAMAGE"}

\* For client c, which met M: nothing queued for it comes before the creation of
\* the character it is about.
Ordered(msgs, M, c) ==
  \A i \in 1..Len(msgs) :
    Tells(msgs[i]) /\ msgs[i].id # c => msgs[i].id \in M \/ CreatedIn(msgs, i, msgs[i].id)

\* None of the messages was cut short.
Whole(msgs) == \A i \in 1..Len(msgs) : msgs[i].type # "CUT"

\* A client that has K on its screen and met M is told of u, and will show it.
IsTold(msgs, M, u) == u \in M \/ CreatedIn(msgs, Len(msgs), u)
Shows(msgs, K, u) == u \in ShownAfter(K, msgs)

-----------------------------------------------------------------------------
LEMMA MessagesType ==
  ASSUME NEW m \in Messages
  PROVE  /\ m.type \in MessageType /\ m.id \in Id /\ m = Message(m.type, m.id)
         /\ Size(m) \in 1..2 /\ Weight(m) \in 1..2
BY DEF Messages, Message, Size, Weight

LEMMA MessageIs ==
  ASSUME NEW t \in MessageType, NEW u \in Id
  PROVE  Message(t, u) \in Messages /\ Message(t, u).type = t /\ Message(t, u).id = u
BY DEF Messages, Message

LEMMA CapacityIsNat == Capacity \in Nat /\ MaxHP \in Nat /\ MaxHP > 0 /\ MaxSessions \in Nat /\ MaxPackets \in Nat
BY FighterAssumption

\* What Enqueue makes of a message that there is some room for.
EnqueuedAs(q, m) ==
  IF Capacity - q.used >= Size(m) THEN m ELSE [m EXCEPT !.type = "CUT"]

LEMMA EnqueuedIs ==
  ASSUME NEW q, QueueSound(q), NEW m \in Messages, ~IsFull(q), m.type # "CUT"
  PROVE  /\ EnqueuedAs(q, m) \in Messages
         /\ EnqueuedAs(q, m).id = m.id
         /\ Enqueued(q, m).msgs = Append(q.msgs, EnqueuedAs(q, m))
         /\ Enqueued(q, m).used = q.used + Weight(EnqueuedAs(q, m))
         /\ Enqueued(q, m).used \in Nat /\ Enqueued(q, m).used <= Capacity
         /\ Enqueued(q, m) = [msgs |-> Enqueued(q, m).msgs, used |-> Enqueued(q, m).used]
<1>1. /\ q.used \in Nat /\ Capacity \in Nat /\ q.used < Capacity
  BY CapacityIsNat DEF QueueSound, IsFull
<1>2. Size(m) \in 1..2 /\ m.type \in MessageType /\ m.id \in Id
  BY MessagesType
<1>3. CASE Capacity - q.used >= Size(m)
  <2>1. Weight(m) = Size(m)
    BY DEF Weight
  <2>2. Enqueued(q, m) = [msgs |-> Append(q.msgs, m), used |-> q.used + Size(m)]
    BY <1>3 DEF Enqueued
  <2>3. EnqueuedAs(q, m) = m
    BY <1>3 DEF EnqueuedAs
  <2> QED
    BY <1>1, <1>2, <1>3, <2>1, <2>2, <2>3
<1>4. CASE ~(Capacity - q.used >= Size(m))
  <2>1. Capacity = q.used + 1
    BY <1>1, <1>2, <1>4
  <2> DEFINE cut == [m EXCEPT !.type = "CUT"]
  <2>2. cut \in Messages /\ cut.type = "CUT" /\ cut.id = m.id
    BY DEF Messages, MessageType
  <2> HIDE DEF cut
  <2>3. Weight(cut) = 1
    BY <2>2 DEF Weight
  <2>4. EnqueuedAs(q, m) = cut
    BY <1>4 DEF EnqueuedAs, cut
  <2>5. Enqueued(q, m) = [msgs |-> Append(q.msgs, cut), used |-> Capacity]
    BY <1>4 DEF Enqueued, cut
  <2> QED
    BY <1>1, <2>1, <2>2, <2>3, <2>4, <2>5
<1> QED
  BY <1>3, <1>4

LEMMA EnqueuedSound ==
  ASSUME NEW q, QueueSound(q), NEW m \in Messages, ~IsFull(q), m.type # "CUT"
  PROVE  QueueSound(Enqueued(q, m))
<1> DEFINE e == EnqueuedAs(q, m)
           r == Enqueued(q, m)
<1>1. /\ e \in Messages /\ r.msgs = Append(q.msgs, e) /\ r.used = q.used + Weight(e)
      /\ r.used \in Nat /\ r.used <= Capacity /\ r = [msgs |-> r.msgs, used |-> r.used]
  BY EnqueuedIs
<1> HIDE DEF e, r
<1>2. PICK h : Weighs(h, q.msgs) /\ h[Len(q.msgs)] = q.used
  BY DEF QueueSound
<1>3. q.msgs \in Seq(Messages) /\ Len(q.msgs) \in Nat /\ q.used \in Nat
  BY LenProperties DEF QueueSound
<1>4. /\ r.msgs \in Seq(Messages) /\ Len(r.msgs) = Len(q.msgs) + 1
      /\ r.msgs[Len(q.msgs) + 1] = e /\ \A i \in 1..Len(q.msgs) : r.msgs[i] = q.msgs[i]
  BY <1>1, <1>3, AppendProperties
<1>5. r \in [msgs : Seq(Messages), used : Nat]
  BY <1>1, <1>4
<1> DEFINE n == Len(q.msgs)
           g == [i \in 0..n + 1 |-> IF i <= n THEN h[i] ELSE h[n] + Weight(e)]
<1>6. Weight(e) \in 1..2
  BY <1>1, MessagesType
<1>7. /\ h \in [0..n -> Nat] /\ h[0] = 0
      /\ \A i \in 1..n : h[i] = h[i - 1] + Weight(q.msgs[i])
      /\ \A i, j \in 0..n : i <= j => h[i] <= h[j]
  BY <1>2 DEF Weighs
<1>8. n \in Nat
  BY <1>3
<1> HIDE DEF n
<1>9. g \in [0..n + 1 -> Nat] /\ g[0] = 0 /\ g[n + 1] = h[n] + Weight(e)
  BY <1>6, <1>7, <1>8
<1>10. \A i \in 1..n + 1 : g[i] = g[i - 1] + Weight(r.msgs[i])
  <2> SUFFICES ASSUME NEW i \in 1..n + 1 PROVE g[i] = g[i - 1] + Weight(r.msgs[i])
    OBVIOUS
  <2>1. CASE i <= n
    <3>1. i \in 1..n /\ i - 1 \in 0..n /\ i \in 0..n
      BY <1>8, <2>1
    <3>2. r.msgs[i] = q.msgs[i]
      BY <1>4, <3>1 DEF n
    <3> QED
      BY <1>7, <1>8, <2>1, <3>1, <3>2
  <2>2. CASE ~(i <= n)
    <3>1. i = n + 1 /\ i - 1 = n /\ n \in 0..n
      BY <1>8, <2>2
    <3>2. r.msgs[i] = e
      BY <1>4, <3>1 DEF n
    <3> QED
      BY <1>7, <1>8, <2>2, <3>1, <3>2
  <2> QED
    BY <2>1, <2>2
<1>11. \A i, j \in 0..n + 1 : i <= j => g[i] <= g[j]
  <2> SUFFICES ASSUME NEW i \in 0..n + 1, NEW j \in 0..n + 1, i <= j PROVE g[i] <= g[j]
    OBVIOUS
  <2>1. n \in 0..n /\ \A k \in 0..n : h[k] \in Nat /\ h[k] <= h[n]
    BY <1>7, <1>8
  <2>2. CASE j <= n
    BY <1>7, <1>8, <2>1, <2>2
  <2>3. CASE ~(j <= n)
    BY <1>6, <1>7, <1>8, <2>1, <2>3
  <2> QED
    BY <2>2, <2>3
<1> HIDE DEF g
<1>12. Weighs(g, r.msgs) /\ g[Len(r.msgs)] = r.used
  BY <1>1, <1>2, <1>4, <1>9, <1>10, <1>11, SMTT(60) DEF Weighs, n
<1> QED
  BY <1>1, <1>5, <1>12 DEF QueueSound, r


\* Nothing is queued that the client has not been told of, if it has been told
\* of the message's character; and a message takes none of that away, unless it
\* is a DELETE.
LEMMA EnqueuedTells ==
  ASSUME NEW q, QueueSound(q), NEW m \in Messages, ~IsFull(q), m.type # "CUT",
         NEW M, NEW K, NEW c \in Id
  PROVE  LET r == Enqueued(q, m)
         IN  /\ Ordered(q.msgs, M, c) /\ (Tells(m) /\ m.id # c => IsTold(q.msgs, M, m.id))
                  => Ordered(r.msgs, M, c)
             /\ \A u \in Id : IsTold(q.msgs, M, u) => IsTold(r.msgs, M, u)
             /\ \A u \in Id : Shows(q.msgs, K, u) /\ m # Message("DELETE", u)
                                => Shows(r.msgs, K, u)
             /\ Capacity - q.used >= Size(m) =>
                  /\ Whole(q.msgs) => Whole(r.msgs)
                  /\ m.type = "CREATE_OTHER" => IsTold(r.msgs, M, m.id) /\ Shows(r.msgs, K, m.id)
<1> DEFINE e == EnqueuedAs(q, m)
           r == Enqueued(q, m)
           n == Len(q.msgs)
<1>1. e \in Messages /\ e.id = m.id /\ r.msgs = Append(q.msgs, e)
  BY EnqueuedIs
<1>2. q.msgs \in Seq(Messages) /\ n \in Nat
  BY LenProperties DEF QueueSound
<1>3. (Capacity - q.used >= Size(m) => e = m) /\ (~(Capacity - q.used >= Size(m)) => e.type = "CUT")
  BY DEF EnqueuedAs, Messages, MessageType
<1> HIDE DEF e, r
<1>4. /\ Len(r.msgs) = n + 1 /\ r.msgs[n + 1] = e /\ \A i \in 1..n : r.msgs[i] = q.msgs[i]
  BY <1>1, <1>2, AppendProperties
<1> HIDE DEF n
<1>5. ASSUME NEW k \in 1..n
      PROVE  k \in 1..n + 1
  BY <1>2
<1>6. \A i \in 1..n, u \in Id : CreatedIn(q.msgs, i, u) => CreatedIn(r.msgs, i, u)
  <2>1. \A i \in 1..n : \A k \in 1..i : k \in 1..n
    BY <1>2
  <2> QED
    BY <1>4, <2>1 DEF CreatedIn
<1>7. \A u \in Id : IsTold(q.msgs, M, u) => u \in M \/ CreatedIn(r.msgs, n, u)
  <2>1. \A k \in 1..n : r.msgs[k] = q.msgs[k]
    BY <1>4
  <2> QED
    BY <2>1 DEF IsTold, CreatedIn, n
<1>8. \A u \in Id : CreatedIn(r.msgs, n, u) => CreatedIn(r.msgs, n + 1, u)
  BY <1>5 DEF CreatedIn
<1>9. ASSUME NEW u \in Id, IsTold(q.msgs, M, u)
      PROVE  IsTold(r.msgs, M, u)
  BY <1>4, <1>7, <1>8, <1>9 DEF IsTold
<1>10. ASSUME Ordered(q.msgs, M, c), Tells(m) /\ m.id # c => IsTold(q.msgs, M, m.id)
       PROVE  Ordered(r.msgs, M, c)
  <2> SUFFICES ASSUME NEW i \in 1..n + 1, Tells(r.msgs[i]), r.msgs[i].id # c
               PROVE  r.msgs[i].id \in M \/ CreatedIn(r.msgs, i, r.msgs[i].id)
    BY <1>4 DEF Ordered
  <2>1. CASE i \in 1..n
    <3>1. r.msgs[i] = q.msgs[i] /\ q.msgs[i].id \in Id
      <4>1. q.msgs[i] \in Messages
        BY <1>2, <2>1, ElementOfSeq DEF n
      <4> QED
        BY <1>4, <2>1, <4>1, MessagesType
    <3>2. q.msgs[i].id \in M \/ CreatedIn(q.msgs, i, q.msgs[i].id)
      BY <1>10, <2>1, <3>1 DEF Ordered, n
    <3> QED
      BY <1>6, <2>1, <3>1, <3>2
  <2>2. CASE i \notin 1..n
    <3>1. i = n + 1 /\ r.msgs[i] = e
      BY <1>2, <1>4, <2>2
    <3>2. e = m
      BY <1>3, <3>1 DEF Tells
    <3>3. IsTold(q.msgs, M, m.id) /\ m.id \in Id
      BY <1>10, <3>1, <3>2, MessagesType
    <3> QED
      BY <1>7, <1>8, <3>1, <3>2, <3>3
  <2> QED
    BY <2>1, <2>2
<1>11. ASSUME NEW u \in Id, Shows(q.msgs, K, u), m # Message("DELETE", u)
       PROVE  Shows(r.msgs, K, u)
  <2>1. PICK k \in 0..n : /\ IF k = 0 THEN u \in K ELSE q.msgs[k] = Message("CREATE_OTHER", u)
                          /\ \A j \in k + 1..n : q.msgs[j] # Message("DELETE", u)
    BY <1>11 DEF Shows, ShownAfter, n
  <2>2. k \in 0..n + 1 /\ (k # 0 => k \in 1..n)
    BY <1>2
  <2>3. IF k = 0 THEN u \in K ELSE r.msgs[k] = Message("CREATE_OTHER", u)
    BY <1>4, <2>1, <2>2
  <2>4. e # Message("DELETE", u)
    <3>1. "DELETE" # "CUT" /\ Message("DELETE", u).type = "DELETE"
      BY DEF Message
    <3> QED
      BY <1>3, <1>11, <3>1
  <2>5. \A j \in k + 1..n + 1 : r.msgs[j] # Message("DELETE", u)
    <3> SUFFICES ASSUME NEW j \in k + 1..n + 1 PROVE r.msgs[j] # Message("DELETE", u)
      OBVIOUS
    <3>1. j \in k + 1..n \/ j = n + 1
      BY <1>2
    <3>2. j \in k + 1..n => j \in 1..n
      BY <1>2
    <3> QED
      BY <1>4, <2>1, <2>4, <3>1, <3>2
  <2> QED
    BY <1>4, <2>2, <2>3, <2>5 DEF Shows, ShownAfter
<1>12. ASSUME Capacity - q.used >= Size(m), Whole(q.msgs)
       PROVE  Whole(r.msgs)
  <2>1. \A i \in 1..n + 1 : i \in 1..n \/ i = n + 1
    BY <1>2
  <2> QED
    BY <1>3, <1>4, <1>12, <2>1 DEF Whole, n
<1>13. ASSUME Capacity - q.used >= Size(m), m.type = "CREATE_OTHER"
       PROVE  IsTold(r.msgs, M, m.id) /\ Shows(r.msgs, K, m.id)
  <2>1. e = Message("CREATE_OTHER", m.id) /\ m.id \in Id
    BY <1>3, <1>13, MessagesType
  <2>2. n + 1 \in 1..n + 1 /\ n + 1 \in 0..n + 1 /\ n + 1 # 0
        /\ \A j \in n + 1 + 1..n + 1 : FALSE
    BY <1>2
  <2> QED
    BY <1>4, <2>1, <2>2 DEF IsTold, CreatedIn, Shows, ShownAfter
<1> QED
  BY <1>9, <1>10, <1>11, <1>12, <1>13 DEF r


-----------------------------------------------------------------------------
\* Every client of a pair of T that stays is told of the other, and shows it if
\* the other stays; D and E leave.
Introduced(Q, D, K, M, E, T) ==
  \A t \in T : \/ t[1] \in D \cup E
               \/ /\ IsTold(Q[t[1]].msgs, M[t[1]], t[2])
                  /\ t[2] \in D \cup E \/ Shows(Q[t[1]].msgs, K[t[1]], t[2])

\* The writeQs Q and HP H are sound, with the sessions D disconnected and those
\* of E about to be: nobody else is dead or was sent part of a message, and the
\* pairs T are introduced.  Of a crashed server only the queues say anything.
Sound(Q, H, D, X, K, M, E, T) ==
  /\ \A c \in Id : QueueSound(Q[c])
  /\ H \in [Id -> 0..MaxHP]
  /\ \A c \in Id \ D : Ordered(Q[c].msgs, M[c], c)
  /\ ~X => /\ \A c \in Id \ (D \cup E) : Whole(Q[c].msgs) /\ H[c] > 0
           /\ Introduced(Q, D, K, M, E, T)

SoundWorlds(K, M, E, T) ==
  {w \in Worlds : Sound(w.queue, w.hp, w.disconnects, w.crashed, K, M, E, T)}

\* drop[p], a disconnect of p, leaves p only to the disconnected.
DropIsSound(drop, K, M) ==
  \A p \in Id, E \in SUBSET Id, T \in SUBSET (Id \X Id) :
    \A w \in SoundWorlds(K, M, E \cup {p}, T) : drop[p][w] \in SoundWorlds(K, M, E, T)

\* More may leave, and of those that leave nothing is said.
LEMMA MoreLeave ==
  ASSUME NEW K, NEW M, NEW E, NEW F, NEW T, NEW S,
         E \subseteq F, S \subseteq T \cup (F \X Id),
         NEW w \in SoundWorlds(K, M, E, T)
  PROVE  w \in SoundWorlds(K, M, F, S)
<1>1. w \in Worlds /\ Sound(w.queue, w.hp, w.disconnects, w.crashed, K, M, E, T)
  BY DEF SoundWorlds
<1>2. ASSUME ~w.crashed
      PROVE  Introduced(w.queue, w.disconnects, K, M, F, S)
  <2> SUFFICES ASSUME NEW t \in S, t[1] \notin w.disconnects \cup F
               PROVE  /\ IsTold(w.queue[t[1]].msgs, M[t[1]], t[2])
                      /\ \/ t[2] \in w.disconnects \cup F
                         \/ Shows(w.queue[t[1]].msgs, K[t[1]], t[2])
    BY DEF Introduced
  <2>1. t \in T
    OBVIOUS
  <2> QED
    BY <1>1, <1>2, <2>1 DEF Sound, Introduced
<1>3. Sound(w.queue, w.hp, w.disconnects, w.crashed, K, M, F, S)
  BY <1>1, <1>2 DEF Sound
<1> QED
  BY <1>1, <1>3 DEF SoundWorlds

LEMMA CrashedIsSound ==
  ASSUME NEW K, NEW M, NEW E, NEW F, NEW T, NEW S,
         NEW w \in SoundWorlds(K, M, E, T), w.crashed
  PROVE  w \in SoundWorlds(K, M, F, S)
BY DEF SoundWorlds, Sound

\* The fields of a world after one of them is given another value.
LEMMA QueueChanges ==
  ASSUME NEW w \in Worlds, NEW c \in Id, NEW q \in [msgs : Seq(Messages), used : Nat]
  PROVE  LET v == [w EXCEPT !.queue[c] = q]
         IN  /\ v \in Worlds /\ v.queue = [w.queue EXCEPT ![c] = q] /\ v.hp = w.hp
             /\ v.disconnects = w.disconnects /\ v.crashed = w.crashed
<1>1. [w.queue EXCEPT ![c] = q] \in [Id -> [msgs : Seq(Messages), used : Nat]]
  <2>1. w.queue \in [Id -> [msgs : Seq(Messages), used : Nat]]
    BY DEF Worlds
  <2> DEFINE R == [msgs : Seq(Messages), used : Nat]
  <2> HIDE DEF R
  <2> QED
    BY <2>1, Zenon DEF R
<1> QED
  BY <1>1 DEF Worlds

LEMMA HPChanges ==
  ASSUME NEW w \in Worlds, NEW c \in Id, NEW n \in Nat
  PROVE  LET v == [w EXCEPT !.hp[c] = n]
         IN  /\ v \in Worlds /\ v.hp = [w.hp EXCEPT ![c] = n] /\ v.queue = w.queue
             /\ v.disconnects = w.disconnects /\ v.crashed = w.crashed
<1>1. [w.hp EXCEPT ![c] = n] \in [Id -> Nat]
  BY DEF Worlds
<1> QED
  BY <1>1 DEF Worlds

LEMMA WithinChanges ==
  ASSUME NEW w \in Worlds, NEW x \in SUBSET Id
  PROVE  LET v == [w EXCEPT !.within = x]
         IN  /\ v \in Worlds /\ v.queue = w.queue /\ v.hp = w.hp
             /\ v.disconnects = w.disconnects /\ v.crashed = w.crashed
BY DEF Worlds

LEMMA ShutChanges ==
  ASSUME NEW w \in Worlds, NEW b \in BOOLEAN
  PROVE  LET v == [w EXCEPT !.shut = b]
         IN  /\ v \in Worlds /\ v.queue = w.queue /\ v.hp = w.hp
             /\ v.disconnects = w.disconnects /\ v.crashed = w.crashed
BY DEF Worlds

LEMMA CrashChanges ==
  ASSUME NEW w \in Worlds
  PROVE  LET v == [w EXCEPT !.crashed = TRUE]
         IN  /\ v \in Worlds /\ v.queue = w.queue /\ v.hp = w.hp
             /\ v.disconnects = w.disconnects /\ v.crashed
BY DEF Worlds

-----------------------------------------------------------------------------
\* A client c may be sent m: it is told of m's character, and a DELETE is of a
\* session that leaves.
MayBeSent(m, c, E, T) ==
  /\ m \in Messages /\ m.type # "CUT"
  /\ Tells(m) /\ m.id # c => <<c, m.id>> \in T /\ c \notin E
  /\ m.type = "DELETE" => m.id \in E

\* The pair that a message introduces.
Pair(m, c) == IF m.type = "CREATE_OTHER" THEN {<<c, m.id>>} ELSE {}

\* Of one client's queue, a message more: it introduces the pair if all of it fits.
LEMMA EnqueueIntroduces ==
  ASSUME NEW K, NEW M, NEW E \in SUBSET Id, NEW T \in SUBSET (Id \X Id),
         NEW w \in SoundWorlds(K, M, E, T), NEW c \in Id, NEW m, MayBeSent(m, c, E, T),
         ~IsFull(w.queue[c]), ~w.crashed,
         NEW F, F = IF Capacity - w.queue[c].used >= Size(m) THEN E ELSE E \cup {c},
         NEW Q, Q = [w.queue EXCEPT ![c] = Enqueued(w.queue[c], m)]
  PROVE  Introduced(Q, w.disconnects, K, M, F, T \cup Pair(m, c))
<1> DEFINE D == w.disconnects
           q == w.queue[c]
           r == Enqueued(w.queue[c], m)
<1>1. /\ w \in Worlds /\ QueueSound(q) /\ Introduced(w.queue, D, K, M, E, T)
      /\ m \in Messages /\ m.type # "CUT" /\ E \subseteq F
  BY DEF SoundWorlds, Sound, MayBeSent
<1>2. Q[c] = r /\ \A d \in Id \ {c} : Q[d] = w.queue[d]
  BY <1>1 DEF Worlds
<1>3. /\ \A u \in Id : IsTold(q.msgs, M[c], u) => IsTold(r.msgs, M[c], u)
      /\ \A u \in Id : Shows(q.msgs, K[c], u) /\ m # Message("DELETE", u)
                         => Shows(r.msgs, K[c], u)
      /\ Capacity - q.used >= Size(m) /\ m.type = "CREATE_OTHER" =>
           IsTold(r.msgs, M[c], m.id) /\ Shows(r.msgs, K[c], m.id)
  <2> HIDE DEF q
  <2> QED
    BY <1>1, EnqueuedTells DEF q
<1> HIDE DEF D, q, r
<1> SUFFICES ASSUME NEW t \in T \cup Pair(m, c), t[1] \notin D \cup F
             PROVE  /\ IsTold(Q[t[1]].msgs, M[t[1]], t[2])
                    /\ t[2] \in D \cup F \/ Shows(Q[t[1]].msgs, K[t[1]], t[2])
  BY DEF Introduced, D
<1>4. CASE t \in T
  <2>1. t[1] \in Id /\ t[2] \in Id /\ t[1] \notin D \cup E
    BY <1>1, <1>4
  <2>2. /\ IsTold(w.queue[t[1]].msgs, M[t[1]], t[2])
        /\ t[2] \in D \cup E \/ Shows(w.queue[t[1]].msgs, K[t[1]], t[2])
    BY <1>1, <1>4, <2>1 DEF Introduced
  <2>3. CASE t[1] = c
    <3>1. m = Message("DELETE", t[2]) => t[2] \in E
      <4>1. Message("DELETE", t[2]).type = "DELETE" /\ Message("DELETE", t[2]).id = t[2]
        BY DEF Message
      <4> QED
        BY <4>1 DEF MayBeSent
    <3> QED
      BY <1>1, <1>2, <1>3, <2>1, <2>2, <2>3, <3>1 DEF q
  <2>4. CASE t[1] # c
    BY <1>1, <1>2, <2>1, <2>2, <2>4
  <2> QED
    BY <2>3, <2>4
<1>5. CASE t \in Pair(m, c)
  <2>1. m.type = "CREATE_OTHER" /\ t[1] = c /\ t[2] = m.id
    BY <1>5 DEF Pair
  <2>2. Capacity - q.used >= Size(m)
    BY <2>1 DEF q
  <2> QED
    BY <1>2, <1>3, <2>1, <2>2
<1> QED
  BY <1>4, <1>5

LEMMA EnqueueIsSound ==
  ASSUME NEW K, NEW M, NEW E \in SUBSET Id, NEW T \in SUBSET (Id \X Id),
         NEW w \in SoundWorlds(K, M, E, T), NEW c \in Id, NEW m, MayBeSent(m, c, E, T),
         ~IsFull(w.queue[c]), ~w.crashed,
         NEW F, F = IF Capacity - w.queue[c].used >= Size(m) THEN E ELSE E \cup {c}
  PROVE  [w EXCEPT !.queue[c] = Enqueued(@, m)] \in SoundWorlds(K, M, F, T \cup Pair(m, c))
<1> DEFINE D == w.disconnects
           q == w.queue[c]
           r == Enqueued(w.queue[c], m)
           v == [w EXCEPT !.queue[c] = r]
           Q == [w.queue EXCEPT ![c] = r]
<1>1. /\ w \in Worlds /\ QueueSound(q) /\ Sound(w.queue, w.hp, D, w.crashed, K, M, E, T)
      /\ m \in Messages /\ m.type # "CUT"
  BY DEF SoundWorlds, Sound, MayBeSent
<1>2. QueueSound(r)
  BY <1>1, EnqueuedSound
<1>3. r \in [msgs : Seq(Messages), used : Nat]
  BY <1>2 DEF QueueSound
<1>4. /\ v \in Worlds /\ v.queue = Q /\ v.hp = w.hp /\ v.disconnects = D
      /\ v.crashed = w.crashed
  <2>1. \A x \in [msgs : Seq(Messages), used : Nat] :
          LET u == [w EXCEPT !.queue[c] = x]
          IN  /\ u \in Worlds /\ u.queue = [w.queue EXCEPT ![c] = x] /\ u.hp = w.hp
              /\ u.disconnects = w.disconnects /\ u.crashed = w.crashed
    BY <1>1, QueueChanges
  <2> HIDE DEF r
  <2> QED
    BY <1>3, <2>1, Zenon
<1>5. [w EXCEPT !.queue[c] = Enqueued(@, m)] = v
  OBVIOUS
<1>6. Introduced(Q, D, K, M, F, T \cup Pair(m, c))
  BY EnqueueIntroduces
<1>7. /\ Ordered(q.msgs, M[c], c) /\ (Tells(m) /\ m.id # c => IsTold(q.msgs, M[c], m.id))
           => Ordered(r.msgs, M[c], c)
      /\ Capacity - q.used >= Size(m) /\ Whole(q.msgs) => Whole(r.msgs)
  <2> HIDE DEF q
  <2> QED
    BY <1>1, EnqueuedTells DEF q
<1>8. Q[c] = r /\ \A d \in Id \ {c} : Q[d] = w.queue[d]
  BY <1>1 DEF Worlds
<1> HIDE DEF D, q, r, v, Q
<1>9. ASSUME c \notin D, Tells(m), m.id # c
      PROVE  IsTold(q.msgs, M[c], m.id)
  <2>1. <<c, m.id>> \in T /\ c \notin E
    BY <1>9 DEF MayBeSent
  <2>2. Introduced(w.queue, D, K, M, E, T)
    BY <1>1 DEF Sound
  <2>3. /\ <<c, m.id>>[1] \in D \cup E
        \/ IsTold(w.queue[<<c, m.id>>[1]].msgs, M[<<c, m.id>>[1]], <<c, m.id>>[2])
    BY <2>1, <2>2, Zenon DEF Introduced
  <2> QED
    BY <1>9, <2>1, <2>3 DEF q
<1>10. \A d \in Id : QueueSound(Q[d])
  BY <1>1, <1>2, <1>8 DEF Sound
<1>11. \A d \in Id \ D : Ordered(Q[d].msgs, M[d], d)
  BY <1>1, <1>7, <1>8, <1>9 DEF Sound, q
<1>12. \A d \in Id \ (D \cup F) : Whole(Q[d].msgs) /\ w.hp[d] > 0
  <2> SUFFICES ASSUME NEW d \in Id \ (D \cup F) PROVE Whole(Q[d].msgs) /\ w.hp[d] > 0
    OBVIOUS
  <2>1. d \in Id \ (D \cup E) /\ (d = c => Capacity - q.used >= Size(m))
    BY DEF q
  <2>2. Whole(w.queue[d].msgs) /\ w.hp[d] > 0
    BY <1>1, <2>1 DEF Sound
  <2> QED
    BY <1>7, <1>8, <2>1, <2>2 DEF q
<1>13. Sound(Q, w.hp, D, w.crashed, K, M, F, T \cup Pair(m, c))
  <2>1. w.hp \in [Id -> 0..MaxHP]
    BY <1>1 DEF Sound
  <2> QED
    BY <1>6, <1>10, <1>11, <1>12, <2>1 DEF Sound
<1> QED
  BY <1>4, <1>5, <1>13 DEF SoundWorlds

LEMMA OfferIsSound ==
  ASSUME NEW K, NEW M, NEW E \in SUBSET Id, NEW T \in SUBSET (Id \X Id),
         NEW w \in SoundWorlds(K, M, E, T), NEW c \in Id, NEW m, MayBeSent(m, c, E, T),
         NEW drop, DropIsSound(drop, K, M)
  PROVE  OfferTo(drop, w, c, m) \in SoundWorlds(K, M, E, T \cup Pair(m, c))
<1> DEFINE S == T \cup Pair(m, c)
<1>1. S \in SUBSET (Id \X Id) /\ Pair(m, c) \subseteq {c} \X Id
  <2>1. m.id \in Id
    BY MessagesType DEF MayBeSent
  <2> QED
    BY <2>1 DEF Pair
<1>2. \A v \in SoundWorlds(K, M, E \cup {c}, S) : drop[c][v] \in SoundWorlds(K, M, E, S)
  BY <1>1 DEF DropIsSound
<1> HIDE DEF S
<1>3. CASE w.crashed
  BY <1>3, CrashedIsSound DEF OfferTo
<1>4. CASE ~w.crashed /\ IsFull(w.queue[c])
  <2>1. S \subseteq T \cup ((E \cup {c}) \X Id)
    BY <1>1 DEF S
  <2>2. w \in SoundWorlds(K, M, E \cup {c}, S)
    BY <2>1, MoreLeave
  <2> QED
    BY <1>2, <1>4, <2>2 DEF OfferTo, S
<1>5. CASE ~w.crashed /\ ~IsFull(w.queue[c])
  <2> DEFINE v == [w EXCEPT !.queue[c] = Enqueued(@, m)]
             F == IF Capacity - w.queue[c].used >= Size(m) THEN E ELSE E \cup {c}
  <2>1. v \in SoundWorlds(K, M, F, S)
    BY <1>5, EnqueueIsSound DEF S
  <2>2. OfferTo(drop, w, c, m) = IF Capacity - w.queue[c].used < Size(m) THEN drop[c][v] ELSE v
    BY <1>5 DEF OfferTo
  <2>3. (Capacity - w.queue[c].used < Size(m)) <=> ~(Capacity - w.queue[c].used >= Size(m))
    <3>1. QueueSound(w.queue[c])
      BY DEF SoundWorlds, Sound
    <3>2. w.queue[c].used \in Nat /\ Capacity \in Nat /\ Size(m) \in Nat
      BY <3>1, CapacityIsNat, MessagesType DEF QueueSound, MayBeSent
    <3> QED
      BY <3>2
  <2> HIDE DEF v
  <2>4. CASE Capacity - w.queue[c].used < Size(m)
    <3>1. F = E \cup {c}
      BY <2>3, <2>4
    <3> QED
      BY <1>2, <2>1, <2>2, <2>4, <3>1 DEF S
  <2>5. CASE ~(Capacity - w.queue[c].used < Size(m))
    <3>1. F = E
      BY <2>3, <2>5
    <3> QED
      BY <2>1, <2>2, <2>5, <3>1 DEF S
  <2> QED
    BY <2>4, <2>5
<1> QED
  BY <1>3, <1>4, <1>5


-----------------------------------------------------------------------------
\* A loop over the users goes through A[0], A[1], ... if no turn leaves them.
LEMMA LoopStays ==
  ASSUME users \in Seq(Id), NEW turnOf, NEW start, NEW A, start \in A[0],
         \A i \in 1..Len(users) : \A x \in A[i - 1] : turnOf[users[i]][x] \in A[i]
  PROVE  ForEachUser(turnOf, start) \in A[Len(users)]
<1>1. Folded(turnOf, start, users) \in A[Len(users)]
  BY FoldStays
<1> QED
  BY <1>1 DEF ForEachUser, Folded

LEMMA UsersAre ==
  ASSUME users \in Seq(Id)
  PROVE  /\ Users \subseteq Id /\ Len(users) \in Nat
         /\ \A i \in 1..Len(users) : users[i] \in Users /\ users[i] \in Id
         /\ \A u \in Users : \E i \in 1..Len(users) : u = users[i]
BY LenProperties, ElementOfSeq DEF Users, ToSet

LEMMA LoopKeeps ==
  ASSUME users \in Seq(Id), NEW turnOf, NEW start, NEW S, start \in S,
         \A c \in Users : \A x \in S : turnOf[c][x] \in S
  PROVE  ForEachUser(turnOf, start) \in S
<1> DEFINE A == [i \in Nat |-> S]
<1>1. Len(users) \in Nat /\ \A i \in 1..Len(users) : users[i] \in Users
  BY UsersAre
<1>2. \A i \in Nat : A[i] = S
  OBVIOUS
<1>3. ASSUME NEW i \in 1..Len(users), NEW x \in A[i - 1]
      PROVE  turnOf[users[i]][x] \in A[i]
  <2>1. i \in Nat /\ i - 1 \in Nat
    BY <1>1
  <2> QED
    BY <1>1, <1>2, <1>3, <2>1
<1> HIDE DEF A
<1>4. start \in A[0]
  BY <1>2
<1>5. ForEachUser(turnOf, start) \in A[Len(users)]
  BY <1>3, <1>4, LoopStays
<1> QED
  BY <1>1, <1>2, <1>5

\* The pairs that a broadcast of m to everybody but p introduces by its turn i.
Pairs(m, p, i) ==
  {t \in Id \X Id : /\ m.type = "CREATE_OTHER" /\ t[2] = m.id
                    /\ \E j \in 1..i : users[j] = t[1] /\ t[1] # p}

LEMMA BroadcastIntroduces ==
  ASSUME users \in Seq(Id),
         NEW K, NEW M, NEW E \in SUBSET Id, NEW T \in SUBSET (Id \X Id),
         NEW w \in SoundWorlds(K, M, E, T), NEW p, NEW m \in Messages,
         \A c \in Users \ {p} : MayBeSent(m, c, E, T),
         NEW drop, DropIsSound(drop, K, M)
  PROVE  BroadcastBy(drop, w, p, m) \in SoundWorlds(K, M, E, T \cup Pairs(m, p, Len(users)))
<1> DEFINE A == [i \in Nat |-> SoundWorlds(K, M, E, T \cup Pairs(m, p, i))]
           turnOf == [c \in Id |-> [v \in Worlds |-> IF c = p THEN v ELSE OfferTo(drop, v, c, m)]]
<1>1. Len(users) \in Nat /\ \A i \in 1..Len(users) : users[i] \in Users /\ users[i] \in Id
  BY UsersAre
<1>2. \A i \in Nat : A[i] = SoundWorlds(K, M, E, T \cup Pairs(m, p, i))
  OBVIOUS
<1> HIDE DEF A
<1>3. w \in A[0]
  <2>1. Pairs(m, p, 0) = {}
    BY DEF Pairs
  <2>2. T \cup Pairs(m, p, 0) = T
    BY <2>1
  <2> QED
    BY <1>2, <2>2
<1>4. ASSUME NEW i \in 1..Len(users), NEW x \in A[i - 1]
      PROVE  turnOf[users[i]][x] \in A[i]
  <2>1. i \in Nat /\ i - 1 \in Nat /\ i \in 1..i /\ \A j \in 1..i : j \in 1..i - 1 \/ j = i
    BY <1>1
  <2> DEFINE c == users[i]
             S == T \cup Pairs(m, p, i - 1)
  <2>2. x \in SoundWorlds(K, M, E, S) /\ x \in Worlds /\ c \in Users /\ c \in Id
    BY <1>1, <1>2, <2>1 DEF SoundWorlds
  <2>3. S \in SUBSET (Id \X Id)
    BY DEF Pairs
  <2>4. turnOf[c][x] = IF c = p THEN x ELSE OfferTo(drop, x, c, m)
    BY <2>2
  <2> HIDE DEF turnOf
  <2>5. CASE c = p
    <3>1. Pairs(m, p, i) \subseteq Pairs(m, p, i - 1)
      BY <2>1, <2>5 DEF Pairs
    <3>2. T \cup Pairs(m, p, i) \subseteq S \cup (E \X Id)
      BY <3>1
    <3>3. x \in SoundWorlds(K, M, E, T \cup Pairs(m, p, i))
      BY <2>2, <3>2, MoreLeave
    <3> QED
      BY <1>2, <2>1, <2>4, <2>5, <3>3
  <2>6. CASE c # p
    <3>1. MayBeSent(m, c, E, S)
      <4>1. MayBeSent(m, c, E, T)
        BY <2>2, <2>6
      <4> QED
        BY <4>1 DEF MayBeSent
    <3>2. OfferTo(drop, x, c, m) \in SoundWorlds(K, M, E, S \cup Pair(m, c))
      BY <2>2, <2>3, <3>1, OfferIsSound
    <3>3. Pairs(m, p, i) \subseteq Pairs(m, p, i - 1) \cup Pair(m, c)
      <4> SUFFICES ASSUME NEW t \in Pairs(m, p, i), t \notin Pairs(m, p, i - 1)
                   PROVE  t \in Pair(m, c)
        OBVIOUS
      <4>1. t \in Id \X Id /\ m.type = "CREATE_OTHER" /\ t[2] = m.id /\ t[1] = c
        BY <2>1 DEF Pairs
      <4> QED
        BY <4>1 DEF Pair
    <3>4. T \cup Pairs(m, p, i) \subseteq (S \cup Pair(m, c)) \cup (E \X Id)
      BY <3>3
    <3>5. OfferTo(drop, x, c, m) \in SoundWorlds(K, M, E, T \cup Pairs(m, p, i))
      BY <3>2, <3>4, MoreLeave
    <3> QED
      BY <1>2, <2>1, <2>4, <2>6, <3>5
  <2> QED
    BY <2>5, <2>6
<1>5. ForEachUser(turnOf, w) \in A[Len(users)]
  <2> HIDE DEF turnOf
  <2> QED
    BY <1>3, <1>4, LoopStays
<1> QED
  BY <1>1, <1>2, <1>5 DEF BroadcastBy

\* A broadcast of anything else than CREATE_OTHER.
LEMMA BroadcastIsSound ==
  ASSUME users \in Seq(Id),
         NEW K, NEW M, NEW E \in SUBSET Id, NEW T \in SUBSET (Id \X Id),
         NEW w \in SoundWorlds(K, M, E, T), NEW p, NEW m \in Messages,
         \A c \in Users \ {p} : MayBeSent(m, c, E, T), m.type # "CREATE_OTHER",
         NEW drop, DropIsSound(drop, K, M)
  PROVE  BroadcastBy(drop, w, p, m) \in SoundWorlds(K, M, E, T)
<1>1. T \cup Pairs(m, p, Len(users)) = T
  BY DEF Pairs
<1> QED
  BY <1>1, BroadcastIntroduces

LEMMA DisconnectIsSound ==
  ASSUME users \in Seq(Id), NEW K, NEW M, NEW drop, DropIsSound(drop, K, M)
  PROVE  DropIsSound(DisconnectBy(drop), K, M)
<1> SUFFICES ASSUME NEW p \in Id, NEW E \in SUBSET Id, NEW T \in SUBSET (Id \X Id),
                    NEW w \in SoundWorlds(K, M, E \cup {p}, T)
             PROVE  DisconnectBy(drop)[p][w] \in SoundWorlds(K, M, E, T)
  BY DEF DropIsSound
<1> DEFINE F == E \cup {p}
           m == Message("DELETE", p)
           turnOf == [c \in Id |-> [v \in Worlds |->
                                IF c = p THEN v ELSE BroadcastBy(drop, v, p, m)]]
           w0 == [w EXCEPT !.within = @ \cup {p}]
           w1 == ForEachUser(turnOf, w0)
           w2 == [w1 EXCEPT !.disconnects = @ \cup {p}, !.within = @ \ {p}]
<1>1. w \in Worlds /\ F \in SUBSET Id /\ w.within \cup {p} \in SUBSET Id
  BY DEF SoundWorlds, Worlds
<1>2. DisconnectBy(drop)[p][w] =
        IF w.crashed THEN w
        ELSE IF p \in w.within THEN [w EXCEPT !.crashed = TRUE]
        ELSE w2
  BY <1>1 DEF DisconnectBy
<1>3. CASE w.crashed
  BY <1>2, <1>3, CrashedIsSound
<1>4. CASE ~w.crashed /\ p \in w.within
  <2> DEFINE v == [w EXCEPT !.crashed = TRUE]
  <2>1. /\ v \in Worlds /\ v.queue = w.queue /\ v.hp = w.hp
        /\ v.disconnects = w.disconnects /\ v.crashed
    BY <1>1, CrashChanges
  <2>2. DisconnectBy(drop)[p][w] = v
    BY <1>2, <1>4
  <2> HIDE DEF v
  <2> QED
    BY <2>1, <2>2 DEF SoundWorlds, Sound
<1>5. CASE ~w.crashed /\ ~(p \in w.within)
  <2>1. w0 \in SoundWorlds(K, M, F, T)
    <3> DEFINE x == w.within \cup {p}
    <3>1. w0 = [w EXCEPT !.within = x]
      OBVIOUS
    <3>2. /\ w0 \in Worlds /\ w0.queue = w.queue /\ w0.hp = w.hp
          /\ w0.disconnects = w.disconnects /\ w0.crashed = w.crashed
      <4>1. x \in SUBSET Id
        BY <1>1
      <4> HIDE DEF x
      <4> QED
        BY <1>1, <3>1, <4>1, WithinChanges
    <3> HIDE DEF w0
    <3> QED
      BY <3>2 DEF SoundWorlds
  <2>2. ASSUME NEW c \in Users, NEW v \in SoundWorlds(K, M, F, T)
        PROVE  turnOf[c][v] \in SoundWorlds(K, M, F, T)
    <3>1. v \in Worlds /\ c \in Id
      BY UsersAre DEF SoundWorlds
    <3>2. turnOf[c][v] = IF c = p THEN v ELSE BroadcastBy(drop, v, p, m)
      BY <3>1
    <3>3. m \in Messages /\ m.type = "DELETE" /\ m.id = p
      BY MessageIs DEF MessageType
    <3> HIDE DEF turnOf, m
    <3>4. \A d \in Users \ {p} : MayBeSent(m, d, F, T)
      BY <3>3 DEF MayBeSent, Tells
    <3>5. BroadcastBy(drop, v, p, m) \in SoundWorlds(K, M, F, T)
      BY <1>1, <3>3, <3>4, BroadcastIsSound
    <3> QED
      BY <3>2, <3>5
  <2>3. w1 \in SoundWorlds(K, M, F, T)
    <3> HIDE DEF turnOf, w0, F
    <3> QED
      BY <2>1, <2>2, LoopKeeps
  <2> HIDE DEF w1
  <2>4. /\ w2 \in Worlds /\ w2.queue = w1.queue /\ w2.hp = w1.hp
        /\ w2.disconnects = w1.disconnects \cup {p} /\ w2.crashed = w1.crashed
    BY <2>3 DEF SoundWorlds, Worlds
  <2>5. DisconnectBy(drop)[p][w] = w2
    BY <1>2, <1>5
  <2> HIDE DEF w2
  <2>6. Sound(w1.queue, w1.hp, w1.disconnects, w1.crashed, K, M, F, T)
    BY <2>3 DEF SoundWorlds
  <2>7. (w1.disconnects \cup {p}) \cup E = w1.disconnects \cup F
    OBVIOUS
  <2>8. Sound(w1.queue, w1.hp, w1.disconnects \cup {p}, w1.crashed, K, M, E, T)
    BY <2>6, <2>7 DEF Sound, Introduced
  <2> QED
    BY <2>4, <2>5, <2>8 DEF SoundWorlds
<1> QED
  BY <1>3, <1>4, <1>5


-----------------------------------------------------------------------------
\* disconnect with up to n within it, by a function on 0..n.
Crashing == [p \in Id |-> [w \in Worlds |-> [w EXCEPT !.crashed = TRUE]]]
Within(f, n) ==
  f = [k \in 0..n |-> DisconnectBy(IF k = 0 THEN Crashing ELSE f[k - 1])]

LEMMA WithinExists ==
  ASSUME NEW n \in Nat
  PROVE  \E f : Within(f, n)
<1> DEFINE S == {m \in Nat : \E f : Within(f, m)}
<1>1. 0 \in S
  <2> DEFINE f == [k \in 0..0 |-> DisconnectBy(Crashing)]
  <2>1. f = [k \in 0..0 |-> DisconnectBy(IF k = 0 THEN Crashing ELSE f[k - 1])]
    <3>1. \A k \in 0..0 : k = 0
      OBVIOUS
    <3> QED
      BY <3>1
  <2> HIDE DEF f
  <2>2. Within(f, 0)
    BY <2>1 DEF Within
  <2> QED
    BY <2>2
<1>2. ASSUME NEW m \in Nat, m \in S
      PROVE  m + 1 \in S
  <2>1. PICK f : Within(f, m)
    BY <1>2
  <2> DEFINE g == [k \in 0..m + 1 |-> IF k <= m THEN f[k] ELSE DisconnectBy(f[m])]
  <2>2. ASSUME NEW k \in 0..m + 1
        PROVE  g[k] = DisconnectBy(IF k = 0 THEN Crashing ELSE g[k - 1])
    <3>1. CASE k <= m
      <4>1. k \in 0..m /\ (k # 0 => k - 1 \in 0..m + 1 /\ k - 1 <= m)
        BY <3>1
      <4>2. f[k] = DisconnectBy(IF k = 0 THEN Crashing ELSE f[k - 1])
        BY <2>1, <4>1 DEF Within
      <4>3. g[k] = f[k] /\ (k # 0 => g[k - 1] = f[k - 1])
        BY <3>1, <4>1
      <4> HIDE DEF g
      <4> QED
        BY <4>2, <4>3
    <3>2. CASE ~(k <= m)
      <4>1. k - 1 = m /\ k # 0 /\ m \in 0..m + 1
        BY <3>2
      <4>2. g[k] = DisconnectBy(f[m]) /\ g[k - 1] = f[m]
        BY <3>2, <4>1
      <4> HIDE DEF g
      <4> QED
        BY <4>1, <4>2
    <3> QED
      BY <3>1, <3>2
  <2>3. g = [k \in 0..m + 1 |-> g[k]]
    OBVIOUS
  <2> HIDE DEF g
  <2>4. Within(g, m + 1)
    BY <2>2, <2>3, Zenon DEF Within
  <2>5. m + 1 \in Nat
    OBVIOUS
  <2> QED
    BY <2>4, <2>5
<1> HIDE DEF S
<1>3. n \in S
  BY <1>1, <1>2, SetInduction
<1> QED
  BY <1>3 DEF S

LEMMA DisconnectWithinIs == Within(DisconnectWithin, MaxSessions)
<1> DEFINE f == CHOOSE f : Within(f, MaxSessions)
<1>1. Within(f, MaxSessions)
  BY CapacityIsNat, WithinExists
<1>2. DisconnectWithin = f
  BY DEF DisconnectWithin, Within, Crashing
<1> HIDE DEF f
<1> QED
  BY <1>1, <1>2

\* Disconnections within each other, however deep.
LEMMA DropsAreSound ==
  ASSUME users \in Seq(Id), NEW K, NEW M
  PROVE  DropIsSound(DisconnectWithin[MaxSessions], K, M)
<1> DEFINE S == {n \in Nat : n <= MaxSessions => DropIsSound(DisconnectWithin[n], K, M)}
           drop(n) == IF n = 0 THEN Crashing ELSE DisconnectWithin[n - 1]
<1>1. \A n \in 0..MaxSessions : DisconnectWithin[n] = DisconnectBy(drop(n))
  BY DisconnectWithinIs DEF Within
<1>2. DropIsSound(Crashing, K, M)
  <2> SUFFICES ASSUME NEW p \in Id, NEW E \in SUBSET Id, NEW T \in SUBSET (Id \X Id),
                      NEW w \in SoundWorlds(K, M, E \cup {p}, T)
               PROVE  Crashing[p][w] \in SoundWorlds(K, M, E, T)
    BY DEF DropIsSound
  <2> DEFINE v == [w EXCEPT !.crashed = TRUE]
  <2>1. w \in Worlds
    BY DEF SoundWorlds
  <2>2. /\ v \in Worlds /\ v.queue = w.queue /\ v.hp = w.hp
        /\ v.disconnects = w.disconnects /\ v.crashed
    BY <2>1, CrashChanges
  <2>3. Crashing[p][w] = v
    BY <2>1 DEF Crashing
  <2> HIDE DEF v
  <2> QED
    BY <2>2, <2>3 DEF SoundWorlds, Sound
<1>3. 0 \in S
  <2>1. 0 \in 0..MaxSessions
    BY CapacityIsNat
  <2>2. DisconnectWithin[0] = DisconnectBy(Crashing)
    BY <1>1, <2>1
  <2>3. DropIsSound(DisconnectWithin[0], K, M)
    BY <1>2, <2>2, DisconnectIsSound
  <2> QED
    BY <2>3
<1>4. ASSUME NEW n \in Nat, n \in S
      PROVE  n + 1 \in S
  <2> SUFFICES ASSUME n + 1 <= MaxSessions PROVE DropIsSound(DisconnectWithin[n + 1], K, M)
    OBVIOUS
  <2>1. n <= MaxSessions /\ n + 1 \in 0..MaxSessions /\ n + 1 # 0 /\ (n + 1) - 1 = n
    BY CapacityIsNat
  <2>2. DisconnectWithin[n + 1] = DisconnectBy(DisconnectWithin[n])
    BY <1>1, <2>1
  <2>3. DropIsSound(DisconnectWithin[n], K, M)
    BY <1>4, <2>1
  <2> QED
    BY <2>2, <2>3, DisconnectIsSound
<1> HIDE DEF S
<1>5. MaxSessions \in S
  BY <1>3, <1>4, CapacityIsNat, SetInduction
<1> QED
  BY <1>5, CapacityIsNat DEF S

LEMMA DisconnectLeavesSound ==
  ASSUME users \in Seq(Id), NEW K, NEW M, NEW p \in Id,
         NEW E \in SUBSET Id, NEW T \in SUBSET (Id \X Id),
         NEW w \in SoundWorlds(K, M, E \cup {p}, T)
  PROVE  Disconnect(w, p) \in SoundWorlds(K, M, E, T)
BY DropsAreSound DEF DropIsSound, Disconnect

LEMMA UnicastIsSound ==
  ASSUME users \in Seq(Id), NEW K, NEW M,
         NEW E \in SUBSET Id, NEW T \in SUBSET (Id \X Id),
         NEW w \in SoundWorlds(K, M, E, T), NEW c \in Id, NEW m, MayBeSent(m, c, E, T)
  PROVE  Unicast(w, c, m) \in SoundWorlds(K, M, E, T \cup Pair(m, c))
<1> DEFINE v == OfferTo(DisconnectWithin[MaxSessions], w, c, m)
           short == ~IsFull(w.queue[c]) /\ Capacity - w.queue[c].used < Size(m)
           x == [v EXCEPT !.shut = @ \/ short]
<1>1. v \in SoundWorlds(K, M, E, T \cup Pair(m, c))
  BY DropsAreSound, OfferIsSound
<1>2. Unicast(w, c, m) = x
  BY DEF Unicast
<1> HIDE DEF v, short
<1>3. /\ x \in Worlds /\ x.queue = v.queue /\ x.hp = v.hp
      /\ x.disconnects = v.disconnects /\ x.crashed = v.crashed
  <2>1. v \in Worlds /\ (v.shut \/ short) \in BOOLEAN
    BY <1>1 DEF SoundWorlds
  <2> DEFINE b == v.shut \/ short
  <2>2. x = [v EXCEPT !.shut = b]
    OBVIOUS
  <2> HIDE DEF x, b
  <2> QED
    BY <2>1, <2>2, ShutChanges DEF b
<1> HIDE DEF x
<1> QED
  BY <1>1, <1>2, <1>3 DEF SoundWorlds


-----------------------------------------------------------------------------
AllPairs == {t \in Users \X Users : t[1] # t[2]}

\* What a handler is given and what it leaves.
Served == Sound(queue, hp, disconnects, crashed, known, met, {}, AllPairs)

Types ==
  /\ users \in Seq(Id) /\ disconnects \in SUBSET Id /\ uniqueID \in 0..MaxSessions
  /\ queue \in [Id -> [msgs : Seq(Messages), used : Nat]]
  /\ moving \in [Id -> BOOLEAN]
  /\ sock \in [Id -> {"open", "invalid", "closed", "none"}]
  /\ known \in [Id -> SUBSET Id] /\ met \in [Id -> SUBSET Id]
  /\ serverShut \in BOOLEAN /\ crashed \in BOOLEAN
  /\ pc \in {"select", "accept", "read", "parse", "write", "update"}
  /\ rSet \in SUBSET Id /\ wSet \in SUBSET Id /\ packets \in 0..MaxPackets

\* Where the loop stands, and who is on the list: nobody whose socket is closed,
\* and at the end of a pass nobody disconnected.
Listed ==
  /\ Len(users) <= uniqueID
  /\ turn \in 0..Len(users) + 1
  /\ pc \in {"accept", "read", "parse", "write"} => turn >= 1
  /\ pc = "accept" => uniqueID < MaxSessions
  /\ pc \in {"select", "update"} => disconnects = {}
  /\ \A u \in Users : sock[u] # "closed"

FighterInv == Types /\ Listed /\ Served

LEMMA WorldIsSound ==
  ASSUME FighterInv, Running
  PROVE  World \in SoundWorlds(known, met, {}, AllPairs)
<1>1. /\ World.queue = queue /\ World.hp = hp /\ World.disconnects = disconnects
      /\ World.crashed = crashed /\ World.shut = serverShut
  BY DEF World, Running, FighterInv, Types
<1>2. World \in Worlds
  <2>1. hp \in [Id -> Nat]
    BY CapacityIsNat DEF FighterInv, Served, Sound
  <2> QED
    BY <2>1 DEF World, Worlds, FighterInv, Types
<1> QED
  BY <1>1, <1>2 DEF SoundWorlds, FighterInv, Served

LEMMA CommitIsSound ==
  ASSUME NEW T, NEW w \in SoundWorlds(known, met, {}, T), Commit(w)
  PROVE  /\ Sound(queue', hp', disconnects', crashed', known, met, {}, T)
         /\ disconnects' \in SUBSET Id
         /\ queue' \in [Id -> [msgs : Seq(Messages), used : Nat]]
         /\ serverShut' \in BOOLEAN /\ crashed' \in BOOLEAN
<1>1. w \in Worlds /\ Sound(w.queue, w.hp, w.disconnects, w.crashed, known, met, {}, T)
  BY DEF SoundWorlds
<1>2. /\ w.disconnects \in SUBSET Id /\ w.shut \in BOOLEAN /\ w.crashed \in BOOLEAN
      /\ w.queue \in [Id -> [msgs : Seq(Messages), used : Nat]]
  BY <1>1 DEF Worlds
<1> QED
  BY <1>1, <1>2 DEF Commit

LEMMA PairsType == ASSUME Types PROVE AllPairs \in SUBSET (Id \X Id) /\ Users \subseteq Id
BY UsersAre DEF Types, AllPairs

\* The session whose turn it is.
LEMMA CurrentIsUser ==
  ASSUME Types, Listed, pc \in {"read", "parse", "write"}, HasTurn
  PROVE  Current \in Users /\ Current \in Id /\ turn + 1 \in 0..Len(users) + 1 /\ turn + 1 >= 1
<1>1. Len(users) \in Nat /\ \A i \in 1..Len(users) : users[i] \in Users /\ users[i] \in Id
  BY UsersAre DEF Types
<1>2. turn \in 1..Len(users)
  BY <1>1 DEF Listed, HasTurn
<1> QED
  BY <1>1, <1>2 DEF Current

LEMMA NextTurn ==
  ASSUME Types, Listed, pc \in {"read", "parse", "write"}, HasTurn, AfterRead \/ AfterWrite
  PROVE  /\ pc' \in {"read", "write"} /\ turn' \in 0..Len(users) + 1 /\ turn' >= 1
BY CurrentIsUser DEF AfterRead, AfterWrite, Listed

\* A handler that leaves the list as it is and a sound world.
LEMMA HandlerKeeps ==
  ASSUME FighterInv, NEW w \in SoundWorlds(known, met, {}, AllPairs), Commit(w),
         UNCHANGED <<users, uniqueID, sock, viewVars>>,
         moving' \in [Id -> BOOLEAN], UNCHANGED <<rSet, wSet>>,
         pc' \in {"read", "parse", "write"}, packets' \in 0..MaxPackets,
         turn' \in 0..Len(users) + 1, turn' >= 1
  PROVE  FighterInv'
<1>1. /\ Sound(queue', hp', disconnects', crashed', known, met, {}, AllPairs)
      /\ disconnects' \in SUBSET Id
      /\ queue' \in [Id -> [msgs : Seq(Messages), used : Nat]]
      /\ serverShut' \in BOOLEAN /\ crashed' \in BOOLEAN
  BY CommitIsSound
<1>2. AllPairs' = AllPairs /\ known' = known /\ met' = met /\ Users' = Users
  BY DEF AllPairs, Users, viewVars
<1>3. Served'
  BY <1>1, <1>2 DEF Served
<1>4. Types'
  BY <1>1, <1>2 DEF FighterInv, Types
<1>5. Listed'
  BY <1>2 DEF FighterInv, Listed
<1> QED
  BY <1>3, <1>4, <1>5 DEF FighterInv

-----------------------------------------------------------------------------
LEMMA DisconnectingKeeps ==
  ASSUME FighterInv, readProcDisconnects \/ packetProc_MOVE_refused \/ writeProcDisconnects
  PROVE  FighterInv'
<1>1. Types /\ Listed /\ Running /\ pc \in {"read", "parse", "write"} /\ HasTurn
  BY DEF FighterInv, readProcDisconnects, packetProc_MOVE_refused, writeProcDisconnects,
         Readable, Writable, Receiving
<1>2. Current \in Id
  BY <1>1, CurrentIsUser
<1>3. pc' \in {"read", "write"} /\ turn' \in 0..Len(users) + 1 /\ turn' >= 1
  <2>1. AfterRead \/ AfterWrite
    BY DEF readProcDisconnects, packetProc_MOVE_refused, writeProcDisconnects
  <2> QED
    BY <1>1, <2>1, NextTurn
<1>4. Disconnect(World, Current) \in SoundWorlds(known, met, {}, AllPairs)
  <2>1. AllPairs \in SUBSET (Id \X Id)
    BY <1>1, PairsType
  <2>2. World \in SoundWorlds(known, met, {}, AllPairs)
    BY <1>1, WorldIsSound
  <2>3. World \in SoundWorlds(known, met, {} \cup {Current}, AllPairs)
    BY <2>2, MoreLeave
  <2> QED
    BY <1>1, <1>2, <2>1, <2>3, DisconnectLeavesSound DEF Types
<1>5. /\ Commit(Disconnect(World, Current))
      /\ UNCHANGED <<users, uniqueID, moving, sock, viewVars, rSet, wSet>>
  BY DEF readProcDisconnects, packetProc_MOVE_refused, writeProcDisconnects
<1>6. packets' \in 0..MaxPackets
  BY CapacityIsNat DEF readProcDisconnects, packetProc_MOVE_refused, writeProcDisconnects,
         Receiving, FighterInv, Types
<1>7. moving' \in [Id -> BOOLEAN]
  BY <1>5 DEF FighterInv, Types
<1> QED
  BY <1>3, <1>4, <1>5, <1>6, <1>7, HandlerKeeps

\* A message about the player whose turn it is, to everybody else.
LEMMA TellingOfCurrent ==
  ASSUME FighterInv, Running, pc \in {"read", "parse", "write"}, HasTurn,
         NEW t \in {"MOVE_START", "MOVE_STOP", "ATTACK"}
  PROVE  Broadcast(World, Current, Message(t, Current)) \in SoundWorlds(known, met, {}, AllPairs)
<1> DEFINE m == Message(t, Current)
<1>1. Types /\ Current \in Users /\ Current \in Id /\ AllPairs \in SUBSET (Id \X Id)
  BY CurrentIsUser, PairsType DEF FighterInv
<1>2. World \in SoundWorlds(known, met, {}, AllPairs)
  BY WorldIsSound
<1>3. m \in Messages /\ m.type = t /\ m.id = Current
  BY <1>1, MessageIs DEF MessageType
<1> HIDE DEF m
<1>4. \A c \in Users \ {Current} : MayBeSent(m, c, {}, AllPairs)
  BY <1>1, <1>3 DEF MayBeSent, AllPairs
<1>5. DropIsSound(DisconnectWithin[MaxSessions], known, met) /\ users \in Seq(Id)
  BY <1>1, DropsAreSound DEF Types
<1>6. BroadcastBy(DisconnectWithin[MaxSessions], World, Current, m)
        \in SoundWorlds(known, met, {}, AllPairs)
  <2>1. m.type # "CREATE_OTHER" /\ {} \in SUBSET Id
    BY <1>3
  <2> QED
    BY <1>1, <1>2, <1>3, <1>4, <1>5, <2>1, BroadcastIsSound
<1> QED
  BY <1>6 DEF Broadcast, m

LEMMA MovingKeeps ==
  ASSUME FighterInv, packetProc_MOVE_START \/ packetProc_MOVE_STOP
  PROVE  FighterInv'
<1>1. Receiving /\ pc' = "parse" /\ UNCHANGED <<users, uniqueID, sock, viewVars, loopVars>>
  BY DEF packetProc_MOVE_START, packetProc_MOVE_STOP
<1>2. /\ Types /\ Listed /\ Running /\ pc \in {"read", "parse", "write"} /\ HasTurn
      /\ packets' \in 0..MaxPackets
  BY <1>1, CapacityIsNat DEF FighterInv, Receiving, Types
<1>3. Current \in Id /\ turn' \in 0..Len(users) + 1 /\ turn' >= 1
  BY <1>1, <1>2, CurrentIsUser DEF Listed, loopVars
<1>4. PICK t \in {"MOVE_START", "MOVE_STOP", "ATTACK"} :
        Commit(Broadcast(World, Current, Message(t, Current)))
  BY DEF packetProc_MOVE_START, packetProc_MOVE_STOP
<1>5. moving' \in [Id -> BOOLEAN]
  BY <1>2, <1>3 DEF packetProc_MOVE_START, packetProc_MOVE_STOP, Types
<1>6. Broadcast(World, Current, Message(t, Current)) \in SoundWorlds(known, met, {}, AllPairs)
  BY <1>2, TellingOfCurrent
<1> QED
  BY <1>1, <1>2, <1>3, <1>4, <1>5, <1>6, HandlerKeeps DEF loopVars


-----------------------------------------------------------------------------
\* A victim that has no HP left leaves; the others know it and are told.
LEMMA HitIsSound ==
  ASSUME Types, NEW K, NEW M, NEW w \in SoundWorlds(K, M, {}, AllPairs),
         NEW v \in Users, NEW damage \in Nat
  PROVE  Hit(w, v, damage) \in SoundWorlds(K, M, {}, AllPairs)
<1> DEFINE left == Positive(w.hp[v] - damage)
           F == IF left <= 0 THEN {v} ELSE {}
           m == Message("DAMAGE", v)
           x == [w EXCEPT !.hp[v] = left]
           told == Broadcast(x, NoOne, m)
<1>1. /\ users \in Seq(Id) /\ v \in Id /\ Users \subseteq Id
      /\ AllPairs \in SUBSET (Id \X Id)
  BY PairsType DEF Types
<1>2. /\ w \in Worlds /\ Sound(w.queue, w.hp, w.disconnects, w.crashed, K, M, {}, AllPairs)
  BY DEF SoundWorlds
<1>3. left \in 0..MaxHP /\ left \in Nat
  <2>1. w.hp[v] \in 0..MaxHP
    BY <1>1, <1>2 DEF Sound
  <2> QED
    BY <2>1, CapacityIsNat DEF Positive
<1> HIDE DEF left
<1>4. F \in SUBSET Id /\ {} \subseteq F /\ (left > 0 \/ v \in F)
  BY <1>1, <1>3
<1>5. x \in SoundWorlds(K, M, F, AllPairs)
  <2>1. w \in SoundWorlds(K, M, F, AllPairs)
    BY <1>4, MoreLeave
  <2>2. /\ x \in Worlds /\ x.hp = [w.hp EXCEPT ![v] = left] /\ x.queue = w.queue
        /\ x.disconnects = w.disconnects /\ x.crashed = w.crashed
    <3>1. w \in Worlds /\ v \in Id /\ left \in Nat
      BY <1>1, <1>2, <1>3
    <3> QED
      BY <3>1, HPChanges, ZenonT(60)
  <2> HIDE DEF x, F
  <2>3. Sound(w.queue, w.hp, w.disconnects, w.crashed, K, M, F, AllPairs)
    BY <2>1 DEF SoundWorlds
  <2>4. x.hp \in [Id -> 0..MaxHP]
    BY <1>3, <2>2, <2>3 DEF Sound
  <2>5. \A c \in Id \ (w.disconnects \cup F) : w.hp[c] > 0 => x.hp[c] > 0
    BY <1>3, <1>4, <2>2, <2>3 DEF Sound
  <2>6. Sound(x.queue, x.hp, x.disconnects, x.crashed, K, M, F, AllPairs)
    BY <2>2, <2>3, <2>4, <2>5 DEF Sound
  <2> QED
    BY <2>2, <2>6 DEF SoundWorlds
<1>6. m \in Messages /\ m.type = "DAMAGE" /\ m.id = v
  BY <1>1, MessageIs DEF MessageType
<1> HIDE DEF x, m
<1>7. told \in SoundWorlds(K, M, F, AllPairs)
  <2>1. \A c \in Users \ {NoOne} : MayBeSent(m, c, F, AllPairs)
    <3> SUFFICES ASSUME NEW c \in Users PROVE MayBeSent(m, c, F, AllPairs)
      OBVIOUS
    <3>1. c # v => <<c, v>> \in AllPairs /\ c \notin F
      BY DEF AllPairs
    <3> QED
      BY <1>6, <3>1 DEF MayBeSent
  <2>2. DropIsSound(DisconnectWithin[MaxSessions], K, M)
    BY <1>1, DropsAreSound
  <2>3. m.type # "CREATE_OTHER"
    BY <1>6
  <2> HIDE DEF F
  <2> QED
    BY <1>1, <1>4, <1>5, <1>6, <2>1, <2>2, <2>3, BroadcastIsSound DEF Broadcast
<1>8. Hit(w, v, damage) = IF left <= 0 THEN Disconnect(told, v) ELSE told
  BY DEF Hit, left, x, m
<1> HIDE DEF told
<1>9. CASE left <= 0
  <2>1. told \in SoundWorlds(K, M, {} \cup {v}, AllPairs)
    <3>1. F = {} \cup {v}
      BY <1>9
    <3> QED
      BY <1>7, <3>1
  <2>2. Disconnect(told, v) \in SoundWorlds(K, M, {}, AllPairs)
    BY <1>1, <2>1, DisconnectLeavesSound
  <2> QED
    BY <1>8, <1>9, <2>2
<1>10. CASE ~(left <= 0)
  <2>1. F = {}
    BY <1>10
  <2> QED
    BY <1>7, <1>8, <1>10, <2>1
<1> QED
  BY <1>9, <1>10

LEMMA AttackKeeps ==
  ASSUME FighterInv, NEW V \in SUBSET Users, NEW damage \in {Damage1, Damage2},
         packetProc_ATTACK(V, damage)
  PROVE  FighterInv'
<1> DEFINE w0 == Broadcast(World, Current, Message("ATTACK", Current))
           S == SoundWorlds(known, met, {}, AllPairs)
           turnOf == [v \in Id |-> [w \in Worlds |->
                        IF v \in V THEN Hit(w, v, damage) ELSE w]]
<1>1. /\ Receiving /\ pc' = "parse" /\ Commit(ForEachUser(turnOf, w0))
      /\ UNCHANGED <<users, uniqueID, moving, sock, viewVars, loopVars>>
  BY DEF packetProc_ATTACK
<1>2. /\ Types /\ Listed /\ Running /\ pc \in {"read", "parse", "write"} /\ HasTurn
      /\ packets' \in 0..MaxPackets
  BY <1>1, CapacityIsNat DEF FighterInv, Receiving, Types
<1>3. turn' \in 0..Len(users) + 1 /\ turn' >= 1
  BY <1>1, <1>2 DEF Listed, loopVars
<1>4. w0 \in S
  BY <1>2, TellingOfCurrent
<1>5. damage \in Nat /\ users \in Seq(Id) /\ Users \subseteq Id
  BY <1>2, FighterAssumption, PairsType DEF Types
<1>6. ASSUME NEW c \in Users, NEW w \in S
      PROVE  turnOf[c][w] \in S
  <2>1. w \in Worlds /\ c \in Id
    BY <1>5 DEF SoundWorlds
  <2>2. turnOf[c][w] = IF c \in V THEN Hit(w, c, damage) ELSE w
    BY <2>1
  <2>3. Hit(w, c, damage) \in S
    BY <1>2, <1>5, HitIsSound
  <2> HIDE DEF S, turnOf
  <2> QED
    BY <2>2, <2>3
<1>7. ForEachUser(turnOf, w0) \in S
  <2> HIDE DEF w0, turnOf, S
  <2> QED
    BY <1>4, <1>5, <1>6, LoopKeeps
<1>8. moving' \in [Id -> BOOLEAN] /\ UNCHANGED <<users, uniqueID, sock, viewVars>>
      /\ UNCHANGED <<rSet, wSet>>
  BY <1>1, <1>2 DEF Types, loopVars
<1> HIDE DEF w0, turnOf
<1> QED
  BY <1>1, <1>2, <1>3, <1>7, <1>8, HandlerKeeps

-----------------------------------------------------------------------------
\* The new player is told of u.
LEMMA IntroduceIsSound ==
  ASSUME Types, NEW K, NEW M, NEW T \in SUBSET (Id \X Id),
         NEW w \in SoundWorlds(K, M, {}, T), NEW new \in Id, NEW u \in Id
  PROVE  Introduce(w, new, u) \in SoundWorlds(K, M, {}, T \cup {<<new, u>>})
<1> DEFINE m == Message("CREATE_OTHER", u)
           n == Message("MOVE_START", u)
           v == Unicast(w, new, m)
           S == T \cup {<<new, u>>}
<1>1. users \in Seq(Id) /\ S \in SUBSET (Id \X Id)
  BY DEF Types
<1>2. /\ m \in Messages /\ m.type = "CREATE_OTHER" /\ m.id = u
      /\ n \in Messages /\ n.type = "MOVE_START" /\ n.id = u
  BY MessageIs DEF MessageType
<1> HIDE DEF m, n
<1>3. v \in SoundWorlds(K, M, {}, S)
  <2>1. MayBeSent(m, new, {}, T)
    BY <1>2 DEF MayBeSent, Tells
  <2>2. S = T \cup Pair(m, new)
    BY <1>2 DEF Pair
  <2> QED
    BY <1>1, <2>1, <2>2, UnicastIsSound
<1> HIDE DEF v
<1>4. Unicast(v, new, n) \in SoundWorlds(K, M, {}, S)
  <2>1. MayBeSent(n, new, {}, S)
    BY <1>2 DEF MayBeSent
  <2>2. S = S \cup Pair(n, new)
    BY <1>2 DEF Pair
  <2> HIDE DEF S
  <2>3. Unicast(v, new, n) \in SoundWorlds(K, M, {}, S \cup Pair(n, new))
    BY <1>1, <1>3, <2>1, UnicastIsSound
  <2> QED
    BY <2>2, <2>3
<1>5. Introduce(w, new, u) = IF moving[u] THEN Unicast(v, new, n) ELSE v
  BY DEF Introduce, v, m, n
<1> QED
  BY <1>3, <1>4, <1>5

\* The pairs with a new player: the others are told of it, it of the first n.
Told(new, n) ==
  (AllPairs \cup Pairs(Message("CREATE_OTHER", new), NoOne, Len(users)))
    \cup {t \in Id \X Id : t[1] = new /\ \E j \in 1..n : users[j] = t[2]}

LEMMA AcceptedIsSound ==
  ASSUME FighterInv, Running, uniqueID \in Id, NEW b \in BOOLEAN
  PROVE  LET new == uniqueID
             w0 == [World EXCEPT !.hp[new] = MaxHP, !.shut = @ \/ b]
             w1 == Unicast(w0, new, Message("CREATE_MY", new))
             w2 == Broadcast(w1, NoOne, Message("CREATE_OTHER", new))
         IN  ForEachUser([u \in Id |-> [w \in Worlds |-> Introduce(w, new, u)]], w2)
               \in SoundWorlds(known, met, {}, Told(new, Len(users)))
<1> DEFINE new == uniqueID
           m1 == Message("CREATE_MY", new)
           m2 == Message("CREATE_OTHER", new)
           w0 == [World EXCEPT !.hp[new] = MaxHP, !.shut = @ \/ b]
           w1 == Unicast(w0, new, m1)
           w2 == Broadcast(w1, NoOne, m2)
           T == AllPairs \cup Pairs(m2, NoOne, Len(users))
           turnOf == [u \in Id |-> [w \in Worlds |-> Introduce(w, new, u)]]
           A == [n \in Nat |-> SoundWorlds(known, met, {}, Told(new, n))]
<1>1. /\ Types /\ users \in Seq(Id) /\ Users \subseteq Id
      /\ AllPairs \in SUBSET (Id \X Id) /\ new \in Id
  BY PairsType DEF FighterInv, Types
<1>2. /\ m1 \in Messages /\ m1.type = "CREATE_MY" /\ m1.id = new
      /\ m2 \in Messages /\ m2.type = "CREATE_OTHER" /\ m2.id = new
  BY <1>1, MessageIs DEF MessageType
<1> HIDE DEF new, m1, m2
<1>3. w0 \in SoundWorlds(known, met, {}, AllPairs)
  <2>1. World \in SoundWorlds(known, met, {}, AllPairs) /\ World \in Worlds
    BY WorldIsSound DEF SoundWorlds
  <2> DEFINE v == [World EXCEPT !.hp[new] = MaxHP]
             c == World.shut \/ b
             x == [v EXCEPT !.shut = c]
  <2>2. /\ v \in Worlds /\ v.hp = [World.hp EXCEPT ![new] = MaxHP] /\ v.queue = World.queue
        /\ v.disconnects = World.disconnects /\ v.crashed = World.crashed
    <3>1. World \in Worlds /\ new \in Id /\ MaxHP \in Nat
      BY <1>1, <2>1, CapacityIsNat
    <3> HIDE DEF World
    <3> QED
      BY <3>1, HPChanges, ZenonT(60)
  <2>3. w0 = x
    BY DEF World
  <2> HIDE DEF w0
  <2>4. /\ x \in Worlds /\ x.queue = v.queue /\ x.hp = v.hp
        /\ x.disconnects = v.disconnects /\ x.crashed = v.crashed
    <3>1. c \in BOOLEAN
      OBVIOUS
    <3> HIDE DEF v, c
    <3> QED
      BY <2>2, <3>1, ShutChanges
  <2> HIDE DEF x, v
  <2>5. Sound(World.queue, World.hp, World.disconnects, World.crashed, known, met, {}, AllPairs)
    BY <2>1 DEF SoundWorlds
  <2>6. v.hp \in [Id -> 0..MaxHP] /\ \A d \in Id : World.hp[d] > 0 => v.hp[d] > 0
    BY <1>1, <2>2, <2>5, CapacityIsNat DEF Sound
  <2>7. Sound(x.queue, x.hp, x.disconnects, x.crashed, known, met, {}, AllPairs)
    BY <2>2, <2>4, <2>5, <2>6 DEF Sound
  <2> QED
    BY <2>3, <2>4, <2>7 DEF SoundWorlds
<1> HIDE DEF w0
<1>4. w1 \in SoundWorlds(known, met, {}, AllPairs)
  <2>1. MayBeSent(m1, new, {}, AllPairs)
    BY <1>2 DEF MayBeSent, Tells
  <2>2. AllPairs = AllPairs \cup Pair(m1, new)
    BY <1>2 DEF Pair
  <2>3. w1 \in SoundWorlds(known, met, {}, AllPairs \cup Pair(m1, new))
    BY <1>1, <1>3, <2>1, UnicastIsSound
  <2> QED
    BY <2>2, <2>3
<1> HIDE DEF w1
<1>5. w2 \in SoundWorlds(known, met, {}, T)
  <2>1. \A c \in Users \ {NoOne} : MayBeSent(m2, c, {}, AllPairs)
    BY <1>2 DEF MayBeSent, Tells
  <2>2. DropIsSound(DisconnectWithin[MaxSessions], known, met)
    BY <1>1, DropsAreSound
  <2> QED
    BY <1>1, <1>2, <1>4, <2>1, <2>2, BroadcastIntroduces DEF Broadcast
<1> HIDE DEF w2, turnOf, A
<1>6. Len(users) \in Nat /\ \A i \in 1..Len(users) : users[i] \in Id
  BY <1>1, UsersAre
<1>7. \A n \in Nat : A[n] = SoundWorlds(known, met, {}, Told(new, n))
  BY DEF A
<1>8. w2 \in A[0]
  <2>1. Told(new, 0) = T
    BY DEF Told, m2
  <2> QED
    BY <1>5, <1>7, <2>1
<1>9. ASSUME NEW i \in 1..Len(users), NEW x \in A[i - 1]
      PROVE  turnOf[users[i]][x] \in A[i]
  <2> DEFINE u == users[i]
  <2>1. i \in Nat /\ i - 1 \in Nat /\ \A j \in 1..i : j \in 1..i - 1 \/ j = i
    BY <1>6
  <2>2. u \in Id /\ x \in SoundWorlds(known, met, {}, Told(new, i - 1)) /\ x \in Worlds
    BY <1>6, <1>7, <2>1 DEF SoundWorlds
  <2>3. Told(new, i - 1) \in SUBSET (Id \X Id)
    BY <1>1 DEF Told, Pairs
  <2>4. turnOf[u][x] = Introduce(x, new, u)
    BY <2>2 DEF turnOf
  <2>5. Introduce(x, new, u) \in SoundWorlds(known, met, {}, Told(new, i - 1) \cup {<<new, u>>})
    BY <1>1, <2>2, <2>3, IntroduceIsSound
  <2>6. Told(new, i) \subseteq (Told(new, i - 1) \cup {<<new, u>>}) \cup ({} \X Id)
    BY <2>1 DEF Told
  <2>7. Introduce(x, new, u) \in SoundWorlds(known, met, {}, Told(new, i))
    BY <2>5, <2>6, MoreLeave
  <2> QED
    BY <1>7, <2>1, <2>4, <2>7
<1>10. ForEachUser(turnOf, w2) \in A[Len(users)]
  BY <1>1, <1>8, <1>9, LoopStays
<1>11. ForEachUser(turnOf, w2) \in SoundWorlds(known, met, {}, Told(new, Len(users)))
  BY <1>6, <1>7, <1>10
<1> QED
  BY <1>11 DEF turnOf, w2, w1, w0, m1, m2, new


LEMMA AcceptKeeps ==
  ASSUME FighterInv, NEW socket \in {"open", "invalid"}, NEW wouldBlock \in BOOLEAN,
         acceptProc(socket, wouldBlock)
  PROVE  FighterInv'
<1> DEFINE new == uniqueID
           b == socket = "invalid" /\ ~wouldBlock
           w0 == [World EXCEPT !.hp[new] = MaxHP, !.shut = @ \/ b]
           w1 == Unicast(w0, new, Message("CREATE_MY", new))
           w2 == Broadcast(w1, NoOne, Message("CREATE_OTHER", new))
           turnOf == [u \in Id |-> [w \in Worlds |-> Introduce(w, new, u)]]
           w3 == ForEachUser(turnOf, w2)
           T == Told(new, Len(users))
<1>1. Types /\ Listed /\ Running /\ pc = "accept" /\ Commit(w3)
  BY DEF acceptProc, FighterInv
<1>2. /\ users' = Append(users, new) /\ new' = new + 1
      /\ sock' = [sock EXCEPT ![new] = socket] /\ moving' = [moving EXCEPT ![new] = FALSE]
      /\ pc' = "read" /\ UNCHANGED <<viewVars, loopVars, packets>>
  BY DEF acceptProc
<1>3. new \in Id /\ users \in Seq(Id) /\ Len(users) \in Nat /\ Users \subseteq Id
      /\ \A i \in 1..Len(users) : users[i] \in Users
  BY <1>1, UsersAre, CapacityIsNat DEF Types, Listed, Id
<1>4. w3 \in SoundWorlds(known, met, {}, T)
  <2>1. b \in BOOLEAN
    OBVIOUS
  <2> HIDE DEF b
  <2> QED
    BY <1>1, <1>3, <2>1, AcceptedIsSound
<1> HIDE DEF w3
<1>5. /\ Sound(queue', hp', disconnects', crashed', known, met, {}, T)
      /\ disconnects' \in SUBSET Id
      /\ queue' \in [Id -> [msgs : Seq(Messages), used : Nat]]
      /\ serverShut' \in BOOLEAN /\ crashed' \in BOOLEAN
  BY <1>1, <1>4, CommitIsSound
<1>6. users' \in Seq(Id) /\ Len(users') = Len(users) + 1
      /\ users'[Len(users) + 1] = new /\ \A i \in 1..Len(users) : users'[i] = users[i]
  BY <1>2, <1>3, AppendProperties
<1>7. Users' \subseteq Users \cup {new}
  <2> SUFFICES ASSUME NEW u \in Users' PROVE u \in Users \/ u = new
    OBVIOUS
  <2>1. PICK i \in 1..Len(users') : u = users'[i]
    BY LenProperties, <1>6 DEF Users, ToSet
  <2>2. i \in 1..Len(users) \/ i = Len(users) + 1
    BY <1>3, <1>6
  <2> QED
    BY <1>3, <1>6, <2>1, <2>2
<1>8. AllPairs' \subseteq T
  <2> SUFFICES ASSUME NEW t \in AllPairs' PROVE t \in T
    OBVIOUS
  <2>1. t \in (Users \cup {new}) \X (Users \cup {new}) /\ t[1] # t[2] /\ t \in Id \X Id
    BY <1>3, <1>7 DEF AllPairs
  <2>2. CASE t[1] \in Users /\ t[2] \in Users
    BY <2>1, <2>2 DEF AllPairs, Told
  <2>3. CASE t[1] \in Users /\ t[2] = new
    <3>1. \E j \in 1..Len(users) : users[j] = t[1]
      BY <1>3, <2>3, UsersAre
    <3>2. t[1] # NoOne
      BY <2>1 DEF NoOne, Id
    <3>3. /\ Message("CREATE_OTHER", new).type = "CREATE_OTHER"
          /\ Message("CREATE_OTHER", new).id = new
      BY DEF Message
    <3> HIDE DEF new
    <3>4. t \in Pairs(Message("CREATE_OTHER", new), NoOne, Len(users))
      BY <2>1, <2>3, <3>1, <3>2, <3>3 DEF Pairs
    <3> QED
      BY <3>4 DEF Told
  <2>4. CASE t[1] = new /\ t[2] \in Users
    <3>1. \E j \in 1..Len(users) : users[j] = t[2]
      BY <1>3, <2>4, UsersAre
    <3> QED
      BY <2>1, <2>4, <3>1 DEF Told
  <2> QED
    BY <2>1, <2>2, <2>3, <2>4
<1>9. Served'
  <2>1. known' = known /\ met' = met
    BY <1>2 DEF viewVars
  <2>2. Sound(queue', hp', disconnects', crashed', known, met, {}, AllPairs')
    BY <1>5, <1>8 DEF Sound, Introduced
  <2> QED
    BY <2>1, <2>2 DEF Served
<1>10. Types'
  <2>1. uniqueID' \in 0..MaxSessions
    BY <1>2, <1>3, CapacityIsNat DEF Id
  <2>2. sock' \in [Id -> {"open", "invalid", "closed", "none"}] /\ moving' \in [Id -> BOOLEAN]
    BY <1>1, <1>2 DEF Types
  <2>3. /\ known' \in [Id -> SUBSET Id] /\ met' \in [Id -> SUBSET Id] /\ packets' \in 0..MaxPackets
        /\ rSet' \in SUBSET Id /\ wSet' \in SUBSET Id
    BY <1>1, <1>2 DEF Types, viewVars, loopVars
  <2> QED
    BY <1>2, <1>5, <1>6, <2>1, <2>2, <2>3 DEF Types
<1>11. Listed'
  <2>1. Len(users') <= uniqueID' /\ turn' \in 0..Len(users') + 1 /\ turn' >= 1
    <3>1. Len(users) <= uniqueID /\ turn \in 0..Len(users) + 1 /\ turn >= 1
          /\ uniqueID \in Nat
      BY <1>1 DEF Listed, Types
    <3>2. turn' = turn
      BY <1>2 DEF loopVars
    <3> QED
      BY <1>2, <1>3, <1>6, <3>1, <3>2
  <2>2. \A u \in Users' : sock'[u] # "closed"
    BY <1>1, <1>2, <1>3, <1>7 DEF Listed, Types
  <2> QED
    BY <1>2, <2>1, <2>2 DEF Listed
<1> QED
  BY <1>9, <1>10, <1>11 DEF FighterInv

-----------------------------------------------------------------------------
\* The steps that touch no session.
LEMMA QuietKeeps ==
  ASSUME FighterInv, UNCHANGED <<users, disconnects, uniqueID, charVars, sock, queue, viewVars,
                                 crashed>>
  PROVE  /\ users' \in Seq(Id) /\ Served'
         /\ Len(users') <= uniqueID' /\ \A u \in Users' : sock'[u] # "closed"
         /\ serverShut' \in BOOLEAN /\ packets' \in 0..MaxPackets
            /\ pc' \in {"select", "accept", "read", "parse", "write", "update"}
            /\ rSet' \in SUBSET Id /\ wSet' \in SUBSET Id => Types'
<1>1. Users' = Users /\ AllPairs' = AllPairs
  BY DEF Users, AllPairs
<1>2. Served'
  BY <1>1 DEF FighterInv, Served, charVars, viewVars
<1> QED
  BY <1>1, <1>2 DEF FighterInv, Types, Listed, charVars, viewVars

LEMMA SelectKeeps ==
  ASSUME FighterInv, NEW ready \in BOOLEAN, NEW connecting \in BOOLEAN, select(ready, connecting)
  PROVE  FighterInv'
<1>1. UNCHANGED <<users, disconnects, uniqueID, charVars, sock, queue, viewVars,
                 serverShut, crashed, packets>>
  BY DEF select
<1>2. Users \subseteq Id /\ Len(users) \in Nat
  BY UsersAre DEF FighterInv, Types
<1>3. /\ pc = "select" /\ (connecting => ready /\ uniqueID < MaxSessions)
      /\ rSet' = IF ready THEN Users ELSE {}
      /\ wSet' = IF ready THEN {u \in Users : queue[u].used > 0} ELSE {}
      /\ turn' = IF ready THEN 1 ELSE 0
      /\ pc' = IF connecting THEN "accept" ELSE IF ready THEN "read" ELSE "update"
  BY DEF select
<1>4. rSet' \in SUBSET Id /\ wSet' \in SUBSET Id
  BY <1>2, <1>3
<1>5. turn' \in 0..Len(users') + 1 /\ (ready => turn' >= 1)
  BY <1>1, <1>2, <1>3
<1>6. Types'
  <2>1. serverShut' \in BOOLEAN /\ packets' \in 0..MaxPackets
    BY <1>1 DEF FighterInv, Types
  <2>2. pc' \in {"select", "accept", "read", "parse", "write", "update"}
    BY <1>3
  <2> QED
    BY <1>1, <1>4, <2>1, <2>2, QuietKeeps
<1>7. Served' /\ Len(users') <= uniqueID' /\ \A u \in Users' : sock'[u] # "closed"
  BY <1>1, QuietKeeps
<1>8. /\ pc' \in {"accept", "read", "parse", "write"} => turn' >= 1
      /\ pc' = "accept" => uniqueID' < MaxSessions
      /\ disconnects' = {}
  BY <1>1, <1>3, <1>5 DEF FighterInv, Listed
<1> QED
  BY <1>5, <1>6, <1>7, <1>8 DEF FighterInv, Listed

LEMMA SelectFailsKeeps ==
  ASSUME FighterInv, selectFails
  PROVE  FighterInv'
<1>1. /\ UNCHANGED <<users, disconnects, uniqueID, charVars, sock, queue, viewVars,
                     crashed, loopVars, packets>>
      /\ pc = "select" /\ pc' = "update" /\ serverShut' = TRUE
  BY DEF selectFails
<1>2. /\ Served' /\ Len(users') <= uniqueID' /\ \A u \in Users' : sock'[u] # "closed"
  BY <1>1, QuietKeeps
<1>3. Types'
  <2>1. /\ rSet' \in SUBSET Id /\ wSet' \in SUBSET Id /\ packets' \in 0..MaxPackets
        /\ serverShut' \in BOOLEAN
    BY <1>1 DEF FighterInv, Types, loopVars
  <2>2. pc' \in {"select", "accept", "read", "parse", "write", "update"}
    BY <1>1
  <2> QED
    BY <1>1, <2>1, <2>2, QuietKeeps
<1>4. turn' \in 0..Len(users') + 1 /\ disconnects' = {}
  BY <1>1 DEF FighterInv, Listed, loopVars
<1> QED
  BY <1>1, <1>2, <1>3, <1>4 DEF FighterInv, Listed

LEMMA TurnKeeps ==
  ASSUME FighterInv, NotReady \/ SocketError
  PROVE  FighterInv'
<1>1. /\ UNCHANGED <<users, disconnects, uniqueID, charVars, sock, queue, viewVars,
                     crashed, rSet, wSet, packets>>
      /\ serverShut' \in {serverShut, TRUE}
      /\ pc \in {"read", "parse", "write"} /\ HasTurn /\ (AfterRead \/ AfterWrite)
  BY DEF NotReady, SocketError, Readable, Writable
<1>2. pc' \in {"read", "write"} /\ turn' \in 0..Len(users) + 1 /\ turn' >= 1
  BY <1>1, NextTurn DEF FighterInv
<1>3. Served' /\ Len(users') <= uniqueID' /\ \A u \in Users' : sock'[u] # "closed"
  BY <1>1, QuietKeeps
<1>4. Types'
  <2>1. /\ rSet' \in SUBSET Id /\ wSet' \in SUBSET Id /\ packets' \in 0..MaxPackets
        /\ serverShut' \in BOOLEAN
    BY <1>1 DEF FighterInv, Types
  <2>2. pc' \in {"select", "accept", "read", "parse", "write", "update"}
    BY <1>2
  <2> QED
    BY <1>1, <2>1, <2>2, QuietKeeps
<1>5. turn' \in 0..Len(users') + 1
  BY <1>1, <1>2
<1> QED
  BY <1>2, <1>3, <1>4, <1>5 DEF FighterInv, Listed


-----------------------------------------------------------------------------
\* What send took of a queue, and what it left.
LEMMA WrittenSound ==
  ASSUME NEW q, QueueSound(q), NEW n \in 0..Len(q.msgs),
         \A i \in 1..n : q.msgs[i].type # "CUT"
  PROVE  QueueSound([msgs |-> SubSeq(q.msgs, n + 1, Len(q.msgs)),
                     used |-> FoldLeft(LAMBDA used, m : Without[m][used], q.used,
                                       SubSeq(q.msgs, 1, n))])
<1> DEFINE s == q.msgs
           taken == SubSeq(s, 1, n)
           left == SubSeq(s, n + 1, Len(s))
<1>1. PICK h : Weighs(h, s) /\ h[Len(s)] = q.used
  BY DEF QueueSound
<1>2. s \in Seq(Messages) /\ q.used \in Nat /\ q.used <= Capacity /\ Len(s) \in Nat
      /\ n \in Nat /\ n <= Len(s)
  BY LenProperties DEF QueueSound
<1>3. /\ taken \in Seq(Messages) /\ Len(taken) = n /\ \A i \in 1..n : taken[i] = s[i]
      /\ left \in Seq(Messages) /\ Len(left) = Len(s) - n
      /\ \A i \in 1..Len(s) - n : left[i] = s[n + i]
  BY <1>2, TakeDrop
<1> HIDE DEF taken, left
<1>4. /\ \A i \in 0..Len(s) : h[i] \in Nat /\ h[i] <= q.used
      /\ h[0] = 0 /\ \A i \in 1..Len(s) : h[i] = h[i - 1] + Weight(s[i])
      /\ \A i, j \in 0..Len(s) : i <= j => h[i] <= h[j]
  <2>1. Len(s) \in 0..Len(s) /\ \A i \in 0..Len(s) : i <= Len(s)
    BY <1>2
  <2> QED
    BY <1>1, <2>1 DEF Weighs
<1> DEFINE A == [i \in Nat |-> {q.used - h[i]}]
<1>5. \A i \in Nat : A[i] = {q.used - h[i]}
  OBVIOUS
<1> HIDE DEF A
<1>6. Folded(Without, q.used, taken) \in A[Len(taken)]
  <2>1. q.used \in A[0]
    BY <1>2, <1>4, <1>5
  <2>2. ASSUME NEW i \in 1..Len(taken), NEW x \in A[i - 1]
        PROVE  Without[taken[i]][x] \in A[i]
    <3>1. i \in 1..n /\ i \in 1..Len(s) /\ i \in Nat /\ i - 1 \in Nat /\ i - 1 \in 0..Len(s)
          /\ i \in 0..Len(s)
      BY <1>2, <1>3
    <3>2. x = q.used - h[i - 1] /\ x \in Nat
      BY <1>2, <1>4, <1>5, <3>1
    <3>3. taken[i] = s[i] /\ s[i] \in Messages /\ s[i].type # "CUT"
      BY <1>2, <1>3, <3>1, ElementOfSeq
    <3>4. Without[taken[i]][x] = x - Size(s[i])
      BY <3>2, <3>3 DEF Without
    <3>5. Weight(s[i]) = Size(s[i]) /\ Size(s[i]) \in 1..2
      BY <3>3, MessagesType DEF Weight
    <3>6. x - Size(s[i]) = q.used - h[i]
      <4>1. h[i] = h[i - 1] + Size(s[i])
        BY <1>4, <3>1, <3>5
      <4>2. h[i - 1] \in Nat /\ q.used \in Nat
        BY <1>2, <1>4, <3>1
      <4> HIDE DEF s
      <4> QED
        BY <3>2, <3>5, <4>1, <4>2
    <3> QED
      BY <1>5, <3>1, <3>4, <3>6
  <2> QED
    BY <1>3, <2>1, <2>2, FoldStays
<1> DEFINE used == FoldLeft(LAMBDA u, m : Without[m][u], q.used, taken)
           r == [msgs |-> left, used |-> used]
<1>7. used = q.used - h[n] /\ used \in Nat /\ used <= Capacity
  <2>1. used = Folded(Without, q.used, taken)
    BY DEF Folded
  <2> HIDE DEF used
  <2>2. A[Len(taken)] = {q.used - h[n]} /\ n \in 0..Len(s)
    BY <1>2, <1>3, <1>5
  <2>3. used = q.used - h[n]
    BY <1>6, <2>1, <2>2
  <2>4. h[n] \in Nat /\ h[n] <= q.used
    BY <1>4, <2>2
  <2> HIDE DEF s
  <2> QED
    BY <1>2, <2>3, <2>4, CapacityIsNat
<1> HIDE DEF used
<1> DEFINE g == [i \in 0..Len(s) - n |-> h[n + i] - h[n]]
<1>8. \A i \in 0..Len(s) - n : n + i \in 0..Len(s) /\ n <= n + i /\ n \in 0..Len(s)
  BY <1>2
<1>9. g \in [0..Len(s) - n -> Nat] /\ g[0] = 0 /\ g[Len(s) - n] = used
  <2>1. \A i \in 0..Len(s) - n : h[n + i] \in Nat /\ h[n] \in Nat /\ h[n] <= h[n + i]
    BY <1>4, <1>8
  <2>2. 0 \in 0..Len(s) - n /\ Len(s) - n \in 0..Len(s) - n /\ n + (Len(s) - n) = Len(s)
        /\ n + 0 = n
    BY <1>2
  <2>3. g[Len(s) - n] = h[Len(s)] - h[n]
    BY <2>2
  <2>4. h[Len(s)] = q.used
    BY <1>1
  <2>5. g[0] = h[n] - h[n] /\ h[n] \in Nat
    BY <2>1, <2>2
  <2>6. g \in [0..Len(s) - n -> Nat]
    <3> DEFINE top == Len(s) - n
    <3> HIDE DEF top, s
    <3>1. \A i \in 0..top : h[n + i] - h[n] \in Nat
      BY <2>1 DEF top
    <3> QED
      BY <3>1 DEF top
  <2> HIDE DEF g, s
  <2> QED
    BY <1>7, <2>3, <2>4, <2>5, <2>6
<1>10. \A i \in 1..Len(s) - n : g[i] = g[i - 1] + Weight(left[i])
  <2> SUFFICES ASSUME NEW i \in 1..Len(s) - n PROVE g[i] = g[i - 1] + Weight(left[i])
    OBVIOUS
  <2>1. i \in 0..Len(s) - n /\ i - 1 \in 0..Len(s) - n /\ n + i \in 1..Len(s)
        /\ (n + i) - 1 = n + (i - 1)
    BY <1>2
  <2>2. h[n + i] = h[n + (i - 1)] + Weight(left[i])
    BY <1>3, <1>4, <2>1
  <2>3. h[n + (i - 1)] \in Nat /\ h[n] \in Nat /\ Weight(left[i]) \in Nat
    <3>1. left[i] \in Messages
      BY <1>3, ElementOfSeq
    <3> QED
      BY <1>4, <1>8, <2>1, <3>1, MessagesType
  <2> QED
    BY <2>1, <2>2, <2>3
<1>11. \A i, j \in 0..Len(s) - n : i <= j => g[i] <= g[j]
  <2> SUFFICES ASSUME NEW i \in 0..Len(s) - n, NEW j \in 0..Len(s) - n, i <= j
               PROVE  g[i] <= g[j]
    OBVIOUS
  <2>1. n + i \in 0..Len(s) /\ n + j \in 0..Len(s) /\ n + i <= n + j
    BY <1>2
  <2>2. h[n + i] <= h[n + j] /\ h[n + i] \in Nat /\ h[n + j] \in Nat /\ h[n] \in Nat
    BY <1>4, <1>8, <2>1
  <2> QED
    BY <2>2
<1> HIDE DEF g, s
<1>12. Weighs(g, r.msgs) /\ g[Len(r.msgs)] = r.used
  <2>1. r.msgs = left /\ r.used = used
    OBVIOUS
  <2> QED
    BY <1>3, <1>9, <1>10, <1>11, <2>1 DEF Weighs
<1>13. r \in [msgs : Seq(Messages), used : Nat]
  BY <1>3, <1>7
<1>14. QueueSound(r)
  <2>1. r.used <= Capacity
    BY <1>7
  <2> QED
    BY <1>12, <1>13, <2>1 DEF QueueSound
<1> QED
  BY <1>14 DEF s, left, taken, used

\* The client has read the first n messages of s: what it is told of, and will
\* show, is the same.
LEMMA WrittenTells ==
  ASSUME NEW s \in Seq(Messages), NEW n \in 0..Len(s), NEW M, NEW K, NEW c
  PROVE  LET taken == SubSeq(s, 1, n)
             left == SubSeq(s, n + 1, Len(s))
             M1 == M \cup Created(taken)
         IN  /\ Ordered(s, M, c) => Ordered(left, M1, c)
             /\ Whole(s) => Whole(left)
             /\ \A u \in Id : IsTold(s, M, u) => IsTold(left, M1, u)
             /\ \A u \in Id : Shows(s, K, u) => Shows(left, ShownAfter(K, taken), u)
             /\ Created(taken) \subseteq Id
<1> DEFINE taken == SubSeq(s, 1, n)
           left == SubSeq(s, n + 1, Len(s))
           M1 == M \cup Created(taken)
           K1 == ShownAfter(K, taken)
<1>1. /\ taken \in Seq(Messages) /\ Len(taken) = n /\ \A i \in 1..n : taken[i] = s[i]
      /\ left \in Seq(Messages) /\ Len(left) = Len(s) - n
      /\ \A i \in 1..Len(s) - n : left[i] = s[n + i]
  BY TakeDrop
<1>2. Len(s) \in Nat /\ n \in Nat /\ n <= Len(s) /\ DOMAIN taken = 1..n
  BY <1>1, LenProperties
<1> HIDE DEF taken, left
<1>3. ASSUME NEW k \in 1..n, NEW u \in Id, s[k] = Message("CREATE_OTHER", u)
      PROVE  u \in M1
  <2>1. taken[k] = Message("CREATE_OTHER", u) /\ taken[k] \in ToSet(taken)
    BY <1>1, <1>2, <1>3 DEF ToSet
  <2> QED
    BY <2>1 DEF Created, Message
<1>4. ASSUME NEW i \in 0..Len(s) - n, NEW u \in Id, CreatedIn(s, n + i, u)
      PROVE  u \in M1 \/ CreatedIn(left, i, u)
  <2>1. PICK k \in 1..n + i : s[k] = Message("CREATE_OTHER", u)
    BY <1>4 DEF CreatedIn
  <2>2. CASE k <= n
    <3>1. k \in 1..n
      BY <1>2, <2>2
    <3> QED
      BY <1>3, <2>1, <3>1
  <2>3. CASE ~(k <= n)
    <3>1. k - n \in 1..i /\ k - n \in 1..Len(s) - n /\ n + (k - n) = k
      BY <1>2, <2>3
    <3>2. left[k - n] = s[k]
      BY <1>1, <3>1
    <3> QED
      BY <2>1, <3>1, <3>2 DEF CreatedIn
  <2> QED
    BY <2>2, <2>3
<1>5. ASSUME Ordered(s, M, c)
      PROVE  Ordered(left, M1, c)
  <2> SUFFICES ASSUME NEW i \in 1..Len(left), Tells(left[i]), left[i].id # c
               PROVE  left[i].id \in M1 \/ CreatedIn(left, i, left[i].id)
    BY DEF Ordered
  <2>1. i \in 0..Len(s) - n /\ n + i \in 1..Len(s) /\ left[i] = s[n + i]
    BY <1>1, <1>2
  <2>2. left[i].id \in Id
    BY <1>1, ElementOfSeq, MessagesType
  <2>3. left[i].id \in M \/ CreatedIn(s, n + i, left[i].id)
    BY <1>5, <2>1 DEF Ordered
  <2> QED
    BY <1>4, <2>1, <2>2, <2>3
<1>6. ASSUME Whole(s)
      PROVE  Whole(left)
  <2>1. \A i \in 1..Len(s) - n : n + i \in 1..Len(s)
    BY <1>2
  <2> QED
    BY <1>1, <1>6, <2>1 DEF Whole
<1>7. ASSUME NEW u \in Id, IsTold(s, M, u)
      PROVE  IsTold(left, M1, u)
  <2>1. Len(s) - n \in 0..Len(s) - n /\ n + (Len(s) - n) = Len(s)
    BY <1>2
  <2> QED
    BY <1>1, <1>4, <1>7, <2>1 DEF IsTold
<1>8. ASSUME NEW u \in Id, Shows(s, K, u)
      PROVE  Shows(left, K1, u)
  <2>1. PICK k \in 0..Len(s) :
          /\ IF k = 0 THEN u \in K ELSE s[k] = Message("CREATE_OTHER", u)
          /\ \A j \in k + 1..Len(s) : s[j] # Message("DELETE", u)
    BY <1>8 DEF Shows, ShownAfter
  <2>2. CASE k <= n
    <3>1. k \in 0..n /\ (k # 0 => k \in 1..n) /\ \A j \in k + 1..n : j \in k + 1..Len(s) /\ j \in 1..n
      BY <1>2, <2>2
    <3>2. /\ IF k = 0 THEN u \in K ELSE taken[k] = Message("CREATE_OTHER", u)
          /\ \A j \in k + 1..n : taken[j] # Message("DELETE", u)
      BY <1>1, <2>1, <3>1
    <3>3. u \in K1
      BY <1>1, <3>1, <3>2 DEF ShownAfter
    <3>4. \A j \in 0 + 1..Len(s) - n : left[j] # Message("DELETE", u)
      <4>1. \A j \in 0 + 1..Len(s) - n : n + j \in k + 1..Len(s) /\ j \in 1..Len(s) - n
        BY <1>2, <2>2
      <4> QED
        BY <1>1, <2>1, <4>1
    <3>5. 0 \in 0..Len(left) /\ Len(left) = Len(s) - n
      BY <1>1, <1>2
    <3> HIDE DEF K1
    <3> QED
      BY <3>3, <3>4, <3>5 DEF Shows, ShownAfter
  <2>3. CASE ~(k <= n)
    <3>1. k - n \in 1..Len(s) - n /\ k - n \in 0..Len(s) - n /\ n + (k - n) = k /\ k # 0 /\ k - n # 0
      BY <1>2, <2>3
    <3>2. left[k - n] = Message("CREATE_OTHER", u)
      BY <1>1, <2>1, <3>1
    <3>3. \A j \in (k - n) + 1..Len(s) - n : left[j] # Message("DELETE", u)
      <4>1. \A j \in (k - n) + 1..Len(s) - n : n + j \in k + 1..Len(s) /\ j \in 1..Len(s) - n
        BY <1>2, <2>3
      <4> QED
        BY <1>1, <2>1, <4>1
    <3> HIDE DEF K1
    <3> QED
      BY <1>1, <3>1, <3>2, <3>3 DEF Shows, ShownAfter
  <2> QED
    BY <2>2, <2>3
<1>9. Created(taken) \subseteq Id
  <2> SUFFICES ASSUME NEW m \in ToSet(taken) PROVE m.id \in Id
    BY DEF Created
  <2>1. m \in Messages
    BY <1>1, <1>2, ElementOfSeq DEF ToSet
  <2> QED
    BY <2>1, MessagesType
<1> HIDE DEF K1, M1
<1> QED
  BY <1>5, <1>6, <1>7, <1>8, <1>9 DEF taken, left, M1, K1


LEMMA WriteKeeps ==
  ASSUME FighterInv, NEW n \in 0..Capacity, writeProc(n)
  PROVE  FighterInv'
<1> DEFINE q == queue[Current]
           s == q.msgs
           taken == SubSeq(s, 1, n)
           left == SubSeq(s, n + 1, Len(s))
           r == [msgs |-> left,
                 used |-> FoldLeft(LAMBDA used, m : Without[m][used], q.used, taken)]
           K == ShownAfter(known[Current], taken)
           M == met[Current] \cup Created(taken)
<1>1. /\ Types /\ Listed /\ pc = "write" /\ HasTurn /\ AfterWrite /\ Served
      /\ n <= Len(s) /\ \A i \in 1..n : s[i].type # "CUT"
      /\ queue' = [queue EXCEPT ![Current] = r]
      /\ known' = [known EXCEPT ![Current] = K]
      /\ met' = [met EXCEPT ![Current] = M]
      /\ UNCHANGED <<users, disconnects, uniqueID, charVars, sock, serverShut, crashed,
                     rSet, wSet, packets>>
  BY DEF FighterInv, writeProc, Writable
<1>2. Current \in Id
  BY <1>1, CurrentIsUser
<1> DEFINE c == Current
<1>3. QueueSound(q) /\ s \in Seq(Messages) /\ n \in 0..Len(s)
  <2>1. QueueSound(q)
    BY <1>1, <1>2 DEF Served, Sound
  <2>2. s \in Seq(Messages) /\ Len(s) \in Nat
    BY <2>1, LenProperties DEF QueueSound
  <2>3. n \in Nat
    BY CapacityIsNat
  <2>4. n <= Len(s)
    BY <1>1, Zenon
  <2> HIDE DEF q, s
  <2> QED
    BY <2>1, <2>2, <2>3, <2>4
<1>4. QueueSound(r) /\ r \in [msgs : Seq(Messages), used : Nat]
  <2>1. QueueSound(r)
    BY <1>1, <1>3, WrittenSound
  <2> HIDE DEF r
  <2> QED
    BY <2>1 DEF QueueSound
<1>5. /\ Ordered(s, met[c], c) => Ordered(left, M, c)
      /\ Whole(s) => Whole(left)
      /\ \A u \in Id : IsTold(s, met[c], u) => IsTold(left, M, u)
      /\ \A u \in Id : Shows(s, known[c], u) => Shows(left, K, u)
      /\ Created(taken) \subseteq Id
  <2> HIDE DEF s
  <2> QED
    BY <1>3, WrittenTells
<1>6. r.msgs = left
  OBVIOUS
<1>7. K \subseteq Id /\ M \subseteq Id
  <2>1. met[c] \subseteq Id
    BY <1>1, <1>2 DEF Types
  <2> QED
    BY <1>5, <2>1 DEF ShownAfter
<1> HIDE DEF r, left, K, M
<1>8. /\ queue'[c] = r /\ known'[c] = K /\ met'[c] = M
      /\ \A d \in Id \ {c} : queue'[d] = queue[d] /\ known'[d] = known[d] /\ met'[d] = met[d]
  BY <1>1, <1>2 DEF Types
<1>9. /\ queue' \in [Id -> [msgs : Seq(Messages), used : Nat]]
      /\ known' \in [Id -> SUBSET Id] /\ met' \in [Id -> SUBSET Id]
  BY <1>1, <1>2, <1>4, <1>7 DEF Types
<1> DEFINE p == Current
<1> HIDE DEF c
<1>10. c \in Id /\ s = queue[c].msgs
  BY <1>2 DEF c
<1> HIDE DEF s, q, taken
<1>11. AllPairs' = AllPairs /\ Users' = Users /\ AllPairs \in SUBSET (Id \X Id)
  BY <1>1, PairsType DEF AllPairs, Users
<1>12. Sound(queue, hp, disconnects, crashed, known, met, {}, AllPairs)
  BY <1>1 DEF Served
<1>13. \A d \in Id : QueueSound(queue'[d])
  BY <1>4, <1>8, <1>12 DEF Sound
<1>14. \A d \in Id \ disconnects : Ordered(queue'[d].msgs, met'[d], d)
  BY <1>5, <1>6, <1>8, <1>10, <1>12 DEF Sound
<1>15. \A d \in Id : Whole(queue[d].msgs) => Whole(queue'[d].msgs)
  BY <1>5, <1>6, <1>8, <1>10
<1>16. ASSUME NEW d \in Id, NEW u \in Id
       PROVE  /\ IsTold(queue[d].msgs, met[d], u) => IsTold(queue'[d].msgs, met'[d], u)
              /\ Shows(queue[d].msgs, known[d], u) => Shows(queue'[d].msgs, known'[d], u)
  <2>1. CASE d = c
    BY <1>5, <1>6, <1>8, <1>10, <2>1
  <2>2. CASE d # c
    BY <1>8, <2>2
  <2> QED
    BY <2>1, <2>2
<1>17. ASSUME Introduced(queue, disconnects, known, met, {}, AllPairs)
       PROVE  Introduced(queue', disconnects, known', met', {}, AllPairs)
  <2> SUFFICES ASSUME NEW t \in AllPairs, t[1] \notin disconnects
               PROVE  /\ IsTold(queue'[t[1]].msgs, met'[t[1]], t[2])
                      /\ t[2] \in disconnects \/ Shows(queue'[t[1]].msgs, known'[t[1]], t[2])
    BY DEF Introduced
  <2>1. t[1] \in Id /\ t[2] \in Id
    BY <1>11
  <2>2. /\ IsTold(queue[t[1]].msgs, met[t[1]], t[2])
        /\ t[2] \in disconnects \/ Shows(queue[t[1]].msgs, known[t[1]], t[2])
    BY <1>17 DEF Introduced
  <2> QED
    BY <1>16, <2>1, <2>2
<1>18. Sound(queue', hp, disconnects, crashed, known', met', {}, AllPairs)
  BY <1>12, <1>13, <1>14, <1>15, <1>17 DEF Sound
<1>19. Served'
  BY <1>1, <1>11, <1>18 DEF Served, charVars
<1>20. pc' \in {"read", "write"} /\ turn' \in 0..Len(users) + 1 /\ turn' >= 1
  BY <1>1, NextTurn
<1>21. Types'
  BY <1>1, <1>9, <1>20 DEF Types, charVars
<1>22. Listed'
  BY <1>1, <1>11, <1>20 DEF Listed
<1> QED
  BY <1>19, <1>21, <1>22 DEF FighterInv

-----------------------------------------------------------------------------
\* The users that stay are users, and not disconnected.
LEMMA StayingAre ==
  ASSUME Types
  PROVE  LET list == ForEachUser(Staying, <<>>)
         IN  /\ list \in Seq(Id) /\ Len(list) <= Len(users)
             /\ ToSet(list) \subseteq Users \ disconnects
<1> DEFINE Part(i) == {list \in Seq(Id) : /\ Len(list) <= i
                                          /\ \A k \in 1..Len(list) : list[k] \in Users \ disconnects}
           A == [i \in Nat |-> Part(i)]
<1>1. /\ users \in Seq(Id) /\ Len(users) \in Nat
      /\ \A i \in 1..Len(users) : users[i] \in Users /\ users[i] \in Id
  BY UsersAre DEF Types
<1>2. \A i \in Nat : A[i] = Part(i)
  OBVIOUS
<1> HIDE DEF A
<1>3. <<>> \in A[0]
  <2>1. <<>> \in Seq(Id) /\ Len(<<>>) = 0
    BY EmptySeq
  <2>2. \A e \in Seq(Id) : Len(e) = 0 => e \in Part(0)
    OBVIOUS
  <2>3. <<>> \in Part(0)
    BY <2>1, <2>2, Zenon
  <2>4. A[0] = Part(0)
    BY <1>2
  <2> QED
    BY <2>3, <2>4, Zenon
<1>4. ASSUME NEW i \in 1..Len(users), NEW list \in A[i - 1]
      PROVE  Staying[users[i]][list] \in A[i]
  <2> DEFINE u == users[i]
             longer == Append(list, u)
  <2>1. i \in Nat /\ i - 1 \in Nat /\ u \in Id /\ u \in Users
    BY <1>1
  <2>2. list \in Part(i - 1)
    BY <1>2, <2>1
  <2>3. list \in Seq(Id) /\ Len(list) \in Nat /\ Len(list) <= i - 1
        /\ \A k \in 1..Len(list) : list[k] \in Users \ disconnects
    BY <2>2, LenProperties
  <2>4. Staying[u][list] = IF u \in disconnects THEN list ELSE longer
    BY <2>1, <2>3 DEF Staying
  <2>5. list \in Part(i)
    BY <2>1, <2>3
  <2>6. u \notin disconnects => longer \in Part(i)
    <3>1. longer \in Seq(Id) /\ Len(longer) = Len(list) + 1
          /\ longer[Len(list) + 1] = u /\ \A k \in 1..Len(list) : longer[k] = list[k]
      BY <2>1, <2>3, AppendProperties
    <3> HIDE DEF longer
    <3>2. \A k \in 1..Len(longer) : k \in 1..Len(list) \/ k = Len(list) + 1
      BY <2>3, <3>1
    <3> QED
      BY <2>1, <2>3, <3>1, <3>2
  <2> HIDE DEF longer
  <2> QED
    BY <1>2, <2>1, <2>4, <2>5, <2>6
<1> DEFINE list == ForEachUser(Staying, <<>>)
<1>5. list \in A[Len(users)]
  BY <1>1, <1>3, <1>4, LoopStays
<1> HIDE DEF list
<1>6. list \in Part(Len(users))
  BY <1>1, <1>2, <1>5
<1> QED
  BY <1>6, LenProperties DEF ToSet, list

LEMMA EmptyQueueIs ==
  /\ QueueSound(EmptyQueue) /\ EmptyQueue \in [msgs : Seq(Messages), used : Nat]
  /\ Whole(EmptyQueue.msgs) /\ \A M, c : Ordered(EmptyQueue.msgs, M, c)
<1>1. EmptyQueue.msgs = <<>> /\ EmptyQueue.used = 0 /\ Len(<<>>) = 0
      /\ EmptyQueue = [msgs |-> <<>>, used |-> 0]
  BY DEF EmptyQueue
<1>2. EmptyQueue \in [msgs : Seq(Messages), used : Nat]
  BY <1>1, EmptySeq
<1> DEFINE h == [i \in 0..0 |-> 0]
<1>3. Weighs(h, <<>>) /\ h[0] = 0
  BY <1>1 DEF Weighs
<1>4. QueueSound(EmptyQueue)
  <2> HIDE DEF h
  <2>1. \E g : Weighs(g, <<>>) /\ g[0] = 0
    BY <1>3
  <2> QED
    BY <1>1, <1>2, <2>1, CapacityIsNat DEF QueueSound
<1> QED
  BY <1>1, <1>2, <1>4 DEF Whole, Ordered


LEMMA DeleteKeeps ==
  ASSUME FighterInv, deleteUser
  PROVE  FighterInv'
<1> DEFINE D == disconnects
<1>1. /\ Types /\ Listed /\ Served /\ Running
      /\ users' = ForEachUser(Staying, <<>>)
      /\ sock' = [i \in Id |-> IF i \in D THEN "closed" ELSE sock[i]]
      /\ queue' = [i \in Id |-> IF i \in D THEN EmptyQueue ELSE queue[i]]
      /\ hp' = [i \in Id |-> IF i \in D THEN MaxHP ELSE hp[i]]
      /\ moving' = [i \in Id |-> IF i \in D THEN FALSE ELSE moving[i]]
      /\ known' = [i \in Id |-> IF i \in D THEN {} ELSE known[i]]
      /\ met' = [i \in Id |-> IF i \in D THEN {} ELSE met[i]]
  BY DEF FighterInv, deleteUser
<1>2. /\ disconnects' = {} /\ rSet' = {} /\ wSet' = {} /\ turn' = 0 /\ pc' = "update"
      /\ UNCHANGED <<uniqueID, serverShut, crashed, packets>>
  BY DEF deleteUser
<1>3. users' \in Seq(Id) /\ Len(users') <= Len(users) /\ Users' \subseteq Users \ D
      /\ Len(users) \in Nat /\ Len(users') \in Nat /\ Users \subseteq Id
  BY <1>1, StayingAre, UsersAre, LenProperties DEF Users, Types
<1>4. AllPairs' \subseteq AllPairs /\ AllPairs' \subseteq (Id \ D) \X (Id \ D)
  BY <1>3 DEF AllPairs
<1>5. ASSUME NEW c \in Id \ D
      PROVE  /\ queue'[c] = queue[c] /\ hp'[c] = hp[c] /\ known'[c] = known[c]
             /\ met'[c] = met[c] /\ sock'[c] = sock[c]
  BY <1>1
<1>6. ASSUME NEW c \in D \cap Id
      PROVE  queue'[c] = EmptyQueue /\ hp'[c] = MaxHP
  BY <1>1
<1> HIDE DEF D
<1>7. Sound(queue, hp, D, crashed, known, met, {}, AllPairs)
  BY <1>1 DEF Served, D
<1>8. /\ \A c \in Id : QueueSound(queue'[c])
      /\ \A c \in Id : Ordered(queue'[c].msgs, met'[c], c)
      /\ hp' \in [Id -> 0..MaxHP]
  <2>1. ASSUME NEW c \in Id
        PROVE  QueueSound(queue'[c]) /\ Ordered(queue'[c].msgs, met'[c], c) /\ hp'[c] \in 0..MaxHP
    <3>1. CASE c \in D
      BY <1>6, <3>1, EmptyQueueIs, CapacityIsNat
    <3>2. CASE c \notin D
      BY <1>5, <1>7, <3>2 DEF Sound
    <3> QED
      BY <3>1, <3>2
  <2>2. hp' = [i \in Id |-> hp'[i]]
    BY <1>1
  <2> QED
    BY <2>1, <2>2
<1>9. ASSUME ~crashed, NEW c \in Id
      PROVE  Whole(queue'[c].msgs) /\ hp'[c] > 0
  <2>1. CASE c \in D
    BY <1>6, <2>1, EmptyQueueIs, CapacityIsNat
  <2>2. CASE c \notin D
    BY <1>5, <1>7, <1>9, <2>2 DEF Sound
  <2> QED
    BY <2>1, <2>2
<1>10. ASSUME ~crashed
       PROVE  Introduced(queue', {}, known', met', {}, AllPairs')
  <2> SUFFICES ASSUME NEW t \in AllPairs'
               PROVE  /\ IsTold(queue'[t[1]].msgs, met'[t[1]], t[2])
                      /\ Shows(queue'[t[1]].msgs, known'[t[1]], t[2])
    BY DEF Introduced
  <2>1. t \in AllPairs /\ t[1] \in Id \ D /\ t[2] \in Id \ D
    BY <1>4
  <2>2. Introduced(queue, D, known, met, {}, AllPairs)
    BY <1>7, <1>10 DEF Sound
  <2>3. /\ IsTold(queue[t[1]].msgs, met[t[1]], t[2])
        /\ Shows(queue[t[1]].msgs, known[t[1]], t[2])
    BY <2>1, <2>2 DEF Introduced
  <2> QED
    BY <1>5, <2>1, <2>3
<1>11. Served'
  <2>1. Sound(queue', hp', {}, crashed, known', met', {}, AllPairs')
    BY <1>8, <1>9, <1>10 DEF Sound
  <2> QED
    BY <1>2, <2>1 DEF Served
<1>12. Types'
  <2>1. queue' \in [Id -> [msgs : Seq(Messages), used : Nat]]
    <3> DEFINE R == [msgs : Seq(Messages), used : Nat]
    <3>1. queue \in [Id -> R] /\ EmptyQueue \in R
      BY <1>1, EmptyQueueIs DEF Types
    <3> HIDE DEF R
    <3>2. queue' \in [Id -> R]
      BY <1>1, <3>1
    <3> QED
      BY <3>2 DEF R
  <2>2. sock' \in [Id -> {"open", "invalid", "closed", "none"}] /\ moving' \in [Id -> BOOLEAN]
    BY <1>1 DEF Types
  <2>3. known' \in [Id -> SUBSET Id] /\ met' \in [Id -> SUBSET Id]
    BY <1>1 DEF Types
  <2> QED
    BY <1>1, <1>2, <1>3, <2>1, <2>2, <2>3 DEF Types
<1>13. Listed'
  <2>1. \A u \in Users' : sock'[u] # "closed"
    BY <1>1, <1>3, <1>5 DEF Listed
  <2>2. Len(users') <= uniqueID'
    <3>1. Len(users) <= uniqueID /\ uniqueID \in Nat
      BY <1>1 DEF Listed, Types
    <3> QED
      BY <1>2, <1>3, <3>1
  <2>3. turn' \in 0..Len(users') + 1
    BY <1>2, <1>3
  <2> QED
    BY <1>2, <2>1, <2>2, <2>3 DEF Listed
<1> QED
  BY <1>11, <1>12, <1>13 DEF FighterInv

\* update finds nobody dead: who died in the pass is disconnected and deleted.
LEMMA UpdateKeeps ==
  ASSUME FighterInv, NEW due \in BOOLEAN, update(due)
  PROVE  FighterInv'
<1> DEFINE turnOf == [u \in Id |-> [w \in Worlds |->
                        IF w.hp[u] <= 0 THEN Disconnect(w, u) ELSE w]]
<1>1. /\ Types /\ Listed /\ pc = "update" /\ Running
      /\ Commit(IF ~due THEN World ELSE ForEachUser(turnOf, World))
      /\ pc' = "select" /\ UNCHANGED <<users, uniqueID, moving, sock, viewVars, loopVars, packets>>
  BY DEF FighterInv, update
<1>2. World \in SoundWorlds(known, met, {}, AllPairs) /\ World \in Worlds
  BY <1>1, WorldIsSound DEF SoundWorlds
<1>3. \A c \in Id : hp[c] > 0 /\ hp[c] \in Nat
  <2>1. disconnects = {} /\ ~crashed
    BY <1>1 DEF Listed, Running
  <2> QED
    BY <2>1, CapacityIsNat DEF FighterInv, Served, Sound
<1>4. ForEachUser(turnOf, World) \in {World}
  <2>1. users \in Seq(Id) /\ Users \subseteq Id
    BY <1>1, PairsType DEF Types
  <2>2. ASSUME NEW c \in Users, NEW w \in {World}
        PROVE  turnOf[c][w] \in {World}
    <3>1. c \in Id /\ w = World /\ World.hp = hp
      BY <2>1 DEF World
    <3>2. turnOf[c][w] = IF World.hp[c] <= 0 THEN Disconnect(w, c) ELSE w
      BY <1>2, <3>1
    <3>3. ~(World.hp[c] <= 0)
      BY <1>3, <3>1
    <3> HIDE DEF turnOf
    <3> QED
      BY <3>1, <3>2, <3>3
  <2> HIDE DEF turnOf
  <2> QED
    BY <2>1, <2>2, LoopKeeps
<1> HIDE DEF turnOf
<1>5. Commit(World)
  BY <1>1, <1>4
<1>6. /\ Sound(queue', hp', disconnects', crashed', known, met, {}, AllPairs)
      /\ disconnects' = disconnects
      /\ queue' \in [Id -> [msgs : Seq(Messages), used : Nat]]
      /\ serverShut' \in BOOLEAN /\ crashed' \in BOOLEAN
  <2>1. disconnects' = disconnects
    BY <1>5 DEF Commit, World
  <2> QED
    BY <1>2, <1>5, <2>1, CommitIsSound
<1>7. AllPairs' = AllPairs /\ Users' = Users /\ known' = known /\ met' = met
  BY <1>1 DEF AllPairs, Users, viewVars
<1>8. Served'
  BY <1>6, <1>7 DEF Served
<1>9. Types'
  BY <1>1, <1>6, <1>7 DEF Types, loopVars
<1>10. Listed'
  BY <1>1, <1>6, <1>7 DEF Listed, loopVars
<1> QED
  BY <1>8, <1>9, <1>10 DEF FighterInv

-----------------------------------------------------------------------------
LEMMA InitIsSound == Init => FighterInv
<1> SUFFICES ASSUME Init PROVE FighterInv
  OBVIOUS
<1>1. users = <<>> /\ Len(<<>>) = 0 /\ <<>> \in Seq(Id) /\ users \in Seq(Id) /\ Len(users) = 0
  BY EmptySeq DEF Init
<1>2. Users = {} /\ AllPairs = {}
  <2>1. \A u \in Users : FALSE
    BY <1>1, UsersAre
  <2> QED
    BY <2>1 DEF AllPairs
<1>3. /\ disconnects = {} /\ uniqueID = 0 /\ hp = [i \in Id |-> MaxHP]
      /\ moving = [i \in Id |-> FALSE] /\ sock = [i \in Id |-> "none"]
      /\ queue = [i \in Id |-> EmptyQueue]
      /\ known = [i \in Id |-> {}] /\ met = [i \in Id |-> {}]
      /\ serverShut = FALSE /\ crashed = FALSE /\ pc = "select" /\ turn = 0
      /\ rSet = {} /\ wSet = {} /\ packets = 0
  BY DEF Init
<1>4. Served
  <2>1. \A c \in Id : queue[c] = EmptyQueue /\ hp[c] = MaxHP
    BY <1>3
  <2>2. hp \in [Id -> 0..MaxHP]
    BY <1>3, CapacityIsNat
  <2> QED
    BY <1>2, <2>1, <2>2, EmptyQueueIs, CapacityIsNat DEF Served, Sound, Introduced
<1>5. Types
  <2>1. queue \in [Id -> [msgs : Seq(Messages), used : Nat]]
    BY <1>3, EmptyQueueIs
  <2>2. 0 \in 0..MaxSessions /\ 0 \in 0..MaxPackets
    BY CapacityIsNat
  <2> QED
    BY <1>1, <1>3, <2>1, <2>2 DEF Types
<1>6. Listed
  BY <1>1, <1>2, <1>3 DEF Listed
<1> QED
  BY <1>4, <1>5, <1>6 DEF FighterInv

LEMMA StepKeeps == FighterInv /\ [Serve]_vars => FighterInv'
<1> SUFFICES ASSUME FighterInv, [Serve]_vars PROVE FighterInv'
  OBVIOUS
<1>1. ASSUME NEW ready \in BOOLEAN, NEW connecting \in BOOLEAN, select(ready, connecting)
      PROVE  FighterInv'
  BY <1>1, SelectKeeps
<1>2. CASE selectFails
  BY <1>2, SelectFailsKeeps
<1>3. CASE acceptProc("open", FALSE)
  BY <1>3, AcceptKeeps
<1>4. ASSUME NEW wouldBlock \in BOOLEAN, acceptProc("invalid", wouldBlock)
      PROVE  FighterInv'
  BY <1>4, AcceptKeeps
<1>5. CASE NotReady \/ SocketError
  BY <1>5, TurnKeeps
<1>6. CASE readProcDisconnects \/ packetProc_MOVE_refused \/ writeProcDisconnects
  BY <1>6, DisconnectingKeeps
<1>7. CASE packetProc_MOVE_START \/ packetProc_MOVE_STOP
  BY <1>7, MovingKeeps
<1>8. ASSUME NEW V \in SUBSET Users, NEW d \in {Damage1, Damage2}, packetProc_ATTACK(V, d)
      PROVE  FighterInv'
  BY <1>8, AttackKeeps
<1>9. ASSUME NEW n \in 0..Capacity, writeProc(n)
      PROVE  FighterInv'
  BY <1>9, WriteKeeps
<1>10. CASE deleteUser
  BY <1>10, DeleteKeeps
<1>11. ASSUME NEW due \in BOOLEAN, update(due)
       PROVE  FighterInv'
  BY <1>11, UpdateKeeps
<1>12. CASE UNCHANGED vars
  <2>1. AllPairs' = AllPairs /\ Users' = Users
    BY <1>12 DEF vars, AllPairs, Users
  <2> QED
    BY <1>12, <2>1 DEF FighterInv, Types, Listed, Served, vars, charVars, viewVars, loopVars
<1> QED
  BY <1>1, <1>2, <1>3, <1>4, <1>5, <1>6, <1>7, <1>8, <1>9, <1>10, <1>11, <1>12 DEF Serve

LEMMA FighterInvAlways == Spec => []FighterInv
BY InitIsSound, StepKeeps, PTL DEF Spec

-----------------------------------------------------------------------------
\* The loop, the sessions and their queues keep their types; no writeQ ever holds
\* more than it has room for, and what it says is used is what was queued in it.
THEOREM ServerTypeCorrect == Spec => []TypeOK
<1>1. FighterInv => TypeOK
  <2> SUFFICES ASSUME FighterInv PROVE TypeOK
    OBVIOUS
  <2>1. \A i \in Id : queue[i].used \in 0..Capacity /\ queue[i].msgs \in Seq(Messages)
    <3>1. \A i \in Id : QueueSound(queue[i])
      BY DEF FighterInv, Served, Sound
    <3> QED
      BY <3>1, CapacityIsNat DEF QueueSound
  <2>2. hp \in [Id -> 0..MaxHP]
    BY DEF FighterInv, Served, Sound
  <2>3. turn \in 0..MaxSessions + 1
    <3>1. Len(users) \in Nat /\ Len(users) <= uniqueID /\ uniqueID \in 0..MaxSessions
          /\ turn \in 0..Len(users) + 1
      BY UsersAre DEF FighterInv, Types, Listed
    <3> QED
      BY <3>1, CapacityIsNat
  <2> QED
    BY <2>1, <2>2, <2>3 DEF FighterInv, Types, TypeOK
<1> QED
  BY <1>1, FighterInvAlways, PTL

\* Whoever lost its connection, broke a rule or died in a pass is gone at its end.
THEOREM NobodyIsLeft == Spec => []NobodyIsLeftDying
<1>1. FighterInv => NobodyIsLeftDying
  <2> SUFFICES ASSUME FighterInv, Running, pc \in {"update", "select"}
               PROVE  disconnects = {} /\ \A u \in Users : hp[u] > 0 /\ sock[u] # "closed"
    BY DEF NobodyIsLeftDying
  <2>1. disconnects = {} /\ ~crashed /\ \A u \in Users : sock[u] # "closed"
    BY DEF FighterInv, Listed, Running
  <2>2. Users \subseteq Id
    BY PairsType DEF FighterInv
  <2> QED
    BY <2>1, <2>2 DEF FighterInv, Served, Sound
<1> QED
  BY <1>1, FighterInvAlways, PTL

\* Between passes every client is told of every other player there is, whoever
\* else was being disconnected when it came.
THEOREM PlayersAreIntroduced == Spec => []EveryPlayerIsIntroduced
<1>1. FighterInv => EveryPlayerIsIntroduced
  <2> SUFFICES ASSUME FighterInv, Running, pc = "select", NEW c \in Users, NEW u \in Users \ {c}
               PROVE  u \in View(c)
    BY DEF EveryPlayerIsIntroduced
  <2>1. disconnects = {} /\ ~crashed /\ <<c, u>> \in AllPairs
    BY DEF FighterInv, Listed, Running, AllPairs
  <2>2. Introduced(queue, disconnects, known, met, {}, AllPairs)
    BY <2>1 DEF FighterInv, Served, Sound
  <2>3. Shows(queue[c].msgs, known[c], u)
    BY <2>1, <2>2 DEF Introduced
  <2> QED
    BY <2>3 DEF View, Shows
<1> QED
  BY <1>1, FighterInvAlways, PTL

\* No client that stays is told what a character does before it is told of the
\* character.
THEOREM CreationComesFirst == Spec => []NothingBeforeCreation
<1>1. FighterInv => NothingBeforeCreation
  <2> SUFFICES ASSUME FighterInv, NEW c \in Users \ disconnects,
                      NEW i \in DOMAIN queue[c].msgs,
                      Tells(queue[c].msgs[i]), queue[c].msgs[i].id # c
               PROVE  queue[c].msgs[i].id \in met[c] \cup Created(SubSeq(queue[c].msgs, 1, i))
    BY DEF NothingBeforeCreation, Tells
  <2> DEFINE s == queue[c].msgs
             u == s[i].id
  <2>1. c \in Id /\ QueueSound(queue[c]) /\ Ordered(s, met[c], c)
    <3>1. c \in Id
      BY PairsType DEF FighterInv
    <3> QED
      BY <3>1 DEF FighterInv, Served, Sound
  <2>2. s \in Seq(Messages) /\ DOMAIN s = 1..Len(s) /\ Len(s) \in Nat
    BY <2>1, LenProperties DEF QueueSound
  <2> HIDE DEF s
  <2>3. i \in 1..Len(s) /\ i \in 0..Len(s)
    BY <2>2 DEF s
  <2>4. u \in met[c] \/ CreatedIn(s, i, u)
    BY <2>1, <2>3 DEF Ordered, s
  <2>5. ASSUME NEW k \in 1..i, s[k] = Message("CREATE_OTHER", u)
        PROVE  u \in Created(SubSeq(s, 1, i))
    <3> DEFINE t == SubSeq(s, 1, i)
    <3>1. t \in Seq(Messages) /\ Len(t) = i /\ \A j \in 1..i : t[j] = s[j]
      BY <2>2, <2>3, TakeDrop
    <3> HIDE DEF t, u
    <3>2. t[k] \in ToSet(t) /\ t[k] = Message("CREATE_OTHER", u)
      BY <2>5, <3>1, LenProperties DEF ToSet
    <3>3. u \in Created(t)
      BY <3>2 DEF Created, Message
    <3> QED
      BY <3>3 DEF t
  <2> QED
    BY <2>4, <2>5 DEF CreatedIn, s
<1> QED
  BY <1>1, FighterInvAlways, PTL

\* A session that stays is never sent anything behind a message that was cut short.
THEOREM CutIsLast == Spec => []CutOnlyWhenLeaving
<1>1. FighterInv => CutOnlyWhenLeaving
  <2> SUFFICES ASSUME FighterInv, Running, NEW c \in Users \ disconnects,
                      NEW i \in DOMAIN queue[c].msgs
               PROVE  queue[c].msgs[i].type # "CUT"
    BY DEF CutOnlyWhenLeaving
  <2>1. c \in Id /\ ~crashed
    BY PairsType DEF FighterInv, Running
  <2>2. QueueSound(queue[c]) /\ Whole(queue[c].msgs)
    BY <2>1 DEF FighterInv, Served, Sound
  <2>3. DOMAIN queue[c].msgs = 1..Len(queue[c].msgs)
    BY <2>2, LenProperties DEF QueueSound
  <2> QED
    BY <2>2, <2>3 DEF Whole
<1> QED
  BY <1>1, FighterInvAlways, PTL
=============================================================================
