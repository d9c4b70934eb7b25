--------------------------- MODULE ClientsProofs ---------------------------
(* The clients, for every size of their tables, rings and packets.             *)
EXTENDS StarClient, DrawClient, SequenceLemmas, FiniteSetTheorems

-----------------------------------------------------------------------------
(* The OnlineStar client: its table shows the players the messages speak of.   *)
StarSpec == StarInit("open", "start") /\ [][StarNext]_starVars

Points == Int \X Int

Star == [id : Nat, pos : Points, isAlive : BOOLEAN]

Letter == [type : {"ID_ALLOC", "STAR_CREATE", "STAR_MOVE", "STAR_DELETE"}, id : Nat, pos : Points]

StarTypes == /\ stars \in [Slot -> Star] /\ myStar \in BOOLEAN /\ crowded \in BOOLEAN
             /\ step \in {"start", "keys", "select", "recv", "ended"}
             /\ stream \in Seq(Letter) /\ halves \in 0..2 * Len(stream)
             /\ nextId \in Nat /\ others \subseteq 0..nextId - 1
             /\ known \subseteq Nat \X Points

\* Nothing is shown or known before the client has got its id, which is what the
\* server says first and only once.
Greeted == step # "ended" =>
  /\ ~myStar => /\ known = {} /\ \A i \in Slot : ~stars[i].isAlive
                /\ IF step = "start" \/ link = "reset" THEN stream = <<>>
                   ELSE stream # <<>> /\ stream[1].type = "ID_ALLOC"
  /\ \A n \in 1..Len(stream) : stream[n].type = "ID_ALLOC" => n = 1 /\ ~myStar
  /\ step = "start" => ~myStar

\* A player whose creation is on its way is not known, and is created once.
CreatedOnce ==
  /\ \A k \in known : k[1] < nextId
  /\ \A n \in 1..Len(stream) : stream[n].type = "STAR_CREATE" =>
       /\ stream[n].id < nextId
       /\ \A k \in known : k[1] # stream[n].id
       /\ \A j \in 1..Len(stream) :
            stream[j].type = "STAR_CREATE" /\ stream[j].id = stream[n].id => j = n

\* A star shown is the first slot with its id, whatever old ids other slots hold.
FirstWithItsId ==
  \A j \in Slot \ {0} : stars[j].isAlive =>
    \A i \in Slot : stars[i].id = stars[j].id => j <= i /\ (stars[i].isAlive => i = j)

StarInv == StarTypes /\ Greeted /\ CreatedOnce /\ FirstWithItsId /\ ShownAreThePlayers

LEMMA PointsThereAre == /\ Center \in Points /\ <<0, 0>> \in Points /\ <<SCREEN_WIDTH, 0>> \in Points
<1>1. ASSUME NEW n \in Nat PROVE n \div 2 \in Int
  OBVIOUS
<1>2. SCREEN_WIDTH \div 2 \in Int /\ SCREEN_HEIGHT \div 2 \in Int
  BY <1>1, StarAssumption
<1>3. SCREEN_WIDTH \in Int
  BY StarAssumption
<1> QED BY <1>2, <1>3 DEF Center, Points

\* The shown stars of a table, and what is shown of them.
AliveIn(t) == {j \in Slot \ {0} : t[j].isAlive}

ShownIn(t) == {<<t[j].id, t[j].pos>> : j \in AliveIn(t)}

\* Where no two stars have one id, as many things are shown as there are stars.
LEMMA EachIsShown ==
  ASSUME NEW t, \A i, j \in AliveIn(t) : t[i].id = t[j].id => i = j
  PROVE  /\ IsFiniteSet(AliveIn(t)) /\ Cardinality(AliveIn(t)) \in Nat
         /\ IsFiniteSet(ShownIn(t)) /\ Cardinality(ShownIn(t)) = Cardinality(AliveIn(t))
<1>1. IsFiniteSet(Slot \ {0})
  <2>1. MAX_CLIENTS - 1 \in Int
    BY StarAssumption
  <2>2. IsFiniteSet(0..MAX_CLIENTS - 1)
    BY <2>1, FS_Interval
  <2> QED BY <2>2, FS_RemoveElement, Zenon DEF Slot
<1>2. IsFiniteSet(AliveIn(t)) /\ Cardinality(AliveIn(t)) \in Nat
  BY <1>1, FS_Subset, FS_CardinalityType, AliveIn(t) \in SUBSET (Slot \ {0}) DEF AliveIn
<1> DEFINE pair == [j \in AliveIn(t) |-> <<t[j].id, t[j].pos>>]
<1>3. pair \in Bijection(AliveIn(t), ShownIn(t))
  <2>1. pair \in [AliveIn(t) -> ShownIn(t)]
    BY DEF ShownIn
  <2>2. \A i, j \in AliveIn(t) : pair[i] = pair[j] => i = j
    OBVIOUS
  <2>3. \A p \in ShownIn(t) : \E j \in AliveIn(t) : pair[j] = p
    BY DEF ShownIn
  <2> HIDE DEF pair
  <2>4. IsInjective(pair)
    BY <2>1, <2>2 DEF IsInjective
  <2> QED BY <2>1, <2>3, <2>4, Zenon DEF Bijection, Injection, Surjection
<1>4. ExistsBijection(AliveIn(t), ShownIn(t))
  BY <1>3, Zenon DEF ExistsBijection
<1> QED BY <1>2, <1>4, FS_Bijection

\* A table without a free slot shows as many stars as there are slots for others.
LEMMA FullTable ==
  ASSUME NEW t, \A j \in Slot \ {0} : t[j].isAlive
  PROVE  Cardinality(AliveIn(t)) = MAX_CLIENTS - 1
<1>1. AliveIn(t) = 1..MAX_CLIENTS - 1
  BY StarAssumption DEF AliveIn, Slot
<1> QED BY <1>1, FS_Interval, StarAssumption

\* The first of some slots.
LEMMA FirstIsFirst ==
  ASSUME NEW slots \in SUBSET Slot, slots # {}
  PROVE  First(slots) \in slots /\ \A j \in slots : First(slots) <= j
<1>1. slots \subseteq Nat
  BY StarAssumption DEF Slot
<1>2. IsWellFoundedOn(Less, Nat)
  BY NatLessThanWellFounded DEF OpToRel, Less
<1>3. PICK i \in slots : \A j \in slots : ~ (<<j, i>> \in Less)
  BY <1>1, <1>2, WFMin
<1>4. ASSUME NEW j \in slots PROVE i <= j
  <2>1. i \in Nat /\ j \in Nat /\ ~ (<<j, i>> \in Less)
    BY <1>1, <1>3
  <2> QED BY <2>1 DEF Less
<1> QED BY <1>4, Zenon DEF First

LEMMA StarInvInit == StarInit("open", "start") => StarInv
<1> SUFFICES ASSUME StarInit("open", "start") PROVE StarInv
  OBVIOUS
<1> USE DEF StarInit
<1>1. StarTypes
  <2>1. stars \in [Slot -> Star]
    BY DEF Star, Points
  <2>2. stream \in Seq(Letter) /\ Len(stream) = 0
    BY EmptySeq
  <2>3. halves \in 0..2 * Len(stream)
    BY <2>2
  <2>4. step \in {"start", "keys", "select", "recv", "ended"} /\ myStar \in BOOLEAN /\ crowded \in BOOLEAN
        /\ nextId \in Nat /\ others = {} /\ known = {}
    OBVIOUS
  <2> HIDE DEF StarInit
  <2> QED BY <2>1, <2>2, <2>3, <2>4 DEF StarTypes
<1>2. Greeted /\ CreatedOnce
  BY DEF Greeted, CreatedOnce, Slot
<1>3. \A j \in Slot : ~stars[j].isAlive
  OBVIOUS
<1>4. {j \in Slot \ {0} : stars[j].isAlive} = {} /\ Shown = {} /\ known = {}
  BY <1>3 DEF Shown
<1> QED BY <1>1, <1>2, <1>3, <1>4 DEF StarInv, FirstWithItsId, ShownAreThePlayers

\* What no step of the program or of the network changes.
LEMMA TableUnchanged ==
  ASSUME FirstWithItsId, ShownAreThePlayers, UNCHANGED <<stars, known, crowded>>
  PROVE  FirstWithItsId' /\ ShownAreThePlayers'
BY DEF FirstWithItsId, ShownAreThePlayers, Shown

\* A message more: of a player that is new, or no creation at all.
LEMMA SendsKeeps ==
  ASSUME StarInv, NEW m \in Letter, sends(m), m.type # "ID_ALLOC",
         nextId' \in Nat, nextId <= nextId', others' \subseteq 0..nextId' - 1,
         m.type = "STAR_CREATE" => m.id = nextId /\ nextId' = nextId + 1
  PROVE  StarInv'
<1> USE DEF StarInv, sends
<1>1. /\ stream' \in Seq(Letter) /\ Len(stream') = Len(stream) + 1 /\ Len(stream) \in Nat
      /\ \A n \in 1..Len(stream) : stream'[n] = stream[n]
      /\ stream'[Len(stream) + 1] = m
  BY DEF StarTypes
<1>2. StarTypes'
  <2>1. halves' \in 0..2 * Len(stream')
    BY <1>1 DEF StarTypes
  <2> QED BY <1>1, <2>1 DEF StarTypes
<1>3. Greeted'
  <2>1. \A n \in 1..Len(stream') : n = Len(stream) + 1 \/ n \in 1..Len(stream)
    BY <1>1
  <2>2. stream # <<>> => stream'[1] = stream[1] /\ stream' # <<>>
    BY <1>1 DEF StarTypes
  <2>3. step' = step /\ myStar' = myStar /\ link' = link /\ link = "open" /\ step # "start"
        /\ UNCHANGED <<known, stars>>
    OBVIOUS
  <2>4. step # "ended" /\ ~myStar => stream # <<>> /\ stream[1].type = "ID_ALLOC"
    BY <2>3 DEF Greeted
  <2>5. ASSUME step # "ended", NEW n \in 1..Len(stream'), stream'[n].type = "ID_ALLOC"
        PROVE  n = 1 /\ ~myStar
    BY <1>1, <2>1, <2>5 DEF Greeted
  <2>6. step # "ended" /\ ~myStar => known = {} /\ \A i \in Slot : ~stars[i].isAlive
    BY DEF Greeted
  <2> QED BY <2>2, <2>3, <2>4, <2>5, <2>6 DEF Greeted, Slot
<1>4. CreatedOnce'
  <2>1. \A n \in 1..Len(stream') : n = Len(stream) + 1 \/ n \in 1..Len(stream)
    BY <1>1
  <2>2. ASSUME NEW n \in 1..Len(stream) PROVE stream[n].id \in Nat
    <3>1. stream[n] \in Letter
      BY ElementOfSeq DEF StarTypes
    <3> QED BY <3>1 DEF Letter
  <2>3. \A k \in known : k[1] \in Nat /\ k[1] < nextId
    BY DEF StarTypes, CreatedOnce
  <2>4. \A k \in known : k[1] < nextId'
    BY <2>3 DEF StarTypes
  <2>5. ASSUME NEW n \in 1..Len(stream'), stream'[n].type = "STAR_CREATE"
        PROVE  /\ stream'[n].id < nextId'
               /\ \A k \in known : k[1] # stream'[n].id
    BY <1>1, <2>1, <2>2, <2>3, <2>5 DEF CreatedOnce, StarTypes
  <2>6. ASSUME NEW n \in 1..Len(stream'), stream'[n].type = "STAR_CREATE",
               NEW j \in 1..Len(stream'), stream'[j].type = "STAR_CREATE",
               stream'[j].id = stream'[n].id
        PROVE  j = n
    BY <1>1, <2>1, <2>2, <2>6 DEF CreatedOnce, StarTypes
  <2> QED BY <2>4, <2>5, <2>6, Zenon DEF CreatedOnce
<1> QED BY <1>2, <1>3, <1>4, TableUnchanged

LEMMA ServerKeeps ==
  ASSUME StarInv, playerJoins \/ \E i \in others : playerLeaves(i) \/ playerMoves(i)
  PROVE  StarInv'
<1> USE DEF StarInv, StarTypes
<1>1. CASE playerJoins
  <2>1. Message("STAR_CREATE", nextId, Center) \in Letter
    BY PointsThereAre DEF Message, Letter
  <2>2. nextId' \in Nat /\ nextId <= nextId' /\ others' \subseteq 0..nextId' - 1
    BY <1>1 DEF playerJoins
  <2> QED BY <1>1, <2>1, <2>2, SendsKeeps DEF playerJoins, Message
<1>2. ASSUME NEW i \in others, playerLeaves(i) PROVE StarInv'
  <2>1. Message("STAR_DELETE", i, Center) \in Letter
    BY PointsThereAre DEF Message, Letter
  <2>2. nextId' \in Nat /\ nextId <= nextId' /\ others' \subseteq 0..nextId' - 1
    BY <1>2 DEF playerLeaves
  <2> QED BY <1>2, <2>1, <2>2, SendsKeeps DEF playerLeaves, Message
<1>3. ASSUME NEW i \in others, playerMoves(i) PROVE StarInv'
  <2>1. PICK pos \in {<<0, 0>>, <<SCREEN_WIDTH, 0>>} : sends(Message("STAR_MOVE", i, pos))
    BY <1>3 DEF playerMoves
  <2>2. Message("STAR_MOVE", i, pos) \in Letter
    BY PointsThereAre DEF Message, Letter
  <2>3. nextId' \in Nat /\ nextId <= nextId' /\ others' \subseteq 0..nextId' - 1
    BY <1>3 DEF playerMoves
  <2> QED BY <2>1, <2>2, <2>3, SendsKeeps DEF Message
<1> QED BY <1>1, <1>2, <1>3

LEMMA NetworkKeeps ==
  ASSUME StarInv, arrivesHalf \/ serverGoes
  PROVE  StarInv'
<1> USE DEF StarInv
<1>1. CASE arrivesHalf
  <2>1. halves' \in 0..2 * Len(stream')
    <3>1. Len(stream) \in Nat
      BY DEF StarTypes
    <3> QED BY <1>1, <3>1 DEF arrivesHalf, StarTypes
  <2>2. UNCHANGED <<stars, myStar, step, stream, serverVars, known, crowded>>
    BY <1>1 DEF arrivesHalf
  <2>3. StarTypes'
    BY <2>1, <2>2 DEF StarTypes, serverVars
  <2>4. Greeted' /\ CreatedOnce'
    BY <2>2 DEF Greeted, CreatedOnce, serverVars
  <2> QED BY <2>2, <2>3, <2>4, TableUnchanged
<1>2. CASE serverGoes
  <2>1. UNCHANGED <<stars, myStar, step, others, nextId, known, crowded>> /\ link = "open"
    BY <1>2 DEF serverGoes
  <2>2. \/ link' = "closed" /\ UNCHANGED <<stream, halves>>
        \/ link' = "reset" /\ stream' = <<>> /\ halves' = 0
    BY <1>2 DEF serverGoes
  <2>3. StarTypes'
    <3>1. <<>> \in Seq(Letter) /\ Len(<<>>) = 0 /\ 0 \in 0..2 * 0
      BY EmptySeq
    <3> QED BY <2>1, <2>2, <3>1 DEF StarTypes
  <2>4. Greeted' /\ CreatedOnce'
    <3>1. CASE link' = "closed" /\ UNCHANGED <<stream, halves>>
      BY <2>1, <3>1 DEF Greeted, CreatedOnce
    <3>2. CASE link' = "reset" /\ stream' = <<>> /\ halves' = 0
      <4>1. \A n : n \notin 1..Len(stream')
        BY <3>2
      <4>2. step = "start" => ~myStar
        BY DEF Greeted
      <4> QED BY <2>1, <3>2, <4>1, <4>2 DEF Greeted, CreatedOnce
    <3> QED BY <2>2, <3>1, <3>2
  <2> QED BY <2>1, <2>3, <2>4, TableUnchanged
<1> QED BY <1>1, <1>2

\* A sequence between two of one element.
LEMMA BetweenTwo ==
  ASSUME NEW S, NEW a \in Seq(S), NEW c \in Seq(S), NEW z \in Seq(S), NEW n \in Nat,
         Len(a) = 1, Len(c) = n, Len(z) = 1
  PROVE  LET s == (a \o c) \o z
         IN  /\ s \in Seq(S) /\ Len(s) = n + 2
             /\ \A i \in 1..n + 2 :
                  s[i] = IF i = 1 THEN a[1] ELSE IF i <= n + 1 THEN c[i - 1] ELSE z[1]
<1>1. /\ a \o c \in Seq(S) /\ Len(a \o c) = n + 1
      /\ \A i \in 1..n + 1 : (a \o c)[i] = IF i = 1 THEN a[1] ELSE c[i - 1]
  <2>1. /\ a \o c \in Seq(S) /\ Len(a \o c) = Len(a) + Len(c)
        /\ \A i \in 1..Len(a) + Len(c) : (a \o c)[i] = IF i <= Len(a) THEN a[i] ELSE c[i - Len(a)]
    BY ConcatProperties
  <2> QED BY <2>1
<1>2. /\ (a \o c) \o z \in Seq(S) /\ Len((a \o c) \o z) = n + 2
      /\ \A i \in 1..n + 2 : ((a \o c) \o z)[i] = IF i <= n + 1 THEN (a \o c)[i] ELSE z[1]
  <2> DEFINE b == a \o c
  <2>1. b \in Seq(S) /\ Len(b) = n + 1
    BY <1>1
  <2> HIDE DEF b
  <2>2. /\ b \o z \in Seq(S) /\ Len(b \o z) = n + 2
        /\ \A i \in 1..n + 2 : (b \o z)[i] = IF i <= n + 1 THEN b[i] ELSE z[1]
    <3>1. /\ b \o z \in Seq(S) /\ Len(b \o z) = Len(b) + Len(z)
          /\ \A i \in 1..Len(b) + Len(z) : (b \o z)[i] = IF i <= Len(b) THEN b[i] ELSE z[i - Len(b)]
      BY <2>1, ConcatProperties
    <3> QED BY <2>1, <3>1
  <2> QED BY <2>2 DEF b
<1> QED BY <1>1, <1>2

\* What the server tells a new client.
LEMMA GreetingIs ==
  ASSUME NEW n \in 0..1
  PROVE  /\ Greeting(n) \in Seq(Letter) /\ Len(Greeting(n)) = n + 2
         /\ Greeting(n)[1].type = "ID_ALLOC"
         /\ \A i \in 2..n + 2 : Greeting(n)[i].type = "STAR_CREATE" /\ Greeting(n)[i].id = i - 2
<1> DEFINE a == <<Message("ID_ALLOC", n, Center)>>
           z == <<Message("STAR_CREATE", n, Center)>>
           c == Creations(n)
           s == Greeting(n)
<1>1. a \in Seq(Letter) /\ Len(a) = 1 /\ a[1].type = "ID_ALLOC"
  <2>1. Message("ID_ALLOC", n, Center) \in Letter
    BY PointsThereAre DEF Message, Letter
  <2> QED BY <2>1 DEF Message
<1>2. z \in Seq(Letter) /\ Len(z) = 1 /\ z[1].type = "STAR_CREATE" /\ z[1].id = n
  <2>1. Message("STAR_CREATE", n, Center) \in Letter
    BY PointsThereAre DEF Message, Letter
  <2> QED BY <2>1 DEF Message
<1>3. /\ Creations(n) \in Seq(Letter) /\ Len(Creations(n)) = n
      /\ \A i \in 1..n : Creations(n)[i].type = "STAR_CREATE" /\ Creations(n)[i].id = i - 1
  <2>1. ASSUME NEW i \in 1..n PROVE Message("STAR_CREATE", i - 1, Center) \in Letter
    BY PointsThereAre DEF Message, Letter
  <2>2. Creations(n) \in [1..n -> Letter]
    BY <2>1, Zenon DEF Creations
  <2>3. n \in Nat
    OBVIOUS
  <2>4. Creations(n) \in Seq(Letter)
    <3>1. \E m \in Nat : Creations(n) \in [1..m -> Letter]
      BY <2>2, <2>3, Zenon
    <3> HIDE DEF Creations
    <3> QED BY <3>1, SeqDef
  <2>5. Len(Creations(n)) = n
    BY <2>2, <2>3, <2>4, LenProperties
  <2>6. \A i \in 1..n : Creations(n)[i].type = "STAR_CREATE" /\ Creations(n)[i].id = i - 1
    BY DEF Creations, Message
  <2> QED BY <2>4, <2>5, <2>6
<1>4. s = (a \o c) \o z
  BY Zenon DEF Greeting
<1> HIDE DEF a, z, c, s
<1>5. /\ s \in Seq(Letter) /\ Len(s) = n + 2
      /\ \A i \in 1..n + 2 : s[i] = IF i = 1 THEN a[1] ELSE IF i <= n + 1 THEN c[i - 1] ELSE z[1]
  <2>1. c \in Seq(Letter) /\ Len(c) = n
    BY <1>3 DEF c
  <2> QED BY <1>1, <1>2, <1>4, <2>1, BetweenTwo, SMTT(60)
<1>6. ASSUME NEW i \in 2..n + 2 PROVE s[i].type = "STAR_CREATE" /\ s[i].id = i - 2
  <2>1. CASE i <= n + 1
    <3>1. i - 1 \in 1..n /\ (i - 1) - 1 = i - 2 /\ s[i] = c[i - 1]
      BY <1>5, <2>1
    <3>2. c[i - 1].type = "STAR_CREATE" /\ c[i - 1].id = (i - 1) - 1
      BY <1>3, <3>1, Zenon DEF c
    <3> QED BY <3>1, <3>2
  <2>2. CASE i = n + 2
    <3>1. s[i] = z[1] /\ i - 2 = n
      BY <1>5, <2>2
    <3> QED BY <1>2, <3>1
  <2> QED BY <2>1, <2>2
<1> QED BY <1>1, <1>5, <1>6 DEF s

LEMMA StartKeeps ==
  ASSUME StarInv, start
  PROVE  StarInv'
<1> USE DEF StarInv
<1>1. UNCHANGED <<stars, myStar, link, known, crowded>> /\ step = "start"
  BY DEF start
<1>2. ~myStar /\ known = {} /\ \A i \in Slot : ~stars[i].isAlive
  BY <1>1 DEF Greeted
<1>3. CASE link = "open" /\ step' = "keys"
  <2>1. PICK n \in 0..1 :
          /\ others' = 0..n - 1 /\ nextId' = n + 1
          /\ stream' = Greeting(n)
    BY <1>3 DEF start
  <2>2. /\ stream' \in Seq(Letter) /\ Len(stream') = n + 2
        /\ stream'[1].type = "ID_ALLOC"
        /\ \A i \in 2..n + 2 : stream'[i].type = "STAR_CREATE" /\ stream'[i].id = i - 2
    BY <2>1, GreetingIs
  <2>3. halves' = 0
    BY <1>3 DEF start
  <2>4. StarTypes'
    <3>1. nextId' \in Nat /\ others' \subseteq 0..nextId' - 1 /\ halves' \in 0..2 * Len(stream')
      BY <2>1, <2>2, <2>3
    <3> QED BY <1>1, <1>3, <2>2, <3>1 DEF StarTypes
  <2>5. Greeted'
    <3>1. \A i \in 1..Len(stream') : i = 1 \/ i \in 2..n + 2
      BY <2>2
    <3>2. stream' # <<>>
      BY <2>2
    <3> QED BY <1>1, <1>2, <1>3, <2>2, <3>1, <3>2 DEF Greeted, Slot
  <2>6. CreatedOnce'
    <3>1. \A i \in 1..Len(stream') : i = 1 \/ i \in 2..n + 2
      BY <2>2
    <3> QED BY <1>1, <1>2, <2>1, <2>2, <3>1 DEF CreatedOnce
  <2> QED BY <1>1, <2>4, <2>5, <2>6, TableUnchanged
<1>4. CASE step' = "ended" /\ UNCHANGED <<stream, halves, others, nextId>>
  <2>1. StarTypes'
    BY <1>1, <1>4 DEF StarTypes
  <2>2. Greeted' /\ CreatedOnce'
    BY <1>1, <1>4 DEF Greeted, CreatedOnce
  <2> QED BY <1>1, <2>1, <2>2, TableUnchanged
<1> QED BY <1>3, <1>4 DEF start

LEMMA MovedStays ==
  ASSUME NEW pos \in Points, NEW dx \in Int, NEW dy \in Int
  PROVE  Moved(pos, dx, dy) \in Points
<1>1. pos[1] \in Int /\ pos[2] \in Int
  BY DEF Points
<1>2. <<pos[1] + dx, pos[2] + dy>> \in Points
  BY <1>1 DEF Points
<1> QED BY <1>2, Zenon DEF Moved

LEMMA PassedStays ==
  ASSUME NEW pos \in Points, NEW keys
  PROVE  Passed(pos, keys)[5] \in Points
<1> DEFINE after(p, key, dx, dy) == IF key \in keys THEN Moved(p, dx, dy) ELSE p
<1>1. ASSUME NEW p \in Points, NEW key, NEW dx \in Int, NEW dy \in Int
      PROVE  after(p, key, dx, dy) \in Points
  BY MovedStays
<1> DEFINE up == after(pos, "up", 0, -1)
           down == after(up, "down", 0, 1)
           right == after(down, "right", 1, 0)
           left == after(right, "left", -1, 0)
<1> HIDE DEF after
<1>2. up \in Points /\ down \in Points /\ right \in Points /\ left \in Points
  BY <1>1
<1>3. Passed(pos, keys)[5] = left
  BY DEF Passed, after
<1> QED BY <1>2, <1>3

\* A change of the own star's place is not one of the stars shown.
LEMMA OwnStarApart ==
  ASSUME StarTypes, FirstWithItsId, ShownAreThePlayers, UNCHANGED <<known, crowded>>,
         stars' \in [Slot -> Star], stars'[0].id = stars[0].id,
         \A i \in Slot \ {0} : stars'[i] = stars[i]
  PROVE  FirstWithItsId' /\ ShownAreThePlayers'
<1>1. {j \in Slot \ {0} : stars'[j].isAlive} = {j \in Slot \ {0} : stars[j].isAlive}
  OBVIOUS
<1>2. Shown' = Shown
  BY <1>1 DEF Shown
<1>3. ShownAreThePlayers'
  BY <1>1, <1>2 DEF ShownAreThePlayers
<1>4. ASSUME NEW j \in Slot \ {0}, stars'[j].isAlive,
             NEW i \in Slot, stars'[i].id = stars'[j].id
      PROVE  j <= i /\ (stars'[i].isAlive => i = j)
  <2>1. stars[j].isAlive /\ stars[i].id = stars[j].id
    BY <1>4
  <2>2. j <= i /\ j \in Nat /\ j # 0 /\ i \in Nat
    BY <2>1, StarAssumption DEF FirstWithItsId, Slot
  <2>3. i # 0
    BY <2>2
  <2> QED BY <1>4, <2>1, <2>2, <2>3 DEF FirstWithItsId
<1> QED BY <1>3, <1>4 DEF FirstWithItsId

LEMMA ProgramKeeps ==
  ASSUME StarInv, keyInput \/ selects \/ recvEnds \/ recvWouldBlock
  PROVE  StarInv'
<1> USE DEF StarInv
<1>1. UNCHANGED <<myStar, stream, halves, link, others, nextId, known, crowded>>
  BY DEF keyInput, selects, recvEnds, recvWouldBlock, serverVars
<1>2. step \in {"keys", "select", "recv"} /\ step' \in {"keys", "select", "recv", "ended"}
  BY DEF keyInput, selects, recvEnds, recvWouldBlock
<1>3. \/ stars' = stars
      \/ myStar /\ \E pos \in Points : stars' = [stars EXCEPT ![0].pos = pos]
  <2>1. CASE keyInput /\ myStar
    <3>1. PICK keys : stars' = [stars EXCEPT ![0].pos = Passed(stars[0].pos, keys)[5]]
      BY <2>1 DEF keyInput
    <3>2. stars[0].pos \in Points
      BY StarAssumption DEF StarTypes, Slot, Star
    <3> QED BY <2>1, <3>1, <3>2, PassedStays
  <2> QED BY <2>1 DEF keyInput, selects, recvEnds, recvWouldBlock
<1>4. /\ stars' \in [Slot -> Star] /\ stars'[0].id = stars[0].id
      /\ stars'[0].isAlive = stars[0].isAlive
      /\ \A i \in Slot \ {0} : stars'[i] = stars[i]
  <2>1. stars \in [Slot -> Star] /\ 0 \in Slot
    BY StarAssumption DEF StarTypes, Slot
  <2>2. ASSUME NEW pos \in Points PROVE [stars[0] EXCEPT !.pos = pos] \in Star
    BY <2>1 DEF Star
  <2>3. ASSUME NEW pos \in Points, stars' = [stars EXCEPT ![0].pos = pos]
        PROVE  /\ stars' \in [Slot -> Star] /\ stars'[0] = [stars[0] EXCEPT !.pos = pos]
               /\ \A i \in Slot \ {0} : stars'[i] = stars[i]
    BY <2>1, <2>2, <2>3
  <2>4. ASSUME NEW pos \in Points
        PROVE  /\ [stars[0] EXCEPT !.pos = pos].id = stars[0].id
               /\ [stars[0] EXCEPT !.pos = pos].isAlive = stars[0].isAlive
    BY <2>1 DEF Star
  <2> QED BY <1>3, <2>1, <2>3, <2>4
<1>5. StarTypes'
  BY <1>1, <1>2, <1>4 DEF StarTypes
<1>6. Greeted' /\ CreatedOnce'
  <2>1. \A i \in Slot : stars'[i].isAlive = stars[i].isAlive
    BY <1>4
  <2> QED BY <1>1, <1>2, <2>1 DEF Greeted, CreatedOnce, Slot
<1> QED BY <1>1, <1>4, <1>5, <1>6, OwnStarApart

\* The message that is received, and the ones behind it.
LEMMA TakenIs ==
  ASSUME StarInv, recvMessage
  PROVE  /\ Taken \in Letter /\ Taken = stream[1] /\ 1 \in 1..Len(stream)
         /\ stream' \in Seq(Letter) /\ Len(stream') \in Nat /\ halves' \in 0..2 * Len(stream')
         /\ \A n \in 1..Len(stream') : stream'[n] = stream[n + 1] /\ n + 1 \in 2..Len(stream)
         /\ UNCHANGED <<link, others, nextId>> /\ step = "recv" /\ myStar'
         /\ IF Taken.type = "ID_ALLOC" THEN ~myStar /\ known = {} /\ \A i \in Slot : ~stars[i].isAlive
            ELSE myStar
<1> USE DEF StarInv
<1>1. halves >= 2 /\ halves' = halves - 2 /\ stream' = Tail(stream) /\ step = "recv"
      /\ UNCHANGED <<link, others, nextId>>
  BY DEF recvMessage, serverVars
<1>2. Len(stream) \in Nat /\ halves \in Nat /\ halves <= 2 * Len(stream)
  BY DEF StarTypes
<1>3. Len(stream) >= 1 /\ stream # <<>>
  <2>1. Len(stream) >= 1
    BY <1>1, <1>2
  <2>2. Len(<<>>) = 0
    OBVIOUS
  <2> QED BY <2>1, <2>2
<1>4. Taken = stream[1] /\ 1 \in 1..Len(stream) /\ Taken \in Letter
  BY <1>2, <1>3, ElementOfSeq DEF Taken, StarTypes
<1>5. /\ stream' \in Seq(Letter) /\ Len(stream') = Len(stream) - 1
      /\ \A n \in 1..Len(stream') : stream'[n] = stream[n + 1]
  BY <1>1, <1>3, HeadTailProperties DEF StarTypes
<1>6. /\ Len(stream') \in Nat /\ halves' \in 0..2 * Len(stream')
      /\ \A n \in 1..Len(stream') : n + 1 \in 2..Len(stream)
  BY <1>1, <1>2, <1>3, <1>5
<1>7. Taken.type = "ID_ALLOC" => ~myStar
  BY <1>1, <1>4 DEF Greeted
<1>8. ~myStar => Taken.type = "ID_ALLOC" /\ known = {} /\ \A i \in Slot : ~stars[i].isAlive
  BY <1>1, <1>3, <1>4 DEF Greeted
<1>9. myStar'
  <2>1. 0 \in Slot
    BY StarAssumption DEF Slot
  <2> QED BY <1>8, <2>1 DEF recvMessage
<1> QED BY <1>1, <1>4, <1>5, <1>6, <1>7, <1>8, <1>9

\* It leaves what is behind it as it was.
LEMMA ReceivedOnce ==
  ASSUME StarInv, recvMessage, stars' \in [Slot -> Star], known' \subseteq Nat \X Points,
         \A k \in known' : \/ \E l \in known : l[1] = k[1]
                           \/ Taken.type = "STAR_CREATE" /\ k[1] = Taken.id
  PROVE  StarTypes' /\ Greeted' /\ CreatedOnce'
<1> USE DEF StarInv
<1>1. /\ Taken \in Letter /\ Taken = stream[1] /\ 1 \in 1..Len(stream)
      /\ stream' \in Seq(Letter) /\ Len(stream') \in Nat /\ halves' \in 0..2 * Len(stream')
      /\ \A n \in 1..Len(stream') : stream'[n] = stream[n + 1] /\ n + 1 \in 2..Len(stream)
      /\ UNCHANGED <<link, others, nextId>> /\ step = "recv" /\ myStar'
  BY TakenIs
<1>2. step' \in {"recv", "keys"}
  BY <1>1 DEF recvMessage
<1>3. StarTypes'
  <2>1. myStar' \in BOOLEAN /\ crowded' \in BOOLEAN
    BY DEF recvMessage, Learn, StarTypes
  <2> QED BY <1>1, <1>2, <2>1 DEF StarTypes
<1>4. Greeted'
  <2>1. ASSUME NEW n \in 1..Len(stream'), stream'[n].type = "ID_ALLOC" PROVE FALSE
    <3>1. n + 1 \in 1..Len(stream) /\ stream[n + 1].type = "ID_ALLOC" /\ n + 1 # 1 /\ step # "ended"
      BY <1>1, <2>1
    <3> QED BY <3>1 DEF Greeted
  <2> QED BY <1>1, <1>2, <2>1 DEF Greeted
<1>5. CreatedOnce'
  <2>1. ASSUME NEW k \in known' PROVE k[1] < nextId
    BY <1>1 DEF CreatedOnce
  <2>2. ASSUME NEW n \in 1..Len(stream'), stream'[n].type = "STAR_CREATE"
        PROVE  /\ stream'[n].id < nextId
               /\ \A k \in known' : k[1] # stream'[n].id
    <3>1. /\ n + 1 \in 1..Len(stream) /\ stream[n + 1].type = "STAR_CREATE" /\ n + 1 # 1
          /\ stream'[n].id = stream[n + 1].id
      BY <1>1, <2>2
    <3>2. stream[n + 1].id < nextId /\ \A k \in known : k[1] # stream[n + 1].id
      BY <3>1 DEF CreatedOnce
    <3>3. Taken.type = "STAR_CREATE" => Taken.id # stream[n + 1].id
      BY <1>1, <3>1 DEF CreatedOnce
    <3> QED BY <3>1, <3>2, <3>3
  <2>3. ASSUME NEW n \in 1..Len(stream'), stream'[n].type = "STAR_CREATE",
               NEW j \in 1..Len(stream'), stream'[j].type = "STAR_CREATE",
               stream'[j].id = stream'[n].id
        PROVE  j = n
    <3>1. /\ n + 1 \in 1..Len(stream) /\ stream[n + 1].type = "STAR_CREATE"
          /\ j + 1 \in 1..Len(stream) /\ stream[j + 1].type = "STAR_CREATE"
          /\ stream[j + 1].id = stream[n + 1].id
      BY <1>1, <2>3, SMTT(60)
    <3>2. j + 1 = n + 1
      BY <3>1 DEF CreatedOnce
    <3> QED BY <3>2
  <2> QED BY <1>1, <2>1, <2>2, <2>3, Zenon DEF CreatedOnce
<1> QED BY <1>3, <1>4, <1>5

\* Counting what is shown.
LEMMA ShownAgain ==
  ASSUME FirstWithItsId', ShownIn(stars') \subseteq known',
         ~crowded' => ShownIn(stars') = known'
  PROVE  ShownAreThePlayers'
<1>1. \A i, j \in AliveIn(stars') : stars'[i].id = stars'[j].id => i = j
  BY DEF FirstWithItsId, AliveIn
<1>2. Cardinality(ShownIn(stars')) = Cardinality(AliveIn(stars'))
  BY <1>1, EachIsShown
<1> QED BY <1>2 DEF ShownAreThePlayers, Shown, ShownIn, AliveIn

LEMMA IdAllocKeeps ==
  ASSUME StarInv, recvMessage, Taken.type = "ID_ALLOC"
  PROVE  StarInv'
<1> USE DEF StarInv
<1>1. known = {} /\ Taken \in Letter /\ \A i \in Slot : ~stars[i].isAlive
  BY TakenIs
<1>2. 0 \in Slot /\ stars \in [Slot -> Star]
  BY StarAssumption DEF Slot, StarTypes
<1>3. stars' = [stars EXCEPT ![0].id = Taken.id]
  BY <1>1, <1>2 DEF recvMessage, AfterIdAlloc
<1>4. [stars[0] EXCEPT !.id = Taken.id] \in Star /\ ~[stars[0] EXCEPT !.id = Taken.id].isAlive
  BY <1>1, <1>2 DEF Star, Letter
<1>5. stars' \in [Slot -> Star] /\ \A i \in Slot : ~stars'[i].isAlive
  BY <1>1, <1>2, <1>3, <1>4
<1>6. known' = {}
  BY <1>1 DEF recvMessage, Learn
<1>7. FirstWithItsId' /\ AliveIn(stars') = {} /\ ShownIn(stars') = {}
  BY <1>5 DEF FirstWithItsId, AliveIn, ShownIn, Slot
<1> QED BY <1>5, <1>6, <1>7, ReceivedOnce, ShownAgain

LEMMA CreateKeeps ==
  ASSUME StarInv, recvMessage, Taken.type = "STAR_CREATE"
  PROVE  StarInv'
<1> USE DEF StarInv
<1> DEFINE m == Taken
           star == [id |-> m.id, pos |-> m.pos, isAlive |-> TRUE]
<1>1. /\ m \in Letter /\ m = stream[1] /\ 1 \in 1..Len(stream) /\ myStar
  BY TakenIs
<1>2. 0 \in Slot /\ stars \in [Slot -> Star] /\ star \in Star
  BY <1>1, StarAssumption DEF Slot, StarTypes, Star, Letter
<1>3. stars' = AfterCreate(m) /\ Learn(m)
  BY DEF recvMessage
<1>4. \A k \in known : k[1] # m.id
  BY <1>1 DEF CreatedOnce
<1>5. Shown = ShownIn(stars) /\ ShownIn(stars) \subseteq known
  BY DEF Shown, ShownIn, AliveIn, ShownAreThePlayers
<1>6. ASSUME NEW j \in AliveIn(stars) PROVE stars[j].id # m.id
  <2>1. <<stars[j].id, stars[j].pos>> \in known
    BY <1>5 DEF ShownIn
  <2>2. <<stars[j].id, stars[j].pos>>[1] # m.id
    BY <1>4, <2>1
  <2> QED BY <2>2
<1>7. <<m.id, m.pos>> \in Nat \X Points
  BY <1>1 DEF Letter
<1>8. CASE stars[0].id = m.id
  <2>1. stars' = [stars EXCEPT ![0] = star] /\ known' = known
    BY <1>1, <1>3, <1>8 DEF AfterCreate, Learn
  <2>2. stars' \in [Slot -> Star] /\ stars'[0].id = stars[0].id /\ \A i \in Slot \ {0} : stars'[i] = stars[i]
    BY <1>2, <1>8, <2>1
  <2>3. crowded' = (crowded \/ Cardinality(known) >= MAX_CLIENTS)
    BY <1>1, <1>3, <1>8 DEF Learn
  <2>4. AliveIn(stars') = AliveIn(stars)
    BY <2>2 DEF AliveIn
  <2>5. ShownIn(stars') = ShownIn(stars)
    BY <2>2, <2>4 DEF ShownIn, AliveIn
  <2>6. FirstWithItsId'
    <3>1. ASSUME NEW j \in Slot \ {0}, stars'[j].isAlive,
                 NEW i \in Slot, stars'[i].id = stars'[j].id
          PROVE  j <= i /\ (stars'[i].isAlive => i = j)
      <4>1. stars[j].isAlive /\ stars[i].id = stars[j].id
        BY <2>2, <3>1
      <4>2. j <= i /\ j \in Nat /\ j # 0 /\ i \in Nat
        BY <4>1, StarAssumption DEF FirstWithItsId, Slot
      <4>3. i # 0
        BY <4>2
      <4> QED BY <2>2, <3>1, <4>1, <4>2, <4>3 DEF FirstWithItsId
    <3> QED BY <3>1 DEF FirstWithItsId
  <2>7. ~crowded' => ShownIn(stars') = known'
    BY <1>5, <2>1, <2>3, <2>5 DEF ShownAreThePlayers
  <2>8. known' \subseteq Nat \X Points
    BY <2>1 DEF StarTypes
  <2> QED BY <1>5, <2>1, <2>2, <2>5, <2>6, <2>7, <2>8, ReceivedOnce, ShownAgain
<1>9. CASE stars[0].id # m.id
  <2>1. known' = known \cup {<<m.id, m.pos>>}
        /\ crowded' = (crowded \/ Cardinality(known') >= MAX_CLIENTS)
    BY <1>1, <1>3, <1>9 DEF Learn
  <2>2. known' \subseteq Nat \X Points
    BY <1>7, <2>1 DEF StarTypes
  <2>3. \A k \in known' : (\E l \in known : l[1] = k[1]) \/ k[1] = m.id
    BY <2>1
  <2>4. CASE FreeSlots = {}
    <3>1. stars' = stars
      BY <1>1, <1>3, <1>9, <2>4 DEF AfterCreate
    <3>2. \A i \in Slot \ {0} : stars[i].isAlive
      BY <2>4 DEF FreeSlots
    <3>3. Cardinality(AliveIn(stars)) = MAX_CLIENTS - 1
      BY <3>2, FullTable
    <3>4. \A i, j \in AliveIn(stars) : stars[i].id = stars[j].id => i = j
      BY DEF FirstWithItsId, AliveIn
    <3>5. IsFiniteSet(ShownIn(stars)) /\ Cardinality(ShownIn(stars)) = MAX_CLIENTS - 1
      BY <3>3, <3>4, EachIsShown
    <3>6. ~crowded => known = ShownIn(stars)
      BY <1>5 DEF ShownAreThePlayers
    <3>7. <<m.id, m.pos>> \notin ShownIn(stars)
      BY <1>4, <1>5
    <3>8. Cardinality(ShownIn(stars) \cup {<<m.id, m.pos>>}) = MAX_CLIENTS
      <4>1. Cardinality(ShownIn(stars) \cup {<<m.id, m.pos>>}) = (MAX_CLIENTS - 1) + 1
        BY <3>5, <3>7, FS_AddElement
      <4> QED BY <4>1, StarAssumption
    <3>9. crowded'
      <4>1. CASE crowded
        BY <2>1, <4>1
      <4>2. CASE ~crowded
        <5>1. Cardinality(known') = MAX_CLIENTS
          BY <2>1, <3>6, <3>8, <4>2
        <5>2. Cardinality(known') >= MAX_CLIENTS
          BY <5>1, StarAssumption
        <5> QED BY <2>1, <5>2
      <4> QED BY <4>1, <4>2
    <3>10. FirstWithItsId'
      BY <3>1 DEF FirstWithItsId
    <3> QED BY <1>2, <1>5, <2>1, <2>2, <2>3, <3>1, <3>9, <3>10, ReceivedOnce, ShownAgain
  <2>5. CASE FreeSlots # {}
    <3> DEFINE j0 == First(FreeSlots)
    <3>1. j0 \in FreeSlots /\ \A j \in FreeSlots : j0 <= j
      BY <2>5, FirstIsFirst DEF FreeSlots
    <3>2. stars' = [stars EXCEPT ![j0] = star]
      BY <1>1, <1>3, <1>9, <2>5 DEF AfterCreate
    <3> HIDE DEF j0, star
    <3>3. j0 \in Slot \ {0} /\ ~stars[j0].isAlive
      BY <3>1 DEF FreeSlots
    <3>4. /\ stars' \in [Slot -> Star] /\ stars'[j0] = star
          /\ \A i \in Slot \ {j0} : stars'[i] = stars[i]
      BY <1>2, <3>2, <3>3
    <3>5. star.id = m.id /\ star.pos = m.pos /\ star.isAlive
      BY DEF star
    <3>6. AliveIn(stars') = AliveIn(stars) \cup {j0}
      BY <3>3, <3>4, <3>5 DEF AliveIn
    <3>7. ShownIn(stars') = ShownIn(stars) \cup {<<m.id, m.pos>>}
      BY <3>3, <3>4, <3>5, <3>6 DEF ShownIn, AliveIn
    <3>8. ASSUME NEW j \in Slot \ {0}, stars'[j].isAlive,
                 NEW i \in Slot, stars'[i].id = stars'[j].id
          PROVE  j <= i /\ (stars'[i].isAlive => i = j)
      <4>1. i \in Nat /\ j \in Nat /\ j0 \in Nat /\ j \in AliveIn(stars')
        BY <3>3, <3>8, StarAssumption DEF Slot, AliveIn
      <4>2. CASE j = j0
        <5>1. i # j0 => ~(i \in AliveIn(stars)) /\ stars[i].id = m.id /\ i # 0
          BY <1>6, <1>9, <3>4, <3>5, <3>8, <4>2
        <5>2. i # j0 => i \in FreeSlots /\ ~stars[i].isAlive
          BY <5>1 DEF FreeSlots, AliveIn
        <5> QED BY <3>1, <3>4, <4>1, <4>2, <5>2
      <4>3. CASE j # j0
        <5>1. j \in AliveIn(stars) /\ stars'[j] = stars[j] /\ stars[j].id # m.id
          BY <1>6, <3>4, <3>6, <4>1, <4>3
        <5>2. i # j0
          BY <3>4, <3>5, <3>8, <5>1
        <5> QED BY <3>4, <3>8, <5>1, <5>2 DEF FirstWithItsId, AliveIn
      <4> QED BY <4>2, <4>3
    <3>9. FirstWithItsId'
      BY <3>8 DEF FirstWithItsId
    <3>10. ShownIn(stars') \subseteq known' /\ (~crowded' => ShownIn(stars') = known')
      BY <1>5, <2>1, <3>7 DEF ShownAreThePlayers
    <3> QED BY <2>2, <2>3, <3>4, <3>9, <3>10, ReceivedOnce, ShownAgain
  <2> QED BY <2>4, <2>5
<1> QED BY <1>8, <1>9

LEMMA DeleteKeeps ==
  ASSUME StarInv, recvMessage, Taken.type = "STAR_DELETE"
  PROVE  StarInv'
<1> USE DEF StarInv
<1> DEFINE m == Taken
<1>1. m \in Letter /\ myStar
  BY TakenIs
<1>2. 0 \in Slot /\ stars \in [Slot -> Star]
  BY StarAssumption DEF Slot, StarTypes
<1>3. stars' = AfterDelete(m) /\ Learn(m)
  BY DEF recvMessage
<1>4. known' = {k \in known : k[1] # m.id}
      /\ crowded' = (crowded \/ Cardinality(known') >= MAX_CLIENTS)
  BY <1>3 DEF Learn
<1>5. Shown = ShownIn(stars) /\ ShownIn(stars) \subseteq known
  BY DEF Shown, ShownIn, AliveIn, ShownAreThePlayers
<1>6. /\ stars' \in [Slot -> Star]
      /\ AliveIn(stars') = {j \in AliveIn(stars) : stars[j].id # m.id}
      /\ \A i \in Slot : stars'[i].id = stars[i].id /\ stars'[i].pos = stars[i].pos
                         /\ (stars'[i].isAlive => stars[i].isAlive)
  <2>1. CASE SlotsOf(m.id, Slot \ {0}) = {}
    <3>1. stars' = stars
      BY <1>3, <2>1 DEF AfterDelete
    <3>2. \A i \in Slot \ {0} : stars[i].id # m.id
      BY <2>1 DEF SlotsOf
    <3> QED BY <1>2, <3>1, <3>2 DEF AliveIn
  <2>2. CASE SlotsOf(m.id, Slot \ {0}) # {}
    <3> DEFINE j0 == First(SlotsOf(m.id, Slot \ {0}))
    <3>1. j0 \in SlotsOf(m.id, Slot \ {0}) /\ \A j \in SlotsOf(m.id, Slot \ {0}) : j0 <= j
      BY <2>2, FirstIsFirst DEF SlotsOf
    <3>2. stars' = [stars EXCEPT ![j0].isAlive = FALSE]
      BY <1>3, <2>2 DEF AfterDelete
    <3> HIDE DEF j0
    <3>3. j0 \in Slot \ {0} /\ stars[j0].id = m.id
      BY <3>1 DEF SlotsOf
    <3>4. /\ [stars[j0] EXCEPT !.isAlive = FALSE] \in Star
          /\ [stars[j0] EXCEPT !.isAlive = FALSE].id = stars[j0].id
          /\ [stars[j0] EXCEPT !.isAlive = FALSE].pos = stars[j0].pos
          /\ ~[stars[j0] EXCEPT !.isAlive = FALSE].isAlive
      BY <1>2, <3>3 DEF Star
    <3>5. /\ stars' \in [Slot -> Star] /\ stars'[j0] = [stars[j0] EXCEPT !.isAlive = FALSE]
          /\ \A i \in Slot \ {j0} : stars'[i] = stars[i]
      BY <1>2, <3>2, <3>3, <3>4
    <3>6. \A i \in Slot : stars'[i].id = stars[i].id /\ stars'[i].pos = stars[i].pos
                          /\ (stars'[i].isAlive => stars[i].isAlive)
      BY <3>4, <3>5
    <3>7. ASSUME NEW j \in AliveIn(stars), stars[j].id = m.id PROVE j = j0
      <4>1. j <= j0
        BY <3>3, <3>7 DEF FirstWithItsId, AliveIn
      <4>2. j0 <= j
        BY <3>1, <3>7 DEF SlotsOf, AliveIn
      <4>3. j \in Nat /\ j0 \in Nat
        BY <3>3, StarAssumption DEF AliveIn, Slot
      <4> QED BY <4>1, <4>2, <4>3
    <3>8. AliveIn(stars') = {j \in AliveIn(stars) : stars[j].id # m.id}
      <4>1. ASSUME NEW j \in AliveIn(stars') PROVE j \in AliveIn(stars) /\ stars[j].id # m.id
        <5>1. j # j0
          BY <3>4, <3>5 DEF AliveIn
        <5>2. j \in AliveIn(stars)
          BY <3>6 DEF AliveIn
        <5> QED BY <3>7, <5>1, <5>2
      <4>2. ASSUME NEW j \in AliveIn(stars), stars[j].id # m.id PROVE j \in AliveIn(stars')
        BY <3>3, <3>5, <4>2 DEF AliveIn
      <4> QED BY <4>1, <4>2
    <3> QED BY <3>5, <3>6, <3>8
  <2> QED BY <2>1, <2>2
<1>7. ShownIn(stars') = {p \in ShownIn(stars) : p[1] # m.id}
  <2>1. \A j \in AliveIn(stars) : j \in Slot
    BY DEF AliveIn
  <2> QED BY <1>6, <2>1 DEF ShownIn
<1>8. ShownIn(stars') \subseteq known' /\ (~crowded' => ShownIn(stars') = known')
  BY <1>4, <1>5, <1>7 DEF ShownAreThePlayers
<1>9. FirstWithItsId'
  BY <1>6 DEF FirstWithItsId
<1>10. /\ known' \subseteq Nat \X Points
       /\ \A k \in known' : \E l \in known : l[1] = k[1]
  BY <1>4 DEF StarTypes
<1> QED BY <1>6, <1>8, <1>9, <1>10, ReceivedOnce, ShownAgain

LEMMA MoveKeeps ==
  ASSUME StarInv, recvMessage, Taken.type = "STAR_MOVE", OnScreen(Taken.pos)
  PROVE  StarInv'
<1> USE DEF StarInv
<1> DEFINE m == Taken
           without == {k \in known : k[1] # m.id}
<1>1. m \in Letter /\ myStar
  BY TakenIs
<1>2. 0 \in Slot /\ stars \in [Slot -> Star] /\ m.id \in Nat /\ m.pos \in Points
  BY <1>1, StarAssumption DEF Slot, StarTypes, Letter
<1>3. stars' = AfterMove(m) /\ Learn(m)
  BY DEF recvMessage
<1>4. /\ stars[0].id = m.id => known' = known
      /\ stars[0].id # m.id =>
           known' = IF without = known THEN known ELSE without \cup {<<m.id, m.pos>>}
      /\ crowded' = (crowded \/ Cardinality(known') >= MAX_CLIENTS)
  BY <1>1, <1>3 DEF Learn
<1>5. Shown = ShownIn(stars) /\ ShownIn(stars) \subseteq known
  BY DEF Shown, ShownIn, AliveIn, ShownAreThePlayers
<1>6. CASE SlotsOf(m.id, Slot) = {}
  <2>1. stars' = stars
    BY <1>3, <1>6 DEF AfterMove
  <2>2. \A i \in Slot : stars[i].id # m.id
    BY <1>6 DEF SlotsOf
  <2>3. \A p \in ShownIn(stars) : p[1] # m.id
    BY <2>2 DEF ShownIn, AliveIn
  <2>4. ShownIn(stars) \subseteq without
    BY <1>5, <2>3
  <2>5. stars[0].id # m.id
    BY <1>2, <2>2
  <2>6. known' \subseteq Nat \X Points /\ ShownIn(stars) \subseteq known'
    BY <1>2, <1>4, <2>4, <2>5 DEF StarTypes
  <2>7. ~crowded => ShownIn(stars) = known /\ without = known
    BY <1>5, <2>4 DEF ShownAreThePlayers
  <2>8. ~crowded' => ShownIn(stars) = known'
    BY <1>4, <2>5, <2>7
  <2>9. \A k \in known' : \E l \in known : l[1] = k[1]
    BY <1>4, <2>5
  <2>10. FirstWithItsId'
    BY <2>1 DEF FirstWithItsId
  <2> QED BY <1>2, <2>1, <2>6, <2>8, <2>9, <2>10, ReceivedOnce, ShownAgain
<1>7. CASE SlotsOf(m.id, Slot) # {}
  <2> DEFINE j0 == First(SlotsOf(m.id, Slot))
  <2>1. j0 \in SlotsOf(m.id, Slot) /\ \A j \in SlotsOf(m.id, Slot) : j0 <= j
    BY <1>7, FirstIsFirst DEF SlotsOf
  <2>2. stars' = [stars EXCEPT ![j0].pos = m.pos]
    BY <1>3, <1>7 DEF AfterMove
  <2> HIDE DEF j0
  <2>3. j0 \in Slot /\ stars[j0].id = m.id
    BY <2>1 DEF SlotsOf
  <2>4. /\ [stars[j0] EXCEPT !.pos = m.pos] \in Star
        /\ [stars[j0] EXCEPT !.pos = m.pos].id = stars[j0].id
        /\ [stars[j0] EXCEPT !.pos = m.pos].pos = m.pos
        /\ [stars[j0] EXCEPT !.pos = m.pos].isAlive = stars[j0].isAlive
    BY <1>2, <2>3 DEF Star
  <2>5. /\ stars' \in [Slot -> Star] /\ stars'[j0] = [stars[j0] EXCEPT !.pos = m.pos]
        /\ \A i \in Slot \ {j0} : stars'[i] = stars[i]
    BY <1>2, <2>2, <2>3, <2>4
  <2>6. \A i \in Slot : stars'[i].id = stars[i].id /\ stars'[i].isAlive = stars[i].isAlive
    BY <2>4, <2>5
  <2>7. AliveIn(stars') = AliveIn(stars)
    BY <2>6 DEF AliveIn
  <2>8. FirstWithItsId'
    BY <2>6 DEF FirstWithItsId
  <2>9. ASSUME NEW j \in AliveIn(stars), stars[j].id = m.id PROVE j = j0
    <3>1. j <= j0
      BY <2>3, <2>9 DEF FirstWithItsId, AliveIn
    <3>2. j0 <= j
      BY <2>1, <2>9 DEF SlotsOf, AliveIn
    <3>3. j \in Nat /\ j0 \in Nat
      BY <2>3, StarAssumption DEF AliveIn, Slot
    <3> QED BY <3>1, <3>2, <3>3
  <2>10. \A j \in AliveIn(stars) : j \in Slot \ {0}
    BY DEF AliveIn
  <2>11. CASE j0 \notin AliveIn(stars)
    <3>1. \A j \in AliveIn(stars) : stars[j].id # m.id /\ stars'[j] = stars[j]
      BY <2>5, <2>9, <2>10, <2>11
    <3>2. ShownIn(stars') = ShownIn(stars)
      BY <2>7, <3>1 DEF ShownIn
    <3>3. \A p \in ShownIn(stars) : p[1] # m.id
      BY <3>1 DEF ShownIn
    <3>4. ShownIn(stars) \subseteq without
      BY <1>5, <3>3
    <3>5. known' \subseteq Nat \X Points /\ ShownIn(stars) \subseteq known'
      BY <1>2, <1>4, <1>5, <3>4 DEF StarTypes
    <3>6. ~crowded => ShownIn(stars) = known /\ without = known
      BY <1>5, <3>4 DEF ShownAreThePlayers
    <3>7. ~crowded' => ShownIn(stars) = known'
      BY <1>4, <3>6
    <3>8. \A k \in known' : \E l \in known : l[1] = k[1]
      BY <1>4
    <3> QED BY <2>5, <2>8, <3>2, <3>5, <3>7, <3>8, ReceivedOnce, ShownAgain
  <2>12. CASE j0 \in AliveIn(stars)
    <3>1. stars[0].id # m.id
      <4>1. CASE stars[0].id = m.id
        <5>1. j0 <= 0 /\ j0 # 0 /\ j0 \in Nat
          BY <1>2, <2>1, <2>3, <2>10, <2>12, <4>1, StarAssumption DEF SlotsOf, Slot
        <5> QED BY <5>1
      <4> QED BY <4>1
    <3>2. <<m.id, stars[j0].pos>> \in known
      BY <1>5, <2>3, <2>12 DEF ShownIn
    <3>3. known' = without \cup {<<m.id, m.pos>>}
      BY <1>4, <3>1, <3>2
    <3>4. ShownIn(stars') = {p \in ShownIn(stars) : p[1] # m.id} \cup {<<m.id, m.pos>>}
      <4>1. \A j \in AliveIn(stars) : j # j0 => stars'[j] = stars[j] /\ stars[j].id # m.id
        BY <2>5, <2>9, <2>10
      <4>2. stars'[j0].id = m.id /\ stars'[j0].pos = m.pos
        BY <2>3, <2>4, <2>5
      <4> QED BY <2>7, <2>12, <2>3, <4>1, <4>2 DEF ShownIn
    <3>5. ShownIn(stars') \subseteq known' /\ (~crowded' => ShownIn(stars') = known')
      BY <1>4, <1>5, <3>3, <3>4 DEF ShownAreThePlayers
    <3>6. known' \subseteq Nat \X Points /\ \A k \in known' : \E l \in known : l[1] = k[1]
      BY <1>2, <3>2, <3>3 DEF StarTypes
    <3> QED BY <2>5, <2>8, <3>5, <3>6, ReceivedOnce, ShownAgain
  <2> QED BY <2>11, <2>12
<1> QED BY <1>6, <1>7

LEMMA StarInvNext == StarInv /\ [StarNext]_starVars => StarInv'
<1> SUFFICES ASSUME StarInv, [StarNext]_starVars PROVE StarInv'
  OBVIOUS
<1>1. CASE playerJoins \/ \E i \in others : playerLeaves(i) \/ playerMoves(i)
  BY <1>1, ServerKeeps
<1>2. CASE arrivesHalf \/ serverGoes
  BY <1>2, NetworkKeeps
<1>3. CASE start
  BY <1>3, StartKeeps
<1>4. CASE keyInput \/ selects \/ recvEnds \/ recvWouldBlock
  BY <1>4, ProgramKeeps
<1>5. CASE recvMessage
  <2>1. CASE Taken.type = "STAR_MOVE" /\ ~OnScreen(Taken.pos)
    <3>1. UNCHANGED <<stars, known>>
      BY <1>5, <2>1 DEF recvMessage, Learn
    <3>2. crowded' = (crowded \/ Cardinality(known) >= MAX_CLIENTS)
      BY <1>5, <2>1 DEF recvMessage, Learn
    <3>3. FirstWithItsId' /\ ShownIn(stars) \subseteq known /\ (~crowded => ShownIn(stars) = known)
      BY <3>1 DEF StarInv, FirstWithItsId, ShownAreThePlayers, Shown, ShownIn, AliveIn
    <3>4. stars' \in [Slot -> Star] /\ known' \subseteq Nat \X Points
      BY <3>1 DEF StarInv, StarTypes
    <3> QED BY <1>5, <3>1, <3>2, <3>3, <3>4, ReceivedOnce, ShownAgain DEF StarInv
  <2>2. Taken.type \in {"ID_ALLOC", "STAR_CREATE", "STAR_MOVE", "STAR_DELETE"}
    BY <1>5, TakenIs DEF Letter
  <2> QED BY <1>5, <2>1, <2>2, IdAllocKeeps, CreateKeeps, DeleteKeeps, MoveKeeps
<1>6. CASE UNCHANGED starVars
  BY <1>6, TableUnchanged DEF starVars, StarInv, StarTypes, Greeted, CreatedOnce
<1> QED BY <1>1, <1>2, <1>3, <1>4, <1>5, <1>6 DEF StarNext

(* For any number of slots, players and messages, and however the stream is    *)
(* cut, the client never shows a star that is not there, and, as long as there *)
(* were never more players than slots, shows each of them once and where it    *)
(* was last said to be.                                                        *)
THEOREM StarsAreThePlayers == StarSpec => []ShownAreThePlayers
<1>1. StarInv => ShownAreThePlayers
  BY DEF StarInv
<1> QED BY <1>1, StarInvInit, StarInvNext, PTL DEF StarSpec

-----------------------------------------------------------------------------
(* The ring that counts: what its operations do to the bytes stored, the first *)
(* of which is the next one to be consumed.                                    *)
Value == Int \X Int

Around(i) == IF i <= RING_SIZE THEN i ELSE i - RING_SIZE - 1

Stored(r, k) == r.buffer[Around(r.front + k)]

RingOk(r) == /\ r \in [buffer : [RingSlots -> Value], front : RingSlots, rear : RingSlots,
                       usedSize : 0..RING_SIZE]
             /\ r.rear = Around(r.front + r.usedSize)

LEMMA NewRingOk ==
  ASSUME NEW b \in Value
  PROVE  RingOk(NewRing(b)) /\ NewRing(b).usedSize = 0
<1>1. 0 \in RingSlots /\ 0 \in 0..RING_SIZE /\ Around(0 + 0) = 0
  BY CountedRingAssumption DEF RingSlots, Around
<1> QED BY <1>1 DEF NewRing, RingOk

\* Where a byte comes to stand, and that the places of stored bytes are slots.
LEMMA AroundIsSlot ==
  ASSUME NEW f \in RingSlots, NEW k \in 0..RING_SIZE
  PROVE  Around(f + k) \in RingSlots
BY CountedRingAssumption DEF RingSlots, Around

\* The fields of a ring after Enqueue of as much as fits.
LEMMA EnqueueFields ==
  ASSUME NEW r, RingOk(r), NEW s \in Seq(Value), NEW n \in 1..RING_SIZE, Len(s) = n,
         n <= RING_SIZE - r.usedSize
  PROVE  LET q == Enqueue(r, s)
             d == IF GetDirectEnqueueSize(r) < n THEN GetDirectEnqueueSize(r) ELSE n
         IN  /\ q \in [buffer : [RingSlots -> Value], front : RingSlots, rear : RingSlots,
                       usedSize : 0..RING_SIZE]
             /\ q.front = r.front /\ q.usedSize = r.usedSize + n /\ q.rear = Around(r.rear + n)
             /\ \A i \in RingSlots :
                  q.buffer[i] = IF i < n - d THEN s[d + i + 1]
                                ELSE IF r.rear < i /\ i <= r.rear + d THEN s[i - r.rear]
                                ELSE r.buffer[i]
<1> DEFINE d == IF GetDirectEnqueueSize(r) < n THEN GetDirectEnqueueSize(r) ELSE n
           q == Enqueue(r, s)
           first == Written(r.buffer, r.rear + 1, SubSeq(s, 1, d))
           both == Written(first, 0, SubSeq(s, d + 1, n))
<1>1. /\ r \in [buffer : [RingSlots -> Value], front : RingSlots, rear : RingSlots, usedSize : 0..RING_SIZE]
      /\ r.rear = Around(r.front + r.usedSize)
  BY DEF RingOk
<1>2. /\ r.buffer \in [RingSlots -> Value] /\ r.front \in 0..RING_SIZE /\ r.rear \in 0..RING_SIZE
      /\ r.usedSize \in 0..RING_SIZE /\ RING_SIZE \in Nat /\ RING_SIZE > 0
  BY <1>1, CountedRingAssumption DEF RingSlots
<1>3. EnqueueSize(r, n) = n
  BY <1>2 DEF EnqueueSize, GetFreeSize
<1>4. q = [r EXCEPT !.buffer = both, !.usedSize = r.usedSize + n, !.rear = MovedRear(r, n)]
  <2>1. n # 0 /\ EnqueueSize(r, Len(s)) = n
    BY <1>3
  <2> QED BY <2>1, Zenon DEF Enqueue
<1>5. d \in 0..n
  BY <1>1, <1>2 DEF GetDirectEnqueueSize, Around
<1>6. MovedRear(r, n) = Around(r.rear + n)
  BY <1>1, <1>2 DEF MovedRear, GetDirectEnqueueSize, Around
<1>7. Around(r.rear + n) \in RingSlots /\ r.usedSize + n \in 0..RING_SIZE
  <2>1. r.usedSize + n \in 0..RING_SIZE
    BY <1>2
  <2>2. r.rear \in RingSlots /\ n \in 0..RING_SIZE
    BY <1>2 DEF RingSlots
  <2> QED BY <2>1, <2>2, AroundIsSlot
<1> HIDE DEF d
<1>8. /\ Len(SubSeq(s, 1, d)) = d /\ Len(SubSeq(s, d + 1, n)) = n - d
      /\ \A i \in 1..d : SubSeq(s, 1, d)[i] = s[i]
      /\ \A i \in 1..n - d : SubSeq(s, d + 1, n)[i] = s[d + i]
  BY <1>5
<1>9. \A i \in 1..n : s[i] \in Value
  BY ElementOfSeq
<1>10. ASSUME NEW i \in RingSlots
       PROVE  first[i] = IF r.rear < i /\ i <= r.rear + d THEN s[i - r.rear] ELSE r.buffer[i]
  <2>1. i - (r.rear + 1) \in 0..d - 1 <=> r.rear < i /\ i <= r.rear + d
    BY <1>2, <1>5, <1>10 DEF RingSlots
  <2>2. r.rear < i /\ i <= r.rear + d => i - (r.rear + 1) + 1 = i - r.rear /\ i - r.rear \in 1..d
    BY <1>2, <1>5, <1>10, SMTT(60) DEF RingSlots
  <2> QED BY <1>8, <2>1, <2>2 DEF Written
<1>11. ASSUME NEW i \in RingSlots
       PROVE  both[i] = IF i < n - d THEN s[d + i + 1] ELSE first[i]
  <2>1. i - 0 \in 0..(n - d) - 1 <=> i < n - d
    BY <1>5, <1>11, CountedRingAssumption DEF RingSlots
  <2>2. i < n - d => i - 0 + 1 = i + 1 /\ i + 1 \in 1..n - d /\ d + (i + 1) = d + i + 1
    BY <1>5, <1>11, CountedRingAssumption DEF RingSlots
  <2> HIDE DEF first
  <2>3. both[i] = IF i - 0 \in 0..Len(SubSeq(s, d + 1, n)) - 1 THEN SubSeq(s, d + 1, n)[i - 0 + 1] ELSE first[i]
    BY DEF Written
  <2> QED BY <1>8, <2>1, <2>2, <2>3
<1>12. both \in [RingSlots -> Value]
  <2>1. ASSUME NEW i \in RingSlots PROVE both[i] \in Value
    <3>1. i < n - d => d + i + 1 \in 1..n
      BY <1>5, CountedRingAssumption DEF RingSlots
    <3>2. r.rear < i /\ i <= r.rear + d => i - r.rear \in 1..n
      BY <1>2, <1>5 DEF RingSlots
    <3> HIDE DEF both, first
    <3> QED BY <1>2, <1>9, <1>10, <1>11, <3>1, <3>2
  <2>2. both = [i \in RingSlots |-> both[i]]
    BY DEF Written
  <2> HIDE DEF both
  <2> QED BY <2>1, <2>2
<1> HIDE DEF both, first, q
<1>13. /\ q \in [buffer : [RingSlots -> Value], front : RingSlots, rear : RingSlots, usedSize : 0..RING_SIZE]
       /\ q.front = r.front /\ q.usedSize = r.usedSize + n /\ q.rear = Around(r.rear + n)
       /\ q.buffer = both
  BY <1>1, <1>4, <1>6, <1>7, <1>12
<1>14. \A i \in RingSlots :
         q.buffer[i] = IF i < n - d THEN s[d + i + 1]
                       ELSE IF r.rear < i /\ i <= r.rear + d THEN s[i - r.rear]
                       ELSE r.buffer[i]
  BY <1>10, <1>11, <1>13
<1> QED BY <1>13, <1>14 DEF d, q

\* Enqueue of s, when there is room for it, stores it behind what was stored.
LEMMA EnqueueStores ==
  ASSUME NEW r, RingOk(r), NEW s \in Seq(Value), NEW n \in 1..RING_SIZE, Len(s) = n,
         n <= RING_SIZE - r.usedSize
  PROVE  /\ RingOk(Enqueue(r, s)) /\ Enqueue(r, s).usedSize = r.usedSize + n
         /\ \A k \in 1..r.usedSize : Stored(Enqueue(r, s), k) = Stored(r, k)
         /\ \A k \in 1..n : Stored(Enqueue(r, s), r.usedSize + k) = s[k]
<1> DEFINE d == IF GetDirectEnqueueSize(r) < n THEN GetDirectEnqueueSize(r) ELSE n
           q == Enqueue(r, s)
<1>1. /\ q \in [buffer : [RingSlots -> Value], front : RingSlots, rear : RingSlots, usedSize : 0..RING_SIZE]
      /\ q.front = r.front /\ q.usedSize = r.usedSize + n /\ q.rear = Around(r.rear + n)
      /\ \A i \in RingSlots :
           q.buffer[i] = IF i < n - d THEN s[d + i + 1]
                         ELSE IF r.rear < i /\ i <= r.rear + d THEN s[i - r.rear]
                         ELSE r.buffer[i]
  BY EnqueueFields
<1>2. /\ r.rear = Around(r.front + r.usedSize) /\ RING_SIZE \in Nat /\ RING_SIZE > 0
      /\ r.front \in 0..RING_SIZE /\ r.rear \in 0..RING_SIZE /\ r.usedSize \in 0..RING_SIZE
  BY CountedRingAssumption DEF RingOk, RingSlots
<1>3. /\ d \in 0..n
      /\ Around(r.rear + n) = Around(r.front + (r.usedSize + n))
      /\ \A k \in 1..r.usedSize :
           LET i == Around(r.front + k) IN ~(i < n - d) /\ ~(r.rear < i /\ i <= r.rear + d)
      /\ \A k \in 1..d : LET i == Around(r.front + (r.usedSize + k))
                         IN  ~(i < n - d) /\ r.rear < i /\ i <= r.rear + d /\ i - r.rear = k
      /\ \A k \in d + 1..n : LET i == Around(r.front + (r.usedSize + k)) IN i < n - d /\ d + i + 1 = k
  <2> DEFINE g == GetDirectEnqueueSize(r)
             f == r.front
             u == r.usedSize
             e == r.rear
  <2>1. /\ g = IF f <= e THEN RING_SIZE - e ELSE f - e - 1
        /\ d = IF g < n THEN g ELSE n
    BY DEF GetDirectEnqueueSize
  <2>2. f \in 0..RING_SIZE /\ u \in 0..RING_SIZE /\ e \in 0..RING_SIZE /\ e = Around(f + u) /\ n <= RING_SIZE - u
    BY <1>2
  <2> HIDE DEF d, f, u, e, g
  <2>3. /\ d \in 0..n
        /\ Around(e + n) = Around(f + (u + n))
        /\ \A k \in 1..u : LET i == Around(f + k) IN ~(i < n - d) /\ ~(e < i /\ i <= e + d)
        /\ \A k \in 1..d : LET i == Around(f + (u + k))
                           IN  ~(i < n - d) /\ e < i /\ i <= e + d /\ i - e = k
        /\ \A k \in d + 1..n : LET i == Around(f + (u + k)) IN i < n - d /\ d + i + 1 = k
    <3>1. CASE f + u <= RING_SIZE
      <4>1. e = f + u /\ g = RING_SIZE - e /\ RING_SIZE \in Nat
        BY <2>1, <2>2, CountedRingAssumption, <3>1 DEF Around
      <4>2. d \in 0..n
        BY <2>1, <2>2, CountedRingAssumption, <4>1
      <4>3. Around(e + n) = Around(f + (u + n))
        BY <2>1, <2>2, CountedRingAssumption, <4>1 DEF Around
      <4>4. \A k \in 1..u : Around(f + k) = f + k
        BY <2>1, <2>2, CountedRingAssumption, <3>1 DEF Around
      <4>5. \A k \in 1..d : Around(f + (u + k)) = e + k
        BY <2>1, <2>2, CountedRingAssumption, <4>1, <4>2 DEF Around
      <4>6. \A k \in d + 1..n : Around(f + (u + k)) = k - d - 1
        BY <2>1, <2>2, CountedRingAssumption, <4>1, <4>2 DEF Around
      <4>7. n - d <= f \/ n = d
        BY <2>1, <2>2, CountedRingAssumption, <4>1
      <4>8. \A k \in 1..u : ~(f + k < n - d) /\ ~(e < f + k /\ f + k <= e + d)
        BY <2>1, <2>2, CountedRingAssumption, <4>1, <4>2, <4>7
      <4>9. \A k \in 1..d : ~(e + k < n - d) /\ e < e + k /\ e + k <= e + d /\ e + k - e = k
        BY <2>1, <2>2, CountedRingAssumption, <4>1, <4>2, <4>7, SMTT(60)
      <4>10. \A k \in d + 1..n : k - d - 1 < n - d /\ d + (k - d - 1) + 1 = k
        <5>1. d \in Int /\ n \in Int
          BY <4>2
        <5> QED BY <5>1
      <4>11. \A k \in 1..u : ~(Around(f + k) < n - d) /\ ~(e < Around(f + k) /\ Around(f + k) <= e + d)
        BY <4>4, <4>8
      <4>12. ASSUME NEW k \in 1..d, NEW i, i = Around(f + (u + k))
             PROVE  ~(i < n - d) /\ e < i /\ i <= e + d /\ i - e = k
        BY <2>2, <4>2, <4>5, <4>9, <4>12
      <4>13. \A k \in d + 1..n : LET i == Around(f + (u + k)) IN i < n - d /\ d + i + 1 = k
        BY <4>6, <4>10
      <4> QED BY <4>2, <4>3, <4>11, <4>12, <4>13, Zenon
    <3>2. CASE f + u > RING_SIZE
      <4>1. e = f + u - RING_SIZE - 1 /\ g = RING_SIZE - u /\ RING_SIZE \in Nat /\ e < f
        BY <2>1, <2>2, CountedRingAssumption, <3>2 DEF Around
      <4>2. d = n
        BY <2>1, <2>2, CountedRingAssumption, <4>1
      <4>3. Around(e + n) = e + n /\ Around(f + (u + n)) = e + n
        BY <2>1, <2>2, CountedRingAssumption, <3>2, <4>1 DEF Around
      <4>4. \A k \in 1..u : Around(f + k) > f \/ Around(f + k) <= e
        BY <2>1, <2>2, CountedRingAssumption, <3>2, <4>1 DEF Around
      <4>5. \A k \in 1..n : Around(f + (u + k)) = e + k
        BY <2>1, <2>2, CountedRingAssumption, <3>2, <4>1 DEF Around
      <4>6. e + d < f
        BY <2>1, <2>2, CountedRingAssumption, <4>1, <4>2
      <4>7. \A k \in 1..u : Around(f + k) \in 0..RING_SIZE
        BY <2>1, <2>2, CountedRingAssumption, <3>2 DEF Around
      <4>8. \A i \in 0..RING_SIZE : (i > f \/ i <= e) => ~(i < n - d) /\ ~(e < i /\ i <= e + d)
        BY <2>1, <2>2, CountedRingAssumption, <4>2, <4>6
      <4>9. \A k \in 1..d : ~(e + k < n - d) /\ e < e + k /\ e + k <= e + d /\ e + k - e = k
        BY <2>1, <2>2, CountedRingAssumption, <4>2
      <4>10. \A k \in d + 1..n : FALSE
        BY <2>1, <2>2, CountedRingAssumption, <4>2
      <4>11. d \in 0..n
        BY <2>1, <2>2, CountedRingAssumption, <4>2
      <4>12. \A k \in 1..u : ~(Around(f + k) < n - d) /\ ~(e < Around(f + k) /\ Around(f + k) <= e + d)
        BY <4>4, <4>7, <4>8
      <4>13. ASSUME NEW k \in 1..d, NEW i, i = Around(f + (u + k))
             PROVE  ~(i < n - d) /\ e < i /\ i <= e + d /\ i - e = k
        <5>1. k \in 1..n
          BY <4>2
        <5>2. i = e + k
          BY <4>5, <4>13, <5>1
        <5> QED BY <2>2, <4>2, <4>9, <5>2
      <4> QED BY <4>3, <4>10, <4>11, <4>12, <4>13, Zenon
    <3>3. f + u <= RING_SIZE \/ f + u > RING_SIZE
      BY <2>2, CountedRingAssumption
    <3> QED BY <3>1, <3>2, <3>3, Zenon
  <2> QED BY <2>3 DEF f, u, e
<1> HIDE DEF d, q
<1>4. RingOk(q)
  BY <1>1, <1>3 DEF RingOk
<1>5. ASSUME NEW k \in 1..r.usedSize PROVE Stored(q, k) = Stored(r, k)
  <2>1. k \in 0..RING_SIZE /\ r.front \in RingSlots
    BY <1>2 DEF RingSlots
  <2>2. Around(r.front + k) \in RingSlots
    BY <2>1, AroundIsSlot
  <2>3. q.buffer[Around(r.front + k)] = r.buffer[Around(r.front + k)]
    BY <1>1, <1>3, <2>2
  <2> QED BY <1>1, <2>3 DEF Stored
<1>6. ASSUME NEW k \in 1..n PROVE Stored(q, r.usedSize + k) = s[k]
  <2>1. r.usedSize + k \in 0..RING_SIZE /\ r.front \in RingSlots
    BY <1>2 DEF RingSlots
  <2>2. d \in 0..n
    BY <1>3
  <2>3. k \in 1..d \/ k \in d + 1..n
    BY <2>2
  <2>4. Around(r.front + (r.usedSize + k)) \in RingSlots
    BY <2>1, AroundIsSlot
  <2>5. q.buffer[Around(r.front + (r.usedSize + k))] = s[k]
    BY <1>1, <1>3, <2>4, <2>3
  <2> QED BY <1>1, <2>5 DEF Stored
<1> QED BY <1>1, <1>4, <1>5, <1>6 DEF q

\* Dequeue of n bytes leaves what was stored behind them.
LEMMA DequeueLeaves ==
  ASSUME NEW r, RingOk(r), NEW n \in 0..r.usedSize
  PROVE  /\ RingOk(Dequeue(r, n)) /\ Dequeue(r, n).usedSize = r.usedSize - n
         /\ \A k \in 1..r.usedSize - n : Stored(Dequeue(r, n), k) = Stored(r, n + k)
<1> DEFINE q == Dequeue(r, n)
<1>1. /\ r.rear = Around(r.front + r.usedSize) /\ RING_SIZE \in Nat /\ RING_SIZE > 0
      /\ r.front \in 0..RING_SIZE /\ r.rear \in 0..RING_SIZE /\ r.usedSize \in 0..RING_SIZE
      /\ r \in [buffer : [RingSlots -> Value], front : RingSlots, rear : RingSlots, usedSize : 0..RING_SIZE]
  BY CountedRingAssumption DEF RingOk, RingSlots
<1>2. DequeueSize(r, n) = n
  BY <1>1 DEF DequeueSize
<1>3. CASE n = 0
  <2>1. q = r
    BY <1>2, <1>3, Zenon DEF Dequeue
  <2>2. \A k \in 1..r.usedSize - n : n + k = k
    BY <1>3
  <2> QED BY <1>1, <1>3, <2>1, <2>2
<1>4. CASE n # 0
  <2>1. q = [r EXCEPT !.usedSize = r.usedSize - n, !.front = MovedFront(r, n)]
    BY <1>2, <1>4, Zenon DEF Dequeue
  <2>2. MovedFront(r, n) = Around(r.front + n)
    BY <1>1, <1>4 DEF MovedFront, GetDirectDequeueSize, Around
  <2>3. MovedFront(r, n) \in RingSlots /\ r.usedSize - n \in 0..RING_SIZE
    BY <1>1, <2>2, AroundIsSlot DEF RingSlots
  <2> HIDE DEF q
  <2>4. /\ q \in [buffer : [RingSlots -> Value], front : RingSlots, rear : RingSlots, usedSize : 0..RING_SIZE]
        /\ q.front = Around(r.front + n) /\ q.usedSize = r.usedSize - n /\ q.rear = r.rear
        /\ q.buffer = r.buffer
    BY <1>1, <2>1, <2>2, <2>3
  <2>5. Around(Around(r.front + n) + (r.usedSize - n)) = Around(r.front + r.usedSize)
    BY <1>1 DEF Around
  <2>6. RingOk(q)
    BY <1>1, <2>4, <2>5 DEF RingOk
  <2>7. ASSUME NEW k \in 1..r.usedSize - n PROVE Stored(q, k) = Stored(r, n + k)
    <3>1. Around(Around(r.front + n) + k) = Around(r.front + (n + k))
      BY <1>1 DEF Around
    <3> QED BY <2>4, <3>1 DEF Stored
  <2> QED BY <2>4, <2>6, <2>7 DEF q
<1> QED BY <1>3, <1>4

\* Peek of n bytes hands out the first ones stored.
LEMMA PeekShows ==
  ASSUME NEW r, RingOk(r), NEW n \in 0..r.usedSize, NEW k \in 1..n
  PROVE  Peek(r, n)[k] = Stored(r, k)
<1> DEFINE d == IF GetDirectDequeueSize(r) < n THEN GetDirectDequeueSize(r) ELSE n
           a == ReadFrom(r.buffer, r.front + 1, d)
           b == ReadFrom(r.buffer, 0, n - d)
<1>1. /\ r.rear = Around(r.front + r.usedSize) /\ RING_SIZE \in Nat /\ RING_SIZE > 0
      /\ r.front \in 0..RING_SIZE /\ r.rear \in 0..RING_SIZE /\ r.usedSize \in 0..RING_SIZE
      /\ r.buffer \in [RingSlots -> Value]
  BY CountedRingAssumption DEF RingOk, RingSlots
<1>2. DequeueSize(r, n) = n
  BY <1>1 DEF DequeueSize
<1>3. Peek(r, n) = a \o b
  BY <1>2, Zenon DEF Peek
<1>4. /\ d \in 0..n
      /\ \A i \in 1..d : r.front + 1 + i - 1 = Around(r.front + i) /\ r.front + 1 + i - 1 \in RingSlots
      /\ \A i \in 1..n - d : 0 + i - 1 = Around(r.front + (d + i)) /\ 0 + i - 1 \in RingSlots
  <2> DEFINE g == GetDirectDequeueSize(r)
             f == r.front
             u == r.usedSize
             e == r.rear
  <2>1. /\ g = IF f <= e THEN e - f ELSE RING_SIZE - f
        /\ d = IF g < n THEN g ELSE n
    BY DEF GetDirectDequeueSize
  <2>2. f \in 0..RING_SIZE /\ u \in 0..RING_SIZE /\ n \in 0..u /\ e \in 0..RING_SIZE /\ e = Around(f + u)
    BY <1>1
  <2> HIDE DEF d, f, u, e, g
  <2>3. /\ d \in 0..n
        /\ \A i \in 1..d : f + 1 + i - 1 = Around(f + i) /\ f + 1 + i - 1 \in RingSlots
        /\ \A i \in 1..n - d : 0 + i - 1 = Around(f + (d + i)) /\ 0 + i - 1 \in RingSlots
    <3>1. CASE f + u <= RING_SIZE
      <4>1. e = f + u /\ g = u /\ RING_SIZE \in Nat
        BY <2>1, <2>2, CountedRingAssumption, <3>1 DEF Around
      <4>2. d = n
        BY <2>1, <2>2, CountedRingAssumption, <4>1
      <4> QED BY <2>2, <3>1, <4>2, CountedRingAssumption DEF Around, RingSlots
    <3>2. CASE f + u > RING_SIZE
      <4>1. e < f /\ g = RING_SIZE - f /\ RING_SIZE \in Nat
        BY <2>1, <2>2, CountedRingAssumption, <3>2 DEF Around
      <4>2. d \in 0..n /\ f + d <= RING_SIZE /\ (d = n \/ d = RING_SIZE - f)
        BY <2>1, <2>2, CountedRingAssumption, <4>1
      <4>3. \A i \in 1..d : f + 1 + i - 1 = Around(f + i) /\ f + 1 + i - 1 \in RingSlots
        BY <2>1, <2>2, CountedRingAssumption, <4>2 DEF Around, RingSlots
      <4>4. \A i \in 1..n - d : 0 + i - 1 = Around(f + (d + i)) /\ 0 + i - 1 \in RingSlots
        BY <2>1, <2>2, CountedRingAssumption, <4>2 DEF Around, RingSlots
      <4> QED BY <4>2, <4>3, <4>4
    <3> QED BY <2>2, <3>1, <3>2, CountedRingAssumption
  <2> QED BY <2>3 DEF f
<1> HIDE DEF d
<1>5. /\ a \in Seq(Value) /\ Len(a) = d
      /\ \A i \in 1..d : a[i] = Stored(r, i)
  <2>1. \A i \in 1..d : r.buffer[r.front + 1 + i - 1] \in Value
    BY <1>1, <1>4
  <2>2. a \in [1..d -> Value]
    BY <2>1 DEF ReadFrom
  <2>3. d \in Nat /\ \A i \in 1..d : a[i] = r.buffer[r.front + 1 + i - 1]
    BY <1>4 DEF ReadFrom
  <2> HIDE DEF a
  <2>4. a \in Seq(Value) /\ Len(a) = d
    BY <2>2, <2>3
  <2>5. ASSUME NEW i \in 1..d PROVE a[i] = Stored(r, i)
    BY <1>4, <2>3 DEF Stored
  <2> QED BY <2>4, <2>5
<1>6. /\ b \in Seq(Value) /\ Len(b) = n - d
      /\ \A i \in 1..n - d : b[i] = Stored(r, d + i)
  <2>1. \A i \in 1..n - d : r.buffer[0 + i - 1] \in Value
    BY <1>1, <1>4
  <2>2. b \in [1..n - d -> Value]
    BY <2>1 DEF ReadFrom
  <2>3. n - d \in Nat /\ \A i \in 1..n - d : b[i] = r.buffer[0 + i - 1]
    BY <1>4 DEF ReadFrom
  <2> HIDE DEF b
  <2> QED BY <1>4, <2>2, <2>3 DEF Stored
<1> HIDE DEF a, b
<1>7. (a \o b)[k] = IF k <= d THEN a[k] ELSE b[k - d]
  <2>1. \A i \in 1..Len(a) + Len(b) : (a \o b)[i] = IF i <= Len(a) THEN a[i] ELSE b[i - Len(a)]
    BY <1>5, <1>6, ConcatProperties
  <2> QED BY <1>4, <1>5, <1>6, <2>1
<1>8. CASE k <= d
  BY <1>3, <1>4, <1>5, <1>7, <1>8
<1>9. CASE d < k
  <2>1. k - d \in 1..n - d /\ d + (k - d) = k
    BY <1>4, <1>9
  <2>2. b[k - d] = Stored(r, k)
    BY <1>6, <2>1
  <2> QED BY <1>3, <1>4, <1>7, <1>9, <2>2
<1> QED BY <1>4, <1>8, <1>9

-----------------------------------------------------------------------------
(* The drawing client: it draws the server's lines in order, and stays while   *)
(* the server is there and sends whole lines.                                  *)
DrawSpec == DrawInit("connecting", "running") /\ [][DrawNext]_drawVars

Posting == {"CONNECT", "WRITE", "READ", "CLOSE", "DESTROY", "ERROR"}

\* writeQ is empty between any two steps: writeProc dequeues all of it.
DrawTypes ==
  /\ wire \in {"connecting", "open", "closed", "reset", "failed"} /\ badLine \in Nat
  /\ arrived \in Nat /\ received \in 0..arrived
  /\ wire \in {"connecting", "failed"} => arrived = 0
  /\ posted \in Seq(Posting)
  /\ readEnabled \in BOOLEAN /\ isConnected \in BOOLEAN /\ sockOpen \in BOOLEAN /\ hasty \in BOOLEAN
  /\ RingOk(readQ) /\ RingOk(writeQ) /\ writeQ.usedSize = 0
  /\ window \in {"running", "reading", "quitting", "ended"}
  /\ drawn \in Seq(Int)

\* Unit, for a stream that goes wrong at line b.
UnitOf(b, i) == LET line == (i - 1) \div PacketSize + 1
                    part == (i - 1) % PacketSize
                IN  <<line, IF part = 0 /\ line >= b THEN -1 ELSE part>>

\* What is not drawn of what was received is in readQ, a header in front.
Aligned == /\ received = PacketSize * Len(drawn) + readQ.usedSize
           /\ \A k \in 1..readQ.usedSize : Stored(readQ, k) = UnitOf(badLine, PacketSize * Len(drawn) + k)

LinesInOrder == \A i \in 1..Len(drawn) : drawn[i] = i

Healthy == /\ wire \in {"connecting", "open"} /\ ~hasty
           /\ wire = "open" => received <= (badLine - 1) * PacketSize

\* Nothing is posted that ends the window, and FD_READ once at most.
Calm(p) == /\ \A i \in 1..Len(p) : p[i] \notin {"CLOSE", "DESTROY"}
           /\ \A i, j \in 1..Len(p) : p[i] = "READ" /\ p[j] = "READ" => i = j

HasRead(p) == \E i \in 1..Len(p) : p[i] = "READ"

\* Where FD_READ is posted, there is something to read and room for it: readProc
\* leaves less than a line in the ring.
Undisturbed == Healthy =>
  /\ sockOpen /\ window \in {"running", "reading"}
  /\ window = "running" => readQ.usedSize < PacketSize
  /\ wire = "connecting" => posted = <<>>
  /\ Calm(posted)
  /\ HasRead(posted) => ~readEnabled /\ received < arrived

DrawInv == DrawTypes /\ Aligned /\ LinesInOrder /\ Undisturbed

-----------------------------------------------------------------------------
\* What messages posted and dispatched do to what is posted.
LEMMA PostedMore ==
  ASSUME NEW p \in Seq(Posting), NEW m \in Posting
  PROVE  /\ Append(p, m) \in Seq(Posting)
         /\ HasRead(Append(p, m)) => HasRead(p) \/ m = "READ"
         /\ Calm(p) /\ m \notin {"CLOSE", "DESTROY"} /\ (m = "READ" => ~HasRead(p)) => Calm(Append(p, m))
<1> DEFINE q == Append(p, m)
<1>1. /\ q \in Seq(Posting) /\ Len(p) \in Nat /\ Len(q) = Len(p) + 1
      /\ \A i \in 1..Len(p) : q[i] = p[i]
      /\ q[Len(p) + 1] = m
  BY AppendProperties, LenProperties
<1> HIDE DEF q
<1>2. \A i \in 1..Len(q) : i \in 1..Len(p) \/ i = Len(p) + 1
  BY <1>1
<1>3. HasRead(q) => HasRead(p) \/ m = "READ"
  BY <1>1, <1>2 DEF HasRead
<1>4. ASSUME Calm(p), m \notin {"CLOSE", "DESTROY"}, m = "READ" => ~HasRead(p)
      PROVE  Calm(q)
  <2>1. \A i \in 1..Len(q) : q[i] \notin {"CLOSE", "DESTROY"}
    BY <1>1, <1>2, <1>4 DEF Calm
  <2>2. ASSUME NEW i \in 1..Len(q), NEW j \in 1..Len(q), q[i] = "READ", q[j] = "READ" PROVE i = j
    BY <1>1, <1>2, <1>4, <2>2 DEF Calm, HasRead
  <2> QED BY <2>1, <2>2 DEF Calm
<1> QED BY <1>1, <1>3, <1>4 DEF q

LEMMA PostedLess ==
  ASSUME NEW p \in Seq(Posting), p # <<>>
  PROVE  /\ Head(p) \in Posting /\ Tail(p) \in Seq(Posting)
         /\ Head(p) = "READ" => HasRead(p)
         /\ HasRead(Tail(p)) => HasRead(p)
         /\ Calm(p) => /\ Calm(Tail(p)) /\ Head(p) \notin {"CLOSE", "DESTROY"}
                       /\ Head(p) = "READ" => ~HasRead(Tail(p))
<1> DEFINE t == Tail(p)
<1>1. /\ t \in Seq(Posting) /\ Len(p) \in Nat \ {0} /\ Len(t) = Len(p) - 1
      /\ \A i \in 1..Len(t) : t[i] = p[i + 1]
      /\ Head(p) = p[1] /\ Head(p) \in Posting
  BY HeadTailProperties, EmptySeq
<1> HIDE DEF t
<1>2. 1 \in 1..Len(p) /\ \A i \in 1..Len(t) : i + 1 \in 1..Len(p) /\ i + 1 # 1
  BY <1>1
<1>3. Head(p) = "READ" => HasRead(p)
  BY <1>1, <1>2 DEF HasRead
<1>4. HasRead(t) => HasRead(p)
  BY <1>1, <1>2 DEF HasRead
<1>5. ASSUME Calm(p)
      PROVE  Calm(t) /\ Head(p) \notin {"CLOSE", "DESTROY"} /\ (Head(p) = "READ" => ~HasRead(t))
  <2>1. \A i \in 1..Len(t) : t[i] \notin {"CLOSE", "DESTROY"}
    BY <1>1, <1>2, <1>5 DEF Calm
  <2>2. ASSUME NEW i \in 1..Len(t), NEW j \in 1..Len(t), t[i] = "READ", t[j] = "READ" PROVE i = j
    <3>1. i + 1 = j + 1
      BY <1>1, <1>2, <1>5, <2>2 DEF Calm
    <3> QED BY <3>1
  <2>3. Head(p) = "READ" => ~HasRead(t)
    BY <1>1, <1>2, <1>5 DEF Calm, HasRead
  <2> QED BY <1>1, <1>2, <1>5, <2>1, <2>2, <2>3 DEF Calm
<1> QED BY <1>1, <1>3, <1>4, <1>5 DEF t

LEMMA NothingPosted == <<>> \in Seq(Posting) /\ Calm(<<>>) /\ ~HasRead(<<>>)
<1>1. Len(<<>>) = 0
  OBVIOUS
<1> QED BY <1>1, EmptySeq DEF Calm, HasRead

-----------------------------------------------------------------------------
\* The arithmetic of the stream: l whole lines, and unit j behind them.
LEMMA Divided ==
  ASSUME NEW p \in Nat \ {0}, NEW l \in Nat, NEW j \in 1..p
  PROVE  ((p * l + j) - 1) \div p = l /\ ((p * l + j) - 1) % p = j - 1
<1> DEFINE n == p * l
<1>1. n \in Nat /\ n = p * l
  OBVIOUS
<1>2. (p * l + j) - 1 = p * l + (j - 1) /\ j - 1 \in 0..p - 1
  BY <1>1
<1>3. \A r \in 0..p - 1 : (p * l + r) \div p = l /\ (p * l + r) % p = r
  OBVIOUS
<1> QED BY <1>2, <1>3

LEMMA UnitOfLine ==
  ASSUME NEW b \in Nat, NEW l \in Nat, NEW j \in 1..PacketSize
  PROVE  UnitOf(b, PacketSize * l + j) = <<l + 1, IF j = 1 /\ l + 1 >= b THEN -1 ELSE j - 1>>
<1>1. PacketSize \in Nat \ {0}
  BY DrawAssumption, CountedRingAssumption
<1>2. ((PacketSize * l + j) - 1) \div PacketSize = l /\ ((PacketSize * l + j) - 1) % PacketSize = j - 1
  BY <1>1, Divided
<1>3. j - 1 = 0 <=> j = 1
  OBVIOUS
<1> DEFINE i == PacketSize * l + j
<1>4. (i - 1) \div PacketSize = l /\ (i - 1) % PacketSize = j - 1
  BY <1>2
<1> HIDE DEF i
<1>5. UnitOf(b, i) = <<l + 1, IF j = 1 /\ l + 1 >= b THEN -1 ELSE j - 1>>
  BY <1>3, <1>4, Zenon DEF UnitOf
<1> QED BY <1>5 DEF i

LEMMA UnitIsValue ==
  ASSUME NEW b \in Nat, NEW i \in Nat \ {0}
  PROVE  UnitOf(b, i) \in Value
<1>1. PacketSize \in Nat \ {0} /\ i - 1 \in Nat
  BY DrawAssumption, CountedRingAssumption
<1>2. (i - 1) \div PacketSize \in Int /\ (i - 1) % PacketSize \in Int
  BY <1>1
<1>3. (i - 1) \div PacketSize + 1 \in Int
  BY <1>2
<1> QED BY <1>2, <1>3 DEF UnitOf, Value

\* A unit of line l + 1 among the good lines' units: that line is good.
LEMMA LineIsGood ==
  ASSUME NEW p \in Nat \ {0}, NEW l \in Nat, NEW b \in Nat, NEW u \in Nat \ {0}, p * l + u <= (b - 1) * p
  PROVE  l + 1 < b
<1> SUFFICES ASSUME b - 1 <= l PROVE FALSE
  OBVIOUS
<1>1. (b - 1) * p <= l * p
  OBVIOUS
<1>2. l * p = p * l /\ p * l \in Nat /\ (b - 1) * p \in Int
  OBVIOUS
<1> QED BY <1>1, <1>2

LEMMA OneLineMore ==
  ASSUME NEW p \in Nat, NEW l \in Nat
  PROVE  p * (l + 1) = p * l + p /\ p * l \in Nat
OBVIOUS

-----------------------------------------------------------------------------
LEMMA DrawInvInit == DrawInit("connecting", "running") => DrawInv
<1> SUFFICES ASSUME DrawInit("connecting", "running") PROVE DrawInv
  OBVIOUS
<1> USE DEF DrawInit
<1>1. /\ RingOk(readQ) /\ RingOk(writeQ) /\ readQ.usedSize = 0 /\ writeQ.usedSize = 0
  <2>1. <<0, 0>> \in Value
    BY DEF Value
  <2> QED BY <2>1, NewRingOk
<1>2. PacketSize \in Nat \ {0} /\ PacketSize * 0 = 0
  BY DrawAssumption, CountedRingAssumption
<1>3. <<>> \in Seq(Int) /\ Len(<<>>) = 0
  BY EmptySeq
<1>4. DrawTypes
  <2>1. received \in 0..arrived /\ badLine \in Nat /\ arrived \in Nat
    OBVIOUS
  <2> QED BY <1>1, <1>3, <2>1, NothingPosted, Zenon DEF DrawTypes
<1>5. Aligned
  BY <1>1, <1>2, <1>3 DEF Aligned
<1>6. Undisturbed
  BY <1>1, <1>2, NothingPosted DEF Undisturbed
<1> QED BY <1>3, <1>4, <1>5, <1>6 DEF DrawInv, LinesInOrder

-----------------------------------------------------------------------------
\* What happens at the socket.
LEMMA PostedTwo ==
  ASSUME NEW p \in Seq(Posting), NEW a \in Posting, NEW b \in Posting
  PROVE  p \o <<a, b>> = Append(Append(p, a), b)
<1>1. <<a, b>> \in Seq(Posting) /\ Len(<<a, b>>) = 2 /\ <<a, b>>[1] = a /\ <<a, b>>[2] = b
  OBVIOUS
<1> DEFINE s == <<a, b>>
           x == Append(p, a)
           y == Append(x, b)
<1>2. /\ x \in Seq(Posting) /\ Len(x) = Len(p) + 1 /\ Len(p) \in Nat /\ x[Len(p) + 1] = a
      /\ \A i \in 1..Len(p) : x[i] = p[i]
  BY AppendProperties, LenProperties
<1> HIDE DEF x
<1>3. /\ y \in Seq(Posting) /\ Len(y) = Len(x) + 1 /\ y[Len(x) + 1] = b
      /\ \A i \in 1..Len(x) : y[i] = x[i]
  BY <1>2, AppendProperties
<1> HIDE DEF y, s
<1>4. /\ p \o s \in Seq(Posting) /\ Len(p \o s) = Len(p) + 2
      /\ \A i \in 1..Len(p) + 2 : (p \o s)[i] = IF i <= Len(p) THEN p[i] ELSE s[i - Len(p)]
  <2>1. s \in Seq(Posting) /\ Len(s) = 2
    BY <1>1 DEF s
  <2>2. /\ p \o s \in Seq(Posting) /\ Len(p \o s) = Len(p) + Len(s)
        /\ \A i \in 1..Len(p) + Len(s) : (p \o s)[i] = IF i <= Len(p) THEN p[i] ELSE s[i - Len(p)]
    BY <2>1, ConcatProperties
  <2> QED BY <2>1, <2>2
<1>5. ASSUME NEW i \in 1..Len(p) + 2 PROVE (p \o s)[i] = y[i]
  <2>1. CASE i <= Len(p)
    BY <1>2, <1>3, <1>4, <2>1
  <2>2. CASE i = Len(p) + 1
    BY <1>1, <1>2, <1>3, <1>4, <2>2 DEF s
  <2>3. CASE i = Len(p) + 2
    BY <1>1, <1>2, <1>3, <1>4, <2>3 DEF s
  <2>4. Len(p) \in Nat
    BY <1>2
  <2>5. i <= Len(p) \/ i = Len(p) + 1 \/ i = Len(p) + 2
    BY <2>4
  <2> QED BY <2>1, <2>2, <2>3, <2>5
<1>6. Len(y) = Len(p) + 2
  BY <1>2, <1>3
<1>7. p \o s = y
  BY <1>3, <1>4, <1>5, <1>6, SeqEqual
<1> QED BY <1>7 DEF s, y, x

\* Before there is a connection, there is nothing in the ring.
LEMMA NothingYet ==
  ASSUME DrawInv, arrived = 0
  PROVE  received = 0 /\ readQ.usedSize = 0
<1>1. received \in 0..0 /\ readQ.usedSize \in Nat /\ Len(drawn) \in Nat /\ PacketSize \in Nat
  BY DrawAssumption, CountedRingAssumption, LenProperties DEF DrawInv, DrawTypes, RingOk
<1>2. PacketSize * Len(drawn) \in Nat /\ received = PacketSize * Len(drawn) + readQ.usedSize
  BY <1>1 DEF DrawInv, Aligned
<1> QED BY <1>1, <1>2

\* What the ring and the drawing are about stays when nothing of it changes.
LEMMA AlignedStays ==
  ASSUME DrawInv, readQ' = readQ, drawn' = drawn, received' = received,
         badLine' = badLine \/ readQ.usedSize = 0
  PROVE  Aligned' /\ LinesInOrder'
<1>1. \A k \in 1..readQ.usedSize : Stored(readQ, k) = UnitOf(badLine', PacketSize * Len(drawn) + k)
  BY DEF DrawInv, Aligned
<1>2. received' = PacketSize * Len(drawn') + readQ'.usedSize
  BY DEF DrawInv, Aligned
<1>3. Aligned'
  BY <1>1, <1>2 DEF Aligned
<1>4. LinesInOrder'
  BY DEF DrawInv, LinesInOrder
<1> QED BY <1>3, <1>4

LEMMA ConnectsKeeps ==
  ASSUME DrawInv, connects
  PROVE  DrawInv'
<1> USE DEF connects, windowVars
<1>1. arrived = 0 /\ received = 0 /\ readQ.usedSize = 0
  BY NothingYet DEF DrawInv, DrawTypes
<1>2. Aligned' /\ LinesInOrder'
  BY <1>1, AlignedStays
<1>3. /\ posted \in Seq(Posting)
      /\ posted \o <<"CONNECT", "WRITE">> = Append(Append(posted, "CONNECT"), "WRITE")
  BY PostedTwo DEF DrawInv, DrawTypes, Posting
<1>4. posted' \in Seq(Posting) /\ badLine' \in Nat
  <2>1. Append(posted, "CONNECT") \in Seq(Posting) /\ Append(posted, "ERROR") \in Seq(Posting)
    BY <1>3, PostedMore DEF Posting
  <2>2. Append(Append(posted, "CONNECT"), "WRITE") \in Seq(Posting)
    BY <2>1, PostedMore DEF Posting
  <2>3. badLine \in Nat
    BY DEF DrawInv, DrawTypes
  <2> QED BY <1>3, <2>1, <2>2, <2>3, DrawAssumption DEF Post
<1>5. wire' \in {"open", "failed"}
  OBVIOUS
<1>6. DrawTypes'
  BY <1>1, <1>4, <1>5, Zenon DEF DrawInv, DrawTypes
<1>7. ASSUME Healthy' PROVE /\ Calm(posted') /\ ~HasRead(posted') /\ Healthy
  <2>1. wire' = "open" /\ Healthy
    BY <1>5, <1>7 DEF Healthy
  <2>2. posted = <<>>
    BY <2>1 DEF DrawInv, Undisturbed
  <2>3. posted' = Append(Append(<<>>, "CONNECT"), "WRITE")
    BY <1>3, <2>1, <2>2
  <2>4. /\ Append(<<>>, "CONNECT") \in Seq(Posting) /\ Calm(Append(<<>>, "CONNECT"))
        /\ ~HasRead(Append(<<>>, "CONNECT"))
    BY NothingPosted, PostedMore DEF Posting
  <2>5. /\ Calm(Append(Append(<<>>, "CONNECT"), "WRITE"))
        /\ ~HasRead(Append(Append(<<>>, "CONNECT"), "WRITE"))
    BY <2>4, PostedMore DEF Posting
  <2> QED BY <2>1, <2>3, <2>5
<1>8. Undisturbed'
  <2> SUFFICES ASSUME Healthy' PROVE (sockOpen /\ window \in {"running", "reading"}
                                      /\ (window = "running" => readQ.usedSize < PacketSize)
                                      /\ wire # "connecting" /\ Calm(posted) /\ ~HasRead(posted))'
    BY DEF Undisturbed
  <2>1. Healthy
    BY <1>7
  <2>2. sockOpen /\ window \in {"running", "reading"} /\ (window = "running" => readQ.usedSize < PacketSize)
    BY <2>1 DEF DrawInv, Undisturbed
  <2> QED BY <1>5, <1>7, <2>2
<1> QED BY <1>2, <1>6, <1>8 DEF DrawInv

LEMMA ArrivesKeeps ==
  ASSUME DrawInv, NEW n \in 1..MaxLines * PacketSize, arrives(n)
  PROVE  DrawInv'
<1> USE DEF arrives, windowVars
<1>1. Aligned' /\ LinesInOrder'
  BY AlignedStays
<1>2. posted \in Seq(Posting) /\ "READ" \in Posting
  BY DEF DrawInv, DrawTypes, Posting
<1>3. posted' = (IF readEnabled THEN Append(posted, "READ") ELSE posted) /\ readEnabled \in BOOLEAN
  BY DEF Post, DrawInv, DrawTypes
<1>4. posted' \in Seq(Posting)
  BY <1>2, <1>3, PostedMore
<1>5. arrived' \in Nat /\ received' \in 0..arrived' /\ received < arrived'
  <2>1. MaxLines * PacketSize \in Nat
    BY DrawAssumption, CountedRingAssumption
  <2>2. n \in Nat \ {0} /\ arrived \in Nat /\ received \in 0..arrived
    BY <2>1 DEF DrawInv, DrawTypes
  <2> QED BY <2>2
<1>6. DrawTypes'
  BY <1>4, <1>5, Zenon DEF DrawInv, DrawTypes
<1>7. Undisturbed'
  <2> SUFFICES ASSUME Healthy'
               PROVE  (/\ sockOpen /\ window \in {"running", "reading"}
                       /\ window = "running" => readQ.usedSize < PacketSize
                       /\ wire # "connecting" /\ Calm(posted) /\ ~readEnabled /\ received < arrived)'
    BY DEF Undisturbed
  <2>1. Healthy
    BY DEF Healthy
  <2>2. /\ window \in {"running", "reading"} /\ (window = "running" => readQ.usedSize < PacketSize)
        /\ Calm(posted) /\ (readEnabled => ~HasRead(posted))
    BY <2>1 DEF DrawInv, Undisturbed
  <2>3. Calm(posted')
    BY <1>2, <1>3, <2>2, PostedMore
  <2> QED BY <1>5, <2>2, <2>3
<1> QED BY <1>1, <1>6, <1>7 DEF DrawInv

LEMMA EndsKeep ==
  ASSUME DrawInv, serverLeaves \/ tellsClose
  PROVE  DrawInv'
<1> USE DEF windowVars
<1>1. /\ wire' \in {"closed", "reset"} /\ received' = received /\ badLine' = badLine
      /\ readQ' = readQ /\ drawn' = drawn /\ arrived' \in {arrived, received}
      /\ UNCHANGED <<readEnabled, isConnected, sockOpen, hasty, writeQ, window>>
      /\ posted' \in {posted, Append(posted, "ERROR"), Append(posted, "CLOSE")}
  BY DEF serverLeaves, tellsClose, Post
<1>2. Aligned' /\ LinesInOrder'
  BY <1>1, AlignedStays
<1>3. posted' \in Seq(Posting)
  BY <1>1, PostedMore DEF DrawInv, DrawTypes, Posting
<1>4. arrived' \in Nat /\ received \in 0..arrived'
  BY <1>1 DEF DrawInv, DrawTypes
<1>5. DrawTypes'
  BY <1>1, <1>3, <1>4, Zenon DEF DrawInv, DrawTypes
<1>6. Undisturbed'
  BY <1>1 DEF Undisturbed, Healthy
<1> QED BY <1>2, <1>5, <1>6 DEF DrawInv

LEMMA RoomAgainKeeps ==
  ASSUME DrawInv, roomAgain
  PROVE  DrawInv'
<1> USE DEF roomAgain, windowVars, Post
<1>1. Aligned' /\ LinesInOrder'
  BY AlignedStays
<1>2. posted \in Seq(Posting) /\ "WRITE" \in Posting
  BY DEF DrawInv, DrawTypes, Posting
<1>3. posted' \in Seq(Posting)
  BY <1>2, PostedMore
<1>4. DrawTypes'
  BY <1>3, Zenon DEF DrawInv, DrawTypes
<1>5. ASSUME Calm(posted) PROVE Calm(posted')
  BY <1>2, <1>5, PostedMore
<1>6. HasRead(posted') => HasRead(posted)
  BY <1>2, PostedMore
<1>7. Undisturbed'
  BY <1>5, <1>6, Zenon DEF DrawInv, Undisturbed, Healthy
<1> QED BY <1>1, <1>4, <1>7 DEF DrawInv

-----------------------------------------------------------------------------
\* The window's handlers: those that leave the ring alone.
LEMMA RingLeftAlone ==
  ASSUME DrawInv, posted # <<>>,
         UNCHANGED <<wire, badLine, arrived, hasty, received, readEnabled, readQ, drawn>>,
         RingOk(writeQ'), writeQ'.usedSize = 0, isConnected' \in BOOLEAN, sockOpen' \in BOOLEAN,
         window' \in {"running", "reading", "quitting", "ended"},
         posted' \in {Tail(posted), Append(Tail(posted), "DESTROY")},
         Healthy => posted' = Tail(posted) /\ sockOpen' = sockOpen /\ window' = window
  PROVE  DrawInv'
<1>1. Aligned' /\ LinesInOrder'
  BY AlignedStays
<1>2. posted \in Seq(Posting) /\ "DESTROY" \in Posting
  BY DEF DrawInv, DrawTypes, Posting
<1>3. /\ Tail(posted) \in Seq(Posting)
      /\ HasRead(Tail(posted)) => HasRead(posted)
      /\ Calm(posted) => Calm(Tail(posted))
  BY <1>2, PostedLess
<1>4. posted' \in Seq(Posting)
  BY <1>2, <1>3, PostedMore
<1>5. DrawTypes'
  BY <1>4, Zenon DEF DrawInv, DrawTypes
<1>6. ASSUME Healthy'
      PROVE  (/\ sockOpen /\ window \in {"running", "reading"}
              /\ window = "running" => readQ.usedSize < PacketSize
              /\ wire # "connecting"
              /\ Calm(posted) /\ (HasRead(posted) => ~readEnabled /\ received < arrived))'
  <2>1. Healthy
    BY <1>6 DEF Healthy
  <2>2. /\ sockOpen /\ window \in {"running", "reading"}
        /\ window = "running" => readQ.usedSize < PacketSize
        /\ wire # "connecting"
        /\ Calm(posted) /\ (HasRead(posted) => ~readEnabled /\ received < arrived)
    BY <2>1 DEF DrawInv, Undisturbed
  <2>3. Calm(posted') /\ (HasRead(posted') => HasRead(posted))
    BY <1>3, <2>1, <2>2
  <2> QED BY <2>1, <2>2, <2>3
<1>7. Undisturbed'
  BY <1>6 DEF Undisturbed
<1> QED BY <1>1, <1>5, <1>7 DEF DrawInv

\* Nothing is left in the queue of what is to be sent.
LEMMA AllIsDequeued ==
  ASSUME NEW q, RingOk(q)
  PROVE  RingOk(Dequeue(q, GetUsedSize(q))) /\ Dequeue(q, GetUsedSize(q)).usedSize = 0
<1>1. q.usedSize \in Nat
  BY CountedRingAssumption DEF RingOk
<1>2. q.usedSize \in 0..q.usedSize
  BY <1>1
<1>3. /\ RingOk(Dequeue(q, q.usedSize))
      /\ Dequeue(q, q.usedSize).usedSize = q.usedSize - q.usedSize
  BY <1>2, DequeueLeaves
<1> QED BY <1>1, <1>3 DEF GetUsedSize

\* While the connection is healthy the message at hand is none that ends the
\* window, and FD_READ finds something to read.
LEMMA HealthyMessage ==
  ASSUME DrawInv, Healthy, posted # <<>>
  PROVE  /\ Head(posted) \notin {"CLOSE", "DESTROY"} /\ sockOpen /\ wire = "open"
         /\ Calm(Tail(posted))
         /\ Head(posted) = "READ" => ~HasRead(Tail(posted)) /\ received < arrived
<1>1. posted \in Seq(Posting)
  BY DEF DrawInv, DrawTypes
<1>2. /\ Calm(posted) /\ sockOpen /\ (HasRead(posted) => received < arrived) /\ wire # "connecting"
  BY DEF DrawInv, Undisturbed
<1>3. wire = "open"
  BY <1>2 DEF Healthy
<1> QED BY <1>1, <1>2, <1>3, PostedLess

LEMMA QuietHandlersKeep ==
  ASSUME DrawInv, dispatch,
         LET m == Head(posted)
             rest == Tail(posted)
         IN  \/ m = "CONNECT" /\ fdConnect(rest)
             \/ m = "CLOSE" /\ fdClose(rest)
             \/ m = "WRITE" /\ fdWrite(rest)
             \/ m = "DESTROY" /\ wmDestroy(rest)
             \/ m = "ERROR" /\ ignored(rest)
  PROVE  DrawInv'
<1> DEFINE m == Head(posted)
           rest == Tail(posted)
<1>1. posted # <<>> /\ UNCHANGED <<wire, badLine, arrived, closeTold, isDrag, hasty>>
  BY Zenon DEF dispatch
<1>2. /\ RingOk(writeQ) /\ writeQ.usedSize = 0 /\ isConnected \in BOOLEAN /\ sockOpen \in BOOLEAN
      /\ window \in {"running", "reading", "quitting", "ended"}
  BY DEF DrawInv, DrawTypes
<1>3. Healthy => m \notin {"CLOSE", "DESTROY"}
  BY <1>1, HealthyMessage
<1> HIDE DEF m, rest
<1>4. CASE m = "CONNECT" /\ fdConnect(rest)
  <2>1. /\ UNCHANGED <<received, readEnabled, readQ, drawn, writeQ, sockOpen, window>>
        /\ isConnected' = TRUE /\ posted' = rest
    BY <1>4 DEF fdConnect
  <2> QED BY <1>1, <1>2, <2>1, RingLeftAlone DEF rest
<1>5. CASE m = "CLOSE" /\ fdClose(rest)
  <2>1. /\ UNCHANGED <<received, readEnabled, readQ, drawn, writeQ, sockOpen, window, isConnected>>
        /\ posted' = Append(rest, "DESTROY")
    BY <1>5 DEF fdClose
  <2>2. ~Healthy
    BY <1>3, <1>5
  <2> QED BY <1>1, <1>2, <2>1, <2>2, RingLeftAlone DEF rest
<1>6. CASE m = "WRITE" /\ fdWrite(rest)
  <2>1. UNCHANGED <<received, readEnabled, isConnected, readQ, sockOpen, window, drawn>>
    BY <1>6 DEF fdWrite
  <2>2. posted' = rest /\ RingOk(writeQ') /\ writeQ'.usedSize = 0
    <3>1. CASE isConnected
      <4>1. writeProc(writeQ, rest)
        BY <1>6, <3>1 DEF fdWrite
      <4>2. posted' = rest /\ writeQ' = Dequeue(writeQ, GetUsedSize(writeQ))
        BY <1>2, <4>1 DEF writeProc, GetUsedSize
      <4> QED BY <1>2, <4>2, AllIsDequeued
    <3>2. CASE ~isConnected
      BY <1>2, <1>6, <3>2 DEF fdWrite
    <3> QED BY <3>1, <3>2
  <2> QED BY <1>1, <1>2, <2>1, <2>2, RingLeftAlone DEF rest
<1>7. CASE m = "DESTROY" /\ wmDestroy(rest)
  <2>1. /\ UNCHANGED <<received, readEnabled, readQ, drawn, writeQ, isConnected>>
        /\ posted' = rest /\ sockOpen' = FALSE /\ window' = "quitting"
    BY <1>7 DEF wmDestroy
  <2>2. ~Healthy
    BY <1>3, <1>7
  <2> QED BY <1>1, <1>2, <2>1, <2>2, RingLeftAlone DEF rest
<1>8. CASE m = "ERROR" /\ ignored(rest)
  <2>1. /\ UNCHANGED <<received, readEnabled, readQ, drawn, writeQ, sockOpen, window, isConnected>>
        /\ posted' = rest
    BY <1>8 DEF ignored
  <2> QED BY <1>1, <1>2, <2>1, RingLeftAlone DEF rest
<1> QED BY <1>4, <1>5, <1>6, <1>7, <1>8, Zenon DEF m, rest

\* FD_READ that reads: the units go behind what the ring held.
LEMMA RecvIntoRingKeeps ==
  ASSUME DrawInv, dispatch, Head(posted) = "READ", fdRead(Tail(posted)), isConnected,
         recvIntoRing(Tail(posted))
  PROVE  DrawInv'
<1> DEFINE rest == Tail(posted)
           used == readQ.usedSize
           base == PacketSize * Len(drawn)
           n == IF arrived - received < RecvLimit(readQ) THEN arrived - received ELSE RecvLimit(readQ)
           s == [i \in 1..n |-> UnitOf(badLine, received + i)]
           again == arrived > received + n
<1>1. /\ posted # <<>> /\ posted \in Seq(Posting)
      /\ UNCHANGED <<wire, badLine, arrived, closeTold, isDrag, hasty>>
      /\ UNCHANGED <<blocked, isConnected, writeQ, sockOpen, drawn>>
  BY Zenon DEF dispatch, fdRead, recvIntoRing, DrawInv, DrawTypes
<1>2. /\ arrived \in Nat /\ received \in 0..arrived /\ arrived > received
      /\ RingOk(readQ) /\ used \in 0..RING_SIZE /\ RING_SIZE - used > 0 /\ RING_SIZE \in Nat
      /\ badLine \in Nat
  BY CountedRingAssumption DEF DrawInv, DrawTypes, recvIntoRing, GetFreeSize, RingOk
<1>3. RecvLimit(readQ) = RING_SIZE - used
  BY <1>2, DrawAssumption DEF RecvLimit, GetFreeSize
<1>4. n \in 1..RING_SIZE /\ n <= RING_SIZE - used /\ n <= arrived - received
  BY <1>2, <1>3
<1>5. EnqueueSize(readQ, n) = n
  BY <1>2, <1>4 DEF EnqueueSize, GetFreeSize
<1>6. s = [i \in 1..n |-> Unit(received + i)]
  BY DEF UnitOf, Unit
<1>7. /\ received' = received + n
      /\ readEnabled' = ~again
      /\ readQ' = Enqueue(readQ, s)
      /\ window' = "reading"
      /\ posted' = rest \o (IF again THEN <<"READ">> ELSE <<>>) \o <<>>
  <2> HIDE DEF s, again, rest
  <2>1. /\ received' = received + n
        /\ readEnabled' = ~(arrived > received + n)
        /\ readQ' = Enqueue(readQ, [i \in 1..n |-> Unit(received + i)])
        /\ window' = IF EnqueueSize(readQ, n) # n THEN window ELSE "reading"
        /\ posted' = Tail(posted) \o (IF arrived > received + n THEN <<"READ">> ELSE <<>>)
                                  \o (IF EnqueueSize(readQ, n) # n THEN <<"DESTROY">> ELSE <<>>)
    BY DEF recvIntoRing
  <2> HIDE DEF n
  <2> QED BY <1>5, <1>6, <2>1, Zenon DEF again, rest
<1> HIDE DEF n, s
<1>8. /\ rest \in Seq(Posting) /\ (HasRead(rest) => HasRead(posted))
      /\ posted' = IF again THEN Append(rest, "READ") ELSE rest
  <2>1. rest \in Seq(Posting) /\ (HasRead(rest) => HasRead(posted))
    BY <1>1, PostedLess
  <2> HIDE DEF rest
  <2>2. "READ" \in Posting
    BY DEF Posting
  <2>3. Append(rest, "READ") \in Seq(Posting) /\ Append(rest, "READ") = rest \o <<"READ">>
    BY <2>1, <2>2, AppendProperties, AppendIsConcat
  <2>4. (rest \o <<"READ">>) \o <<>> = Append(rest, "READ")
    BY <2>3, ConcatEmptySeq
  <2>5. (rest \o <<>>) \o <<>> = rest
    BY <2>1, ConcatEmptySeq
  <2> QED BY <1>7, <2>1, <2>4, <2>5
<1>9. s \in Seq(Value) /\ Len(s) = n /\ \A i \in 1..n : s[i] = UnitOf(badLine, received + i)
  <2>1. \A i \in 1..n : UnitOf(badLine, received + i) \in Value
    <3> SUFFICES ASSUME NEW i \in 1..n PROVE UnitOf(badLine, received + i) \in Value
      OBVIOUS
    <3>1. received + i \in Nat \ {0}
      BY <1>2, <1>4
    <3> QED BY <1>2, <3>1, UnitIsValue
  <2>2. s \in [1..n -> Value]
    BY <2>1 DEF s
  <2>3. \A i \in 1..n : s[i] = UnitOf(badLine, received + i)
    BY DEF s
  <2> QED BY <1>4, <2>2, <2>3
<1>10. /\ RingOk(readQ') /\ readQ'.usedSize = used + n
       /\ \A k \in 1..used : Stored(readQ', k) = Stored(readQ, k)
       /\ \A k \in 1..n : Stored(readQ', used + k) = s[k]
  BY <1>2, <1>4, <1>7, <1>9, EnqueueStores
<1>11. /\ base \in Nat /\ received = base + used
       /\ \A k \in 1..used : Stored(readQ, k) = UnitOf(badLine, base + k)
  <2>1. Len(drawn) \in Nat /\ PacketSize \in Nat
    BY DrawAssumption, CountedRingAssumption, LenProperties DEF DrawInv, DrawTypes
  <2> QED BY <2>1, OneLineMore DEF DrawInv, Aligned
<1> HIDE DEF base, used
<1>12. \A k \in 1..used + n : Stored(readQ', k) = UnitOf(badLine, base + k)
  <2> SUFFICES ASSUME NEW k \in 1..used + n PROVE Stored(readQ', k) = UnitOf(badLine, base + k)
    OBVIOUS
  <2>1. CASE k <= used
    <3>1. k \in 1..used
      BY <1>2, <1>4, <2>1
    <3> QED BY <1>10, <1>11, <3>1
  <2>2. CASE k > used
    <3>1. k - used \in 1..n /\ used + (k - used) = k /\ received + (k - used) = base + k
      BY <1>2, <1>4, <1>11, <2>2
    <3> QED BY <1>9, <1>10, <3>1
  <2> QED BY <1>2, <1>4, <2>1, <2>2
<1>13. received' = base + readQ'.usedSize
  BY <1>2, <1>4, <1>7, <1>10, <1>11
<1>14. Aligned'
  BY <1>1, <1>10, <1>12, <1>13 DEF Aligned, base
<1>15. LinesInOrder'
  BY <1>1 DEF DrawInv, LinesInOrder
<1>16. posted' \in Seq(Posting)
  BY <1>8, PostedMore DEF Posting
<1>17. received' \in 0..arrived' /\ arrived' \in Nat /\ readEnabled' \in BOOLEAN
  BY <1>1, <1>2, <1>4, <1>7
<1>18. wire' \in {"connecting", "failed"} => arrived' = 0
  BY <1>1 DEF DrawInv, DrawTypes
<1>19. DrawTypes'
  BY <1>1, <1>7, <1>10, <1>16, <1>17, <1>18, Zenon DEF DrawInv, DrawTypes
<1>20. ASSUME Healthy'
       PROVE  sockOpen' /\ wire' # "connecting" /\ Calm(posted')
              /\ (HasRead(posted') => ~readEnabled' /\ received' < arrived')
  <2>1. Healthy
    <3>1. wire = "open" => received <= (badLine - 1) * PacketSize
      <4>1. (badLine - 1) * PacketSize \in Int
        BY <1>2, DrawAssumption, CountedRingAssumption
      <4> QED BY <1>1, <1>2, <1>4, <1>7, <1>20, <4>1 DEF Healthy
    <3> QED BY <1>1, <1>20, <3>1 DEF Healthy
  <2>2. sockOpen /\ wire = "open" /\ Calm(rest) /\ ~HasRead(rest)
    BY <1>1, <2>1, HealthyMessage
  <2>3. CASE again
    <3>1. posted' = Append(rest, "READ") /\ "READ" \in Posting
      BY <1>8, <2>3 DEF Posting
    <3>2. Calm(posted')
      BY <1>8, <2>2, <3>1, PostedMore
    <3>3. ~readEnabled' /\ received' < arrived'
      BY <1>1, <1>2, <1>4, <1>7, <2>3
    <3> QED BY <1>1, <2>2, <3>2, <3>3
  <2>4. CASE ~again
    BY <1>1, <1>8, <2>2, <2>4
  <2> QED BY <2>3, <2>4
<1>21. Undisturbed'
  BY <1>7, <1>20 DEF Undisturbed
<1> QED BY <1>14, <1>15, <1>19, <1>21 DEF DrawInv

LEMMA FdReadKeeps ==
  ASSUME DrawInv, dispatch, Head(posted) = "READ", fdRead(Tail(posted))
  PROVE  DrawInv'
<1>1. /\ posted # <<>> /\ window \in {"running", "quitting"}
      /\ UNCHANGED <<wire, badLine, arrived, closeTold, isDrag, hasty>>
      /\ UNCHANGED <<blocked, isConnected, writeQ, sockOpen>>
  BY Zenon DEF dispatch, fdRead
<1>2. /\ RingOk(writeQ) /\ writeQ.usedSize = 0 /\ isConnected \in BOOLEAN /\ sockOpen \in BOOLEAN
      /\ window \in {"running", "reading", "quitting", "ended"}
      /\ RingOk(readQ)
  BY DEF DrawInv, DrawTypes
<1>3. CASE ~isConnected
  <2>1. posted' = Tail(posted) /\ UNCHANGED <<received, readEnabled, readQ, window, drawn>>
    BY <1>3 DEF fdRead
  <2> QED BY <1>1, <1>2, <2>1, RingLeftAlone
<1>4. CASE isConnected /\ recvIntoRing(Tail(posted))
  BY <1>4, RecvIntoRingKeeps
<1>5. CASE isConnected /\ readFails(Tail(posted))
  <2>1. /\ posted' = Append(Tail(posted), "DESTROY") /\ UNCHANGED <<received, readEnabled, readQ, window, drawn>>
        /\ ~sockOpen \/ wire = "reset" \/ GetFreeSize(readQ) = 0 \/ arrived = received
    BY <1>5 DEF readFails
  <2>2. ~Healthy
    <3> SUFFICES ASSUME Healthy PROVE FALSE
      OBVIOUS
    <3>1. sockOpen /\ wire = "open" /\ received < arrived
      BY <1>1, HealthyMessage
    <3>2. arrived \in Nat /\ received \in 0..arrived
      BY DEF DrawInv, DrawTypes
    <3>3. readQ.usedSize < PacketSize
      BY <1>1 DEF DrawInv, Undisturbed
    <3>4. readQ.usedSize \in 0..RING_SIZE
      BY <1>2 DEF RingOk
    <3>5. GetFreeSize(readQ) # 0
      BY <3>3, <3>4, DrawAssumption, CountedRingAssumption DEF GetFreeSize
    <3> QED BY <2>1, <3>1, <3>2, <3>5
  <2> QED BY <1>1, <1>2, <2>1, <2>2, RingLeftAlone
<1> QED BY <1>3, <1>4, <1>5 DEF fdRead

LEMMA DispatchKeeps ==
  ASSUME DrawInv, dispatch
  PROVE  DrawInv'
<1>1. CASE Head(posted) = "READ" /\ fdRead(Tail(posted))
  BY <1>1, FdReadKeeps
<1>2. CASE ~(Head(posted) = "READ" /\ fdRead(Tail(posted)))
  <2>1. LET m == Head(posted)
            rest == Tail(posted)
        IN  \/ m = "CONNECT" /\ fdConnect(rest)
            \/ m = "CLOSE" /\ fdClose(rest)
            \/ m = "WRITE" /\ fdWrite(rest)
            \/ m = "DESTROY" /\ wmDestroy(rest)
            \/ m = "ERROR" /\ ignored(rest)
    BY <1>2, Zenon DEF dispatch
  <2> QED BY <2>1, QuietHandlersKeep
<1> QED BY <1>1, <1>2

-----------------------------------------------------------------------------
\* The rounds of readProc: the header in front of the ring is the next line's.
LEMMA HeaderIs ==
  ASSUME DrawInv, readQ.usedSize > 0
  PROVE  /\ Peek(readQ, 1)[1] =
              <<Len(drawn) + 1, IF Len(drawn) + 1 >= badLine THEN -1 ELSE 0>>
         /\ Healthy => Len(drawn) + 1 < badLine
<1>1. /\ RingOk(readQ) /\ readQ.usedSize \in Nat \ {0} /\ Len(drawn) \in Nat /\ badLine \in Nat
      /\ PacketSize \in Nat \ {0} /\ 1 \in 1..PacketSize
      /\ received \in 0..arrived /\ arrived \in Nat
      /\ wire \in {"connecting", "failed"} => arrived = 0
      /\ received = PacketSize * Len(drawn) + readQ.usedSize
  BY DrawAssumption, CountedRingAssumption, LenProperties DEF DrawInv, DrawTypes, RingOk, Aligned
<1>2. Peek(readQ, 1)[1] = Stored(readQ, 1)
  <2>1. 1 \in 0..readQ.usedSize /\ 1 \in 1..1
    BY <1>1
  <2> QED BY <1>1, <2>1, PeekShows
<1>3. Stored(readQ, 1) = UnitOf(badLine, PacketSize * Len(drawn) + 1)
  <2>1. 1 \in 1..readQ.usedSize
    BY <1>1
  <2> QED BY <2>1 DEF DrawInv, Aligned
<1>4. UnitOf(badLine, PacketSize * Len(drawn) + 1) =
        <<Len(drawn) + 1, IF 1 = 1 /\ Len(drawn) + 1 >= badLine THEN -1 ELSE 1 - 1>>
  BY <1>1, UnitOfLine
<1>5. ASSUME Healthy PROVE Len(drawn) + 1 < badLine
  <2>1. wire = "open"
    <3>1. PacketSize * Len(drawn) \in Nat
      BY <1>1, OneLineMore
    <3>2. received > 0
      BY <1>1, <3>1
    <3> QED BY <1>1, <1>5, <3>2 DEF Healthy
  <2>2. PacketSize * Len(drawn) + readQ.usedSize <= (badLine - 1) * PacketSize
    BY <1>1, <1>5, <2>1 DEF Healthy
  <2> QED BY <1>1, <2>2, LineIsGood
<1>6. 1 - 1 = 0
  OBVIOUS
<1> QED BY <1>2, <1>3, <1>4, <1>5, <1>6

\* A whole line in the ring is drawn as the next one.
LEMMA LineIsDrawn ==
  ASSUME DrawInv, readRound, readQ.usedSize >= PacketSize, Peek(readQ, 1)[1][2] = 0,
         readQ' = Dequeue(Dequeue(readQ, 1), PacketSize - 1),
         LET header == Peek(readQ, 1)[1]
             payload == [k \in 1..PacketSize - 1 |-> Peek(readQ, PacketSize)[k + 1]]
             whole == \A k \in DOMAIN payload : payload[k] = <<header[1], k>>
         IN  drawn' = Append(drawn, IF whole THEN header[1] ELSE 0)
  PROVE  RingOk(readQ') /\ Aligned' /\ LinesInOrder' /\ drawn' \in Seq(Int)
<1> DEFINE l == Len(drawn)
           header == Peek(readQ, 1)[1]
           payload == [k \in 1..PacketSize - 1 |-> Peek(readQ, PacketSize)[k + 1]]
           whole == \A k \in DOMAIN payload : payload[k] = <<header[1], k>>
           used == readQ.usedSize
           base == PacketSize * Len(drawn)
<1>1. /\ RingOk(readQ) /\ used \in Nat /\ l \in Nat /\ badLine \in Nat
      /\ PacketSize \in Nat /\ PacketSize >= 2 /\ used >= PacketSize
      /\ drawn \in Seq(Int)
  BY DrawAssumption, CountedRingAssumption, LenProperties DEF DrawInv, DrawTypes, RingOk
<1>2. /\ received = base + used /\ base \in Nat /\ PacketSize * (l + 1) = base + PacketSize
      /\ \A k \in 1..used : Stored(readQ, k) = UnitOf(badLine, base + k)
  BY <1>1, OneLineMore DEF DrawInv, Aligned
<1>3. header = <<l + 1, 0>> /\ ~(l + 1 >= badLine)
  <2>1. header = <<l + 1, IF l + 1 >= badLine THEN -1 ELSE 0>> /\ header[2] = 0
    BY <1>1, HeaderIs
  <2> HIDE DEF l, header
  <2>2. header[2] = IF l + 1 >= badLine THEN -1 ELSE 0
    BY <2>1
  <2> QED BY <2>1, <2>2
<1>4. whole
  <2> SUFFICES ASSUME NEW k \in 1..PacketSize - 1
               PROVE  Peek(readQ, PacketSize)[k + 1] = <<header[1], k>>
    BY Zenon
  <2>1. /\ k + 1 \in 1..PacketSize /\ k + 1 \in 1..used /\ PacketSize \in 0..used /\ k + 1 # 1
        /\ (k + 1) - 1 = k
    BY <1>1
  <2>2. Peek(readQ, PacketSize)[k + 1] = Stored(readQ, k + 1)
    BY <1>1, <2>1, PeekShows
  <2>3. Stored(readQ, k + 1) = UnitOf(badLine, PacketSize * l + (k + 1))
    BY <1>2, <2>1
  <2>4. UnitOf(badLine, PacketSize * l + (k + 1)) =
          <<l + 1, IF k + 1 = 1 /\ l + 1 >= badLine THEN -1 ELSE (k + 1) - 1>>
    BY <1>1, <2>1, UnitOfLine
  <2>5. Stored(readQ, k + 1) = <<l + 1, k>>
    BY <2>1, <2>3, <2>4
  <2>6. header[1] = l + 1
    BY <1>3
  <2> QED BY <2>2, <2>5, <2>6
<1>5. drawn' = Append(drawn, l + 1)
  <2>1. drawn' = Append(drawn, IF whole THEN header[1] ELSE 0)
    OBVIOUS
  <2>2. header[1] = l + 1
    BY <1>3
  <2> HIDE DEF whole, header
  <2> QED BY <1>4, <2>1, <2>2
<1> HIDE DEF header, payload, whole
<1>6. /\ drawn' \in Seq(Int) /\ Len(drawn') = l + 1 /\ drawn'[l + 1] = l + 1
      /\ \A i \in 1..l : drawn'[i] = drawn[i]
  <2>1. l + 1 \in Int
    BY <1>1
  <2> QED BY <1>1, <1>5, <2>1, AppendProperties
<1>7. /\ RingOk(Dequeue(readQ, 1)) /\ Dequeue(readQ, 1).usedSize = used - 1
      /\ \A k \in 1..used - 1 : Stored(Dequeue(readQ, 1), k) = Stored(readQ, 1 + k)
  <2>1. 1 \in 0..readQ.usedSize
    BY <1>1
  <2> QED BY <1>1, <2>1, DequeueLeaves
<1>8. /\ RingOk(readQ') /\ readQ'.usedSize = used - PacketSize
      /\ \A k \in 1..used - PacketSize : Stored(readQ', k) = UnitOf(badLine, base + PacketSize + k)
  <2> DEFINE q == Dequeue(readQ, 1)
             w == Dequeue(q, PacketSize - 1)
  <2>1. PacketSize - 1 \in 0..q.usedSize
    BY <1>1, <1>7
  <2>2. /\ RingOk(w) /\ w.usedSize = q.usedSize - (PacketSize - 1)
        /\ \A k \in 1..q.usedSize - (PacketSize - 1) : Stored(w, k) = Stored(q, (PacketSize - 1) + k)
    BY <1>7, <2>1, DequeueLeaves
  <2>3. readQ' = w
    OBVIOUS
  <2> HIDE DEF q, w
  <2>4. q.usedSize = used - 1 /\ \A k \in 1..used - 1 : Stored(q, k) = Stored(readQ, 1 + k)
    BY <1>7 DEF q
  <2> HIDE DEF used, base
  <2>5. (used - 1) - (PacketSize - 1) = used - PacketSize
    BY <1>1
  <2>6. ASSUME NEW k \in 1..used - PacketSize
        PROVE  Stored(w, k) = UnitOf(badLine, base + PacketSize + k)
    <3>1. /\ (PacketSize - 1) + k \in 1..used - 1 /\ 1 + ((PacketSize - 1) + k) = PacketSize + k
          /\ PacketSize + k \in 1..used /\ base + (PacketSize + k) = base + PacketSize + k
      <4>1. base \in Nat /\ used \in Nat /\ PacketSize \in Nat /\ PacketSize >= 2 /\ k \in 1..used - PacketSize
        BY <1>1, <1>2
      <4> QED BY <4>1
    <3>2. Stored(w, k) = Stored(q, (PacketSize - 1) + k)
      BY <2>2, <2>4, <2>5
    <3>3. Stored(q, (PacketSize - 1) + k) = Stored(readQ, PacketSize + k)
      BY <2>4, <3>1
    <3> QED BY <1>2, <3>1, <3>2, <3>3
  <2> QED BY <2>2, <2>3, <2>4, <2>5, <2>6
<1>9. received' = received /\ badLine' = badLine
  BY DEF readRound
<1>10. Aligned'
  <2>1. received' = PacketSize * Len(drawn') + readQ'.usedSize
    <3> HIDE DEF base, used, l
    <3>1. received' = (base + PacketSize) + (used - PacketSize)
      BY <1>1, <1>2, <1>9
    <3> QED BY <1>2, <1>6, <1>8, <3>1
  <2>2. \A k \in 1..readQ'.usedSize : Stored(readQ', k) = UnitOf(badLine', PacketSize * Len(drawn') + k)
    <3> HIDE DEF base, used, l
    <3> QED BY <1>2, <1>6, <1>8, <1>9
  <2> QED BY <2>1, <2>2 DEF Aligned
<1>11. LinesInOrder'
  <2>1. \A i \in 1..l + 1 : i \in 1..l \/ i = l + 1
    BY <1>1
  <2>2. \A i \in 1..l : drawn[i] = i
    BY DEF DrawInv, LinesInOrder
  <2> HIDE DEF l
  <2> QED BY <1>6, <2>1, <2>2 DEF LinesInOrder
<1> QED BY <1>6, <1>8, <1>10, <1>11

LEMMA ReadRoundKeeps ==
  ASSUME DrawInv, readRound
  PROVE  DrawInv'
<1> DEFINE used == readQ.usedSize
           header == Peek(readQ, 1)[1]
<1>1. /\ window = "reading" /\ UNCHANGED <<wire, badLine, arrived, received, readEnabled, blocked, closeTold,
                                          isConnected, isDrag, writeQ, sockOpen, hasty>>
  BY Zenon DEF readRound
<1>2. /\ used \in Nat /\ PacketSize \in Nat /\ PacketSize > 0 /\ posted \in Seq(Posting)
      /\ window \in {"running", "reading", "quitting", "ended"}
  BY DrawAssumption, CountedRingAssumption DEF DrawInv, DrawTypes, RingOk
<1>3. Healthy' => Healthy
  BY <1>1 DEF Healthy
<1>4. CASE /\ IF used = 0 THEN TRUE ELSE header[2] = 0 /\ used < PacketSize
           /\ window' = "running" /\ UNCHANGED <<posted, readQ, drawn>>
  <2>1. Aligned' /\ LinesInOrder'
    BY <1>1, <1>4, AlignedStays
  <2>2. DrawTypes'
    BY <1>1, <1>4, Zenon DEF DrawInv, DrawTypes
  <2>3. used < PacketSize
    BY <1>2, <1>4
  <2>4. Undisturbed'
    <3> HIDE DEF header
    <3> QED BY <1>1, <1>3, <1>4, <2>3 DEF DrawInv, Undisturbed
  <2> QED BY <2>1, <2>2, <2>4 DEF DrawInv
<1>5. CASE /\ used > 0 /\ header[2] # 0
           /\ window' = "running" /\ posted' = Append(posted, "DESTROY") /\ UNCHANGED <<readQ, drawn>>
  <2>1. Aligned' /\ LinesInOrder'
    BY <1>1, <1>5, AlignedStays
  <2>2. posted' \in Seq(Posting)
    BY <1>2, <1>5, PostedMore DEF Posting
  <2>3. DrawTypes'
    BY <1>1, <1>5, <2>2, Zenon DEF DrawInv, DrawTypes
  <2>4. ~Healthy
    <3> SUFFICES ASSUME Healthy PROVE FALSE
      OBVIOUS
    <3>1. /\ header = <<Len(drawn) + 1, IF Len(drawn) + 1 >= badLine THEN -1 ELSE 0>>
          /\ Len(drawn) + 1 < badLine
      BY <1>5, HeaderIs
    <3>2. Len(drawn) \in Nat /\ badLine \in Nat
      BY LenProperties DEF DrawInv, DrawTypes
    <3>3. ~(Len(drawn) + 1 >= badLine)
      BY <3>1, <3>2
    <3> HIDE DEF header
    <3>4. header[2] = 0
      BY <3>1, <3>3
    <3> QED BY <1>5, <3>4
  <2>5. Undisturbed'
    BY <1>3, <2>4 DEF Undisturbed
  <2> QED BY <2>1, <2>3, <2>5 DEF DrawInv
<1>6. CASE /\ used >= PacketSize /\ header[2] = 0
           /\ readQ' = Dequeue(Dequeue(readQ, 1), PacketSize - 1)
           /\ LET payload == [k \in 1..PacketSize - 1 |-> Peek(readQ, PacketSize)[k + 1]]
                  whole == \A k \in DOMAIN payload : payload[k] = <<header[1], k>>
              IN  drawn' = Append(drawn, IF whole THEN header[1] ELSE 0)
           /\ UNCHANGED <<posted, window>>
  <2>1. RingOk(readQ') /\ Aligned' /\ LinesInOrder' /\ drawn' \in Seq(Int)
    BY <1>6, LineIsDrawn
  <2>2. posted' = posted /\ window' = window
    BY <1>6
  <2>3. DrawTypes'
    BY <1>1, <2>1, <2>2, Zenon DEF DrawInv, DrawTypes
  <2>4. Undisturbed'
    <3> HIDE DEF header
    <3> QED BY <1>1, <1>3, <2>2 DEF DrawInv, Undisturbed
  <2> QED BY <2>1, <2>3, <2>4 DEF DrawInv
<1>7. GetUsedSize(readQ) = used
  BY DEF GetUsedSize
<1> QED BY <1>4, <1>5, <1>6, <1>7, Zenon DEF readRound, Post

-----------------------------------------------------------------------------
\* The end of the window, and the mouse.
LEMMA QuitsKeeps ==
  ASSUME DrawInv, quits \/ mouseButton
  PROVE  DrawInv'
<1>1. /\ UNCHANGED <<wire, badLine, arrived, received, posted, readEnabled, isConnected,
                     readQ, writeQ, sockOpen, drawn, hasty>>
      /\ window' = window \/ (window = "quitting" /\ window' = "ended")
  BY Zenon DEF quits, mouseButton
<1>2. Aligned' /\ LinesInOrder'
  BY <1>1, AlignedStays
<1>3. DrawTypes'
  BY <1>1, Zenon DEF DrawInv, DrawTypes
<1>4. Undisturbed'
  BY <1>1 DEF DrawInv, Undisturbed, Healthy
<1> QED BY <1>2, <1>3, <1>4 DEF DrawInv

\* A line drawn with the mouse fits into the empty queue, and is sent at once.
LEMMA MoveProcKeeps ==
  ASSUME DrawInv, moveProc
  PROVE  DrawInv'
<1> DEFINE s == <<<<0, 0>>>>
           header == Enqueue(writeQ, s)
           payload == [k \in 1..PacketSize - 1 |-> <<0, k>>]
           q == Enqueue(header, payload)
<1>1. /\ posted = <<>> /\ window = "running"
      /\ UNCHANGED <<wire, badLine, arrived, received, readEnabled, closeTold, isConnected, isDrag,
                     readQ, sockOpen, window, drawn>>
      /\ hasty' = (hasty \/ wire \in {"connecting", "failed"})
  BY Zenon DEF moveProc
<1>2. /\ RingOk(writeQ) /\ writeQ.usedSize = 0 /\ RING_SIZE \in Nat /\ RING_SIZE > 0
      /\ PacketSize \in 2..RING_SIZE /\ hasty \in BOOLEAN
  BY DrawAssumption, CountedRingAssumption DEF DrawInv, DrawTypes
<1>3. s \in Seq(Value) /\ Len(s) = 1
  BY DEF Value
<1>4. EnqueueSize(writeQ, 1) = 1 /\ 1 \in 1..RING_SIZE /\ 1 <= RING_SIZE - writeQ.usedSize
  BY <1>2 DEF EnqueueSize, GetFreeSize
<1>5. RingOk(header) /\ header.usedSize = 1
  <2> HIDE DEF s
  <2>1. RingOk(Enqueue(writeQ, s)) /\ Enqueue(writeQ, s).usedSize = writeQ.usedSize + 1
    BY <1>2, <1>3, <1>4, EnqueueStores, Zenon
  <2>2. 0 + 1 = 1
    OBVIOUS
  <2> QED BY <1>2, <2>1, <2>2
<1>6. payload \in Seq(Value) /\ Len(payload) = PacketSize - 1
  <2>1. payload \in [1..PacketSize - 1 -> Value]
    BY DEF Value
  <2>2. PacketSize - 1 \in Nat
    BY <1>2
  <2> QED BY <2>1, <2>2
<1> HIDE DEF s, header, payload
<1>7. /\ EnqueueSize(header, PacketSize - 1) = PacketSize - 1
      /\ PacketSize - 1 \in 1..RING_SIZE /\ PacketSize - 1 <= RING_SIZE - header.usedSize
  BY <1>2, <1>5 DEF EnqueueSize, GetFreeSize
<1>8. RingOk(q)
  BY <1>5, <1>6, <1>7, EnqueueStores
<1> HIDE DEF q
<1>9. writeProc(q, posted)
  BY <1>4, <1>7, Zenon DEF moveProc, q, header, payload, s
<1>10. RingOk(writeQ') /\ writeQ'.usedSize = 0
  BY <1>8, <1>9, AllIsDequeued DEF writeProc
<1>11. /\ posted' = posted \/ posted' = Append(posted, "DESTROY")
       /\ sockOpen /\ wire = "open" => posted' = posted
  BY <1>9 DEF writeProc
<1>12. posted' \in Seq(Posting)
  BY <1>1, <1>11, NothingPosted, PostedMore DEF Posting
<1>13. Aligned' /\ LinesInOrder'
  BY <1>1, AlignedStays
<1>14. hasty' \in BOOLEAN
  BY <1>1
<1>15. DrawTypes'
  BY <1>1, <1>10, <1>12, <1>14, Zenon DEF DrawInv, DrawTypes
<1>16. ASSUME Healthy' PROVE Healthy /\ posted' = posted
  <2>1. hasty = FALSE /\ wire = "open"
    BY <1>1, <1>2, <1>16 DEF Healthy
  <2>2. Healthy
    BY <1>1, <1>16, <2>1 DEF Healthy
  <2>3. sockOpen
    BY <2>2 DEF DrawInv, Undisturbed
  <2> QED BY <1>11, <2>1, <2>2, <2>3
<1>17. Undisturbed'
  BY <1>1, <1>16, Zenon DEF DrawInv, Undisturbed
<1> QED BY <1>13, <1>15, <1>17 DEF DrawInv

LEMMA DrawInvNext == DrawInv /\ [DrawNext]_drawVars => DrawInv'
<1> SUFFICES ASSUME DrawInv, [DrawNext]_drawVars PROVE DrawInv'
  OBVIOUS
<1>1. CASE connects
  BY <1>1, ConnectsKeeps
<1>2. CASE serverLeaves \/ tellsClose
  BY <1>2, EndsKeep
<1>3. CASE roomAgain
  BY <1>3, RoomAgainKeeps
<1>4. CASE \E n \in 1..MaxLines * PacketSize : arrives(n)
  BY <1>4, ArrivesKeeps
<1>5. CASE dispatch
  BY <1>5, DispatchKeeps
<1>6. CASE readRound
  BY <1>6, ReadRoundKeeps
<1>7. CASE quits \/ mouseButton
  BY <1>7, QuitsKeeps
<1>8. CASE moveProc
  BY <1>8, MoveProcKeeps
<1>9. CASE UNCHANGED drawVars
  <2> USE DEF drawVars
  <2>1. Aligned' /\ LinesInOrder'
    BY <1>9, AlignedStays
  <2>2. DrawTypes'
    BY <1>9, Zenon DEF DrawInv, DrawTypes
  <2>3. Undisturbed'
    BY <1>9 DEF DrawInv, Undisturbed, Healthy
  <2> QED BY <2>1, <2>2, <2>3 DEF DrawInv
<1> QED
  BY <1>1, <1>2, <1>3, <1>4, <1>5, <1>6, <1>7, <1>8, <1>9, Zenon DEF DrawNext

\* Whatever the sizes of the ring, the packets and the recvs, and wherever the
\* stream is cut: a window whose server is connected and sends whole lines is not
\* closed, and nothing is posted that would close it.
THEOREM HealthyWindowStays == DrawSpec => []KeptWhileHealthy
<1>1. DrawInv => KeptWhileHealthy
  <2> SUFFICES ASSUME DrawInv, wire = "open", received <= (badLine - 1) * PacketSize, ~hasty
               PROVE  /\ window \in {"running", "reading"}
                      /\ \A i \in DOMAIN posted : posted[i] # "DESTROY"
    BY DEF KeptWhileHealthy
  <2>1. Healthy
    BY DEF Healthy
  <2>2. window \in {"running", "reading"} /\ Calm(posted)
    BY <2>1 DEF DrawInv, Undisturbed
  <2>3. DOMAIN posted = 1..Len(posted)
    BY LenProperties DEF DrawInv, DrawTypes
  <2> QED BY <2>2, <2>3 DEF Calm
<1> QED BY <1>1, DrawInvInit, DrawInvNext, PTL DEF DrawSpec

\* The lines drawn are the server's, each once, in order and of its own bytes:
\* whether the connection lasts or not, nothing the recvs cut or the ring wraps is
\* ever drawn as part of another line.
THEOREM ServersLinesInOrder == DrawSpec => []LinesInOrder
<1>1. DrawInv => LinesInOrder
  BY DEF DrawInv
<1> QED BY <1>1, DrawInvInit, DrawInvNext, PTL DEF DrawSpec
=============================================================================
