-------------------------- MODULE EchoServersProofs --------------------------
(* The echo servers, each with any number of clients that send any number of   *)
(* bytes: their tables of sessions, and the order of what they send back.      *)
EXTENDS SelectServer, EventSelectServer, OverlappedServer, RoutineServer,
        SequenceTheorems, TLAPS

-----------------------------------------------------------------------------
(* A table of different entries, one of which is removed by moving the last    *)
(* one into its place.                                                         *)
IsTable(t) == \A i, j \in 1..Len(t) : t[i] = t[j] => i = j

Members(t) == {t[i] : i \in 1..Len(t)}

MovedInto(t, i) == SubSeq([t EXCEPT ![i] = t[Len(t)]], 1, Len(t) - 1)

LEMMA MovedIntoEntries ==
  ASSUME NEW S, NEW t \in Seq(S), NEW i \in 1..Len(t)
  PROVE  /\ MovedInto(t, i) \in Seq(S) /\ Len(MovedInto(t, i)) = Len(t) - 1
         /\ \A k \in 1..Len(t) - 1 : MovedInto(t, i)[k] = IF k = i THEN t[Len(t)] ELSE t[k]
<1> DEFINE moved == [t EXCEPT ![i] = t[Len(t)]]
<1>1. Len(t) \in Nat \ {0} /\ t[Len(t)] \in S
  OBVIOUS
<1>2. moved \in Seq(S) /\ Len(moved) = Len(t)
  BY <1>1
<1>3. \A k \in 1..Len(t) : moved[k] = IF k = i THEN t[Len(t)] ELSE t[k]
  OBVIOUS
<1> HIDE DEF moved
<1>4. /\ SubSeq(moved, 1, Len(t) - 1) \in Seq(S) /\ Len(SubSeq(moved, 1, Len(t) - 1)) = Len(t) - 1
      /\ \A k \in 1..Len(t) - 1 : SubSeq(moved, 1, Len(t) - 1)[k] = moved[k]
  BY <1>1, <1>2
<1> QED BY <1>1, <1>3, <1>4 DEF MovedInto, moved

LEMMA MovedIntoTable ==
  ASSUME NEW S, NEW t \in Seq(S), NEW i \in 1..Len(t), IsTable(t)
  PROVE  /\ MovedInto(t, i) \in Seq(S) /\ Len(MovedInto(t, i)) = Len(t) - 1
         /\ IsTable(MovedInto(t, i)) /\ Members(MovedInto(t, i)) = Members(t) \ {t[i]}
<1> DEFINE u == MovedInto(t, i)
           n == Len(t)
<1>1. /\ u \in Seq(S) /\ Len(u) = n - 1 /\ n \in Nat \ {0} /\ i \in 1..n
      /\ \A k \in 1..n - 1 : u[k] = IF k = i THEN t[n] ELSE t[k]
  BY MovedIntoEntries
<1>2. \A j, k \in 1..n : t[j] = t[k] => j = k
  BY DEF IsTable
<1> HIDE DEF u, n
<1>3. \A j, k \in 1..n - 1 : u[j] = u[k] => j = k
  BY <1>1, <1>2
<1>4. ASSUME NEW k \in 1..n - 1 PROVE \E j \in 1..n : u[k] = t[j] /\ t[j] # t[i]
  <2>1. CASE k = i
    BY <1>1, <1>2, <2>1
  <2>2. CASE k # i
    BY <1>1, <1>2, <2>2
  <2> QED BY <2>1, <2>2
<1>5. ASSUME NEW j \in 1..n, t[j] # t[i] PROVE \E k \in 1..n - 1 : u[k] = t[j]
  <2>1. CASE j = n
    <3>1. i # n /\ i \in 1..n - 1
      BY <1>1, <1>5, <2>1
    <3> QED BY <1>1, <2>1, <3>1
  <2>2. CASE j # n
    BY <1>1, <1>5, <2>2
  <2> QED BY <2>1, <2>2
<1>6. Members(u) = {u[k] : k \in 1..n - 1} /\ Members(t) = {t[k] : k \in 1..n}
  BY <1>1 DEF Members, n
<1>7. Members(u) = Members(t) \ {t[i]}
  <2>1. ASSUME NEW x \in Members(u) PROVE x \in Members(t) \ {t[i]}
    <3>1. PICK k \in 1..n - 1 : x = u[k]
      BY <1>6
    <3> QED BY <1>4, <1>6, <3>1
  <2>2. ASSUME NEW x \in Members(t) \ {t[i]} PROVE x \in Members(u)
    <3>1. PICK j \in 1..n : x = t[j]
      BY <1>6
    <3>2. \E k \in 1..n - 1 : u[k] = t[j]
      BY <1>5, <3>1
    <3> QED BY <1>6, <3>1, <3>2
  <2> QED BY <2>1, <2>2
<1>8. IsTable(u)
  BY <1>1, <1>3 DEF IsTable
<1> QED BY <1>1, <1>7, <1>8 DEF u, n

LEMMA AppendToTable ==
  ASSUME NEW S, NEW t \in Seq(S), NEW c \in S, IsTable(t), c \notin Members(t)
  PROVE  /\ Append(t, c) \in Seq(S) /\ Len(Append(t, c)) = Len(t) + 1
         /\ IsTable(Append(t, c)) /\ Members(Append(t, c)) = Members(t) \cup {c}
<1> DEFINE u == Append(t, c)
           n == Len(t)
<1>1. /\ u \in Seq(S) /\ Len(u) = n + 1 /\ n \in Nat
      /\ u[n + 1] = c /\ \A k \in 1..n : u[k] = t[k]
  BY AppendProperties
<1>2. \A j, k \in 1..n : t[j] = t[k] => j = k
  BY DEF IsTable
<1>3. \A k \in 1..n : t[k] # c
  BY DEF Members
<1> HIDE DEF u, n
<1>4. \A k \in 1..n + 1 : k = n + 1 \/ k \in 1..n
  BY <1>1
<1>5. \A j, k \in 1..n + 1 : u[j] = u[k] => j = k
  BY <1>1, <1>2, <1>3, <1>4
<1>6. Members(u) = Members(t) \cup {c}
  BY <1>1, <1>4 DEF Members, n
<1> QED BY <1>1, <1>5, <1>6 DEF u, n, IsTable

LEMMA TailOfTable ==
  ASSUME NEW S, NEW t \in Seq(S), t # <<>>, IsTable(t)
  PROVE  /\ Head(t) \in S /\ Head(t) \in Members(t) /\ Tail(t) \in Seq(S)
         /\ IsTable(Tail(t)) /\ Members(Tail(t)) = Members(t) \ {Head(t)}
<1> DEFINE u == Tail(t)
           n == Len(t)
<1>1. n \in Nat \ {0} /\ Head(t) = t[1] /\ Head(t) \in S
  OBVIOUS
<1>2. u \in Seq(S) /\ Len(u) = n - 1 /\ \A k \in 1..n - 1 : u[k] = t[k + 1]
  BY HeadTailProperties
<1>3. \A j, k \in 1..n : t[j] = t[k] => j = k
  BY DEF IsTable
<1> HIDE DEF u, n
<1>4. \A j, k \in 1..n - 1 : u[j] = u[k] => j = k
  BY <1>1, <1>2, <1>3
<1>5. \A k \in 1..n - 1 : k + 1 \in 1..n /\ u[k] = t[k + 1] /\ t[k + 1] # t[1]
  BY <1>1, <1>2, <1>3
<1>6. \A j \in 1..n : t[j] # t[1] => j - 1 \in 1..n - 1 /\ u[j - 1] = t[j]
  BY <1>1, <1>2
<1>7. Members(u) = Members(t) \ {Head(t)}
  BY <1>1, <1>2, <1>5, <1>6 DEF Members, n
<1>8. Head(t) \in Members(t)
  BY <1>1 DEF Members, n
<1> QED BY <1>1, <1>2, <1>4, <1>7, <1>8 DEF u, n, IsTable

-----------------------------------------------------------------------------
(* The clients: who waits to be accepted has no socket yet, and waits once.    *)
Crowd == /\ backlog \in Seq(Client) /\ IsTable(backlog)
         /\ conn \in [Client -> {"none", "open", "closed", "reset"}]
         /\ handle \in [Client -> {"none", "open", "closed"}]
         /\ \A c \in Members(backlog) : handle[c] = "none" /\ conn[c] # "none"
         /\ \A c \in Client : conn[c] = "none" => handle[c] = "none"

crowdVars == <<backlog, conn, handle>>

OpenOnes == {c \in Client : handle[c] = "open"}

LEMMA CrowdInit == ASSUME ClientsInit PROVE Crowd /\ OpenOnes = {} /\ Len(backlog) = 0
<1>1. /\ backlog = <<>> /\ conn = [c \in Client |-> "none"] /\ handle = [c \in Client |-> "none"]
  BY DEF ClientsInit
<1>2. backlog \in Seq(Client) /\ Len(backlog) = 0
  BY <1>1, EmptySeq
<1> QED BY <1>1, <1>2 DEF Crowd, IsTable, Members, OpenOnes

LEMMA CrowdSame ==
  ASSUME Crowd, UNCHANGED crowdVars PROVE Crowd' /\ OpenOnes' = OpenOnes
BY DEF Crowd, crowdVars, IsTable, Members, OpenOnes

LEMMA ClientsKeepCrowd ==
  ASSUME Crowd, ClientsNext
  PROVE  /\ Crowd' /\ OpenOnes' = OpenOnes /\ handle' = handle
         /\ backlog # <<>> => backlog' # <<>>
<1>1. handle' = handle
  BY DEF ClientsNext, Connect, ClientSend, ClientLeave
<1>2. ASSUME NEW c \in Client, Connect(c) PROVE Crowd' /\ backlog' # <<>>
  <2>1. /\ conn[c] = "none" /\ handle[c] = "none" /\ conn' = [conn EXCEPT ![c] = "open"]
        /\ backlog' = Append(backlog, c) /\ backlog \in Seq(Client) /\ c \notin Members(backlog)
        /\ IsTable(backlog)
    BY <1>2 DEF Connect, Crowd
  <2>2. /\ backlog' \in Seq(Client) /\ Len(backlog') = Len(backlog) + 1 /\ IsTable(backlog')
        /\ Members(backlog') = Members(backlog) \cup {c}
    BY <2>1, AppendToTable
  <2>3. backlog' # <<>>
    <3>1. Len(backlog) \in Nat /\ Len(<<>>) = 0
      BY <2>1
    <3>2. Len(backlog') # 0
      BY <2>2, <3>1
    <3> QED BY <3>1, <3>2
  <2>4. conn'[c] = "open" /\ (\A d \in Client : d # c => conn'[d] = conn[d])
        /\ conn' \in [Client -> {"none", "open", "closed", "reset"}]
    BY <2>1 DEF Crowd
  <2>5. \A d \in Members(backlog) : d \in Client
    BY <2>1 DEF Members
  <2> QED BY <1>1, <2>1, <2>2, <2>3, <2>4, <2>5 DEF Crowd
<1>3. ASSUME NEW c \in Client, ClientSend(c) PROVE Crowd' /\ backlog' = backlog
  BY <1>3, CrowdSame DEF ClientSend, crowdVars
<1>4. ASSUME NEW c \in Client, NEW how \in {"closed", "reset"}, ClientLeave(c, how)
      PROVE  Crowd' /\ backlog' = backlog
  <2>1. /\ conn[c] # "none" /\ conn' = [conn EXCEPT ![c] = how] /\ backlog' = backlog
    BY <1>4 DEF ClientLeave
  <2>2. /\ conn' \in [Client -> {"none", "open", "closed", "reset"}]
        /\ \A d \in Client : conn'[d] = "none" <=> conn[d] = "none"
    BY <2>1 DEF Crowd
  <2>3. \A d \in Members(backlog) : d \in Client
    BY DEF Members, Crowd
  <2>4. IsTable(backlog') /\ Members(backlog') = Members(backlog)
    BY <2>1 DEF Crowd
  <2> QED BY <1>1, <2>1, <2>2, <2>3, <2>4 DEF Crowd
<1>5. OpenOnes' = OpenOnes
  BY <1>1 DEF OpenOnes
<1> QED BY <1>1, <1>2, <1>3, <1>4, <1>5 DEF ClientsNext

LEMMA AcceptKeepsCrowd ==
  ASSUME Crowd, backlog # <<>>, backlog' = Tail(backlog), conn' = conn,
         NEW h \in {"none", "open", "closed"},
         handle' = [handle EXCEPT ![Head(backlog)] = h]
  PROVE  /\ Crowd' /\ Head(backlog) \in Client /\ handle[Head(backlog)] = "none"
         /\ OpenOnes' = IF h = "open" THEN OpenOnes \cup {Head(backlog)} ELSE OpenOnes
<1> DEFINE c == Head(backlog)
<1>1. /\ c \in Client /\ c \in Members(backlog) /\ backlog' \in Seq(Client)
      /\ IsTable(backlog') /\ Members(backlog') = Members(backlog) \ {c}
  BY TailOfTable DEF Crowd
<1>2. handle[c] = "none" /\ conn[c] # "none"
  BY <1>1 DEF Crowd
<1> HIDE DEF c
<1>3. handle' = [handle EXCEPT ![c] = h]
  BY DEF c
<1>4. handle' \in [Client -> {"none", "open", "closed"}]
      /\ handle'[c] = h /\ \A d \in Client : d # c => handle'[d] = handle[d]
  BY <1>1, <1>3 DEF Crowd
<1>5. \A d \in Members(backlog) : d \in Client
  BY DEF Members, Crowd
<1>6. Crowd'
  BY <1>1, <1>2, <1>4, <1>5 DEF Crowd
<1>7. OpenOnes' = IF h = "open" THEN OpenOnes \cup {c} ELSE OpenOnes
  BY <1>1, <1>2, <1>4 DEF OpenOnes
<1> QED BY <1>1, <1>2, <1>6, <1>7 DEF c

LEMMA CloseKeepsCrowd ==
  ASSUME Crowd, NEW c \in Client, handle[c] # "none", CloseSocket(c), UNCHANGED <<backlog, conn>>
  PROVE  Crowd' /\ OpenOnes' = OpenOnes \ {c}
<1>1. /\ handle' \in [Client -> {"none", "open", "closed"}]
      /\ handle'[c] = "closed" /\ \A d \in Client : d # c => handle'[d] = handle[d]
  BY DEF CloseSocket, Crowd
<1>2. \A d \in Members(backlog) : d \in Client
  BY DEF Members, Crowd
<1>3. IsTable(backlog') /\ Members(backlog') = Members(backlog)
  BY DEF Crowd
<1>4. Crowd'
  BY <1>1, <1>2, <1>3 DEF Crowd
<1>5. OpenOnes' = OpenOnes \ {c}
  BY <1>1 DEF OpenOnes
<1> QED BY <1>4, <1>5


-----------------------------------------------------------------------------
(* The bytes: what waits in a socket is the end of what its client has sent,   *)
(* so those that follow carry higher numbers than any taken before.           *)
Bytes == Client \X Nat

\* s is a stretch of c's bytes, the first of them number a + 1.
IsStretch(c, s, a) == s \in Seq(Bytes) /\ \A k \in 1..Len(s) : s[k] = <<c, a + k>>

\* Number of the last byte of c that has left the socket, one way or another.
Gone(c) == sent[c] - Len(inbox[c])

Traffic == /\ sent \in [Client -> Nat] /\ inbox \in [Client -> Seq(Bytes)]
           /\ \A c \in Client : Gone(c) \in Nat /\ IsStretch(c, inbox[c], Gone(c))

\* The sequence e holds bytes of c in their order, none beyond number a.
IsEchoUpTo(c, e, a) ==
  /\ e \in Seq(Bytes)
  /\ \A i \in 1..Len(e) : e[i][1] = c /\ e[i][2] \in 1..a
  /\ \A i, j \in 1..Len(e) : i < j => e[i][2] < e[j][2]

trafficVars == <<sent, inbox>>

LEMMA TrafficInit == ASSUME ClientsInit PROVE Traffic /\ echoed = [c \in Client |-> <<>>]
<1>1. /\ sent = [c \in Client |-> 0] /\ inbox = [c \in Client |-> <<>>]
      /\ echoed = [c \in Client |-> <<>>]
  BY DEF ClientsInit
<1>2. <<>> \in Seq(Bytes) /\ Len(<<>>) = 0
  BY EmptySeq
<1>3. ASSUME NEW c \in Client PROVE Gone(c) = 0 /\ IsStretch(c, inbox[c], Gone(c))
  <2>1. sent[c] = 0 /\ inbox[c] = <<>>
    BY <1>1
  <2>2. Gone(c) = 0
    <3>1. Len(inbox[c]) = 0
      BY <1>2, <2>1, Zenon
    <3>2. sent[c] = 0
      BY <2>1
    <3> QED BY <3>1, <3>2 DEF Gone
  <2>3. IsStretch(c, <<>>, 0)
    BY <1>2 DEF IsStretch
  <2> QED BY <2>1, <2>2, <2>3
<1>4. inbox \in [Client -> Seq(Bytes)]
  BY <1>1, <1>2
<1> QED BY <1>1, <1>3, <1>4 DEF Traffic

LEMMA TrafficSame ==
  ASSUME Traffic, UNCHANGED trafficVars
  PROVE  Traffic' /\ \A c \in Client : Gone(c)' = Gone(c)
BY DEF Traffic, trafficVars, Gone, IsStretch

LEMMA StretchGrows ==
  ASSUME NEW c \in Client, NEW s, NEW a \in Nat, IsStretch(c, s, a),
         NEW b \in Nat, b = a + Len(s) + 1
  PROVE  IsStretch(c, Append(s, <<c, b>>), a)
<1>1. s \in Seq(Bytes) /\ <<c, b>> \in Bytes /\ Len(s) \in Nat
  BY DEF IsStretch, Bytes
<1>2. /\ Append(s, <<c, b>>) \in Seq(Bytes) /\ Len(Append(s, <<c, b>>)) = Len(s) + 1
      /\ Append(s, <<c, b>>)[Len(s) + 1] = <<c, b>>
      /\ \A k \in 1..Len(s) : Append(s, <<c, b>>)[k] = s[k]
  BY <1>1, AppendProperties
<1>3. ASSUME NEW k \in 1..Len(s) + 1 PROVE Append(s, <<c, b>>)[k] = <<c, a + k>>
  <2>1. CASE k = Len(s) + 1
    BY <1>1, <1>2, <2>1
  <2>2. CASE k # Len(s) + 1
    <3>1. k \in 1..Len(s)
      BY <1>1, <2>2
    <3> QED BY <1>2, <3>1 DEF IsStretch
  <2> QED BY <2>1, <2>2
<1> QED BY <1>2, <1>3 DEF IsStretch

LEMMA StretchCut ==
  ASSUME NEW c, NEW s, NEW a \in Nat, IsStretch(c, s, a), NEW n \in 0..Len(s)
  PROVE  /\ IsStretch(c, SubSeq(s, 1, n), a) /\ Len(SubSeq(s, 1, n)) = n
         /\ IsStretch(c, SubSeq(s, n + 1, Len(s)), a + n)
         /\ Len(SubSeq(s, n + 1, Len(s))) = Len(s) - n
<1>1. s \in Seq(Bytes) /\ Len(s) \in Nat /\ \A k \in 1..Len(s) : s[k] = <<c, a + k>>
  BY DEF IsStretch
<1>2. /\ SubSeq(s, 1, n) \in Seq(Bytes) /\ Len(SubSeq(s, 1, n)) = n
      /\ \A k \in 1..n : SubSeq(s, 1, n)[k] = s[k]
  BY <1>1
<1>3. /\ SubSeq(s, n + 1, Len(s)) \in Seq(Bytes) /\ Len(SubSeq(s, n + 1, Len(s))) = Len(s) - n
      /\ \A k \in 1..Len(s) - n : SubSeq(s, n + 1, Len(s))[k] = s[n + k]
  BY <1>1
<1>4. \A k \in 1..n : SubSeq(s, 1, n)[k] = <<c, a + k>>
  BY <1>1, <1>2
<1>5. ASSUME NEW k \in 1..Len(s) - n PROVE SubSeq(s, n + 1, Len(s))[k] = <<c, a + n + k>>
  <2>1. n + k \in 1..Len(s) /\ a + (n + k) = a + n + k
    BY <1>1
  <2> QED BY <1>1, <1>3, <2>1
<1> QED BY <1>2, <1>3, <1>4, <1>5 DEF IsStretch

LEMMA EchoGrows ==
  ASSUME NEW c, NEW e, NEW a \in Nat, IsEchoUpTo(c, e, a),
         NEW s, NEW b \in Nat, a <= b, IsStretch(c, s, b)
  PROVE  IsEchoUpTo(c, e \o s, b + Len(s))
<1> DEFINE f == e \o s
           m == Len(e)
           n == Len(s)
<1>1. /\ e \in Seq(Bytes) /\ s \in Seq(Bytes) /\ m \in Nat /\ n \in Nat
      /\ \A i \in 1..m : e[i][1] = c /\ e[i][2] \in 1..a
      /\ \A i, j \in 1..m : i < j => e[i][2] < e[j][2]
      /\ \A k \in 1..n : s[k] = <<c, b + k>>
  BY DEF IsEchoUpTo, IsStretch
<1>2. /\ f \in Seq(Bytes) /\ Len(f) = m + n
      /\ \A i \in 1..m : f[i] = e[i]
      /\ \A i \in m + 1..m + n : f[i] = s[i - m]
  BY <1>1, ConcatProperties
<1> HIDE DEF f, m, n
<1>3. \A i \in m + 1..m + n : f[i][1] = c /\ f[i][2] = b + (i - m) /\ i - m \in 1..n
  BY <1>1, <1>2, SMTT(60)
<1>4. \A i \in 1..m : f[i][1] = c /\ f[i][2] \in 1..a
  BY <1>1, <1>2
<1>5. \A i \in 1..m + n : i \in 1..m \/ i \in m + 1..m + n
  BY <1>1
<1>6. \A i \in 1..m + n : f[i][1] = c /\ f[i][2] \in 1..b + n
  <2>1. ASSUME NEW i \in m + 1..m + n PROVE b + (i - m) \in 1..b + n
    BY <1>1
  <2>2. ASSUME NEW x \in 1..a PROVE x \in 1..b + n
    BY <1>1
  <2> QED BY <1>3, <1>4, <1>5, <2>1, <2>2
<1>7. ASSUME NEW i \in 1..m + n, NEW j \in 1..m + n, i < j PROVE f[i][2] < f[j][2]
  <2>1. CASE j \in 1..m
    <3>1. i \in 1..m
      BY <1>1, <1>7, <2>1
    <3> QED BY <1>1, <1>2, <1>7, <2>1, <3>1
  <2>2. CASE i \in 1..m /\ j \in m + 1..m + n
    <3>1. f[i][2] \in 1..a /\ f[j][2] = b + (j - m) /\ j - m \in 1..n
      BY <1>3, <1>4, <2>2
    <3> QED BY <1>1, <3>1, SMTT(60)
  <2>3. CASE i \in m + 1..m + n /\ j \in m + 1..m + n
    <3>1. f[i][2] = b + (i - m) /\ f[j][2] = b + (j - m)
      BY <1>3, <2>3
    <3> QED BY <1>1, <1>7, <2>3, <3>1
  <2>4. j \in m + 1..m + n \/ j \in 1..m
    BY <1>5
  <2> QED BY <1>5, <2>1, <2>2, <2>3, <2>4
<1> QED BY <1>2, <1>6, <1>7 DEF IsEchoUpTo, f, n

LEMMA EchoWidens ==
  ASSUME NEW c, NEW e, NEW a \in Nat, NEW b \in Nat, a <= b, IsEchoUpTo(c, e, a)
  PROVE  IsEchoUpTo(c, e, b)
BY DEF IsEchoUpTo

LEMMA NothingIsAnEcho == ASSUME NEW c, NEW a \in Nat PROVE IsEchoUpTo(c, <<>>, a)
<1>1. <<>> \in Seq(Bytes) /\ Len(<<>>) = 0
  BY EmptySeq
<1> QED BY <1>1 DEF IsEchoUpTo

LEMMA EchoIsInOrder ==
  ASSUME NEW c \in Client, NEW a \in Nat, sent[c] \in Nat, a <= sent[c],
         IsEchoUpTo(c, echoed[c], a)
  PROVE  InOrder(c)
<1>1. IsEchoUpTo(c, echoed[c], sent[c])
  BY EchoWidens
<1>2. DOMAIN echoed[c] = 1..Len(echoed[c])
  BY <1>1 DEF IsEchoUpTo
<1> QED BY <1>1, <1>2 DEF IsEchoUpTo, InOrder

\* What has been echoed of every client.
Echoes == /\ echoed \in [Client -> Seq(Bytes)]
          /\ \A c \in Client : IsEchoUpTo(c, echoed[c], Gone(c))

LEMMA EchoesInOrder == ASSUME Traffic, Echoes PROVE \A c \in Client : InOrder(c)
<1> SUFFICES ASSUME NEW c \in Client PROVE InOrder(c)
  OBVIOUS
<1>1. sent[c] \in Nat /\ Gone(c) \in Nat /\ Len(inbox[c]) \in Nat
  BY DEF Traffic
<1>2. Gone(c) <= sent[c]
  BY <1>1 DEF Gone
<1> QED BY <1>1, <1>2, EchoIsInOrder DEF Echoes

LEMMA EchoesInit == ASSUME ClientsInit PROVE Traffic /\ Echoes
<1>1. Traffic /\ echoed = [c \in Client |-> <<>>] /\ <<>> \in Seq(Bytes)
  BY TrafficInit, EmptySeq
<1>2. ASSUME NEW c \in Client PROVE IsEchoUpTo(c, echoed[c], Gone(c))
  BY <1>1, NothingIsAnEcho DEF Traffic
<1> QED BY <1>1, <1>2 DEF Echoes

LEMMA EchoesSame ==
  ASSUME Traffic, Echoes, Traffic', \A c \in Client : Gone(c) <= Gone(c)', echoed' = echoed
  PROVE  Echoes'
<1>1. ASSUME NEW c \in Client PROVE IsEchoUpTo(c, echoed'[c], Gone(c)')
  <2>1. Gone(c) \in Nat /\ Gone(c)' \in Nat /\ Gone(c) <= Gone(c)'
    BY DEF Traffic
  <2> QED BY <2>1, EchoWidens DEF Echoes
<1>2. \A c \in Client : IsEchoUpTo(c, echoed[c], Gone(c))'
  BY <1>1 DEF IsEchoUpTo
<1> QED BY <1>2 DEF Echoes

LEMMA ClientsKeepTraffic ==
  ASSUME Traffic, ClientsNext
  PROVE  /\ Traffic' /\ echoed' = echoed
         /\ \A c \in Client : Gone(c) <= Gone(c)' /\ sent[c] <= sent'[c]
<1>1. ASSUME NEW c \in Client, ClientSend(c)
      PROVE  Traffic' /\ \A d \in Client : Gone(d) <= Gone(d)' /\ sent[d] <= sent'[d]
  <2>1. /\ sent \in [Client -> Nat] /\ inbox \in [Client -> Seq(Bytes)]
        /\ sent' = [sent EXCEPT ![c] = @ + 1]
        /\ inbox' = [inbox EXCEPT ![c] = Append(@, <<c, sent[c] + 1>>)]
    BY <1>1 DEF ClientSend, Traffic
  <2>2. /\ sent[c] \in Nat /\ inbox[c] \in Seq(Bytes) /\ Len(inbox[c]) \in Nat
        /\ <<c, sent[c] + 1>> \in Bytes
    BY <2>1 DEF Bytes
  <2>3. /\ sent' \in [Client -> Nat] /\ sent'[c] = sent[c] + 1
        /\ inbox' \in [Client -> Seq(Bytes)] /\ inbox'[c] = Append(inbox[c], <<c, sent[c] + 1>>)
        /\ Len(inbox'[c]) = Len(inbox[c]) + 1
    BY <2>1, <2>2, AppendProperties
  <2>4. Gone(c)' = Gone(c) /\ Gone(c) \in Nat /\ sent[c] + 1 = Gone(c) + Len(inbox[c]) + 1
    BY <2>2, <2>3 DEF Gone, Traffic
  <2>5. IsStretch(c, inbox'[c], Gone(c)')
    BY <2>2, <2>3, <2>4, StretchGrows DEF Traffic
  <2>6. \A d \in Client : d # c => inbox'[d] = inbox[d] /\ sent'[d] = sent[d]
    BY <2>1
  <2>7. ASSUME NEW d \in Client, d # c
        PROVE  Gone(d)' = Gone(d) /\ Gone(d) \in Nat /\ IsStretch(d, inbox'[d], Gone(d)')
    BY <2>6, <2>7 DEF Gone, Traffic
  <2>8. \A d \in Client : Gone(d)' = Gone(d) /\ Gone(d) \in Nat /\ IsStretch(d, inbox'[d], Gone(d)')
    BY <2>4, <2>5, <2>7
  <2>9. \A d \in Client : sent[d] <= sent'[d]
    BY <2>1, <2>3, <2>6
  <2>10. Traffic'
    BY <2>3, <2>8 DEF Traffic, IsStretch
  <2> QED BY <2>8, <2>9, <2>10
<1>2. ASSUME NEW c \in Client, ClientLeave(c, "reset")
      PROVE  Traffic' /\ \A d \in Client : Gone(d) <= Gone(d)' /\ sent[d] <= sent'[d]
  <2>1. /\ sent \in [Client -> Nat] /\ inbox \in [Client -> Seq(Bytes)] /\ sent' = sent
        /\ inbox' = [inbox EXCEPT ![c] = <<>>] /\ <<>> \in Seq(Bytes) /\ Len(<<>>) = 0
    BY <1>2, EmptySeq DEF ClientLeave, Traffic
  <2>2. inbox' \in [Client -> Seq(Bytes)] /\ Len(inbox'[c]) = 0 /\ sent[c] \in Nat
        /\ Len(inbox[c]) \in Nat
    BY <2>1
  <2>3. Gone(c)' = sent[c] /\ Gone(c)' \in Nat /\ Gone(c) <= Gone(c)' /\ IsStretch(c, inbox'[c], Gone(c)')
    BY <2>1, <2>2 DEF Gone, IsStretch
  <2>4. ASSUME NEW d \in Client, d # c
        PROVE  Gone(d)' = Gone(d) /\ Gone(d) \in Nat /\ IsStretch(d, inbox'[d], Gone(d)')
    BY <2>1, <2>4 DEF Gone, Traffic
  <2>5. \A d \in Client : Gone(d) <= Gone(d)' /\ Gone(d)' \in Nat /\ IsStretch(d, inbox'[d], Gone(d)')
    BY <2>3, <2>4
  <2>6. Traffic'
    BY <2>1, <2>2, <2>5 DEF Traffic, IsStretch
  <2> QED BY <2>1, <2>5, <2>6
<1>3. ASSUME UNCHANGED trafficVars
      PROVE  Traffic' /\ \A d \in Client : Gone(d) <= Gone(d)' /\ sent[d] <= sent'[d]
  <2>1. Traffic' /\ \A d \in Client : Gone(d)' = Gone(d)
    BY <1>3, TrafficSame
  <2> QED BY <1>3, <2>1 DEF Traffic, trafficVars
<1>4. ASSUME NEW c \in Client, Connect(c) \/ ClientLeave(c, "closed") PROVE UNCHANGED trafficVars
  <2>1. CASE Connect(c)
    BY <2>1 DEF Connect, trafficVars
  <2>2. CASE ClientLeave(c, "closed")
    BY <2>2 DEF ClientLeave, trafficVars, Traffic
  <2> QED BY <1>4, <2>1, <2>2
<1>5. echoed' = echoed
  BY DEF ClientsNext, Connect, ClientSend, ClientLeave
<1> QED BY <1>1, <1>2, <1>3, <1>4, <1>5 DEF ClientsNext

\* What recv reports is in the socket; taking it leaves the rest.  On a socket
\* the server has closed it fails.
LEMMA TakeKeepsTraffic ==
  ASSUME Traffic, NEW c \in Client, NEW n \in RecvResults(c) \cup {-1}, TakeFromInbox(c, n), sent' = sent
  PROVE  /\ Traffic' /\ n \in Int
         /\ n > 0 => /\ n \in 1..Len(inbox[c]) /\ Gone(c)' = Gone(c) + n /\ n <= BUFSIZE
         /\ \A d \in Client : Gone(d) <= Gone(d)'
<1>1. /\ sent \in [Client -> Nat] /\ inbox \in [Client -> Seq(Bytes)]
      /\ Gone(c) \in Nat /\ IsStretch(c, inbox[c], Gone(c)) /\ Len(inbox[c]) \in Nat
  BY DEF Traffic
<1>2. n \in Int /\ (n > 0 => n \in 1..Len(inbox[c]) /\ n <= BUFSIZE)
  BY <1>1, ClientsAssumption DEF RecvResults
<1>3. CASE n > 0
  <2>1. /\ inbox' = [inbox EXCEPT ![c] = SubSeq(inbox[c], n + 1, Len(inbox[c]))] /\ n \in 0..Len(inbox[c])
    BY <1>1, <1>2, <1>3 DEF TakeFromInbox
  <2>2. /\ IsStretch(c, SubSeq(inbox[c], n + 1, Len(inbox[c])), Gone(c) + n)
        /\ Len(SubSeq(inbox[c], n + 1, Len(inbox[c]))) = Len(inbox[c]) - n
    BY <1>1, <2>1, StretchCut
  <2>3. /\ inbox' \in [Client -> Seq(Bytes)]
        /\ inbox'[c] = SubSeq(inbox[c], n + 1, Len(inbox[c]))
        /\ \A d \in Client : d # c => inbox'[d] = inbox[d]
    BY <1>1, <2>1, <2>2 DEF IsStretch
  <2>4. Gone(c)' = Gone(c) + n
    BY <1>1, <2>1, <2>2, <2>3 DEF Gone
  <2>5. Gone(c)' \in Nat /\ Gone(c) <= Gone(c)' /\ IsStretch(c, inbox'[c], Gone(c)')
    BY <1>1, <2>1, <2>2, <2>3, <2>4
  <2>6. ASSUME NEW d \in Client, d # c
        PROVE  Gone(d)' = Gone(d) /\ Gone(d) \in Nat /\ IsStretch(d, inbox'[d], Gone(d)')
    BY <2>3, <2>6 DEF Gone, Traffic
  <2>7. \A d \in Client : Gone(d) <= Gone(d)' /\ Gone(d)' \in Nat /\ IsStretch(d, inbox'[d], Gone(d)')
    BY <2>5, <2>6
  <2>8. Traffic'
    BY <1>1, <2>3, <2>7 DEF Traffic, IsStretch
  <2> QED BY <1>2, <2>4, <2>7, <2>8
<1>4. CASE ~(n > 0)
  <2>1. UNCHANGED trafficVars
    BY <1>1, <1>4 DEF TakeFromInbox, trafficVars
  <2>2. Traffic' /\ \A d \in Client : Gone(d)' = Gone(d)
    BY <2>1, TrafficSame
  <2> QED BY <1>2, <1>4, <2>2 DEF Traffic
<1> QED BY <1>3, <1>4


-----------------------------------------------------------------------------
(* The select server.                                                         *)
Entry == [sock : Client, buf : Seq(Bytes), recvBytes : Nat, sendBytes : Nat]

SocksOf(t) == [i \in 1..Len(t) |-> t[i].sock]

Socks == SocksOf(socketInfo)

\* The walk's table and the sockets outside it are all that is open, and a pass
\* goes to accept only if somebody waits.
SelectTable ==
  /\ socketInfo \in Seq(Entry) /\ IsTable(Socks)
  /\ at \in Nat \ {0} /\ turnedAway \subseteq Client
  /\ Members(Socks) \cap turnedAway = {} /\ Members(Socks) \cup turnedAway = OpenOnes
  /\ selectPc = "accept" => backlog # <<>>

SelectInv == Crowd /\ SelectTable

LEMMA SocksOfEntries ==
  ASSUME NEW t \in Seq(Entry)
  PROVE  /\ SocksOf(t) \in Seq(Client) /\ Len(SocksOf(t)) = Len(t) /\ Len(t) \in Nat
         /\ \A i \in 1..Len(t) : SocksOf(t)[i] = t[i].sock /\ t[i] \in Entry
<1>1. Len(t) \in Nat /\ \A i \in 1..Len(t) : t[i] \in Entry
  OBVIOUS
<1>2. \A i \in 1..Len(t) : t[i].sock \in Client
  BY <1>1 DEF Entry
<1> QED BY <1>1, <1>2 DEF SocksOf

LEMMA SocksOfMoved ==
  ASSUME NEW t \in Seq(Entry), NEW i \in 1..Len(t)
  PROVE  SocksOf(MovedInto(t, i)) = MovedInto(SocksOf(t), i)
<1> DEFINE n == Len(t)
           w == SocksOf(t)
           u == MovedInto(t, i)
           v == MovedInto(w, i)
<1>1. /\ w \in Seq(Client) /\ Len(w) = n /\ n \in Nat /\ i \in 1..n
      /\ \A k \in 1..n : w[k] = t[k].sock
  BY SocksOfEntries
<1>2. /\ u \in Seq(Entry) /\ Len(u) = n - 1
      /\ \A k \in 1..n - 1 : u[k] = IF k = i THEN t[n] ELSE t[k]
  BY MovedIntoEntries
<1>3. /\ SocksOf(u) \in Seq(Client) /\ Len(SocksOf(u)) = n - 1
      /\ \A k \in 1..n - 1 : SocksOf(u)[k] = u[k].sock
  BY <1>2, SocksOfEntries
<1> HIDE DEF n, u, w
<1>4. /\ v \in Seq(Client) /\ Len(v) = n - 1
      /\ \A k \in 1..n - 1 : v[k] = IF k = i THEN w[n] ELSE w[k]
  BY <1>1, MovedIntoEntries, ZenonT(60)
<1> HIDE DEF v
<1>5. ASSUME NEW k \in 1..n - 1 PROVE SocksOf(u)[k] = v[k]
  <2>1. k \in 1..n /\ n \in 1..n
    BY <1>1
  <2>2. CASE k = i
    BY <1>1, <1>2, <1>3, <1>4, <2>1, <2>2
  <2>3. CASE k # i
    BY <1>1, <1>2, <1>3, <1>4, <2>1, <2>3
  <2> QED BY <2>2, <2>3
<1>6. SocksOf(u) = v
  BY <1>3, <1>4, <1>5, SeqEqual
<1> QED BY <1>6 DEF u, v, w

LEMMA SocksOfAppended ==
  ASSUME NEW t \in Seq(Entry), NEW e \in Entry
  PROVE  Append(t, e) \in Seq(Entry) /\ SocksOf(Append(t, e)) = Append(SocksOf(t), e.sock)
<1> DEFINE n == Len(t)
           u == Append(t, e)
           v == Append(SocksOf(t), e.sock)
<1>1. /\ SocksOf(t) \in Seq(Client) /\ Len(SocksOf(t)) = n /\ n \in Nat
      /\ \A k \in 1..n : SocksOf(t)[k] = t[k].sock
  BY SocksOfEntries
<1>2. /\ u \in Seq(Entry) /\ Len(u) = n + 1 /\ u[n + 1] = e
      /\ \A k \in 1..n : u[k] = t[k]
  BY AppendProperties
<1>3. e.sock \in Client
  BY DEF Entry
<1>4. /\ v \in Seq(Client) /\ Len(v) = n + 1 /\ v[n + 1] = e.sock
      /\ \A k \in 1..n : v[k] = SocksOf(t)[k]
  BY <1>1, <1>3, AppendProperties
<1>5. /\ SocksOf(u) \in Seq(Client) /\ Len(SocksOf(u)) = n + 1
      /\ \A k \in 1..n + 1 : SocksOf(u)[k] = u[k].sock
  BY <1>2, SocksOfEntries
<1> HIDE DEF n, u, v
<1>6. \A k \in 1..n + 1 : k = n + 1 \/ k \in 1..n
  BY <1>1
<1>7. \A k \in 1..n + 1 : SocksOf(u)[k] = v[k]
  BY <1>1, <1>2, <1>4, <1>5, <1>6
<1>8. SocksOf(u) = v
  BY <1>4, <1>5, <1>7, SeqEqual
<1> QED BY <1>2, <1>8 DEF u, v

LEMMA SocksNow ==
  ASSUME socketInfo \in Seq(Entry)
  PROVE  /\ Socks \in Seq(Client) /\ Len(Socks) = Len(socketInfo) /\ Len(socketInfo) \in Nat
         /\ \A i \in 1..Len(socketInfo) : Socks[i] = socketInfo[i].sock
         /\ Members(Socks) = {e.sock : e \in Entries}
<1>1. /\ Socks \in Seq(Client) /\ Len(Socks) = Len(socketInfo) /\ Len(socketInfo) \in Nat
      /\ \A i \in 1..Len(socketInfo) : Socks[i] = socketInfo[i].sock
  BY SocksOfEntries DEF Socks
<1>2. DOMAIN socketInfo = 1..Len(socketInfo)
  OBVIOUS
<1>3. Members(Socks) = {e.sock : e \in Entries}
  BY <1>1, <1>2 DEF Members, Entries
<1> QED BY <1>1, <1>3

LEMMA SelectTableShown == SelectInv => SocketsAreInTable
<1> SUFFICES ASSUME SelectInv PROVE SocketsAreInTable
  OBVIOUS
<1>1. /\ Len(Socks) = Len(socketInfo) /\ Members(Socks) = {e.sock : e \in Entries}
      /\ \A i \in 1..Len(socketInfo) : Socks[i] = socketInfo[i].sock
      /\ DOMAIN socketInfo = 1..Len(socketInfo)
  BY SocksNow DEF SelectInv, SelectTable
<1>2. \A i, j \in DOMAIN socketInfo : socketInfo[i].sock = socketInfo[j].sock => i = j
  BY <1>1 DEF SelectInv, SelectTable, IsTable
<1> QED BY <1>1, <1>2 DEF SelectInv, SelectTable, SocketsAreInTable, OpenOnes

LEMMA SelectInvInit == ClientsInit /\ SelectInit => SelectInv
<1> SUFFICES ASSUME ClientsInit, SelectInit PROVE SelectInv
  OBVIOUS
<1>1. Crowd /\ OpenOnes = {}
  BY CrowdInit
<1>2. /\ socketInfo = <<>> /\ turnedAway = {} /\ at = 1 /\ selectPc = "select"
  BY DEF SelectInit
<1>3. socketInfo \in Seq(Entry) /\ Len(socketInfo) = 0
  BY <1>2, EmptySeq
<1>4. Len(Socks) = 0
  BY <1>3, SocksNow
<1>5. IsTable(Socks) /\ Members(Socks) = {}
  BY <1>4 DEF IsTable, Members
<1> QED BY <1>1, <1>2, <1>3, <1>5 DEF SelectInv, SelectTable

\* An entry changes, its socket does not.
LEMMA SameSocks ==
  ASSUME SelectInv, NEW i \in 1..Len(socketInfo), NEW e \in Entry, e.sock = socketInfo[i].sock,
         socketInfo' = [socketInfo EXCEPT ![i] = e]
  PROVE  socketInfo' \in Seq(Entry) /\ Socks' = Socks
<1>1. socketInfo \in Seq(Entry) /\ Len(socketInfo) \in Nat
  BY DEF SelectInv, SelectTable
<1>2. socketInfo' \in Seq(Entry) /\ Len(socketInfo') = Len(socketInfo)
  BY <1>1
<1>3. \A k \in 1..Len(socketInfo) : socketInfo'[k].sock = socketInfo[k].sock
  BY <1>1
<1> QED BY <1>2, <1>3 DEF Socks, SocksOf

LEMMA RemovedSocks ==
  ASSUME SelectInv, NEW i \in 1..Len(socketInfo), RemoveSocketInfo(i),
         UNCHANGED <<backlog, conn, turnedAway>>, at' \in Nat \ {0}, selectPc' = selectPc
  PROVE  SelectInv'
<1> DEFINE c == socketInfo[i].sock
<1>1. /\ socketInfo \in Seq(Entry) /\ Len(socketInfo) \in Nat \ {0} /\ Len(Socks) = Len(socketInfo)
      /\ Socks \in Seq(Client) /\ \A k \in 1..Len(socketInfo) : Socks[k] = socketInfo[k].sock
  BY SocksNow DEF SelectInv, SelectTable
<1>2. c \in Members(Socks) /\ c \in Client /\ c = Socks[i]
  BY <1>1 DEF Members
<1>3. handle[c] = "open"
  BY <1>2 DEF SelectInv, SelectTable, OpenOnes
<1>4. CloseSocket(c) /\ socketInfo' = MovedInto(socketInfo, i)
  BY DEF RemoveSocketInfo, MovedInto
<1>5. Crowd' /\ OpenOnes' = OpenOnes \ {c}
  BY <1>2, <1>3, <1>4, CloseKeepsCrowd DEF SelectInv
<1>6. socketInfo' \in Seq(Entry)
  BY <1>1, <1>4, MovedIntoEntries
<1>7. Socks' = MovedInto(Socks, i)
  BY <1>1, <1>4, SocksOfMoved DEF Socks
<1>8. IsTable(Socks') /\ Members(Socks') = Members(Socks) \ {c}
  <2>1. IsTable(Socks)
    BY DEF SelectInv, SelectTable
  <2> QED BY <1>1, <1>2, <1>7, <2>1, MovedIntoTable
<1>9. SelectTable'
  BY <1>2, <1>5, <1>6, <1>8 DEF SelectInv, SelectTable
<1> QED BY <1>5, <1>9 DEF SelectInv

LEMMA SelectSame ==
  ASSUME SelectInv, UNCHANGED crowdVars, UNCHANGED <<socketInfo, turnedAway>>, at' \in Nat \ {0},
         selectPc' = "accept" => backlog # <<>>
  PROVE  SelectInv'
<1>1. Crowd' /\ OpenOnes' = OpenOnes
  BY CrowdSame DEF SelectInv
<1>2. Socks' = Socks /\ backlog' = backlog
  BY DEF Socks, crowdVars
<1> QED BY <1>1, <1>2 DEF SelectInv, SelectTable

LEMMA SelectAccepts == ASSUME SelectInv, acceptCall PROVE SelectInv'
<1> DEFINE c == Head(backlog)
           e == [sock |-> c, buf |-> <<>>, recvBytes |-> 0, sendBytes |-> 0]
<1>1. /\ backlog # <<>> /\ backlog' = Tail(backlog) /\ conn' = conn /\ Crowd
      /\ handle' = [handle EXCEPT ![c] = "open"] /\ at' = at /\ selectPc' = "walk"
  BY DEF acceptCall, AcceptNext, SelectInv, SelectTable
<1>2. Crowd' /\ c \in Client /\ handle[c] = "none" /\ OpenOnes' = OpenOnes \cup {c}
  BY <1>1, AcceptKeepsCrowd
<1>3. /\ socketInfo \in Seq(Entry) /\ Socks \in Seq(Client) /\ Len(Socks) = Len(socketInfo)
      /\ Len(socketInfo) \in Nat /\ \A k \in 1..Len(socketInfo) : Socks[k] = socketInfo[k].sock
  BY SocksNow DEF SelectInv, SelectTable
<1>4. c \notin Members(Socks) /\ c \notin turnedAway
  BY <1>2 DEF SelectInv, SelectTable, OpenOnes
<1>5. CASE turnedAway' = turnedAway \cup {c} /\ socketInfo' = socketInfo
  <2>1. Socks' = Socks
    BY <1>5 DEF Socks
  <2> QED BY <1>1, <1>2, <1>4, <1>5, <2>1 DEF SelectInv, SelectTable
<1>6. CASE socketInfo' = Append(socketInfo, e) /\ turnedAway' = turnedAway
  <2>1. e \in Entry
    BY <1>2, EmptySeq DEF Entry
  <2> HIDE DEF e
  <2>2. e.sock = c
    BY DEF e
  <2>3. socketInfo' \in Seq(Entry) /\ Socks' = Append(Socks, c)
    BY <1>3, <1>6, <2>1, <2>2, SocksOfAppended DEF Socks
  <2>4. IsTable(Socks') /\ Members(Socks') = Members(Socks) \cup {c}
    <3>1. IsTable(Socks)
      BY DEF SelectInv, SelectTable
    <3> QED BY <1>2, <1>3, <1>4, <2>3, <3>1, AppendToTable
  <2> QED BY <1>1, <1>2, <1>4, <1>6, <2>3, <2>4 DEF SelectInv, SelectTable
<1> QED BY <1>5, <1>6 DEF acceptCall, AddSocketInfo

LEMMA SelectReceives ==
  ASSUME SelectInv, Traffic, NEW c \in Client, NEW n \in -1..BUFSIZE, recvCall(c, n)
  PROVE  SelectInv'
<1>1. /\ at \in 1..Len(socketInfo) /\ socketInfo[at].sock = c /\ at' \in Nat \ {0}
      /\ n \in RecvResults(c) /\ selectPc' = selectPc /\ UNCHANGED <<backlog, conn, turnedAway>>
      /\ socketInfo \in Seq(Entry) /\ socketInfo[at] \in Entry
  BY DEF recvCall, InTurn, SelectInv, SelectTable
<1>2. CASE RemoveSocketInfo(at)
  BY <1>1, <1>2, RemovedSocks
<1>3. CASE ~Ends(n) /\ handle' = handle
           /\ socketInfo' = [socketInfo EXCEPT ![at].recvBytes = n, ![at].buf = SubSeq(inbox[c], 1, n)]
  <2> DEFINE e == [socketInfo[at] EXCEPT !.recvBytes = n, !.buf = SubSeq(inbox[c], 1, n)]
  <2>1. n \in Nat /\ SubSeq(inbox[c], 1, n) \in Seq(Bytes)
    <3>1. inbox[c] \in Seq(Bytes) /\ n > 0 /\ n \in Int
      BY <1>1, <1>3, ClientsAssumption DEF Traffic, Ends
    <3>2. n \in 1..Len(inbox[c])
      BY <1>1, <3>1, ClientsAssumption DEF RecvResults
    <3> QED BY <3>1, <3>2
  <2>2. e \in Entry /\ e.sock = socketInfo[at].sock
    BY <1>1, <2>1 DEF Entry
  <2>3. socketInfo' = [socketInfo EXCEPT ![at] = e]
    BY <1>1, <1>3
  <2> HIDE DEF e
  <2>4. socketInfo' \in Seq(Entry) /\ Socks' = Socks
    BY <1>1, <2>2, <2>3, SameSocks
  <2>5. Crowd' /\ OpenOnes' = OpenOnes
    BY <1>1, <1>3, CrowdSame DEF SelectInv, crowdVars
  <2> QED BY <1>1, <2>4, <2>5 DEF SelectInv, SelectTable
<1> QED BY <1>2, <1>3 DEF recvCall

\* The length a send is given is nought, whatever is in the buffer.
LEMMA SelectSends ==
  ASSUME SelectInv, NEW c \in Client, NEW n \in -1..BUFSIZE, sendCall(c, n)
  PROVE  SelectInv' /\ (echoed \in [Client -> Seq(Bytes)] => echoed' = echoed)
<1> DEFINE e == socketInfo[at]
<1>1. /\ at \in 1..Len(socketInfo) /\ e.sock = c /\ at' \in Nat \ {0}
      /\ n \in SendResults(c, SendLength(e)) /\ selectPc' = selectPc
      /\ UNCHANGED <<backlog, conn, turnedAway>>
      /\ socketInfo \in Seq(Entry) /\ e \in Entry
  BY DEF sendCall, InTurn, SelectInv, SelectTable
<1>2. CASE RemoveSocketInfo(at) /\ echoed' = echoed
  BY <1>1, <1>2, RemovedSocks
<1>3. CASE /\ n >= 0 /\ handle' = handle
           /\ socketInfo' = [socketInfo EXCEPT
                ![at].recvBytes = IF e.sendBytes + n = e.recvBytes THEN 0 ELSE @,
                ![at].sendBytes = IF e.sendBytes + n = e.recvBytes THEN 0 ELSE e.sendBytes + n]
           /\ echoed' = [echoed EXCEPT ![c] = @ \o SubSeq(e.buf, e.sendBytes + 1, e.sendBytes + n)]
  <2>1. e.recvBytes \in Nat /\ e.sendBytes \in Nat /\ e.buf \in Seq(Bytes)
    BY <1>1 DEF Entry
  <2>2. n = 0
    BY <1>1, <1>3, <2>1 DEF SendResults, SendLength
  <2> DEFINE f == [e EXCEPT !.recvBytes = IF e.sendBytes + n = e.recvBytes THEN 0 ELSE @,
                            !.sendBytes = IF e.sendBytes + n = e.recvBytes THEN 0 ELSE e.sendBytes + n]
  <2>3. f \in Entry /\ f.sock = e.sock
    <3> HIDE DEF e
    <3>1. e.sendBytes + n = e.sendBytes
      BY <2>1, <2>2
    <3>2. /\ (IF e.sendBytes + n = e.recvBytes THEN 0 ELSE e.recvBytes) \in Nat
          /\ (IF e.sendBytes + n = e.recvBytes THEN 0 ELSE e.sendBytes + n) \in Nat
      BY <2>1, <3>1
    <3> QED BY <1>1, <3>2 DEF Entry
  <2>4. socketInfo' = [socketInfo EXCEPT ![at] = f]
    BY <1>1, <1>3
  <2> HIDE DEF f
  <2>5. socketInfo' \in Seq(Entry) /\ Socks' = Socks
    BY <1>1, <2>3, <2>4, SameSocks
  <2>6. Crowd' /\ OpenOnes' = OpenOnes
    BY <1>1, <1>3, CrowdSame DEF SelectInv, crowdVars
  <2>7. SelectInv'
    BY <1>1, <2>5, <2>6 DEF SelectInv, SelectTable
  <2>8. ASSUME echoed \in [Client -> Seq(Bytes)] PROVE echoed' = echoed
    <3>1. SubSeq(e.buf, e.sendBytes + 1, e.sendBytes + n) = <<>>
      BY <2>1, <2>2
    <3>2. echoed[c] \o <<>> = echoed[c]
      BY <2>8
    <3> QED BY <1>3, <2>8, <3>1, <3>2
  <2> QED BY <2>7, <2>8
<1> QED BY <1>2, <1>3 DEF sendCall


LEMMA SelectKeepsTable ==
  ASSUME SelectInv, Traffic, SelectNext
  PROVE  SelectInv' /\ Traffic' /\ (echoed \in [Client -> Seq(Bytes)] => echoed' = echoed)
<1>1. CASE selectCall
  <2>1. UNCHANGED clientVars /\ at' = at /\ UNCHANGED <<socketInfo, turnedAway>>
        /\ (selectPc' = "accept" => backlog # <<>>)
    BY <1>1 DEF selectCall
  <2>2. SelectInv'
    BY <2>1, SelectSame DEF clientVars, crowdVars, SelectInv, SelectTable
  <2> QED BY <2>1, <2>2, TrafficSame DEF clientVars, trafficVars
<1>2. CASE acceptCall
  BY <1>2, SelectAccepts, TrafficSame DEF acceptCall, trafficVars
<1>3. CASE acceptFails \/ walkEnds
  <2>1. UNCHANGED clientVars /\ at' \in Nat \ {0} /\ UNCHANGED <<socketInfo, turnedAway>>
        /\ selectPc' # "accept"
    BY <1>3 DEF acceptFails, walkEnds, SelectInv, SelectTable
  <2>2. SelectInv'
    BY <2>1, SelectSame DEF clientVars, crowdVars
  <2> QED BY <2>1, <2>2, TrafficSame DEF clientVars, trafficVars
<1>4. ASSUME NEW c \in Client, notReady(c) PROVE SelectInv' /\ UNCHANGED clientVars
  <2>1. UNCHANGED clientVars /\ at' \in Nat \ {0} /\ UNCHANGED <<socketInfo, turnedAway, selectPc>>
    BY <1>4 DEF notReady, InTurn, SelectInv, SelectTable
  <2> QED BY <2>1, SelectSame DEF clientVars, crowdVars, SelectInv, SelectTable
<1>5. ASSUME NEW c \in Client, NEW n \in -1..BUFSIZE, recvCall(c, n)
      PROVE  SelectInv' /\ Traffic' /\ echoed' = echoed
  BY <1>5, SelectReceives, TakeKeepsTraffic DEF recvCall
<1>6. ASSUME NEW c \in Client, NEW n \in -1..BUFSIZE, sendCall(c, n)
      PROVE  SelectInv' /\ UNCHANGED trafficVars /\ (echoed \in [Client -> Seq(Bytes)] => echoed' = echoed)
  BY <1>6, SelectSends DEF sendCall, trafficVars
<1>7. UNCHANGED clientVars => UNCHANGED trafficVars /\ echoed' = echoed
  BY DEF clientVars, trafficVars
<1> QED BY <1>1, <1>2, <1>3, <1>4, <1>5, <1>6, <1>7, TrafficSame DEF SelectNext

Silent == echoed = [c \in Client |-> <<>>]

LEMMA SelectInvNext ==
  ASSUME SelectInv, Traffic, Silent, [SelectStep]_<<clientVars, selectVars>>
  PROVE  SelectInv' /\ Traffic' /\ Silent'
<1>1. echoed \in [Client -> Seq(Bytes)]
  BY EmptySeq DEF Silent
<1>2. CASE SelectNext
  BY <1>1, <1>2, SelectKeepsTable DEF Silent
<1>3. CASE ClientsNext /\ UNCHANGED selectVars
  <2>1. /\ Crowd' /\ OpenOnes' = OpenOnes /\ (backlog # <<>> => backlog' # <<>>)
        /\ Traffic' /\ echoed' = echoed
    BY <1>3, ClientsKeepCrowd, ClientsKeepTraffic DEF SelectInv
  <2>2. Socks' = Socks
    BY <1>3 DEF selectVars, Socks, SocksOf
  <2> QED BY <1>3, <2>1, <2>2 DEF selectVars, SelectInv, SelectTable, Silent
<1>4. CASE UNCHANGED <<clientVars, selectVars>>
  <2>1. SelectInv'
    BY <1>4, SelectSame DEF clientVars, selectVars, crowdVars, SelectInv, SelectTable
  <2> QED BY <1>4, <2>1, TrafficSame DEF clientVars, trafficVars, Silent
<1> QED BY <1>2, <1>3, <1>4 DEF SelectStep

LEMMA SelectInvAlways == SelectSpec => [](SelectInv /\ Traffic /\ Silent)
<1>1. ClientsInit /\ SelectInit => SelectInv /\ Traffic /\ Silent
  BY SelectInvInit, TrafficInit DEF Silent
<1>2. /\ SelectInv /\ Traffic /\ Silent /\ [SelectStep]_<<clientVars, selectVars>>
      => (SelectInv /\ Traffic /\ Silent)'
  BY SelectInvNext
<1> QED BY <1>1, <1>2, PTL DEF SelectSpec

(* RemoveSocketInfo moves the last entry into the removed one's place while    *)
(* the walk counts up: for any number of sockets and clients the table holds   *)
(* each open socket once and no closed one, but for those that found no room.  *)
THEOREM SocketsStayInTable == SelectSpec => []SocketsAreInTable
<1>1. SelectInv => SocketsAreInTable
  BY SelectTableShown
<1> QED BY <1>1, SelectInvAlways, PTL

(* recvBytes - recvBytes is the length every send is given: the select server  *)
(* answers none of its clients, however many there are and whatever they send. *)
THEOREM SelectServerIsSilent == SelectSpec => [](\A c \in Client : echoed[c] = <<>>)
<1>1. Silent => \A c \in Client : echoed[c] = <<>>
  BY DEF Silent
<1> QED BY <1>1, SelectInvAlways, PTL

-----------------------------------------------------------------------------
(* The WSAEventSelect server.                                                 *)
\* What is recorded for the listening socket is a client that waits; it is
\* never closed.
EventTable ==
  /\ sessions \in Seq(Client \cup {Listening}) /\ events = sessions /\ IsTable(sessions)
  /\ Members(sessions) = {Listening} \cup OpenOnes
  /\ index \in Nat \ {0}
  /\ armed \in [Client \cup {Listening} -> SUBSET {"ACCEPT", "READ", "CLOSE"}]
  /\ recorded \in [Client \cup {Listening} -> SUBSET {"ACCEPT", "READ", "CLOSE"}]
  /\ armed[Listening] \subseteq {"ACCEPT"} /\ recorded[Listening] \subseteq {"ACCEPT"}
  /\ "ACCEPT" \in recorded[Listening] => backlog # <<>>

TableInv == Crowd /\ EventTable

\* What was recorded for recv is still there when the walk comes to it.
ReadsAreThere ==
  /\ DOMAIN inbox = Client
  /\ \A c \in Client : "READ" \in recorded[c] => inbox[c] # <<>> \/ conn[c] = "reset"

EventInv == TableInv /\ ReadsAreThere

LEMMA EventTableShown == TableInv => EventsMatchSessions
BY DEF TableInv, EventTable, EventsMatchSessions, clientCnt, IsTable, Members, OpenOnes

LEMMA EventInvInit == ClientsInit /\ EventInit => EventInv
<1> SUFFICES ASSUME ClientsInit, EventInit PROVE EventInv
  OBVIOUS
<1>1. Crowd /\ OpenOnes = {}
  BY CrowdInit
<1>2. /\ sessions = <<Listening>> /\ events = <<Listening>> /\ index = 1
      /\ armed = [s \in Client \cup {Listening} |-> IF s = Listening THEN {"ACCEPT"} ELSE {}]
      /\ recorded = [s \in Client \cup {Listening} |-> {}]
  BY DEF EventInit
<1>3. sessions \in Seq(Client \cup {Listening}) /\ Len(sessions) = 1 /\ sessions[1] = Listening
  BY <1>2
<1>4. IsTable(sessions) /\ Members(sessions) = {Listening}
  BY <1>3 DEF IsTable, Members
<1>5. TableInv
  BY <1>1, <1>2, <1>3, <1>4 DEF TableInv, EventTable
<1>6. ReadsAreThere
  BY <1>2 DEF ReadsAreThere, ClientsInit
<1> QED BY <1>5, <1>6 DEF EventInv

\* RemoveSession for the session at the index, its records taken.
LEMMA EventRemoves ==
  ASSUME TableInv, NEW c \in Client, NEW i \in 1..Len(sessions), sessions[i] = c, RemoveSession(i),
         UNCHANGED <<backlog, conn>>
  PROVE  /\ Crowd' /\ OpenOnes' = OpenOnes \ {c}
         /\ sessions' \in Seq(Client \cup {Listening}) /\ events' = sessions' /\ IsTable(sessions')
         /\ Members(sessions') = {Listening} \cup OpenOnes'
<1>1. c \in Members(sessions) /\ sessions \in Seq(Client \cup {Listening}) /\ IsTable(sessions)
  BY DEF Members, TableInv, EventTable
<1>2. handle[c] = "open"
  BY <1>1, EventAssumption DEF TableInv, EventTable, OpenOnes
<1>3. CloseSocket(c) /\ sessions' = MovedInto(sessions, i) /\ events' = sessions'
  BY DEF RemoveSession, MovedLast, MovedInto, clientCnt, TableInv, EventTable
<1>4. Crowd' /\ OpenOnes' = OpenOnes \ {c}
  BY <1>2, <1>3, CloseKeepsCrowd DEF TableInv
<1>5. /\ sessions' \in Seq(Client \cup {Listening}) /\ IsTable(sessions')
      /\ Members(sessions') = Members(sessions) \ {c}
  BY <1>1, <1>3, MovedIntoTable
<1> QED BY <1>3, <1>4, <1>5, EventAssumption DEF TableInv, EventTable

\* Nothing of the table changes.
LEMMA EventSame ==
  ASSUME TableInv, UNCHANGED crowdVars, UNCHANGED <<sessions, events>>
  PROVE  /\ Crowd' /\ OpenOnes' = OpenOnes
         /\ sessions' \in Seq(Client \cup {Listening}) /\ events' = sessions' /\ IsTable(sessions')
         /\ Members(sessions') = {Listening} \cup OpenOnes' /\ backlog' = backlog
<1>1. Crowd' /\ OpenOnes' = OpenOnes
  BY CrowdSame DEF TableInv
<1> QED BY <1>1 DEF TableInv, EventTable, crowdVars

LEMMA SystemRecords == ASSUME TableInv, RecordSomething PROVE TableInv' /\ UNCHANGED clientVars
<1>1. PICK s \in Client \cup {Listening}, e \in {"ACCEPT", "READ", "CLOSE"} : Record(s, e)
  BY DEF RecordSomething
<1>2. /\ UNCHANGED clientVars /\ UNCHANGED <<sessions, events, index>>
      /\ e \in armed[s] /\ Happens(s, e)
      /\ armed' = [armed EXCEPT ![s] = @ \ {e}] /\ recorded' = [recorded EXCEPT ![s] = @ \cup {e}]
  BY <1>1 DEF Record
<1>3. armed' \in [Client \cup {Listening} -> SUBSET {"ACCEPT", "READ", "CLOSE"}]
      /\ recorded' \in [Client \cup {Listening} -> SUBSET {"ACCEPT", "READ", "CLOSE"}]
      /\ armed'[Listening] \subseteq {"ACCEPT"} /\ recorded'[Listening] \subseteq {"ACCEPT"}
  BY <1>2 DEF TableInv, EventTable
<1>4. "ACCEPT" \in recorded'[Listening] => backlog # <<>>
  <2>1. CASE s = Listening /\ e = "ACCEPT"
    BY <1>2, <2>1 DEF Happens
  <2>2. CASE ~(s = Listening /\ e = "ACCEPT")
    BY <1>2, <2>2 DEF TableInv, EventTable
  <2> QED BY <2>1, <2>2
<1> QED BY <1>2, <1>3, <1>4, EventSame DEF clientVars, crowdVars, TableInv, EventTable

\* What remains of the invariant once the table is in order.
RecordsKept ==
  /\ armed \in [Client \cup {Listening} -> SUBSET {"ACCEPT", "READ", "CLOSE"}]
  /\ recorded \in [Client \cup {Listening} -> SUBSET {"ACCEPT", "READ", "CLOSE"}]
  /\ armed[Listening] \subseteq {"ACCEPT"} /\ recorded[Listening] \subseteq {"ACCEPT"}

LEMMA RecordsTaken ==
  ASSUME TableInv, NEW s \in Client \cup {Listening}, TakeRecords(s),
         NEW E \in SUBSET {"ACCEPT", "READ", "CLOSE"}, s = Listening => E \subseteq {"ACCEPT"},
         armed' = armed \/ armed' = [armed EXCEPT ![s] = @ \cup E]
  PROVE  RecordsKept' /\ recorded'[s] = {} /\ recorded'[Listening] \subseteq recorded[Listening]
BY ZenonT(60) DEF TableInv, EventTable, RecordsKept, TakeRecords

\* The index is a position of the table, and the one after it not nought.
LEMMA InTurnIsInTable ==
  ASSUME TableInv, NEW s, InTurnOf(s)
  PROVE  index \in 1..Len(sessions) /\ sessions[index] = s /\ index + 1 \in Nat \ {0}
BY DEF TableInv, EventTable, InTurnOf, clientCnt

LEMMA EventAccepts == ASSUME TableInv, acceptSession PROVE TableInv'
<1> DEFINE c == Head(backlog)
<1>1. /\ InTurnOf(Listening) /\ "ACCEPT" \in recorded[Listening] /\ TakeRecords(Listening)
      /\ backlog' = Tail(backlog) /\ handle' = [handle EXCEPT ![c] = "open"] /\ conn' = conn
      /\ sessions' = Append(sessions, c) /\ events' = Append(events, c)
      /\ armed' = [armed EXCEPT ![Listening] = {"ACCEPT"}, ![c] = {"READ", "CLOSE"}]
      /\ index' = index + 1 /\ backlog # <<>>
  BY DEF acceptSession, AcceptNext, Goto, TableInv, EventTable
<1>2. Crowd' /\ c \in Client /\ handle[c] = "none" /\ OpenOnes' = OpenOnes \cup {c}
  BY <1>1, AcceptKeepsCrowd DEF TableInv
<1> HIDE DEF c
<1>3. sessions \in Seq(Client \cup {Listening}) /\ IsTable(sessions) /\ c \notin Members(sessions)
      /\ c \in Client \cup {Listening}
  BY <1>2, EventAssumption DEF TableInv, EventTable, OpenOnes
<1>4. /\ sessions' \in Seq(Client \cup {Listening}) /\ IsTable(sessions')
      /\ Members(sessions') = Members(sessions) \cup {c} /\ events' = sessions'
  BY <1>1, <1>3, AppendToTable DEF TableInv, EventTable
<1>5. /\ armed' \in [Client \cup {Listening} -> SUBSET {"ACCEPT", "READ", "CLOSE"}]
      /\ armed'[Listening] \subseteq {"ACCEPT"}
  BY <1>1, <1>2, EventAssumption DEF TableInv, EventTable
<1>6. /\ recorded' \in [Client \cup {Listening} -> SUBSET {"ACCEPT", "READ", "CLOSE"}]
      /\ recorded'[Listening] = {}
  BY <1>1 DEF TakeRecords, TableInv, EventTable
<1>7. index' \in Nat \ {0}
  BY <1>1, InTurnIsInTable
<1>8. Members(sessions') = {Listening} \cup OpenOnes'
  BY <1>2, <1>4 DEF TableInv, EventTable
<1> QED BY <1>2, <1>4, <1>5, <1>6, <1>7, <1>8 DEF TableInv, EventTable

\* acceptRefused and acceptNothing leave the table as it is.
LEMMA EventAcceptsNot == ASSUME TableInv, acceptRefused \/ acceptNothing PROVE TableInv'
<1>1. /\ InTurnOf(Listening) /\ "ACCEPT" \in recorded[Listening] /\ TakeRecords(Listening)
      /\ backlog # <<>> /\ conn' = conn /\ UNCHANGED <<sessions, events>> /\ index' = index + 1
      /\ armed' = armed \/ armed' = [armed EXCEPT ![Listening] = @ \cup {"ACCEPT"}]
  BY DEF acceptRefused, acceptNothing, Goto, Rearm, TableInv, EventTable
<1>2. RecordsKept' /\ recorded'[Listening] = {}
  BY <1>1, RecordsTaken
<1>3. index' \in Nat \ {0}
  BY <1>1, InTurnIsInTable
<1>4. Crowd /\ Head(backlog) \in Client /\ handle[Head(backlog)] = "none"
      /\ handle \in [Client -> {"none", "open", "closed"}]
  BY <1>1, TailOfTable DEF TableInv, Crowd
<1>5. Crowd' /\ OpenOnes' = OpenOnes
  <2>1. CASE acceptRefused
    <3>1. backlog' = Tail(backlog) /\ handle' = [handle EXCEPT ![Head(backlog)] = "closed"]
      BY <2>1 DEF acceptRefused, CloseSocket
    <3> QED BY <1>1, <1>4, <3>1, AcceptKeepsCrowd
  <2>2. CASE backlog' = backlog /\ handle' = handle
    BY <1>1, <1>4, <2>2, CrowdSame DEF crowdVars
  <2>3. CASE backlog' = Tail(backlog) /\ handle' = handle
    <3>1. handle' = [handle EXCEPT ![Head(backlog)] = "none"]
      BY <1>4, <2>3
    <3> QED BY <1>1, <1>4, <2>3, <3>1, AcceptKeepsCrowd
  <2> QED BY <2>1, <2>2, <2>3 DEF acceptRefused, acceptNothing
<1> QED BY <1>1, <1>2, <1>3, <1>5 DEF TableInv, EventTable, RecordsKept

\* A session's turn: it stays, or is removed from its place.
LEMMA SessionsTurn ==
  ASSUME TableInv, NEW c \in Client, InTurnOf(c), TakeRecords(c),
         UNCHANGED <<backlog, conn>>, RemoveSession(index) \/ KeepSessions,
         index' \in Nat \ {0}, armed' = armed \/ armed' = [armed EXCEPT ![c] = @ \cup {"READ"}]
  PROVE  TableInv'
<1>1. index \in 1..Len(sessions) /\ sessions[index] = c
  BY InTurnIsInTable
<1>2. RecordsKept' /\ recorded'[Listening] \subseteq recorded[Listening]
  BY RecordsTaken, EventAssumption
<1>3. CASE RemoveSession(index)
  BY <1>1, <1>2, <1>3, EventRemoves DEF TableInv, EventTable, RecordsKept
<1>4. CASE KeepSessions
  BY <1>2, <1>4, EventSame DEF KeepSessions, crowdVars, TableInv, EventTable, RecordsKept
<1> QED BY <1>3, <1>4

LEMMA EventSessions ==
  ASSUME TableInv, ReadsAreThere, NEW c \in Client,
         otherEvent(c) \/ \E n, m \in -1..BUFSIZE : readEvent(c, n, m)
  PROVE  TableInv'
<1>1. /\ InTurnOf(c) /\ TakeRecords(c) /\ UNCHANGED <<backlog, conn>>
      /\ index' = 1 \/ index' = index + 1
      /\ armed' = armed \/ armed' = [armed EXCEPT ![c] = @ \cup {"READ"}]
  BY DEF otherEvent, readEvent, Goto, Wait, Rearm
<1>2. RemoveSession(index) \/ KeepSessions
  <2>1. CASE otherEvent(c)
    BY <2>1 DEF otherEvent, CloseEvent
  <2>2. ASSUME NEW n \in -1..BUFSIZE, NEW m \in -1..BUFSIZE, readEvent(c, n, m)
        PROVE  RemoveSession(index) \/ KeepSessions
    <3>1. n # 0
      BY <2>2 DEF readEvent, RecvResults, ReadsAreThere
    <3> QED BY <2>2, <3>1 DEF readEvent, CloseEvent
  <2> QED BY <2>1, <2>2
<1>3. index' \in Nat \ {0}
  BY <1>1, InTurnIsInTable
<1> QED BY <1>1, <1>2, <1>3, SessionsTurn

\* FD_CLOSE is not recorded for the listening socket.
LEMMA EventListening == ASSUME TableInv, otherEvent(Listening) PROVE TableInv'
<1>1. /\ InTurnOf(Listening) /\ TakeRecords(Listening) /\ UNCHANGED <<backlog, conn, armed>>
      /\ index' = index + 1
  BY DEF otherEvent, Goto
<1>2. KeepSessions
  BY DEF otherEvent, CloseEvent, Closes, TableInv, EventTable
<1>3. RecordsKept' /\ recorded'[Listening] = {}
  BY <1>1, RecordsTaken
<1>4. index' \in Nat \ {0}
  BY <1>1, InTurnIsInTable
<1> QED BY <1>1, <1>2, <1>3, <1>4, EventSame DEF KeepSessions, crowdVars, TableInv, EventTable, RecordsKept

LEMMA EventWalks == ASSUME TableInv, waitEvents \/ walkDone PROVE TableInv'
<1>1. UNCHANGED clientVars /\ UNCHANGED <<sessions, events, armed, recorded>> /\ index' \in Nat \ {0}
  BY DEF waitEvents, walkDone, Wait, clientCnt, TableInv, EventTable
<1> QED BY <1>1, EventSame DEF clientVars, crowdVars, TableInv, EventTable

LEMMA ReadsStayThere ==
  ASSUME TableInv, ReadsAreThere, [EventStep]_<<clientVars, eventVars>> PROVE ReadsAreThere'
<1>1. /\ DOMAIN inbox = Client /\ Client \subseteq DOMAIN recorded /\ Client \subseteq DOMAIN conn
      /\ \A c \in Client : "READ" \in recorded[c] => inbox[c] # <<>> \/ conn[c] = "reset"
  BY DEF ReadsAreThere, TableInv, EventTable, Crowd
<1>2. CASE RecordSomething
  <2>1. PICK s \in Client \cup {Listening}, e \in {"ACCEPT", "READ", "CLOSE"} : Record(s, e)
    BY <1>2 DEF RecordSomething
  <2>2. /\ UNCHANGED <<inbox, conn>> /\ Happens(s, e)
        /\ recorded' = [recorded EXCEPT ![s] = @ \cup {e}]
    BY <2>1 DEF Record, clientVars
  <2>3. CASE e = "READ"
    BY <1>1, <2>2, <2>3 DEF Happens, ReadsAreThere
  <2>4. CASE e # "READ"
    BY <1>1, <2>2, <2>4 DEF ReadsAreThere
  <2> QED BY <2>3, <2>4
<1>3. ASSUME NEW s \in Client \cup {Listening}, TakeRecords(s), UNCHANGED conn,
             inbox' = inbox \/ \E n \in -1..BUFSIZE : s \in Client /\ TakeFromInbox(s, n)
      PROVE  ReadsAreThere'
  <2>1. recorded'[s] = {} /\ \A c \in Client : c # s => recorded'[c] = recorded[c]
    BY <1>1, <1>3 DEF TakeRecords, TableInv, EventTable
  <2>2. DOMAIN inbox' = Client /\ \A c \in Client : c # s => inbox'[c] = inbox[c]
    BY <1>1, <1>3 DEF TakeFromInbox
  <2> QED BY <1>1, <1>3, <2>1, <2>2 DEF ReadsAreThere
<1>4. CASE waitEvents \/ walkDone
  BY <1>1, <1>4 DEF waitEvents, walkDone, clientVars, ReadsAreThere
<1>5. CASE acceptSession \/ acceptRefused \/ acceptNothing
  BY <1>3, <1>5 DEF acceptSession, acceptRefused, acceptNothing
<1>6. ASSUME NEW s \in Client \cup {Listening}, otherEvent(s) PROVE ReadsAreThere'
  BY <1>3, <1>6 DEF otherEvent
<1>7. ASSUME NEW c \in Client, NEW n \in -1..BUFSIZE, NEW m \in -1..BUFSIZE, readEvent(c, n, m)
      PROVE  ReadsAreThere'
  BY <1>3, <1>7 DEF readEvent
<1>8. CASE EventServes
  BY <1>4, <1>5, <1>6, <1>7, <1>8 DEF EventServes
<1>9. CASE ClientsNext /\ UNCHANGED eventVars
  <2>1. ASSUME NEW c \in Client, Connect(c) PROVE ReadsAreThere'
    <3>1. inbox' = inbox /\ conn[c] = "none" /\ \A d \in Client : d # c => conn'[d] = conn[d]
      BY <1>1, <2>1 DEF Connect
    <3> QED BY <1>1, <1>9, <3>1 DEF eventVars, ReadsAreThere
  <2>2. ASSUME NEW c \in Client, ClientSend(c) PROVE ReadsAreThere'
    <3>1. /\ inbox' = [inbox EXCEPT ![c] = Append(inbox[c], <<c, sent[c] + 1>>)] /\ conn' = conn
      BY <2>2 DEF ClientSend
    <3>2. DOMAIN inbox' = Client /\ inbox'[c] # <<>> /\ \A d \in Client : d # c => inbox'[d] = inbox[d]
      BY <1>1, <3>1
    <3> QED BY <1>1, <1>9, <3>1, <3>2 DEF eventVars, ReadsAreThere
  <2>3. ASSUME NEW c \in Client, NEW how \in {"closed", "reset"}, ClientLeave(c, how)
        PROVE  ReadsAreThere'
    <3>1. /\ conn[c] \in {"open", "closed"} /\ conn' = [conn EXCEPT ![c] = how]
          /\ inbox' = [inbox EXCEPT ![c] = IF how = "reset" THEN <<>> ELSE inbox[c]]
      BY <2>3 DEF ClientLeave
    <3>2. /\ conn'[c] = how /\ DOMAIN inbox' = Client
          /\ how = "closed" => inbox'[c] = inbox[c] /\ conn[c] # "reset"
          /\ \A d \in Client : d # c => inbox'[d] = inbox[d] /\ conn'[d] = conn[d]
      BY <1>1, <3>1
    <3> QED BY <1>1, <1>9, <3>1, <3>2 DEF eventVars, ReadsAreThere
  <2> QED BY <1>9, <2>1, <2>2, <2>3 DEF ClientsNext
<1>10. CASE UNCHANGED <<clientVars, eventVars>>
  BY <1>1, <1>10 DEF clientVars, eventVars, ReadsAreThere
<1> QED BY <1>2, <1>8, <1>9, <1>10 DEF EventStep, EventNext

LEMMA EventInvNext == ASSUME EventInv, [EventStep]_<<clientVars, eventVars>> PROVE EventInv'
<1>0. TableInv /\ ReadsAreThere /\ ReadsAreThere'
  BY ReadsStayThere DEF EventInv
<1>1. CASE RecordSomething
  BY <1>0, <1>1, SystemRecords DEF EventInv
<1>2. CASE EventServes
  BY <1>0, <1>2, EventWalks, EventAccepts, EventAcceptsNot, EventListening, EventSessions
     DEF EventServes, EventInv
<1>3. CASE ClientsNext /\ UNCHANGED eventVars
  <2>1. Crowd' /\ OpenOnes' = OpenOnes /\ (backlog # <<>> => backlog' # <<>>)
    BY <1>0, <1>3, ClientsKeepCrowd DEF TableInv
  <2> QED BY <1>0, <1>3, <2>1 DEF eventVars, TableInv, EventTable, EventInv
<1>4. CASE UNCHANGED <<clientVars, eventVars>>
  BY <1>0, <1>4, EventSame DEF clientVars, eventVars, crowdVars, TableInv, EventTable, EventInv
<1> QED BY <1>1, <1>2, <1>3, <1>4 DEF EventStep, EventNext

(* The two arrays of the WSAEventSelect server hold every open socket once and  *)
(* no closed one, and the event at a position is that of the socket there, for  *)
(* any number of clients and whatever is accepted, refused and removed in one   *)
(* walk.                                                                      *)
THEOREM EventsStayWithSessions == EventSpec => []EventsMatchSessions
<1>1. EventInv => EventsMatchSessions
  BY EventTableShown DEF EventInv
<1>2. ClientsInit /\ EventInit => EventInv
  BY EventInvInit
<1>3. EventInv /\ [EventStep]_<<clientVars, eventVars>> => EventInv'
  BY EventInvNext
<1> QED BY <1>1, <1>2, <1>3, PTL DEF EventSpec


\* Of the n bytes a receive takes, the m that a send takes are echoed.
LEMMA EchoOfStretch ==
  ASSUME Traffic, Echoes, Traffic', NEW c \in Client, NEW n \in 1..Len(inbox[c]), NEW m \in 1..n,
         Gone(c)' = Gone(c) + n, \A d \in Client : Gone(d) <= Gone(d)',
         echoed' = [echoed EXCEPT ![c] = @ \o SubSeq(inbox[c], 1, m)]
  PROVE  Echoes'
<1> DEFINE s == SubSeq(inbox[c], 1, m)
<1>1. /\ Gone(c) \in Nat /\ Gone(c)' \in Nat /\ IsStretch(c, inbox[c], Gone(c))
      /\ m \in 0..Len(inbox[c]) /\ n \in Nat /\ m \in Nat /\ m <= n
  BY DEF Traffic
<1>2. IsStretch(c, s, Gone(c)) /\ Len(s) = m
  BY <1>1, StretchCut
<1>3. IsEchoUpTo(c, echoed[c], Gone(c)) /\ echoed \in [Client -> Seq(Bytes)]
  BY DEF Echoes
<1> HIDE DEF s
<1>4. IsEchoUpTo(c, echoed[c] \o s, Gone(c) + m)
  <2>1. Gone(c) \in Nat /\ Gone(c) <= Gone(c)
    BY <1>1
  <2>2. IsEchoUpTo(c, echoed[c] \o s, Gone(c) + Len(s))
    BY <1>2, <1>3, <2>1, EchoGrows
  <2> QED BY <1>2, <2>2
<1>5. Gone(c) + m \in Nat /\ Gone(c) + m <= Gone(c)'
  BY <1>1
<1>6. IsEchoUpTo(c, echoed[c] \o s, Gone(c)')
  BY <1>1, <1>4, <1>5, EchoWidens
<1>7. /\ echoed' = [echoed EXCEPT ![c] = echoed[c] \o s] /\ echoed[c] \o s \in Seq(Bytes)
  BY <1>6 DEF s, IsEchoUpTo
<1>8. /\ echoed' \in [Client -> Seq(Bytes)] /\ echoed'[c] = echoed[c] \o s
      /\ \A d \in Client : d # c => echoed'[d] = echoed[d]
  BY <1>3, <1>7
<1>9. ASSUME NEW d \in Client PROVE IsEchoUpTo(d, echoed'[d], Gone(d)')
  <2>1. CASE d = c
    BY <1>6, <1>8, <2>1
  <2>2. CASE d # c
    <3>1. Gone(d) \in Nat /\ Gone(d)' \in Nat /\ Gone(d) <= Gone(d)'
      BY DEF Traffic
    <3> QED BY <1>8, <2>2, <3>1, EchoWidens DEF Echoes
  <2> QED BY <2>1, <2>2
<1>10. \A d \in Client : IsEchoUpTo(d, echoed[d], Gone(d))'
  BY <1>9 DEF IsEchoUpTo
<1> QED BY <1>8, <1>10 DEF Echoes

LEMMA ReadKeepsEchoes ==
  ASSUME Traffic, Echoes, NEW c \in Client, NEW n \in -1..BUFSIZE, NEW m \in -1..BUFSIZE,
         readEvent(c, n, m)
  PROVE  Traffic' /\ Echoes'
<1>1. n \in RecvResults(c) /\ TakeFromInbox(c, n) /\ sent' = sent
  BY DEF readEvent
<1>2. /\ Traffic' /\ n \in Int /\ (\A d \in Client : Gone(d) <= Gone(d)')
      /\ n > 0 => n \in 1..Len(inbox[c]) /\ Gone(c)' = Gone(c) + n
  BY <1>1, TakeKeepsTraffic
<1>3. CASE echoed' = echoed
  BY <1>2, <1>3, EchoesSame
<1>4. CASE n > 0 /\ m > 0 /\ m \in SendResults(c, n) /\ Echo(c, n, m)
  <2>1. m \in 1..n
    BY <1>2, <1>4 DEF SendResults
  <2> QED BY <1>2, <1>4, <2>1, EchoOfStretch DEF Echo
<1> QED BY <1>2, <1>3, <1>4 DEF readEvent

LEMMA EventEchoesNext ==
  ASSUME Traffic, Echoes, [EventStep]_<<clientVars, eventVars>>
  PROVE  Traffic' /\ Echoes'
<1>1. CASE UNCHANGED trafficVars /\ echoed' = echoed
  <2>1. Traffic' /\ \A c \in Client : Gone(c) <= Gone(c)'
    BY <1>1, TrafficSame DEF Traffic
  <2> QED BY <1>1, <2>1, EchoesSame
<1>2. CASE ClientsNext
  BY <1>2, ClientsKeepTraffic, EchoesSame
<1>3. CASE \E c \in Client : \E n, m \in -1..BUFSIZE : readEvent(c, n, m)
  BY <1>3, ReadKeepsEchoes
<1>4. CASE EventServes /\ ~\E c \in Client : \E n, m \in -1..BUFSIZE : readEvent(c, n, m)
  <2>1. UNCHANGED trafficVars /\ echoed' = echoed
    BY <1>4 DEF EventServes, waitEvents, walkDone, acceptSession, acceptRefused, acceptNothing,
       otherEvent, clientVars, trafficVars
  <2> QED BY <1>1, <2>1
<1>5. CASE RecordSomething \/ UNCHANGED <<clientVars, eventVars>>
  <2>1. UNCHANGED trafficVars /\ echoed' = echoed
    BY <1>5 DEF RecordSomething, Record, clientVars, trafficVars
  <2> QED BY <1>1, <2>1
<1> QED BY <1>2, <1>3, <1>4, <1>5 DEF EventStep, EventNext

(* What a client of the WSAEventSelect server gets back is its own bytes in    *)
(* the order it sent them, none twice, wherever recv and send cut and however   *)
(* much of a partly sent answer is dropped.                                    *)
THEOREM EventServerEchoesInOrder == EventSpec => []EchoedInOrder
<1>1. Traffic /\ Echoes => EchoedInOrder
  BY EchoesInOrder DEF EchoedInOrder
<1>2. ClientsInit /\ EventInit => Traffic /\ Echoes
  BY EchoesInit
<1>3. Traffic /\ Echoes /\ [EventStep]_<<clientVars, eventVars>> => (Traffic /\ Echoes)'
  BY EventEchoesNext
<1> QED BY <1>1, <1>2, <1>3, PTL DEF EventSpec


-----------------------------------------------------------------------------
(* The overlapped server with events: both threads change the two arrays.     *)
SlotTable ==
  /\ slotSession \in Seq(Client) /\ slotEvent = slotSession
  /\ slots \in 0..Len(slotSession)
  /\ \A i \in 1..Len(slotSession) : handle[slotSession[i]] # "none"
  /\ \A i, j \in 1..slots : slotSession[i] = slotSession[j] => i = j
  /\ \A i \in 1..slots : handle[slotSession[i]] = "open" \/ slotSession[i] \in strayed

\* A session with an operation pending is in the table.
PendingInTable ==
  /\ DOMAIN operations = Client
  /\ \A c \in Client \ strayed :
       operations[c] # <<>> => \E i \in 1..slots : slotSession[i] = c

\* The indices the two threads keep across steps were those of entries once.
Indices == /\ acceptPc = "remove" => removing \in 0..Len(slotSession)
           /\ workPc \in {"walk", "drop"} => first \in 1..Len(slotSession) /\ cnt \in Nat \ {0}

SlotInv == Crowd /\ SlotTable /\ PendingInTable /\ Indices

LEMMA SlotTableShown == SlotInv => SlotsMatch
BY DEF SlotInv, SlotTable, PendingInTable, SlotsMatch

\* RemoveSession, at an index in the table or behind it.
LEMMA RemoveKeepsTables ==
  ASSUME Crowd, SlotTable, PendingInTable, NEW i \in 1..Len(slotSession),
         CanRemove(i), RemoveSlot(i), UNCHANGED <<backlog, conn>>
  PROVE  /\ Crowd' /\ SlotTable' /\ PendingInTable'
         /\ Len(slotSession') = Len(slotSession) /\ slotSession[i] \in Client
<1> DEFINE s == slotSession[i]
           z == slotSession[slots]
           n == Len(slotSession)
<1>1. /\ n \in Nat /\ slots \in 1..n /\ i \in 1..n /\ s \in Client /\ z \in Client
      /\ \A k \in 1..n : slotSession[k] \in Client
  BY DEF SlotTable, CanRemove
<1>2. /\ handle[s] \in {"none", "open", "closed"} /\ handle[s] # "none" /\ handle[s] # "closed"
  BY <1>1 DEF Crowd, SlotTable, CanRemove, IsLive
<1>3. /\ CloseSocket(s) /\ slots' = slots - 1
      /\ slotSession' = [slotSession EXCEPT ![i] = z]
      /\ slotEvent' = [slotEvent EXCEPT ![i] = slotEvent[slots]]
      /\ strayed' = IF i <= slots THEN strayed ELSE strayed \cup {s, z}
      /\ operations' = [operations EXCEPT ![s] = <<>>]
  BY DEF RemoveSlot, LastMoved
<1>4. Crowd'
  BY <1>1, <1>2, <1>3, CloseKeepsCrowd
<1>5. /\ slotSession' \in Seq(Client) /\ Len(slotSession') = n /\ slotEvent' = slotSession'
      /\ \A k \in 1..n : slotSession'[k] = IF k = i THEN z ELSE slotSession[k]
      /\ slots' \in 0..n
  BY <1>1, <1>3 DEF SlotTable
<1>6. /\ handle'[s] = "closed" /\ \A c \in Client : c # s => handle'[c] = handle[c]
      /\ DOMAIN operations' = Client /\ operations'[s] = <<>>
      /\ \A c \in Client : c # s => operations'[c] = operations[c]
  BY <1>1, <1>3 DEF CloseSocket, Crowd, PendingInTable
<1> HIDE DEF s, z, n
<1>7. \A k \in 1..n : slotSession'[k] \in Client /\ handle'[slotSession'[k]] # "none"
  <2> SUFFICES ASSUME NEW k \in 1..n
               PROVE  slotSession'[k] \in Client /\ handle'[slotSession'[k]] # "none"
    OBVIOUS
  <2>1. PICK j \in 1..n : slotSession'[k] = slotSession[j]
    BY <1>1, <1>5 DEF z
  <2>2. slotSession[j] \in Client /\ handle[slotSession[j]] # "none"
    BY <1>1 DEF SlotTable, n
  <2> QED BY <1>6, <2>1, <2>2
<1>8. \A j, k \in 1..slots : slotSession[j] = slotSession[k] => j = k
  BY DEF SlotTable
<1>9. \A k \in 1..slots - 1 : k \in 1..n /\ k \in 1..slots /\ k # slots
  BY <1>1
<1>10. \A j, k \in 1..slots' : slotSession'[j] = slotSession'[k] => j = k
  <2> SUFFICES ASSUME NEW j \in 1..slots - 1, NEW k \in 1..slots - 1,
                      slotSession'[j] = slotSession'[k]
               PROVE  j = k
    BY <1>3
  <2>1. slots \in 1..slots /\ j # slots /\ k # slots /\ j \in 1..slots /\ k \in 1..slots
    BY <1>1, <1>9
  <2>2. j = i \/ slotSession'[j] = slotSession[j]
    BY <1>5, <1>9
  <2>3. k = i \/ slotSession'[k] = slotSession[k]
    BY <1>5, <1>9
  <2>4. (j = i => slotSession'[j] = slotSession[slots]) /\ (k = i => slotSession'[k] = slotSession[slots])
    BY <1>5, <1>9 DEF z
  <2> QED BY <1>8, <2>1, <2>2, <2>3, <2>4
<1>11. ASSUME i <= slots PROVE i \in 1..slots /\ \A k \in 1..slots : slotSession[k] = s => k = i
  <2>1. i \in 1..slots
    BY <1>1, <1>11
  <2> QED BY <1>8, <2>1 DEF s
<1>12. \A k \in 1..slots' : handle'[slotSession'[k]] = "open" \/ slotSession'[k] \in strayed'
  <2> SUFFICES ASSUME NEW k \in 1..slots - 1
               PROVE  handle'[slotSession'[k]] = "open" \/ slotSession'[k] \in strayed'
    BY <1>3
  <2>1. /\ k \in 1..slots /\ k # slots /\ slots \in 1..slots
        /\ slotSession'[k] = IF k = i THEN z ELSE slotSession[k]
    BY <1>1, <1>5, <1>9
  <2>2. PICK j \in 1..slots : slotSession'[k] = slotSession[j] /\ (k = i => j = slots) /\ (k # i => j = k)
    BY <2>1 DEF z
  <2>3. /\ handle[slotSession[j]] = "open" \/ slotSession[j] \in strayed
        /\ slotSession[j] \in Client
    BY <1>1, <2>2 DEF SlotTable, n
  <2>4. CASE i <= slots
    <3>1. slotSession[j] # s
      BY <1>11, <2>1, <2>2, <2>4
    <3> QED BY <1>3, <1>6, <2>2, <2>3, <2>4, <3>1
  <2>5. CASE ~(i <= slots)
    <3>1. strayed' = strayed \cup {s, z}
      BY <1>3, <2>5
    <3> QED BY <1>6, <2>2, <2>3, <3>1
  <2> QED BY <2>4, <2>5
<1>13. SlotTable'
  BY <1>5, <1>7, <1>10, <1>12 DEF SlotTable, n
<1>14. PendingInTable'
  <2> SUFFICES ASSUME NEW c \in Client \ strayed', operations'[c] # <<>>
               PROVE  \E k \in 1..slots' : slotSession'[k] = c
    BY <1>6 DEF PendingInTable
  <2>1. c # s /\ c \in Client \ strayed /\ operations[c] # <<>>
    BY <1>3, <1>6
  <2>2. PICK k \in 1..slots : slotSession[k] = c
    BY <2>1 DEF PendingInTable
  <2>3. CASE k = slots
    <3>1. i <= slots /\ i # slots
      BY <1>1, <1>3, <2>1, <2>2, <2>3 DEF s, z
    <3>2. i \in 1..slots - 1
      BY <1>1, <3>1
    <3> QED BY <1>3, <1>5, <1>9, <2>2, <2>3, <3>2 DEF z
  <2>4. CASE k # slots
    <3>1. k \in 1..slots - 1 /\ k # i
      BY <1>1, <2>1, <2>2, <2>4 DEF s
    <3> QED BY <1>3, <1>5, <1>9, <2>2, <3>1
  <2> QED BY <2>3, <2>4
<1> QED BY <1>1, <1>4, <1>5, <1>13, <1>14 DEF n, s

\* AddSession: the entry behind the table is written, whether it was before or not.
LEMMA PutEntry ==
  ASSUME NEW t \in Seq(Client), NEW c \in Client, slots \in 0..Len(t)
  PROVE  /\ Put(t, c) \in Seq(Client) /\ Len(Put(t, c)) \in Nat
         /\ slots + 1 <= Len(Put(t, c)) /\ Len(t) <= Len(Put(t, c))
         /\ Put(t, c)[slots + 1] = c
         /\ \A k \in 1..Len(Put(t, c)) : k # slots + 1 => k \in 1..Len(t) /\ Put(t, c)[k] = t[k]
<1>1. CASE slots < Len(t)
  <2>1. Put(t, c) = [t EXCEPT ![slots + 1] = c] /\ slots + 1 \in 1..Len(t)
    BY <1>1 DEF Put
  <2> QED BY <2>1
<1>2. CASE ~(slots < Len(t))
  <2>1. Put(t, c) = Append(t, c) /\ slots = Len(t)
    BY <1>2 DEF Put
  <2>2. Len(Append(t, c)) = Len(t) + 1 /\ Append(t, c) \in Seq(Client)
    BY AppendProperties
  <2>3. Append(t, c)[Len(t) + 1] = c /\ \A k \in 1..Len(t) : Append(t, c)[k] = t[k]
    BY AppendProperties
  <2>4. \A k \in 1..Len(t) + 1 : k # Len(t) + 1 => k \in 1..Len(t)
    OBVIOUS
  <2> QED BY <2>1, <2>2, <2>3, <2>4
<1> QED BY <1>1, <1>2

LEMMA AcceptKeepsTables ==
  ASSUME Crowd, SlotTable, PendingInTable, acceptAndAdd
  PROVE  /\ Crowd' /\ SlotTable' /\ PendingInTable'
         /\ Len(slotSession) \in Nat /\ Len(slotSession') \in Nat
         /\ Len(slotSession) <= Len(slotSession')
<1> DEFINE c == Head(backlog)
           t == Put(slotSession, c)
           n == Len(slotSession)
<1>1. /\ backlog # <<>> /\ backlog' = Tail(backlog) /\ conn' = conn
      /\ handle' = [handle EXCEPT ![c] = "open"] /\ operations' = operations
  BY DEF acceptAndAdd, AcceptNext, peerVars, opVars
<1>2. Crowd' /\ c \in Client /\ handle[c] = "none"
  BY <1>1, AcceptKeepsCrowd
<1>3. handle'[c] = "open" /\ \A d \in Client : d # c => handle'[d] = handle[d]
  BY <1>1, <1>2 DEF Crowd
<1>4. n \in Nat /\ slots \in 0..n /\ \A k \in 1..n : slotSession[k] \in Client /\ slotSession[k] # c
  BY <1>2 DEF SlotTable
<1>5. \A k \in 1..n : handle'[slotSession[k]] = handle[slotSession[k]]
  BY <1>3, <1>4
<1> HIDE DEF c
<1>6. CASE UNCHANGED arrayVars
  <2>1. UNCHANGED <<slots, slotSession, slotEvent, strayed>>
    BY <1>6 DEF arrayVars
  <2>2. SlotTable'
    BY <1>4, <1>5, <2>1 DEF SlotTable
  <2>3. PendingInTable'
    BY <1>1, <2>1 DEF PendingInTable
  <2> QED BY <1>2, <1>4, <2>1, <2>2, <2>3
<1>7. CASE /\ slots' = slots + 1 /\ slotSession' = t /\ slotEvent' = Put(slotEvent, c)
           /\ strayed' = strayed
  <2>1. /\ t \in Seq(Client) /\ Len(t) \in Nat /\ slots + 1 <= Len(t) /\ n <= Len(t)
        /\ t[slots + 1] = c
        /\ \A k \in 1..Len(t) : k # slots + 1 => k \in 1..n /\ t[k] = slotSession[k]
    BY <1>2, <1>4, PutEntry DEF SlotTable
  <2>2. slotEvent' = slotSession'
    BY <1>7 DEF SlotTable
  <2> HIDE DEF t
  <2>3. \A k \in 1..slots : k \in 1..n /\ k \in 1..Len(t) /\ k # slots + 1 /\ t[k] = slotSession[k]
    BY <1>4, <2>1
  <2>4. \A k \in 1..slots + 1 : k \in 1..Len(t) /\ (k = slots + 1 \/ k \in 1..slots)
    BY <1>4, <2>1
  <2>5. \A k \in 1..Len(t) : handle'[t[k]] # "none"
    BY <1>3, <1>4, <1>5, <2>1 DEF SlotTable
  <2>6. \A j, k \in 1..slots + 1 : t[j] = t[k] => j = k
    <3>1. \A k \in 1..slots : t[k] # c
      BY <1>4, <2>3
    <3>2. \A j, k \in 1..slots : t[j] = t[k] => j = k
      BY <2>3 DEF SlotTable
    <3> QED BY <2>1, <2>4, <3>1, <3>2
  <2>7. \A k \in 1..slots + 1 : handle'[t[k]] = "open" \/ t[k] \in strayed
    BY <1>3, <1>5, <2>1, <2>3, <2>4 DEF SlotTable
  <2>8. SlotTable'
    <3>1. slots' \in 0..Len(t)
      BY <1>4, <1>7, <2>1
    <3> QED BY <1>7, <2>1, <2>2, <2>5, <2>6, <2>7, <3>1 DEF SlotTable
  <2>9. PendingInTable'
    <3>1. \A k \in 1..slots : k \in 1..slots + 1
      BY <1>4
    <3> QED BY <1>1, <1>7, <2>3, <3>1 DEF PendingInTable
  <2> QED BY <1>2, <1>4, <1>7, <2>1, <2>8, <2>9
<1> QED BY <1>6, <1>7 DEF acceptAndAdd, c

LEMMA SlotSame ==
  ASSUME Crowd, SlotTable, UNCHANGED crowdVars, UNCHANGED arrayVars
  PROVE  Crowd' /\ SlotTable'
BY CrowdSame DEF SlotTable, arrayVars, crowdVars

\* A session given an operation is in the table; completion takes one away.
LEMMA PendingSame ==
  ASSUME SlotTable, PendingInTable, UNCHANGED arrayVars, UNCHANGED operations
  PROVE  PendingInTable'
BY DEF PendingInTable, arrayVars

LEMMA PostedIsInTable ==
  ASSUME SlotTable, PendingInTable, NEW i \in 1..slots, NEW op, NEW served,
         Posted(slotSession[i], op, served) \/ Refused(slotSession[i]), UNCHANGED arrayVars
  PROVE  PendingInTable'
<1> DEFINE s == slotSession[i]
<1>1. DOMAIN operations = Client /\ UNCHANGED <<slots, slotSession, strayed>> /\ s = slotSession[i]
  BY DEF PendingInTable, arrayVars
<1> HIDE DEF s
<1>2. DOMAIN operations' = Client /\ \A c \in Client \ {s} : operations'[c] = operations[c]
  BY <1>1 DEF Posted, Refused
<1> QED BY <1>1, <1>2 DEF PendingInTable

LEMMA SlotInvInit == ClientsInit /\ OverlappedInit => SlotInv
<1> SUFFICES ASSUME ClientsInit, OverlappedInit PROVE SlotInv
  OBVIOUS
<1>1. Crowd
  BY CrowdInit
<1>2. /\ slotSession = <<>> /\ slotEvent = <<>> /\ slots = 0
      /\ acceptPc = "accept" /\ workPc = "wait" /\ operations = [c \in Client |-> <<>>]
  BY DEF OverlappedInit
<1>3. slotSession \in Seq(Client) /\ Len(slotSession) = 0
  BY <1>2, EmptySeq
<1> QED BY <1>1, <1>2, <1>3 DEF SlotInv, SlotTable, PendingInTable, Indices

LEMMA SlotInvNext ==
  ASSUME SlotInv, [OverlappedStep]_<<clientVars, overlappedVars>> PROVE SlotInv'
<1>0. Crowd /\ SlotTable /\ PendingInTable /\ Indices
  BY DEF SlotInv
<1>1. /\ slots \in 0..Len(slotSession) /\ Len(slotSession) \in Nat /\ slots \in Nat
      /\ slots > 0 => slots \in 1..slots
      /\ \A i \in 1..slots : i \in 1..Len(slotSession)
  BY <1>0 DEF SlotTable
<1>2. CASE acceptAndAdd
  <2>1. /\ Crowd' /\ SlotTable' /\ PendingInTable' /\ Len(slotSession') \in Nat
        /\ Len(slotSession) <= Len(slotSession')
    BY <1>0, <1>2, AcceptKeepsTables
  <2>2. acceptPc' # "remove" /\ UNCHANGED <<removing, workPc, cnt, first>>
    BY <1>2 DEF acceptAndAdd
  <2> QED BY <1>0, <1>1, <2>1, <2>2 DEF SlotInv, Indices
<1>3. CASE acceptErrs
  <2>1. /\ backlog # <<>> /\ backlog' = Tail(backlog) /\ UNCHANGED <<conn, handle, overlappedVars>>
        /\ handle' = [handle EXCEPT ![Head(backlog)] = "none"]
    <3>1. handle[Head(backlog)] = "none" /\ Head(backlog) \in Client
      BY <1>0, <1>3, TailOfTable DEF acceptErrs, Crowd
    <3> QED BY <1>0, <1>3, <3>1 DEF acceptErrs, peerVars, Crowd
  <2>2. Crowd'
    BY <1>0, <2>1, AcceptKeepsCrowd
  <2> QED BY <1>0, <2>1, <2>2
          DEF SlotInv, SlotTable, PendingInTable, Indices, overlappedVars, arrayVars, opVars
<1>4. CASE postAtEnd
  <2>1. UNCHANGED <<clientVars, arrayVars, removing, workPc, cnt, first>>
        /\ acceptPc' # "remove" /\ slots > 0
    BY <1>4 DEF postAtEnd, IsLive
  <2>2. PendingInTable'
    BY <1>0, <1>1, <1>4, <2>1, PostedIsInTable DEF postAtEnd
  <2>3. Indices'
    BY <1>0, <2>1 DEF Indices, arrayVars
  <2> QED BY <1>0, <2>1, <2>2, <2>3, SlotSame DEF SlotInv, clientVars, crowdVars
<1>5. CASE computeIndex
  <2>1. UNCHANGED <<clientVars, arrayVars, workPc, cnt, first, operations>> /\ removing' = slots
    BY <1>5 DEF computeIndex, opVars
  <2>2. Indices'
    BY <1>0, <1>1, <2>1 DEF Indices, arrayVars
  <2> QED BY <1>0, <2>1, <2>2, SlotSame, PendingSame DEF SlotInv, clientVars, crowdVars
<1>6. CASE removeRefused
  <2>1. removing \in 1..Len(slotSession) /\ CanRemove(removing) /\ RemoveSlot(removing)
        /\ UNCHANGED <<backlog, conn>>
    BY <1>0, <1>1, <1>6 DEF removeRefused, peerVars, Indices, CanRemove, IsLive
  <2>2. Crowd' /\ SlotTable' /\ PendingInTable' /\ Len(slotSession') = Len(slotSession)
    BY <1>0, <2>1, RemoveKeepsTables
  <2> QED BY <1>0, <1>6, <2>2 DEF removeRefused, SlotInv, Indices
<1>7. CASE mainUsesFreed \/ workerUsesFreed
  <2>1. UNCHANGED <<clientVars, acceptPc, removing, arrayVars, operations>> /\ workPc' = "undefined"
    BY <1>7 DEF mainUsesFreed, workerUsesFreed, opVars
  <2>2. Indices'
    BY <1>0, <2>1 DEF Indices, arrayVars
  <2> QED BY <1>0, <2>1, <2>2, SlotSame, PendingSame DEF SlotInv, clientVars, crowdVars
<1>8. CASE waitSignalled
  <2>1. UNCHANGED <<clientVars, acceptPc, removing, arrayVars, operations>>
        /\ first' \in 1..Len(slotSession) /\ cnt' = first'
    BY <1>1, <1>8 DEF waitSignalled, opVars
  <2>2. Indices'
    BY <1>0, <1>1, <2>1 DEF Indices, arrayVars
  <2> QED BY <1>0, <2>1, <2>2, SlotSame, PendingSame DEF SlotInv, clientVars, crowdVars
<1>9. CASE lookFails
  <2>1. UNCHANGED <<clientVars, acceptPc, removing, arrayVars, cnt, first, operations>>
        /\ workPc = "walk" /\ workPc' = "drop"
    BY <1>9 DEF lookFails, opVars
  <2>2. Indices'
    BY <1>0, <2>1 DEF Indices, arrayVars
  <2> QED BY <1>0, <2>1, <2>2, SlotSame, PendingSame DEF SlotInv, clientVars, crowdVars
<1>10. CASE dropFirst
  <2>1. first \in 1..Len(slotSession) /\ CanRemove(first) /\ RemoveSlot(first)
        /\ UNCHANGED <<backlog, conn>>
    BY <1>0, <1>10 DEF dropFirst, peerVars, Indices
  <2>2. Crowd' /\ SlotTable' /\ PendingInTable' /\ Len(slotSession') = Len(slotSession)
    BY <1>0, <2>1, RemoveKeepsTables
  <2>3. UNCHANGED <<acceptPc, removing, first>> /\ cnt' = cnt + 1 /\ cnt \in Nat \ {0}
    BY <1>0, <1>10 DEF dropFirst, Indices
  <2>4. Indices'
    BY <1>0, <2>1, <2>2, <2>3 DEF Indices
  <2> QED BY <2>2, <2>4 DEF SlotInv
<1>11. CASE serveCompleted
  <2>1. UNCHANGED <<clientVars, acceptPc, removing, arrayVars, workPc, first>> /\ cnt' = cnt + 1
        /\ workPc = "walk" /\ cnt \in 1..slots
    BY <1>0, <1>1, <1>11 DEF serveCompleted, Indices
  <2>2. PendingInTable'
    BY <1>0, <1>11, <2>1, PostedIsInTable DEF serveCompleted
  <2>3. Indices'
    BY <1>0, <2>1 DEF Indices, arrayVars
  <2> QED BY <1>0, <2>1, <2>2, <2>3, SlotSame DEF SlotInv, clientVars, crowdVars
<1>12. CASE walkOver
  <2>1. UNCHANGED <<clientVars, acceptPc, removing, arrayVars, operations>> /\ workPc' = "wait"
    BY <1>12 DEF walkOver, opVars
  <2>2. Indices'
    BY <1>0, <2>1 DEF Indices, arrayVars
  <2> QED BY <1>0, <2>1, <2>2, SlotSame, PendingSame DEF SlotInv, clientVars, crowdVars
<1>13. CASE OverlappedSystem
  <2>1. PICK s \in Client, n \in -1..BUFSIZE : CompleteOldest(s, n)
    BY <1>13 DEF OverlappedSystem
  <2>2. /\ UNCHANGED <<peerVars, backlog, handle, acceptPc, removing, arrayVars, workPc, cnt, first>>
        /\ operations[s] # <<>> /\ operations' = [operations EXCEPT ![s] = Tail(operations[s])]
    BY <2>1, Zenon DEF CompleteOldest
  <2>3. Indices'
    BY <1>0, <2>2 DEF Indices, arrayVars
  <2>4. DOMAIN operations = Client /\ UNCHANGED <<slots, slotSession, strayed>>
    BY <1>0, <2>2 DEF PendingInTable, arrayVars
  <2>5. \A c \in Client : operations'[c] # <<>> => operations[c] # <<>>
    BY <2>2, <2>4
  <2>6. PendingInTable'
    BY <1>0, <2>2, <2>4, <2>5 DEF PendingInTable
  <2> QED BY <1>0, <2>2, <2>3, <2>6, SlotSame DEF SlotInv, peerVars, crowdVars
<1>14. CASE ClientsNext /\ UNCHANGED overlappedVars
  <2>1. Crowd' /\ handle' = handle
    BY <1>0, <1>14, ClientsKeepCrowd
  <2> QED BY <1>0, <1>14, <2>1
          DEF overlappedVars, arrayVars, opVars, SlotInv, SlotTable, PendingInTable, Indices
<1>15. CASE UNCHANGED <<clientVars, overlappedVars>>
  BY <1>0, <1>15, SlotSame, PendingSame
     DEF clientVars, overlappedVars, arrayVars, opVars, crowdVars, SlotInv, Indices
<1> QED BY <1>2, <1>3, <1>4, <1>5, <1>6, <1>7, <1>8, <1>9, <1>10, <1>11, <1>12, <1>13, <1>14, <1>15
        DEF OverlappedStep, OverlappedNext, OverlappedMain, OverlappedWorker

(* sessions and events stay parallel and no session is in the table twice,     *)
(* although two threads add and remove and keep an index over the gap between  *)
(* two locked regions; a session with an operation pending is in the table and *)
(* one in the table is open.  The latter two are not claimed of the sessions   *)
(* that a removal at a stale index hit, where the code breaks them.            *)
THEOREM ArraysStayParallel == OverlappedSpec => []SlotsMatch
<1>1. SlotInv => SlotsMatch
  BY SlotTableShown
<1>2. SlotInv /\ [OverlappedStep]_<<clientVars, overlappedVars>> => SlotInv'
  BY SlotInvNext
<1> QED BY <1>1, <1>2, SlotInvInit, PTL DEF OverlappedSpec


-----------------------------------------------------------------------------
(* The overlapped server with completion routines.                            *)
HandOverTypes == /\ backlog \in Seq(Client)
                 /\ accepted \in Seq(Client) /\ taken \in Seq(Client)
                 /\ hReadEvent \in BOOLEAN /\ hWriteEvent \in BOOLEAN

\* clientSock is in one pair of hands: main's, while it accepts, the worker's,
\* while it takes the socket, or those of whoever is signalled.
OneTurn == /\ mainPc = "accept" => ~hReadEvent /\ ~hWriteEvent /\ workerPc # "taken"
           /\ hReadEvent => ~hWriteEvent /\ workerPc # "taken"
           /\ hWriteEvent => workerPc # "taken"

\* A socket is in clientSock that the worker has not read yet.
OnItsWay == hWriteEvent \/ (workerPc = "taken" /\ newSession = NoSocket)

HandOver == /\ OnItsWay => clientSock \in Client /\ accepted = Append(taken, clientSock)
            /\ ~OnItsWay => taken = accepted
            /\ workerPc = "wait" => newSession = NoSocket

HandOverInv == HandOverTypes /\ OneTurn /\ HandOver

LEMMA InOrderFromInv == HandOverInv => HandedOverInOrder
<1> SUFFICES ASSUME HandOverInv, OnItsWay PROVE HandedOverInOrder
  BY DEF HandOverInv, HandOver, HandedOverInOrder
<1>1. clientSock \in Client /\ accepted = Append(taken, clientSock) /\ taken \in Seq(Client)
  BY DEF HandOverInv, HandOver, HandOverTypes
<1>2. accepted # <<>> /\ SubSeq(accepted, 1, Len(accepted) - 1) = taken
  BY <1>1, AppendProperties
<1> QED BY <1>2 DEF HandedOverInOrder

LEMMA HandOverInit == ClientsInit /\ RoutineInit => HandOverInv
<1> SUFFICES ASSUME ClientsInit, RoutineInit PROVE HandOverInv
  OBVIOUS
<1>1. backlog = <<>> /\ accepted = <<>> /\ taken = <<>> /\ hReadEvent = TRUE
      /\ hWriteEvent = FALSE /\ mainPc = "wait" /\ workerPc = "wait" /\ newSession = NoSocket
  BY DEF ClientsInit, RoutineInit
<1>2. HandOverTypes
  <2>1. backlog \in Seq(Client) /\ accepted \in Seq(Client) /\ taken \in Seq(Client)
    BY <1>1, EmptySeq
  <2>2. hReadEvent \in BOOLEAN /\ hWriteEvent \in BOOLEAN
    BY <1>1
  <2> QED BY <2>1, <2>2 DEF HandOverTypes
<1>3. OneTurn /\ HandOver
  BY <1>1 DEF OneTurn, HandOver, OnItsWay
<1> QED BY <1>2, <1>3 DEF HandOverInv

LEMMA BacklogKept ==
  ASSUME backlog \in Seq(Client), ClientsNext
  PROVE  backlog' \in Seq(Client)
  BY DEF ClientsNext, Connect, ClientSend, ClientLeave

LEMMA MainKeepsHandOver == ASSUME HandOverInv, RoutineMain PROVE HandOverInv'
<1> USE DEF HandOverInv, HandOverTypes, OneTurn, HandOver, OnItsWay
<1>1. CASE waitForRead
  BY <1>1 DEF waitForRead, clientVars
<1>2. CASE acceptIntoGlobal
  <2>1. Head(backlog) \in Client /\ Tail(backlog) \in Seq(Client)
    BY <1>2 DEF acceptIntoGlobal
  <2>2. taken = accepted /\ workerPc # "taken" /\ ~hReadEvent
    BY <1>2 DEF acceptIntoGlobal
  <2>3. /\ clientSock' = Head(backlog) /\ accepted' = Append(accepted, Head(backlog))
        /\ taken' = taken /\ hWriteEvent' = TRUE /\ hReadEvent' = hReadEvent
        /\ mainPc' = "wait" /\ workerPc' = workerPc /\ newSession' = newSession
        /\ backlog' = Tail(backlog)
    BY <1>2 DEF acceptIntoGlobal, AcceptNext
  <2>4. HandOverTypes'
    BY <2>1, <2>3, AppendProperties
  <2> QED BY <2>1, <2>2, <2>3, <2>4
<1>3. CASE acceptBreaks
  BY <1>3 DEF acceptBreaks, clientVars
<1> QED BY <1>1, <1>2, <1>3 DEF RoutineMain

LEMMA WorkerKeepsHandOver == ASSUME HandOverInv, RoutineWorker PROVE HandOverInv'
<1> USE DEF HandOverInv, HandOverTypes, OneTurn, HandOver, OnItsWay
<1>1. CASE waitForWrite
  BY <1>1 DEF waitForWrite, clientVars
<1>2. CASE takeSocket
  <2>1. clientSock \in Client /\ accepted = Append(taken, clientSock) /\ ~hWriteEvent
    BY <1>2 DEF takeSocket
  <2>2. /\ taken' = accepted /\ accepted' = accepted /\ newSession' = clientSock
        /\ UNCHANGED <<backlog, hReadEvent, hWriteEvent, mainPc, workerPc, clientSock>>
    BY <1>2, <2>1 DEF takeSocket, clientVars
  <2>3. ~OnItsWay'
    BY <1>2, <2>1, <2>2, RoutineAssumption DEF takeSocket
  <2> QED BY <1>2, <2>2, <2>3 DEF takeSocket
<1>3. CASE giveBack
  BY <1>3 DEF giveBack, clientVars
<1>4. CASE postFirst
  BY <1>4 DEF postFirst, clientVars
<1>5. CASE CompletionRoutine
  BY <1>5 DEF CompletionRoutine
<1> QED BY <1>1, <1>2, <1>3, <1>4, <1>5 DEF RoutineWorker

LEMMA SystemKeepsHandOver == ASSUME HandOverInv, RoutineSystem PROVE HandOverInv'
<1>1. UNCHANGED <<backlog, mainPc, hReadEvent, hWriteEvent, clientSock, workerPc, newSession,
                  accepted, taken>>
  BY DEF RoutineSystem, ReceiveCompletes, SendCompletes
<1> QED BY <1>1 DEF HandOverInv, HandOverTypes, OneTurn, HandOver, OnItsWay

LEMMA HandOverNext ==
  ASSUME HandOverInv, [RoutineStep]_<<clientVars, routineVars>>
  PROVE  HandOverInv'
<1>1. CASE RoutineNext
  BY <1>1, MainKeepsHandOver, WorkerKeepsHandOver, SystemKeepsHandOver DEF RoutineNext
<1>2. CASE ClientsNext /\ UNCHANGED routineVars
  BY <1>2, BacklogKept
     DEF routineVars, HandOverInv, HandOverTypes, OneTurn, HandOver, OnItsWay
<1>3. CASE UNCHANGED <<clientVars, routineVars>>
  BY <1>3 DEF clientVars, routineVars, HandOverInv, HandOverTypes, OneTurn, HandOver, OnItsWay
<1> QED BY <1>1, <1>2, <1>3 DEF RoutineStep

(* Two events and one variable hand every accepted socket to the worker once   *)
(* and in order, whatever the threads' speeds and whoever else is served.     *)
THEOREM SocketsAreHandedOver == RoutineSpec => []HandedOverInOrder
<1>1. HandOverInv /\ [RoutineStep]_<<clientVars, routineVars>> => HandOverInv'
  BY HandOverNext
<1> QED BY <1>1, HandOverInit, InOrderFromInv, PTL DEF RoutineSpec


\* A session receives once: it waits for that receive, for its routine, for its
\* send, or for nothing any more.
Due == {completed[i][1] : i \in 1..Len(completed)}

Sending == {c \in Client : <<c, c>> \in sending}

Answered == {c \in Client : echoed[c] # <<>>}

RoutineTypes == /\ receiving \subseteq Client /\ completed \in Seq(Client \X Int)
                /\ sending \subseteq {<<c, c>> : c \in Client}
                /\ buffer \in [Client -> Seq(Bytes)]

Once == /\ \A i, j \in 1..Len(completed) : completed[i][1] = completed[j][1] => i = j
        /\ receiving \cap Due = {} /\ receiving \cap Sending = {} /\ Due \cap Sending = {}
        /\ (receiving \cup Due \cup Sending) \cap Answered = {}

\* Only sockets made into sessions receive, the newest not before postFirst.
Started == /\ receiving \cup Due \cup Sending \cup Answered \subseteq Members(taken) \ {newSession}
           /\ newSession # NoSocket => newSession \in Client /\ newSession \in Members(taken)
           /\ workerPc = "post" => newSession # NoSocket

Holding == /\ IsTable(accepted) /\ accepted \in Seq(Client)
           /\ \A c \in Members(accepted) : handle[c] # "none"
           /\ clientSock \in Client \cup {NoSocket}
           /\ clientSock # NoSocket => handle[clientSock] # "none"

\* A buffer holds a stretch of its client's bytes.
Buffered == \A c \in Client : \E a \in Nat :
               IsStretch(c, buffer[c], a) /\ a + Len(buffer[c]) <= Gone(c)

Sessions == RoutineTypes /\ Once /\ Started

RoutineInv == /\ HandOverInv /\ Crowd /\ Holding /\ Sessions
              /\ Traffic /\ Echoes /\ Buffered

LEMMA DueIsAppended ==
  ASSUME RoutineTypes, Once, NEW s \in Client, NEW n \in Int, s \notin Due,
         completed' = Append(completed, <<s, n>>)
  PROVE  /\ completed' \in Seq(Client \X Int) /\ Due' = Due \cup {s}
         /\ \A i, j \in 1..Len(completed') : completed'[i][1] = completed'[j][1] => i = j
<1> DEFINE m == Len(completed)
<1>1. completed \in Seq(Client \X Int) /\ m \in Nat /\ <<s, n>> \in Client \X Int
  BY DEF RoutineTypes
<1>2. /\ completed' \in Seq(Client \X Int) /\ Len(completed') = m + 1
      /\ completed'[m + 1] = <<s, n>> /\ \A k \in 1..m : completed'[k] = completed[k]
  BY <1>1, AppendProperties
<1>3. \A k \in 1..m : completed[k][1] # s
  BY DEF Due
<1>4. \A i, j \in 1..m : completed[i][1] = completed[j][1] => i = j
  BY DEF Once
<1> HIDE DEF m
<1>5. \A k \in 1..m + 1 : k = m + 1 \/ k \in 1..m
  BY <1>1
<1>6. completed'[m + 1][1] = s
  BY <1>2
<1>7. ASSUME NEW i \in 1..m + 1, NEW j \in 1..m + 1, completed'[i][1] = completed'[j][1]
      PROVE  i = j
  <2>1. CASE i \in 1..m /\ j \in 1..m
    <3>1. completed'[i] = completed[i] /\ completed'[j] = completed[j]
      BY <1>2, <2>1
    <3>2. completed[i][1] = completed[j][1]
      BY <1>7, <3>1
    <3> QED BY <1>4, <2>1, <3>2
  <2>2. CASE i \in 1..m /\ j = m + 1
    <3>1. completed[i][1] = s
      BY <1>2, <1>6, <1>7, <2>2
    <3> QED BY <1>3, <2>2, <3>1
  <2>3. CASE i = m + 1 /\ j \in 1..m
    <3>1. completed[j][1] = s
      BY <1>2, <1>6, <1>7, <2>3
    <3> QED BY <1>3, <2>3, <3>1
  <2> QED BY <1>5, <2>1, <2>2, <2>3
<1>8. Due' = Due \cup {s}
  <2>1. Due' = {completed'[i][1] : i \in 1..m + 1} /\ Due = {completed[i][1] : i \in 1..m}
    BY <1>2 DEF Due, m
  <2>2. m + 1 \in 1..m + 1 /\ \A i \in 1..m : i \in 1..m + 1
    BY <1>1
  <2>3. ASSUME NEW x \in Due PROVE x \in Due'
    <3>1. PICK i \in 1..m : x = completed[i][1]
      BY <2>1
    <3>2. completed'[i][1] = x /\ i \in 1..m + 1
      BY <1>2, <2>2, <3>1
    <3> QED BY <2>1, <3>2
  <2>4. s \in Due'
    BY <1>6, <2>1, <2>2
  <2>5. ASSUME NEW x \in Due' PROVE x \in Due \cup {s}
    <3>1. PICK i \in 1..m + 1 : x = completed'[i][1]
      BY <2>1
    <3>2. CASE i = m + 1
      BY <1>6, <3>1, <3>2
    <3>3. CASE i \in 1..m
      <4>1. completed[i][1] = x
        BY <1>2, <3>1, <3>3
      <4> QED BY <2>1, <3>3, <4>1
    <3> QED BY <1>5, <3>2, <3>3
  <2> HIDE DEF Due
  <2> QED BY <2>3, <2>4, <2>5
<1> QED BY <1>2, <1>7, <1>8

LEMMA DueIsTaken ==
  ASSUME RoutineTypes, Once, completed # <<>>, completed' = Tail(completed)
  PROVE  /\ completed' \in Seq(Client \X Int)
         /\ Head(completed)[1] \in Client /\ Head(completed)[1] \in Due
         /\ Head(completed)[2] \in Int /\ Due' = Due \ {Head(completed)[1]}
         /\ \A i, j \in 1..Len(completed') : completed'[i][1] = completed'[j][1] => i = j
<1> DEFINE m == Len(completed)
<1>1. /\ completed \in Seq(Client \X Int) /\ m \in Nat \ {0}
      /\ Head(completed) = completed[1] /\ completed[1] \in Client \X Int
  BY DEF RoutineTypes
<1>2. /\ completed' \in Seq(Client \X Int) /\ Len(completed') = m - 1
      /\ \A k \in 1..m - 1 : completed'[k] = completed[k + 1]
  BY <1>1, HeadTailProperties
<1>3. \A i, j \in 1..m : completed[i][1] = completed[j][1] => i = j
  BY DEF Once
<1>4. Due' = {completed'[i][1] : i \in 1..m - 1} /\ Due = {completed[i][1] : i \in 1..m}
  BY <1>2 DEF Due
<1> HIDE DEF m
<1>5. ASSUME NEW i \in 1..m - 1, NEW j \in 1..m - 1, completed'[i][1] = completed'[j][1]
      PROVE  i = j
  <2>1. i + 1 \in 1..m /\ j + 1 \in 1..m
    BY <1>1
  <2>2. completed[i + 1][1] = completed[j + 1][1]
    BY <1>2, <1>5
  <2>3. i + 1 = j + 1
    BY <1>3, <2>1, <2>2
  <2> QED BY <2>3
<1>6. completed[1][1] \in Due /\ completed[1][1] \in Client /\ completed[1][2] \in Int
  BY <1>1, <1>4
<1>7. Due' = Due \ {completed[1][1]}
  <2>1. ASSUME NEW x \in Due' PROVE x \in Due /\ x # completed[1][1]
    <3>1. PICK k \in 1..m - 1 : x = completed'[k][1]
      BY <1>4
    <3>2. k + 1 \in 1..m /\ k + 1 # 1 /\ 1 \in 1..m /\ x = completed[k + 1][1]
      BY <1>1, <1>2, <3>1
    <3> QED BY <1>3, <1>4, <3>2
  <2>2. ASSUME NEW x \in Due, x # completed[1][1] PROVE x \in Due'
    <3>1. PICK k \in 1..m : x = completed[k][1]
      BY <1>4
    <3>2. k - 1 \in 1..m - 1 /\ completed'[k - 1] = completed[k]
      BY <1>1, <1>2, <2>2, <3>1
    <3> QED BY <1>4, <3>1, <3>2
  <2> QED BY <2>1, <2>2
<1> QED BY <1>1, <1>2, <1>5, <1>6, <1>7

LEMMA RoutineInvInit == ClientsInit /\ RoutineInit => RoutineInv
<1> SUFFICES ASSUME ClientsInit, RoutineInit PROVE RoutineInv
  OBVIOUS
<1>1. HandOverInv /\ Crowd /\ Traffic /\ Echoes
  BY HandOverInit, CrowdInit, EchoesInit
<1>2. /\ receiving = {} /\ completed = <<>> /\ sending = {} /\ newSession = NoSocket
      /\ clientSock = NoSocket /\ accepted = <<>> /\ taken = <<>> /\ workerPc = "wait"
      /\ buffer = [c \in Client |-> <<>>] /\ echoed = [c \in Client |-> <<>>]
  BY DEF ClientsInit, RoutineInit
<1>3. <<>> \in Seq(Bytes) /\ <<>> \in Seq(Client \X Int) /\ <<>> \in Seq(Client) /\ Len(<<>>) = 0
  BY EmptySeq
<1>4. Len(completed) = 0 /\ Len(accepted) = 0
  BY <1>2, <1>3, Zenon
<1>5. Due = {} /\ Sending = {} /\ Answered = {}
  BY <1>2, <1>4 DEF Due, Sending, Answered
<1>6. RoutineTypes /\ Once /\ Started
  BY <1>2, <1>3, <1>4, <1>5 DEF RoutineTypes, Once, Started
<1>7. Holding
  BY <1>2, <1>3, <1>4 DEF Holding, IsTable, Members
<1>8. Buffered
  <2>1. ASSUME NEW c \in Client PROVE IsStretch(c, buffer[c], 0) /\ 0 + Len(buffer[c]) <= Gone(c)
    <3>1. buffer[c] = <<>>
      BY <1>2
    <3>2. Len(buffer[c]) = 0 /\ buffer[c] \in Seq(Bytes)
      BY <1>3, <3>1, Zenon
    <3>3. Gone(c) \in Nat
      BY <1>1 DEF Traffic
    <3> QED BY <3>2, <3>3 DEF IsStretch
  <2> QED BY <2>1 DEF Buffered
<1> QED BY <1>1, <1>6, <1>7, <1>8 DEF RoutineInv, Sessions

\* Nothing happens to the bytes, or what happens is not about the buffers.
LEMMA BufferedSame ==
  ASSUME Traffic, Traffic', Buffered, buffer' = buffer, \A c \in Client : Gone(c) <= Gone(c)',
         buffer \in [Client -> Seq(Bytes)]
  PROVE  Buffered'
<1>1. ASSUME NEW c \in Client
      PROVE  \E a \in Nat : IsStretch(c, buffer[c], a)' /\ a + Len(buffer'[c]) <= Gone(c)'
  <2>1. PICK a \in Nat : IsStretch(c, buffer[c], a) /\ a + Len(buffer[c]) <= Gone(c)
    BY DEF Buffered
  <2>2. Gone(c) \in Nat /\ Gone(c)' \in Nat /\ Gone(c) <= Gone(c)' /\ Len(buffer[c]) \in Nat
    BY DEF Traffic
  <2>3. IsStretch(c, buffer[c], a)'
    BY <2>1 DEF IsStretch
  <2>4. a + Len(buffer'[c]) <= Gone(c)'
    BY <2>1, <2>2
  <2> QED BY <2>3, <2>4
<1> QED BY <1>1 DEF Buffered

LEMMA BytesSame ==
  ASSUME RoutineInv, UNCHANGED trafficVars, echoed' = echoed, buffer' = buffer
  PROVE  Traffic' /\ Echoes' /\ Buffered'
<1>1. Traffic' /\ \A c \in Client : Gone(c) <= Gone(c)'
  BY TrafficSame DEF RoutineInv, Traffic
<1> QED BY <1>1, EchoesSame, BufferedSame DEF RoutineInv, Sessions, RoutineTypes

LEMMA SessionsSame ==
  ASSUME Sessions, UNCHANGED systemVars, echoed' = echoed, UNCHANGED <<taken, newSession>>,
         workerPc' = "post" => newSession # NoSocket
  PROVE  Sessions'
BY DEF Sessions, RoutineTypes, Once, Started, systemVars, Due, Sending, Answered, Members

LEMMA HoldingSame ==
  ASSUME Holding, UNCHANGED <<accepted, handle>>, clientSock' \in {clientSock, NoSocket}
  PROVE  Holding'
BY DEF Holding, IsTable, Members

\* main, but for the accept, and the two waits only pass the turn.
LEMMA TurnsKeepRoutine ==
  ASSUME RoutineInv, waitForRead \/ waitForWrite \/ giveBack \/ acceptBreaks
  PROVE  Crowd' /\ Holding' /\ Sessions' /\ Traffic' /\ Echoes' /\ Buffered'
<1>1. /\ UNCHANGED clientVars /\ UNCHANGED systemVars /\ UNCHANGED <<accepted, taken, newSession>>
      /\ clientSock' \in {clientSock, NoSocket} /\ (workerPc' = "post" => newSession # NoSocket)
  BY DEF waitForRead, waitForWrite, giveBack, acceptBreaks, RoutineInv, Sessions, Started
<1>2. Crowd'
  BY <1>1, CrowdSame DEF RoutineInv, clientVars, crowdVars
<1>3. Holding'
  BY <1>1, HoldingSame DEF RoutineInv, clientVars
<1>4. Sessions'
  BY <1>1, SessionsSame DEF RoutineInv, clientVars
<1>5. Traffic' /\ Echoes' /\ Buffered'
  BY <1>1, BytesSame DEF clientVars, trafficVars, systemVars
<1> QED BY <1>2, <1>3, <1>4, <1>5

LEMMA AcceptKeepsRoutine ==
  ASSUME RoutineInv, acceptIntoGlobal
  PROVE  Crowd' /\ Holding' /\ Sessions' /\ Traffic' /\ Echoes' /\ Buffered'
<1> DEFINE c == Head(backlog)
<1>1. /\ backlog # <<>> /\ backlog' = Tail(backlog) /\ handle' = [handle EXCEPT ![c] = "open"]
      /\ clientSock' = c /\ accepted' = Append(accepted, c) /\ UNCHANGED <<taken, newSession, workerPc>>
      /\ UNCHANGED ownClientVars /\ UNCHANGED systemVars /\ UNCHANGED <<inbox, echoed>>
  BY DEF acceptIntoGlobal, AcceptNext
<1>2. Crowd' /\ c \in Client /\ handle[c] = "none"
  BY <1>1, AcceptKeepsCrowd DEF RoutineInv, ownClientVars
<1> HIDE DEF c
<1>3. c \notin Members(accepted) /\ IsTable(accepted) /\ accepted \in Seq(Client)
  BY <1>2 DEF RoutineInv, Holding
<1>4. /\ accepted' \in Seq(Client) /\ IsTable(accepted')
      /\ Members(accepted') = Members(accepted) \cup {c}
  BY <1>1, <1>2, <1>3, AppendToTable
<1>5. \A d \in Members(accepted) : d \in Client
  BY <1>3 DEF Members
<1>6. handle'[c] = "open" /\ \A d \in Client : d # c => handle'[d] = handle[d]
  BY <1>1, <1>2 DEF RoutineInv, Crowd
<1>7. Holding'
  BY <1>1, <1>2, <1>4, <1>5, <1>6 DEF RoutineInv, Holding
<1>8. Sessions'
  BY <1>1, SessionsSame DEF RoutineInv, Sessions, Started
<1>9. Traffic' /\ Echoes' /\ Buffered'
  BY <1>1, BytesSame DEF ownClientVars, trafficVars, systemVars
<1> QED BY <1>2, <1>7, <1>8, <1>9

LEMMA TakingKeepsRoutine ==
  ASSUME RoutineInv, takeSocket
  PROVE  Crowd' /\ Holding' /\ Sessions' /\ Traffic' /\ Echoes' /\ Buffered'
<1>1. /\ UNCHANGED clientVars /\ UNCHANGED systemVars /\ UNCHANGED <<accepted, clientSock, workerPc>>
      /\ newSession = NoSocket /\ newSession' = clientSock /\ taken' = Append(taken, clientSock)
      /\ workerPc = "taken"
  BY DEF takeSocket
<1>2. clientSock \in Client /\ accepted = Append(taken, clientSock) /\ taken \in Seq(Client)
  BY <1>1 DEF RoutineInv, HandOverInv, HandOverTypes, HandOver, OnItsWay
<1>3. IsTable(accepted)
  BY DEF RoutineInv, Holding
<1>4. /\ Len(accepted) = Len(taken) + 1 /\ Len(taken) \in Nat
      /\ accepted[Len(taken) + 1] = clientSock
      /\ \A k \in 1..Len(taken) : accepted[k] = taken[k]
  BY <1>2, AppendProperties
<1>5. clientSock \notin Members(taken)
  <2>1. ASSUME NEW k \in 1..Len(taken) PROVE taken[k] # clientSock
    <3>1. k \in 1..Len(accepted) /\ Len(taken) + 1 \in 1..Len(accepted) /\ k # Len(taken) + 1
      BY <1>4
    <3> QED BY <1>3, <1>4, <3>1 DEF IsTable
  <2> QED BY <2>1 DEF Members
<1>6. IsTable(taken)
  <2>1. ASSUME NEW j \in 1..Len(taken), NEW k \in 1..Len(taken), taken[j] = taken[k] PROVE j = k
    <3>1. j \in 1..Len(accepted) /\ k \in 1..Len(accepted) /\ accepted[j] = accepted[k]
      BY <1>4, <2>1
    <3> QED BY <1>3, <3>1 DEF IsTable
  <2> QED BY <2>1 DEF IsTable
<1>7. Members(taken') = Members(taken) \cup {clientSock}
  BY <1>1, <1>2, <1>5, <1>6, AppendToTable
<1>8. Due' = Due /\ Sending' = Sending /\ Answered' = Answered
  BY <1>1 DEF Due, Sending, Answered, systemVars, clientVars
<1>9. Sessions'
  <2>1. RoutineTypes' /\ Once'
    BY <1>1, <1>8 DEF RoutineInv, Sessions, RoutineTypes, Once, systemVars
  <2>2. Started'
    BY <1>1, <1>2, <1>5, <1>7, <1>8, RoutineAssumption DEF RoutineInv, Sessions, Started, systemVars
  <2> QED BY <2>1, <2>2 DEF Sessions
<1>10. Crowd' /\ Holding'
  BY <1>1, CrowdSame, HoldingSame DEF RoutineInv, clientVars, crowdVars
<1>11. Traffic' /\ Echoes' /\ Buffered'
  BY <1>1, BytesSame DEF clientVars, trafficVars, systemVars
<1> QED BY <1>9, <1>10, <1>11

LEMMA PostingKeepsRoutine ==
  ASSUME RoutineInv, postFirst
  PROVE  Crowd' /\ Holding' /\ Sessions' /\ Traffic' /\ Echoes' /\ Buffered'
<1>1. /\ UNCHANGED clientVars /\ UNCHANGED <<accepted, clientSock, taken, completed, buffer, sending>>
      /\ workerPc = "post" /\ newSession' = NoSocket /\ workerPc' # "post"
      /\ receiving' = receiving \/ receiving' = receiving \cup {newSession}
  BY DEF postFirst
<1>2. newSession \in Client /\ newSession \in Members(taken)
  BY <1>1 DEF RoutineInv, Sessions, Started
<1>3. Due' = Due /\ Sending' = Sending /\ Answered' = Answered /\ Members(taken') = Members(taken)
  BY <1>1 DEF Due, Sending, Answered, clientVars, Members
<1>4. Members(taken) \subseteq Client
  BY DEF Members, RoutineInv, HandOverInv, HandOverTypes
<1>5. newSession \notin Due /\ newSession \notin Sending /\ newSession \notin Answered
  BY DEF RoutineInv, Sessions, Started
<1>6. RoutineTypes' /\ Once'
  BY <1>1, <1>2, <1>3, <1>5 DEF RoutineInv, Sessions, RoutineTypes, Once
<1>7. Started'
  BY <1>1, <1>2, <1>3, <1>4, RoutineAssumption DEF RoutineInv, Sessions, Started
<1>8. Crowd' /\ Holding'
  BY <1>1, CrowdSame, HoldingSame DEF RoutineInv, clientVars, crowdVars
<1>9. Traffic' /\ Echoes' /\ Buffered'
  BY <1>1, BytesSame DEF clientVars, trafficVars
<1> QED BY <1>6, <1>7, <1>8, <1>9 DEF Sessions

LEMMA CompletionKeepsRoutine ==
  ASSUME RoutineInv, CompletionRoutine
  PROVE  Crowd' /\ Holding' /\ Sessions' /\ Traffic' /\ Echoes' /\ Buffered'
<1> DEFINE s == Head(completed)[1]
<1>1. /\ completed # <<>> /\ completed' = Tail(completed) /\ UNCHANGED ownClientVars
      /\ UNCHANGED <<backlog, inbox, echoed, clientSock, workerPc, newSession, receiving, buffer,
                     accepted, taken>>
      /\ \/ /\ handle' = [c \in Client |-> IF c = clientSock THEN "closed" ELSE handle[c]]
            /\ sending' = sending
         \/ /\ handle' = handle
            /\ sending' = sending \/ sending' = sending \cup {<<s, s>>}
  BY DEF CompletionRoutine, SocketOf
<1>2. /\ completed' \in Seq(Client \X Int) /\ s \in Client /\ s \in Due /\ Due' = Due \ {s}
      /\ \A i, j \in 1..Len(completed') : completed'[i][1] = completed'[j][1] => i = j
  BY <1>1, DueIsTaken DEF RoutineInv, Sessions
<1> HIDE DEF s
<1>3. Sending' \subseteq Sending \cup {s} /\ Answered' = Answered
      /\ sending' \subseteq {<<c, c>> : c \in Client}
  BY <1>1, <1>2 DEF Sending, Answered, RoutineInv, Sessions, RoutineTypes
<1>4. Members(taken') = Members(taken)
  BY <1>1 DEF Members
<1>5. RoutineTypes' /\ Once'
  BY <1>1, <1>2, <1>3 DEF RoutineInv, Sessions, RoutineTypes, Once
<1>6. Started'
  BY <1>1, <1>2, <1>3, <1>4 DEF RoutineInv, Sessions, Started
<1>7. Crowd' /\ Holding'
  <2>1. CASE handle' = handle
    BY <1>1, <2>1, CrowdSame, HoldingSame DEF RoutineInv, ownClientVars, crowdVars
  <2>2. CASE handle' = [c \in Client |-> IF c = clientSock THEN "closed" ELSE handle[c]]
    <3>1. CASE clientSock = NoSocket
      <4>1. handle' = handle
        BY <2>2, <3>1, RoutineAssumption DEF RoutineInv, Crowd
      <4> QED BY <2>1, <4>1
    <3>2. CASE clientSock # NoSocket
      <4>1. clientSock \in Client /\ handle[clientSock] # "none"
        BY <3>2 DEF RoutineInv, Holding
      <4>2. CloseSocket(clientSock)
        BY <2>2, <4>1 DEF CloseSocket, RoutineInv, Crowd
      <4>3. Crowd'
        BY <1>1, <4>1, <4>2, CloseKeepsCrowd DEF RoutineInv, ownClientVars
      <4>4. \A c \in Client : handle[c] # "none" => handle'[c] # "none"
        BY <2>2
      <4>5. Members(accepted) \subseteq Client /\ Members(accepted') = Members(accepted)
        BY <1>1 DEF Members, RoutineInv, Holding
      <4>6. Holding'
        BY <1>1, <4>1, <4>4, <4>5 DEF RoutineInv, Holding, IsTable
      <4> QED BY <4>3, <4>6
    <3> QED BY <3>1, <3>2
  <2> QED BY <1>1, <2>1, <2>2
<1>8. Traffic' /\ Echoes' /\ Buffered'
  BY <1>1, BytesSame DEF ownClientVars, trafficVars
<1> QED BY <1>5, <1>6, <1>7, <1>8 DEF Sessions


LEMMA ReceivingKeepsRoutine ==
  ASSUME RoutineInv, NEW s \in Client, NEW n \in -1..BUFSIZE, ReceiveCompletes(s, n)
  PROVE  Crowd' /\ Holding' /\ Sessions' /\ Traffic' /\ Echoes' /\ Buffered'
<1>1. /\ s \in receiving /\ receiving' = receiving \ {s} /\ completed' = Append(completed, <<s, n>>)
      /\ n \in RecvResults(s) \cup {-1} /\ TakeFromInbox(s, n)
      /\ buffer' = [buffer EXCEPT ![s] = SubSeq(inbox[s], 1, n)]
      /\ UNCHANGED ownClientVars
      /\ UNCHANGED <<backlog, handle, echoed, sending, clientSock, workerPc, newSession, accepted, taken>>
  BY DEF ReceiveCompletes
<1>2. Crowd' /\ Holding'
  BY <1>1, CrowdSame, HoldingSame DEF RoutineInv, ownClientVars, crowdVars
<1>3. Sending' = Sending /\ Answered' = Answered /\ Members(taken') = Members(taken)
  BY <1>1 DEF Sending, Answered, Members
<1>4. s \notin Due /\ s \notin Sending /\ s \notin Answered /\ n \in Int
  BY <1>1, ClientsAssumption DEF RoutineInv, Sessions, Once
<1>5. /\ completed' \in Seq(Client \X Int) /\ Due' = Due \cup {s}
      /\ \A i, j \in 1..Len(completed') : completed'[i][1] = completed'[j][1] => i = j
  BY <1>1, <1>4, DueIsAppended DEF RoutineInv, Sessions
<1>6. /\ Traffic' /\ (\A d \in Client : Gone(d) <= Gone(d)')
      /\ n > 0 => n \in 1..Len(inbox[s]) /\ Gone(s)' = Gone(s) + n
  BY <1>1, TakeKeepsTraffic DEF RoutineInv, ownClientVars
<1>7. /\ Gone(s) \in Nat /\ Gone(s)' \in Nat /\ IsStretch(s, inbox[s], Gone(s))
      /\ inbox[s] \in Seq(Bytes) /\ Len(inbox[s]) \in Nat
  BY <1>6 DEF RoutineInv, Traffic
<1> DEFINE cut == SubSeq(inbox[s], 1, n)
<1>8. \E a \in Nat : IsStretch(s, cut, a) /\ a + Len(cut) <= Gone(s)'
  <2>1. CASE n > 0
    <3>1. n \in 0..Len(inbox[s])
      BY <1>6, <1>7, <2>1
    <3>2. IsStretch(s, cut, Gone(s)) /\ Len(cut) = n
      BY <1>7, <3>1, StretchCut
    <3> HIDE DEF cut
    <3>3. Gone(s) + Len(cut) <= Gone(s)'
      BY <1>6, <1>7, <2>1, <3>2
    <3> QED BY <1>7, <3>2, <3>3
  <2>2. CASE ~(n > 0)
    <3>1. cut \in Seq(Bytes) /\ Len(cut) = 0
      BY <1>4, <1>7, <2>2
    <3> HIDE DEF cut
    <3>2. IsStretch(s, cut, 0) /\ 0 + Len(cut) <= Gone(s)'
      BY <1>7, <3>1 DEF IsStretch
    <3> QED BY <3>2
  <2> QED BY <2>1, <2>2
<1>9. cut \in Seq(Bytes)
  BY <1>8 DEF IsStretch
<1> HIDE DEF cut
<1>10. /\ buffer' \in [Client -> Seq(Bytes)] /\ buffer'[s] = cut
       /\ \A d \in Client : d # s => buffer'[d] = buffer[d]
  BY <1>1, <1>9 DEF cut, RoutineInv, Sessions, RoutineTypes
<1>11. RoutineTypes' /\ Once'
  BY <1>1, <1>3, <1>4, <1>5, <1>10 DEF RoutineInv, Sessions, RoutineTypes, Once
<1>12. Started'
  BY <1>1, <1>3, <1>5 DEF RoutineInv, Sessions, Started
<1>13. Buffered'
  <2>1. ASSUME NEW d \in Client
        PROVE  \E a \in Nat : IsStretch(d, buffer[d], a)' /\ a + Len(buffer'[d]) <= Gone(d)'
    <3>1. CASE d = s
      <4>1. PICK a \in Nat : IsStretch(s, cut, a) /\ a + Len(cut) <= Gone(s)'
        BY <1>8
      <4>2. IsStretch(d, buffer[d], a)'
        BY <1>10, <3>1, <4>1 DEF IsStretch
      <4> QED BY <1>10, <3>1, <4>1, <4>2
    <3>2. CASE d # s
      <4>1. PICK a \in Nat : IsStretch(d, buffer[d], a) /\ a + Len(buffer[d]) <= Gone(d)
        BY DEF RoutineInv, Buffered
      <4>2. IsStretch(d, buffer[d], a)'
        BY <1>10, <3>2, <4>1 DEF IsStretch
      <4>3. Gone(d) \in Nat /\ Gone(d)' \in Nat /\ Gone(d) <= Gone(d)' /\ Len(buffer[d]) \in Nat
        BY <1>6, <4>1 DEF RoutineInv, Traffic, IsStretch
      <4>4. a + Len(buffer'[d]) <= Gone(d)'
        BY <1>10, <3>2, <4>1, <4>3
      <4> QED BY <4>2, <4>4
    <3> QED BY <3>1, <3>2
  <2> QED BY <2>1 DEF Buffered
<1>14. Echoes'
  BY <1>1, <1>6, EchoesSame DEF RoutineInv
<1> QED BY <1>2, <1>6, <1>11, <1>12, <1>13, <1>14 DEF Sessions

\* The one answer of a session is a part of its buffer.
LEMMA SendingKeepsRoutine ==
  ASSUME RoutineInv, NEW s \in Client, NEW t \in Client, NEW n \in -1..BUFSIZE, SendCompletes(t, s, n)
  PROVE  Crowd' /\ Holding' /\ Sessions' /\ Traffic' /\ Echoes' /\ Buffered'
<1> DEFINE cut == SubSeq(buffer[s], 1, n)
<1>1. t = s /\ <<s, s>> \in sending
  BY DEF SendCompletes, RoutineInv, Sessions, RoutineTypes
<1>2. /\ sending' = sending \ {<<s, s>>} /\ echoed' = [echoed EXCEPT ![s] = @ \o cut]
      /\ n \in SendResults(s, Len(buffer[s])) \cup {-1}
      /\ UNCHANGED ownClientVars
      /\ UNCHANGED <<backlog, handle, inbox, receiving, completed, buffer, clientSock, workerPc,
                     newSession, accepted, taken>>
  BY <1>1 DEF SendCompletes
<1>3. s \in Sending /\ s \notin Answered /\ s \notin receiving /\ s \notin Due /\ echoed[s] = <<>>
  BY <1>1 DEF Sending, Answered, RoutineInv, Sessions, Once
<1>4. PICK a \in Nat : IsStretch(s, buffer[s], a) /\ a + Len(buffer[s]) <= Gone(s)
  BY DEF RoutineInv, Buffered
<1>5. /\ buffer[s] \in Seq(Bytes) /\ Len(buffer[s]) \in Nat /\ Gone(s) \in Nat /\ n \in Int
      /\ n \in 0..Len(buffer[s]) \/ n = -1
  BY <1>2, <1>4, ClientsAssumption DEF IsStretch, RoutineInv, Traffic, SendResults
<1>6. IsStretch(s, cut, a) /\ a + Len(cut) <= Gone(s)
  <2>1. CASE n \in 0..Len(buffer[s])
    <3>1. IsStretch(s, cut, a) /\ Len(cut) = n
      BY <1>4, <2>1, StretchCut
    <3> HIDE DEF cut
    <3> QED BY <1>4, <1>5, <2>1, <3>1
  <2>2. CASE n = -1
    <3>1. cut \in Seq(Bytes) /\ Len(cut) = 0
      BY <1>5, <2>2
    <3> HIDE DEF cut
    <3>2. IsStretch(s, cut, a)
      BY <3>1 DEF IsStretch
    <3> QED BY <1>4, <1>5, <3>1, <3>2
  <2> QED BY <1>5, <2>1, <2>2
<1> HIDE DEF cut
<1>7. cut \in Seq(Bytes) /\ Len(cut) \in Nat
  BY <1>6 DEF IsStretch
<1>8. IsEchoUpTo(s, <<>> \o cut, Gone(s))
  <2>1. IsEchoUpTo(s, <<>>, a) /\ a <= a
    BY NothingIsAnEcho
  <2>2. IsEchoUpTo(s, <<>> \o cut, a + Len(cut))
    BY <1>6, <2>1, EchoGrows
  <2>3. a + Len(cut) \in Nat
    BY <1>7
  <2> QED BY <1>5, <1>6, <2>2, <2>3, EchoWidens
<1>9. echoed[s] \o cut = <<>> \o cut /\ echoed \in [Client -> Seq(Bytes)]
  BY <1>3 DEF RoutineInv, Echoes
<1>10. /\ echoed' \in [Client -> Seq(Bytes)] /\ echoed'[s] = <<>> \o cut
       /\ \A d \in Client : d # s => echoed'[d] = echoed[d]
  <2>1. <<>> \o cut \in Seq(Bytes)
    BY <1>8 DEF IsEchoUpTo
  <2> QED BY <1>2, <1>9, <2>1
<1>11. UNCHANGED trafficVars /\ Traffic' /\ \A d \in Client : Gone(d)' = Gone(d)
  BY <1>2, TrafficSame DEF RoutineInv, ownClientVars, trafficVars
<1>12. Echoes'
  <2>1. ASSUME NEW d \in Client PROVE IsEchoUpTo(d, echoed'[d], Gone(d)')
    BY <1>8, <1>10, <1>11 DEF RoutineInv, Echoes
  <2>2. \A d \in Client : IsEchoUpTo(d, echoed[d], Gone(d))'
    BY <2>1 DEF IsEchoUpTo
  <2> QED BY <1>10, <2>2 DEF Echoes
<1>13. Buffered'
  <2>1. Traffic /\ \A d \in Client : Gone(d) <= Gone(d)'
    BY <1>11 DEF RoutineInv, Traffic
  <2> QED BY <1>2, <1>11, <2>1, BufferedSame DEF RoutineInv, Sessions, RoutineTypes
<1>14. Due' = Due /\ Sending' = Sending \ {s} /\ Answered' \subseteq Answered \cup {s}
       /\ Members(taken') = Members(taken)
  BY <1>2, <1>10 DEF Due, Sending, Answered, Members
<1>15. RoutineTypes' /\ Once' /\ Started'
  BY <1>2, <1>3, <1>14 DEF RoutineInv, Sessions, RoutineTypes, Once, Started
<1>16. Crowd' /\ Holding'
  BY <1>2, CrowdSame, HoldingSame DEF RoutineInv, ownClientVars, crowdVars
<1> QED BY <1>11, <1>12, <1>13, <1>15, <1>16 DEF Sessions

LEMMA ClientsKeepRoutine ==
  ASSUME RoutineInv, ClientsNext, UNCHANGED routineVars
  PROVE  Crowd' /\ Holding' /\ Sessions' /\ Traffic' /\ Echoes' /\ Buffered'
<1>1. Crowd' /\ handle' = handle
  BY ClientsKeepCrowd DEF RoutineInv
<1>2. Traffic' /\ echoed' = echoed /\ \A c \in Client : Gone(c) <= Gone(c)'
  BY ClientsKeepTraffic DEF RoutineInv
<1>3. Holding'
  BY <1>1, HoldingSame DEF RoutineInv, routineVars
<1>4. Sessions'
  BY <1>2, SessionsSame DEF RoutineInv, Sessions, Started, routineVars, systemVars
<1>5. Echoes' /\ Buffered'
  BY <1>2, EchoesSame, BufferedSame DEF RoutineInv, Sessions, RoutineTypes, routineVars
<1> QED BY <1>1, <1>2, <1>3, <1>4, <1>5

LEMMA RoutineInvNext ==
  ASSUME RoutineInv, [RoutineStep]_<<clientVars, routineVars>>
  PROVE  RoutineInv'
<1> SUFFICES Crowd' /\ Holding' /\ Sessions' /\ Traffic' /\ Echoes' /\ Buffered'
  BY HandOverNext DEF RoutineInv
<1>1. CASE RoutineMain
  BY <1>1, TurnsKeepRoutine, AcceptKeepsRoutine DEF RoutineMain
<1>2. CASE RoutineWorker
  BY <1>2, TurnsKeepRoutine, TakingKeepsRoutine, PostingKeepsRoutine, CompletionKeepsRoutine
     DEF RoutineWorker
<1>3. CASE RoutineSystem
  BY <1>3, ReceivingKeepsRoutine, SendingKeepsRoutine DEF RoutineSystem
<1>4. CASE ClientsNext /\ UNCHANGED routineVars
  BY <1>4, ClientsKeepRoutine
<1>5. CASE UNCHANGED <<clientVars, routineVars>>
  <2>1. Crowd' /\ Holding'
    BY <1>5, CrowdSame, HoldingSame DEF RoutineInv, clientVars, routineVars, crowdVars
  <2>2. Sessions'
    BY <1>5, SessionsSame DEF RoutineInv, Sessions, Started, clientVars, routineVars, systemVars
  <2>3. Traffic' /\ Echoes' /\ Buffered'
    BY <1>5, BytesSame DEF clientVars, routineVars, trafficVars
  <2> QED BY <2>1, <2>2, <2>3
<1> QED BY <1>1, <1>2, <1>3, <1>4, <1>5 DEF RoutineStep, RoutineNext

(* What a client of the server with completion routines gets back is its own   *)
(* bytes in the order it sent them: a session is answered once, from the buffer *)
(* its one receive filled, whoever's socket the global variable holds then.    *)
THEOREM RoutineServerEchoesInOrder == RoutineSpec => []EchoedInOrder
<1>1. RoutineInv => EchoedInOrder
  BY EchoesInOrder DEF RoutineInv, EchoedInOrder
<1>2. RoutineInv /\ [RoutineStep]_<<clientVars, routineVars>> => RoutineInv'
  BY RoutineInvNext
<1> QED BY <1>1, <1>2, RoutineInvInit, PTL DEF RoutineSpec


\* Byte by byte: a session that is not among the doubled has no operation, or
\* one, or one that is complete and waits for the worker.
Field == [recvBytes : Nat, sendBytes : Nat, from : Nat, len : Nat]

Operation == [kind : {"recv", "send"}, from : Nat, len : Nat]

OperationTypes == /\ fields \in [Client -> Field]
                  /\ overlapped \in [Client -> [busy : BOOLEAN, bytes : Int]]
                  /\ operations \in [Client -> Seq(Operation)]
                  /\ DOMAIN content = Client /\ DOMAIN echoed = Client

\* The first r entries of buf are a stretch of c's bytes.
StartsWith(c, buf, r, a) == \A k \in 1..r : buf[k] = <<c, a + k>>

\* A session's buffer starts with r bytes of its client, the first s of which
\* the client has back at most.
Filled(c, r, s) ==
  /\ r \in 1..Len(content[c])
  /\ \E a \in Nat : /\ StartsWith(c, content[c], r, a)
                    /\ a + r <= Gone(c)
                    /\ IsEchoUpTo(c, echoed[c], a + s)

NoneIn(c) == operations[c] = <<>>

OneIn(c, kind) == /\ Len(operations[c]) = 1 /\ operations[c][1].kind = kind
                  /\ overlapped[c].busy

OneDone(c) == NoneIn(c) /\ ~overlapped[c].busy /\ overlapped[c].bytes > 0

Idle(c) == /\ NoneIn(c) /\ overlapped[c] = Zeroed
           /\ fields[c].recvBytes = 0 \/ handle[c] = "closed"

Receiving(c) == /\ OneIn(c, "recv") /\ operations[c][1].from = 0
                /\ fields[c].recvBytes = 0

Received(c) == /\ OneDone(c) /\ fields[c].recvBytes = 0
               /\ Filled(c, overlapped[c].bytes, 0)

SendingOn(c) == LET f == fields[c] IN
                /\ OneIn(c, "send") /\ operations[c][1].from = f.sendBytes
                /\ f.sendBytes < f.recvBytes
                /\ operations[c][1].len = f.recvBytes - f.sendBytes
                /\ Filled(c, f.recvBytes, f.sendBytes)

SentOn(c) == LET f == fields[c] IN
             /\ OneDone(c) /\ f.recvBytes > 0
             /\ f.sendBytes + overlapped[c].bytes <= f.recvBytes
             /\ Filled(c, f.recvBytes, f.sendBytes + overlapped[c].bytes)

InPhase(c) == /\ content[c] \in Seq(Bytes) /\ IsEchoUpTo(c, echoed[c], Gone(c))
              /\ fields[c].recvBytes = 0 => fields[c].from = 0
              /\ \/ conn[c] = "reset" \/ Idle(c)
                 \/ Receiving(c) \/ Received(c) \/ SendingOn(c) \/ SentOn(c)

OperationInv == /\ SlotInv /\ Traffic /\ OperationTypes
                /\ \A c \in Client \ doubled : InPhase(c)


LEMMA PhasesAreInOrder == OperationInv => OverlappedEchoInOrder
<1> SUFFICES ASSUME OperationInv, NEW c \in Client \ doubled PROVE InOrder(c)
  BY DEF OverlappedEchoInOrder
<1>1. sent[c] \in Nat /\ Gone(c) \in Nat /\ Len(inbox[c]) \in Nat
      /\ IsEchoUpTo(c, echoed[c], Gone(c))
  BY DEF OperationInv, Traffic, InPhase
<1>2. Gone(c) <= sent[c]
  BY <1>1 DEF Gone
<1> QED BY <1>1, <1>2, EchoIsInOrder

LEMMA OperationsInit == ClientsInit /\ OverlappedInit => OperationInv
<1> SUFFICES ASSUME ClientsInit, OverlappedInit PROVE OperationInv
  OBVIOUS
<1>1. SlotInv /\ Traffic /\ echoed = [c \in Client |-> <<>>]
  BY SlotInvInit, TrafficInit
<1>2. /\ overlapped = [c \in Client |-> Zeroed] /\ operations = [c \in Client |-> <<>>]
      /\ fields = [c \in Client |-> [recvBytes |-> 0, sendBytes |-> 0, from |-> 0, len |-> BUFSIZE]]
      /\ content = [c \in Client |-> <<>>]
  BY DEF OverlappedInit
<1>3. <<>> \in Seq(Bytes) /\ <<>> \in Seq(Operation)
  BY EmptySeq
<1>4. OperationTypes
  BY <1>1, <1>2, <1>3, ClientsAssumption DEF OperationTypes, Field, Zeroed
<1>5. ASSUME NEW c \in Client PROVE InPhase(c)
  <2>1. Gone(c) \in Nat /\ IsEchoUpTo(c, echoed[c], Gone(c))
    BY <1>1, NothingIsAnEcho DEF Traffic
  <2>2. Idle(c) /\ fields[c].from = 0
    BY <1>2 DEF Idle, NoneIn
  <2>3. content[c] \in Seq(Bytes)
    BY <1>2, <1>3
  <2> QED BY <2>1, <2>2, <2>3 DEF InPhase
<1> QED BY <1>1, <1>4, <1>5 DEF OperationInv

\* What a step leaves alone when it is another session's.
SameFor(c) == /\ operations'[c] = operations[c] /\ overlapped'[c] = overlapped[c]
              /\ fields'[c] = fields[c] /\ content'[c] = content[c] /\ echoed'[c] = echoed[c]
              /\ conn[c] = "reset" => conn'[c] = "reset"
              /\ handle[c] = "closed" => handle'[c] = "closed"

LEMMA PhaseKept ==
  ASSUME NEW c \in Client, InPhase(c), SameFor(c),
         Gone(c) \in Nat, Gone(c)' \in Nat, Gone(c) <= Gone(c)'
  PROVE  InPhase(c)'
<1>1. IsEchoUpTo(c, echoed'[c], Gone(c)')
  BY EchoWidens DEF InPhase, SameFor
<1>2. IsEchoUpTo(c, echoed[c], Gone(c))'
  BY <1>1 DEF IsEchoUpTo
<1>3. ASSUME NEW r, NEW k, Filled(c, r, k) PROVE Filled(c, r, k)'
  <2>1. PICK a \in Nat : /\ StartsWith(c, content[c], r, a)
                         /\ a + r <= Gone(c) /\ IsEchoUpTo(c, echoed[c], a + k)
    BY <1>3 DEF Filled
  <2>2. r \in Nat /\ r \in 1..Len(content'[c])
    BY <1>3 DEF Filled, InPhase, SameFor
  <2>3. a + r <= Gone(c)'
    BY <2>1, <2>2
  <2>4. StartsWith(c, content'[c], r, a) /\ IsEchoUpTo(c, echoed'[c], a + k)
    BY <2>1 DEF SameFor
  <2> QED BY <2>2, <2>3, <2>4 DEF Filled, IsEchoUpTo, StartsWith
<1>4. /\ Idle(c) => Idle(c)'
      /\ Receiving(c) => Receiving(c)'
  BY DEF SameFor, Idle, Receiving, NoneIn, OneIn
<1>5. Received(c) => Received(c)'
  BY <1>3 DEF SameFor, Received, OneDone, NoneIn
<1>6. SendingOn(c) => SendingOn(c)'
  BY <1>3 DEF SameFor, SendingOn, OneIn
<1>7. SentOn(c) => SentOn(c)'
  BY <1>3 DEF SameFor, SentOn, OneDone, NoneIn
<1>8. conn[c] = "reset" => conn'[c] = "reset"
  BY DEF SameFor
<1>9. content'[c] \in Seq(Bytes) /\ (fields'[c].recvBytes = 0 => fields'[c].from = 0)
  BY DEF SameFor, InPhase
<1> QED BY <1>2, <1>4, <1>5, <1>6, <1>7, <1>8, <1>9 DEF InPhase

\* A step of one session's, and a step of none's.
LEMMA OneSessionSteps ==
  ASSUME OperationInv, SlotInv', Traffic', OperationTypes', doubled \subseteq doubled',
         \A c \in Client : Gone(c) <= Gone(c)',
         NEW s \in Client, \A c \in Client \ {s} : SameFor(c), s \notin doubled' => InPhase(s)'
  PROVE  OperationInv'
<1>1. ASSUME NEW c \in Client \ doubled' PROVE InPhase(c)'
  <2>1. InPhase(c) /\ Gone(c) \in Nat /\ Gone(c)' \in Nat
    BY DEF OperationInv, Traffic
  <2>2. CASE c # s
    BY <2>1, <2>2, PhaseKept
  <2>3. CASE c = s
    BY <2>3
  <2> QED BY <2>2, <2>3
<1> QED BY <1>1 DEF OperationInv

LEMMA NoSessionSteps ==
  ASSUME OperationInv, SlotInv', Traffic', UNCHANGED opVars, echoed' = echoed,
         \A c \in Client : /\ Gone(c) <= Gone(c)'
                           /\ conn[c] = "reset" => conn'[c] = "reset"
                           /\ handle[c] = "closed" => handle'[c] = "closed"
  PROVE  OperationInv'
<1>1. OperationTypes'
  BY DEF OperationInv, OperationTypes, opVars
<1>2. \A c \in Client : SameFor(c)
  BY DEF SameFor, opVars
<1>3. ASSUME NEW c \in Client \ doubled' PROVE InPhase(c)'
  <2>1. InPhase(c) /\ Gone(c) \in Nat /\ Gone(c)' \in Nat
    BY DEF OperationInv, Traffic, opVars
  <2> QED BY <1>2, <2>1, PhaseKept
<1> QED BY <1>1, <1>3 DEF OperationInv


LEMMA AcceptKeepsPhases ==
  ASSUME OperationInv, SlotInv', acceptAndAdd PROVE OperationInv'
<1> DEFINE h == Head(backlog)
<1>1. /\ backlog # <<>> /\ UNCHANGED <<sent, inbox, conn, echoed, opVars>>
      /\ handle' = [handle EXCEPT ![h] = "open"]
  BY DEF acceptAndAdd, AcceptNext, peerVars
<1>2. Crowd /\ Traffic /\ backlog' = Tail(backlog)
  BY DEF OperationInv, SlotInv, acceptAndAdd, AcceptNext
<1>3. handle[h] = "none"
  BY <1>1, <1>2, AcceptKeepsCrowd
<1>4. Traffic' /\ \A c \in Client : Gone(c)' = Gone(c) /\ Gone(c) \in Nat
  BY <1>1, <1>2, TrafficSame DEF trafficVars, Traffic
<1>5. \A c \in Client : handle[c] = "closed" => handle'[c] = "closed"
  BY <1>1, <1>3
<1>6. \A c \in Client : Gone(c) <= Gone(c)'
  BY <1>4
<1> QED BY <1>1, <1>4, <1>5, <1>6, NoSessionSteps

LEMMA WaitsKeepPhases ==
  ASSUME OperationInv, SlotInv', UNCHANGED <<clientVars, opVars>> PROVE OperationInv'
<1>1. Traffic /\ UNCHANGED trafficVars
  BY DEF OperationInv, clientVars, trafficVars
<1>2. Traffic' /\ \A c \in Client : Gone(c)' = Gone(c) /\ Gone(c) \in Nat
  BY <1>1, TrafficSame DEF Traffic
<1>3. \A c \in Client : Gone(c) <= Gone(c)'
  BY <1>2
<1> QED BY <1>2, <1>3, NoSessionSteps DEF clientVars

LEMMA AcceptErrorKeepsPhases ==
  ASSUME OperationInv, SlotInv', acceptErrs PROVE OperationInv'
<1>1. UNCHANGED <<sent, inbox, conn, handle, echoed, opVars>>
  BY DEF acceptErrs, peerVars, overlappedVars
<1>2. Traffic /\ UNCHANGED trafficVars
  BY <1>1 DEF OperationInv, trafficVars
<1>3. Traffic' /\ \A c \in Client : Gone(c)' = Gone(c) /\ Gone(c) \in Nat
  BY <1>2, TrafficSame DEF Traffic
<1>4. \A c \in Client : Gone(c) <= Gone(c)'
  BY <1>3
<1> QED BY <1>1, <1>3, <1>4, NoSessionSteps

LEMMA ClientsKeepPhases ==
  ASSUME OperationInv, SlotInv', ClientsNext, UNCHANGED overlappedVars PROVE OperationInv'
<1>1. Traffic' /\ echoed' = echoed /\ \A c \in Client : Gone(c) <= Gone(c)'
  BY ClientsKeepTraffic DEF OperationInv
<1>2. handle' = handle
  BY DEF ClientsNext, Connect, ClientSend, ClientLeave
<1>3. conn \in [Client -> {"none", "open", "closed", "reset"}]
  BY DEF OperationInv, SlotInv, Crowd
<1>4. \A c \in Client : conn[c] = "reset" => conn'[c] = "reset"
  BY <1>3 DEF ClientsNext, Connect, ClientSend, ClientLeave
<1>5. UNCHANGED opVars
  BY DEF overlappedVars
<1> QED BY <1>1, <1>2, <1>4, <1>5, NoSessionSteps

\* Its operations cancelled, its socket closed, a removed session is at rest.
LEMMA RemovalKeepsPhases ==
  ASSUME OperationInv, SlotInv', NEW i \in 1..Len(slotSession), RemoveSlot(i),
         UNCHANGED <<peerVars, inbox, echoed, fields, content, doubled>>
  PROVE  OperationInv'
<1>1. PICK s \in Client : s = slotSession[i]
  BY DEF OperationInv, SlotInv, SlotTable
<1>2. /\ handle' = [handle EXCEPT ![s] = "closed"]
      /\ operations' = [operations EXCEPT ![s] = <<>>]
      /\ overlapped' = [overlapped EXCEPT ![s] = Zeroed]
      /\ UNCHANGED <<conn, sent, inbox, echoed, fields, content, doubled>>
  BY <1>1 DEF RemoveSlot, CloseSocket, peerVars
<1>3. Traffic /\ OperationTypes /\ UNCHANGED trafficVars
  BY <1>2 DEF OperationInv, trafficVars
<1>4. Traffic' /\ \A c \in Client : Gone(c)' = Gone(c) /\ Gone(c) \in Nat
  BY <1>3, TrafficSame DEF Traffic
<1>5. OperationTypes'
  <2>1. <<>> \in Seq(Operation)
    BY EmptySeq
  <2> QED BY <1>1, <1>2, <1>3, <2>1 DEF OperationTypes, Zeroed
<1>6. \A c \in Client \ {s} : SameFor(c)
  BY <1>2, <1>3 DEF SameFor, OperationTypes
<1>7. ASSUME s \notin doubled' PROVE InPhase(s)'
  <2>1. InPhase(s)
    BY <1>1, <1>2, <1>7 DEF OperationInv
  <2>2. handle'[s] = "closed" /\ operations'[s] = <<>> /\ overlapped'[s] = Zeroed
    BY <1>1, <1>2, <1>3 DEF OperationTypes, OperationInv, SlotInv, Crowd
  <2>3. Idle(s)'
    BY <2>2 DEF Idle, NoneIn, Zeroed
  <2>4. IsEchoUpTo(s, echoed[s], Gone(s))'
    BY <1>1, <1>2, <1>4, <2>1 DEF InPhase, IsEchoUpTo
  <2> QED BY <1>2, <2>1, <2>3, <2>4 DEF InPhase
<1>8. \A c \in Client : Gone(c) <= Gone(c)'
  BY <1>4
<1>9. doubled \subseteq doubled'
  BY <1>2
<1> QED BY <1>4, <1>5, <1>6, <1>7, <1>8, <1>9, OneSessionSteps


\* What a new operation leaves of the others.
LEMMA PostingKeepsOthers ==
  ASSUME OperationInv, NEW s \in Client, NEW op \in Operation, NEW g \in Field,
         NEW served \in BOOLEAN, Posted(s, op, served) \/ Refused(s),
         fields' = [fields EXCEPT ![s] = g], UNCHANGED <<clientVars, content>>
  PROVE  /\ OperationTypes' /\ doubled \subseteq doubled' /\ Traffic' /\ fields'[s] = g
         /\ \A c \in Client : Gone(c) <= Gone(c)' /\ Gone(c)' = Gone(c)
         /\ \A c \in Client \ {s} : SameFor(c)
         /\ \/ /\ operations'[s] = Append(operations[s], op) /\ overlapped'[s].busy
               /\ s \notin doubled' => /\ operations[s] = <<>>
                                       /\ served \/ overlapped[s] = Zeroed
            \/ Broken(s)
<1>1. Traffic /\ OperationTypes /\ UNCHANGED trafficVars
  BY DEF OperationInv, clientVars, trafficVars
<1>2. Traffic' /\ \A c \in Client : Gone(c)' = Gone(c) /\ Gone(c) \in Nat
  BY <1>1, TrafficSame DEF Traffic
<1>3. \A c \in Client : Gone(c) <= Gone(c)'
  BY <1>2
<1>4. /\ fields' \in [Client -> Field] /\ fields'[s] = g
      /\ \A c \in Client \ {s} : fields'[c] = fields[c]
  BY <1>1 DEF OperationTypes
<1>5. UNCHANGED <<content, echoed, conn, handle>>
  BY DEF clientVars
<1>6. CASE Posted(s, op, served)
  <2>1. /\ operations' = [operations EXCEPT ![s] = Append(operations[s], op)]
        /\ overlapped' = [overlapped EXCEPT ![s] = [busy |-> TRUE, bytes |-> 0]]
        /\ doubled' = IF operations[s] = <<>> /\ (served \/ overlapped[s] = Zeroed)
                      THEN doubled ELSE doubled \cup {s}
    BY <1>6 DEF Posted
  <2>2. operations[s] \in Seq(Operation) /\ Append(operations[s], op) \in Seq(Operation)
    BY <1>1 DEF OperationTypes
  <2>3. /\ operations' \in [Client -> Seq(Operation)]
        /\ overlapped' \in [Client -> [busy : BOOLEAN, bytes : Int]]
        /\ operations'[s] = Append(operations[s], op) /\ overlapped'[s].busy
    BY <1>1, <2>1, <2>2 DEF OperationTypes
  <2>4. \A c \in Client \ {s} : operations'[c] = operations[c] /\ overlapped'[c] = overlapped[c]
    BY <1>1, <2>1 DEF OperationTypes
  <2>5. /\ doubled \subseteq doubled'
        /\ s \notin doubled' => operations[s] = <<>> /\ (served \/ overlapped[s] = Zeroed)
    BY <2>1
  <2>6. OperationTypes' /\ \A c \in Client \ {s} : SameFor(c)
    BY <1>1, <1>4, <1>5, <2>3, <2>4 DEF OperationTypes, SameFor
  <2> QED BY <1>2, <1>3, <1>4, <2>3, <2>5, <2>6
<1>7. CASE Refused(s)
  <2>1. /\ overlapped' = [overlapped EXCEPT ![s] = Zeroed] /\ operations' = operations
        /\ doubled' = doubled /\ Broken(s)
    BY <1>7 DEF Refused
  <2>2. OperationTypes' /\ \A c \in Client \ {s} : SameFor(c)
    BY <1>1, <1>4, <1>5, <2>1 DEF OperationTypes, SameFor, Zeroed
  <2> QED BY <1>2, <1>3, <1>4, <2>1, <2>2
<1> QED BY <1>6, <1>7

\* A broken session of the array is one whose client has reset it.
LEMMA BrokenIsReset ==
  ASSUME OperationInv, NEW i \in 1..slots, IsLive(i), Broken(slotSession[i])
  PROVE  conn[slotSession[i]] = "reset"
BY DEF Broken, IsLive

LEMMA ResetKeepsPhase ==
  ASSUME NEW s \in Client, InPhase(s), conn'[s] = "reset", Gone(s)' = Gone(s),
         UNCHANGED <<content, echoed>>, fields'[s].recvBytes = 0 => fields'[s].from = 0
  PROVE  InPhase(s)'
<1>1. IsEchoUpTo(s, echoed'[s], Gone(s)')
  BY DEF InPhase
<1>2. IsEchoUpTo(s, echoed[s], Gone(s))'
  BY <1>1 DEF IsEchoUpTo
<1> QED BY <1>2 DEF InPhase

LEMMA FirstReceiveKeepsPhases ==
  ASSUME OperationInv, SlotInv', postAtEnd PROVE OperationInv'
<1>1. PICK s \in Client : s = slotSession[slots] /\ handle[s] = "open" /\ slots \in 1..slots
                         /\ IsLive(slots)
  <2>1. IsLive(slots) /\ slots \in 1..Len(slotSession) /\ slots \in 1..slots
    BY DEF postAtEnd, IsLive, OperationInv, SlotInv, SlotTable
  <2>2. slotSession[slots] \in Client /\ handle[slotSession[slots]] # "none"
    BY <2>1 DEF OperationInv, SlotInv, SlotTable
  <2>3. handle[slotSession[slots]] \in {"none", "open", "closed"}
    BY <2>2 DEF OperationInv, SlotInv, Crowd
  <2> QED BY <2>1, <2>2, <2>3 DEF IsLive
<1> DEFINE op == FirstReceive(fields[s])
<1>2. OperationTypes /\ fields[s] \in Field
  BY DEF OperationInv, OperationTypes
<1>3. op \in Operation /\ op.kind = "recv" /\ op.from = fields[s].from
  BY <1>2 DEF FirstReceive, Field, Operation
<1>4. /\ Posted(s, op, FALSE) \/ Refused(s)
      /\ fields' = [fields EXCEPT ![s] = fields[s]] /\ UNCHANGED <<clientVars, content, fields>>
  BY <1>1, <1>2 DEF postAtEnd, OperationTypes
<1> HIDE DEF op
<1>5. /\ OperationTypes' /\ doubled \subseteq doubled' /\ Traffic'
      /\ \A c \in Client : Gone(c) <= Gone(c)' /\ Gone(c)' = Gone(c)
      /\ \A c \in Client \ {s} : SameFor(c)
      /\ \/ /\ operations'[s] = Append(operations[s], op) /\ overlapped'[s].busy
            /\ s \notin doubled' => operations[s] = <<>> /\ overlapped[s] = Zeroed
         \/ Broken(s)
  BY <1>2, <1>3, <1>4, PostingKeepsOthers
<1>6. ASSUME s \notin doubled' PROVE InPhase(s)'
  <2>1. InPhase(s) /\ UNCHANGED <<content, echoed, conn, fields>> /\ Gone(s)' = Gone(s)
    BY <1>4, <1>5, <1>6 DEF OperationInv, clientVars
  <2>2. fields'[s].recvBytes = 0 => fields'[s].from = 0
    BY <2>1 DEF InPhase
  <2>3. CASE Broken(s) \/ conn[s] = "reset"
    BY <1>1, <2>1, <2>2, <2>3, BrokenIsReset, ResetKeepsPhase
  <2>4. CASE ~Broken(s) /\ conn[s] # "reset"
    <3>1. /\ operations'[s] = Append(operations[s], op) /\ overlapped'[s].busy
          /\ operations[s] = <<>> /\ overlapped[s] = Zeroed
      BY <1>5, <1>6, <2>4
    <3>2. Idle(s)
      BY <2>1, <2>4, <3>1
         DEF InPhase, Receiving, Received, SendingOn, SentOn, OneIn, OneDone, Zeroed
    <3>3. fields[s].recvBytes = 0 /\ op.from = 0
      BY <1>1, <1>3, <2>1, <3>2 DEF Idle, InPhase
    <3>4. Len(operations'[s]) = 1 /\ operations'[s][1] = op
      BY <1>3, <3>1
    <3>5. Receiving(s)'
      BY <1>3, <2>1, <3>1, <3>3, <3>4 DEF Receiving, OneIn
    <3>6. IsEchoUpTo(s, echoed[s], Gone(s))'
      BY <2>1 DEF InPhase, IsEchoUpTo
    <3> QED BY <2>1, <2>2, <3>5, <3>6 DEF InPhase
  <2> QED BY <2>3, <2>4
<1> QED BY <1>5, <1>6, OneSessionSteps


\* What the worker keeps of a session it has served, and what it posts for it.
Posting(f, b) == NextOperation(Accounted(f, b))

Served(f, b) ==
  [Accounted(f, b) EXCEPT !.from = Posting(f, b).from, !.len = Posting(f, b).len]

LEMMA ServingAccounts ==
  ASSUME NEW f \in Field, NEW b \in Int, b > 0
  PROVE  LET g == Served(f, b)  op == Posting(f, b) IN
         /\ g \in Field /\ op \in Operation /\ g.from = op.from
         /\ f.recvBytes = 0 => /\ g.recvBytes = b /\ g.sendBytes = 0
                               /\ op = [kind |-> "send", from |-> 0, len |-> b]
         /\ f.recvBytes > f.sendBytes + b =>
              /\ g.recvBytes = f.recvBytes /\ g.sendBytes = f.sendBytes + b
              /\ op = [kind |-> "send", from |-> f.sendBytes + b,
                       len |-> f.recvBytes - (f.sendBytes + b)]
         /\ f.recvBytes > 0 /\ f.recvBytes <= f.sendBytes + b =>
              g.recvBytes = 0 /\ op.kind = "recv" /\ op.from = 0
<1>1. PICK r \in Nat, k \in Nat, o \in Nat, l \in Nat :
        f = [recvBytes |-> r, sendBytes |-> k, from |-> o, len |-> l]
  BY DEF Field
<1>2. f.recvBytes = r /\ f.sendBytes = k /\ BUFSIZE \in Nat
  BY <1>1, ClientsAssumption
<1>3. ASSUME NEW q \in Nat, NEW p \in Nat, NEW n \in Nat, NEW m \in Nat,
             Accounted(f, b) = [recvBytes |-> q, sendBytes |-> p, from |-> o, len |-> l],
             Posting(f, b).from = n, Posting(f, b).len = m
      PROVE  Served(f, b) = [recvBytes |-> q, sendBytes |-> p, from |-> n, len |-> m]
  <2> DEFINE h == Accounted(f, b)
  <2>1. [h EXCEPT !.from = n] = [recvBytes |-> q, sendBytes |-> p, from |-> n, len |-> l]
    BY <1>3
  <2>2. [[recvBytes |-> q, sendBytes |-> p, from |-> n, len |-> l] EXCEPT !.len = m]
        = [recvBytes |-> q, sendBytes |-> p, from |-> n, len |-> m]
    OBVIOUS
  <2>3. [h EXCEPT !.from = n, !.len = m] = [[h EXCEPT !.from = n] EXCEPT !.len = m]
    BY Zenon
  <2>4. Served(f, b) = [h EXCEPT !.from = n, !.len = m]
    BY <1>3 DEF Served
  <2> QED BY <2>1, <2>2, <2>3, <2>4
<1>4. CASE r = 0
  <2>1. Accounted(f, b) = [recvBytes |-> b, sendBytes |-> 0, from |-> o, len |-> l]
    BY <1>1, <1>4 DEF Accounted
  <2>2. Posting(f, b) = [kind |-> "send", from |-> 0, len |-> b]
    BY <2>1 DEF Posting, NextOperation
  <2>3. Posting(f, b).from = 0 /\ Posting(f, b).len = b /\ b \in Nat
    BY <2>2
  <2>4. Served(f, b) = [recvBytes |-> b, sendBytes |-> 0, from |-> 0, len |-> b]
    BY <1>3, <2>1, <2>3
  <2> QED BY <1>2, <1>4, <2>2, <2>3, <2>4 DEF Field, Operation
<1>5. CASE r > k + b
  <2>1. k + b \in Nat /\ r > 0 /\ r - (k + b) \in Nat
    BY <1>5
  <2>2. Accounted(f, b) = [recvBytes |-> r, sendBytes |-> k + b, from |-> o, len |-> l]
    BY <1>1, <1>5, <2>1 DEF Accounted
  <2>3. Posting(f, b) = [kind |-> "send", from |-> k + b, len |-> r - (k + b)]
    BY <1>5, <2>2 DEF Posting, NextOperation
  <2>4. Posting(f, b).from = k + b /\ Posting(f, b).len = r - (k + b)
    BY <2>3
  <2>5. Served(f, b) = [recvBytes |-> r, sendBytes |-> k + b, from |-> k + b,
                        len |-> r - (k + b)]
    BY <1>3, <2>1, <2>2, <2>4
  <2> QED BY <1>2, <1>5, <2>1, <2>3, <2>5 DEF Field, Operation
<1>6. CASE r > 0 /\ r <= k + b
  <2>1. k + b \in Nat /\ ~(r > k + b)
    BY <1>6
  <2>2. Accounted(f, b) = [recvBytes |-> 0, sendBytes |-> k + b, from |-> o, len |-> l]
    BY <1>1, <1>6, <2>1 DEF Accounted
  <2>3. Posting(f, b) = [kind |-> "recv", from |-> 0, len |-> BUFSIZE]
    BY <2>1, <2>2 DEF Posting, NextOperation
  <2>4. Posting(f, b).from = 0 /\ Posting(f, b).len = BUFSIZE
    BY <2>3
  <2>5. Served(f, b) = [recvBytes |-> 0, sendBytes |-> k + b, from |-> 0, len |-> BUFSIZE]
    BY <1>2, <1>3, <2>1, <2>2, <2>4
  <2> QED BY <1>2, <1>6, <2>1, <2>3, <2>5 DEF Field, Operation
<1> QED BY <1>2, <1>4, <1>5, <1>6

LEMMA ServingKeepsPhases ==
  ASSUME OperationInv, SlotInv', serveCompleted PROVE OperationInv'
<1>1. PICK s \in Client : s = slotSession[cnt] /\ handle[s] = "open" /\ cnt \in 1..slots
                         /\ IsLive(cnt)
  <2>1. IsLive(cnt) /\ cnt \in 1..Len(slotSession) /\ cnt \in 1..slots
    BY DEF serveCompleted, IsLive, OperationInv, SlotInv, SlotTable, Indices
  <2>2. slotSession[cnt] \in Client /\ handle[slotSession[cnt]] # "none"
    BY <2>1 DEF OperationInv, SlotInv, SlotTable
  <2>3. handle[slotSession[cnt]] \in {"none", "open", "closed"}
    BY <2>2 DEF OperationInv, SlotInv, Crowd
  <2> QED BY <2>1, <2>2, <2>3 DEF IsLive
<1>2. PICK b \in Int : b = overlapped[s].bytes
  BY DEF OperationInv, OperationTypes
<1>3. PICK f \in Field : f = fields[s]
  BY DEF OperationInv, OperationTypes
<1>4. ~overlapped[s].busy /\ b > 0
  BY <1>1, <1>2 DEF serveCompleted
<1> DEFINE g == Served(f, b)
           op == Posting(f, b)
<1>5. /\ Posted(s, op, TRUE) \/ Refused(s)
      /\ fields' = [fields EXCEPT ![s] = g] /\ UNCHANGED <<clientVars, content>>
  BY <1>1, <1>2, <1>3 DEF serveCompleted, Served, Posting
<1>6. /\ g \in Field /\ op \in Operation /\ g.from = op.from
      /\ f.recvBytes = 0 => /\ g.recvBytes = b /\ g.sendBytes = 0
                            /\ op = [kind |-> "send", from |-> 0, len |-> b]
      /\ f.recvBytes > f.sendBytes + b =>
           /\ g.recvBytes = f.recvBytes /\ g.sendBytes = f.sendBytes + b
           /\ op = [kind |-> "send", from |-> f.sendBytes + b,
                    len |-> f.recvBytes - (f.sendBytes + b)]
      /\ f.recvBytes > 0 /\ f.recvBytes <= f.sendBytes + b =>
           g.recvBytes = 0 /\ op.kind = "recv" /\ op.from = 0
  BY <1>4, ServingAccounts
<1> HIDE DEF g, op
<1>7. /\ OperationTypes' /\ doubled \subseteq doubled' /\ Traffic' /\ fields'[s] = g
      /\ \A c \in Client : Gone(c) <= Gone(c)' /\ Gone(c)' = Gone(c)
      /\ \A c \in Client \ {s} : SameFor(c)
      /\ \/ /\ operations'[s] = Append(operations[s], op) /\ overlapped'[s].busy
            /\ s \notin doubled' => operations[s] = <<>>
         \/ Broken(s)
  BY <1>5, <1>6, PostingKeepsOthers
<1>8. f.recvBytes \in Nat /\ f.sendBytes \in Nat
  BY DEF Field
<1>9. g.recvBytes = 0 => g.from = 0
  BY <1>4, <1>6, <1>8
<1>10. ASSUME s \notin doubled' PROVE InPhase(s)'
  <2>1. InPhase(s) /\ UNCHANGED <<content, echoed, conn, sent, inbox>> /\ Gone(s)' = Gone(s)
    BY <1>5, <1>7, <1>10 DEF OperationInv, clientVars
  <2>2. fields'[s].recvBytes = 0 => fields'[s].from = 0
    BY <1>7, <1>9
  <2>3. CASE Broken(s) \/ conn[s] = "reset"
    BY <1>1, <2>1, <2>2, <2>3, BrokenIsReset, ResetKeepsPhase
  <2>4. CASE ~Broken(s) /\ conn[s] # "reset"
    <3>1. /\ operations'[s] = Append(operations[s], op) /\ overlapped'[s].busy
          /\ operations[s] = <<>>
      BY <1>7, <1>10, <2>4
    <3>2. Received(s) \/ SentOn(s)
      BY <1>2, <1>4, <2>1, <2>4 DEF InPhase, Idle, Receiving, SendingOn, OneIn, Zeroed
    <3>3. Len(operations'[s]) = 1 /\ operations'[s][1] = op
      BY <1>6, <3>1
    <3>4. \A r, k : Filled(s, r, k) => Filled(s, r, k)'
      BY <2>1 DEF Filled, Gone, IsEchoUpTo, StartsWith
    <3>5. ASSUME Received(s) PROVE SendingOn(s)'
      <4>1. Filled(s, b, 0) /\ f.recvBytes = 0
        BY <1>2, <1>3, <3>5 DEF Received
      <4>2. SendingOn(s)'
        BY <1>4, <1>6, <1>7, <3>1, <3>3, <3>4, <4>1 DEF SendingOn, OneIn
      <4> QED BY <4>2
    <3>6. ASSUME SentOn(s) PROVE Receiving(s)' \/ SendingOn(s)'
      <4>1. /\ f.recvBytes > 0 /\ f.sendBytes + b <= f.recvBytes
            /\ Filled(s, f.recvBytes, f.sendBytes + b)
        BY <1>2, <1>3, <3>6 DEF SentOn
      <4>2. CASE f.recvBytes > f.sendBytes + b
        <5>1. SendingOn(s)'
          BY <1>4, <1>6, <1>7, <1>8, <3>1, <3>3, <3>4, <4>1, <4>2 DEF SendingOn, OneIn
        <5> QED BY <5>1
      <4>3. CASE f.recvBytes = f.sendBytes + b
        <5>1. Receiving(s)'
          BY <1>4, <1>6, <1>7, <1>8, <3>1, <3>3, <4>1, <4>3 DEF Receiving, OneIn
        <5> QED BY <5>1
      <4> QED BY <1>4, <1>8, <4>1, <4>2, <4>3
    <3>7. Receiving(s)' \/ SendingOn(s)'
      BY <3>2, <3>5, <3>6
    <3>8. IsEchoUpTo(s, echoed[s], Gone(s))'
      BY <2>1 DEF InPhase, IsEchoUpTo
    <3> QED BY <2>1, <2>2, <3>7, <3>8 DEF InPhase
  <2> QED BY <2>3, <2>4
<1> QED BY <1>7, <1>10, OneSessionSteps


\* What a receive at the start of buf leaves there, and what a send takes of it.
LEMMA ReceivedAtStart ==
  ASSUME NEW old \in Seq(Bytes), NEW new \in Seq(Bytes), NEW buf, buf = Overwritten(old, 0, new)
  PROVE  /\ buf \in Seq(Bytes) /\ Len(buf) >= Len(new)
         /\ \A k \in 1..Len(new) : buf[k] = new[k]
<1> DEFINE x == SubSeq(old, 1, 0)
           y == SubSeq(old, 0 + Len(new) + 1, Len(old))
<1>1. Len(old) \in Nat /\ Len(new) \in Nat
  OBVIOUS
<1>2. x = <<>> /\ x \o new = new
  BY SubSeqEmpty, ConcatEmptySeq
<1>3. y \in Seq(Bytes) /\ Len(y) \in Nat
  <2>1. 0 + Len(new) + 1 \in Int /\ \A i \in 0 + Len(new) + 1..Len(old) : old[i] \in Bytes
    BY <1>1
  <2>2. y \in Seq(Bytes)
    BY <1>1, <2>1, SubSeqProperties
  <2> QED BY <2>2
<1> HIDE DEF x, y
<1>4. /\ new \o y \in Seq(Bytes) /\ Len(new \o y) = Len(new) + Len(y)
      /\ \A i \in 1..Len(new) + Len(y) :
           (new \o y)[i] = IF i <= Len(new) THEN new[i] ELSE y[i - Len(new)]
  BY <1>3, ConcatProperties
<1>5. buf = new \o y
  BY <1>2 DEF Overwritten, x, y
<1>6. \A k \in 1..Len(new) : k \in 1..Len(new) + Len(y) /\ k <= Len(new)
  BY <1>1, <1>3
<1>7. (\A k \in 1..Len(new) : (new \o y)[k] = new[k]) /\ Len(new \o y) >= Len(new)
  BY <1>1, <1>3, <1>4, <1>6
<1> QED BY <1>4, <1>5, <1>7

LEMMA SentFromBuffer ==
  ASSUME NEW c \in Client, NEW buf \in Seq(Bytes), NEW a \in Nat, NEW r \in 1..Len(buf),
         StartsWith(c, buf, r, a), NEW o \in Nat, NEW m \in Nat, o <= m, m <= r,
         NEW b \in Nat, b = a + o
  PROVE  IsStretch(c, SubSeq(buf, o + 1, m), b) /\ Len(SubSeq(buf, o + 1, m)) = m - o
<1> DEFINE s == SubSeq(buf, o + 1, m)
<1>1. Len(buf) \in Nat /\ r \in Nat /\ r <= Len(buf)
      /\ \A i \in 1..r : buf[i] \in Bytes /\ buf[i] = <<c, a + i>>
  BY DEF StartsWith
<1>2. \A i \in o + 1..m : i \in 1..r
  BY <1>1
<1>3. /\ s \in Seq(Bytes)
      /\ Len(s) = IF o + 1 <= m THEN m - (o + 1) + 1 ELSE 0
      /\ \A i \in 1..m - (o + 1) + 1 : s[i] = buf[o + 1 + i - 1]
  BY <1>1, <1>2, SubSeqProperties, SMTT(60)
<1> HIDE DEF s
<1>4. Len(s) = m - o
  BY <1>3
<1>5. ASSUME NEW i \in 1..m - o PROVE s[i] = <<c, b + i>>
  <2>1. o + i \in 1..r /\ o + 1 + i - 1 = o + i /\ i \in 1..m - (o + 1) + 1
        /\ a + (o + i) = b + i
    BY <1>1
  <2>2. s[i] = buf[o + 1 + i - 1]
    BY <1>3, <2>1
  <2>3. buf[o + i] = <<c, a + (o + i)>>
    BY <1>1, <2>1
  <2> QED BY <2>1, <2>2, <2>3
<1>6. \A i \in 1..Len(s) : s[i] = <<c, b + i>>
  BY <1>4, <1>5
<1> QED BY <1>3, <1>4, <1>6 DEF IsStretch, s

\* The completion of a session's one receive, and of its one send.
LEMMA ReceiveKeepsPhase ==
  ASSUME Traffic, Traffic', NEW s \in Client, InPhase(s), Receiving(s), conn[s] # "reset",
         NEW n \in Int, n \in RecvResults(s), n > 0 => n \in 1..Len(inbox[s]),
         n > 0 => Gone(s)' = Gone(s) + n, Gone(s) <= Gone(s)',
         content'[s] = (IF n > 0 THEN Overwritten(content[s], operations[s][1].from, SubSeq(inbox[s], 1, n))
                        ELSE content[s]),
         operations'[s] = <<>>, overlapped'[s] = [busy |-> FALSE, bytes |-> n],
         echoed'[s] = echoed[s], fields'[s] = fields[s]
  PROVE  InPhase(s)'
<1>1. /\ Gone(s) \in Nat /\ Gone(s)' \in Nat /\ content[s] \in Seq(Bytes)
      /\ IsStretch(s, inbox[s], Gone(s)) /\ IsEchoUpTo(s, echoed[s], Gone(s))
      /\ operations[s][1].from = 0 /\ fields[s].recvBytes = 0 /\ fields[s].from = 0
  BY DEF Traffic, InPhase, Receiving
<1>2. IsEchoUpTo(s, echoed'[s], Gone(s)')
  BY <1>1, EchoWidens
<1>3. IsEchoUpTo(s, echoed[s], Gone(s))'
  BY <1>2 DEF IsEchoUpTo
<1>4. CASE n > 0
  <2>1. n \in 0..Len(inbox[s]) /\ n \in Nat
    BY <1>4
  <2> DEFINE new == SubSeq(inbox[s], 1, n)
  <2>2. new \in Seq(Bytes) /\ Len(new) = n /\ \A k \in 1..n : new[k] = <<s, Gone(s) + k>>
    BY <1>1, <2>1, StretchCut DEF IsStretch
  <2> HIDE DEF new
  <2>3. content'[s] = Overwritten(content[s], 0, new)
    BY <1>1, <1>4 DEF new
  <2>4. /\ content'[s] \in Seq(Bytes) /\ Len(content'[s]) >= n
        /\ \A k \in 1..n : content'[s][k] = <<s, Gone(s) + k>>
    <3>1. /\ content'[s] \in Seq(Bytes) /\ Len(content'[s]) >= Len(new)
          /\ \A k \in 1..Len(new) : content'[s][k] = new[k]
      BY <1>1, <2>2, <2>3, ReceivedAtStart
    <3> QED BY <2>1, <2>2, <3>1
  <2>5. n \in 1..Len(content'[s])
    BY <1>4, <2>4
  <2>6. Gone(s) + n <= Gone(s)' /\ IsEchoUpTo(s, echoed'[s], Gone(s) + 0)
    BY <1>1, <1>4
  <2>7. Filled(s, n, 0)'
    BY <1>1, <2>4, <2>5, <2>6 DEF Filled, IsEchoUpTo, StartsWith
  <2>8. Received(s)'
    BY <1>1, <1>4, <2>7 DEF Received, OneDone, NoneIn
  <2> QED BY <1>1, <1>3, <2>4, <2>8 DEF InPhase
<1>5. CASE ~(n > 0)
  <2>1. n = 0
    <3>1. inbox[s] \in Seq(Bytes) /\ Len(inbox[s]) \in Nat /\ BUFSIZE \in Nat \ {0}
      BY ClientsAssumption DEF Traffic
    <3> QED BY <1>5, <3>1 DEF RecvResults
  <2>2. Idle(s)'
    BY <1>1, <2>1 DEF Idle, NoneIn, Zeroed
  <2> QED BY <1>1, <1>3, <1>5, <2>2 DEF InPhase
<1> QED BY <1>4, <1>5

LEMMA SendKeepsPhase ==
  ASSUME Traffic, NEW s \in Client, InPhase(s), SendingOn(s), fields[s] \in Field,
         NEW n \in Int, n \in SendResults(s, operations[s][1].len), conn[s] # "reset",
         echoed'[s] = echoed[s] \o SubSeq(content[s], operations[s][1].from + 1,
                                          operations[s][1].from + n),
         Gone(s)' = Gone(s), content'[s] = content[s], fields'[s] = fields[s],
         operations'[s] = <<>>, overlapped'[s] = [busy |-> FALSE, bytes |-> n]
  PROVE  InPhase(s)'
<1>1. PICK r \in Nat, k \in Nat : /\ r = fields[s].recvBytes /\ k = fields[s].sendBytes
                                  /\ operations[s][1].from = k /\ operations[s][1].len = r - k
                                  /\ k < r /\ Filled(s, r, k)
  BY DEF SendingOn, Field
<1>2. n \in 1..r - k /\ n \in Nat /\ k + n \in Nat /\ k + n <= r
  <2>1. n \in SendResults(s, r - k) /\ r - k # 0
    BY <1>1
  <2>2. n \in 1..r - k
    BY <2>1 DEF SendResults
  <2> QED BY <2>2
<1>3. PICK a \in Nat : /\ StartsWith(s, content[s], r, a)
                       /\ a + r <= Gone(s) /\ IsEchoUpTo(s, echoed[s], a + k)
  BY <1>1 DEF Filled
<1>4. r \in 1..Len(content[s]) /\ content[s] \in Seq(Bytes) /\ Gone(s) \in Nat
  BY <1>1 DEF Filled, InPhase, Traffic
<1> DEFINE new == SubSeq(content[s], k + 1, k + n)
<1>5. IsStretch(s, new, a + k) /\ Len(new) = n
  <2>1. k + n \in Nat /\ a + k \in Nat /\ n \in Nat
    BY <1>2
  <2>2. PICK m \in Nat, b \in Nat : m = k + n /\ b = a + k
    BY <2>1
  <2>3. k <= m /\ m <= r /\ m - k = n
    BY <1>2, <2>2
  <2>4. IsStretch(s, SubSeq(content[s], k + 1, m), b) /\ Len(SubSeq(content[s], k + 1, m)) = m - k
    <3>1. StartsWith(s, content[s], r, a)
      BY <1>3
    <3>2. content[s] \in Seq(Bytes) /\ r \in 1..Len(content[s])
      BY <1>4
    <3>3. b = a + k /\ k <= m /\ m <= r
      BY <2>2, <2>3
    <3> QED BY ONLY s \in Client, a \in Nat, k \in Nat, m \in Nat, b \in Nat,
                    <3>1, <3>2, <3>3, SentFromBuffer
  <2> QED BY <2>2, <2>3, <2>4
<1> HIDE DEF new
<1>6. echoed'[s] = echoed[s] \o new
  BY <1>1 DEF new
<1>7. IsEchoUpTo(s, echoed'[s], a + (k + n))
  <2>1. a + k \in Nat /\ a + k <= a + k
    OBVIOUS
  <2>2. IsEchoUpTo(s, echoed[s] \o new, (a + k) + Len(new))
    BY <1>3, <1>5, <2>1, EchoGrows
  <2>3. (a + k) + Len(new) = a + (k + n)
    BY <1>2, <1>5
  <2> QED BY <1>6, <2>2, <2>3
<1>8. a + (k + n) \in Nat /\ a + (k + n) <= Gone(s)
  <2>1. k + n <= r /\ n \in Nat
    BY <1>2
  <2>2. a + r <= Gone(s)
    BY <1>3
  <2>3. Gone(s) \in Nat
    BY <1>4
  <2> QED BY <2>1, <2>2, <2>3
<1>9. IsEchoUpTo(s, echoed'[s], Gone(s)')
  BY <1>4, <1>7, <1>8, EchoWidens
<1>10. IsEchoUpTo(s, echoed[s], Gone(s))'
  BY <1>9 DEF IsEchoUpTo
<1>11. Filled(s, r, k + n)'
  BY <1>3, <1>4, <1>7 DEF Filled, IsEchoUpTo, StartsWith
<1>12. SentOn(s)'
  BY <1>1, <1>2, <1>11 DEF SentOn, OneDone, NoneIn
<1>13. fields'[s].recvBytes # 0
  BY <1>1
<1> QED BY <1>4, <1>10, <1>12, <1>13 DEF InPhase


LEMMA CompletionKeepsPhases ==
  ASSUME OperationInv, SlotInv', NEW s \in Client, NEW n \in -1..BUFSIZE, CompleteOldest(s, n)
  PROVE  OperationInv'
<1>1. Traffic /\ OperationTypes /\ operations[s] # <<>> /\ operations[s] \in Seq(Operation)
  BY DEF OperationInv, OperationTypes, CompleteOldest
<1>2. PICK op \in Operation : op = Head(operations[s]) /\ op = operations[s][1]
  BY <1>1
<1>3. /\ operations' = [operations EXCEPT ![s] = Tail(operations[s])]
      /\ overlapped' = [overlapped EXCEPT ![s] = [busy |-> FALSE, bytes |-> n]]
      /\ UNCHANGED <<sent, conn, handle, fields, doubled>> /\ n \in Int
  <2>1. n \in Int
    BY ClientsAssumption
  <2>2. operations' = [operations EXCEPT ![s] = Tail(operations[s])]
    BY Zenon DEF CompleteOldest
  <2>3. overlapped' = [overlapped EXCEPT ![s] = [busy |-> FALSE, bytes |-> n]]
    BY Zenon DEF CompleteOldest
  <2>4. UNCHANGED <<sent, conn, handle, fields, doubled>>
    BY DEF CompleteOldest, peerVars
  <2> QED
    BY <2>1, <2>2, <2>3, <2>4
<1> DEFINE Writes == /\ op.kind = "recv" /\ n \in RecvResults(s) /\ TakeFromInbox(s, n) /\ echoed' = echoed
                     /\ content' = [content EXCEPT ![s] =
                          IF n > 0 THEN Overwritten(content[s], op.from, SubSeq(inbox[s], 1, n))
                          ELSE content[s]]
           Sends == /\ op.kind = "send" /\ n \in SendResults(s, op.len) /\ inbox' = inbox
                    /\ content' = content
                    /\ echoed' = [echoed EXCEPT ![s] =
                         echoed[s] \o SubSeq(content[s], op.from + 1, op.from + n)]
<1>4. Writes \/ Sends
  BY <1>2 DEF CompleteOldest
<1>5. /\ Traffic' /\ \A c \in Client : Gone(c) <= Gone(c)'
      /\ Writes /\ n > 0 => n \in 1..Len(inbox[s]) /\ Gone(s)' = Gone(s) + n
      /\ Sends => Gone(s)' = Gone(s)
  <2>1. CASE Writes
    BY <1>1, <1>3, <2>1, TakeKeepsTraffic
  <2>2. CASE Sends
    <3>1. UNCHANGED trafficVars
      BY <1>3, <2>2 DEF trafficVars
    <3>2. Traffic' /\ \A c \in Client : Gone(c)' = Gone(c) /\ Gone(c) \in Nat
      BY <1>1, <3>1, TrafficSame DEF Traffic
    <3> QED BY <2>2, <3>2
  <2> QED BY <1>4, <2>1, <2>2
<1>6. Tail(operations[s]) \in Seq(Operation) /\ (Len(operations[s]) = 1 => Tail(operations[s]) = <<>>)
  <2>1. Tail(operations[s]) \in Seq(Operation) /\ Len(Tail(operations[s])) = Len(operations[s]) - 1
    BY <1>1, HeadTailProperties
  <2>2. ASSUME Len(operations[s]) = 1 PROVE Tail(operations[s]) = <<>>
    <3>1. Len(Tail(operations[s])) \notin Nat \ {0}
      BY <2>1, <2>2
    <3> QED BY <2>1, <3>1, EmptySeq, Zenon
  <2> QED BY <2>1, <2>2
<1>7. OperationTypes' /\ \A c \in Client \ {s} : SameFor(c)
  <2>1. /\ operations' \in [Client -> Seq(Operation)]
        /\ overlapped' \in [Client -> [busy : BOOLEAN, bytes : Int]]
        /\ operations'[s] = Tail(operations[s]) /\ overlapped'[s] = [busy |-> FALSE, bytes |-> n]
    BY <1>1, <1>3, <1>6 DEF OperationTypes
  <2>2. /\ DOMAIN content' = Client /\ DOMAIN echoed' = Client
        /\ \A c \in Client \ {s} : content'[c] = content[c] /\ echoed'[c] = echoed[c]
    BY <1>1, <1>4 DEF OperationTypes
  <2>3. \A c \in Client \ {s} : operations'[c] = operations[c] /\ overlapped'[c] = overlapped[c]
    BY <1>1, <1>3 DEF OperationTypes
  <2> QED BY <1>1, <1>3, <2>1, <2>2, <2>3 DEF OperationTypes, SameFor
<1>8. /\ operations'[s] = Tail(operations[s]) /\ overlapped'[s] = [busy |-> FALSE, bytes |-> n]
      /\ Writes => /\ echoed'[s] = echoed[s]
                   /\ content'[s] = (IF n > 0 THEN Overwritten(content[s], op.from, SubSeq(inbox[s], 1, n))
                                     ELSE content[s])
      /\ Sends => /\ content'[s] = content[s]
                  /\ echoed'[s] = echoed[s] \o SubSeq(content[s], op.from + 1, op.from + n)
  BY <1>1, <1>3 DEF OperationTypes
<1> HIDE DEF Writes, Sends
<1>9. ASSUME s \notin doubled' PROVE InPhase(s)'
  <2>1. InPhase(s) /\ Gone(s) \in Nat /\ Gone(s)' \in Nat /\ Gone(s) <= Gone(s)'
        /\ fields[s] \in Field
    BY <1>1, <1>3, <1>5, <1>9 DEF OperationInv, Traffic, OperationTypes
  <2>2. CASE conn[s] = "reset"
    <3>1. n = -1 \/ (Sends /\ n = -1)
      BY <1>4, <2>2 DEF Writes, Sends, RecvResults, SendResults
    <3>2. echoed'[s] = echoed[s] /\ content'[s] = content[s]
      <4>1. CASE Writes
        BY <1>8, <3>1, <4>1
      <4>2. CASE Sends
        <5>1. op.from + 1 \in Int /\ op.from + n \in Int /\ op.from + n < op.from + 1
          BY <3>1 DEF Operation
        <5>2. SubSeq(content[s], op.from + 1, op.from + n) = <<>>
          BY <5>1, SubSeqEmpty
        <5>3. echoed[s] \in Seq(Bytes)
          BY <2>1 DEF InPhase, IsEchoUpTo
        <5> QED BY <1>8, <4>2, <5>2, <5>3, ConcatEmptySeq
      <4> QED BY <1>4, <4>1, <4>2
    <3>3. IsEchoUpTo(s, echoed'[s], Gone(s)')
      BY <2>1, <3>2, EchoWidens DEF InPhase
    <3>4. IsEchoUpTo(s, echoed[s], Gone(s))'
      BY <3>3 DEF IsEchoUpTo
    <3> QED BY <1>3, <2>1, <2>2, <3>2, <3>4 DEF InPhase
  <2>3. CASE conn[s] # "reset"
    <3>1. Receiving(s) \/ SendingOn(s)
      BY <1>1, <2>1, <2>3 DEF InPhase, Idle, Received, SentOn, OneDone, NoneIn
    <3>2. operations'[s] = <<>> /\ fields'[s] = fields[s]
      BY <1>3, <1>6, <1>8, <3>1 DEF Receiving, SendingOn, OneIn
    <3>3. ASSUME Receiving(s) PROVE InPhase(s)'
      <4>1. Writes
        BY <1>2, <1>4, <3>3 DEF Receiving, OneIn, Sends
      <4>2. n \in RecvResults(s)
        BY <4>1 DEF Writes
      <4> QED BY <1>1, <1>2, <1>3, <1>5, <1>8, <2>1, <2>3, <3>2, <3>3, <4>1, <4>2, ReceiveKeepsPhase
    <3>4. ASSUME SendingOn(s) PROVE InPhase(s)'
      <4>1. Sends
        BY <1>2, <1>4, <3>4 DEF SendingOn, OneIn, Writes
      <4>2. n \in SendResults(s, operations[s][1].len)
        BY <1>2, <4>1 DEF Sends
      <4> QED BY <1>1, <1>2, <1>3, <1>5, <1>8, <2>1, <2>3, <3>2, <3>4, <4>1, <4>2, SendKeepsPhase
    <3> QED BY <3>1, <3>3, <3>4
  <2> QED BY <2>2, <2>3
<1>10. doubled \subseteq doubled'
  BY <1>3
<1> QED BY <1>5, <1>7, <1>9, <1>10, OneSessionSteps

LEMMA OperationInvNext ==
  ASSUME OperationInv, [OverlappedStep]_<<clientVars, overlappedVars>> PROVE OperationInv'
<1>0. SlotInv' /\ SlotInv
  BY SlotInvNext DEF OperationInv
<1>1. CASE acceptAndAdd
  BY <1>0, <1>1, AcceptKeepsPhases
<1>2. CASE acceptErrs
  BY <1>0, <1>2, AcceptErrorKeepsPhases
<1>3. CASE postAtEnd
  BY <1>0, <1>3, FirstReceiveKeepsPhases
<1>4. CASE removeRefused
  <2>1. removing \in 1..Len(slotSession)
    BY <1>0, <1>4 DEF removeRefused, CanRemove, IsLive, SlotInv, SlotTable, Indices
  <2> QED BY <1>0, <1>4, <2>1, RemovalKeepsPhases DEF removeRefused
<1>5. CASE dropFirst
  <2>1. first \in 1..Len(slotSession)
    BY <1>0, <1>5 DEF dropFirst, SlotInv, Indices
  <2> QED BY <1>0, <1>5, <2>1, RemovalKeepsPhases DEF dropFirst
<1>6. CASE serveCompleted
  BY <1>0, <1>6, ServingKeepsPhases
<1>7. CASE OverlappedSystem
  BY <1>0, <1>7, CompletionKeepsPhases DEF OverlappedSystem
<1>8. CASE ClientsNext /\ UNCHANGED overlappedVars
  BY <1>0, <1>8, ClientsKeepPhases
<1>9. CASE \/ computeIndex \/ mainUsesFreed \/ waitSignalled \/ lookFails
           \/ workerUsesFreed \/ walkOver \/ UNCHANGED <<clientVars, overlappedVars>>
  <2>1. UNCHANGED <<clientVars, opVars>>
    BY <1>9 DEF computeIndex, mainUsesFreed, waitSignalled, lookFails, workerUsesFreed,
                walkOver, overlappedVars
  <2> QED BY <1>0, <2>1, WaitsKeepPhases
<1> QED BY <1>1, <1>2, <1>3, <1>4, <1>5, <1>6, <1>7, <1>8, <1>9
        DEF OverlappedStep, OverlappedNext, OverlappedMain, OverlappedWorker

(* What a client of the overlapped server gets back is its own bytes in the    *)
(* order it sent them, none twice, for every session whose operations were     *)
(* served one by one: the buffer from which a send goes on is not received     *)
(* into before all of it is sent.                                              *)
THEOREM OverlappedServerEchoesInOrder == OverlappedSpec => []OverlappedEchoInOrder
<1>1. OperationInv => OverlappedEchoInOrder
  BY PhasesAreInOrder
<1>2. OperationInv /\ [OverlappedStep]_<<clientVars, overlappedVars>> => OperationInv'
  BY OperationInvNext
<1> QED BY <1>1, <1>2, OperationsInit, PTL DEF OverlappedSpec
=============================================================================
