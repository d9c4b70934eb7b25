-------------------------- MODULE RingBufferProofs --------------------------
(* Proofs about RingBuffer, for every size of the ring and every alphabet.   *)
EXTENDS RingBuffer, SequenceTheorems, TLAPS

\* Reducing an index that ran at most one lap over the end.
LEMMA OneLap ==
  ASSUME NEW N \in Nat \ {0}, NEW a \in 0..(2 * N - 1)
  PROVE  a % N = IF a < N THEN a ELSE a - N
<1>1. CASE a < N
  BY <1>1
<1>2. CASE ~(a < N)
  BY <1>2
<1> QED BY <1>1, <1>2

LEMMA AdvanceByCases ==
  ASSUME NEW i \in Slots, NEW n \in 0..Size + 1
  PROVE  /\ Advance(i, n) \in Slots
         /\ Advance(i, n) = IF i + n <= Size THEN i + n ELSE i + n - (Size + 1)
<1> DEFINE N == Size + 1
           a == i + n
<1>1. N \in Nat \ {0} /\ a \in 0..(2 * N - 1)
  BY RingAssumption DEF Slots
<1>2. a % N = IF a < N THEN a ELSE a - N
  <2> HIDE DEF N, a
  <2> QED BY <1>1, OneLap
<1> QED BY <1>2, RingAssumption DEF Advance, Slots

\* The ring's index arithmetic: sizes are counts and add up to the capacity,
\* direct sizes never exceed them, and IsEmpty/IsFull mean what they say.
LEMMA IndexArithmetic ==
  ASSUME front \in Slots, rear \in Slots
  PROVE  /\ UsedSize \in 0..Size /\ FreeSize \in 0..Size
         /\ DirectEnqueueSize \in 0..FreeSize /\ DirectDequeueSize \in 0..UsedSize
         /\ RearPtr \in Slots /\ FrontPtr \in Slots
         /\ SizesAgree
<1>1. UsedSize \in 0..Size /\ FreeSize \in 0..Size /\ FreeSize + UsedSize = Size
  BY RingAssumption DEF Slots, UsedSize, FreeSize
<1>2. DirectEnqueueSize \in 0..FreeSize /\ DirectDequeueSize \in 0..UsedSize
  BY RingAssumption
  DEF Slots, UsedSize, FreeSize, DirectEnqueueSize, DirectDequeueSize
<1>3. RearPtr \in Slots /\ FrontPtr \in Slots
  BY RingAssumption DEF Slots, RearPtr, FrontPtr
<1>4. IsEmpty <=> UsedSize = 0
  BY RingAssumption DEF Slots, IsEmpty, UsedSize
<1>5. IsFull <=> FreeSize = 0
  <2>1. 1 \in 0..Size + 1
    BY RingAssumption
  <2>2. Advance(rear, 1) = IF rear + 1 <= Size THEN rear + 1 ELSE rear + 1 - (Size + 1)
    BY <2>1, AdvanceByCases
  <2> QED BY <2>2, RingAssumption DEF IsFull, FreeSize, Slots, Advance
<1> QED BY <1>1, <1>2, <1>3, <1>4, <1>5 DEF SizesAgree

\* What memcpy into the array does.
LEMMA StoredIsCopy ==
  ASSUME NEW b \in [Slots -> Byte], NEW at \in Int, NEW s \in Seq(Byte)
  PROVE  /\ Stored(b, at, s) \in [Slots -> Byte]
         /\ \A i \in Slots : Stored(b, at, s)[i] =
              IF i - at \in 0..Len(s) - 1 THEN s[i - at + 1] ELSE b[i]
<1>1. \A i \in Slots : i - at \in 0..Len(s) - 1 => s[i - at + 1] \in Byte
  BY ElementOfSeq, LenProperties DEF Slots
<1> QED BY <1>1 DEF Stored

\* What memcpy out of the array does.
LEMMA LoadedIsCopy ==
  ASSUME NEW b \in [Slots -> Byte], NEW at \in Int, NEW n \in Nat,
         \A i \in 1..n : at + i - 1 \in Slots
  PROVE  /\ Loaded(b, at, n) \in Seq(Byte)
         /\ Len(Loaded(b, at, n)) = n
         /\ \A i \in 1..n : Loaded(b, at, n)[i] = b[at + i - 1]
<1>1. Loaded(b, at, n) \in [1..n -> Byte]
  BY DEF Loaded
<1>2. Loaded(b, at, n) \in Seq(Byte)
  BY <1>1, SeqDef
<1>3. DOMAIN Loaded(b, at, n) = 1..Len(Loaded(b, at, n)) /\ Len(Loaded(b, at, n)) \in Nat
  BY <1>2, LenProperties
<1>4. Len(Loaded(b, at, n)) = n
  BY <1>1, <1>3
<1> QED BY <1>2, <1>4 DEF Loaded

\* The queue the ring stands for is a sequence of bytes, one per used slot.
LEMMA ContentsIsSeq ==
  ASSUME TypeOK
  PROVE  /\ contents \in Seq(Byte)
         /\ Len(contents) = UsedSize
         /\ \A i \in 1..UsedSize : contents[i] = buf[Advance(front, i)]
<1>1. UsedSize \in 0..Size
  BY IndexArithmetic DEF TypeOK
<1>2. \A i \in 1..UsedSize : i \in 0..Size + 1
  BY <1>1, RingAssumption
<1>3. \A i \in 1..UsedSize : Advance(front, i) \in Slots
  BY <1>2, AdvanceByCases DEF TypeOK
<1>4. contents \in [1..UsedSize -> Byte]
  BY <1>3 DEF TypeOK, contents
<1>5. contents \in Seq(Byte)
  BY <1>1, <1>4, SeqDef
<1>6. DOMAIN contents = 1..Len(contents) /\ Len(contents) \in Nat
  BY <1>5, LenProperties
<1>7. Len(contents) = UsedSize
  BY <1>1, <1>4, <1>6
<1> QED BY <1>5, <1>7 DEF contents

-----------------------------------------------------------------------------
\* A copy into the array has appended s when it leaves every used slot alone
\* and puts the bytes of s in the slots after rear.
Appends(b, s) ==
  /\ b \in [Slots -> Byte]
  /\ \A i \in 1..UsedSize : b[Advance(front, i)] = buf[Advance(front, i)]
  /\ \A j \in 1..Len(s) : b[Advance(rear, j)] = s[j]

\* Enqueue's split copy appends, wherever rear stands.
LEMMA EnqueueCopyAppends ==
  ASSUME TypeOK, NEW s \in Seq(Byte), Len(s) <= FreeSize
  PROVE  Appends(EnqueueCopy(s), s)
<1> DEFINE split == IF DirectEnqueueSize >= Len(s) THEN Len(s) ELSE DirectEnqueueSize
           head == SubSeq(s, 1, split)
           tail == SubSeq(s, split + 1, Len(s))
           b1 == Stored(buf, rear + 1, head)
           b2 == Stored(b1, 0, tail)
<1>1. /\ Len(s) \in Nat /\ split \in 0..Len(s)
      /\ FreeSize \in 0..Size /\ UsedSize \in 0..Size
  BY IndexArithmetic, LenProperties DEF TypeOK
<1>2. /\ head \in Seq(Byte) /\ Len(head) = split
      /\ \A i \in 1..split : head[i] = s[i]
  <2> HIDE DEF split
  <2>1. \A i \in 1..split : s[i] \in Byte
    BY <1>1, ElementOfSeq
  <2> QED BY <1>1, <2>1, SubSeqProperties
<1>3. /\ tail \in Seq(Byte) /\ Len(tail) = Len(s) - split
      /\ \A i \in 1..Len(s) - split : tail[i] = s[split + i]
  <2> HIDE DEF split
  <2>1. \A i \in split + 1..Len(s) : s[i] \in Byte
    BY <1>1, ElementOfSeq
  <2> QED BY <1>1, <2>1, SubSeqProperties
<1>4. /\ b1 \in [Slots -> Byte]
      /\ \A i \in Slots : b1[i] = IF i - (rear + 1) \in 0..split - 1
                                  THEN head[i - rear] ELSE buf[i]
  <2> HIDE DEF head
  <2>1. rear + 1 \in Int /\ buf \in [Slots -> Byte]
    BY DEF TypeOK, Slots
  <2>2. \A i \in Slots : i - (rear + 1) + 1 = i - rear
    BY DEF TypeOK, Slots
  <2> QED BY <1>2, <2>1, <2>2, StoredIsCopy
<1>5. /\ b2 \in [Slots -> Byte]
      /\ \A i \in Slots : b2[i] = IF i \in 0..Len(s) - split - 1
                                  THEN tail[i + 1] ELSE b1[i]
  <2> HIDE DEF b1, tail, split
  <2>1. \A i \in Slots : i - 0 = i
    BY DEF Slots
  <2> QED BY <1>3, <1>4, <2>1, StoredIsCopy
<1>6. b2 = EnqueueCopy(s)
  BY DEF EnqueueCopy
<1>7. \A i \in 1..UsedSize : /\ i \in 0..Size + 1
                             /\ b2[Advance(front, i)] = buf[Advance(front, i)]
  <2> SUFFICES ASSUME NEW i \in 1..UsedSize
               PROVE  i \in 0..Size + 1 /\ b2[Advance(front, i)] = buf[Advance(front, i)]
    OBVIOUS
  <2> DEFINE k == Advance(front, i)
  <2>1. i \in 0..Size + 1
    BY <1>1, RingAssumption
  <2>2. k \in Slots /\ k = IF front + i <= Size THEN front + i ELSE front + i - (Size + 1)
    BY <2>1, AdvanceByCases DEF TypeOK
  <2>3. k - (rear + 1) \notin 0..split - 1 /\ k \notin 0..Len(s) - split - 1
    <3> HIDE DEF k
    <3> QED BY <1>1, <2>1, <2>2, RingAssumption
            DEF TypeOK, Slots, UsedSize, FreeSize, DirectEnqueueSize
  <2>4. b2[k] = buf[k]
    <3> HIDE DEF k, b1, b2, split
    <3> QED BY <2>2, <2>3, <1>4, <1>5
  <2> QED BY <2>1, <2>4
<1>8. \A j \in 1..Len(s) : b2[Advance(rear, j)] = s[j]
  <2> SUFFICES ASSUME NEW j \in 1..Len(s)
               PROVE  b2[Advance(rear, j)] = s[j]
    OBVIOUS
  <2> DEFINE k == Advance(rear, j)
  <2>1. j \in 0..Size + 1
    BY <1>1, RingAssumption
  <2>2. k \in Slots /\ k = IF rear + j <= Size THEN rear + j ELSE rear + j - (Size + 1)
    BY <2>1, AdvanceByCases DEF TypeOK
  <2>3. CASE j <= split
    <3>1. k = rear + j
      <4> HIDE DEF k
      <4> QED BY <1>1, <2>2, <2>3, RingAssumption
              DEF TypeOK, Slots, FreeSize, DirectEnqueueSize
    <3>2. k \notin 0..Len(s) - split - 1
      <4> HIDE DEF k
      <4> QED BY <1>1, <2>2, <2>3, <3>1, RingAssumption
              DEF TypeOK, Slots, FreeSize, DirectEnqueueSize
    <3>3. k - (rear + 1) \in 0..split - 1 /\ k - rear = j /\ j \in 1..split
      <4> HIDE DEF k, split
      <4> QED BY <1>1, <2>3, <3>1 DEF TypeOK, Slots
    <3>4. b2[k] = s[j]
      <4> HIDE DEF k, b1, b2, split, head, tail
      <4> QED BY <3>2, <3>3, <2>2, <1>2, <1>4, <1>5
    <3> QED BY <3>4
  <2>4. CASE ~(j <= split)
    <3>1. k = j - split - 1
      <4> HIDE DEF k
      <4>1. split = DirectEnqueueSize /\ DirectEnqueueSize < Len(s)
        BY <1>1, <2>4
      <4>2. front <= rear /\ DirectEnqueueSize = Size - rear
        BY <1>1, <4>1, RingAssumption
        DEF TypeOK, Slots, FreeSize, DirectEnqueueSize
      <4>3. rear + j > Size
        BY <1>1, <2>4, <4>1, <4>2, RingAssumption DEF TypeOK, Slots
      <4> QED BY <2>2, <4>1, <4>2, <4>3, RingAssumption DEF TypeOK, Slots
    <3>2. k \in 0..Len(s) - split - 1 /\ k + 1 \in 1..Len(s) - split /\ split + (k + 1) = j
      <4> HIDE DEF k, split
      <4> QED BY <1>1, <2>4, <3>1
    <3>3. b2[k] = s[j]
      <4> HIDE DEF k, b1, b2, split, head, tail
      <4> QED BY <3>2, <2>2, <1>3, <1>5
    <3> QED BY <3>3
  <2> QED BY <2>3, <2>4
<1> QED BY <1>5, <1>6, <1>7, <1>8 DEF Appends

\* A recv straight into the array appends, as long as it respects the direct size.
LEMMA DirectStoreAppends ==
  ASSUME TypeOK, NEW s \in Seq(Byte), Len(s) <= DirectEnqueueSize
  PROVE  Appends(Stored(buf, RearPtr, s), s)
<1> DEFINE b == Stored(buf, RearPtr, s)
<1>1. /\ Len(s) \in Nat /\ RearPtr \in Slots
      /\ FreeSize \in 0..Size /\ UsedSize \in 0..Size
      /\ DirectEnqueueSize \in 0..FreeSize
  BY IndexArithmetic, LenProperties DEF TypeOK
<1>2. /\ b \in [Slots -> Byte]
      /\ \A i \in Slots : b[i] = IF i - RearPtr \in 0..Len(s) - 1
                                 THEN s[i - RearPtr + 1] ELSE buf[i]
  <2>1. RearPtr \in Int /\ buf \in [Slots -> Byte]
    BY <1>1 DEF TypeOK, Slots
  <2> QED BY <2>1, StoredIsCopy
<1>3. ASSUME NEW i \in 1..UsedSize
      PROVE  b[Advance(front, i)] = buf[Advance(front, i)]
  <2> DEFINE k == Advance(front, i)
  <2>1. i \in 0..Size + 1
    BY <1>1, RingAssumption
  <2>2. k \in Slots /\ k = IF front + i <= Size THEN front + i ELSE front + i - (Size + 1)
    BY <2>1, AdvanceByCases DEF TypeOK
  <2>3. k - RearPtr \notin 0..Len(s) - 1
    <3> HIDE DEF k
    <3> QED BY <1>1, <2>1, <2>2, RingAssumption
            DEF TypeOK, Slots, UsedSize, DirectEnqueueSize, RearPtr
  <2>4. b[k] = buf[k]
    <3> HIDE DEF k, b
    <3> QED BY <1>2, <2>2, <2>3
  <2> QED BY <2>4
<1>4. ASSUME NEW j \in 1..Len(s)
      PROVE  b[Advance(rear, j)] = s[j]
  <2> DEFINE k == Advance(rear, j)
  <2>1. j \in 0..Size + 1
    BY <1>1, RingAssumption
  <2>2. k \in Slots /\ k = IF rear + j <= Size THEN rear + j ELSE rear + j - (Size + 1)
    BY <2>1, AdvanceByCases DEF TypeOK
  <2>3. k = RearPtr + j - 1
    <3> HIDE DEF k
    <3> QED BY <1>1, <2>1, <2>2, RingAssumption
            DEF TypeOK, Slots, DirectEnqueueSize, RearPtr
  <2>4. k - RearPtr \in 0..Len(s) - 1 /\ k - RearPtr + 1 = j
    <3> HIDE DEF k
    <3> QED BY <1>1, <2>3 DEF Slots
  <2>5. b[k] = s[j]
    <3> HIDE DEF k, b
    <3> QED BY <1>2, <2>2, <2>4
  <2> QED BY <2>5
<1> QED BY <1>2, <1>3, <1>4 DEF Appends

\* Dequeue's split copy hands out the oldest n bytes.
LEMMA DequeueCopyIsPrefix ==
  ASSUME TypeOK, NEW n \in 1..UsedSize
  PROVE  DequeueCopy(n) = SubSeq(contents, 1, n)
<1> DEFINE split == IF DirectDequeueSize >= n THEN n ELSE DirectDequeueSize
           head == Loaded(buf, front + 1, split)
           tail == Loaded(buf, 0, n - split)
<1>1. /\ UsedSize \in 0..Size /\ n \in Nat
      /\ DirectDequeueSize \in 0..UsedSize
  BY IndexArithmetic DEF TypeOK
<1>2. split \in 0..n
  BY <1>1
<1>3. \A i \in 1..split : front + 1 + i - 1 \in Slots /\ front + 1 + i - 1 = front + i
                          /\ front + i <= Size
  BY <1>1, <1>2, RingAssumption DEF TypeOK, Slots, DirectDequeueSize
<1>4. split < n => front > rear /\ split = Size - front
  BY <1>1 DEF TypeOK, Slots, UsedSize, DirectDequeueSize
<1>5. \A i \in 1..n - split : 0 + i - 1 \in Slots /\ 0 + i - 1 = i - 1
                              /\ front + (split + i) - (Size + 1) = i - 1
                              /\ front + (split + i) > Size
  <2> HIDE DEF split
  <2> QED BY <1>1, <1>2, <1>4, RingAssumption DEF TypeOK, Slots, UsedSize
<1>6. /\ head \in Seq(Byte) /\ Len(head) = split
      /\ \A i \in 1..split : head[i] = buf[front + i]
  <2> HIDE DEF split
  <2>1. split \in Nat /\ front + 1 \in Int /\ buf \in [Slots -> Byte]
    BY <1>2, <1>1 DEF TypeOK, Slots
  <2> QED BY <1>3, <2>1, LoadedIsCopy, ZenonT(60)
<1>7. /\ tail \in Seq(Byte) /\ Len(tail) = n - split
      /\ \A i \in 1..n - split : tail[i] = buf[i - 1]
  <2> HIDE DEF split
  <2>1. n - split \in Nat /\ buf \in [Slots -> Byte] /\ 0 \in Int
    BY <1>2, <1>1 DEF TypeOK
  <2>2. \A i \in 1..n - split : 0 + i - 1 \in Slots
    BY <1>5
  <2>3. /\ tail \in Seq(Byte) /\ Len(tail) = n - split
        /\ \A i \in 1..n - split : tail[i] = buf[0 + i - 1]
    BY <2>1, <2>2, LoadedIsCopy
  <2> HIDE DEF tail
  <2> QED BY <2>3, <1>5
<1>8. /\ head \o tail \in Seq(Byte) /\ Len(head \o tail) = n
      /\ \A i \in 1..n : (head \o tail)[i] =
           IF i <= split THEN head[i] ELSE tail[i - split]
  <2>1. split + (n - split) = n
    BY <1>1, <1>2
  <2> HIDE DEF head, tail, split
  <2>2. /\ head \o tail \in Seq(Byte) /\ Len(head \o tail) = Len(head) + Len(tail)
        /\ \A i \in 1..Len(head) + Len(tail) : (head \o tail)[i] =
             IF i <= Len(head) THEN head[i] ELSE tail[i - Len(head)]
    BY <1>6, <1>7, ConcatProperties
  <2> QED BY <1>6, <1>7, <2>1, <2>2
<1>9. /\ SubSeq(contents, 1, n) \in Seq(Byte)
      /\ Len(SubSeq(contents, 1, n)) = n
      /\ \A i \in 1..n : SubSeq(contents, 1, n)[i] = buf[Advance(front, i)]
  <2>1. \A i \in 1..n : i \in 1..UsedSize /\ contents[i] \in Byte
    BY <1>1, ContentsIsSeq, ElementOfSeq
  <2>2. \A i \in 1..n : SubSeq(contents, 1, n)[i] = contents[i]
    BY <1>1, <2>1, SubSeqProperties
  <2>3. SubSeq(contents, 1, n) \in Seq(Byte) /\ Len(SubSeq(contents, 1, n)) = n
    BY <1>1, <2>1, SubSeqProperties
  <2> QED BY <2>1, <2>2, <2>3, ContentsIsSeq
<1>10. ASSUME NEW i \in 1..n
       PROVE  (head \o tail)[i] = buf[Advance(front, i)]
  <2>1. i \in 0..Size + 1
    BY <1>1, RingAssumption
  <2>2. Advance(front, i) = IF front + i <= Size THEN front + i ELSE front + i - (Size + 1)
    BY <2>1, AdvanceByCases DEF TypeOK
  <2>3. CASE i <= split
    <3>1. i \in 1..split
      BY <1>1, <1>2, <2>3
    <3> HIDE DEF head, tail, split
    <3> QED BY <3>1, <2>2, <2>3, <1>3, <1>6, <1>8
  <2>4. CASE ~(i <= split)
    <3>1. i - split \in 1..n - split /\ split + (i - split) = i
      BY <1>1, <1>2, <2>4
    <3> HIDE DEF head, tail, split
    <3>2. tail[i - split] = buf[(i - split) - 1]
      BY <3>1, <1>7
    <3>3. Advance(front, i) = (i - split) - 1
      BY <3>1, <2>2, <1>1, <1>2, <1>5, RingAssumption DEF TypeOK, Slots
    <3> QED BY <3>2, <3>3, <2>4, <1>8
  <2> QED BY <2>3, <2>4
<1>11. DequeueCopy(n) = head \o tail
  BY DEF DequeueCopy
<1> HIDE DEF head, tail
<1> QED BY <1>8, <1>9, <1>10, <1>11, SeqEqual

\* A send straight out of the array hands out the oldest n bytes.
LEMMA DirectLoadIsPrefix ==
  ASSUME TypeOK, NEW n \in 0..DirectDequeueSize
  PROVE  /\ n \in 0..UsedSize
         /\ Loaded(buf, FrontPtr, n) = SubSeq(contents, 1, n)
<1>1. /\ UsedSize \in 0..Size /\ n \in Nat /\ FrontPtr \in Slots
      /\ DirectDequeueSize \in 0..UsedSize
  BY IndexArithmetic DEF TypeOK
<1>2. n \in 0..UsedSize
  BY <1>1
<1>3. \A i \in 1..n : /\ i \in 0..Size + 1 /\ i \in 1..UsedSize
                      /\ FrontPtr + i - 1 \in Slots
                      /\ FrontPtr + i - 1 = front + i /\ front + i <= Size
  BY <1>1, RingAssumption DEF TypeOK, Slots, FrontPtr, DirectDequeueSize
<1>4. \A i \in 1..n : Advance(front, i) = FrontPtr + i - 1
  BY <1>3, AdvanceByCases DEF TypeOK
<1>5. /\ Loaded(buf, FrontPtr, n) \in Seq(Byte)
      /\ Len(Loaded(buf, FrontPtr, n)) = n
      /\ \A i \in 1..n : Loaded(buf, FrontPtr, n)[i] = buf[FrontPtr + i - 1]
  <2>1. FrontPtr \in Int /\ buf \in [Slots -> Byte]
    BY <1>1 DEF TypeOK, Slots
  <2> QED BY <1>1, <1>3, <2>1, LoadedIsCopy
<1>6. /\ SubSeq(contents, 1, n) \in Seq(Byte)
      /\ Len(SubSeq(contents, 1, n)) = n
      /\ \A i \in 1..n : SubSeq(contents, 1, n)[i] = buf[Advance(front, i)]
  <2>1. \A i \in 1..n : contents[i] \in Byte
    BY <1>3, ContentsIsSeq, ElementOfSeq
  <2>2. /\ \A i \in 1..n : SubSeq(contents, 1, n)[i] = contents[i]
        /\ SubSeq(contents, 1, n) \in Seq(Byte) /\ Len(SubSeq(contents, 1, n)) = n
    BY <1>1, <2>1, SubSeqProperties
  <2> QED BY <1>3, <2>2, ContentsIsSeq
<1> QED BY <1>2, <1>4, <1>5, <1>6, SeqEqual

-----------------------------------------------------------------------------
\* Moving rear over the bytes of s makes them the youngest of the queue.
LEMMA AppendedContents ==
  ASSUME TypeOK, NEW s \in Seq(Byte), Len(s) <= FreeSize, Appends(buf', s),
         front' = front, rear' = Advance(rear, Len(s))
  PROVE  contents' = contents \o s /\ rear' \in Slots
<1>1. /\ Len(s) \in 0..Size + 1 /\ Len(s) \in Nat
      /\ UsedSize \in 0..Size /\ FreeSize \in 0..Size /\ FreeSize + UsedSize = Size
  BY IndexArithmetic, LenProperties DEF TypeOK, SizesAgree
<1>2. /\ rear' \in Slots
      /\ rear' = IF rear + Len(s) <= Size THEN rear + Len(s) ELSE rear + Len(s) - (Size + 1)
  BY <1>1, AdvanceByCases DEF TypeOK
<1>3. UsedSize' = UsedSize + Len(s)
  BY <1>1, <1>2, RingAssumption DEF TypeOK, Slots, UsedSize, FreeSize
<1>4. contents' = [i \in 1..UsedSize + Len(s) |-> buf'[Advance(front, i)]]
  BY <1>3 DEF contents, Advance
<1>5. /\ contents \o s \in Seq(Byte) /\ Len(contents \o s) = UsedSize + Len(s)
      /\ \A i \in 1..UsedSize + Len(s) : (contents \o s)[i] =
           IF i <= UsedSize THEN contents[i] ELSE s[i - UsedSize]
  <2>1. contents \in Seq(Byte) /\ Len(contents) = UsedSize
    BY ContentsIsSeq
  <2> HIDE DEF contents
  <2>2. /\ contents \o s \in Seq(Byte) /\ Len(contents \o s) = Len(contents) + Len(s)
        /\ \A i \in 1..Len(contents) + Len(s) : (contents \o s)[i] =
             IF i <= Len(contents) THEN contents[i] ELSE s[i - Len(contents)]
    BY <2>1, ConcatProperties
  <2> QED BY <2>1, <2>2
<1>6. ASSUME NEW i \in 1..UsedSize + Len(s)
      PROVE  buf'[Advance(front, i)] = (contents \o s)[i]
  <2>1. CASE i <= UsedSize
    <3>1. i \in 1..UsedSize
      BY <1>1, <2>1
    <3> QED BY <3>1, <2>1, <1>5, ContentsIsSeq DEF Appends
  <2>2. CASE ~(i <= UsedSize)
    <3> DEFINE j == i - UsedSize
    <3>1. /\ j \in 1..Len(s) /\ j \in 0..Size + 1 /\ i \in 0..Size + 1
          /\ i = UsedSize + j
      BY <1>1, <2>2, RingAssumption
    <3>2. Advance(front, i) = Advance(rear, j)
      <4>1. Advance(front, i) = IF front + i <= Size THEN front + i
                                ELSE front + i - (Size + 1)
        BY <3>1, AdvanceByCases DEF TypeOK
      <4>2. Advance(rear, j) = IF rear + j <= Size THEN rear + j
                               ELSE rear + j - (Size + 1)
        BY <3>1, AdvanceByCases DEF TypeOK
      <4> HIDE DEF j
      <4> QED BY <1>1, <3>1, <4>1, <4>2, RingAssumption DEF TypeOK, Slots, UsedSize
    <3>3. buf'[Advance(rear, j)] = s[j]
      BY <3>1 DEF Appends
    <3> QED BY <3>2, <3>3, <2>2, <1>5
  <2> QED BY <2>1, <2>2
<1>7. contents \o s = [i \in 1..UsedSize + Len(s) |-> (contents \o s)[i]]
  <2>1. contents \o s \in [1..UsedSize + Len(s) -> Byte]
    BY <1>5, LenProperties
  <2> QED BY <2>1
<1> HIDE DEF contents
<1>8. contents' = contents \o s
  BY <1>4, <1>6, <1>7
<1> QED BY <1>2, <1>8

\* Moving front by n forgets the n oldest bytes and only those.
LEMMA TakenContents ==
  ASSUME TypeOK, NEW n \in 0..UsedSize,
         buf' = buf, rear' = rear, front' = Advance(front, n)
  PROVE  contents' = SubSeq(contents, n + 1, Len(contents)) /\ front' \in Slots
<1>1. /\ n \in Nat /\ n \in 0..Size + 1 /\ UsedSize \in 0..Size
      /\ Len(contents) = UsedSize /\ contents \in Seq(Byte)
  <2>1. UsedSize \in 0..Size
    BY IndexArithmetic DEF TypeOK
  <2> QED BY <2>1, ContentsIsSeq, RingAssumption
<1>2. /\ front' \in Slots
      /\ front' = IF front + n <= Size THEN front + n ELSE front + n - (Size + 1)
  BY <1>1, AdvanceByCases DEF TypeOK
<1>3. UsedSize' = UsedSize - n
  BY <1>1, <1>2, RingAssumption DEF TypeOK, Slots, UsedSize
<1>4. contents' = [i \in 1..UsedSize - n |-> buf[Advance(front', i)]]
  BY <1>3 DEF contents, Advance
<1>5. /\ SubSeq(contents, n + 1, UsedSize) \in Seq(Byte)
      /\ Len(SubSeq(contents, n + 1, UsedSize)) = UsedSize - n
      /\ \A i \in 1..UsedSize - n : SubSeq(contents, n + 1, UsedSize)[i] = contents[n + i]
  <2>1. \A i \in n + 1..UsedSize : contents[i] \in Byte
    BY <1>1, ElementOfSeq
  <2> HIDE DEF contents
  <2>2. \A i \in 1..UsedSize - n : n + 1 + i - 1 = n + i
    BY <1>1
  <2>3. /\ SubSeq(contents, n + 1, UsedSize) \in Seq(Byte)
        /\ Len(SubSeq(contents, n + 1, UsedSize)) =
             IF n + 1 <= UsedSize THEN UsedSize - (n + 1) + 1 ELSE 0
        /\ \A i \in 1..UsedSize - (n + 1) + 1 :
             SubSeq(contents, n + 1, UsedSize)[i] = contents[n + 1 + i - 1]
    BY <1>1, <2>1, SubSeqProperties
  <2>4. UsedSize - (n + 1) + 1 = UsedSize - n /\ (~(n + 1 <= UsedSize) => UsedSize - n = 0)
    BY <1>1
  <2> QED BY <2>2, <2>3, <2>4
<1>6. ASSUME NEW i \in 1..UsedSize - n
      PROVE  buf[Advance(front', i)] = SubSeq(contents, n + 1, UsedSize)[i]
  <2>1. /\ n + i \in 1..UsedSize /\ n + i \in 0..Size + 1 /\ i \in 0..Size + 1
    BY <1>1, RingAssumption
  <2>2. Advance(front', i) = Advance(front, n + i)
    <3>1. Advance(front, n + i) = IF front + (n + i) <= Size THEN front + (n + i)
                                  ELSE front + (n + i) - (Size + 1)
      BY <2>1, AdvanceByCases DEF TypeOK
    <3>2. Advance(front', i) = IF front' + i <= Size THEN front' + i
                               ELSE front' + i - (Size + 1)
      BY <1>2, <2>1, AdvanceByCases
    <3> QED BY <1>1, <1>2, <2>1, <3>1, <3>2, RingAssumption DEF TypeOK, Slots, UsedSize
  <2> QED BY <2>1, <2>2, <1>5, ContentsIsSeq
<1>7. SubSeq(contents, n + 1, UsedSize) =
        [i \in 1..UsedSize - n |-> SubSeq(contents, n + 1, UsedSize)[i]]
  <2>1. SubSeq(contents, n + 1, UsedSize) \in [1..UsedSize - n -> Byte]
    BY <1>5, LenProperties
  <2> QED BY <2>1
<1> HIDE DEF contents
<1>8. contents' = SubSeq(contents, n + 1, UsedSize)
  BY <1>4, <1>6, <1>7
<1> QED BY <1>1, <1>2, <1>8

-----------------------------------------------------------------------------
\* What each operation does, in terms of the queue.
LEMMA RequestIsSeq ==
  ASSUME NEW s \in Request
  PROVE  s \in Seq(Byte) /\ Len(s) \in Nat
BY SeqDef, LenProperties, RingAssumption DEF Request

LEMMA EnqueueIsPut ==
  ASSUME TypeOK, NEW s \in Request, Enqueue(s)
  PROVE  TypeOK' /\ Queue!Put(s)
<1>1. /\ s \in Seq(Byte) /\ Len(s) \in Nat
      /\ FreeSize \in 0..Size /\ UsedSize \in 0..Size /\ FreeSize + UsedSize = Size
      /\ IsFull <=> FreeSize = 0
  BY RequestIsSeq, IndexArithmetic DEF TypeOK, SizesAgree
<1>2. contents \in Seq(Byte) /\ Len(contents) = UsedSize
  BY ContentsIsSeq
<1>3. Size - Len(contents) = FreeSize
  BY <1>1, <1>2
<1> DEFINE size == IF FreeSize >= Len(s) THEN Len(s) ELSE FreeSize
           taken == SubSeq(s, 1, size)
<1>4. size \in 0..Len(s) /\ size <= FreeSize /\ size \in 0..Size
  BY <1>1
<1>5. Queue!Accepted(s) = size
  <2> HIDE DEF contents
  <2> QED BY <1>1, <1>3 DEF Queue!Accepted
<1>6. CASE Len(s) = 0 \/ IsFull
  <2>1. size = 0
    BY <1>1, <1>6
  <2>2. ret' = 0 /\ out' = <<>> /\ UNCHANGED <<buf, front, rear>>
    BY <1>1, <1>6 DEF Enqueue
  <2>3. contents' = contents
    BY <2>2 DEF contents, UsedSize, Advance
  <2>4. SubSeq(s, 1, 0) = <<>> /\ contents \o <<>> = contents
    BY <1>2, SubSeqEmpty, ConcatEmptySeq
  <2>5. TypeOK'
    BY <2>2, EmptySeq, RingAssumption DEF TypeOK
  <2> HIDE DEF contents, size
  <2> QED BY <1>5, <2>1, <2>2, <2>3, <2>4, <2>5 DEF Queue!Put
<1>7. CASE ~(Len(s) = 0 \/ IsFull)
  <2>1. /\ ret' = size /\ out' = <<>> /\ front' = front
        /\ buf' = EnqueueCopy(taken) /\ rear' = Advance(rear, size)
    BY <1>7 DEF Enqueue
  <2>2. taken \in Seq(Byte) /\ Len(taken) = size
    <3> HIDE DEF size
    <3>1. \A i \in 1..size : s[i] \in Byte
      BY <1>1, <1>4, ElementOfSeq
    <3> QED BY <1>4, <3>1, SubSeqProperties
  <2> HIDE DEF size, taken
  <2>3. Appends(buf', taken)
    BY <1>4, <2>1, <2>2, EnqueueCopyAppends
  <2>4. contents' = contents \o taken /\ rear' \in Slots
    BY <1>4, <2>1, <2>2, <2>3, AppendedContents
  <2>5. TypeOK'
    BY <1>4, <2>1, <2>3, <2>4, EmptySeq DEF TypeOK, Appends
  <2> HIDE DEF contents
  <2> QED BY <1>5, <2>1, <2>4, <2>5 DEF Queue!Put, taken
<1> QED BY <1>6, <1>7

LEMMA RecvIntoIsPut ==
  ASSUME TypeOK, NEW s \in Request, RecvInto(s)
  PROVE  TypeOK' /\ Queue!Put(s)
<1>1. /\ s \in Seq(Byte) /\ Len(s) \in Nat /\ Len(s) <= DirectEnqueueSize
      /\ FreeSize \in 0..Size /\ UsedSize \in 0..Size /\ FreeSize + UsedSize = Size
      /\ DirectEnqueueSize \in 0..FreeSize
  BY RequestIsSeq, IndexArithmetic DEF TypeOK, SizesAgree, RecvInto
<1>2. Len(s) <= FreeSize /\ ~(FreeSize < Len(s))
  BY <1>1
<1>3. /\ ret' = Len(s) /\ rear' = Advance(rear, Len(s)) /\ front' = front
      /\ out' = <<>> /\ buf' = Stored(buf, RearPtr, s)
  BY <1>2 DEF RecvInto, MoveRear
<1>4. Appends(buf', s)
  BY <1>1, <1>3, DirectStoreAppends
<1>5. contents' = contents \o s /\ rear' \in Slots
  BY <1>1, <1>2, <1>3, <1>4, AppendedContents
<1>6. Len(contents) = UsedSize
  BY ContentsIsSeq
<1>7. Queue!Accepted(s) = Len(s) /\ SubSeq(s, 1, Len(s)) = s
  <2> HIDE DEF contents
  <2> QED BY <1>1, <1>2, <1>6, SubSeqFull DEF Queue!Accepted
<1>8. TypeOK'
  BY <1>1, <1>2, <1>3, <1>4, <1>5, EmptySeq DEF TypeOK, Appends
<1> HIDE DEF contents
<1> QED BY <1>3, <1>5, <1>7, <1>8 DEF Queue!Put

\* What Dequeue, Peek and a send return: the oldest n bytes, or none of them.
LEMMA HandedOut ==
  ASSUME TypeOK, NEW n \in 0..UsedSize
  PROVE  SubSeq(contents, 1, n) \in Seq(Byte) /\ SubSeq(contents, 1, 0) = <<>>
<1>1. contents \in Seq(Byte) /\ Len(contents) = UsedSize /\ UsedSize \in 0..Size
  BY ContentsIsSeq, IndexArithmetic DEF TypeOK
<1>2. \A i \in 1..n : contents[i] \in Byte
  BY <1>1, ElementOfSeq
<1> HIDE DEF contents
<1> QED BY <1>1, <1>2, SubSeqProperties, SubSeqEmpty

LEMMA RefusedIsTooMany ==
  ASSUME TypeOK, NEW n \in 0..MaxRequest
  PROVE  /\ n \in Nat
         /\ Refused(n) <=> n = 0 \/ n > UsedSize
         /\ ~Refused(n) => n \in 1..UsedSize
         /\ n <= Len(contents) <=> n <= UsedSize
<1>1. /\ UsedSize \in 0..Size /\ (IsEmpty <=> UsedSize = 0)
      /\ Len(contents) = UsedSize /\ n \in Nat
  BY IndexArithmetic, ContentsIsSeq, RingAssumption DEF TypeOK, SizesAgree
<1> HIDE DEF contents
<1> QED BY <1>1 DEF Refused

LEMMA DequeueIsTake ==
  ASSUME TypeOK, NEW n \in 0..MaxRequest, Dequeue(n)
  PROVE  TypeOK' /\ Queue!Take(n)
<1>1. /\ n \in Nat /\ UsedSize \in 0..Size
      /\ contents \in Seq(Byte) /\ Len(contents) = UsedSize
  BY RefusedIsTooMany, ContentsIsSeq, IndexArithmetic DEF TypeOK
<1>2. CASE Refused(n)
  <2>1. out' = <<>> /\ ret' = 0 /\ UNCHANGED <<buf, front, rear>>
    BY <1>2 DEF Dequeue
  <2>2. contents' = contents
    BY <2>1 DEF contents, UsedSize, Advance
  <2>3. (IF n <= Len(contents) THEN n ELSE 0) = 0
    BY <1>1, <1>2, RefusedIsTooMany
  <2>4. SubSeq(contents, 1, 0) = <<>> /\ SubSeq(contents, 0 + 1, Len(contents)) = contents
    BY <1>1, SubSeqEmpty, SubSeqFull
  <2>5. TypeOK'
    BY <2>1, EmptySeq, RingAssumption DEF TypeOK
  <2> HIDE DEF contents
  <2> QED BY <2>1, <2>2, <2>3, <2>4, <2>5 DEF Queue!Take
<1>3. CASE ~Refused(n)
  <2>1. /\ n \in 1..UsedSize /\ n \in 0..UsedSize
        /\ out' = DequeueCopy(n) /\ ret' = n /\ front' = Advance(front, n)
        /\ buf' = buf /\ rear' = rear
    BY <1>1, <1>3, RefusedIsTooMany DEF Dequeue
  <2>2. out' = SubSeq(contents, 1, n) /\ out' \in Seq(Byte)
    BY <2>1, DequeueCopyIsPrefix, HandedOut
  <2>3. contents' = SubSeq(contents, n + 1, Len(contents)) /\ front' \in Slots
    BY <2>1, TakenContents
  <2>4. (IF n <= Len(contents) THEN n ELSE 0) = n
    BY <1>1, <2>1
  <2>5. TypeOK'
    BY <1>1, <2>1, <2>2, <2>3, RingAssumption DEF TypeOK
  <2> HIDE DEF contents
  <2> QED BY <2>1, <2>2, <2>3, <2>4, <2>5 DEF Queue!Take
<1> QED BY <1>2, <1>3

LEMMA PeekIsLook ==
  ASSUME TypeOK, NEW n \in 0..MaxRequest, Peek(n)
  PROVE  TypeOK' /\ Queue!Look(n)
<1>1. /\ n \in Nat /\ UsedSize \in 0..Size
      /\ contents \in Seq(Byte) /\ Len(contents) = UsedSize
  BY RefusedIsTooMany, ContentsIsSeq, IndexArithmetic DEF TypeOK
<1>2. UNCHANGED <<buf, front, rear>>
  BY DEF Peek
<1>3. contents' = contents
  BY <1>2 DEF contents, UsedSize, Advance
<1>4. CASE Refused(n)
  <2>1. out' = <<>> /\ ret' = 0
    BY <1>4 DEF Peek
  <2>2. (IF n <= Len(contents) THEN n ELSE 0) = 0 /\ SubSeq(contents, 1, 0) = <<>>
    BY <1>1, <1>4, RefusedIsTooMany, SubSeqEmpty
  <2>3. TypeOK'
    BY <1>2, <2>1, EmptySeq, RingAssumption DEF TypeOK
  <2> HIDE DEF contents
  <2> QED BY <1>3, <2>1, <2>2, <2>3 DEF Queue!Look
<1>5. CASE ~Refused(n)
  <2>1. n \in 1..UsedSize /\ n \in 0..UsedSize /\ out' = DequeueCopy(n) /\ ret' = n
    BY <1>1, <1>5, RefusedIsTooMany DEF Peek
  <2>2. out' = SubSeq(contents, 1, n) /\ out' \in Seq(Byte)
    BY <2>1, DequeueCopyIsPrefix, HandedOut
  <2>3. (IF n <= Len(contents) THEN n ELSE 0) = n
    BY <1>1, <2>1
  <2>4. TypeOK'
    BY <1>1, <1>2, <2>1, <2>2, RingAssumption DEF TypeOK
  <2> HIDE DEF contents
  <2> QED BY <1>3, <2>1, <2>2, <2>3, <2>4 DEF Queue!Look
<1> QED BY <1>4, <1>5

LEMMA SendFromIsTake ==
  ASSUME TypeOK, NEW n \in 0..MaxRequest, SendFrom(n)
  PROVE  TypeOK' /\ Queue!Take(n)
<1>1. /\ n \in Nat /\ UsedSize \in 0..Size /\ DirectDequeueSize \in 0..UsedSize
      /\ contents \in Seq(Byte) /\ Len(contents) = UsedSize
  BY RefusedIsTooMany, ContentsIsSeq, IndexArithmetic DEF TypeOK
<1>2. n \in 0..DirectDequeueSize /\ n \in 0..UsedSize /\ ~(UsedSize < n)
  BY <1>1 DEF SendFrom
<1>3. /\ ret' = n /\ front' = Advance(front, n)
      /\ out' = Loaded(buf, FrontPtr, n) /\ buf' = buf /\ rear' = rear
  BY <1>2 DEF SendFrom, MoveFront
<1>4. out' = SubSeq(contents, 1, n) /\ out' \in Seq(Byte)
  BY <1>2, <1>3, DirectLoadIsPrefix, HandedOut
<1>5. contents' = SubSeq(contents, n + 1, Len(contents)) /\ front' \in Slots
  BY <1>2, <1>3, TakenContents
<1>6. (IF n <= Len(contents) THEN n ELSE 0) = n
  BY <1>1, <1>2
<1>7. TypeOK'
  BY <1>1, <1>2, <1>3, <1>4, <1>5, RingAssumption DEF TypeOK
<1> HIDE DEF contents
<1> QED BY <1>3, <1>4, <1>5, <1>6, <1>7 DEF Queue!Take

LEMMA ClearBufferIsClear ==
  ASSUME TypeOK, ClearBuffer
  PROVE  TypeOK' /\ Queue!Clear
<1>1. UsedSize' = 0
  BY RingAssumption DEF ClearBuffer, UsedSize, TypeOK, Slots
<1>2. contents' = [i \in 1..0 |-> buf'[Advance(front', i)]]
  BY <1>1 DEF contents, Advance
<1>3. contents' = <<>>
  BY <1>2
<1>4. TypeOK'
  BY EmptySeq, RingAssumption DEF ClearBuffer, TypeOK
<1> HIDE DEF contents
<1> QED BY <1>3, <1>4 DEF ClearBuffer, Queue!Clear

-----------------------------------------------------------------------------
\* The indices never leave the array, and only bytes are handed out, whatever
\* mix of copying and direct calls is made: type correctness of the ring.
THEOREM TypeCorrect == Spec => []TypeOK
<1>1. Init => TypeOK
  BY EmptySeq, RingAssumption DEF Init, TypeOK, Slots
<1>2. TypeOK /\ [Next]_vars => TypeOK'
  <2> SUFFICES ASSUME TypeOK, [Next]_vars PROVE TypeOK'
    OBVIOUS
  <2>1. ASSUME NEW s \in Request, Enqueue(s) PROVE TypeOK'
    BY <2>1, EnqueueIsPut
  <2>2. ASSUME NEW s \in Request, RecvInto(s) PROVE TypeOK'
    BY <2>2, RecvIntoIsPut
  <2>3. ASSUME NEW n \in 0..MaxRequest, Dequeue(n) PROVE TypeOK'
    BY <2>3, DequeueIsTake
  <2>4. ASSUME NEW n \in 0..MaxRequest, Peek(n) PROVE TypeOK'
    BY <2>4, PeekIsLook
  <2>5. ASSUME NEW n \in 0..MaxRequest, SendFrom(n) PROVE TypeOK'
    BY <2>5, SendFromIsTake
  <2>6. CASE ClearBuffer
    BY <2>6, ClearBufferIsClear
  <2>7. CASE UNCHANGED vars
    BY <2>7 DEF vars, TypeOK
  <2> QED BY <2>1, <2>2, <2>3, <2>4, <2>5, <2>6, <2>7 DEF Next
<1> QED BY <1>1, <1>2, PTL DEF Spec

\* Free and used sizes add up to the capacity, and IsEmpty and IsFull agree
\* with them, in every reachable position of the two indices.
THEOREM SizesAlwaysAgree == Spec => []SizesAgree
<1>1. TypeOK => SizesAgree
  BY IndexArithmetic DEF TypeOK
<1> QED BY <1>1, TypeCorrect, PTL

\* A recv of the size GetDirectEnqueueSize announces overwrites no stored byte
\* and stays in the array; a send of GetDirectDequeueSize reads stored bytes only.
THEOREM DirectTransfersAlwaysSafe == Spec => []DirectTransfersAreSafe
<1>1. ASSUME TypeOK PROVE DirectTransfersAreSafe
  <2>1. /\ UsedSize \in 0..Size /\ FreeSize \in 0..Size
        /\ DirectEnqueueSize \in 0..FreeSize /\ DirectDequeueSize \in 0..UsedSize
        /\ RearPtr \in Slots /\ FrontPtr \in Slots
    BY <1>1, IndexArithmetic DEF TypeOK
  <2>2. ASSUME NEW k \in Run(RearPtr, DirectEnqueueSize)
        PROVE  k \in Slots /\ k \notin UsedSlots
    <3>1. k \in Slots
      BY <1>1, <2>1, <2>2, RingAssumption
      DEF Run, TypeOK, Slots, RearPtr, DirectEnqueueSize
    <3>2. ASSUME NEW i \in 1..UsedSize PROVE Advance(front, i) # k
      <4>1. i \in 0..Size + 1
        BY <2>1, RingAssumption
      <4>2. Advance(front, i) = IF front + i <= Size THEN front + i
                                ELSE front + i - (Size + 1)
        BY <1>1, <4>1, AdvanceByCases DEF TypeOK
      <4> QED BY <1>1, <2>1, <2>2, <3>1, <4>1, <4>2, RingAssumption
              DEF Run, TypeOK, Slots, RearPtr, DirectEnqueueSize, UsedSize
    <3> QED BY <3>1, <3>2 DEF UsedSlots
  <2>3. ASSUME NEW k \in Run(FrontPtr, DirectDequeueSize)
        PROVE  k \in UsedSlots
    <3> DEFINE i == k - front
    <3>1. i \in 1..UsedSize /\ front + i = k /\ k <= Size /\ i \in 0..Size + 1
      BY <1>1, <2>1, <2>3, RingAssumption
      DEF Run, TypeOK, Slots, FrontPtr, DirectDequeueSize
    <3>2. Advance(front, i) = k
      BY <1>1, <3>1, AdvanceByCases DEF TypeOK
    <3> QED BY <3>1, <3>2 DEF UsedSlots
  <2> QED BY <2>2, <2>3 DEF DirectTransfersAreSafe
<1> QED BY <1>1, TypeCorrect, PTL

\* The ring implements the bounded FIFO: every call, copying or direct, at
\* every position of the indices, is the queue's operation of the same name.
THEOREM RingRefinesQueue == Spec => RefinesByteQueue
<1>1. Init => Queue!Init
  <2> SUFFICES ASSUME Init PROVE Queue!Init
    OBVIOUS
  <2>1. UsedSize = 0 /\ out = <<>> /\ ret = 0
    BY DEF Init, UsedSize
  <2>2. contents = [i \in 1..0 |-> buf[Advance(front, i)]]
    BY <2>1 DEF contents
  <2>3. contents = <<>>
    BY <2>2
  <2> HIDE DEF contents
  <2> QED BY <2>1, <2>3 DEF Queue!Init
<1>2. TypeOK /\ [Next]_vars => [Queue!Next]_(Queue!qvars)
  <2> SUFFICES ASSUME TypeOK, [Next]_vars
               PROVE  [Queue!Next]_(Queue!qvars)
    OBVIOUS
  <2>1. Request = Queue!Request
    BY DEF Request, Queue!Request
  <2>2. ASSUME NEW s \in Request, Enqueue(s) \/ RecvInto(s) PROVE Queue!Next
    <3>1. Queue!Put(s)
      BY <2>2, EnqueueIsPut, RecvIntoIsPut
    <3> QED BY <2>1, <3>1 DEF Queue!Next
  <2>3. ASSUME NEW n \in 0..MaxRequest, Dequeue(n) \/ SendFrom(n) PROVE Queue!Next
    <3>1. Queue!Take(n)
      BY <2>3, DequeueIsTake, SendFromIsTake
    <3> QED BY <3>1 DEF Queue!Next
  <2>4. ASSUME NEW n \in 0..MaxRequest, Peek(n) PROVE Queue!Next
    <3>1. Queue!Look(n)
      BY <2>4, PeekIsLook
    <3> QED BY <3>1 DEF Queue!Next
  <2>5. CASE ClearBuffer
    <3>1. Queue!Clear
      BY <2>5, ClearBufferIsClear
    <3> QED BY <3>1 DEF Queue!Next
  <2>6. CASE UNCHANGED vars
    <3>1. contents' = contents /\ UNCHANGED <<out, ret>>
      BY <2>6 DEF vars, contents, UsedSize, Advance
    <3> HIDE DEF contents
    <3> QED BY <3>1 DEF Queue!qvars
  <2> QED BY <2>2, <2>3, <2>4, <2>5, <2>6 DEF Next
<1> QED BY <1>1, <1>2, TypeCorrect, PTL DEF Spec, RefinesByteQueue, Queue!Spec
=============================================================================
