----------------------------- MODULE RingBuffer -----------------------------
(* The byte ring of the fighter server (and of MyLibrary): Size + 1 slots,   *)
(* front the slot consumed last, rear the slot filled last, one slot always  *)
(* left empty.  Besides Enqueue/Dequeue it has a direct mode, in which the   *)
(* caller's recv or send works on the array itself, at GetRearPtr or         *)
(* GetFrontPtr, and then moves the index by what was transferred.            *)
(* A negative size, which the code passes when recv or send fails with       *)
(* WSAEWOULDBLOCK, is left to the modules of the callers.                    *)
EXTENDS Integers, Sequences

CONSTANTS Byte, Size, MaxRequest

ASSUME RingAssumption == /\ Size \in Nat \ {0}
                         /\ MaxRequest \in Nat
                         /\ Byte # {}

VARIABLES buf, front, rear,  \* m_bufferPtr, m_front, m_rear
          out, ret           \* the bytes handed to the caller, the value returned

vars == <<buf, front, rear, out, ret>>

Slots == 0..Size

Request == UNION {[1..n -> Byte] : n \in 0..MaxRequest}

\* Mutant: the slot that stays empty is counted as free.
FreeSizeNoGap == IF rear >= front THEN Size - rear + front ELSE front - rear

FreeSize == IF rear >= front THEN Size - rear + front ELSE front - rear - 1

UsedSize == IF rear >= front THEN rear - front ELSE Size - front + rear + 1

\* Mutant: the room up to the array's end, whatever lies in it.
DirectEnqueueToEnd == Size - rear

DirectEnqueueSize == IF front <= rear THEN Size - rear ELSE front - rear - 1

DirectDequeueSize == IF front <= rear THEN rear - front ELSE Size - front

IsEmpty == front = rear

IsFull == (rear + 1) % (Size + 1) = front

\* Mutant: the slot filled last, not the next one.
RearPtrOfLast == rear

RearPtr == IF rear = Size THEN 0 ELSE rear + 1

FrontPtr == IF front = Size THEN 0 ELSE front + 1

\* Mutant: an index that runs past the end.
AdvanceUnwrapped(i, n) == i + n

Advance(i, n) == (i + n) % (Size + 1)

\* memcpy(b + at, s, Len(s)) and the n bytes a memcpy reads from b + at
Stored(b, at, s) ==
  [i \in Slots |-> IF i - at \in 0..Len(s) - 1 THEN s[i - at + 1] ELSE b[i]]

Loaded(b, at, n) == [i \in 1..n |-> b[at + i - 1]]

\* The copy of Enqueue: up to the array's end, then the rest from its start.
EnqueueCopy(s) ==
  LET split == IF DirectEnqueueSize >= Len(s) THEN Len(s) ELSE DirectEnqueueSize
  IN  Stored(Stored(buf, rear + 1, SubSeq(s, 1, split)),
             0, SubSeq(s, split + 1, Len(s)))

\* The copy of Dequeue and Peek.
DequeueCopy(n) ==
  LET split == IF DirectDequeueSize >= n THEN n ELSE DirectDequeueSize
  IN  Loaded(buf, front + 1, split) \o Loaded(buf, 0, n - split)

-----------------------------------------------------------------------------
Init == /\ buf \in [Slots -> Byte]     \* new char[] is not initialised
        /\ front = 0 /\ rear = 0
        /\ out = <<>> /\ ret = 0

Enqueue(s) ==
  LET size == IF FreeSize >= Len(s) THEN Len(s) ELSE FreeSize IN
  /\ out' = <<>>
  /\ UNCHANGED front
  /\ \/ /\ Len(s) = 0 \/ IsFull
        /\ ret' = 0
        /\ UNCHANGED <<buf, rear>>
     \/ /\ Len(s) > 0 /\ ~IsFull
        /\ ret' = size
        /\ buf' = EnqueueCopy(SubSeq(s, 1, size))
        /\ rear' = Advance(rear, size)

Refused(n) == n = 0 \/ IsEmpty \/ UsedSize < n

Dequeue(n) ==
  /\ UNCHANGED <<buf, rear>>
  /\ \/ /\ Refused(n)
        /\ out' = <<>> /\ ret' = 0
        /\ UNCHANGED front
     \/ /\ ~Refused(n)
        /\ out' = DequeueCopy(n) /\ ret' = n
        /\ front' = Advance(front, n)

Peek(n) ==
  /\ UNCHANGED <<buf, front, rear>>
  /\ \/ /\ Refused(n)
        /\ out' = <<>> /\ ret' = 0
     \/ /\ ~Refused(n)
        /\ out' = DequeueCopy(n) /\ ret' = n

ClearBuffer == /\ front' = rear
               /\ out' = <<>> /\ ret' = 0
               /\ UNCHANGED <<buf, rear>>

MoveRear(n) == /\ ret' = IF FreeSize < n THEN 0 ELSE n
               /\ rear' = Advance(rear, ret')

MoveFront(n) == /\ ret' = IF UsedSize < n THEN 0 ELSE n
                /\ front' = Advance(front, ret')

\* recv(sock, GetRearPtr(), GetDirectEnqueueSize()) delivers s; MoveRear(retval)
RecvInto(s) == /\ Len(s) <= DirectEnqueueSize
               /\ buf' = Stored(buf, RearPtr, s)
               /\ MoveRear(Len(s))
               /\ out' = <<>>
               /\ UNCHANGED front

\* send(sock, GetFrontPtr(), GetDirectDequeueSize()) takes n bytes; MoveFront(retval)
SendFrom(n) == /\ n <= DirectDequeueSize
               /\ out' = Loaded(buf, FrontPtr, n)
               /\ MoveFront(n)
               /\ UNCHANGED <<buf, rear>>

Next == \/ \E s \in Request : Enqueue(s) \/ RecvInto(s)
        \/ \E n \in 0..MaxRequest : Dequeue(n) \/ Peek(n) \/ SendFrom(n)
        \/ ClearBuffer

Spec == Init /\ [][Next]_vars
-----------------------------------------------------------------------------
\* The queue the ring stands for: the used slots from front + 1 on.
contents == [i \in 1..UsedSize |-> buf[Advance(front, i)]]

\* The indices stay in the array, and what is handed out is bytes.
TypeOK == /\ buf \in [Slots -> Byte]
          /\ front \in Slots /\ rear \in Slots
          /\ ret \in 0..Size
          /\ out \in Seq(Byte)

\* GetFreeSize and GetUsedSize, computed by different case splits on the two
\* indices, always add up to the capacity, and IsEmpty/IsFull (computed by a
\* third and a fourth) agree with them.
SizesAgree == /\ FreeSize + UsedSize = Size
              /\ IsEmpty <=> UsedSize = 0
              /\ IsFull <=> FreeSize = 0

\* The slots from p on, n of them: where a direct transfer works.
Run(p, n) == p..(p + n - 1)

UsedSlots == {Advance(front, i) : i \in 1..UsedSize}

\* A direct transfer of the size the ring announces stays inside the array; a
\* recv overwrites no stored byte, a send reads nothing but stored bytes.
DirectTransfersAreSafe ==
  /\ Run(RearPtr, DirectEnqueueSize) \subseteq Slots \ UsedSlots
  /\ Run(FrontPtr, DirectDequeueSize) \subseteq UsedSlots

\* The ring is the bounded FIFO, for every mix of copying and direct calls.
Queue == INSTANCE ByteQueue WITH Capacity <- Size, contents <- contents
RefinesByteQueue == Queue!Spec
=============================================================================
