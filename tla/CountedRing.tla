----------------------------- MODULE CountedRing -----------------------------
(* The byte ring of OnlineStar and of the drawing client: RING_SIZE + 1      *)
(* slots, front the slot consumed last, rear the slot filled last, and, other *)
(* than in RingBuffer, a counter of the bytes stored.  The operations are     *)
(* operators on a ring's state, for programs that keep several rings.         *)
EXTENDS Integers, Sequences

CONSTANT RING_SIZE   \* DEFAULT_RINGBUFSIZE

ASSUME CountedRingAssumption == RING_SIZE \in Nat \ {0}

RingSlots == 0..RING_SIZE

\* A ring over an array that holds b wherever nothing was stored yet.
NewRing(b) == [buffer |-> [i \in RingSlots |-> b], front |-> 0, rear |-> 0, usedSize |-> 0]

GetUsedSize(r) == r.usedSize

GetFreeSize(r) == RING_SIZE - r.usedSize

GetDirectEnqueueSize(r) == IF r.front <= r.rear THEN RING_SIZE - r.rear
                                                ELSE r.front - r.rear - 1

GetDirectDequeueSize(r) == IF r.front <= r.rear THEN r.rear - r.front
                                                ELSE RING_SIZE - r.front

\* Mutant: the index restarts at the number of bytes copied to the start.
MovedRearByRest(r, n) == IF n > GetDirectEnqueueSize(r) THEN n - GetDirectEnqueueSize(r)
                                                        ELSE r.rear + n

MovedRear(r, n) == IF n > GetDirectEnqueueSize(r) THEN n - GetDirectEnqueueSize(r) - 1
                                                  ELSE r.rear + n

MovedFront(r, n) == IF n > GetDirectDequeueSize(r) THEN n - GetDirectDequeueSize(r) - 1
                                                   ELSE r.front + n

\* What Enqueue of n bytes and Dequeue or Peek of n bytes return.
EnqueueSize(r, n) == IF n <= 0 THEN 0 ELSE IF GetFreeSize(r) < n THEN GetFreeSize(r) ELSE n

DequeueSize(r, n) == IF n <= 0 \/ r.usedSize < n THEN 0 ELSE n

\* memcpy(b + at, s, Len(s)) and the n bytes a memcpy reads from b + at
Written(b, at, s) ==
  [i \in RingSlots |-> IF i - at \in 0..Len(s) - 1 THEN s[i - at + 1] ELSE b[i]]

ReadFrom(b, at, n) == [i \in 1..n |-> b[at + i - 1]]

\* The ring after Enqueue of s: as much of s as fits, in one copy or, past the
\* array's end, in two.
Enqueue(r, s) ==
  LET n == EnqueueSize(r, Len(s))
      direct == IF GetDirectEnqueueSize(r) < n THEN GetDirectEnqueueSize(r) ELSE n
  IN  IF n = 0 THEN r
      ELSE [r EXCEPT !.buffer = Written(Written(@, r.rear + 1, SubSeq(s, 1, direct)),
                                        0, SubSeq(s, direct + 1, n)),
                     !.usedSize = @ + n,
                     !.rear = MovedRear(r, n)]

\* The bytes Peek and Dequeue of n bytes hand out.
Peek(r, n) ==
  LET k == DequeueSize(r, n)
      direct == IF GetDirectDequeueSize(r) < k THEN GetDirectDequeueSize(r) ELSE k
  IN  ReadFrom(r.buffer, r.front + 1, direct) \o ReadFrom(r.buffer, 0, k - direct)

\* The ring after Dequeue of n bytes.
Dequeue(r, n) ==
  LET k == DequeueSize(r, n)
  IN  IF k = 0 THEN r
      ELSE [r EXCEPT !.usedSize = @ - k, !.front = MovedFront(r, k)]
=============================================================================
