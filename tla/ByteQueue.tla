----------------------------- MODULE ByteQueue -----------------------------
(* What RingBuffer promises its callers: a bounded FIFO of bytes.  Putting   *)
(* more than fits stores the prefix that fits; taking or looking at more     *)
(* than is stored returns nothing and changes nothing.                       *)
EXTENDS Naturals, Sequences

CONSTANTS Byte,        \* the values a byte can have
          Capacity,    \* how many bytes the queue holds
          MaxRequest   \* bound on the size of one request

VARIABLES contents,    \* the bytes stored, oldest first
          out,         \* the bytes the last operation handed to its caller
          ret          \* the count the last operation returned

qvars == <<contents, out, ret>>

Request == UNION {[1..n -> Byte] : n \in 0..MaxRequest}

Init == contents = <<>> /\ out = <<>> /\ ret = 0

Accepted(s) == IF Len(s) <= Capacity - Len(contents)
               THEN Len(s) ELSE Capacity - Len(contents)

Put(s) == /\ contents' = contents \o SubSeq(s, 1, Accepted(s))
          /\ ret' = Accepted(s)
          /\ out' = <<>>

Look(n) == /\ ret' = IF n <= Len(contents) THEN n ELSE 0
           /\ out' = SubSeq(contents, 1, ret')
           /\ UNCHANGED contents

Take(n) == /\ ret' = IF n <= Len(contents) THEN n ELSE 0
           /\ out' = SubSeq(contents, 1, ret')
           /\ contents' = SubSeq(contents, ret' + 1, Len(contents))

Clear == contents' = <<>> /\ ret' = 0 /\ out' = <<>>

Next == \/ \E s \in Request : Put(s)
        \/ \E n \in 0..MaxRequest : Look(n) \/ Take(n)
        \/ Clear

Spec == Init /\ [][Next]_qvars
=============================================================================
