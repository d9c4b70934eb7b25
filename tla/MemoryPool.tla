----------------------------- MODULE MemoryPool -----------------------------
(* The object pool: free blocks linked through their own next fields, handed   *)
(* out from the top and taken back to the top; malloc when all are in use.     *)
EXTENDS Integers, Sequences, FiniteSets

CONSTANTS Block,          \* the addresses malloc can return
          NoBlock,        \* nullptr
          InitNodeNum     \* blocks the constructor allocates

ASSUME PoolAssumption == NoBlock \notin Block /\ InitNodeNum \in Nat

VARIABLES
  top, next, capacityCnt, usedCnt,   \* m_top, the next fields, m_capacityCnt, m_usedCnt
  isPlacementNew,                    \* m_isPlacementNew
  held,      \* blocks handed out and not given back
  built,     \* blocks that hold a constructed object
  recycled,  \* blocks that have been given back at least once
  free       \* the free list, top first, as it ought to be

poolVars == <<top, next, capacityCnt, usedCnt, isPlacementNew, held, built, recycled, free>>

IsDistinct(s) == \A i, j \in DOMAIN s : i # j => s[i] # s[j]

\* The links of the list s.
Links(s) == [b \in Block |->
  IF \E i \in 1..Len(s) - 1 : s[i] = b
  THEN s[(CHOOSE i \in 1..Len(s) - 1 : s[i] = b) + 1] ELSE NoBlock]

Blocks(s) == {s[i] : i \in DOMAIN s}

TopOf(s) == IF s = <<>> THEN NoBlock ELSE s[1]

\* The constructor: InitNodeNum blocks, with objects in them unless these are
\* constructed at every Alloc.
PoolInit == /\ free \in {s \in [1..InitNodeNum -> Block] : IsDistinct(s)}
            /\ top = TopOf(free) /\ next = Links(free)
            /\ capacityCnt = InitNodeNum /\ usedCnt = 0 /\ held = {} /\ recycled = {}
            /\ isPlacementNew \in BOOLEAN
            /\ built = IF isPlacementNew THEN {} ELSE Blocks(free)

\* Alloc while there are free blocks.
AllocFromList ==
  /\ capacityCnt > usedCnt
  /\ top \in Block             \* m_top->next
  /\ top' = next[top]
  /\ built' = IF isPlacementNew THEN built \cup {top} ELSE built
  /\ held' = held \cup {top}
  /\ usedCnt' = usedCnt + 1
  /\ free' = Tail(free)
  /\ UNCHANGED <<next, capacityCnt, isPlacementNew, recycled>>

\* Alloc when there are none: malloc returns a block that is not in use.
AllocNew ==
  /\ capacityCnt <= usedCnt
  /\ \E b \in Block \ held :
       /\ \A i \in DOMAIN free : free[i] # b
       /\ built' = built \cup {b}
       /\ held' = held \cup {b}
  /\ capacityCnt' = capacityCnt + 1 /\ usedCnt' = usedCnt + 1
  /\ UNCHANGED <<top, next, isPlacementNew, recycled, free>>

\* Mutant: the freed block becomes the top before it is linked to the old one.
FreeLinkedLate(b) ==
  /\ b \in held
  /\ built' = built \ {b} /\ held' = held \ {b} /\ recycled' = recycled \cup {b}
  /\ next' = [next EXCEPT ![b] = b] /\ top' = b
  /\ usedCnt' = usedCnt - 1
  /\ free' = <<b>> \o free
  /\ UNCHANGED <<capacityCnt, isPlacementNew>>

\* A block in use is given back, once.  Its object is destroyed, whatever Alloc
\* will do with the block.
Free(b) ==
  /\ b \in held
  /\ built' = built \ {b} /\ held' = held \ {b} /\ recycled' = recycled \cup {b}
  /\ next' = [next EXCEPT ![b] = top] /\ top' = b
  /\ usedCnt' = usedCnt - 1
  /\ free' = <<b>> \o free
  /\ UNCHANGED <<capacityCnt, isPlacementNew>>

PoolNext == AllocFromList \/ AllocNew \/ \E b \in Block : Free(b)

PoolSpec == PoolInit /\ [][PoolNext]_poolVars
-----------------------------------------------------------------------------
(* No block is ever handed out twice, and none is lost: the links from m_top   *)
(* run through exactly the free blocks, each once and none of them in use, to  *)
(* nullptr, and there are as many as the two counters say.                     *)
BlocksAreNotShared ==
  /\ IsDistinct(free)
  /\ \A i \in DOMAIN free : free[i] \in Block \ held
  /\ top = TopOf(free)
  /\ \A i \in DOMAIN free : next[free[i]] = IF i = Len(free) THEN NoBlock ELSE free[i + 1]
  /\ capacityCnt - usedCnt = Len(free)
  /\ usedCnt >= 0

(* Which blocks hold an object: with placement new exactly those in use.       *)
(* Without, Free destroys the object all the same and Alloc hands the block    *)
(* out as it is: those that were never given back, so that a user of a         *)
(* recycled block has none, although it was to be set up once and kept.        *)
BuiltUnlessRecycled ==
  built = IF isPlacementNew THEN held
          ELSE (held \cup Blocks(free)) \ recycled
=============================================================================
