--------------------------- MODULE LibrariesProofs ---------------------------
(* The small programs and libraries, each for every value of its constants:    *)
(* the locks, the memory pool, movement, the packet, the path finder, the list. *)
EXTENDS SpinLock, MemoryPool, Movement, Packet, MyList, PathFinder,
        SequenceLemmas, FiniteSetTheorems


-----------------------------------------------------------------------------
(* The locks exclude, for any number of rounds, and so no update is lost.      *)
Places == {"try", "failed", "load", "store", "unlock", "end"}

LockTypes == /\ isLocked \in BOOLEAN
             /\ expected \in [Thread -> BOOLEAN]
             /\ at \in [Thread -> Places]
             /\ sum \in Int
             /\ register \in [Thread -> Int]
             /\ done \in [Thread -> Int]

\* expected is FALSE whenever the compare-and-swap runs, which therefore takes the
\* flag only from FALSE; the flag is up while a thread is inside.
Excluded == /\ \A t \in Thread : at[t] = "try" => expected[t] = FALSE
            /\ \A t \in Thread : Inside(t) => isLocked = TRUE
            /\ isLocked = TRUE => Inside("Add") \/ Inside("Sub")
            /\ ~(Inside("Add") /\ Inside("Sub"))

\* What a thread has read stays what the counter is while it is inside.
RegisterIsFresh == \A t \in Thread : at[t] = "store" => register[t] = sum

LockInv == LockTypes /\ Excluded /\ RegisterIsFresh /\ SumIsExact

LEMMA LockInvInit == LockInit => LockInv
<1> SUFFICES ASSUME LockInit PROVE LockInv
  OBVIOUS
<1> USE DEF LockInit, Thread, Places
<1>1. LockTypes
  <2>1. isLocked \in BOOLEAN /\ expected \in [Thread -> BOOLEAN]
    BY Zenon
  <2>2. at \in [Thread -> Places] /\ sum \in Int
        /\ register \in [Thread -> Int] /\ done \in [Thread -> Int]
    OBVIOUS
  <2> QED BY <2>1, <2>2 DEF LockTypes
<1>2. \A t \in Thread : ~Inside(t)
  BY DEF Inside
<1>3. Excluded
  BY <1>2 DEF Excluded
<1>4. RegisterIsFresh
  BY DEF RegisterIsFresh
<1>5. Changes("Add") = 0 /\ Changes("Sub") = 0
  BY DEF Changes
<1> QED BY <1>1, <1>3, <1>4, <1>5 DEF LockInv, SumIsExact

LEMMA LockInvNext == LockInv /\ [LockNext]_lockVars => LockInv'
<1> SUFFICES ASSUME LockInv, [LockNext]_lockVars PROVE LockInv'
  OBVIOUS
<1> USE DEF LockInv, LockTypes, Excluded, RegisterIsFresh, SumIsExact, Changes, Inside,
            Places, Goto, Thread
<1>1. ASSUME NEW t \in Thread, compareExchange(t) PROVE LockInv'
  <2>1. CASE isLocked = expected[t]
    BY <1>1, <2>1 DEF compareExchange
  <2>2. CASE isLocked # expected[t]
    BY <1>1, <2>2 DEF compareExchange
  <2> QED BY <2>1, <2>2
<1>2. ASSUME NEW t \in Thread, tryAgain(t) PROVE LockInv'
  BY <1>2 DEF tryAgain
<1>3. ASSUME NEW t \in Thread, load(t) PROVE LockInv'
  BY <1>3 DEF load
<1>4. ASSUME NEW t \in Thread, store(t) PROVE LockInv'
  BY <1>4 DEF store
<1>5. ASSUME NEW t \in Thread, unlock(t) PROVE LockInv'
  <2>1. PICK p \in {"end", "try"} : at' = [at EXCEPT ![t] = p]
    BY <1>5 DEF unlock
  <2>2. /\ at[t] = "unlock" /\ isLocked' = FALSE /\ UNCHANGED <<sum, register>>
        /\ done' = [done EXCEPT ![t] = done[t] + 1] /\ expected' = [expected EXCEPT ![t] = FALSE]
    BY <1>5 DEF unlock
  <2>3. isLocked' \in BOOLEAN /\ expected' \in [Thread -> BOOLEAN]
    BY <2>2, Zenon
  <2>4. /\ at' \in [Thread -> Places] /\ sum' \in Int
        /\ register' \in [Thread -> Int] /\ done' \in [Thread -> Int]
    BY <2>1, <2>2
  <2>5. \A u \in Thread : ~Inside(u)'
    BY <2>1, <2>2
  <2>6. \A u \in Thread : at'[u] = "try" => expected'[u] = FALSE
    BY <2>1, <2>2
  <2>7. RegisterIsFresh' /\ SumIsExact'
    BY <2>1, <2>2
  <2>8. isLocked' # TRUE
    BY <2>2
  <2> QED BY <2>3, <2>4, <2>5, <2>6, <2>7, <2>8
<1>6. CASE UNCHANGED lockVars
  BY <1>6 DEF lockVars
<1> QED BY <1>1, <1>2, <1>3, <1>4, <1>5, <1>6 DEF LockNext

LEMMA LockInvAlways == LockSpec => []LockInv
  BY LockInvInit, LockInvNext, PTL DEF LockSpec

(* No addition and no subtraction is lost, however the two threads' attempts,  *)
(* reads and writes interleave and however many rounds they run.               *)
THEOREM NoUpdateIsLost == LockSpec => []SumIsExact
<1>1. LockInv => SumIsExact
  BY DEF LockInv
<1> QED BY <1>1, LockInvAlways, PTL

(* A thread enters by a successful compare-and-swap and leaves by unlock, one  *)
(* at a time: the flag is a lock.                                             *)
THEOREM LockIsAMutex == LockSpec => ImplementsMutex
<1>1. LockInit => Lock!Init
  BY RoundsAssumption DEF LockInit, Lock!Init, holder, Inside, Thread
<1>2. LockInv /\ [LockNext]_lockVars => [Lock!Next]_holder
  <2> SUFFICES ASSUME LockInv, [LockNext]_lockVars PROVE [Lock!Next]_holder
    OBVIOUS
  <2> USE DEF LockInv, LockTypes, Excluded, holder, Inside, Goto, Thread, Places
  <2>1. ASSUME NEW t \in Thread, compareExchange(t) PROVE [Lock!Next]_holder
    <3>1. CASE isLocked = expected[t]
      <4>1. ~Inside("Add") /\ ~Inside("Sub") /\ at' = [at EXCEPT ![t] = "load"]
        BY <2>1, <3>1 DEF compareExchange
      <4>2. holder = Nobody /\ holder' = t
        BY <4>1
      <4> QED BY <4>2 DEF Lock!Next, Lock!Acquire
    <3>2. CASE isLocked # expected[t]
      <4>1. UNCHANGED holder
        BY <2>1, <3>2 DEF compareExchange
      <4> QED BY <4>1
    <3> QED BY <3>1, <3>2
  <2>2. ASSUME NEW t \in Thread, tryAgain(t) PROVE UNCHANGED holder
    BY <2>2 DEF tryAgain
  <2>3. ASSUME NEW t \in Thread, load(t) PROVE UNCHANGED holder
    BY <2>3 DEF load
  <2>4. ASSUME NEW t \in Thread, store(t) PROVE UNCHANGED holder
    BY <2>4 DEF store
  <2>5. ASSUME NEW t \in Thread, unlock(t) PROVE [Lock!Next]_holder
    <3>1. at[t] = "unlock" /\ \E p \in {"end", "try"} : at' = [at EXCEPT ![t] = p]
      BY <2>5 DEF unlock
    <3>2. holder = t /\ holder' = Nobody
      BY <3>1
    <3> QED BY <3>2 DEF Lock!Next, Lock!Release
  <2>6. CASE UNCHANGED lockVars
    BY <2>6 DEF lockVars
  <2> QED BY <2>1, <2>2, <2>3, <2>4, <2>5, <2>6 DEF LockNext
<1> QED BY <1>1, <1>2, LockInvAlways, PTL DEF LockSpec, ImplementsMutex, Lock!Spec

-----------------------------------------------------------------------------
(* The free list of the pool, for every number of blocks.                      *)
PoolTypes == /\ next \in [Block -> Block \cup {NoBlock}]
             /\ capacityCnt \in Int
             /\ held \subseteq Block /\ built \subseteq Block
             /\ free \in Seq(Block)
             /\ isPlacementNew \in BOOLEAN

\* The used count is what it says, so giving a block back never makes it negative.
UsedIsCounted == IsFiniteSet(held) /\ usedCnt = Cardinality(held)

\* A block given back is still the pool's: malloc does not return it again.
RecycledAreKept == recycled \subseteq held \cup Blocks(free)

PoolInv == /\ PoolTypes /\ UsedIsCounted /\ BlocksAreNotShared
           /\ RecycledAreKept /\ BuiltUnlessRecycled

\* The links the constructor makes lead from each block to the one after it.
LEMMA LinksFollow ==
  ASSUME NEW s \in Seq(Block), IsDistinct(s), NEW i \in 1..Len(s)
  PROVE  Links(s)[s[i]] = IF i = Len(s) THEN NoBlock ELSE s[i + 1]
<1>1. s[i] \in Block
  OBVIOUS
<1>2. CASE i = Len(s)
  <2>1. ~\E j \in 1..Len(s) - 1 : s[j] = s[i]
    BY <1>2 DEF IsDistinct
  <2> QED BY <1>1, <1>2, <2>1 DEF Links
<1>3. CASE i # Len(s)
  <2>1. i \in 1..Len(s) - 1
    BY <1>3
  <2>2. \A j \in 1..Len(s) - 1 : s[j] = s[i] => j = i
    BY DEF IsDistinct
  <2>3. (CHOOSE j \in 1..Len(s) - 1 : s[j] = s[i]) = i
    BY <2>1, <2>2
  <2>4. Links(s)[s[i]] = s[(CHOOSE j \in 1..Len(s) - 1 : s[j] = s[i]) + 1]
    BY <1>1, <2>1 DEF Links
  <2> QED BY <1>3, <2>3, <2>4
<1> QED BY <1>2, <1>3

\* The blocks of a list are its first and those of the rest.
LEMMA FirstAndRest ==
  ASSUME NEW s \in Seq(Block), NEW t \in Seq(Block), Len(s) = Len(t) + 1,
         \A i \in 1..Len(t) : s[i + 1] = t[i]
  PROVE  Blocks(s) = {s[1]} \cup Blocks(t)
<1>1. ASSUME NEW i \in DOMAIN s PROVE s[i] \in {s[1]} \cup Blocks(t)
  <2>1. i = 1 \/ (i - 1 \in 1..Len(t) /\ s[(i - 1) + 1] = s[i])
    OBVIOUS
  <2> QED BY <2>1 DEF Blocks
<1>2. ASSUME NEW i \in DOMAIN t PROVE t[i] \in Blocks(s)
  <2>1. i + 1 \in DOMAIN s /\ s[i + 1] = t[i]
    OBVIOUS
  <2> QED BY <2>1 DEF Blocks
<1>3. s[1] \in Blocks(s)
  BY DEF Blocks
<1> QED BY <1>1, <1>2, <1>3 DEF Blocks

LEMMA PoolInvInit == PoolInit => PoolInv
<1> SUFFICES ASSUME PoolInit PROVE PoolInv
  OBVIOUS
<1> USE PoolAssumption
<1>1. free \in Seq(Block) /\ Len(free) = InitNodeNum /\ IsDistinct(free)
  BY DEF PoolInit
<1>2. next = Links(free) /\ top = TopOf(free)
  BY DEF PoolInit
<1>3. Links(free) \in [Block -> Block \cup {NoBlock}]
  <2>1. ASSUME NEW b \in Block, NEW j \in 1..Len(free) - 1 PROVE free[j + 1] \in Block
    BY <1>1
  <2>2. ASSUME NEW b \in Block, \E j \in 1..Len(free) - 1 : free[j] = b
        PROVE  free[(CHOOSE j \in 1..Len(free) - 1 : free[j] = b) + 1] \in Block
    BY <2>1, <2>2
  <2> QED BY <2>2 DEF Links
<1>4. PoolTypes
  <2>1. built \subseteq Block /\ isPlacementNew \in BOOLEAN
    BY <1>1 DEF PoolInit, Blocks
  <2> QED BY <1>1, <1>2, <1>3, <2>1 DEF PoolInit, PoolTypes
<1>5. UsedIsCounted
  BY FS_EmptySet DEF PoolInit, UsedIsCounted
<1>6. \A i \in 1..Len(free) : next[free[i]] = IF i = Len(free) THEN NoBlock ELSE free[i + 1]
  BY <1>1, <1>2, LinksFollow
<1>7. BlocksAreNotShared
  BY <1>1, <1>2, <1>6 DEF PoolInit, BlocksAreNotShared
<1>8. RecycledAreKept
  BY DEF PoolInit, RecycledAreKept
<1>9. BuiltUnlessRecycled
  BY DEF PoolInit, BuiltUnlessRecycled
<1> QED BY <1>4, <1>5, <1>7, <1>8, <1>9 DEF PoolInv

LEMMA PoolInvNext == PoolInv /\ [PoolNext]_poolVars => PoolInv'
<1> SUFFICES ASSUME PoolInv, [PoolNext]_poolVars PROVE PoolInv'
  OBVIOUS
<1> USE PoolAssumption
<1>1. CASE AllocFromList
  <2> USE <1>1 DEF AllocFromList, PoolInv, PoolTypes, BlocksAreNotShared
  <2>1. Len(free) >= 1 /\ top = free[1] /\ top \notin held
    BY DEF TopOf, UsedIsCounted
  <2>2. Tail(free) \in Seq(Block) /\ Len(Tail(free)) = Len(free) - 1
    BY <2>1
  <2>3. \A i \in 1..Len(free) - 1 : Tail(free)[i] = free[i + 1]
    BY <2>1
  <2>4. UsedIsCounted'
    BY <2>1, FS_AddElement DEF UsedIsCounted
  <2>5. PoolTypes'
    BY <2>1, <2>2
  <2>6. top' = TopOf(Tail(free))
    BY <2>1, <2>2, <2>3 DEF TopOf
  <2>7. IsDistinct(free)'
    BY <2>1, <2>2, <2>3 DEF IsDistinct
  <2>8. \A i \in DOMAIN free' : free'[i] \in Block \ held'
    BY <2>1, <2>2, <2>3 DEF IsDistinct
  <2>9. \A i \in DOMAIN free' :
           next'[free'[i]] = IF i = Len(free') THEN NoBlock ELSE free'[i + 1]
    BY <2>1, <2>2, <2>3
  <2>10. capacityCnt' - usedCnt' = Len(free') /\ usedCnt' >= 0
    <3>1. usedCnt \in Nat
      BY FS_CardinalityType DEF UsedIsCounted
    <3> QED BY <2>2, <3>1
  <2>11. Blocks(free) = {top} \cup Blocks(free')
    <3>1. free \in Seq(Block) /\ free' \in Seq(Block) /\ Len(free) = Len(free') + 1
      BY <2>2
    <3>2. \A i \in 1..Len(free') : free[i + 1] = free'[i]
      BY <2>2, <2>3
    <3>3. top = free[1]
      BY <2>1
    <3> HIDE <1>1 DEF AllocFromList, PoolInv, PoolTypes, BlocksAreNotShared
    <3> QED BY <3>1, <3>2, <3>3, FirstAndRest
  <2>12. held' \cup Blocks(free') = held \cup Blocks(free) /\ recycled' = recycled
    <3>1. held' = held \cup {top} /\ recycled' = recycled
      OBVIOUS
    <3> HIDE <1>1 DEF AllocFromList, PoolInv, PoolTypes, BlocksAreNotShared
    <3> QED BY <2>11, <3>1
  <2>13. RecycledAreKept'
    BY <2>12 DEF PoolInv, RecycledAreKept
  <2>14. BuiltUnlessRecycled'
    <3>1. CASE isPlacementNew
      BY <3>1 DEF BuiltUnlessRecycled
    <3>2. CASE ~isPlacementNew
      BY <2>12, <3>2 DEF BuiltUnlessRecycled
    <3> QED BY <3>1, <3>2
  <2> QED BY <2>4, <2>5, <2>6, <2>7, <2>8, <2>9, <2>10, <2>13, <2>14
<1>2. CASE AllocNew
  <2> USE <1>2 DEF PoolInv, PoolTypes, BlocksAreNotShared
  <2>1. PICK b \in Block \ held : /\ \A i \in DOMAIN free : free[i] # b
                                  /\ built' = built \cup {b} /\ held' = held \cup {b}
    BY DEF AllocNew
  <2>2. /\ capacityCnt' = capacityCnt + 1 /\ usedCnt' = usedCnt + 1
        /\ UNCHANGED <<top, next, isPlacementNew, recycled, free>>
    BY DEF AllocNew
  <2>3. UsedIsCounted' /\ usedCnt \in Nat
    BY <2>1, <2>2, FS_AddElement, FS_CardinalityType DEF UsedIsCounted
  <2>4. PoolTypes'
    BY <2>1, <2>2
  <2>5. b \notin recycled /\ RecycledAreKept'
    BY <2>1, <2>2 DEF RecycledAreKept, Blocks
  <2>6. BuiltUnlessRecycled'
    BY <2>1, <2>2, <2>5 DEF BuiltUnlessRecycled
  <2> QED BY <2>1, <2>2, <2>3, <2>4, <2>5, <2>6
<1>3. ASSUME NEW b \in Block, Free(b) PROVE PoolInv'
  <2> USE <1>3 DEF Free, PoolInv, PoolTypes, BlocksAreNotShared
  <2>1. /\ free' \in Seq(Block) /\ Len(free') = Len(free) + 1 /\ free'[1] = b
        /\ \A i \in 1..Len(free) : free'[i + 1] = free[i]
    OBVIOUS
  <2>2. \A i \in 1..Len(free) : free[i] # b
    OBVIOUS
  <2>3. UsedIsCounted' /\ usedCnt \in Nat \ {0}
    BY FS_RemoveElement, FS_CardinalityType, FS_EmptySet DEF UsedIsCounted
  <2>4. PoolTypes'
    <3>1. top \in Block \cup {NoBlock}
      BY DEF TopOf
    <3> QED BY <2>1, <3>1
  <2>5. top' = TopOf(free')
    BY <2>1 DEF TopOf
  <2>6. ASSUME NEW i \in 1..Len(free'), i # 1 PROVE i - 1 \in 1..Len(free) /\ free'[i] = free[i - 1]
    BY <2>1, <2>6
  <2>7. IsDistinct(free')
    BY <2>1, <2>2, <2>6 DEF IsDistinct
  <2>8. \A i \in DOMAIN free' : free'[i] \in Block \ held'
    BY <2>1, <2>6
  <2>9. ASSUME NEW i \in DOMAIN free'
        PROVE  next'[free'[i]] = IF i = Len(free') THEN NoBlock ELSE free'[i + 1]
    <3>1. CASE i = 1
      <4>1. next'[b] = top
        OBVIOUS
      <4>2. CASE Len(free) = 0
        BY <2>1, <3>1, <4>1, <4>2 DEF TopOf
      <4>3. CASE Len(free) > 0
        BY <2>1, <3>1, <4>1, <4>3 DEF TopOf
      <4> QED BY <4>2, <4>3
    <3>2. CASE i # 1
      <4>1. next'[free'[i]] = next[free[i - 1]]
        BY <2>1, <2>2, <2>6, <3>2
      <4>2. i # Len(free') => free'[i + 1] = free[i]
        BY <2>1, <3>2
      <4>3. next[free[i - 1]] = IF i - 1 = Len(free) THEN NoBlock ELSE free[(i - 1) + 1]
        BY <2>6, <3>2
      <4>4. i = Len(free') <=> i - 1 = Len(free)
        BY <2>1
      <4> QED BY <2>1, <3>2, <4>1, <4>2, <4>3, <4>4, SMTT(60)
    <3> QED BY <3>1, <3>2
  <2>10. capacityCnt' - usedCnt' = Len(free') /\ usedCnt' >= 0
    BY <2>1, <2>3
  <2>11. Blocks(free') = {b} \cup Blocks(free)
    BY <2>1, FirstAndRest
  <2>12. RecycledAreKept'
    BY <2>11 DEF RecycledAreKept
  <2>13. BuiltUnlessRecycled'
    BY <2>2, <2>11 DEF BuiltUnlessRecycled
  <2> QED BY <2>3, <2>4, <2>5, <2>7, <2>8, <2>9, <2>10, <2>12, <2>13
<1>4. CASE UNCHANGED poolVars
  BY <1>4 DEF poolVars, PoolInv, PoolTypes, UsedIsCounted, BlocksAreNotShared,
                RecycledAreKept, BuiltUnlessRecycled
<1> QED BY <1>1, <1>2, <1>3, <1>4 DEF PoolNext

LEMMA PoolInvAlways == PoolSpec => []PoolInv
  BY PoolInvInit, PoolInvNext, PTL DEF PoolSpec

(* However many blocks there are and however they are taken and given back, no *)
(* block is handed out while it is in use, and none is lost.                   *)
THEOREM NoBlockIsShared == PoolSpec => []BlocksAreNotShared
<1>1. PoolInv => BlocksAreNotShared
  BY DEF PoolInv
<1> QED BY <1>1, PoolInvAlways, PTL

(* Which blocks hold an object, at any time and in a pool of either kind: with *)
(* placement new those in use; without, only those never given back, so that   *)
(* whoever is handed a recycled block finds its object destroyed.              *)
THEOREM RecycledAreUnbuilt == PoolSpec => []BuiltUnlessRecycled
<1>1. PoolInv => BuiltUnlessRecycled
  BY DEF PoolInv
<1> QED BY <1>1, PoolInvAlways, PTL

-----------------------------------------------------------------------------
(* The range of movement, for every field, speed and tolerance.                *)
MoveTypes == xPos \in Int /\ yPos \in Int /\ action \in Actions /\ honest \in BOOLEAN

MoveInv == MoveTypes /\ FieldIsKept

\* A step towards either side ends on the field if it began there.
LEMMA ToStaysOnField ==
  ASSUME NEW a \in Actions, NEW x \in Int, NEW y \in Int, OnField(x, y)
  PROVE  /\ ToX(a, x) \in Int /\ ToY(a, y) \in Int /\ OnField(ToX(a, x), ToY(a, y))
         /\ ToX(a, x) - x <= FP_X /\ x - ToX(a, x) <= FP_X
         /\ ToY(a, y) - y <= FP_Y /\ y - ToY(a, y) <= FP_Y
<1>1. /\ ToX(a, x) \in Int /\ dfRANGE_MOVE_LEFT <= ToX(a, x) /\ ToX(a, x) <= dfRANGE_MOVE_RIGHT
      /\ ToX(a, x) - x <= FP_X /\ x - ToX(a, x) <= FP_X
  BY FieldAssumption DEF OnField, ToX, moveLeft, moveRight, Larger, Smaller
<1>2. /\ ToY(a, y) \in Int /\ dfRANGE_MOVE_TOP <= ToY(a, y) /\ ToY(a, y) <= dfRANGE_MOVE_BOTTOM
      /\ ToY(a, y) - y <= FP_Y /\ y - ToY(a, y) <= FP_Y
  BY FieldAssumption DEF OnField, ToY, moveUp, moveDown, Larger, Smaller
<1> QED BY <1>1, <1>2 DEF OnField

LEMMA WithinTheLarger ==
  ASSUME NEW p \in Int, NEW q \in Int, NEW m \in Nat, NEW n \in Nat,
         (q - p <= m /\ p - q <= m) \/ (q - p <= n /\ p - q <= n)
  PROVE  Larger(q - p, p - q) <= Larger(m, n)
BY DEF Larger

LEMMA FrameKeepsToField ==
  ASSUME MoveInv, frame PROVE MoveInv' /\ NoJumps
<1>1. xPos' = ToX(action, xPos) /\ yPos' = ToY(action, yPos) /\ action' = action /\ honest' = honest
  BY DEF frame
<1>2. xPos' \in Int /\ yPos' \in Int
  BY <1>1, FieldAssumption DEF MoveInv, MoveTypes, ToX, ToY, moveLeft, moveRight, moveUp, moveDown,
     Larger, Smaller
<1>3. CASE honest
  <2>1. OnField(xPos, yPos)
    BY <1>3 DEF MoveInv, FieldIsKept
  <2>2. /\ OnField(xPos', yPos')
        /\ xPos' - xPos <= FP_X /\ xPos - xPos' <= FP_X
        /\ yPos' - yPos <= FP_Y /\ yPos - yPos' <= FP_Y
    <3>1. action \in Actions /\ xPos \in Int /\ yPos \in Int
      BY DEF MoveInv, MoveTypes
    <3> DEFINE x == ToX(action, xPos)  y == ToY(action, yPos)
    <3>2. /\ OnField(x, y)
          /\ x - xPos <= FP_X /\ xPos - x <= FP_X
          /\ y - yPos <= FP_Y /\ yPos - y <= FP_Y
      BY <2>1, <3>1, ToStaysOnField
    <3>3. xPos' = x /\ yPos' = y
      BY <1>1
    <3> HIDE DEF x, y
    <3> QED BY <3>2, <3>3 DEF OnField
  <2>3. NoJumps
    <3>1. xPos \in Int /\ yPos \in Int /\ FP_X \in Nat /\ FP_Y \in Nat /\ dfERROR_RANGE \in Nat
      BY FieldAssumption DEF MoveInv, MoveTypes
    <3>2. Larger(xPos' - xPos, xPos - xPos') <= Larger(FP_X, dfERROR_RANGE)
      BY <2>2, <1>2, <3>1, WithinTheLarger
    <3>3. Larger(yPos' - yPos, yPos - yPos') <= Larger(FP_Y, dfERROR_RANGE)
      BY <2>2, <1>2, <3>1, WithinTheLarger
    <3> QED BY <3>2, <3>3 DEF NoJumps
  <2> QED BY <1>1, <1>2, <2>2, <2>3 DEF MoveInv, MoveTypes, FieldIsKept
<1>4. CASE ~honest
  BY <1>1, <1>2, <1>4 DEF MoveInv, MoveTypes, FieldIsKept, NoJumps
<1> QED BY <1>3, <1>4 DEF MoveInv, MoveTypes

LEMMA ClaimKeepsToField ==
  ASSUME MoveInv, NEW c \in Claims, TakenOver(c), action' \in Actions
  PROVE  MoveInv' /\ NoJumps
<1>1. c.x \in Int /\ c.y \in Int /\ xPos' = c.x /\ yPos' = c.y
  BY FieldAssumption DEF TakenOver, Claim
<1>2. honest' = (honest /\ OnField(c.x, c.y)) /\ ~Distant(c)
  BY DEF TakenOver
<1>3. MoveTypes'
  BY <1>1, <1>2 DEF MoveInv, MoveTypes
<1>4. FieldIsKept'
  BY <1>1, <1>2 DEF FieldIsKept
<1>5. NoJumps
  BY <1>1, <1>2, FieldAssumption DEF NoJumps, Distant, Larger, MoveInv, MoveTypes
<1> QED BY <1>3, <1>4, <1>5 DEF MoveInv

LEMMA MoveInvInit == StartsOnField /\ MoveInit => MoveInv
  BY FieldAssumption DEF StartsOnField, MoveInit, MoveInv, MoveTypes, FieldIsKept, Actions, OnField

LEMMA MoveInvNext == MoveInv /\ [MoveNext]_moveVars => MoveInv' /\ [NoJumps]_moveVars
<1> SUFFICES ASSUME MoveInv, [MoveNext]_moveVars PROVE MoveInv' /\ [NoJumps]_moveVars
  OBVIOUS
<1>1. CASE frame
  BY <1>1, FrameKeepsToField
<1>2. ASSUME NEW c \in Claims, NEW a \in Actions \ {"STOP"}, packetProc_MOVE_START(a, c)
      PROVE  MoveInv' /\ NoJumps
  BY <1>2, ClaimKeepsToField DEF packetProc_MOVE_START
<1>3. ASSUME NEW c \in Claims, NEW d \in {"LL", "RR"}, packetProc_MOVE_STOP(d, c)
      PROVE  MoveInv' /\ NoJumps
  BY <1>3, ClaimKeepsToField DEF packetProc_MOVE_STOP, Actions
<1>4. ASSUME NEW c \in Claims, packetProc_refused(c) PROVE MoveInv' /\ NoJumps
  BY <1>4, FieldAssumption
     DEF packetProc_refused, MoveInv, MoveTypes, FieldIsKept, NoJumps, OnField, Larger
<1>5. CASE UNCHANGED moveVars
  BY <1>5 DEF moveVars, MoveInv, MoveTypes, FieldIsKept, OnField
<1> QED BY <1>1, <1>2, <1>3, <1>4, <1>5 DEF MoveNext

(* From a start on the field, frames keep a player on it in every direction,   *)
(* and a player off it was brought there by a claim off it.                    *)
THEOREM PlayersKeepToField == StartsOnField /\ MoveSpec => []FieldIsKept
<1>1. MoveInv => FieldIsKept
  BY DEF MoveInv
<1> QED BY <1>1, MoveInvInit, MoveInvNext, PTL DEF MoveSpec

(* And until then no frame and no packet moves it farther than a frame may or  *)
(* the tolerance allows.                                                      *)
THEOREM PlayersDoNotJump == StartsOnField /\ MoveSpec => [][NoJumps]_moveVars
  BY MoveInvInit, MoveInvNext, PTL DEF MoveSpec

-----------------------------------------------------------------------------
(* What is taken out of a Packet is what was put in, for every size of the     *)
(* buffer and every mix of value sizes, taken before or after they are put in. *)
PacketTypes == /\ m_buffer \in [Place -> Byte \cup {Unset}]
               /\ written \in Seq(Byte) /\ taken \in Seq(Byte \cup {Unset})
               /\ m_dataSize \in Int

\* Where the two positions stand as long as they mean anything: a packet that
\* was sent is only cleared, and one that was received is only read.
Positions == /\ Len(written) <= m_bufferSize /\ Len(taken) <= m_bufferSize
             /\ use # "sent" => m_front = Len(taken) - 1
             /\ use \in {"fresh", "built"} => m_rear = Len(written) - 1
             /\ use = "fresh" => written = <<>> /\ taken = <<>> /\ missing = {}

PacketInv == PacketTypes /\ Positions /\ TakenAsWritten

LEMMA BelowTheSize == ASSUME NEW m \in Nat \ {0}, NEW a \in 0..m-1 PROVE a % m = a
  OBVIOUS

\* A position moved over bytes that are in the buffer does not go round.
LEMMA MovedInside ==
  ASSUME NEW n \in Nat, NEW k \in Nat \ {0}, n + k <= m_bufferSize
  PROVE  Moved(n - 1, k) = n + k - 1
<1>1. m_bufferSize \in Nat \ {0} /\ n - 1 + k \in 0..m_bufferSize-1
  BY PacketAssumption
<1>2. (n - 1 + k) % m_bufferSize = n - 1 + k
  BY <1>1, BelowTheSize
<1> QED BY <1>2 DEF Moved

LEMMA CopiedType ==
  ASSUME NEW first \in Nat, NEW bytes \in Seq(Byte), m_buffer \in [Place -> Byte \cup {Unset}]
  PROVE  Copied(first, bytes) \in [Place -> Byte \cup {Unset}]
<1>1. \A p \in Place : p >= first /\ p < first + Len(bytes) => bytes[p - first + 1] \in Byte
  BY DEF Place
<1> QED BY <1>1 DEF Copied

LEMMA PacketInvInit == PacketInit => PacketInv
  BY PacketAssumption
     DEF PacketInit, PacketInv, PacketTypes, Positions, TakenAsWritten, Place

LEMMA PutKeepsInv ==
  ASSUME PacketInv, NEW k \in ValueSizes, NEW bytes \in [1..k -> Byte], Put(bytes)
  PROVE  PacketInv'
<1> k \in Nat \ {0} /\ m_bufferSize \in Nat \ {0} BY PacketAssumption
<1>1. bytes \in Seq(Byte) /\ Len(bytes) = k
  OBVIOUS
<1>2. /\ written \in Seq(Byte) /\ taken \in Seq(Byte \cup {Unset}) /\ m_dataSize \in Int
      /\ use \in {"fresh", "built"} /\ m_rear = Len(written) - 1 /\ m_front = Len(taken) - 1
      /\ Len(written) + k <= m_bufferSize /\ Len(taken) <= m_bufferSize
  BY <1>1 DEF Put, PacketInv, PacketTypes, Positions
<1>3. /\ written' = written \o bytes /\ taken' = taken /\ m_dataSize' = m_dataSize + k
      /\ use' = "built" /\ m_front' = m_front /\ m_rear' = Moved(m_rear, k)
      /\ missing' = missing
      /\ m_buffer' = Copied(Len(written), bytes)
  BY <1>1, <1>2 DEF Put
<1>4. /\ written' \in Seq(Byte) /\ Len(written') = Len(written) + k
      /\ \A i \in 1..Len(written) + k :
           written'[i] = IF i <= Len(written) THEN written[i] ELSE bytes[i - Len(written)]
  BY <1>1, <1>2, <1>3, ConcatProperties
<1> Len(written) \in Nat /\ Len(taken) \in Nat
  BY <1>2
<1>5. PacketTypes'
  BY <1>1, <1>2, <1>3, <1>4, CopiedType DEF PacketInv, PacketTypes
<1>6. Positions'
  <2>1. m_rear' = Len(written) + k - 1
    BY <1>2, <1>3, MovedInside
  <2> QED BY <1>2, <1>3, <1>4, <2>1 DEF Positions
<1>7. TakenAsWritten'
  <2>1. Len(taken) + m_dataSize = Len(written) /\ m_dataSize \in Int
    BY <1>2 DEF PacketInv, TakenAsWritten
  <2>2. \A i \in 1..Len(taken) : i \notin missing => i <= Len(written) /\ taken[i] = written[i]
    BY <1>2 DEF PacketInv, TakenAsWritten
  <2>3. \A i \in 1..Len(written) : m_buffer[i - 1] = written[i]
    BY <1>2 DEF PacketInv, TakenAsWritten
  <2>4. Len(taken') = Len(taken) /\ m_dataSize' = m_dataSize + k /\ Len(written') = Len(written) + k
    BY <1>3, <1>4
  <2>5. Len(taken') + m_dataSize' = Len(written')
    BY <2>1, <2>4
  <2>6. ASSUME NEW i \in 1..Len(taken'), i \notin missing'
        PROVE  i <= Len(written') /\ taken'[i] = written'[i]
    <3>1. i \in 1..Len(taken) /\ i <= Len(written) /\ taken[i] = written[i]
      BY <1>3, <2>2, <2>4, <2>6
    <3> QED BY <1>3, <1>4, <3>1
  <2>7. ASSUME NEW i \in 1..Len(written') PROVE m_buffer'[i - 1] = written'[i]
    <3>1. i - 1 \in Place /\ i \in 1..Len(written) + k
      BY <1>2, <2>4 DEF Place
    <3>2. m_buffer'[i - 1] = IF i > Len(written) THEN bytes[i - Len(written)] ELSE m_buffer[i - 1]
      <4>1. m_buffer'[i - 1] = IF i - 1 >= Len(written) /\ i - 1 < Len(written) + Len(bytes)
                                 THEN bytes[i - 1 - Len(written) + 1] ELSE m_buffer[i - 1]
        BY <1>3, <3>1 DEF Copied
      <4>2. i - 1 - Len(written) + 1 = i - Len(written)
        BY <3>1
      <4> QED BY <1>1, <3>1, <4>1, <4>2
    <3>3. written'[i] = IF i <= Len(written) THEN written[i] ELSE bytes[i - Len(written)]
      BY <1>4, <3>1
    <3>4. CASE i <= Len(written)
      BY <2>3, <3>1, <3>2, <3>3, <3>4
    <3>5. CASE i > Len(written)
      BY <3>1, <3>2, <3>3, <3>5
    <3> QED BY <3>1, <3>4, <3>5
  <2> QED BY <1>3, <2>5, <2>6, <2>7 DEF TakenAsWritten
<1> QED BY <1>5, <1>6, <1>7 DEF PacketInv

LEMMA ReceiveKeepsInv ==
  ASSUME PacketInv, NEW k \in ValueSizes \cup {0}, NEW bytes \in [1..k -> Byte], receive(bytes)
  PROVE  PacketInv'
<1> k \in Nat /\ m_bufferSize \in Nat \ {0} BY PacketAssumption
<1>1. bytes \in Seq(Byte) /\ Len(bytes) = k
  OBVIOUS
<1>2. /\ use = "fresh" /\ written = <<>> /\ taken = <<>> /\ missing = {}
      /\ m_front = -1 /\ m_dataSize = 0 /\ k <= m_bufferSize
  BY <1>1 DEF receive, PacketInv, PacketTypes, Positions, TakenAsWritten
<1>3. /\ written' = bytes /\ taken' = taken /\ m_dataSize' = k
      /\ use' = "received" /\ m_front' = m_front /\ m_buffer' = Copied(0, bytes)
      /\ missing' = missing
  BY <1>1, <1>2 DEF receive
<1>4. PacketTypes'
  BY <1>1, <1>2, <1>3, CopiedType DEF PacketInv, PacketTypes
<1>5. Positions'
  BY <1>1, <1>2, <1>3 DEF Positions
<1>6. TakenAsWritten'
  <2>1. ASSUME NEW i \in 1..k PROVE m_buffer'[i - 1] = bytes[i]
    BY <1>1, <1>2, <1>3 DEF Copied, Place
  <2> QED BY <1>1, <1>2, <1>3, <2>1 DEF TakenAsWritten
<1> QED BY <1>4, <1>5, <1>6 DEF PacketInv

LEMMA TakeKeepsInv ==
  ASSUME PacketInv, NEW k \in ValueSizes, Take(k)
  PROVE  PacketInv'
<1> k \in Nat \ {0} /\ m_bufferSize \in Nat \ {0} BY PacketAssumption
<1>1. /\ use \in {"built", "received"} /\ Len(taken) + k <= m_bufferSize
      /\ taken' = taken \o [i \in 1..k |-> m_buffer[m_front + i]]
      /\ missing' = missing \cup {i \in Len(taken) + 1..Len(taken) + k : i > Len(written)}
      /\ m_front' = Moved(m_front, k) /\ m_dataSize' = m_dataSize - k
      /\ UNCHANGED <<m_buffer, m_rear, use, written>>
  BY DEF Take
<1>2. /\ written \in Seq(Byte) /\ taken \in Seq(Byte \cup {Unset}) /\ m_dataSize \in Int
      /\ m_buffer \in [Place -> Byte \cup {Unset}]
      /\ m_front = Len(taken) - 1 /\ Len(written) <= m_bufferSize
      /\ Len(taken) + m_dataSize = Len(written)
      /\ \A i \in 1..Len(taken) : i \notin missing => i <= Len(written) /\ taken[i] = written[i]
      /\ \A i \in 1..Len(written) : m_buffer[i - 1] = written[i]
      /\ use = "received" => /\ missing = Len(written) + 1..Len(taken)
                             /\ \A i \in missing : taken[i] = m_buffer[i - 1]
  BY <1>1 DEF PacketInv, PacketTypes, Positions, TakenAsWritten
<1> Len(written) \in Nat /\ Len(taken) \in Nat
  BY <1>2
<1> DEFINE value == [i \in 1..k |-> m_buffer[m_front + i]]
<1>3. ASSUME NEW i \in 1..k PROVE value[i] = m_buffer[Len(taken) + i - 1]
  <2>1. m_front + i = Len(taken) + i - 1
    BY <1>2
  <2> QED BY <2>1
<1>4. value \in Seq(Byte \cup {Unset}) /\ Len(value) = k
  <2>1. \A i \in 1..k : Len(taken) + i - 1 \in Place
    BY <1>1 DEF Place
  <2>2. \A i \in 1..k : m_buffer[Len(taken) + i - 1] \in Byte \cup {Unset}
    BY <1>2, <2>1
  <2>3. value \in [1..k -> Byte \cup {Unset}]
    BY <1>3, <2>2
  <2> QED BY <2>3
<1> HIDE DEF value
<1>5. taken' = taken \o value
  BY <1>1 DEF value
<1>6. /\ taken' \in Seq(Byte \cup {Unset}) /\ Len(taken') = Len(taken) + k
      /\ \A i \in 1..Len(taken) + k :
           taken'[i] = IF i <= Len(taken) THEN taken[i] ELSE value[i - Len(taken)]
  <2>1. value \in Seq(Byte \cup {Unset}) /\ taken \in Seq(Byte \cup {Unset}) /\ Len(value) = k
    BY <1>2, <1>4
  <2>2. /\ taken \o value \in Seq(Byte \cup {Unset}) /\ Len(taken \o value) = Len(taken) + k
        /\ \A i \in 1..Len(taken) + k :
             (taken \o value)[i] = IF i <= Len(taken) THEN taken[i] ELSE value[i - Len(taken)]
    BY <2>1, ConcatProperties
  <2> QED
    BY <1>5, <2>2
<1>7. \A i \in 1..Len(taken') : taken'[i] = IF i <= Len(taken) THEN taken[i] ELSE m_buffer[i - 1]
  <2> TAKE i \in 1..Len(taken')
  <2>1. CASE i <= Len(taken)
    BY <1>6, <2>1
  <2>2. CASE i > Len(taken)
    <3>1. i - Len(taken) \in 1..k /\ Len(taken) + (i - Len(taken)) - 1 = i - 1
      BY <1>6, <2>2
    <3>2. value[i - Len(taken)] = m_buffer[i - 1]
      BY <1>3, <3>1
    <3> QED BY <1>6, <2>2, <3>2
  <2> QED BY <1>6, <2>1, <2>2
<1>8. PacketTypes'
  BY <1>1, <1>2, <1>6 DEF PacketInv, PacketTypes
<1>9. /\ m_front' = Len(taken') - 1 /\ Len(taken') + m_dataSize' = Len(written)
      /\ Len(taken') <= m_bufferSize /\ Len(taken') \in Nat /\ m_dataSize' \in Int
  <2>1. m_front' = Len(taken) + k - 1
    BY <1>1, <1>2, MovedInside
  <2>2. Len(taken') = Len(taken) + k /\ m_dataSize' = m_dataSize - k /\ m_dataSize \in Int
    BY <1>1, <1>2, <1>6
  <2> QED BY <1>1, <1>2, <2>1, <2>2
<1>10. Positions'
  BY <1>1, <1>9 DEF Positions, PacketInv
<1>11. ASSUME NEW i \in 1..Len(taken'), i \notin missing'
       PROVE  i <= Len(written) /\ taken'[i] = written[i]
  <2>1. i \in 1..Len(taken) + k /\ i \notin missing
    BY <1>1, <1>6, <1>11
  <2>2. CASE i <= Len(taken)
    BY <1>2, <1>7, <2>1, <2>2
  <2>3. CASE i > Len(taken)
    <3>1. i <= Len(written)
      BY <1>1, <1>11, <2>1, <2>3
    <3> QED BY <1>2, <1>7, <2>1, <2>3, <3>1
  <2> QED BY <2>1, <2>2, <2>3
<1>12. ASSUME use = "received"
       PROVE  /\ missing' = Len(written) + 1..Len(taken')
              /\ \A i \in missing' : taken'[i] = m_buffer[i - 1]
              /\ m_dataSize' < 0 <=> missing' # {}
  <2>1. missing = Len(written) + 1..Len(taken) /\ \A i \in missing : taken[i] = m_buffer[i - 1]
    BY <1>2, <1>12
  <2>2. missing' = Len(written) + 1..Len(taken')
    BY <1>1, <1>6, <2>1
  <2>3. ASSUME NEW i \in missing' PROVE taken'[i] = m_buffer[i - 1]
    <3>1. i \in 1..Len(taken') /\ (i <= Len(taken) => i \in missing)
      BY <1>6, <2>1, <2>2
    <3> QED BY <1>7, <2>1, <3>1
  <2>4. m_dataSize' < 0 <=> missing' # {}
    <3>1. CASE Len(taken') > Len(written)
      <4>1. Len(taken') \in missing'
        BY <1>9, <2>2, <3>1
      <4> QED BY <1>9, <3>1, <4>1
    <3>2. CASE Len(taken') <= Len(written)
      <4>1. missing' = {}
        BY <1>9, <2>2, <3>2
      <4> QED BY <1>9, <3>2, <4>1
    <3> QED BY <1>9, <3>1, <3>2
  <2> QED BY <2>2, <2>3, <2>4
<1>13. TakenAsWritten'
  BY <1>1, <1>2, <1>9, <1>11, <1>12 DEF TakenAsWritten
<1> QED BY <1>8, <1>10, <1>13 DEF PacketInv

LEMMA PacketInvNext == PacketInv /\ [PacketNext]_packetVars => PacketInv'
<1> SUFFICES ASSUME PacketInv, [PacketNext]_packetVars PROVE PacketInv'
  OBVIOUS
<1>1. ASSUME send PROVE PacketInv'
  <2>1. PICK retval \in 0..m_bufferSize : m_dataSize' = m_dataSize - retval
    BY <1>1 DEF send
  <2>2. use' = "sent" /\ UNCHANGED <<m_buffer, m_rear, written, taken, missing>>
    BY <1>1 DEF send
  <2>3. PacketTypes'
    BY <2>1, <2>2, PacketAssumption DEF PacketInv, PacketTypes
  <2> QED BY <2>2, <2>3 DEF PacketInv, Positions, TakenAsWritten
<1>2. ASSUME Clear PROVE PacketInv'
  BY <1>2, PacketAssumption DEF Clear, PacketInv, PacketTypes, Positions, TakenAsWritten
<1>3. CASE UNCHANGED packetVars
  BY <1>3 DEF packetVars, PacketInv, PacketTypes, Positions, TakenAsWritten
<1> QED BY <1>1, <1>2, <1>3, PutKeepsInv, TakeKeepsInv, ReceiveKeepsInv DEF PacketNext

(* What operator>> and GetData take out of a packet are the bytes that were    *)
(* put in or received, in their order, as far as there were any; behind the    *)
(* end of a received payload they take what the buffer held, and exactly then  *)
(* m_dataSize is below zero.                                                   *)
THEOREM ValuesComeBack == PacketSpec => []TakenAsWritten
<1>1. PacketInv => TakenAsWritten
  BY DEF PacketInv
<1> QED BY <1>1, PacketInvInit, PacketInvNext, PTL DEF PacketSpec

-----------------------------------------------------------------------------
(* The path finder: what FindPath looks at are the start and what it found     *)
(* from there, and it stops only when everything next to a closed square was   *)
(* looked at.                                                                  *)
PathStart == \E obstacles \in SUBSET Memory, b \in Square \cup {NoNode},
                e \in Square \cup {NoNode}, budget \in Nat : PathInit(obstacles, b, e, budget)

PathSpec == PathStart /\ [][PathNext]_pathVars

\* q is a direction's square from p, and free.
Leap(p, q) == /\ Passable(q)
              /\ \E k \in 1..8 : Leads(p, k) /\ q = Towards(p, k)

Seen == open \cup close

PathTypes == /\ beginNode \in Square \cup {NoNode} /\ endNode \in Square \cup {NoNode}
             /\ phase \in {"idle", "search", "paint", "broken"}
             /\ node \in Square \cup {NoNode}

\* A search, up to the last square painted: the start is seen, every other square
\* seen was reached from its parent, and the goal is never among them.
Explored == /\ beginNode \in Square /\ endNode \in Square
            /\ open \subseteq Square /\ close \subseteq Square
            /\ beginNode \in Seen
            /\ close = {} => open = {beginNode} /\ node = NoNode
            /\ close # {} => beginNode \in close
            /\ node # NoNode => node \in close
            /\ \A p \in Seen \ {beginNode} : parent[p] \in close /\ Leap(parent[p], p)
            /\ endNode \in Seen => endNode = beginNode

\* The squares seen can be reached.
Reached == \A S \in SUBSET Square : ClosedIn(S, Square) => Seen \subseteq S

\* Every free square next to a closed one, but for the one being worked on, is seen.
NoneMissed == \A p \in close \ {node} : \A q \in Square :
                Passable(q) /\ Near(p, q) => q \in Seen

\* What has been painted leads from where the painting is to the goal.
Painted == LET way == <<endNode>> \o path \o <<node>> IN
           /\ path \in Seq(Square) /\ node \in close
           /\ \A i \in 1..Len(way) - 1 : Leap(way[i + 1], way[i])
           /\ endNode \in Reachable(Square)

PathInv == /\ PathTypes
           /\ phase \in {"search", "paint"} => Explored /\ Reached
           /\ phase = "search" => NoneMissed /\ path = <<>>
           /\ phase = "paint" => Painted

-----------------------------------------------------------------------------
(* The geometry of the grid.                                                   *)
LEMMA AddressInMemory ==
  ASSUME NEW p \in Square
  PROVE  Address(p) \in Memory
<1>1. p.x \in 0..GRID_WIDTH /\ p.y \in 0..GRID_HEIGHT
  BY DEF Square
<1>2. ASSUME NEW w \in Nat, NEW h \in Nat, NEW y \in 0..h
      PROVE  y * w \in Nat /\ y * w <= h * w
  OBVIOUS
<1>3. p.y * GRID_WIDTH \in Nat /\ p.y * GRID_WIDTH <= GRID_HEIGHT * GRID_WIDTH
  BY <1>1, <1>2, PathAssumption
<1> QED
  BY <1>1, <1>3, PathAssumption DEF Address, Memory

LEMMA TowardsIs ==
  ASSUME NEW p \in Square
  PROVE  /\ Towards(p, 1) = [x |-> p.x + 1, y |-> p.y + 0]
         /\ Towards(p, 2) = [x |-> p.x + 1, y |-> p.y + -1]
         /\ Towards(p, 3) = [x |-> p.x + 0, y |-> p.y + -1]
         /\ Towards(p, 4) = [x |-> p.x + -1, y |-> p.y + -1]
         /\ Towards(p, 5) = [x |-> p.x + -1, y |-> p.y + 0]
         /\ Towards(p, 6) = [x |-> p.x + -1, y |-> p.y + 1]
         /\ Towards(p, 7) = [x |-> p.x + 0, y |-> p.y + 1]
         /\ Towards(p, 8) = [x |-> p.x + 1, y |-> p.y + 1]
BY DEF Towards, Increase

LEMMA StepIsNear ==
  ASSUME NEW p \in Square, NEW i \in 1..8
  PROVE  Near(p, Towards(p, i))
<1>1. p.x \in Int /\ p.y \in Int
  BY PathAssumption DEF Square
<1>2. i \in {1, 2, 3, 4, 5, 6, 7, 8}
  OBVIOUS
<1>3. \E a \in {-1, 0, 1}, b \in {-1, 0, 1} :
        Towards(p, i).x = p.x + a /\ Towards(p, i).y = p.y + b
  BY <1>2, TowardsIs
<1> QED
  BY <1>1, <1>3 DEF Near, Distance

LEMMA NearIsStep ==
  ASSUME NEW p \in Square, NEW q \in Square, Near(p, q), p # q
  PROVE  \E i \in 1..8 : Leads(p, i) /\ q = Towards(p, i)
<1>1. /\ p.x \in Int /\ p.y \in Int /\ q.x \in Int /\ q.y \in Int
      /\ p = [x |-> p.x, y |-> p.y] /\ q = [x |-> q.x, y |-> q.y]
  BY PathAssumption DEF Square
<1>2. \E a \in {-1, 0, 1}, b \in {-1, 0, 1} : q.x = p.x + a /\ q.y = p.y + b
  BY <1>1 DEF Near, Distance
<1>3. PICK a \in {-1, 0, 1}, b \in {-1, 0, 1} : q.x = p.x + a /\ q.y = p.y + b
  BY <1>2
<1>4. q = [x |-> p.x + a, y |-> p.y + b]
  BY <1>1, <1>3
<1>5. ~(a = 0 /\ b = 0)
  BY <1>1, <1>3
<1>6. \E i \in 1..8 : Towards(p, i) = [x |-> p.x + a, y |-> p.y + b]
  <2>1. CASE a = 1
    BY <2>1, TowardsIs
  <2>2. CASE a = 0
    BY <2>2, <1>5, TowardsIs
  <2>3. CASE a = -1
    BY <2>3, TowardsIs
  <2> QED
    BY <2>1, <2>2, <2>3
<1> QED
  BY <1>4, <1>6 DEF Leads

-----------------------------------------------------------------------------
(* A search paints free squares only, and none of them as an obstacle: what is *)
(* free and what can be reached stay what they were.                           *)
SameGrid == /\ \A p \in Square : tile[Address(p)]' # "OBSTACLE" <=> tile[Address(p)] # "OBSTACLE"
            /\ UNCHANGED <<beginNode, endNode>>

LEMMA MarkKeepsFree ==
  ASSUME NEW squares \in SUBSET Square, NEW colour \in {"OPEN", "CLOSE", "PATH"},
         \A q \in squares : Passable(q), Mark(squares, colour), UNCHANGED <<beginNode, endNode>>
  PROVE  SameGrid
<1> SUFFICES ASSUME NEW p \in Square
             PROVE  tile'[Address(p)] # "OBSTACLE" <=> tile[Address(p)] # "OBSTACLE"
  BY DEF SameGrid
<1>1. CASE \E q \in squares : Address(q) = Address(p)
  <2>1. tile'[Address(p)] = colour
    BY <1>1, AddressInMemory DEF Mark
  <2> QED
    BY <2>1, <1>1 DEF Passable
<1>2. CASE ~ \E q \in squares : Address(q) = Address(p)
  <2>1. tile'[Address(p)] = tile[Address(p)]
    BY <1>2, AddressInMemory DEF Mark
  <2> QED
    BY <2>1
<1> QED
  BY <1>1, <1>2

LEMMA SameLeaps ==
  ASSUME SameGrid
  PROVE  \A p \in Square, q \in Square : Leap(p, q)' <=> Leap(p, q)
BY DEF SameGrid, Leap, Passable

LEMMA SameReach ==
  ASSUME SameGrid
  PROVE  /\ \A S \in SUBSET Square : ClosedIn(S, Square)' <=> ClosedIn(S, Square)
         /\ Reachable(Square)' = Reachable(Square)
<1>1. ASSUME NEW S \in SUBSET Square PROVE ClosedIn(S, Square)' <=> ClosedIn(S, Square)
  BY DEF SameGrid, ClosedIn, Passable
<1> QED
  BY <1>1 DEF Reachable

-----------------------------------------------------------------------------
LEMMA PathInvInit ==
  ASSUME NEW obstacles, NEW b \in Square \cup {NoNode}, NEW e \in Square \cup {NoNode}, NEW budget,
         PathInit(obstacles, b, e, budget)
  PROVE  PathInv
BY DEF PathInit, PathInv, PathTypes

\* A step of the user leaves the program idle, or breaks it.
LEMMA UserKeepsInv ==
  ASSUME PathInv,
         \/ \E p \in Square : placeBegin(p) \/ placeEnd(p) \/ startDrag(p) \/ drag(p)
         \/ endDrag \/ deleteAll
  PROVE  PathInv'
<1>1. PathTypes /\ phase = "idle"
  BY DEF PathInv, placeBegin, placeEnd, startDrag, drag, endDrag, deleteAll, Event
<1>2. beginNode' \in Square \cup {NoNode} /\ endNode' \in Square \cup {NoNode}
  BY <1>1 DEF PathTypes, placeBegin, placeEnd, startDrag, drag, endDrag, deleteAll
<1>3. phase' \in {"idle", "broken"} /\ node' = node
  BY <1>1 DEF placeBegin, placeEnd, startDrag, drag, endDrag, deleteAll, searchVars
<1> QED
  BY <1>1, <1>2, <1>3 DEF PathInv, PathTypes

LEMMA FindPathKeepsInv ==
  ASSUME PathInv, findPath
  PROVE  PathInv'
<1>1. PathTypes /\ phase = "idle" /\ UNCHANGED <<beginNode, endNode>>
  BY DEF PathInv, findPath, Event
<1>2. CASE NoNode \in {beginNode, endNode}
  BY <1>1, <1>2 DEF PathInv, PathTypes, findPath, searchVars
<1>3. CASE NoNode \notin {beginNode, endNode}
  <2>1. /\ phase' \in {"search", "broken"} /\ node' = NoNode
        /\ open' = {beginNode} /\ close' = {} /\ path' = <<>>
        /\ beginNode \in Square /\ endNode \in Square
    BY <1>1, <1>3 DEF findPath, PathTypes
  <2>2. PathTypes'
    BY <1>1, <2>1 DEF PathTypes
  <2>3. Explored'
    BY <1>1, <2>1 DEF Explored, Seen
  <2>4. Reached'
    BY <1>1, <2>1 DEF Reached, Seen, ClosedIn
  <2>5. NoneMissed'
    BY <2>1 DEF NoneMissed
  <2> QED
    BY <2>1, <2>2, <2>3, <2>4, <2>5 DEF PathInv
<1> QED
  BY <1>2, <1>3

LEMMA SearchTakeKeepsInv ==
  ASSUME PathInv, NEW p \in open, take(p)
  PROVE  PathInv'
<1>1. /\ phase = "search" /\ node = NoNode /\ PathTypes /\ Explored /\ Reached /\ NoneMissed
      /\ phase' = "search" /\ node' = p /\ path = <<>> /\ path' = path
      /\ open' = open \ {p} /\ close' = close \cup {p} /\ parent' = parent
      /\ UNCHANGED <<beginNode, endNode>>
  BY DEF PathInv, take, userVars
<1>2. p \in Square /\ Seen' = Seen /\ Seen \subseteq Square
  BY <1>1 DEF Explored, Seen
<1>3. SameGrid
  <2>1. CASE p = beginNode
    BY <1>1, <2>1 DEF take, SameGrid
  <2>2. CASE p # beginNode
    <3>1. Passable(p)
      BY <1>1, <2>2 DEF Explored, Seen, Leap
    <3>2. Mark({p}, "CLOSE")
      BY <2>2 DEF take
    <3> QED
      BY <1>1, <1>2, <3>1, <3>2, MarkKeepsFree
  <2> QED
    BY <2>1, <2>2
<1>4. \A q \in Seen \ {beginNode} : parent[q] \in close' /\ Leap(parent[q], q)'
  <2> SUFFICES ASSUME NEW q \in Seen \ {beginNode}
               PROVE  parent[q] \in close' /\ Leap(parent[q], q)'
    OBVIOUS
  <2>1. parent[q] \in close /\ Leap(parent[q], q) /\ q \in Square
    BY <1>1, <1>2 DEF Explored
  <2> QED
    BY <1>1, <1>3, <2>1 DEF SameGrid, Leap, Passable
<1>5. Explored'
  <2>1. close = {} => p = beginNode
    BY <1>1 DEF Explored
  <2> QED
    BY <1>1, <1>2, <1>4, <2>1 DEF Explored
<1>6. Reached'
  BY <1>1, <1>2, <1>3, SameReach DEF Reached
<1>7. NoneMissed'
  <2> SUFFICES ASSUME NEW c \in close, NEW q \in Square, Passable(q)', Near(c, q)
               PROVE  q \in Seen'
    BY <1>1 DEF NoneMissed
  <2>1. Passable(q) /\ c \in Square
    BY <1>1, <1>3 DEF SameGrid, Passable, Explored
  <2>2. c # node
    BY <1>1, <2>1, PathAssumption
  <2> QED
    BY <1>1, <1>2, <2>1, <2>2 DEF NoneMissed
<1> QED
  BY <1>1, <1>2, <1>5, <1>6, <1>7 DEF PathInv, PathTypes

LEMMA ExpandKeepsInv ==
  ASSUME PathInv, expand
  PROVE  PathInv'
<1> DEFINE ways == {i \in 1..8 : Leads(node, i) /\ Passable(Towards(node, i))}
           goal == {i \in ways : Towards(node, i) = endNode}
           found == {Towards(node, i) : i \in {j \in ways : \A k \in goal : j < k}}
           new == found \ (open \cup close)
           better == {q \in found \cap open : g[q] > g[node] + Cost(node, q)}
<1>1. /\ phase = "search" /\ PathTypes /\ Explored /\ Reached /\ NoneMissed
      /\ node \in close /\ node \in Square /\ path = <<>> /\ path' = path
      /\ close' = close /\ UNCHANGED <<beginNode, endNode>>
  BY DEF PathInv, expand, userVars, Explored
<1>2. /\ open' = open \cup new
      /\ parent' = [q \in Square |-> IF q \in new \cup better THEN node ELSE parent[q]]
      /\ Mark(new, "OPEN")
      /\ phase' = (IF goal # {} THEN "paint" ELSE "search") \/ phase' = "broken"
      /\ node' = IF goal # {} THEN node ELSE NoNode
  BY DEF expand
<1>3. \A q \in found : q \in Square /\ Leap(node, q) /\ q # endNode
  <2> SUFFICES ASSUME NEW i \in ways, \A k \in goal : i < k
               PROVE  /\ Towards(node, i) \in Square /\ Leap(node, Towards(node, i))
                      /\ Towards(node, i) # endNode
    OBVIOUS
  <2>1. ~(i < i)
    OBVIOUS
  <2> QED
    BY <2>1 DEF Leap, Leads
<1>4. goal = {} => \A q \in Square : Passable(q) /\ Near(node, q) => q \in Seen \cup new
  <2> SUFFICES ASSUME goal = {}, NEW q \in Square, Passable(q), Near(node, q), q # node
               PROVE  q \in found
    BY <1>1 DEF Seen
  <2>1. PICK i \in 1..8 : Leads(node, i) /\ q = Towards(node, i)
    BY <1>1, NearIsStep
  <2> QED
    BY <2>1
<1>5. goal # {} => Leap(node, endNode) /\ Near(node, endNode)
  <2> SUFFICES ASSUME NEW i \in goal PROVE Leap(node, endNode) /\ Near(node, endNode)
    OBVIOUS
  <2> QED
    BY <1>1, StepIsNear DEF Leap
<1>6. better \subseteq open /\ better \subseteq found
  OBVIOUS
<1>7. new \subseteq found /\ new \cap Seen = {} /\ Seen' = Seen \cup new
  BY <1>1, <1>2 DEF Seen
<1> HIDE DEF new, better, found, goal, ways
<1>8. SameGrid
  <2>1. new \in SUBSET Square /\ \A q \in new : Passable(q)
    BY <1>3, <1>7 DEF Leap
  <2> QED
    BY <1>1, <1>2, <2>1, MarkKeepsFree
<1>9. Explored'
  <2>1. open' \subseteq Square /\ close' \subseteq Square
    BY <1>1, <1>2, <1>3, <1>7 DEF Explored
  <2>2. beginNode \in close /\ beginNode \in Square /\ endNode \in Square
    BY <1>1 DEF Explored
  <2>3. ASSUME NEW p \in Seen' \ {beginNode}
        PROVE  parent'[p] \in close /\ Leap(parent[p], p)'
    <3>1. p \in Square
      BY <1>1, <1>3, <1>7 DEF Explored, Seen
    <3>2. CASE p \in new \cup better
      <4>1. parent'[p] = node /\ Leap(node, p)
        BY <1>2, <1>3, <1>6, <1>7, <3>1, <3>2
      <4>2. Leap(node, p) => (Passable(p) /\ \E k \in 1..8 : Leads(node, k) /\ p = Towards(node, k))
        BY DEF Leap
      <4> QED
        BY <1>1, <1>8, <3>1, <4>1, <4>2 DEF SameGrid, Leap, Passable
    <3>3. CASE p \notin new \cup better
      <4>1. parent'[p] = parent[p] /\ p \in Seen
        BY <1>2, <1>7, <3>1, <3>3
      <4>2. parent[p] \in close /\ Leap(parent[p], p)
        BY <1>1, <4>1 DEF Explored
      <4> QED
        BY <1>8, <3>1, <4>1, <4>2 DEF SameGrid, Leap, Passable
    <3> QED
      BY <3>2, <3>3
  <2>4. endNode \in Seen' => endNode = beginNode
    BY <1>1, <1>3, <1>7 DEF Explored
  <2>5. node' # NoNode => node' \in close
    BY <1>1, <1>2
  <2>6. beginNode \in Seen' /\ close # {}
    BY <1>1, <1>7, <2>2 DEF Seen
  <2> QED
    BY <1>1, <2>1, <2>2, <2>3, <2>4, <2>5, <2>6 DEF Explored
<1>10. Reached'
  <2> SUFFICES ASSUME NEW S \in SUBSET Square, ClosedIn(S, Square)
               PROVE  Seen' \subseteq S
    BY <1>8, SameReach DEF Reached
  <2>1. Seen \subseteq S /\ node \in S
    BY <1>1 DEF Reached, Seen
  <2>2. ASSUME NEW q \in new PROVE q \in S
    <3>1. q \in Square /\ Leap(node, q)
      BY <1>3, <1>7
    <3>2. Near(node, q) /\ Passable(q)
      BY <1>1, <3>1, StepIsNear DEF Leap
    <3> QED
      BY <2>1, <3>1, <3>2 DEF ClosedIn
  <2> QED
    BY <1>7, <2>1, <2>2
<1>11. CASE goal = {}
  <2>1. NoneMissed'
    <3> SUFFICES ASSUME NEW c \in close, NEW q \in Square, Passable(q), Near(c, q)
                 PROVE  q \in Seen'
      BY <1>1, <1>8 DEF NoneMissed, SameGrid, Passable
    <3>1. CASE c = node
      BY <1>4, <1>7, <1>11, <3>1
    <3>2. CASE c # node
      BY <1>1, <1>7, <3>2 DEF NoneMissed
    <3> QED
      BY <3>1, <3>2
  <2> QED
    BY <1>1, <1>2, <1>9, <1>10, <1>11, <2>1 DEF PathInv, PathTypes
<1>12. CASE goal # {}
  <2>1. node' = node /\ Leap(node, endNode) /\ Near(node, endNode)
    BY <1>2, <1>5, <1>12
  <2>2. endNode \in Square /\ Passable(endNode)
    BY <1>1, <2>1 DEF Explored, Leap
  <2>3. endNode \in Reachable(Square)
    <3> SUFFICES ASSUME NEW S \in SUBSET Square, ClosedIn(S, Square)
                 PROVE  endNode \in S
      BY <2>2 DEF Reachable
    <3>1. node \in S
      BY <1>1 DEF Reached, Seen
    <3> QED
      BY <2>1, <2>2, <3>1 DEF ClosedIn
  <2>4. (endNode \in Reachable(Square))'
    BY <1>1, <1>8, <2>3, SameReach
  <2>5. Leap(node, endNode)'
    BY <1>1, <1>8, <2>1, <2>2 DEF Leap, SameGrid, Passable
  <2>6. Painted'
    <3> DEFINE way == <<endNode>> \o path \o <<node>>
    <3>1. ASSUME NEW s, s = <<>>
          PROVE  LET w == <<endNode>> \o s \o <<node>> IN Len(w) = 2 /\ w[1] = endNode /\ w[2] = node
      <4>1. s \in Seq(Square) /\ Len(s) = 0
        BY <3>1
      <4> QED
        BY <1>1, <2>2, <4>1
    <3>2. path' = <<>>
      BY <1>1
    <3>3. Len(way') = 2 /\ way'[1] = endNode /\ way'[2] = node
      BY <1>1, <2>1, <3>1, <3>2
    <3> HIDE DEF way
    <3>4. \A i \in 1..Len(way') - 1 : Leap(way[i + 1], way[i])'
      <4> SUFFICES ASSUME NEW i \in 1..Len(way') - 1 PROVE Leap(way[i + 1], way[i])'
        OBVIOUS
      <4>1. i = 1 /\ way'[i] = endNode' /\ way'[i + 1] = node'
        BY <3>3, <2>1, <1>1
      <4> QED
        BY <2>5, <4>1 DEF Leap, Passable
    <3> QED
      BY <1>1, <2>1, <2>4, <3>4 DEF Painted, way
  <2> QED
    BY <1>1, <1>2, <1>9, <1>10, <1>12, <2>1, <2>6 DEF PathInv, PathTypes
<1> QED
  BY <1>11, <1>12

LEMMA PaintKeepsInv ==
  ASSUME PathInv, paint
  PROVE  PathInv'
<1>1. /\ phase = "paint" /\ phase' = "paint" /\ PathTypes /\ Explored /\ Reached /\ Painted
      /\ node # beginNode /\ path' = Append(path, node) /\ node' = parent[node]
      /\ Mark({node}, "PATH")
      /\ UNCHANGED <<open, close, parent, beginNode, endNode>>
  BY DEF PathInv, paint, userVars
<1>2. node \in Seen \ {beginNode} /\ node \in Square /\ Seen' = Seen
  BY <1>1 DEF Explored, Painted, Seen
<1>3. parent[node] \in close /\ Leap(parent[node], node) /\ parent[node] \in Square
  BY <1>1, <1>2 DEF Explored
<1>4. SameGrid
  BY <1>1, <1>2, <1>3, MarkKeepsFree DEF Leap
<1>5. Explored'
  <2>1. ASSUME NEW p \in Seen \ {beginNode}
        PROVE  parent[p] \in close /\ Leap(parent[p], p)'
    <3>1. parent[p] \in close /\ Leap(parent[p], p) /\ p \in Square
      BY <1>1 DEF Explored, Seen
    <3> QED
      BY <1>1, <1>4, <3>1 DEF SameGrid, Leap, Passable
  <2>2. node' # NoNode => node' \in close
    BY <1>1, <1>3
  <2>3. close # {}
    BY <1>3
  <2> QED
    BY <1>1, <1>2, <2>1, <2>2, <2>3 DEF Explored
<1>6. Reached'
  BY <1>1, <1>2, <1>4, SameReach DEF Reached
<1>7. Painted'
  <2> DEFINE way == <<endNode>> \o path \o <<node>>
             longer == <<endNode>> \o Append(path, node) \o <<parent[node]>>
  <2>1. path \in Seq(Square) /\ Append(path, node) \in Seq(Square) /\ endNode \in Square
    BY <1>1, <1>2 DEF Painted, Explored
  <2>2. Len(way) = Len(path) + 2 /\ Len(longer) = Len(way) + 1 /\ Len(path) \in Nat
    BY <2>1
  <2>3. \A i \in 1..Len(way) : longer[i] = way[i]
    BY <2>1
  <2>4. longer[Len(way) + 1] = parent[node] /\ longer[Len(way)] = node
    BY <2>1
  <2>5. \A i \in 1..Len(way) : longer[i] \in Square
    BY <2>1, <1>2
  <2>6. way' = longer
    BY <1>1
  <2>7. \A i \in 1..Len(way) - 1 : Leap(way[i + 1], way[i])
    BY <1>1 DEF Painted
  <2> HIDE DEF way, longer
  <2>8. ASSUME NEW i \in 1..Len(way)
        PROVE  Leap(longer[i + 1], longer[i])
    <3>1. CASE i = Len(way)
      BY <1>3, <2>4, <3>1
    <3>2. CASE i # Len(way)
      <4>1. i \in 1..Len(way) - 1 /\ i + 1 \in 1..Len(way)
        BY <2>2, <3>2
      <4> QED
        BY <2>3, <2>7, <4>1
    <3> QED
      BY <3>1, <3>2
  <2>9. \A i \in 1..Len(way') - 1 : Leap(way[i + 1], way[i])'
    <3> SUFFICES ASSUME NEW i \in 1..Len(way) PROVE Leap(way[i + 1], way[i])'
      BY <2>2, <2>6
    <3>1. Leap(longer[i + 1], longer[i]) /\ longer[i] \in Square
      BY <2>5, <2>8
    <3> QED
      BY <1>4, <2>6, <3>1 DEF Leap, Passable, SameGrid
  <2>10. endNode' \in Reachable(Square)'
    BY <1>1, <1>4, SameReach DEF Painted
  <2> QED
    BY <1>1, <1>3, <2>1, <2>9, <2>10 DEF Painted, way
<1> QED
  BY <1>1, <1>3, <1>5, <1>6, <1>7 DEF PathInv, PathTypes

LEMMA PathInvNext ==
  ASSUME PathInv, [PathNext]_pathVars
  PROVE  PathInv'
<1>1. CASE \/ \E p \in Square : placeBegin(p) \/ placeEnd(p) \/ startDrag(p) \/ drag(p)
           \/ endDrag \/ deleteAll
  BY <1>1, UserKeepsInv
<1>2. CASE findPath
  BY <1>2, FindPathKeepsInv
<1>3. CASE \E p \in open : take(p)
  BY <1>3, SearchTakeKeepsInv
<1>4. CASE expand
  BY <1>4, ExpandKeepsInv
<1>5. CASE paint
  BY <1>5, PaintKeepsInv
<1>6. CASE painted \/ noPath
  <2>1. phase' = "idle" /\ UNCHANGED <<beginNode, endNode, node>>
    BY <1>6 DEF painted, noPath, userVars, searchVars
  <2> QED
    BY <2>1 DEF PathInv, PathTypes
<1>7. CASE UNCHANGED pathVars
  <2>1. UNCHANGED <<tile, beginNode, endNode, phase, open, close, parent, node, path>>
    BY <1>7 DEF pathVars
  <2>2. SameGrid
    BY <2>1 DEF SameGrid
  <2>3. PathTypes'
    BY <2>1 DEF PathInv, PathTypes
  <2>4. Explored => Explored'
    BY <2>1 DEF Explored, Seen, Leap, Passable
  <2>5. Reached => Reached'
    BY <2>1, <2>2, SameReach DEF Reached, Seen
  <2>6. NoneMissed => NoneMissed'
    BY <2>1 DEF NoneMissed, Seen, Passable
  <2>7. Painted => Painted'
    BY <2>1, <2>2, SameReach DEF Painted, Leap, Passable
  <2> QED
    BY <2>1, <2>3, <2>4, <2>5, <2>6, <2>7 DEF PathInv
<1> QED
  BY <1>1, <1>2, <1>3, <1>4, <1>5, <1>6, <1>7 DEF PathNext

LEMMA PathInvFinds == PathInv => FindsAPath
<1> SUFFICES ASSUME PathInv PROVE FindsAPath
  OBVIOUS
<1>1. ASSUME phase = "search", node = NoNode, open = {},
             endNode \in Reachable({p \in Square : InGrid(p)})
      PROVE  endNode = beginNode
  <2>1. Explored /\ NoneMissed
    BY <1>1 DEF PathInv
  <2>2. close \in SUBSET Square /\ Seen = close /\ close \ {node} = close
    BY <1>1, <2>1, PathAssumption DEF Explored, Seen
  <2>3. ClosedIn(close, {p \in Square : InGrid(p)})
    BY <2>1, <2>2 DEF ClosedIn, Explored, NoneMissed
  <2>4. endNode \in close
    BY <1>1, <2>2, <2>3 DEF Reachable
  <2> QED
    BY <2>1, <2>2, <2>4 DEF Explored
<1>2. ASSUME phase = "paint", node = beginNode
      PROVE  LET way == <<endNode>> \o path \o <<beginNode>> IN
             /\ \A i \in 1..Len(way) - 1 :
                  /\ Passable(way[i])
                  /\ \E k \in 1..8 : Leads(way[i + 1], k) /\ way[i] = Towards(way[i + 1], k)
             /\ endNode \in Reachable(Square)
  <2>1. Painted
    BY <1>2 DEF PathInv
  <2> QED
    BY <1>2, <2>1 DEF Painted, Leap
<1> QED
  BY <1>1, <1>2 DEF FindsAPath

\* For a grid of any size and whatever the user does with it, the search finds a
\* way wherever there is one on the grid, and what it paints is a way.
THEOREM WaysAreFound == PathSpec => []FindsAPath
<1>1. PathSpec => []PathInv
  <2>1. PathInv /\ [PathNext]_pathVars => PathInv'
    BY PathInvNext
  <2>2. PathStart => PathInv
    BY PathInvInit DEF PathStart
  <2> QED
    BY <2>1, <2>2, PTL DEF PathSpec
<1> QED
  BY <1>1, PathInvFinds, PTL

-----------------------------------------------------------------------------
(* The list: whatever is called, its links are those of a sequence of nodes.   *)
ListSpec == ListInit /\ [][ListNext]_listVars

\* The list's elements between the sentinels, by position.
At(s, i) == IF i = 0 THEN _head ELSE IF i = Len(s) + 1 THEN _tail ELSE s[i]

NodesDiffer(s) == \A i, j \in 1..Len(s) : s[i] = s[j] => i = j

Counts(s) == /\ s \in Seq(Node) /\ NodesDiffer(s)
             /\ _size = Len(s) /\ allocated = {s[i] : i \in 1..Len(s)}

\* The list holds the nodes of s.
Holds(s) == /\ Counts(s)
            /\ \A i \in 0..Len(s) : /\ _next[At(s, i)] = At(s, i + 1)
                                    /\ _prev[At(s, i + 1)] = At(s, i)

\* remove has come to o[j + 1] of the nodes o that there were: the list holds what it
\* kept of those before, h[j], and those from there.
RemovedUpTo(o, h, j) ==
  /\ History(h, Keep(wanted), <<>>, o) /\ order = h[Len(o)]
  /\ cursor = At(o, j + 1) /\ h[j] \in Seq(Node)
  /\ \E s \in Seq(Node) :
       /\ Holds(s) /\ Len(s) = Len(h[j]) + Len(o) - j
       /\ \A i \in 1..Len(h[j]) : s[i] = h[j][i]
       /\ \A i \in 1..Len(o) - j : s[Len(h[j]) + i] = o[j + i]

\* clear has cut off the nodes s, and comes to the first of those that are left.
Clearing(s) == /\ Counts(s) /\ cursor = At(s, 1)
               /\ \A i \in 1..Len(s) : _next[s[i]] = At(s, i + 1)

ListTypes == /\ _next \in [Node \cup {_head} -> Node \cup {_tail}]
             /\ _prev \in [Node \cup {_tail} -> Node \cup {_head}]
             /\ walk \in {"none", "remove", "clear"}

ListInv == /\ ListTypes
           /\ walk = "none" => Holds(order)
           /\ walk = "remove" => \E o \in Seq(Node) : \E h : \E j \in 0..Len(o) : RemovedUpTo(o, h, j)
           /\ walk = "clear" => /\ order = <<>> /\ _next[_head] = _tail /\ _prev[_tail] = _head
                                /\ \E s \in Seq(Node) : Clearing(s)

LEMMA AtIsLink ==
  ASSUME NEW s \in Seq(Node), NEW i \in 0..Len(s)
  PROVE  /\ At(s, i) \in Node \cup {_head} /\ At(s, i + 1) \in Node \cup {_tail}
         /\ i > 0 => At(s, i) = s[i] /\ s[i] \in Node
         /\ At(s, 0) = _head /\ At(s, Len(s) + 1) = _tail
BY DEF At

LEMMA SameNodes ==
  ASSUME NEW s \in Seq(Node), NEW t \in Seq(Node), Len(s) = Len(t),
         \A i \in 1..Len(s) : s[i] = t[i]
  PROVE  s = t
BY SeqEqual

LEMMA DistinctLinks ==
  ASSUME NEW s \in Seq(Node), NodesDiffer(s)
  PROVE  \A i, j \in 0..Len(s) + 1 : At(s, i) = At(s, j) => i = j
<1> SUFFICES ASSUME NEW i \in 0..Len(s) + 1, NEW j \in 0..Len(s) + 1, At(s, i) = At(s, j)
             PROVE  i = j
  OBVIOUS
<1>1. Len(s) \in Nat /\ \A k \in 1..Len(s) : s[k] \in Node
  OBVIOUS
<1> QED
  BY <1>1, ListAssumption DEF At, NodesDiffer

-----------------------------------------------------------------------------
\* s without its k-th element.
Cut(s, k) == [i \in 1..Len(s) - 1 |-> IF i < k THEN s[i] ELSE s[i + 1]]

LEMMA CutCounts ==
  ASSUME NEW s, Counts(s), NEW k \in 1..Len(s),
         allocated' = allocated \ {s[k]}, _size' = _size - 1
  PROVE  Counts(Cut(s, k))'
<1> DEFINE t == Cut(s, k)
<1>1. s \in Seq(Node) /\ NodesDiffer(s) /\ _size = Len(s) /\ allocated = {s[i] : i \in 1..Len(s)}
      /\ Len(s) \in Nat
  BY DEF Counts
<1>2. t \in Seq(Node) /\ Len(t) = Len(s) - 1
      /\ \A i \in 1..Len(t) : t[i] = IF i < k THEN s[i] ELSE s[i + 1]
  <2>1. t \in [1..Len(s) - 1 -> Node]
    BY <1>1 DEF Cut
  <2> QED
    BY <1>1, <2>1 DEF Cut
<1> HIDE DEF t
<1>3. NodesDiffer(t)
  BY <1>1, <1>2 DEF NodesDiffer
<1>4. allocated' = {t[i] : i \in 1..Len(t)}
  <2>1. ASSUME NEW i \in 1..Len(t) PROVE t[i] \in allocated \ {s[k]}
    BY <1>1, <1>2 DEF NodesDiffer
  <2>2. ASSUME NEW i \in 1..Len(s), s[i] # s[k] PROVE \E j \in 1..Len(t) : t[j] = s[i]
    <3>1. CASE i < k
      <4>1. i \in 1..Len(t)
        BY <1>1, <1>2, <3>1
      <4> QED
        BY <1>2, <3>1, <4>1
    <3>2. CASE i > k
      <4>1. i - 1 \in 1..Len(t) /\ ~(i - 1 < k) /\ (i - 1) + 1 = i
        BY <1>1, <1>2, <3>2
      <4> QED
        BY <1>2, <4>1
    <3> QED
      BY <1>1, <2>2, <3>1, <3>2
  <2> QED
    BY <1>1, <2>1, <2>2
<1> QED
  BY <1>1, <1>2, <1>3, <1>4 DEF Counts, t

\* Taking out a node of the list leaves the others linked.
LEMMA UnlinkHolds ==
  ASSUME NEW s, Holds(s), NEW k \in 1..Len(s), Unlink(s[k]), ListTypes
  PROVE  Holds(Cut(s, k))' /\ _next'[s[k]] = At(s, k + 1)
         /\ _next' \in [Node \cup {_head} -> Node \cup {_tail}]
         /\ _prev' \in [Node \cup {_tail} -> Node \cup {_head}]
<1> DEFINE t == Cut(s, k)
<1>1. s \in Seq(Node) /\ NodesDiffer(s) /\ Len(s) \in Nat /\ Counts(s)
  BY DEF Holds, Counts
<1>2. Counts(t)'
  BY <1>1, CutCounts DEF Unlink
<1>3. At(s, k) = s[k] /\ s[k] \in Node
      /\ _next[s[k]] = At(s, k + 1) /\ _prev[s[k]] = At(s, k - 1)
  <2>1. k - 1 \in 0..Len(s) /\ (k - 1) + 1 = k /\ k \in 0..Len(s) /\ k > 0
    BY <1>1
  <2>2. At(s, k) = s[k] /\ s[k] \in Node
    BY <1>1, <2>1, AtIsLink
  <2> QED
    BY <2>1, <2>2 DEF Holds
<1>4. At(s, k - 1) \in Node \cup {_head} /\ At(s, k + 1) \in Node \cup {_tail}
  <2>1. k - 1 \in 0..Len(s) /\ k \in 0..Len(s)
    BY <1>1
  <2> QED
    BY <1>1, <2>1, AtIsLink
<1>5. /\ _next' = [_next EXCEPT ![At(s, k - 1)] = At(s, k + 1)]
      /\ _prev' = [_prev EXCEPT ![At(s, k + 1)] = At(s, k - 1)]
  BY <1>3 DEF Unlink
<1>6. Len(t) = Len(s) - 1
      /\ \A i \in 0..Len(s) : At(t, i) = IF i < k THEN At(s, i) ELSE At(s, i + 1)
  <2>1. t \in Seq(Node) /\ Len(t) = Len(s) - 1
        /\ \A i \in 1..Len(t) : t[i] = IF i < k THEN s[i] ELSE s[i + 1]
    <3>1. t \in [1..Len(s) - 1 -> Node]
      BY <1>1 DEF Cut
    <3> QED
      BY <1>1, <3>1 DEF Cut
  <2> HIDE DEF t
  <2> QED
    BY <1>1, <2>1 DEF At
<1> HIDE DEF t
<1>7. \A i \in 0..Len(t) : /\ _next'[At(t, i)] = At(t, i + 1)
                           /\ _prev'[At(t, i + 1)] = At(t, i)
  <2> SUFFICES ASSUME NEW i \in 0..Len(t)
               PROVE  _next'[At(t, i)] = At(t, i + 1) /\ _prev'[At(t, i + 1)] = At(t, i)
    OBVIOUS
  <2>0. \A m, n \in 0..Len(s) + 1 : At(s, m) = At(s, n) => m = n
    BY <1>1, DistinctLinks
  <2>1. CASE i = k - 1
    <3>1. At(t, i) = At(s, k - 1) /\ At(t, i + 1) = At(s, k + 1)
      <4>1. i \in 0..Len(s) /\ i < k /\ i + 1 \in 0..Len(s) /\ ~(i + 1 < k) /\ (i + 1) + 1 = k + 1
        BY <1>1, <1>6, <2>1
      <4> QED
        BY <1>6, <2>1, <4>1
    <3> QED
      BY <1>4, <1>5, <3>1 DEF ListTypes
  <2>2. CASE i < k - 1
    <3>1. i \in 0..Len(s) /\ i < k /\ i + 1 \in 0..Len(s) /\ i + 1 < k
      BY <1>1, <1>6, <2>2
    <3>2. At(t, i) = At(s, i) /\ At(t, i + 1) = At(s, i + 1)
      BY <1>6, <3>1
    <3>3. At(s, i) # At(s, k - 1) /\ At(s, i + 1) # At(s, k + 1)
      BY <1>1, <2>0, <2>2, <3>1
    <3>4. _next[At(s, i)] = At(s, i + 1) /\ _prev[At(s, i + 1)] = At(s, i)
          /\ At(s, i) \in Node \cup {_head} /\ At(s, i + 1) \in Node \cup {_tail}
      BY <1>1, <3>1, AtIsLink DEF Holds
    <3> QED
      BY <1>4, <1>5, <3>2, <3>3, <3>4 DEF ListTypes
  <2>3. CASE i > k - 1
    <3>1. i + 1 \in 0..Len(s) /\ ~(i < k) /\ ~(i + 1 < k) /\ i \in 0..Len(s)
      BY <1>1, <1>6, <2>3
    <3>2. At(t, i) = At(s, i + 1) /\ At(t, i + 1) = At(s, (i + 1) + 1)
      BY <1>6, <3>1
    <3>3. At(s, i + 1) # At(s, k - 1) /\ At(s, (i + 1) + 1) # At(s, k + 1)
      BY <1>1, <2>0, <2>3, <3>1
    <3>4. _next[At(s, i + 1)] = At(s, (i + 1) + 1) /\ _prev[At(s, (i + 1) + 1)] = At(s, i + 1)
          /\ At(s, i + 1) \in Node \cup {_head} /\ At(s, (i + 1) + 1) \in Node \cup {_tail}
      BY <1>1, <3>1, AtIsLink DEF Holds
    <3> QED
      BY <1>4, <1>5, <3>2, <3>3, <3>4 DEF ListTypes
  <2> QED
    BY <1>1, <1>6, <2>1, <2>2, <2>3
<1>8. _next'[s[k]] = At(s, k + 1)
  <2>1. s[k] # At(s, k - 1)
    BY <1>1, <1>3, DistinctLinks
  <2> QED
    BY <1>3, <1>4, <1>5, <2>1 DEF ListTypes
<1>9. Holds(t)'
  BY <1>2, <1>7 DEF Holds, At, t, Cut
<1> QED
  BY <1>4, <1>5, <1>8, <1>9 DEF ListTypes, t

-----------------------------------------------------------------------------
\* s with n behind its first k elements.
Inserted(s, k, n) == [i \in 1..Len(s) + 1 |-> IF i <= k THEN s[i] ELSE IF i = k + 1 THEN n ELSE s[i - 1]]

LEMMA InsertedIs ==
  ASSUME NEW s \in Seq(Node), NEW k \in 0..Len(s), NEW n \in Node
  PROVE  /\ Inserted(s, k, n) \in Seq(Node) /\ Len(Inserted(s, k, n)) = Len(s) + 1
         /\ \A i \in 1..k : Inserted(s, k, n)[i] = s[i]
         /\ Inserted(s, k, n)[k + 1] = n
         /\ \A i \in k + 1..Len(s) : Inserted(s, k, n)[i + 1] = s[i]
<1>1. Len(s) \in Nat /\ \A i \in 1..Len(s) : s[i] \in Node
  OBVIOUS
<1>2. Inserted(s, k, n) \in [1..Len(s) + 1 -> Node]
  BY <1>1 DEF Inserted
<1> QED
  BY <1>1, <1>2 DEF Inserted

LEMMA LinkHolds ==
  ASSUME NEW s, Holds(s), NEW k \in 0..Len(s), NEW n \in Node, n \notin allocated,
         LinkBetween(n, At(s, k), At(s, k + 1)), ListTypes
  PROVE  Holds(Inserted(s, k, n))'
         /\ _next' \in [Node \cup {_head} -> Node \cup {_tail}]
         /\ _prev' \in [Node \cup {_tail} -> Node \cup {_head}]
<1> DEFINE t == Inserted(s, k, n)
<1>1. s \in Seq(Node) /\ NodesDiffer(s) /\ Len(s) \in Nat
      /\ _size = Len(s) /\ allocated = {s[i] : i \in 1..Len(s)}
  BY DEF Holds, Counts
<1>2. /\ t \in Seq(Node) /\ Len(t) = Len(s) + 1
      /\ \A i \in 1..k : t[i] = s[i]
      /\ t[k + 1] = n
      /\ \A i \in k + 1..Len(s) : t[i + 1] = s[i]
  BY <1>1, InsertedIs, ZenonT(60)
<1> HIDE DEF t
<1>3. At(s, k) \in Node \cup {_head} /\ At(s, k + 1) \in Node \cup {_tail}
  BY <1>1, AtIsLink
<1>4. \A i \in 0..Len(s) + 1 : At(s, i) # n
  BY <1>1, ListAssumption DEF At
<1>5. /\ _next' = [_next EXCEPT ![n] = At(s, k + 1), ![At(s, k)] = n]
      /\ _prev' = [_prev EXCEPT ![n] = At(s, k), ![At(s, k + 1)] = n]
      /\ allocated' = allocated \cup {n} /\ _size' = _size + 1
  BY DEF LinkBetween
<1>6. /\ \A i \in 0..k : At(t, i) = At(s, i)
      /\ At(t, k + 1) = n
      /\ \A i \in k + 1..Len(s) + 1 : At(t, i + 1) = At(s, i)
  <2>1. \A i \in 0..k : At(t, i) = At(s, i)
    BY <1>1, <1>2 DEF At
  <2>2. At(t, k + 1) = n
    BY <1>1, <1>2 DEF At
  <2>3. ASSUME NEW i \in k + 1..Len(s) + 1 PROVE At(t, i + 1) = At(s, i)
    <3>1. CASE i = Len(s) + 1
      <4>1. i + 1 = Len(t) + 1 /\ i # 0 /\ i + 1 # 0
        BY <1>1, <1>2, <3>1
      <4> QED
        BY <3>1, <4>1 DEF At
    <3>2. CASE i # Len(s) + 1
      <4>1. i \in k + 1..Len(s) /\ i # 0 /\ i + 1 # 0 /\ i + 1 # Len(t) + 1
        BY <1>1, <1>2, <3>2
      <4> QED
        BY <1>2, <3>2, <4>1 DEF At
    <3> QED
      BY <3>1, <3>2
  <2> QED
    BY <2>1, <2>2, <2>3
<1>7. Counts(t)'
  <2>1. NodesDiffer(t)
    <3> SUFFICES ASSUME NEW i \in 1..Len(t), NEW j \in 1..Len(t), t[i] = t[j], i < j PROVE FALSE
      BY <1>1, <1>2 DEF NodesDiffer
    <3>1. \A m \in 1..Len(s) : s[m] # n
      BY <1>1
    <3>2. \A m \in k + 2..Len(t) : m - 1 \in k + 1..Len(s) /\ t[m] = s[m - 1]
      <4>1. \A m \in k + 2..Len(t) : m - 1 \in k + 1..Len(s) /\ (m - 1) + 1 = m
        BY <1>1, <1>2
      <4> QED
        BY <1>2, <4>1
    <3>3. CASE i = k + 1
      <4>1. j \in k + 2..Len(t) /\ j - 1 \in 1..Len(s)
        BY <1>1, <1>2, <3>3
      <4> QED
        BY <1>2, <3>1, <3>2, <3>3, <4>1
    <3>4. CASE j = k + 1
      <4>1. i \in 1..k /\ i \in 1..Len(s)
        BY <1>1, <1>2, <3>4
      <4> QED
        BY <1>2, <3>1, <3>4, <4>1
    <3>5. CASE j <= k
      BY <1>1, <1>2, <3>5 DEF NodesDiffer
    <3>6. CASE i <= k /\ j > k + 1
      <4>1. i \in 1..k /\ i \in 1..Len(s) /\ j \in k + 2..Len(t) /\ j - 1 \in 1..Len(s) /\ i # j - 1
        BY <1>1, <1>2, <3>6
      <4> QED
        BY <1>1, <1>2, <3>2, <4>1 DEF NodesDiffer
    <3>7. CASE i > k + 1
      <4>1. i \in k + 2..Len(t) /\ i - 1 \in 1..Len(s) /\ j \in k + 2..Len(t) /\ j - 1 \in 1..Len(s)
            /\ i - 1 # j - 1
        BY <1>1, <1>2, <3>7
      <4> QED
        BY <1>1, <1>2, <3>2, <4>1 DEF NodesDiffer
    <3> QED
      BY <1>1, <1>2, <3>3, <3>4, <3>5, <3>6, <3>7
  <2>2. \A i \in 1..Len(t) : t[i] \in allocated'
    <3> SUFFICES ASSUME NEW i \in 1..Len(t) PROVE t[i] \in allocated \cup {n}
      BY <1>5
    <3>1. CASE i <= k
      BY <1>1, <1>2, <3>1
    <3>2. CASE i > k + 1
      <4>1. i - 1 \in k + 1..Len(s) /\ (i - 1) + 1 = i /\ i - 1 \in 1..Len(s)
        BY <1>1, <1>2, <3>2
      <4>2. t[i] = s[i - 1]
        BY <1>2, <4>1
      <4> QED
        BY <1>1, <4>1, <4>2
    <3> QED
      BY <1>1, <1>2, <3>1, <3>2
  <2>3. \A i \in 1..Len(s) : \E j \in 1..Len(t) : t[j] = s[i]
    <3> SUFFICES ASSUME NEW i \in 1..Len(s) PROVE \E j \in 1..Len(t) : t[j] = s[i]
      OBVIOUS
    <3>1. CASE i <= k
      BY <1>1, <1>2, <3>1
    <3>2. CASE i > k
      <4>1. i \in k + 1..Len(s) /\ i + 1 \in 1..Len(t)
        BY <1>1, <1>2, <3>2
      <4> QED
        BY <1>2, <4>1
    <3> QED
      BY <1>1, <3>1, <3>2
  <2>4. k + 1 \in 1..Len(t)
    BY <1>1, <1>2
  <2>5. allocated' = {t[i] : i \in 1..Len(t)}
    <3>1. \A x \in allocated : \E j \in 1..Len(t) : t[j] = x
      BY <1>1, <2>3
    <3>2. \E j \in 1..Len(t) : t[j] = n
      BY <1>2, <2>4
    <3>3. allocated' \subseteq {t[i] : i \in 1..Len(t)}
      BY <1>5, <3>1, <3>2
    <3> QED
      BY <2>2, <3>3
  <2> QED
    BY <1>1, <1>2, <1>5, <2>1, <2>5 DEF Counts, t
<1>8. \A i \in 0..Len(t) : _next'[At(t, i)] = At(t, i + 1) /\ _prev'[At(t, i + 1)] = At(t, i)
  <2> SUFFICES ASSUME NEW i \in 0..Len(t)
               PROVE  _next'[At(t, i)] = At(t, i + 1) /\ _prev'[At(t, i + 1)] = At(t, i)
    OBVIOUS
  <2>0. \A a, b \in 0..Len(s) + 1 : At(s, a) = At(s, b) => a = b
    BY <1>1, DistinctLinks
  <2>1. CASE i < k
    <3>1. i \in 0..k /\ i + 1 \in 0..k /\ i \in 0..Len(s) /\ i + 1 \in 0..Len(s) + 1
      BY <1>1, <2>1
    <3>2. At(s, i) # At(s, k) /\ At(s, i + 1) # At(s, k + 1)
      BY <1>1, <2>0, <2>1, <3>1
    <3>3. _next[At(s, i)] = At(s, i + 1) /\ _prev[At(s, i + 1)] = At(s, i)
          /\ At(s, i) \in Node \cup {_head} /\ At(s, i + 1) \in Node \cup {_tail}
      BY <1>1, <3>1, AtIsLink DEF Holds
    <3>4. At(t, i) = At(s, i) /\ At(t, i + 1) = At(s, i + 1)
      BY <1>6, <3>1
    <3>5. At(s, i) # n /\ At(s, i + 1) # n
      BY <1>4, <3>1, <1>1
    <3> QED
      BY <1>3, <1>5, <3>2, <3>3, <3>4, <3>5 DEF ListTypes
  <2>2. CASE i = k
    <3>1. At(t, i) = At(s, k) /\ At(t, i + 1) = n /\ At(s, k) # n
      BY <1>1, <1>4, <1>6, <2>2
    <3> QED
      BY <1>3, <1>5, <3>1, ListAssumption DEF ListTypes
  <2>3. CASE i = k + 1
    <3>1. k + 1 \in k + 1..Len(s) + 1 /\ k + 1 \in 0..Len(s) + 1
      BY <1>1
    <3>2. At(t, i) = n /\ At(t, i + 1) = At(s, k + 1) /\ At(s, k + 1) # n /\ At(s, k) # n
      BY <1>1, <1>4, <1>6, <2>3, <3>1
    <3> QED
      BY <1>3, <1>5, <3>2, ListAssumption DEF ListTypes
  <2>4. CASE i > k + 1
    <3> DEFINE m == i - 1
    <3>1. m \in k + 1..Len(s) + 1 /\ m + 1 \in k + 1..Len(s) + 1 /\ m + 1 = i
          /\ m \in 0..Len(s) /\ m + 1 \in 0..Len(s) + 1 /\ m # k
      BY <1>1, <1>2, <2>4
    <3> HIDE DEF m
    <3>2. At(s, m) # At(s, k) /\ At(s, m + 1) # At(s, k + 1)
      BY <1>1, <2>0, <3>1
    <3>3. _next[At(s, m)] = At(s, m + 1) /\ _prev[At(s, m + 1)] = At(s, m)
          /\ At(s, m) \in Node \cup {_head} /\ At(s, m + 1) \in Node \cup {_tail}
      BY <1>1, <3>1, AtIsLink DEF Holds
    <3>4. At(t, m + 1) = At(s, m) /\ At(t, (m + 1) + 1) = At(s, m + 1)
      BY <1>6, <3>1
    <3>5. At(s, m) # n /\ At(s, m + 1) # n
      BY <1>1, <1>4, <3>1
    <3> QED
      BY <1>3, <1>5, <3>1, <3>2, <3>3, <3>4, <3>5 DEF ListTypes
  <2> QED
    BY <1>1, <2>1, <2>2, <2>3, <2>4
<1>9. Holds(t)'
  BY <1>7, <1>8 DEF Holds, At, t, Inserted
<1> QED
  BY <1>3, <1>5, <1>9 DEF ListTypes, t

-----------------------------------------------------------------------------
LEMMA ListInvInit == ListInit => ListInv
<1> SUFFICES ASSUME ListInit PROVE ListInv
  OBVIOUS
<1>1. Len(<<>>) = 0
  OBVIOUS
<1>2. <<>> \in Seq(Node) /\ 1..Len(<<>>) = {}
  OBVIOUS
<1>3. order = <<>> /\ _size = 0 /\ allocated = {} /\ walk = "none"
      /\ _next[_head] = _tail /\ _prev[_tail] = _head
  BY ListAssumption DEF ListInit
<1>4. Counts(order)
  BY <1>1, <1>2, <1>3 DEF Counts, NodesDiffer
<1>5. Holds(order)
  BY <1>1, <1>3, <1>4 DEF Holds, At
<1>6. ListTypes
  BY DEF ListInit, ListTypes
<1> QED
  BY <1>3, <1>5, <1>6 DEF ListInv

LEMMA NothingElseHolds ==
  ASSUME NEW s, Holds(s), UNCHANGED <<_next, _prev, _size, allocated>>
  PROVE  Holds(s)'
BY DEF Holds, Counts, At

LEMMA PushKeepsInv ==
  ASSUME ListInv, NEW n \in Node, NEW d \in Data, push_front(n, d) \/ push_back(n, d)
  PROVE  ListInv'
<1>1. /\ ListTypes /\ Holds(order) /\ n \notin allocated /\ walk' = walk /\ walk = "none"
      /\ order \in Seq(Node) /\ Len(order) \in Nat
  <2>1. walk = "none" /\ walk' = walk /\ n \notin allocated
    BY Zenon DEF push_front, push_back, Called
  <2>2. ListTypes /\ Holds(order)
    BY <2>1 DEF ListInv
  <2>3. Counts(order) /\ order \in Seq(Node)
    BY <2>2 DEF Holds, Counts
  <2> QED
    BY <2>1, <2>2, <2>3
<1>2. At(order, 0) = _head /\ At(order, Len(order) + 1) = _tail
      /\ _next[_head] = At(order, 1) /\ _prev[_tail] = At(order, Len(order))
  <2>1. 0 \in 0..Len(order) /\ Len(order) \in 0..Len(order) /\ 0 + 1 = 1
    BY <1>1
  <2>2. At(order, 0) = _head /\ At(order, Len(order) + 1) = _tail
    BY <1>1, <2>1, AtIsLink
  <2> QED
    BY <1>1, <2>1, <2>2 DEF Holds
<1>3. CASE push_front(n, d)
  <2>1. LinkBetween(n, At(order, 0), At(order, 0 + 1)) /\ order' = <<n>> \o order
        /\ 0 \in 0..Len(order)
    BY <1>1, <1>2, <1>3 DEF push_front
  <2>2. <<n>> \o order = Inserted(order, 0, n)
    <3>1. <<n>> \o order \in Seq(Node) /\ Len(<<n>> \o order) = Len(order) + 1
      BY <1>1
    <3>2. ASSUME NEW i \in 1..Len(order) + 1 PROVE (<<n>> \o order)[i] = Inserted(order, 0, n)[i]
      BY <1>1 DEF Inserted
    <3>3. Inserted(order, 0, n) \in Seq(Node) /\ Len(Inserted(order, 0, n)) = Len(order) + 1
      BY <1>1, InsertedIs
    <3> QED
      BY <3>1, <3>2, <3>3, SameNodes
  <2>3. ASSUME NEW s, s = order
        PROVE  Holds(Inserted(s, 0, n))' /\ ListTypes'
    BY <1>1, <2>1, <2>3, LinkHolds DEF ListTypes
  <2>4. ASSUME NEW s, s = order PROVE Inserted(s, 0, n) = order'
    BY <2>1, <2>2, <2>4
  <2> QED
    BY <1>1, <2>3, <2>4 DEF ListInv
<1>4. CASE push_back(n, d)
  <2>1. LinkBetween(n, At(order, Len(order)), At(order, Len(order) + 1)) /\ order' = Append(order, n)
        /\ Len(order) \in 0..Len(order)
    BY <1>1, <1>2, <1>4 DEF push_back
  <2>2. Append(order, n) = Inserted(order, Len(order), n)
    <3>1. Append(order, n) \in Seq(Node) /\ Len(Append(order, n)) = Len(order) + 1
      BY <1>1
    <3>2. ASSUME NEW i \in 1..Len(order) + 1 PROVE Append(order, n)[i] = Inserted(order, Len(order), n)[i]
      BY <1>1 DEF Inserted
    <3>3. Inserted(order, Len(order), n) \in Seq(Node) /\ Len(Inserted(order, Len(order), n)) = Len(order) + 1
      BY <1>1, <2>1, InsertedIs
    <3> QED
      BY <3>1, <3>2, <3>3, SameNodes
  <2> QED
    BY <1>1, <2>1, <2>2, LinkHolds DEF ListInv, ListTypes
<1> QED
  BY <1>3, <1>4

LEMMA CutIs ==
  ASSUME NEW s \in Seq(Node), NEW k \in 1..Len(s)
  PROVE  /\ Cut(s, k) \in Seq(Node) /\ Len(Cut(s, k)) = Len(s) - 1
         /\ k = 1 => Tail(s) = Cut(s, k)
         /\ k = Len(s) => Front(s) = Cut(s, k)
         /\ RemoveAt(s, k) = Cut(s, k)
<1>1. Len(s) \in Nat /\ k \in Nat /\ \A i \in 1..Len(s) : s[i] \in Node
  OBVIOUS
<1>2. Cut(s, k) \in [1..Len(s) - 1 -> Node]
  BY <1>1 DEF Cut
<1>3. Cut(s, k) \in Seq(Node) /\ Len(Cut(s, k)) = Len(s) - 1
  BY <1>1, <1>2
<1>4. ASSUME NEW t \in Seq(Node), Len(t) = Len(s) - 1,
             \A i \in 1..Len(s) - 1 : t[i] = Cut(s, k)[i]
      PROVE  t = Cut(s, k)
  BY <1>3, <1>4
<1>5. k = 1 => Tail(s) = Cut(s, k)
  <2> SUFFICES ASSUME k = 1 PROVE Tail(s) = Cut(s, k)
    OBVIOUS
  <2>1. Tail(s) \in Seq(Node) /\ Len(Tail(s)) = Len(s) - 1
        /\ \A i \in 1..Len(s) - 1 : Tail(s)[i] = s[i + 1]
    BY <1>1
  <2>2. \A i \in 1..Len(s) - 1 : Cut(s, k)[i] = s[i + 1]
    BY <1>1 DEF Cut
  <2> QED
    BY <1>4, <2>1, <2>2
<1>6. k = Len(s) => Front(s) = Cut(s, k)
  <2> SUFFICES ASSUME k = Len(s) PROVE Front(s) = Cut(s, k)
    OBVIOUS
  <2>1. Len(s) - 1 \in 0..Len(s)
    BY <1>1
  <2>2. Front(s) \in Seq(Node) /\ Len(Front(s)) = Len(s) - 1
        /\ \A i \in 1..Len(s) - 1 : Front(s)[i] = s[i]
    BY <2>1, TakeDrop DEF Front
  <2> QED
    BY <1>4, <2>2 DEF Cut
<1>7. RemoveAt(s, k) = Cut(s, k)
  <2> DEFINE a == SubSeq(s, 1, k - 1)
             b == SubSeq(s, k + 1, Len(s))
  <2>1. k - 1 \in 0..Len(s) /\ k \in 0..Len(s)
    BY <1>1
  <2>2. a \in Seq(Node) /\ Len(a) = k - 1 /\ \A i \in 1..k - 1 : a[i] = s[i]
    BY <2>1, TakeDrop
  <2>3. b \in Seq(Node) /\ Len(b) = Len(s) - k /\ \A i \in 1..Len(s) - k : b[i] = s[k + i]
    BY <2>1, TakeDrop
  <2> HIDE DEF a, b
  <2>4. a \o b \in Seq(Node) /\ Len(a \o b) = Len(s) - 1
    <3>1. a \o b \in Seq(Node) /\ Len(a \o b) = Len(a) + Len(b)
      BY <2>2, <2>3, ConcatProperties
    <3> QED
      BY <1>1, <2>2, <2>3, <3>1
  <2>5. ASSUME NEW i \in 1..Len(s) - 1 PROVE (a \o b)[i] = Cut(s, k)[i]
    <3>1. CASE i < k
      BY <1>1, <2>2, <2>3, <3>1 DEF Cut
    <3>2. CASE i >= k
      <4>1. i - (k - 1) \in 1..Len(s) - k /\ k + (i - (k - 1)) = i + 1
        BY <1>1, <3>2
      <4>2. (a \o b)[i] = b[i - (k - 1)]
        <5>1. i \in 1..Len(a) + Len(b) /\ ~(i <= Len(a))
          BY <1>1, <2>2, <2>3, <3>2
        <5> QED
          BY <2>2, <2>3, <5>1, ConcatProperties
      <4>3. b[i - (k - 1)] = s[i + 1]
        BY <2>3, <4>1
      <4>4. Cut(s, k)[i] = s[i + 1]
        BY <1>1, <3>2 DEF Cut
      <4> QED
        BY <4>2, <4>3, <4>4
    <3>3. i < k \/ i >= k
      BY <1>1
    <3> QED
      BY <3>1, <3>2, <3>3
  <2> QED
    BY <1>4, <2>4, <2>5 DEF RemoveAt, a, b
<1> QED
  BY <1>3, <1>5, <1>6, <1>7

LEMMA TakeOutKeepsInv ==
  ASSUME ListInv, pop_front \/ pop_back \/ \E n \in Node : erase(n)
  PROVE  ListInv'
<1>1. /\ ListTypes /\ Holds(order) /\ walk' = walk /\ walk = "none"
      /\ order \in Seq(Node) /\ Len(order) \in Nat /\ _size = Len(order)
      /\ allocated = {order[i] : i \in 1..Len(order)} /\ NodesDiffer(order)
  <2>1. walk = "none" /\ walk' = walk
    BY Zenon DEF pop_front, pop_back, erase, Called
  <2>2. ListTypes /\ Holds(order)
    BY <2>1 DEF ListInv
  <2>3. Counts(order) /\ order \in Seq(Node)
    BY <2>2 DEF Holds, Counts
  <2> QED
    BY <2>1, <2>2, <2>3 DEF Counts
<1>2. ASSUME NEW k \in 1..Len(order), Unlink(order[k]), order' = Cut(order, k)
      PROVE  ListInv'
  BY <1>1, <1>2, UnlinkHolds DEF ListInv, ListTypes
<1>3. CASE pop_front
  <2>1. 1 \in 1..Len(order) /\ 0 \in 0..Len(order) /\ 1 \in 0..Len(order)
    BY <1>1, <1>3 DEF pop_front, empty
  <2>2. At(order, 0) = _head /\ At(order, 1) = order[1]
    BY <1>1, <2>1, AtIsLink
  <2>3. _next[_head] = order[1]
    BY <1>1, <2>1, <2>2 DEF Holds
  <2>4. order' = Cut(order, 1)
    BY <1>1, <1>3, <2>1, CutIs DEF pop_front
  <2> QED
    BY <1>2, <1>3, <2>1, <2>3, <2>4 DEF pop_front
<1>4. CASE pop_back
  <2>1. Len(order) \in 1..Len(order) /\ Len(order) \in 0..Len(order)
    BY <1>1, <1>4 DEF pop_back, empty
  <2>2. At(order, Len(order) + 1) = _tail /\ At(order, Len(order)) = order[Len(order)]
    BY <1>1, <2>1, AtIsLink
  <2>3. _prev[_tail] = order[Len(order)]
    BY <1>1, <2>1, <2>2 DEF Holds
  <2>4. order' = Cut(order, Len(order))
    BY <1>1, <1>4, <2>1, CutIs DEF pop_back
  <2> QED
    BY <1>2, <1>4, <2>1, <2>3, <2>4 DEF pop_back
<1>5. ASSUME NEW n \in Node, erase(n)
      PROVE  ListInv'
  <2>1. PICK k \in 1..Len(order) : order[k] = n
    BY <1>1, <1>5 DEF erase
  <2>2. DOMAIN order = 1..Len(order)
    BY <1>1
  <2>3. (CHOOSE i \in DOMAIN order : order[i] = n) = k
    BY <1>1, <2>1, <2>2 DEF NodesDiffer
  <2>4. order' = Cut(order, k)
    BY <1>1, <1>5, <2>3, CutIs DEF erase
  <2> QED
    BY <1>2, <1>5, <2>1, <2>4 DEF erase
<1> QED
  BY <1>3, <1>4, <1>5

LEMMA ClearKeepsInv ==
  ASSUME ListInv, clear
  PROVE  ListInv'
<1>1. /\ ListTypes /\ Holds(order) /\ Counts(order) /\ walk' = "clear" /\ walk = "none"
      /\ order \in Seq(Node) /\ Len(order) \in Nat /\ order' = <<>>
      /\ cursor' = _next[_head]
      /\ _next' = [_next EXCEPT ![_head] = _tail] /\ _prev' = [_prev EXCEPT ![_tail] = _head]
      /\ UNCHANGED <<_size, allocated>>
  BY DEF ListInv, clear, Called, Holds, Counts
<1>2. ListTypes' /\ _next'[_head] = _tail /\ _prev'[_tail] = _head
  BY <1>1 DEF ListTypes
<1>3. \E s \in Seq(Node) : Clearing(s)'
  <2>1. _next[_head] = At(order, 1)
    <3>1. 0 \in 0..Len(order) /\ At(order, 0) = _head /\ 0 + 1 = 1
      BY <1>1, AtIsLink
    <3> QED
      BY <1>1, <3>1 DEF Holds
  <2>2. ASSUME NEW i \in 1..Len(order) PROVE _next'[order[i]] = At(order, i + 1)
    <3>1. i \in 0..Len(order) /\ i > 0
      BY <1>1
    <3>2. At(order, i) = order[i] /\ order[i] \in Node
      BY <1>1, <3>1, AtIsLink
    <3>3. _next[order[i]] = At(order, i + 1)
      BY <1>1, <3>1, <3>2 DEF Holds
    <3> QED
      BY <1>1, <3>2, <3>3, ListAssumption DEF ListTypes
  <2>3. ASSUME NEW t, t = order PROVE Clearing(t)'
    BY <1>1, <2>1, <2>2, <2>3 DEF Clearing, Counts, At
  <2> QED
    BY <1>1, <2>3
<1> QED
  BY <1>1, <1>2, <1>3 DEF ListInv

LEMMA ClearStepKeepsInv ==
  ASSUME ListInv, clearStep
  PROVE  ListInv'
<1>1. /\ ListTypes /\ walk = "clear" /\ walk' = "clear" /\ order = <<>> /\ order' = <<>>
      /\ _next[_head] = _tail /\ _prev[_tail] = _head /\ UNCHANGED <<_next, _prev>>
      /\ cursor # _tail /\ cursor' = _next[cursor]
      /\ allocated' = allocated \ {cursor} /\ _size' = _size - 1
  BY DEF ListInv, clearStep
<1>2. PICK s \in Seq(Node) : Clearing(s)
  BY <1>1 DEF ListInv
<1>3. Counts(s) /\ Len(s) \in Nat /\ cursor = s[1] /\ 1 \in 1..Len(s)
  <2>1. Len(s) \in Nat /\ Len(s) # 0
    BY <1>1, <1>2 DEF Clearing, At
  <2>2. 1 \in 1..Len(s) /\ 1 # Len(s) + 1
    BY <2>1
  <2> QED
    BY <1>2, <2>1, <2>2 DEF Clearing, At
<1> DEFINE t == Cut(s, 1)
<1>4. Counts(t)'
  BY <1>1, <1>3, CutCounts
<1>5. /\ t \in Seq(Node) /\ Len(t) = Len(s) - 1
      /\ \A i \in 1..Len(t) : t[i] = s[i + 1] /\ At(t, i) = At(s, i + 1)
      /\ At(t, Len(t) + 1) = At(s, Len(s) + 1)
  <2>1. t \in Seq(Node) /\ Len(t) = Len(s) - 1
    BY <1>3, CutIs
  <2>2. \A i \in 1..Len(t) : t[i] = s[i + 1]
    BY <1>3, <2>1 DEF Cut
  <2> HIDE DEF t
  <2> QED
    BY <1>3, <2>1, <2>2 DEF At
<1>6. /\ At(t, 1) = At(s, 2)
      /\ \A i \in 1..Len(t) : At(t, i + 1) = At(s, (i + 1) + 1)
  <2> HIDE DEF t
  <2>1. At(t, 1) = At(s, 2)
    <3>0. Len(t) = Len(s) - 1 /\ Len(s) \in Nat
      BY <1>3, <1>5
    <3>1. CASE Len(s) = 1
      <4>1. Len(s) + 1 = 2
        BY <3>1
      <4>2. Len(t) = 0
        BY <3>0, <3>1
      <4>3. Len(t) + 1 = 1
        BY <4>2
      <4> QED
        BY <1>5, <4>1, <4>3
    <3>2. CASE Len(s) # 1
      <4>1. 1 \in 1..Len(t) /\ 1 + 1 = 2
        BY <1>3, <3>0, <3>2
      <4> QED
        BY <1>5, <4>1
    <3> QED
      BY <3>1, <3>2
  <2>2. ASSUME NEW i \in 1..Len(t) PROVE At(t, i + 1) = At(s, (i + 1) + 1)
    <3>1. CASE i = Len(t)
      <4>1. (i + 1) + 1 = Len(s) + 1
        BY <1>3, <1>5, <3>1
      <4> QED
        BY <1>5, <3>1, <4>1
    <3>2. CASE i # Len(t)
      <4>1. i + 1 \in 1..Len(t)
        BY <1>3, <1>5, <3>2
      <4> QED
        BY <1>5, <4>1
    <3> QED
      BY <3>1, <3>2
  <2> QED
    BY <2>1, <2>2
<1>7. cursor' = At(t, 1)
  BY <1>1, <1>2, <1>3, <1>6 DEF Clearing
<1>8. ASSUME NEW i \in 1..Len(t) PROVE _next'[t[i]] = At(t, i + 1)
  <2>1. i + 1 \in 1..Len(s)
    BY <1>3, <1>5
  <2>2. _next[s[i + 1]] = At(s, (i + 1) + 1)
    BY <1>2, <2>1 DEF Clearing
  <2> QED
    BY <1>1, <1>5, <1>6, <2>2
<1>9. Clearing(t)'
  BY <1>4, <1>7, <1>8 DEF Clearing, At, t, Cut
<1> QED
  BY <1>1, <1>5, <1>9 DEF ListInv, ListTypes

LEMMA RemoveKeepsInv ==
  ASSUME ListInv, NEW d \in Data, remove(d)
  PROVE  ListInv'
<1>1. /\ ListTypes /\ Holds(order) /\ walk' = "remove" /\ wanted' = d
      /\ order \in Seq(Node) /\ Len(order) \in Nat /\ cursor' = _next[_head]
      /\ UNCHANGED <<_next, _prev, _data, _size, allocated>>
  <2>1. walk = "none" /\ ListTypes /\ Holds(order)
    BY DEF ListInv, remove, Called
  <2>2. order \in Seq(Node)
    BY <2>1 DEF Holds, Counts
  <2>3. Len(order) \in Nat
    BY <2>2
  <2>4. /\ walk' = "remove" /\ wanted' = d /\ cursor' = _next[_head]
        /\ UNCHANGED <<_next, _prev, _data, _size, allocated>>
    BY Zenon DEF remove
  <2> QED
    BY <2>1, <2>2, <2>3, <2>4
<1>0. order' = Folded(Keep(d), <<>>, order)
  BY DEF remove, Folded
<1>2. PICK h : History(h, Keep(d), <<>>, order) /\ Folded(Keep(d), <<>>, order) = h[Len(order)]
  BY <1>1, FoldHistory
<1>3. Keep(wanted)' = Keep(d)
  BY <1>1 DEF Keep
<1>4. _next[_head] = At(order, 1)
  <2>1. 0 \in 0..Len(order) /\ At(order, 0) = _head /\ 0 + 1 = 1
    BY <1>1, AtIsLink
  <2> QED
    BY <1>1, <2>1 DEF Holds
<1>5. h[0] = <<>> /\ <<>> \in Seq(Node) /\ Len(<<>>) = 0
  BY <1>2 DEF History
<1>6. ASSUME NEW o, o = order
      PROVE  RemovedUpTo(o, h, 0)'
  <2>1. Holds(o)'
    BY <1>1, <1>6, NothingElseHolds
  <2>2. cursor' = At(o, 0 + 1)
    BY <1>1, <1>4, <1>6
  <2>3. History(h, Keep(wanted), <<>>, o)'
    BY <1>2, <1>3, <1>6 DEF History
  <2>4. /\ Len(o) = Len(h[0]) + Len(o) - 0 /\ o \in Seq(Node)
        /\ \A i \in 1..Len(h[0]) : o[i] = h[0][i]
        /\ \A i \in 1..Len(o) - 0 : o[Len(h[0]) + i] = o[0 + i]
    BY <1>1, <1>5, <1>6
  <2>5. order' = h[Len(o)] /\ h[0] \in Seq(Node)
    BY <1>0, <1>1, <1>2, <1>5, <1>6
  <2> QED
    BY <2>1, <2>2, <2>3, <2>4, <2>5 DEF RemovedUpTo, At
<1>7. 0 \in 0..Len(order)
  BY <1>1
<1>8. \E o \in Seq(Node) : \E hh : \E j \in 0..Len(o) : RemovedUpTo(o, hh, j)'
  BY <1>1, <1>6, <1>7
<1> QED
  BY <1>1, <1>8 DEF ListInv, ListTypes

LEMMA OneMore ==
  ASSUME NEW x \in Nat, NEW y \in Nat \ {0}
  PROVE  (x + 1) + y = x + (y + 1) /\ (x + y) + 1 = x + (y + 1) /\ ~(x + y < x + 1)
OBVIOUS

LEMMA RemoveStepKeepsInv ==
  ASSUME ListInv, removeStep
  PROVE  ListInv'
<1>1. /\ ListTypes /\ walk = "remove" /\ walk' = "remove" /\ order' = order
      /\ cursor # _tail /\ cursor' = _next[cursor] /\ UNCHANGED <<_data, wanted>>
  BY DEF ListInv, removeStep
<1>2. PICK o \in Seq(Node) : \E h : \E j \in 0..Len(o) : RemovedUpTo(o, h, j)
  BY <1>1 DEF ListInv
<1>0. PICK h : \E j \in 0..Len(o) : RemovedUpTo(o, h, j)
  BY <1>2
<1>3. PICK j \in 0..Len(o) : RemovedUpTo(o, h, j)
  BY <1>0
<1>4. PICK s \in Seq(Node) :
         /\ Holds(s) /\ Len(s) = Len(h[j]) + Len(o) - j
         /\ \A i \in 1..Len(h[j]) : s[i] = h[j][i]
         /\ \A i \in 1..Len(o) - j : s[Len(h[j]) + i] = o[j + i]
  BY <1>3 DEF RemovedUpTo
<1> DEFINE a == h[j]
           b == h[j + 1]
           k == Len(a) + 1
<1>5. /\ a \in Seq(Node) /\ Len(a) \in Nat /\ Len(o) \in Nat /\ Len(s) \in Nat
      /\ History(h, Keep(wanted), <<>>, o) /\ order = h[Len(o)] /\ cursor = At(o, j + 1)
  BY <1>3, <1>4 DEF RemovedUpTo
<1> Len(s) = Len(a) + Len(o) - j /\ Len(a) \in Nat /\ Len(o) \in Nat /\ j \in 0..Len(o)
  BY <1>4, <1>5
<1>6. j + 1 \in 1..Len(o) /\ j + 1 \in 0..Len(o) /\ cursor = o[j + 1] /\ o[j + 1] \in Node
  <2>1. j # Len(o)
    BY <1>1, <1>5 DEF At
  <2>2. j + 1 \in 1..Len(o) /\ j + 1 # 0 /\ j + 1 # Len(o) + 1
    BY <1>5, <2>1
  <2> QED
    BY <1>5, <2>2 DEF At
<1>7. k \in 1..Len(s) /\ k \in 0..Len(s) /\ s[k] = cursor
  <2>1. 1 \in 1..Len(o) - j
    BY <1>5, <1>6
  <2>2. s[Len(a) + 1] = o[j + 1]
    BY <1>4, <2>1
  <2> QED
    BY <1>4, <1>5, <1>6, <2>2
<1>8. b = IF _data[cursor] = wanted THEN a ELSE Append(a, cursor)
  <2>1. (j + 1) - 1 = j
    BY <1>5
  <2>2. b = Keep(wanted)[o[j + 1]][a]
    BY <1>5, <1>6, <2>1 DEF History
  <2> QED
    BY <1>5, <1>6, <2>2 DEF Keep
<1>9. At(s, k + 1) = At(o, (j + 1) + 1)
  <2>1. CASE j + 1 = Len(o)
    <3>1. k + 1 = Len(s) + 1 /\ (j + 1) + 1 = Len(o) + 1
      BY <2>1
    <3> QED
      BY <1>5, <3>1 DEF At
  <2>2. CASE j + 1 # Len(o)
    <3>1. 2 \in 1..Len(o) - j /\ k + 1 = Len(a) + 2 /\ (j + 1) + 1 = j + 2
          /\ k + 1 # 0 /\ k + 1 # Len(s) + 1 /\ j + 2 # 0 /\ j + 2 # Len(o) + 1
      BY <1>6, <2>2
    <3>2. s[Len(a) + 2] = o[j + 2]
      BY <1>4, <3>1
    <3> QED
      BY <3>1, <3>2 DEF At
  <2> QED
    BY <2>1, <2>2
<1>10. _next[s[k]] = At(s, k + 1)
  <2>1. At(s, k) = s[k]
    BY <1>5, <1>7 DEF At
  <2> QED
    BY <1>4, <1>7, <2>1 DEF Holds
<1>11. (History(h, Keep(wanted), <<>>, o))'
  BY <1>1, <1>5 DEF History, Keep
<1>12. cursor' = At(o, (j + 1) + 1)
  BY <1>1, <1>7, <1>9, <1>10
<1> SUFFICES /\ ListTypes' /\ b \in Seq(Node)
             /\ \E t \in Seq(Node) :
                  /\ Holds(t)' /\ Len(t) = Len(b) + Len(o) - (j + 1)
                  /\ \A i \in 1..Len(b) : t[i] = b[i]
                  /\ \A i \in 1..Len(o) - (j + 1) : t[Len(b) + i] = o[(j + 1) + i]
  <2>1. ASSUME b \in Seq(Node),
               \E t \in Seq(Node) :
                 /\ Holds(t)' /\ Len(t) = Len(b) + Len(o) - (j + 1)
                 /\ \A i \in 1..Len(b) : t[i] = b[i]
                 /\ \A i \in 1..Len(o) - (j + 1) : t[Len(b) + i] = o[(j + 1) + i]
        PROVE  RemovedUpTo(o, h, j + 1)'
    BY <2>1, <1>1, <1>5, <1>11, <1>12 DEF RemovedUpTo, At
  <2> QED
    BY <1>1, <1>6, <2>1 DEF ListInv
<1>13. CASE _data[cursor] = wanted
  <2> DEFINE t == Cut(s, k)
  <2>1. Unlink(s[k])
    BY <1>7, <1>13 DEF removeStep
  <2>2. Holds(t)' /\ ListTypes'
    BY <1>1, <1>4, <1>7, <2>1, UnlinkHolds DEF ListTypes
  <2>3. b = a /\ b \in Seq(Node)
    BY <1>5, <1>8, <1>13
  <2>4. t \in Seq(Node) /\ Len(t) = Len(s) - 1
    BY <1>7, CutIs
  <2>5. Len(t) = Len(a) + Len(o) - (j + 1)
    BY <1>4, <1>5, <2>4
  <2>6. ASSUME NEW i \in 1..Len(a) PROVE t[i] = a[i]
    <3>1. i \in 1..Len(s) - 1 /\ i < k
      BY <1>5, <1>7, SMTT(60)
    <3> QED
      BY <1>4, <3>1 DEF Cut
  <2>7. ASSUME NEW i \in 1..Len(o) - (j + 1) PROVE t[Len(a) + i] = o[(j + 1) + i]
    <3>0. Len(a) + i \in 1..Len(s) - 1 /\ i + 1 \in 1..Len(o) - j
      OBVIOUS
    <3>6. i \in Nat \ {0} /\ j \in Nat
      OBVIOUS
    <3>4. (Len(a) + i) + 1 = Len(a) + (i + 1) /\ j + (i + 1) = (j + 1) + i
      BY <3>6, OneMore
    <3>5. ~(Len(a) + i < k)
      BY <3>6, OneMore
    <3>1. /\ Len(a) + i \in 1..Len(s) - 1 /\ i + 1 \in 1..Len(o) - j
          /\ ~(Len(a) + i < k)
          /\ (Len(a) + i) + 1 = Len(a) + (i + 1) /\ j + (i + 1) = (j + 1) + i
      BY <3>0, <3>4, <3>5
    <3>2. t[Len(a) + i] = s[(Len(a) + i) + 1]
      BY <3>1 DEF Cut
    <3>3. s[Len(a) + (i + 1)] = o[j + (i + 1)]
      BY <1>4, <3>1
    <3> QED
      BY <3>1, <3>2, <3>3
  <2> HIDE DEF t, b, a
  <2> QED
    BY <2>2, <2>3, <2>4, <2>5, <2>6, <2>7
<1>14. CASE _data[cursor] # wanted
  <2>1. Holds(s)' /\ ListTypes'
    BY <1>1, <1>4, <1>14, NothingElseHolds DEF removeStep, ListTypes
  <2>2. b = Append(a, cursor)
    BY <1>8, <1>14
  <2>3. b \in Seq(Node) /\ Len(b) = Len(a) + 1 /\ b[Len(a) + 1] = cursor
        /\ \A i \in 1..Len(a) : b[i] = a[i]
    <3> HIDE DEF a, b
    <3> QED
      BY <1>5, <1>6, <2>2
  <2>4. Len(s) = Len(b) + Len(o) - (j + 1)
    BY <1>4, <1>5, <2>3
  <2>5. ASSUME NEW i \in 1..Len(b) PROVE s[i] = b[i]
    <3>1. CASE i = k
      BY <1>7, <2>3, <3>1
    <3>2. CASE i # k
      <4>1. i \in 1..Len(a)
        BY <2>3, <3>2, SMTT(60)
      <4> QED
        BY <1>4, <2>3, <4>1
    <3> QED
      BY <3>1, <3>2
  <2>6. ASSUME NEW i \in 1..Len(o) - (j + 1) PROVE s[Len(b) + i] = o[(j + 1) + i]
    <3>1. i + 1 \in 1..Len(o) - j /\ j + (i + 1) = (j + 1) + i
      OBVIOUS
    <3>2. i \in Nat \ {0} /\ Len(b) = Len(a) + 1
      BY <2>3
    <3>3. Len(b) + i = Len(a) + (i + 1)
      BY <3>2, OneMore
    <3> QED
      BY <1>4, <3>1, <3>3
  <2> HIDE DEF b
  <2> QED
    BY <2>1, <2>3, <2>4, <2>5, <2>6
<1> QED
  BY <1>13, <1>14

LEMMA WalkDoneKeepsInv ==
  ASSUME ListInv, walkDone
  PROVE  ListInv'
<1>1. /\ ListTypes /\ walk \in {"remove", "clear"} /\ walk' = "none" /\ cursor = _tail
      /\ UNCHANGED <<_next, _prev, _data, _size, allocated, order>>
  BY DEF ListInv, ListTypes, walkDone
<1> SUFFICES Holds(order)
  <2>1. Holds(order) => Holds(order)'
    BY <1>1 DEF Holds, Counts, At
  <2> QED
    BY <1>1, <2>1 DEF ListInv, ListTypes
<1>2. CASE walk = "remove"
  <2>1. PICK o \in Seq(Node) : \E h : \E j \in 0..Len(o) : RemovedUpTo(o, h, j)
    BY <1>2 DEF ListInv
  <2>0. PICK h : \E j \in 0..Len(o) : RemovedUpTo(o, h, j)
    BY <2>1
  <2>2. PICK j \in 0..Len(o) : RemovedUpTo(o, h, j)
    BY <2>0
  <2>3. j = Len(o)
    <3>1. Len(o) \in Nat /\ \A i \in 1..Len(o) : o[i] \in Node
      OBVIOUS
    <3>2. At(o, j + 1) = _tail
      BY <1>1, <2>2 DEF RemovedUpTo
    <3> QED
      BY <3>1, <3>2, ListAssumption DEF At
  <2>4. order = h[j] /\ h[j] \in Seq(Node)
    BY <2>2, <2>3 DEF RemovedUpTo
  <2>5. PICK s \in Seq(Node) : /\ Holds(s) /\ Len(s) = Len(h[j]) + Len(o) - j
                               /\ \A i \in 1..Len(h[j]) : s[i] = h[j][i]
    BY <2>2 DEF RemovedUpTo
  <2>6. Len(s) = Len(order)
    BY <2>3, <2>4, <2>5
  <2>7. s = order
    BY <2>4, <2>5, <2>6, SameNodes
  <2> QED
    BY <2>5, <2>7
<1>3. CASE walk = "clear"
  <2>1. PICK s \in Seq(Node) : Clearing(s)
    BY <1>3 DEF ListInv
  <2>2. order = <<>> /\ _next[_head] = _tail /\ _prev[_tail] = _head
    BY <1>3 DEF ListInv
  <2>3. Len(s) = 0
    <3>1. Len(s) \in Nat /\ (Len(s) # 0 => s[1] \in Node /\ 1 # Len(s) + 1)
      OBVIOUS
    <3>2. At(s, 1) = _tail
      BY <1>1, <2>1 DEF Clearing
    <3> QED
      BY <3>1, <3>2, ListAssumption DEF At
  <2>4. s = <<>>
    BY <2>3
  <2>5. Counts(order) /\ Len(order) = 0
    BY <2>1, <2>2, <2>3, <2>4 DEF Clearing
  <2> QED
    BY <2>2, <2>5 DEF Holds, At
<1> QED
  BY <1>1, <1>2, <1>3

LEMMA ListInvNext ==
  ASSUME ListInv, [ListNext]_listVars
  PROVE  ListInv'
<1>1. CASE UNCHANGED listVars
  <2>1. ListTypes' /\ (Holds(order) => Holds(order)')
    BY <1>1 DEF listVars, ListInv, ListTypes, Holds, Counts, At
  <2>2. \A s : Clearing(s) => Clearing(s)'
    BY <1>1 DEF listVars, Clearing, Counts, At
  <2>3. ASSUME NEW o, NEW h, NEW j, RemovedUpTo(o, h, j) PROVE RemovedUpTo(o, h, j)'
    <3>1. History(h, Keep(wanted), <<>>, o)'
      BY <1>1, <2>3 DEF listVars, RemovedUpTo, History, Keep
    <3>2. \A s : Holds(s) => Holds(s)'
      BY <1>1, NothingElseHolds DEF listVars
    <3>3. UNCHANGED <<order, cursor>>
      BY <1>1 DEF listVars
    <3> QED
      BY <2>3, <3>1, <3>2, <3>3 DEF RemovedUpTo, At
  <2>4. UNCHANGED <<_next, _prev, walk, order>>
    BY <1>1 DEF listVars
  <2> QED
    BY <2>1, <2>2, <2>3, <2>4 DEF ListInv
<1>2. ASSUME NEW n \in Node, NEW d \in Data, push_front(n, d) \/ push_back(n, d) PROVE ListInv'
  BY <1>2, PushKeepsInv
<1>3. CASE pop_front \/ pop_back \/ \E n \in Node : erase(n)
  BY <1>3, TakeOutKeepsInv
<1>4. CASE clear
  BY <1>4, ClearKeepsInv
<1>5. CASE clearStep
  BY <1>5, ClearStepKeepsInv
<1>6. ASSUME NEW d \in Data, remove(d) PROVE ListInv'
  BY <1>6, RemoveKeepsInv
<1>7. CASE removeStep
  BY <1>7, RemoveStepKeepsInv
<1>8. CASE walkDone
  BY <1>8, WalkDoneKeepsInv
<1> QED
  BY <1>1, <1>2, <1>3, <1>4, <1>5, <1>6, <1>7, <1>8 DEF ListNext

LEMMA HeldIsSequence == ListInv => ListIsASequence
<1> SUFFICES ASSUME ListInv, walk = "none"
             PROVE  LET chain == <<_head>> \o order \o <<_tail>> IN
                    /\ \A i \in 1..Len(chain) - 1 : /\ _next[chain[i]] = chain[i + 1]
                                                    /\ _prev[chain[i + 1]] = chain[i]
                    /\ _size = Len(order)
                    /\ allocated = ToSet(order) /\ Cardinality(allocated) = _size
  BY DEF ListIsASequence
<1> DEFINE n == Len(order)
           V == Node \cup {_head, _tail}
           front == <<_head>> \o order
           chain == front \o <<_tail>>
<1>1. Holds(order) /\ Counts(order) /\ order \in Seq(Node) /\ n \in Nat /\ NodesDiffer(order)
      /\ _size = n /\ allocated = {order[i] : i \in 1..n}
  BY DEF ListInv, Holds, Counts
<1>2. front \in Seq(V) /\ Len(front) = n + 1 /\ front[1] = _head
      /\ \A i \in 1..n : front[i + 1] = order[i]
  BY <1>1
<1> HIDE DEF front
<1>3. chain \in Seq(V) /\ Len(chain) = n + 2 /\ chain[n + 2] = _tail
      /\ \A i \in 1..n + 1 : chain[i] = front[i]
  BY <1>1, <1>2
<1> HIDE DEF chain
<1>4. \A i \in 0..n + 1 : chain[i + 1] = At(order, i)
  <2> SUFFICES ASSUME NEW i \in 0..n + 1 PROVE chain[i + 1] = At(order, i)
    OBVIOUS
  <2>1. CASE i = 0
    BY <1>1, <1>2, <1>3, <2>1 DEF At
  <2>2. CASE i = n + 1
    BY <1>1, <1>3, <2>2 DEF At
  <2>3. CASE i \in 1..n
    <3>1. i + 1 \in 1..n + 1 /\ i # 0 /\ i # n + 1
      BY <1>1, <2>3
    <3> QED
      BY <1>2, <1>3, <2>3, <3>1 DEF At
  <2> QED
    BY <1>1, <2>1, <2>2, <2>3
<1>5. ASSUME NEW i \in 1..Len(chain) - 1
      PROVE  _next[chain[i]] = chain[i + 1] /\ _prev[chain[i + 1]] = chain[i]
  <2>1. i - 1 \in 0..n /\ i - 1 \in 0..n + 1 /\ (i - 1) + 1 = i /\ i \in 0..n + 1
    BY <1>1, <1>3
  <2>2. chain[i] = At(order, i - 1) /\ chain[i + 1] = At(order, i)
    BY <1>4, <2>1
  <2>3. _next[At(order, i - 1)] = At(order, i) /\ _prev[At(order, i)] = At(order, i - 1)
    BY <1>1, <2>1 DEF Holds
  <2> QED
    BY <2>2, <2>3
<1>6. allocated = ToSet(order)
  BY <1>1 DEF ToSet
<1>7. Cardinality(allocated) = n
  <2>1. order \in Bijection(1..n, allocated)
    <3>1. order \in [1..n -> allocated]
      BY <1>1
    <3>2. order \in Injection(1..n, allocated)
      BY <1>1, <3>1 DEF Injection, NodesDiffer, IsInjective
    <3>3. order \in Surjection(1..n, allocated)
      BY <1>1, <3>1 DEF Surjection
    <3> QED
      BY <3>2, <3>3 DEF Bijection
  <2>2. ExistsBijection(1..n, allocated)
    BY <2>1 DEF ExistsBijection
  <2> QED
    BY <1>1, <2>2, FS_CountingElements
<1> QED
  BY <1>1, <1>5, <1>6, <1>7 DEF chain, front

\* However many nodes there are and whatever is called, between calls the list is
\* the sequence of nodes its calls describe, read in either direction.
THEOREM ListKeepsItsNodes == ListSpec => []ListIsASequence
<1>1. ListSpec => []ListInv
  BY ListInvInit, ListInvNext, PTL DEF ListSpec
<1> QED
  BY <1>1, HeldIsSequence, PTL
=============================================================================
