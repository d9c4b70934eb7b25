------------------------------ MODULE SpinLock ------------------------------
(* SpinLock and SleepLock, a flag taken by compare-and-swap, and the program   *)
(* around each: one thread that adds to a shared counter under the lock and    *)
(* one that subtracts, Rounds times each.  The two locks differ in what a      *)
(* thread does between two attempts: nothing, or sleep.                        *)
EXTENDS Integers

CONSTANTS Rounds,   \* the 100'000 of the loops
          Nobody

ASSUME RoundsAssumption == Rounds \in Nat /\ Nobody \notin {"Add", "Sub"}

Thread == {"Add", "Sub"}

VARIABLES
  isLocked,   \* isLocked_
  expected,   \* each thread's local of that name in lock()
  at,         \* where each thread is
  sum,        \* the shared counter
  register,   \* what each thread read of it, sum++ being a read and a write
  done        \* each thread's finished rounds

lockVars == <<isLocked, expected, at, sum, register, done>>

LockInit == /\ isLocked = FALSE
            /\ expected = [t \in Thread |-> FALSE]
            /\ at = [t \in Thread |-> IF Rounds = 0 THEN "end" ELSE "try"]
            /\ sum = 0
            /\ register = [t \in Thread |-> 0]
            /\ done = [t \in Thread |-> 0]

Goto(t, place) == at' = [at EXCEPT ![t] = place]

\* compare_exchange_strong: on failure it stores what it found in expected.
compareExchange(t) ==
  /\ at[t] = "try"
  /\ \/ /\ isLocked = expected[t]
        /\ isLocked' = TRUE /\ Goto(t, "load") /\ UNCHANGED expected
     \/ /\ isLocked # expected[t]
        /\ expected' = [expected EXCEPT ![t] = isLocked]
        /\ Goto(t, "failed") /\ UNCHANGED isLocked
  /\ UNCHANGED <<sum, register, done>>

\* Mutant: expected keeps what the failed attempt stored in it.
tryAgainAsIs(t) == /\ at[t] = "failed" /\ Goto(t, "try")
                   /\ UNCHANGED <<isLocked, expected, sum, register, done>>

\* The body of lock()'s loop; SleepLock sleeps here.
tryAgain(t) == /\ at[t] = "failed" /\ Goto(t, "try")
               /\ expected' = [expected EXCEPT ![t] = FALSE]
               /\ UNCHANGED <<isLocked, sum, register, done>>

load(t) == /\ at[t] = "load" /\ Goto(t, "store")
           /\ register' = [register EXCEPT ![t] = sum]
           /\ UNCHANGED <<isLocked, expected, sum, done>>

store(t) == /\ at[t] = "store" /\ Goto(t, "unlock")
            /\ sum' = IF t = "Add" THEN register[t] + 1 ELSE register[t] - 1
            /\ UNCHANGED <<isLocked, expected, register, done>>

unlock(t) == /\ at[t] = "unlock"
             /\ isLocked' = FALSE
             /\ done' = [done EXCEPT ![t] = @ + 1]
             /\ Goto(t, IF done[t] + 1 = Rounds THEN "end" ELSE "try")
             /\ expected' = [expected EXCEPT ![t] = FALSE]
             /\ UNCHANGED <<sum, register>>

LockNext == \E t \in Thread : \/ compareExchange(t) \/ tryAgain(t)
                              \/ load(t) \/ store(t) \/ unlock(t)

LockSpec == LockInit /\ [][LockNext]_lockVars
-----------------------------------------------------------------------------
\* A thread between its successful attempt and its unlock.
Inside(t) == at[t] \in {"load", "store", "unlock"}

\* How often a thread has changed the counter.
Changes(t) == done[t] + IF at[t] = "unlock" THEN 1 ELSE 0

(* No update of the counter is ever lost: it is the additions less the        *)
(* subtractions done so far, although each is a read and a separate write.    *)
SumIsExact == sum = Changes("Add") - Changes("Sub")

\* Who holds the lock, for the abstract lock.
holder == IF Inside("Add") THEN "Add" ELSE IF Inside("Sub") THEN "Sub" ELSE Nobody

Lock == INSTANCE Mutex
ImplementsMutex == Lock!Spec
=============================================================================
