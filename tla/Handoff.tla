------------------------------- MODULE Handoff -------------------------------
(* A producer that hands items to a consumer through a queue under a mutex,    *)
(* and tells it by notify_one of a condition variable, or by setting an event  *)
(* that resets itself when the consumer's wait returns.                        *)
EXTENDS Integers

CONSTANT MaxItems   \* bound: items produced

ASSUME HandoffAssumption == MaxItems \in Nat

VARIABLES
  signal,    \* which program: "variable" or "event"
  q,         \* number of items in the queue
  m,         \* who holds the mutex: "none", "producer", "consumer"
  producer,  \* "lock", "push" or "tell"
  consumer,  \* "waiting" for the signal, "woken", "test", "take"
  hEvent,    \* the event is signaled
  produced, consumed

handoffVars == <<signal, q, m, producer, consumer, hEvent, produced, consumed>>

HandoffInit(s) == /\ signal = s /\ q = 0 /\ m = "none" /\ producer = "lock"
                  /\ consumer = IF s = "variable" THEN "woken" ELSE "waiting"
                  /\ hEvent = FALSE /\ produced = 0 /\ consumed = 0

producerLocks == /\ producer = "lock" /\ m = "none" /\ produced < MaxItems
                 /\ m' = "producer" /\ producer' = "push"
                 /\ UNCHANGED <<signal, q, consumer, hEvent, produced, consumed>>

\* push, and the end of the block that holds the lock
producerPushes == /\ producer = "push"
                  /\ q' = q + 1 /\ produced' = produced + 1
                  /\ m' = "none" /\ producer' = "tell"
                  /\ UNCHANGED <<signal, consumer, hEvent, consumed>>

\* notify_one wakes the consumer if it waits and is forgotten if not; SetEvent
\* stays until a wait takes it, and is one however often it is called.
producerTells == /\ producer = "tell" /\ producer' = "lock"
                 /\ \/ /\ signal = "variable" /\ UNCHANGED hEvent
                       /\ consumer' = IF consumer = "waiting" THEN "woken" ELSE consumer
                    \/ signal = "event" /\ hEvent' = TRUE /\ UNCHANGED consumer
                 /\ UNCHANGED <<signal, q, m, produced, consumed>>

\* WaitForSingleObject returns and resets the event.
consumerWakes == /\ consumer = "waiting" /\ signal = "event" /\ hEvent
                 /\ consumer' = "woken" /\ hEvent' = FALSE
                 /\ UNCHANGED <<signal, q, m, producer, produced, consumed>>

\* A condition variable may wake for no reason.
wakesSpuriously == /\ consumer = "waiting" /\ signal = "variable"
                   /\ consumer' = "woken"
                   /\ UNCHANGED <<signal, q, m, producer, hEvent, produced, consumed>>

consumerLocks == /\ consumer = "woken" /\ m = "none"
                 /\ m' = "consumer" /\ consumer' = "test"
                 /\ UNCHANGED <<signal, q, producer, hEvent, produced, consumed>>

\* Mutant: wait is entered without a look at the queue.
testAlwaysWaits == /\ consumer = "test" /\ consumer' = "waiting" /\ m' = "none"
                   /\ UNCHANGED <<signal, q, producer, hEvent, produced, consumed>>

\* An empty queue: the lock is released and the consumer waits (again), which a
\* condition variable does in one step.
consumerTests == /\ consumer = "test"
                 /\ \/ q = 0 /\ consumer' = "waiting" /\ m' = "none"
                    \/ q > 0 /\ consumer' = "take" /\ UNCHANGED m
                 /\ UNCHANGED <<signal, q, producer, hEvent, produced, consumed>>

consumerTakes == /\ consumer = "take"
                 /\ q' = q - 1 /\ consumed' = consumed + 1 /\ m' = "none"
                 /\ consumer' = IF signal = "variable" THEN "woken" ELSE "waiting"
                 /\ UNCHANGED <<signal, producer, hEvent, produced>>

HandoffNext == \/ producerLocks \/ producerPushes \/ producerTells
               \/ consumerWakes \/ wakesSpuriously
               \/ consumerLocks \/ consumerTests \/ consumerTakes

\* Neither thread stops in the middle; the producer may never come back, and no
\* spurious wake-up need happen.
HandoffFairness ==
  /\ WF_handoffVars(producerPushes \/ producerTells)
  /\ WF_handoffVars(consumerWakes \/ consumerLocks \/ consumerTests \/ consumerTakes)
-----------------------------------------------------------------------------
(* No wake-up is lost.  With the condition variable every item is taken in    *)
(* the end, wherever the notification falls between the test and the wait.    *)
(* With the event every signal leads to an item taken; there may be fewer     *)
(* signals than items, and an item whose signal was merged stays.             *)
SignalsAreAnswered ==
  /\ \A n \in 1..MaxItems : (signal = "variable" /\ produced >= n) ~> consumed >= n
  /\ \A n \in 0..MaxItems : (signal = "event" /\ hEvent /\ consumed = n) ~> consumed > n
=============================================================================
