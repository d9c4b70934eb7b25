-------------------------------- MODULE Mutex --------------------------------
(* What a lock promises: at most one thread holds it, and only its holder     *)
(* gives it back.                                                             *)
CONSTANTS Thread, Nobody

VARIABLE holder

Init == holder = Nobody

Acquire(t) == holder = Nobody /\ holder' = t

Release(t) == holder = t /\ holder' = Nobody

Next == \E t \in Thread : Acquire(t) \/ Release(t)

Spec == Init /\ [][Next]_holder
=============================================================================
