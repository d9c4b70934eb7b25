---------------------------- MODULE MCEchoServers ----------------------------
(* Each of the four echo servers with the same clients: two that send two and *)
(* one bytes, or, where there is a limit to reach, three that send nothing.   *)
EXTENDS SelectServer, EventSelectServer, OverlappedServer, RoutineServer, TLC

CONSTANTS c0, c1, c2

MCClient == {c0, c1, c2}
MCPlans == {c0 :> 2 @@ c1 :> 1 @@ c2 :> -1, c0 :> 0 @@ c1 :> 0 @@ c2 :> 0}
MCBUFSIZE == 2
MCMaxSockets == 2
MCMaxEvents == 3
MCMaxSlots == 3

Init == /\ ClientsInit /\ SelectInit /\ EventInit /\ OverlappedInit /\ RoutineInit
        /\ server \in {"select", "event", "overlapped", "routine"}
        /\ server = "routine" => plan[c2] < 0

Next ==
  \/ ClientsNext /\ UNCHANGED <<selectVars, eventVars, overlappedVars, routineVars>>
  \/ SelectNext /\ UNCHANGED <<eventVars, overlappedVars, routineVars>>
  \/ EventNext /\ UNCHANGED <<selectVars, overlappedVars, routineVars>>
  \/ OverlappedNext /\ UNCHANGED <<selectVars, eventVars, routineVars>>
  \/ RoutineNext /\ UNCHANGED <<selectVars, eventVars, overlappedVars>>

Spec == /\ Init
        /\ [][Next]_<<clientVars, selectVars, eventVars, overlappedVars, routineVars>>
        /\ SelectFairness /\ EventFairness /\ OverlappedFairness /\ RoutineFairness
=============================================================================
