----------------------------- MODULE MCLibraries -----------------------------
(* The small programs and libraries, one of them in each behaviour: a lock of  *)
(* either kind over two rounds, three items handed over, a pool of three       *)
(* blocks, a list of up to three nodes, searches on a grid of two columns and  *)
(* two rows, a player on a field of seven by five, a packet of four bytes.     *)
EXTENDS SpinLock, Handoff, MemoryPool, MyList, PathFinder, Movement, Packet

VARIABLE program   \* the one that runs

\* Positions on the field, on its bounds and beyond them.
MCClaims == [x : {1, 2, 5, 8, 9}, y : {1, 4, 6}]

\* Starts of the searches that begin with any obstacles: a corner, and a square
\* beyond the grid, where a click in a larger window puts it.
Starts == {[x |-> 0, y |-> 0], [x |-> GRID_WIDTH, y |-> 1]}

Init == /\ program \in {"lock", "handoff", "pool", "list", "path", "movement", "packet"}
        /\ LockInit /\ ListInit /\ MoveInit /\ PacketInit
        /\ IF program = "handoff" THEN \E s \in {"variable", "event"} : HandoffInit(s)
           ELSE HandoffInit("variable")
        /\ PoolInit /\ (program # "pool" => isPlacementNew /\ free = <<CHOOSE b \in Block : TRUE>>)
        /\ IF program = "path"
           THEN \/ PathInit({}, NoNode, NoNode, MaxEvents)
                \/ \E obstacles \in SUBSET Memory, b \in Starts, e \in Square : PathInit(obstacles, b, e, 1)
           ELSE PathInit({}, NoNode, NoNode, 0)

\* Only p's variables change.
Only(p) == /\ program = p /\ UNCHANGED program
           /\ p # "lock" => UNCHANGED lockVars
           /\ p # "handoff" => UNCHANGED handoffVars
           /\ p # "pool" => UNCHANGED poolVars
           /\ p # "list" => UNCHANGED listVars
           /\ p # "path" => UNCHANGED pathVars
           /\ p # "movement" => UNCHANGED moveVars
           /\ p # "packet" => UNCHANGED packetVars

Next == \/ Only("lock") /\ LockNext
        \/ Only("handoff") /\ HandoffNext
        \/ Only("pool") /\ PoolNext
        \/ Only("list") /\ ListNext
        \/ Only("path") /\ PathNext
        \/ Only("movement") /\ MoveNext
        \/ Only("packet") /\ PacketNext

Spec == Init /\ [][Next]_<<lockVars, handoffVars, poolVars, listVars, pathVars,
                           moveVars, packetVars, program>>
             /\ HandoffFairness
=============================================================================
