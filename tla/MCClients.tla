------------------------------ MODULE MCClients ------------------------------
(* Either client with its server: three messages about up to three other      *)
(* players for a table of three slots; two lines of three units through       *)
(* rings of four, the stream going wrong at the second line or not at all.     *)
EXTENDS StarClient, DrawClient

Init == \/ StarInit("open", "start") /\ DrawInit("failed", "ended")
        \/ StarInit("closed", "ended") /\ DrawInit("connecting", "running")

Next == \/ StarNext /\ UNCHANGED drawVars
        \/ DrawNext /\ UNCHANGED starVars

Spec == Init /\ [][Next]_<<starVars, drawVars>> /\ StarFairness /\ DrawFairness
=============================================================================
