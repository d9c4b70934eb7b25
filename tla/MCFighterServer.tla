-------------------------- MODULE MCFighterServer ---------------------------
(* Three clients and one packet; a writeQ that takes three messages and a    *)
(* half, so that it is filled exactly or with a packet cut short.            *)
EXTENDS FighterServer

MCMaxSessions == 3
MCMaxPackets == 1
MCCapacity == 7
MCMaxHP == 2
MCDamage1 == 1
MCDamage2 == 2
=============================================================================
