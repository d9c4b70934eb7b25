-------------------------- MODULE MCSessionStream ---------------------------
(* One session with a readQ of seven bytes and a writeQ of five; client      *)
(* packets of three and four bytes, server packets of three.  Two or three   *)
(* of each end at every place around the end of the array.                   *)
EXTENDS SessionStream

MCReadSize == 7
MCWriteSize == 5
MCMaxPackets == 2
MCMaxOffers == 3
MCSizes == {1, 2}
=============================================================================
