---------------------------- MODULE MCRingBuffer ----------------------------
(* RingBuffer on a ring of three bytes, requests up to one more than fits.   *)
EXTENDS RingBuffer

CONSTANTS b0, b1

MCByte == {b0, b1}
MCSize == 3
MCMaxRequest == 4
=============================================================================
