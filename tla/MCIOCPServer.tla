---------------------------- MODULE MCIOCPServer ----------------------------
(* Two clients, two workers; a buffer of two bytes and two bytes sent, so    *)
(* that the echo of one buffer may take two sends, and one receive may leave *)
(* a byte for the next.                                                      *)
EXTENDS IOCPServer

CONSTANTS s0, s1, w0, w1

MCSession == {s0, s1}
MCWorker == {w0, w1}
MCBUFSIZE == 2
MCMaxBytes == 2
=============================================================================
