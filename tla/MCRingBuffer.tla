---------------------------- MODULE MCRingBuffer ----------------------------
(* RingBuffer on a small ring.                                             *)
EXTENDS RingBuffer
=============================================================================
