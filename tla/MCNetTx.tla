------------------------------ MODULE MCNetTx -------------------------------
(* The network interface over two URB slots and a ring of one frame.       *)
EXTENDS NetTx
=============================================================================
