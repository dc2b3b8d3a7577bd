------------------------------ MODULE MCTxPath ------------------------------
(* TxPath with one or two URB slots and a ring of two messages.            *)
EXTENDS TxPath
=============================================================================
