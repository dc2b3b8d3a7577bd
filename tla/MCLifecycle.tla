---------------------------- MODULE MCLifecycle ----------------------------
(* Lifecycle with two files.                                               *)
EXTENDS Lifecycle
=============================================================================
