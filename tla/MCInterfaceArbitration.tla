------------------------ MODULE MCInterfaceArbitration ------------------------
(* InterfaceArbitration with one to four files.                           *)
EXTENDS InterfaceArbitration
=============================================================================
