------------------------------ MODULE MCRxStream ------------------------------
(* RxStream with messages of 4 to 6 bytes in transfers of up to 6.         *)
EXTENDS RxStream

(* A frame whose payload looks like the head of another, overlong message, *)
(* a report, and a stray start mark with a length.                         *)
UnitsDefinition == {<<7, 6, 1, 7, 8, 8>>, <<7, 5, 2, 3, 8>>, <<7, 5>>}
=============================================================================
