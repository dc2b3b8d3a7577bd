----------------------------- MODULE MCStoreData ----------------------------
(* Two stores: one of two pages and a frame, one that is exactly a page.   *)
EXTENDS StoreData
CONSTANTS a, b
FramesDefinition == a :> 3 @@ b :> 2
=============================================================================
