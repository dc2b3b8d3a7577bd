------------------------------ MODULE ByteFifo ------------------------------
(***************************************************************************)
(* What a user of apt_usbtrx_ringbuffer relies on: a bounded first-in      *)
(* first-out queue of bytes.  A write is accepted whole or not at all, a   *)
(* read takes a non-empty prefix of what is stored, a clear discards what  *)
(* is stored.  Bytes are numbered 1, 2, 3, ... in the order in which they  *)
(* are accepted, so that a lost, repeated or reordered byte shows.         *)
(*                                                                         *)
(* The pointers, the two-segment copies and the interleaving of reader and *)
(* writer are the business of RingBuffer, which implements this module.    *)
(***************************************************************************)
EXTENDS Naturals, Sequences

CONSTANT Capacity       \* buffer_size

VARIABLES
    queue,              \* the bytes stored, oldest first
    accepted,           \* how many bytes were ever accepted
    delivered           \* the bytes the last successful read returned

vars == <<queue, accepted, delivered>>

Init ==
    /\ queue = << >>
    /\ accepted = 0
    /\ delivered = << >>

(* An accepted write: all of its n bytes become visible at once.           *)
Put(n) ==
    /\ Len(queue) + n <= Capacity
    /\ queue' = queue \o [i \in 1..n |-> accepted + i]
    /\ accepted' = accepted + n
    /\ UNCHANGED delivered

(* A successful read returns the n oldest bytes and removes them.          *)
Get(n) ==
    /\ n <= Len(queue)
    /\ delivered' = SubSeq(queue, 1, n)
    /\ queue' = SubSeq(queue, n + 1, Len(queue))
    /\ UNCHANGED accepted

Discard ==
    /\ queue' = << >>
    /\ UNCHANGED <<accepted, delivered>>

Next ==
    \/ \E n \in 1..Capacity : Put(n) \/ Get(n)
    \/ Discard

Spec == Init /\ [][Next]_vars
=============================================================================
