------------------------------ MODULE TxQueue -------------------------------
(***************************************************************************)
(* What the network core relies on when it hands frames to the transmit    *)
(* path and stops the CAN interface: a bounded queue of messages, sent in  *)
(* the order in which they were accepted.  A message may be dropped when   *)
(* it cannot be submitted; a stop may discard what is waiting; when a stop *)
(* has ended nothing is left, and nothing is sent before the next start.   *)
(*                                                                         *)
(* The ring, the tx thread with its message in hand, tokens, slots and the *)
(* handshake of the stop are the business of TxPath, which implements this *)
(* module.                                                                 *)
(***************************************************************************)
EXTENDS Integers, Sequences, FiniteSets

CONSTANT Capacity       \* messages that fit in tx_data

VARIABLES
    phase,              \* "up", "stopping" or "down"
    accepted,           \* messages are numbered 1, 2, ...; the last accepted
    waiting,            \* the messages accepted and neither sent nor discarded
    sent                \* the messages sent, in order

vars == <<phase, accepted, waiting, sent>>

Init ==
    /\ phase = "up"
    /\ accepted = 0
    /\ waiting = {}
    /\ sent = << >>

(* One message more than the ring holds: the one that is being submitted.  *)
Accept ==
    /\ phase = "up"
    /\ Cardinality(waiting) <= Capacity
    /\ accepted' = accepted + 1
    /\ waiting' = waiting \cup {accepted + 1}
    /\ UNCHANGED <<phase, sent>>

(* The oldest message leaves the queue.                                    *)
Leaves(m) ==
    /\ m \in waiting
    /\ \A n \in waiting : m <= n
    /\ waiting' = waiting \ {m}

Send ==
    /\ phase # "down"
    /\ \E m \in waiting : Leaves(m) /\ sent' = Append(sent, m)
    /\ UNCHANGED <<phase, accepted>>

Drop ==
    /\ \E m \in waiting : Leaves(m)
    /\ UNCHANGED <<phase, accepted, sent>>

Discard ==
    /\ phase = "stopping"
    /\ waiting' = {}
    /\ UNCHANGED <<phase, accepted, sent>>

StopBegin ==
    /\ phase = "up"
    /\ phase' = "stopping"
    /\ UNCHANGED <<accepted, waiting, sent>>

StopDone ==
    /\ phase = "stopping"
    /\ waiting = {}
    /\ phase' = "down"
    /\ UNCHANGED <<accepted, waiting, sent>>

Start ==
    /\ phase = "down"
    /\ phase' = "up"
    /\ UNCHANGED <<accepted, waiting, sent>>

Next ==
    \/ Accept \/ Send \/ Drop \/ Discard
    \/ StopBegin \/ StopDone \/ Start

Spec == Init /\ [][Next]_vars
=============================================================================
