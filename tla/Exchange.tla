------------------------------ MODULE Exchange ------------------------------
(***************************************************************************)
(* What the settings modules share: a command function of the driver as    *)
(* one step.  CommandChannel shows that send_msg_sem admits one command at *)
(* a time, so the commands of different processes interleave as wholes;    *)
(* what its caller sees is one of three outcomes:                          *)
(*   ack   the device has done it and says so,                             *)
(*   lost  the device has not done it (it was not sent, the device answers *)
(*         NACK or nothing) and the function fails,                        *)
(*   late  the device has done it, but the answer came after the timeout:  *)
(*         the function fails as well.                                     *)
(***************************************************************************)
EXTENDS Integers, FiniteSets

CONSTANTS
    Procs,              \* processes that call the driver
    MaxCalls,           \* bound: calls that users begin
    MaxFaults           \* bound: commands that do not end in an ACK

VARIABLES calls, faults

ExchangeInit == calls = 0 /\ faults = 0

(* A user begins another call.                                             *)
NewCall == calls < MaxCalls /\ calls' = calls + 1

Outcomes == {"ack", "lost", "late"}

(* The command ends with outcome o.                                        *)
Ends(o) ==
    /\ o = "ack" \/ faults < MaxFaults
    /\ faults' = IF o = "ack" THEN faults ELSE faults + 1

(* What the device holds afterwards: new if it has executed the command.   *)
Held(o, new, old) == IF o \in {"ack", "late"} THEN new ELSE old

ExchangeTypeOK == calls \in 0..MaxCalls /\ faults \in 0..MaxFaults
=============================================================================
