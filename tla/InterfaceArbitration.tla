------------------------ MODULE InterfaceArbitration ------------------------
(***************************************************************************)
(* Who uses the CAN channel of an EP1-CF02A: any number of open character  *)
(* device files, or the SocketCAN network interface.  unique_data->if_type *)
(* says which, and file_open_count how many files.  Both are atomic        *)
(* variables, but ep1_cf02a_open, ep1_cf02a_close and                      *)
(* ep1_cf02a_netdev_open take no common lock: each checks if_type, works,  *)
(* and stores if_type, and for the network open the work is a series of    *)
(* commands to the device.                                                 *)
(*                                                                         *)
(* The received CAN frames follow if_type (ep1_cf02a_dispatch_msg).  The   *)
(* network core calls open, close and restart under its own lock, one at a *)
(* time; can_restart is reached through netlink only, because the driver   *)
(* never calls can_bus_off.                                                *)
(*                                                                         *)
(* The two constants describe the environment: SerialFiles, that opens and *)
(* closes of files do not overlap one another; SerialNet, that none of     *)
(* them overlaps an open of the network interface.                         *)
(***************************************************************************)
EXTENDS Integers, FiniteSets

CONSTANTS Files, SerialFiles, SerialNet

ASSUME SerialAssumption == SerialFiles \in BOOLEAN /\ SerialNet \in BOOLEAN
ASSUME FilesAssumption == IsFiniteSet(Files)

VARIABLES
    if_type,            \* unique_data->if_type
    file_open_count,    \* unique_data->file_open_count
    file,               \* each file: closed, open, or where open/close is
    net                 \* the network interface

vars == <<if_type, file_open_count, file, net>>

Init ==
    /\ if_type = "NONE"
    /\ file_open_count = 0
    /\ file = [f \in Files |-> "closed"]
    /\ net = "down"

(* The files whose open or close has begun and not returned.               *)
Busy == {f \in Files : file[f] \notin {"closed", "open"}}

MayBegin == (SerialFiles => Busy = {}) /\ (SerialNet => net # "starting")

Becomes(f, s) == file' = [file EXCEPT ![f] = s]

-----------------------------------------------------------------------------
(* Fault: the open does not look at if_type.                               *)
OpenUnchecked(f) ==
    /\ file[f] = "closed"
    /\ MayBegin
    /\ Becomes(f, "checked")
    /\ UNCHANGED <<if_type, file_open_count, net>>

(* ep1_cf02a_open; -EBUSY changes nothing, so it is not a step.            *)

OpenCheck(f) ==
    /\ file[f] = "closed"
    /\ MayBegin
    /\ if_type # "NET"
    /\ Becomes(f, "checked")
    /\ UNCHANGED <<if_type, file_open_count, net>>

OpenCount(f) ==
    /\ file[f] = "checked"
    /\ file_open_count' = file_open_count + 1
    /\ Becomes(f, "counted")
    /\ UNCHANGED <<if_type, net>>

OpenClaim(f) ==
    /\ file[f] = "counted"
    /\ if_type' = "FILE"
    /\ Becomes(f, "open")
    /\ UNCHANGED <<file_open_count, net>>

(* ep1_cf02a_close                                                         *)
CloseCount(f) ==
    /\ file[f] = "open"
    /\ MayBegin
    /\ file_open_count' = file_open_count - 1
    /\ Becomes(f, "uncounted")
    /\ UNCHANGED <<if_type, net>>

(* Fault: every close releases the channel, not only the last.             *)
CloseReleasesAlways(f) ==
    /\ file[f] = "uncounted"
    /\ Becomes(f, "last")
    /\ UNCHANGED <<if_type, file_open_count, net>>

CloseCheck(f) ==
    /\ file[f] = "uncounted"
    /\ Becomes(f, IF file_open_count = 0 THEN "last" ELSE "closed")
    /\ UNCHANGED <<if_type, file_open_count, net>>

CloseRelease(f) ==
    /\ file[f] = "last"
    /\ if_type' = "NONE"
    /\ Becomes(f, "closed")
    /\ UNCHANGED <<file_open_count, net>>

-----------------------------------------------------------------------------
(* ep1_cf02a_netdev_open                                                   *)

NetOpen ==
    /\ net = "down"
    /\ SerialNet => Busy = {}
    /\ if_type = "NONE"
    /\ net' = "starting"
    /\ UNCHANGED <<if_type, file_open_count, file>>

(* ep1_cf02a_netdev_start, called by open and by restart, stores if_type   *)
(* after the last of its commands ...                                      *)
NetStarted ==
    /\ net \in {"starting", "restarting"}
    /\ if_type' = "NET"
    /\ net' = "up"
    /\ UNCHANGED <<file_open_count, file>>

(* ... or one of them fails.                                               *)
NetStartFails ==
    /\ net \in {"starting", "restarting"}
    /\ net' = IF net = "starting" THEN "down" ELSE "up"
    /\ UNCHANGED <<if_type, file_open_count, file>>

(* ep1_cf02a_netdev_set_mode(CAN_MODE_START)                               *)
NetRestart ==
    /\ net = "up"
    /\ net' = "restarting"
    /\ UNCHANGED <<if_type, file_open_count, file>>

(* ep1_cf02a_netdev_close: the interface is down for the network core,     *)
(* even if stop_can_interface failed and if_type was not reset.            *)
NetClose ==
    /\ net = "up"
    /\ net' = "closing"
    /\ UNCHANGED <<if_type, file_open_count, file>>

NetStopped ==
    /\ net = "closing"
    /\ if_type' = "NONE"
    /\ net' = "down"
    /\ UNCHANGED <<file_open_count, file>>

NetStopFails ==
    /\ net = "closing"
    /\ net' = "down"
    /\ UNCHANGED <<if_type, file_open_count, file>>

-----------------------------------------------------------------------------
File(f) ==
    \/ OpenCheck(f)
    \/ OpenCount(f)
    \/ OpenClaim(f)
    \/ CloseCount(f)
    \/ CloseCheck(f)
    \/ CloseRelease(f)

Net ==
    \/ NetOpen
    \/ NetStarted
    \/ NetStartFails
    \/ NetRestart
    \/ NetClose
    \/ NetStopped
    \/ NetStopFails

Next == (\E f \in Files : File(f)) \/ Net

Spec == Init /\ [][Next]_vars

-----------------------------------------------------------------------------
(* Properties                                                              *)

(* if_type and the count are in range: a count below zero would be an open *)
(* that was not counted or a close that was counted twice.                 *)
TypeOK ==
    /\ if_type \in {"NONE", "FILE", "NET"}
    /\ file_open_count \in 0..Cardinality(Files)
    /\ file \in [Files -> {"closed", "checked", "counted", "open", "uncounted",
                           "last"}]
    /\ net \in {"down", "starting", "up", "restarting", "closing"}

NetInUse == net \in {"up", "restarting", "closing"}
FileInUse == \E f \in Files : file[f] = "open"

(* The comment in ep1_cf02a_open: "simultaneous use with SocketCAN is      *)
(* prohibited".                                                            *)
NoSimultaneousUse == ~(NetInUse /\ FileInUse)

(* ep1_cf02a_dispatch_msg hands a received frame to whoever is using the   *)
(* channel, and does not drop it for want of a user while there is one.    *)
FramesReachUser ==
    /\ NetInUse => if_type = "NET"
    /\ FileInUse => if_type = "FILE"
=============================================================================
