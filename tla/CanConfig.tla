----------------------------- MODULE CanConfig -----------------------------
(***************************************************************************)
(* The AP-CT2A and the EP1-CH02A: one CAN channel with a bit rate (the     *)
(* EP1-CH02A from firmware 2.3 has a bit timing as well), used through a   *)
(* device file or a network interface.  Each command is one step; a call   *)
(* is a sequence of commands with no lock around it: an ioctl, a change of *)
(* the link settings, and what brings the network interface up and down.   *)
(*                                                                         *)
(* The device holds the bytes of the messages; callers use kbit/s.  asked  *)
(* is the device as its callers see it, in their units.                    *)
(***************************************************************************)
EXTENDS Exchange

CONSTANTS
    Net,            \* the network core: calls the interface under rtnl_lock
    Rates,          \* bit rates (kbit/s) that are asked for
    DefaultRate,    \* AP_CT2A_DEFAULT_BAUDRATE
    Timings,        \* bit timings, [seg, brp]
    Triggers,       \* triggers, [enable, logic, id]
    Frames,         \* frames of the bus, as the set of flags of their ids
    MaxCount        \* bound: frames of one kind that are counted

ASSUME CanAssumption ==
    /\ Rates \subseteq Nat /\ Timings \subseteq [seg : Nat, brp : Nat]
    /\ Triggers \subseteq [enable : BOOLEAN, logic : {0, 1}, id : Nat]
    /\ Frames \subseteq SUBSET {"ERR", "RTR", "EFF"}
    /\ Timings # {}
ASSUME NetAssumption == Net \notin Procs

VARIABLES
    variant,        \* the product, the EP1-CH02A with old or new firmware
    can,            \* the device: what it is set to, whether it is started
    max_token,      \* dev->tx_transfer_max_token
    can_if,         \* unique_data->if_type
    can_file,       \* the device file of each process
    net,            \* the network interface and its link settings
    can_call,       \* the call that each caller is in the middle of
    wire,           \* the notification on its way
    can_ring,       \* bit rates of the frames in rx_data
    counts,         \* the device's counters
    total_num,      \* unique_data->summary, per class
    asked,          \* what the callers have set, in their units
    alone,          \* history: the last set mode was acknowledged and had
                    \* no other beside it
    can_run,        \* history: bit rate that the file was started with
    ended,          \* history: the stop_can that succeeded last, if the channel
                    \* was not started since: what it did
    can_overlap,    \* history: two users checked if_type at a time
    received        \* history: the frames that the bus carried

stats == <<counts, total_num, received>>
canUsers == <<can_if, can_file, can_overlap>>
canVars == <<variant, can, max_token, canUsers, net, can_call, wire, can_ring,
             stats, asked, alone, can_run, ended, calls, faults>>

Callers == Procs \cup {Net}

-----------------------------------------------------------------------------
(* Conversions                                                             *)

(* apt_usbtrx_convert_baudrate_mode: kbit/s to the mode of a message       *)
BaudrateMode ==
    [r \in {33, 50, 83, 100, 125, 250, 500, 1000} |->
        CASE r = 33 -> 16 [] r = 50 -> 17 [] r = 83 -> 18 [] r = 100 -> 19
          [] r = 125 -> 20 [] r = 250 -> 21 [] r = 500 -> 22 [] r = 1000 -> 23]

(* apt_usbtrx_convert_baudrate_value, ...                                  *)
BaudrateValue ==
    [m \in {0} \cup 16..23 |->
        CASE m = 0 -> 0 [] m = 16 -> 33 [] m = 17 -> 50 [] m = 18 -> 83
          [] m = 19 -> 100 [] m = 20 -> 125 [] m = 21 -> 250 [] m = 22 -> 500
          [] m = 23 -> 1000]

(* ... of which the EP1-CH02A has its own copy                             *)
Ch02aBaudrateValue ==
    [m \in {0} \cup 16..23 |->
        CASE m = 0 -> 0 [] m = 16 -> 33 [] m = 17 -> 50 [] m = 18 -> 83
          [] m = 19 -> 100 [] m = 20 -> 125 [] m = 21 -> 250 [] m = 22 -> 500
          [] m = 23 -> 1000]

(* apt_usbtrx_msg_pack_set_mode: a bit for "not silent", and start = false *)
PackSetMode(d, rate, silent) ==
    [d EXCEPT !.rate = BaudrateMode[rate], !.normal = ~silent, !.start = FALSE,
              !.stopping = FALSE]

(* apt_usbtrx_msg_pack_set_trigger: bit 0x40 is set for logic 0, and 11    *)
(* bits of the id are sent                                                 *)
PackSetTrigger(t) == [enable |-> t.enable, bit |-> t.logic = 0, id |-> t.id % 2048]

(* ep1_ch02a_msg_pack_set_bit_timing: bytes, and two of them for brp       *)
PackSetBitTiming(t) == [seg |-> t.seg % 256, brp |-> t.brp % 65536]

(* ep1_ch02a_msg_parse_response_get_bit_timing                             *)
ParseBitTiming(d) == d.timing

(* apt_usbtrx_msg_parse_response_get_status: here the bit means logic 1    *)
ParseCanStatus(d) ==
    [rate |-> BaudrateValue[d.rate], silent |-> ~d.normal, start |-> d.start,
     trigger |-> [enable |-> d.trigger.enable, id |-> d.trigger.id,
                  logic |-> IF d.trigger.bit THEN 1 ELSE 0]]

(* ep1_ch02a_msg_parse_response_get_status                                 *)
Ch02aParseStatus(d) ==
    [rate |-> Ch02aBaudrateValue[d.rate], silent |-> ~d.normal, start |-> d.start]

(* apt_usbtrx_unique_can_dispatch_msg: the class of a summary, from the    *)
(* flags that apt_usbtrx_msg_parse_notify_recv_can_summary finds in the id *)
SummaryClass(flags) ==
    IF "ERR" \in flags THEN "err"
    ELSE IF "RTR" \in flags
         THEN IF "EFF" \in flags THEN "rtr_ext" ELSE "rtr_std"
         ELSE IF "EFF" \in flags THEN "dat_ext" ELSE "dat_std"

Classes == {"err", "rtr_ext", "rtr_std", "dat_ext", "dat_std"}

(* Messages of a millisecond at the bit rate, and never none.              *)
MaxToken(rate) ==
    LET n == (((rate * 1024) \div 8) \div 16) \div 1000 IN IF n > 0 THEN n ELSE 1

(* ep1_ch02a_is_support_bittiming_command                                  *)
SupportsBitTiming == variant = "EP1_CH02A"

-----------------------------------------------------------------------------
NotCallingCan == [pc |-> "idle", for |-> "none", rate |-> 0, silent |-> FALSE,
                  tries |-> 0, quiet |-> TRUE]

(* told: how often it told the channel to stop.  alone: nobody else changed *)
(* the device beside it.                                                   *)
NotEnded == [told |-> 0, alone |-> FALSE]

(* Just probed: apt_usbtrx_unique_can_init_data, the candev as created and *)
(* a device that may keep the mode of an earlier binding of the driver.    *)
CanInit ==
    /\ ExchangeInit
    /\ variant \in {"AP_CT2A", "EP1_CH02A_old", "EP1_CH02A"}
    /\ \E mode \in {0, BaudrateMode[DefaultRate]} :
           can = [rate |-> mode, normal |-> TRUE, start |-> FALSE,
                  stopping |-> FALSE,
                  timing |-> PackSetBitTiming(CHOOSE t \in Timings : TRUE),
                  trigger |-> [enable |-> FALSE, bit |-> TRUE, id |-> 0]]
    /\ max_token = 0
    /\ can_if = "NONE"
    /\ can_file = [p \in Procs |-> "closed"]
    /\ net = [pc |-> "down", rate |-> DefaultRate, silent |-> FALSE,
              timing |-> CHOOSE t \in Timings : TRUE]
    /\ can_call = [c \in Callers |-> NotCallingCan]
    /\ wire = [kind |-> "none", frame |-> {}, rate |-> 0, count |-> 0]
    /\ can_ring = {}
    /\ counts = [f \in Frames |-> 0]
    /\ total_num = [k \in Classes |-> 0]
    /\ asked = [rate |-> BaudrateValue[can.rate], silent |-> FALSE,
                timing |-> CHOOSE t \in Timings : TRUE,
                trigger |-> [enable |-> FALSE, logic |-> 0, id |-> 0]]
    /\ alone = FALSE
    /\ can_run = 0
    /\ ended = NotEnded
    /\ can_overlap = FALSE
    /\ received = {}

(* Caller c goes on with mine; the others have been disturbed if the        *)
(* device becomes another one.                                             *)
GoesOn(c, new, mine) ==
    /\ can' = new
    /\ can_call' = [d \in Callers |->
           IF d = c THEN mine
           ELSE IF can_call[d].pc = "idle" THEN NotCallingCan
           ELSE [can_call[d] EXCEPT !.quiet = @ /\ new = can]]

At(c, pc) == [can_call[c] EXCEPT !.pc = pc,
                                !.tries = IF pc = "status" THEN @ + 1 ELSE @]

(* An interface that fails to come up is down again; one that fails to go  *)
(* down stays as it is, although the network core takes it for down.       *)
CallFails(c, new) ==
    /\ GoesOn(c, new, NotCallingCan)
    /\ net' = CASE can_call[c].for = "open" -> [net EXCEPT !.pc = "down"]
                [] can_call[c].for = "close" -> [net EXCEPT !.pc = "stuck"]
                [] OTHER -> net

-----------------------------------------------------------------------------
(* Setting the mode                                                        *)

(* apt_usbtrx_unique_can_set_mode: the tokens of the tx thread first, ...  *)
BeginSetMode(c, rate, silent, for) ==
    /\ can_call' = [can_call EXCEPT ![c] =
           [NotCallingCan EXCEPT !.pc = "mode", !.for = for, !.rate = rate,
                                 !.silent = silent]]
    /\ max_token' = MaxToken(rate)
    /\ alone' = \A d \in Callers : can_call[d].pc # "mode"

(* Fault: the bit timing is left to firmware that has none.                *)
AfterModeNoTiming(c) ==
    IF can_call[c].for = "ioctl" THEN "idle"
    ELSE IF variant = "EP1_CH02A_old" THEN "timing"
    ELSE IF can_call[c].for = "open" THEN "start" ELSE "idle"

(* What follows: of ep1_ch02a_netdev_set_bittiming, the bit timing if the  *)
(* firmware has one; of netdev_start, the start.                           *)
AfterMode(c) ==
    IF can_call[c].for = "ioctl" THEN "idle"
    ELSE IF SupportsBitTiming THEN "timing"
    ELSE IF can_call[c].for = "open" THEN "start" ELSE "idle"

Continues(c, new, pc) ==
    /\ GoesOn(c, new, IF pc = "idle" THEN NotCallingCan ELSE At(c, pc))
    /\ net' = net

(* ... then apt_usbtrx_set_mode, which refuses an unknown bit rate         *)
SetMode(c, o) ==
    /\ can_call[c].pc = "mode"
    /\ LET rate == can_call[c].rate
           silent == can_call[c].silent
           known == rate \in DOMAIN BaudrateMode
           new == IF known THEN Held(o, PackSetMode(can, rate, silent), can) ELSE can
       IN  /\ IF known THEN Ends(o) ELSE o = "lost" /\ faults' = faults
           /\ IF o = "ack" THEN Continues(c, new, AfterMode(c)) ELSE CallFails(c, new)
           /\ asked' = IF known
                       THEN Held(o, [asked EXCEPT !.rate = rate, !.silent = silent], asked)
                       ELSE asked
           /\ can_run' = IF new = can THEN can_run ELSE 0
    /\ alone' = (alone /\ o = "ack")
    /\ UNCHANGED <<variant, max_token, canUsers, wire, can_ring, stats, ended, calls>>

(* ep1_ch02a_set_bit_timing, of the network interface ...                  *)
SetBitTiming(c, o) ==
    /\ can_call[c].pc = "timing" /\ Ends(o)
    /\ LET new == Held(o, [can EXCEPT !.timing = PackSetBitTiming(net.timing)], can)
       IN  IF o = "ack"
           THEN Continues(c, new, IF can_call[c].for = "open" THEN "start" ELSE "idle")
           ELSE CallFails(c, new)
    /\ asked' = Held(o, [asked EXCEPT !.timing = net.timing], asked)
    /\ UNCHANGED <<variant, max_token, canUsers, wire, can_ring, stats, alone, can_run,
                   ended, calls>>

-----------------------------------------------------------------------------
(* Starting and stopping                                                   *)

(* apt_usbtrx_unique_can_start_can: rx_data is cleared first, ...          *)
BeginStart(c) ==
    /\ can_call' = [can_call EXCEPT ![c] =
           [NotCallingCan EXCEPT !.pc = "start", !.for = "ioctl",
                                 !.quiet = wire.kind # "frame" /\ ~can.start]]
    /\ can_ring' = {}

(* ... then the channel is started (here with the clearing, when it is for *)
(* the network interface, which is up when that succeeds).                 *)
StartCan(c, o) ==
    /\ can_call[c].pc = "start" /\ Ends(o)
    /\ LET new == Held(o, [can EXCEPT !.start = TRUE, !.stopping = FALSE], can)
       IN  IF o = "ack"
           THEN /\ GoesOn(c, new, NotCallingCan)
                /\ net' = IF can_call[c].for = "open" THEN [net EXCEPT !.pc = "up"] ELSE net
           ELSE CallFails(c, new)
    /\ can_if' = IF o = "ack" /\ can_call[c].for = "open" THEN "NET" ELSE can_if
    /\ can_run' = IF o = "ack" /\ can_call[c].for = "ioctl" /\ can_call[c].quiet
                  THEN can.rate ELSE Held(o, 0, can_run)
    /\ can_ring' = IF can_call[c].for = "open" THEN {} ELSE can_ring
    /\ ended' = Held(o, NotEnded, ended)
    /\ UNCHANGED <<variant, max_token, can_file, can_overlap, wire, stats, asked,
                   alone, calls>>

BeginStop(c, for) ==
    can_call' = [can_call EXCEPT ![c] = [NotCallingCan EXCEPT !.pc = "stop", !.for = for]]

(* apt_usbtrx_unique_can_stop_can: the channel is told to stop, which it   *)
(* does at once or a little later, ...                                     *)
StopCan(c, o) ==
    /\ can_call[c].pc = "stop" /\ Ends(o)
    /\ \E at_once \in BOOLEAN :
           LET new == Held(o, [can EXCEPT !.start = @ /\ ~at_once,
                                          !.stopping = can.start /\ ~at_once], can)
           IN  IF o = "ack" THEN Continues(c, new, "status") ELSE CallFails(c, new)
    /\ UNCHANGED <<variant, max_token, canUsers, wire, can_ring, stats, asked, alone,
                   can_run, ended, calls>>

DeviceStops ==
    /\ can.stopping
    /\ can' = [can EXCEPT !.start = FALSE, !.stopping = FALSE]
    /\ can_call' = [c \in Callers |-> IF can_call[c].pc = "idle" THEN NotCallingCan
                                      ELSE [can_call[c] EXCEPT !.quiet = FALSE]]
    /\ UNCHANGED <<variant, max_token, canUsers, net, wire, can_ring, stats, asked, alone,
                   can_run, ended, calls, faults>>

(* ... and the status is read, three times at most.  What the caller goes  *)
(* on with when it is told that the channel is stopped, or has tried       *)
(* enough: the network interface is down, an ioctl returns.                *)
StopReturns(c) ==
    /\ GoesOn(c, can, NotCallingCan)
    /\ net' = IF can_call[c].for = "close" THEN [net EXCEPT !.pc = "down"] ELSE net
    /\ can_if' = IF can_call[c].for = "close" THEN "NONE" ELSE can_if
    /\ ended' = [told |-> can_call[c].tries, alone |-> can_call[c].quiet]

(* Fault: the status is taken for stopped.                                 *)
StopStatusUnread(c, o) ==
    /\ can_call[c].pc = "status" /\ Ends(o)
    /\ IF o # "ack" THEN CallFails(c, can) /\ UNCHANGED <<can_if, ended>>
       ELSE StopReturns(c)
    /\ UNCHANGED <<variant, max_token, can_file, can_overlap, wire, can_ring, stats,
                   asked, alone, can_run, calls>>

StopStatus(c, o) ==
    /\ can_call[c].pc = "status" /\ Ends(o)
    /\ IF o # "ack" THEN CallFails(c, can) /\ UNCHANGED <<can_if, ended>>
       ELSE IF can.start /\ can_call[c].tries < 3
       THEN Continues(c, can, "stop") /\ UNCHANGED <<can_if, ended>>
       ELSE StopReturns(c)
    /\ UNCHANGED <<variant, max_token, can_file, can_overlap, wire, can_ring, stats,
                   asked, alone, can_run, calls>>

-----------------------------------------------------------------------------
(* The device file: apt_usbtrx_unique_can_open checks ...                  *)

CanClaiming ==
    \/ \E p \in Procs : can_file[p] = "checked"
    \/ net.pc = "opening"

CanFileCheck(p) ==
    /\ can_file[p] = "closed" /\ can_if = "NONE" /\ NewCall
    /\ can_file' = [can_file EXCEPT ![p] = "checked"]
    /\ can_overlap' = (can_overlap \/ CanClaiming)
    /\ UNCHANGED <<variant, can, max_token, can_if, net, can_call, wire, can_ring, stats,
                   asked, alone, can_run, ended, faults>>

(* ... and then sets if_type.                                              *)
CanFileOpen(p) ==
    /\ can_file[p] = "checked"
    /\ can_file' = [can_file EXCEPT ![p] = "open"]
    /\ can_if' = "FILE"
    /\ UNCHANGED <<variant, can, max_token, can_overlap, net, can_call, wire, can_ring,
                   stats, asked, alone, can_run, ended, calls, faults>>

(* apt_usbtrx_unique_can_close (the channel is not stopped)                *)
CanFileClose(p) ==
    /\ can_file[p] = "open" /\ can_call[p].pc = "idle"
    /\ can_file' = [can_file EXCEPT ![p] = "closed"]
    /\ can_if' = "NONE"
    /\ UNCHANGED <<variant, can, max_token, can_overlap, net, can_call, wire, can_ring,
                   stats, asked, alone, can_run, ended, calls, faults>>

CanIoctl(p) == can_file[p] = "open" /\ can_call[p].pc = "idle" /\ NewCall

(* apt_usbtrx_unique_can_ioctl: SET_MODE, ...                              *)
IoctlSetMode(p, rate, silent) ==
    /\ CanIoctl(p) /\ BeginSetMode(p, rate, silent, "ioctl")
    /\ UNCHANGED <<variant, can, canUsers, net, wire, can_ring, stats, asked, can_run,
                   ended, faults>>

(* ... START_CAN, ...                                                      *)
IoctlStartCan(p) ==
    /\ CanIoctl(p) /\ BeginStart(p)
    /\ UNCHANGED <<variant, can, max_token, canUsers, net, wire, stats, asked, alone,
                   can_run, ended, faults>>

(* ... STOP_CAN, ...                                                       *)
IoctlStopCan(p) ==
    /\ CanIoctl(p) /\ BeginStop(p, "ioctl")
    /\ UNCHANGED <<variant, can, max_token, canUsers, net, wire, can_ring, stats, asked,
                   alone, can_run, ended, faults>>

(* Fault: SET_TRIGGER takes the low byte of the id only.                   *)
IoctlSetTriggerByte(p, t, o) ==
    /\ CanIoctl(p) /\ Ends(o) /\ variant = "AP_CT2A"
    /\ LET sent == PackSetTrigger(t)
       IN  GoesOn(p, Held(o, [can EXCEPT !.trigger = [sent EXCEPT !.id = @ % 256]], can),
                  NotCallingCan)
    /\ asked' = Held(o, [asked EXCEPT !.trigger = t], asked)
    /\ UNCHANGED <<variant, max_token, canUsers, net, wire, can_ring, stats, alone,
                   can_run, ended>>

(* ... SET_TRIGGER, which ep1_ch02a_ioctl refuses, ...                     *)
IoctlSetTrigger(p, t, o) ==
    /\ CanIoctl(p) /\ Ends(o) /\ variant = "AP_CT2A"
    /\ GoesOn(p, Held(o, [can EXCEPT !.trigger = PackSetTrigger(t)], can), NotCallingCan)
    /\ asked' = Held(o, [asked EXCEPT !.trigger = t], asked)
    /\ UNCHANGED <<variant, max_token, canUsers, net, wire, can_ring, stats, alone,
                   can_run, ended>>

(* ... RESET_CAN_SUMMARY: the device's counters, not those of the driver;  *)
IoctlResetCanSummary(p, o) ==
    /\ CanIoctl(p) /\ Ends(o)
    /\ counts' = Held(o, [f \in Frames |-> 0], counts)
    /\ UNCHANGED <<variant, can, max_token, canUsers, net, can_call, wire, can_ring,
                   total_num, received, asked, alone, can_run, ended>>

(* ep1_ch02a_ioctl: SET_BIT_TIMING, which old firmware does not know       *)
IoctlSetBitTiming(p, t, o) ==
    /\ CanIoctl(p) /\ Ends(o) /\ variant # "AP_CT2A"
    /\ variant = "EP1_CH02A_old" => o = "lost"
    /\ GoesOn(p, Held(o, [can EXCEPT !.timing = PackSetBitTiming(t)], can), NotCallingCan)
    /\ asked' = Held(o, [asked EXCEPT !.timing = t], asked)
    /\ UNCHANGED <<variant, max_token, canUsers, net, wire, can_ring, stats, alone,
                   can_run, ended>>

(* GET_STATUS: apt_usbtrx_get_status, or ep1_ch02a_get_status, which knows *)
(* no trigger; GET_BIT_TIMING: ep1_ch02a_get_bit_timing                    *)
CanGetStatus == ParseCanStatus(can)
Ch02aGetStatus == Ch02aParseStatus(can)
Ch02aGetBitTiming == ParseBitTiming(can)

-----------------------------------------------------------------------------
(* The network interface, called under rtnl_lock one at a time             *)

NetDown == can_call[Net].pc = "idle" /\ net.pc \in {"down", "stuck"}

(* can_changelink (external): settings, and do_set_bittiming at once -     *)
(* whoever uses the device                                                 *)
NetChangeLink(rate, silent, timing) ==
    /\ NetDown /\ NewCall
    /\ net' = [net EXCEPT !.rate = rate, !.silent = silent, !.timing = timing]
    /\ BeginSetMode(Net, rate, silent, "link")
    /\ UNCHANGED <<variant, can, canUsers, wire, can_ring, stats, asked, can_run,
                   ended, faults>>

(* apt_usbtrx_unique_can_netdev_open, up to the first command of           *)
(* apt_usbtrx_unique_can_netdev_start: both set the mode, through          *)
(* apt_usbtrx_unique_can_netdev_set_bittiming or its ep1_ch02a variant     *)
NetOpen ==
    /\ NetDown /\ can_if = "NONE" /\ NewCall
    /\ net' = [net EXCEPT !.pc = "opening"]
    /\ can_overlap' = (can_overlap \/ CanClaiming)
    /\ BeginSetMode(Net, net.rate, net.silent, "open")
    /\ UNCHANGED <<variant, can, can_if, can_file, wire, can_ring, stats, asked, can_run,
                   ended, faults>>

(* apt_usbtrx_unique_can_netdev_close                                      *)
NetClose ==
    /\ net.pc = "up" /\ can_call[Net].pc = "idle" /\ NewCall
    /\ BeginStop(Net, "close")
    /\ UNCHANGED <<variant, can, max_token, canUsers, net, wire, can_ring, stats, asked,
                   alone, can_run, ended, faults>>

-----------------------------------------------------------------------------
(* What the device sends (external)                                        *)

Silent == wire.kind = "none"

(* A frame of the bus, which is counted and passed on ...                  *)
DeviceFrame(f) ==
    /\ can.start /\ Silent /\ counts[f] < MaxCount
    /\ wire' = [kind |-> "frame", frame |-> f, rate |-> can.rate, count |-> 0]
    /\ counts' = [counts EXCEPT ![f] = @ + 1]
    /\ received' = received \cup {f}
    /\ UNCHANGED <<variant, can, max_token, canUsers, net, can_call, can_ring, total_num,
                   asked, alone, can_run, ended, calls, faults>>

(* ... and from time to time the number of frames of a kind.               *)
DeviceSummary(f) ==
    /\ can.start /\ Silent
    /\ wire' = [kind |-> "summary", frame |-> f, rate |-> 0, count |-> counts[f]]
    /\ UNCHANGED <<variant, can, max_token, canUsers, net, can_call, can_ring, stats,
                   asked, alone, can_run, ended, calls, faults>>

(* apt_usbtrx_update_stats: a count of zero changes nothing.               *)
UpdateStats(k, count) ==
    total_num' = [total_num EXCEPT ![k] = IF count = 0 THEN @ ELSE count]

(* apt_usbtrx_unique_can_dispatch_msg                                      *)
DispatchCan ==
    /\ ~Silent
    /\ wire' = [kind |-> "none", frame |-> {}, rate |-> 0, count |-> 0]
    /\ can_ring' = IF wire.kind = "frame" /\ can_if = "FILE"
                   THEN can_ring \cup {wire.rate} ELSE can_ring
    /\ IF wire.kind = "summary"
       THEN UpdateStats(SummaryClass(wire.frame), wire.count)
       ELSE total_num' = total_num
    /\ UNCHANGED <<variant, can, max_token, canUsers, net, can_call, counts, received,
                   asked, alone, can_run, ended, calls, faults>>

-----------------------------------------------------------------------------
CanFile(p) ==
    \/ CanFileCheck(p)
    \/ CanFileOpen(p)
    \/ CanFileClose(p)
    \/ \E rate \in Rates, silent \in BOOLEAN : IoctlSetMode(p, rate, silent)
    \/ IoctlStartCan(p)
    \/ IoctlStopCan(p)
    \/ \E t \in Triggers, o \in Outcomes : IoctlSetTrigger(p, t, o)
    \/ \E o \in Outcomes : IoctlResetCanSummary(p, o)
    \/ \E t \in Timings, o \in Outcomes : IoctlSetBitTiming(p, t, o)

CanCall(c, o) ==
    \/ SetMode(c, o)
    \/ SetBitTiming(c, o)
    \/ StartCan(c, o)
    \/ StopCan(c, o)
    \/ StopStatus(c, o)

NetCalls ==
    \/ \E rate \in Rates, silent \in BOOLEAN, t \in Timings :
           NetChangeLink(rate, silent, t)
    \/ NetOpen
    \/ NetClose

CanDevice ==
    \/ DeviceStops
    \/ \E f \in Frames : DeviceFrame(f)
    \/ \E f \in Frames : DeviceSummary(f)
    \/ DispatchCan

CanNext ==
    \/ \E p \in Procs : CanFile(p)
    \/ \E c \in Callers, o \in Outcomes : CanCall(c, o)
    \/ NetCalls
    \/ CanDevice

CanSpec == CanInit /\ [][CanNext]_canVars

-----------------------------------------------------------------------------
(* Properties                                                              *)

Modes == DOMAIN BaudrateValue

CanTypeOK ==
    /\ ExchangeTypeOK
    /\ variant \in {"AP_CT2A", "EP1_CH02A_old", "EP1_CH02A"}
    /\ can \in [rate : Modes, normal : BOOLEAN, start : BOOLEAN, stopping : BOOLEAN,
                timing : [seg : 0..255, brp : 0..65535],
                trigger : [enable : BOOLEAN, bit : BOOLEAN, id : 0..2047]]
    /\ max_token \in Nat
    /\ can_if \in {"NONE", "FILE", "NET"}
    /\ can_file \in [Procs -> {"closed", "checked", "open"}]
    /\ net \in [pc : {"down", "opening", "up", "stuck"}, silent : BOOLEAN,
                rate : Rates \cup {DefaultRate}, timing : Timings]
    /\ can_call \in [Callers ->
           [pc : {"idle", "mode", "timing", "start", "stop", "status"},
            for : {"none", "ioctl", "link", "open", "close"},
            rate : Rates \cup {0, DefaultRate}, silent : BOOLEAN,
            tries : 0..3, quiet : BOOLEAN]]
    /\ wire \in [kind : {"none", "frame", "summary"}, frame : Frames \cup {{}},
                 rate : Modes, count : 0..MaxCount]
    /\ can_ring \subseteq Modes /\ can_run \in Modes
    /\ counts \in [Frames -> 0..MaxCount] /\ total_num \in [Classes -> 0..MaxCount]
    /\ asked \in [rate : DOMAIN BaudrateMode \cup {0}, silent : BOOLEAN,
                  timing : Timings, trigger : [enable : BOOLEAN, logic : {0, 1}, id : Nat]]
    /\ alone \in BOOLEAN /\ ended \in [told : 0..3, alone : BOOLEAN]
    /\ can_overlap \in BOOLEAN
    /\ received \subseteq Frames

(* Whatever is sent by whom and in which order, each product's status      *)
(* calls show what was set last, in the units it was set in: the packing   *)
(* and the parsing functions are inverse, and no command disturbs what     *)
(* another one set.  Three exceptions, which are the code's: the logic of  *)
(* a trigger is read back the other way round, its id modulo 2048, and a   *)
(* bit timing as the bytes it is sent in, which SET_BIT_TIMING does not    *)
(* look at first.                                                          *)
StatusShowsSettings ==
    /\ variant = "AP_CT2A" =>
           LET s == CanGetStatus
           IN  /\ s.rate = asked.rate /\ s.silent = asked.silent
               /\ s.trigger = [enable |-> asked.trigger.enable,
                               logic |-> 1 - asked.trigger.logic,
                               id |-> asked.trigger.id % 2048]
    /\ variant # "AP_CT2A" =>
           /\ Ch02aGetStatus.rate = asked.rate /\ Ch02aGetStatus.silent = asked.silent
           /\ Ch02aGetBitTiming = [seg |-> asked.timing.seg % 256,
                                   brp |-> asked.timing.brp % 65536]

(* The tx thread sends at most max_token messages a millisecond so that    *)
(* the device can pass them on at its bit rate.  The two agree after a     *)
(* set mode that succeeds and has no other beside it.  (max_token is       *)
(* stored first: after a set mode that fails they differ.)                 *)
TokensOfRate ==
    alone /\ (\A c \in Callers : can_call[c].pc # "mode")
        => max_token = MaxToken(asked.rate)

(* A network interface that is up runs with its link settings, on each     *)
(* product, whatever was done through the device file before, and whatever *)
(* failed - as long as file and network did not check if_type together.    *)
NetConfigured ==
    net.pc = "up" /\ can_call[Net].pc = "idle" /\ ~can_overlap =>
        /\ can.start /\ asked.rate = net.rate /\ asked.silent = net.silent
        /\ SupportsBitTiming => asked.timing = net.timing

(* if_type names a user that is there, or an interface that failed to go   *)
(* down, after which the device is in use until it is unplugged; it names  *)
(* the only user as long as no two of them check it together.              *)
CanFilesInUse == {p \in Procs : can_file[p] = "open"}

CanInterfaceHasUser ==
    /\ can_if = "FILE" => CanFilesInUse # {}
    /\ can_if = "NET" => net.pc \in {"up", "stuck"}
    /\ ~can_overlap => /\ CanFilesInUse # {} => can_if = "FILE"
                       /\ net.pc \in {"up", "stuck"} => can_if = "NET"
                       /\ Cardinality(CanFilesInUse) <= 1

(* A stop_can that succeeds leaves the channel stopped, although the       *)
(* device stops late and others may start it at any time.  If it is still  *)
(* started and nobody has told it to start since, it has been told three   *)
(* times to stop; and unless another caller changed the device meanwhile,  *)
(* it is about to obey.                                                    *)
StoppedOrToldThrice ==
    ended.told > 0 /\ can.start =>
        /\ ended.told = 3
        /\ ended.alone => can.stopping

(* After START_CAN of a stopped channel that nobody else controls, a       *)
(* reader of the file gets no frame of an earlier run, with another rate.  *)
FramesMatchRun == can_run # 0 => can_ring \subseteq {can_run}

(* The attributes datcnt, ext_datcnt, rtrcnt, ext_rtrcnt and errcnt count  *)
(* frames of their own kind only: remote and extended frames as the flags  *)
(* of linux/can.h tell them, and errors apart from both.                   *)
OfClass(f, k) ==
    IF k = "err" THEN "ERR" \in f
    ELSE /\ "ERR" \notin f
         /\ "RTR" \in f <=> k \in {"rtr_std", "rtr_ext"}
         /\ "EFF" \in f <=> k \in {"rtr_ext", "dat_ext"}

SummaryOfItsClass ==
    \A k \in Classes : total_num[k] > 0 => \E f \in received : OfClass(f, k)
=============================================================================
