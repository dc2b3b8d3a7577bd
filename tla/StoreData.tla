------------------------------ MODULE StoreData ------------------------------
(***************************************************************************)
(* Reading stored CAN frames back from an EP1-CF02A: the tool              *)
(* ep1_cf02a_get_store_data_list lists the stores of the device and reads  *)
(* each one, the ioctls of ep1_cf02a_fops.c carry the transfer, and the    *)
(* dispatch of received messages fills the ring rx_store_data.             *)
(*                                                                         *)
(* The device sends at most one page of frames, can_frame_count_per_request*)
(* many, and waits for a request; the driver sends the request when it     *)
(* finds the ring empty.  Messages, answers to commands included, reach    *)
(* the host in the order in which the device sent them (wire).             *)
(*                                                                         *)
(* Besides the reader there is one process that deletes stores.  A second  *)
(* reader is not modelled: two READ ioctls share the ring, the received    *)
(* size and the request.                                                   *)
(***************************************************************************)
EXTENDS Integers, FiniteSets, Sequences, SequencesExt

CONSTANTS
    Ids,                \* identifiers of stores
    Frames,             \* number of frames in each
    FrameBytes,         \* sizeof(ep1_cf02a_payload_notify_recv_can_frame_t)
    RingBytes,          \* EP1_CF02A_STORE_DATA_BUFFER_SIZE
    ReadFrames,         \* BUFFER_FRAME_COUNT: frames per READ_STORE_DATA
    MaxEvents           \* bound: failed commands, reads that time out, kills
                        \*        and restarts of the tool, stores deleted

ASSUME IdsAssumption == IsFiniteSet(Ids) /\ Ids # {}
ASSUME FramesAssumption == Frames \in [Ids -> Nat]
ASSUME SizesAssumption ==
    /\ FrameBytes \in Nat \ {0} /\ ReadFrames \in Nat \ {0}
    /\ RingBytes \in Nat /\ RingBytes > FrameBytes
ASSUME EventsAssumption == MaxEvents \in Nat

VARIABLES
    \* the device
    stores,             \* its stores, in the order of their index
    sending,            \* the transfer: store, next frame, rest of the page
    \* between device and host
    wire,               \* messages not yet dispatched
    \* the driver
    ring,               \* rx_store_data: frames
    received,           \* received_store_data_size, in frames
    complete,           \* notify_store_data_recv_can_frame_complete
    answer,             \* the answer to the command in progress
    attached,           \* FALSE: unplugged, onclosing is set
    \* the tool
    pc,                 \* where it is
    ids, index,         \* store_data_id_list, and the one being read
    buffer,             \* frames copied by the READ in progress
    got,                \* frames read of the current store (total_rsize)
    failed,             \* `error' of read_store_data
    stop_requested,     \* SIGINT or SIGTERM has arrived
    \* history and bounds
    dirty,              \* a transfer was left running by a kill or a failed command
    dropped,            \* otherwise, a frame found the ring full
    before,             \* the stores when the tool asked for their count
    events              \* number of bounded events

device == <<stores, sending>>
driver == <<ring, received, complete>>
tool == <<ids, index, buffer, got, failed, stop_requested>>
history == <<dirty, dropped, before>>
vars == <<device, wire, driver, answer, attached, pc, tool, history, events>>

(* can_frame_count_per_request: what the ring can hold, which keeps one    *)
(* byte free.                                                              *)
Page == (RingBytes - 1) \div FrameBytes

(* ringbuffer_write refuses what does not fit.                             *)
Fits(q) == (Len(q) + 1) * FrameBytes <= RingBytes - 1

Off == [id |-> CHOOSE i \in Ids : TRUE, next |-> 1, page |-> 0, on |-> FALSE,
        ended |-> TRUE]

Current == ids[index]

Init ==
    /\ stores \in SetToSeqs(Ids)
    /\ sending = Off
    /\ wire = << >>
    /\ ring = << >> /\ received = 0 /\ complete = FALSE
    /\ answer = "none"
    /\ attached = TRUE
    /\ pc = "count"
    /\ ids = << >> /\ index = 1 /\ buffer = << >> /\ got = << >>
    /\ failed = FALSE /\ stop_requested = FALSE
    /\ dirty = FALSE /\ dropped = FALSE /\ before = << >>
    /\ events = 0

-----------------------------------------------------------------------------
(* The device.                                                             *)

DeviceSendsFrame ==
    /\ attached
    /\ sending.on /\ sending.page > 0
    /\ sending.next <= Frames[sending.id]
    /\ wire' = Append(wire, [kind |-> "frame", frame |-> <<sending.id, sending.next>>])
    /\ sending' = [sending EXCEPT !.next = @ + 1, !.page = @ - 1]
    /\ UNCHANGED <<stores, driver, answer, attached, pc, tool, history, events>>

(* After the last frame; the device may then consider itself stopped.      *)
DeviceCompletes ==
    /\ attached
    /\ sending.on /\ ~sending.ended
    /\ sending.next > Frames[sending.id]
    /\ wire' = Append(wire, [kind |-> "complete"])
    /\ \E on \in BOOLEAN : sending' = [sending EXCEPT !.ended = TRUE, !.on = on]
    /\ UNCHANGED <<stores, driver, answer, attached, pc, tool, history, events>>

(* ep1_cf02a_dispatch_msg, in the URB callback.                            *)
Store(f) ==
    /\ ring' = IF Fits(ring) THEN Append(ring, f) ELSE ring
    /\ received' = IF Fits(ring) THEN received + 1 ELSE received
    /\ dropped' = (dropped \/ ~(Fits(ring) \/ dirty))
    /\ UNCHANGED <<complete, answer>>

(* Fault: the end of the transfer is not noted.                            *)
DispatchForgetsComplete ==
    /\ attached
    /\ wire # << >>
    /\ wire' = Tail(wire)
    /\ CASE Head(wire).kind = "complete" ->
              UNCHANGED <<ring, received, complete, answer, dropped>>
         [] Head(wire).kind \in {"ok", "refused"} ->
              answer' = Head(wire).kind /\ UNCHANGED <<ring, received, complete, dropped>>
         [] OTHER -> Store(Head(wire).frame)
    /\ UNCHANGED <<device, attached, pc, tool, dirty, before, events>>

Dispatch ==
    /\ attached
    /\ wire # << >>
    /\ wire' = Tail(wire)
    /\ CASE Head(wire).kind = "complete" ->
              complete' = TRUE /\ UNCHANGED <<ring, received, answer, dropped>>
         [] Head(wire).kind \in {"ok", "refused"} ->
              answer' = Head(wire).kind /\ UNCHANGED <<ring, received, complete, dropped>>
         [] OTHER -> Store(Head(wire).frame)
    /\ UNCHANGED <<device, attached, pc, tool, dirty, before, events>>

(* Another process deletes a store, and ends (the other tool).             *)
Delete ==
    /\ attached
    /\ events < MaxEvents
    /\ \E i \in DOMAIN stores :
          /\ ~(sending.on /\ sending.id = stores[i])
          /\ stores' = RemoveAt(stores, i)
    /\ events' = events + 1
    /\ UNCHANGED <<sending, wire, driver, answer, attached, pc, tool, history>>

-----------------------------------------------------------------------------
(* The list of the stores: the count, then one command per index.          *)

GetCount ==
    /\ pc = "count"
    /\ attached
    /\ before' = stores
    /\ ids' = << >> /\ index' = 1
    /\ pc' = IF stores = << >> THEN "exit" ELSE "list"
    /\ UNCHANGED <<device, wire, driver, answer, attached, buffer, got, failed,
                   stop_requested, dirty, dropped, events>>

(* Fault: an index behind the last store is skipped.                       *)
GetIdSkips ==
    /\ pc = "list"
    /\ attached
    /\ index <= Len(before)
    /\ ids' = IF index <= Len(stores) THEN Append(ids, stores[index]) ELSE ids
    /\ index' = IF index = Len(before) THEN 1 ELSE index + 1
    /\ pc' = IF index < Len(before) THEN "list"
             ELSE IF ids' = << >> THEN "exit" ELSE "meta"
    /\ UNCHANGED <<device, wire, driver, answer, attached, buffer, got, failed,
                   stop_requested, history, events>>

(* The command for an index that does not exist any more fails, and the    *)
(* whole list with it; a signal that is still pending ends the list too.   *)
GetId ==
    /\ pc = "list"
    /\ attached
    /\ \/ /\ index > Len(stores) \/ stop_requested
          /\ pc' = "exit"
          /\ UNCHANGED <<ids, index>>
       \/ /\ index <= Len(stores)
          /\ ids' = Append(ids, stores[index])
          /\ index' = IF index = Len(before) THEN 1 ELSE index + 1
          /\ pc' = IF index = Len(before) THEN "meta" ELSE "list"
    /\ UNCHANGED <<device, wire, driver, answer, attached, buffer, got, failed,
                   stop_requested, history, events>>

(* can_frame_count of the store; a store without frames is passed over.    *)
GetMeta ==
    /\ pc = "meta"
    /\ attached
    /\ IF ~Contains(stores, Current) THEN pc' = "exit"
       ELSE pc' = IF Frames[Current] = 0 THEN "next" ELSE "clear"
    /\ got' = << >> /\ buffer' = << >>
    /\ failed' = FALSE
    /\ UNCHANGED <<device, wire, driver, answer, attached, ids, index,
                   stop_requested, history, events>>

NextStore ==
    /\ pc = "next"
    /\ index' = IF index = Len(ids) THEN index ELSE index + 1
    /\ pc' = IF stop_requested \/ index = Len(ids) THEN "exit" ELSE "meta"
    /\ got' = << >> /\ failed' = FALSE
    /\ UNCHANGED <<device, wire, driver, answer, attached, ids, buffer,
                   stop_requested, history, events>>

-----------------------------------------------------------------------------
(* Commands of the transfer.  The request takes effect in the device and   *)
(* the answer is queued behind what it has sent; the caller waits for it.  *)

Command(from, to, transfer, reply) ==
    /\ pc = from
    /\ attached
    /\ answer' = "none"
    /\ sending' = transfer
    /\ wire' = Append(wire, [kind |-> reply])
    /\ pc' = to
    /\ UNCHANGED <<stores, driver, attached, tool, history, events>>

Answered(at, reply) == pc = at /\ answer = reply

(* Commands may fail without an effect, or after it (the answer is late).  *)
CommandFails ==
    /\ events < MaxEvents \/ ~attached
    /\ events' = IF attached THEN events + 1 ELSE events
    /\ \/ pc \in {"start", "starting"} /\ pc' = "next" /\ dirty' = TRUE
          /\ UNCHANGED failed
       \/ pc \in {"request", "requesting", "check"} /\ pc' = "stop"
          /\ failed' = TRUE /\ dirty' = (dirty \/ pc # "check")
       \/ pc \in {"stop", "stopping", "verify"} /\ pc' = "next"
          /\ dirty' = (dirty \/ pc # "verify") /\ UNCHANGED failed
       \/ pc \in {"count", "list", "meta"} /\ pc' = "exit"
          /\ UNCHANGED <<dirty, failed>>
    /\ UNCHANGED <<device, wire, driver, answer, attached, ids, index, buffer,
                   got, stop_requested, dropped, before>>

(* Fault: what an earlier transfer left in the ring stays there.           *)
ClearNothing ==
    /\ pc = "clear"
    /\ pc' = "reset"
    /\ UNCHANGED <<device, wire, driver, answer, attached, tool, history, events>>

(* ep1_cf02a_ioctl_set_store_data_rx_control, start: the ring is cleared   *)
(* and the counters are reset before the command is sent.                  *)
Clear ==
    /\ pc = "clear"
    /\ ring' = << >>
    /\ pc' = "reset"
    /\ UNCHANGED <<device, wire, received, complete, answer, attached, tool,
                   history, events>>

(* Nothing of an earlier transfer can reach the next one.                  *)
Quiet == wire = << >> /\ ring = << >> /\ ~sending.on

Reset ==
    /\ pc = "reset"
    /\ received' = 0
    /\ complete' = FALSE
    /\ pc' = "start"
    /\ dirty' = (dirty /\ ~Quiet)
    /\ UNCHANGED <<device, wire, ring, answer, attached, tool, dropped, before,
                   events>>

Start ==
    /\ pc = "start"
    /\ Command("start", "starting",
          [id |-> Current, next |-> 1, page |-> Page, on |-> TRUE, ended |-> FALSE],
          "ok")

Started ==
    /\ Answered("starting", "ok")
    /\ pc' = "loop"
    /\ UNCHANGED <<device, wire, driver, answer, attached, tool, history, events>>

(* The loop of read_store_data.                                            *)
Loop ==
    /\ pc = "loop"
    /\ pc' = IF Len(got) >= Frames[Current] \/ stop_requested THEN "stop" ELSE "wait"
    /\ UNCHANGED <<device, wire, driver, answer, attached, tool, history, events>>

-----------------------------------------------------------------------------
(* ep1_cf02a_ioctl_read_store_data                                         *)

(* ep1_cf02a_rx_store_data_is_read_enable                                  *)
ReadEnable == received >= Page \/ complete

ReadCopy ==
    /\ pc = "wait"
    /\ attached
    /\ ReadEnable
    /\ LET n == IF Len(ring) < ReadFrames THEN Len(ring) ELSE ReadFrames IN
          /\ buffer' = SubSeq(ring, 1, n)
          /\ ring' = SubSeq(ring, n + 1, Len(ring))
    /\ pc' = "copied"
    /\ UNCHANGED <<device, wire, received, complete, answer, attached, ids,
                   index, got, failed, stop_requested, history, events>>

(* The wait ends after a second: READ returns 0 and the count is 0.        *)
ReadTimeout ==
    /\ pc = "wait"
    /\ attached
    /\ ~ReadEnable
    /\ events < MaxEvents
    /\ events' = events + 1
    /\ pc' = "check"
    /\ UNCHANGED <<device, wire, driver, answer, attached, tool, history>>

(* The device is closing, or a signal interrupts the wait.                 *)
ReadFails ==
    /\ pc = "wait"
    /\ ~attached \/ stop_requested
    /\ failed' = TRUE
    /\ pc' = "stop"
    /\ UNCHANGED <<device, wire, driver, answer, attached, ids, index, buffer,
                   got, stop_requested, history, events>>

(* A page that has been read to the end: request the next one.             *)
PageRead == ~complete /\ ring = << >>

(* READ returns what it has copied.                                        *)
Returns ==
    /\ got' = got \o buffer
    /\ buffer' = << >>
    /\ pc' = IF buffer = << >> THEN "check" ELSE "loop"

ReadDone ==
    /\ pc = "copied"
    /\ ~PageRead
    /\ Returns
    /\ UNCHANGED <<device, wire, driver, answer, attached, ids, index, failed,
                   stop_requested, history, events>>

(* Fault: the received size is not reset.                                  *)
PageResetForgotten ==
    /\ pc = "copied"
    /\ PageRead
    /\ pc' = "request"
    /\ UNCHANGED <<device, wire, driver, answer, attached, tool, history, events>>

PageReset ==
    /\ pc = "copied"
    /\ PageRead
    /\ received' = 0
    /\ pc' = "request"
    /\ UNCHANGED <<device, wire, ring, complete, answer, attached, tool,
                   history, events>>

(* RequestNotifyRecvCanFrame; a device that has sent everything may refuse. *)
Request ==
    \/ Command("request", "requesting", [sending EXCEPT !.page = Page], "ok")
    \/ /\ sending.next > Frames[sending.id]
       /\ Command("request", "requesting", sending, "refused")

Requested ==
    /\ Answered("requesting", "ok")
    /\ Returns
    /\ UNCHANGED <<device, wire, driver, answer, attached, ids, index, failed,
                   stop_requested, history, events>>

(* The READ fails although it has copied frames: they are not counted.     *)
RequestRefused ==
    /\ Answered("requesting", "refused")
    /\ failed' = TRUE
    /\ pc' = "stop"
    /\ UNCHANGED <<device, wire, driver, answer, attached, ids, index, buffer,
                   got, stop_requested, history, events>>

(* A READ without data: give up if the device has stopped.                 *)
Check ==
    /\ pc = "check"
    /\ attached
    /\ failed' = ~sending.on
    /\ pc' = IF sending.on THEN "loop" ELSE "stop"
    /\ UNCHANGED <<device, wire, driver, answer, attached, ids, index, buffer,
                   got, stop_requested, history, events>>

-----------------------------------------------------------------------------
(* The end of read_store_data: stop the transfer, and check that it is.    *)

Stop == Command("stop", "stopping", [sending EXCEPT !.on = FALSE, !.page = 0], "ok")

Stopped ==
    /\ Answered("stopping", "ok")
    /\ pc' = "verify"
    /\ UNCHANGED <<device, wire, driver, answer, attached, tool, history, events>>

(* The result of this store is stored, and reported.                       *)
Verify ==
    /\ pc = "verify"
    /\ attached
    /\ pc' = "next"
    /\ UNCHANGED <<device, wire, driver, answer, attached, tool, history, events>>

Signal ==
    /\ ~stop_requested /\ pc \notin {"exit", "count"}
    /\ stop_requested' = TRUE
    /\ UNCHANGED <<device, wire, driver, answer, attached, pc, ids, index,
                   buffer, got, failed, history, events>>

(* A transfer has been requested, and its end has not been seen.           *)
Transfer == {"starting", "loop", "wait", "copied", "request", "requesting",
             "check", "stop", "stopping"}

(* The tool is killed, and started again.  It sends no stop.               *)
Kill ==
    /\ events < MaxEvents
    /\ pc # "exit"
    /\ events' = events + 1
    /\ pc' = "count"
    /\ dirty' = (dirty \/ pc \in Transfer)
    /\ got' = << >> /\ buffer' = << >> /\ failed' = FALSE
    /\ stop_requested' = FALSE
    /\ UNCHANGED <<device, wire, driver, answer, attached, ids, index, dropped,
                   before>>

Unplug ==
    /\ attached
    /\ attached' = FALSE
    /\ UNCHANGED <<device, wire, driver, answer, pc, tool, history, events>>

-----------------------------------------------------------------------------
Tool ==
    \/ GetCount \/ GetId \/ GetMeta \/ NextStore
    \/ Clear \/ Reset \/ Start \/ Started
    \/ Loop \/ ReadCopy \/ ReadFails \/ ReadDone
    \/ PageReset \/ Request \/ Requested \/ RequestRefused
    \/ Check \/ Stop \/ Stopped \/ Verify

Next ==
    \/ Tool
    \/ ReadTimeout
    \/ CommandFails
    \/ DeviceSendsFrame \/ DeviceCompletes
    \/ Dispatch
    \/ Delete
    \/ Signal \/ Kill \/ Unplug

Spec == Init /\ [][Next]_vars

(* The tool runs; the device sends what it owes; received data are         *)
(* dispatched; a command to a device that is gone fails.                   *)
Fairness ==
    /\ WF_vars(Tool)
    /\ WF_vars(DeviceSendsFrame \/ DeviceCompletes)
    /\ WF_vars(Dispatch)
    /\ WF_vars(~attached /\ CommandFails)

FairSpec == Spec /\ Fairness

-----------------------------------------------------------------------------
(* Properties                                                              *)

FrameSet == Ids \X Nat
Sending == [id : Ids, next : Nat, page : 0..Page, on : BOOLEAN, ended : BOOLEAN]
Message == [kind : {"frame"}, frame : FrameSet]
               \cup [kind : {"complete", "ok", "refused"}]

TypeOK ==
    /\ stores \in Seq(Ids) /\ before \in Seq(Ids)
    /\ sending \in Sending
    /\ wire \in Seq(Message)
    /\ ring \in Seq(FrameSet) /\ Len(ring) <= Page
    /\ received \in Nat /\ complete \in BOOLEAN
    /\ answer \in {"none", "ok", "refused"} /\ attached \in BOOLEAN
    /\ ids \in Seq(Ids) /\ index \in 1..(Len(ids) + 1)
    /\ buffer \in Seq(FrameSet) /\ got \in Seq(FrameSet)
    /\ failed \in BOOLEAN /\ stop_requested \in BOOLEAN
    /\ dirty \in BOOLEAN /\ dropped \in BOOLEAN
    /\ pc \in Transfer \cup {"count", "list", "meta", "next", "clear", "reset",
                              "start", "verify", "exit"}
    /\ events \in 0..MaxEvents

(* What the tool has read of a store is the store's frames from the first  *)
(* one on, in order, without a gap, a repetition or a frame of another     *)
(* store, across pages, requests, timeouts and the stores before it, as    *)
(* long as no transfer was left running behind the tool's back.  And       *)
(* read_store_data reports success only when it has read at least as many  *)
(* frames as the store has, which then are the store's, unless the user    *)
(* has interrupted it.                                                     *)
Expected(n) == [k \in 1..n |-> <<Current, k>>]
ReadsTheStore ==
    /\ ~dirty /\ pc \in {"loop", "wait", "copied", "request", "check", "stop", "verify"} =>
           got \o buffer = Expected(Len(got) + Len(buffer))
    /\ pc = "verify" /\ ~failed /\ ~stop_requested =>
           /\ Len(got) >= Frames[Current]
           /\ ~dirty => got = Expected(Frames[Current])

(* The requests count: frames of the page that are to come, on the wire    *)
(* and received are never more than a page, so that the wait for a whole   *)
(* page ends with exactly this page, and none finds the ring full.         *)
FramesOn(w) == Cardinality({j \in 1..Len(w) : w[j].kind = "frame"})
OnePageAtATime ==
    /\ ~dropped
    /\ ~dirty /\ pc \in {"loop", "wait", "copied", "check"} =>
           received + FramesOn(wire) + sending.page <= Page

(* READ waits for nothing that is not to come: as long as it is not        *)
(* enabled, frames or the end of the transfer are on the wire, or the      *)
(* device owes a frame of the requested page, or the end.                  *)
DeviceOwes ==
    /\ sending.on
    /\ IF sending.next > Frames[sending.id] THEN ~sending.ended ELSE sending.page > 0

WaitIsServed ==
    ~dirty /\ pc = "wait" /\ ~ReadEnable => wire # << >> \/ DeviceOwes

(* A list that is returned at all is the list at the time of the count,    *)
(* although it is fetched index by index while another process deletes.    *)
ListIsFaithful == pc \in {"meta", "clear"} => ids = before

(* The tool ends whatever the device, the wire and the signals do: no wait *)
(* for a page that was not requested, no loop on a transfer that is over.  *)
ToolEnds == []<>(pc = "exit" \/ dirty)
=============================================================================
