------------------------------- MODULE TxPath -------------------------------
(***************************************************************************)
(* The transmit path: write() or the network stack appends a message to    *)
(* the ring tx_data (apt_usbtrx_write_tx_rb), the tx thread takes messages *)
(* from it and submits one USB request block (URB) for each                *)
(* (apt_usbtrx_tx_thread_func), at most MAX_TX_URBS of them at a time: the *)
(* semaphore tx_usb_transfer_sem counts the free slots.  Stopping the CAN  *)
(* interface (ep1_cf02a_stop_can_interface) asks the tx thread to empty    *)
(* the ring and then tells the device to stop.  Unplugging the device ends *)
(* in apt_usbtrx_term, which stops the thread.                             *)
(*                                                                         *)
(* The ring is the one of RingBuffer, counted in messages and without      *)
(* wrap-around.  A write is all or nothing there, so the tx thread finds a *)
(* complete message behind every header and its two rawreads are one step, *)
(* ThreadTake, as long as every write starts where the last one ended.     *)
(* The clear does not wait for a write in progress, which holds a snapshot *)
(* of the pointer: if it publishes a pointer from before the clear, what   *)
(* the pointers then delimit begins anywhere in an old message, and the    *)
(* ring is torn.  What the thread reads from a torn ring is whatever the   *)
(* bytes happen to say (BrokenTake, BrokenSkip, BrokenHeader); it may find *)
(* a header whose body is not there, and then it reads the empty ring in a *)
(* loop (BodyRead), with its slot, until somebody writes.                  *)
(*                                                                         *)
(* QuietStop is TRUE for the network interface (the network core waits for *)
(* a transmit in progress before it closes the device, and starts none     *)
(* until it is open again) and FALSE for the character device, where       *)
(* write() and the stop ioctl exclude each other in no way.                *)
(***************************************************************************)
EXTENDS Integers, Sequences

CONSTANTS
    MaxUrbs,            \* MAX_TX_URBS
    Capacity,           \* messages that fit in tx_data
    MaxToken,           \* tx_transfer_max_token: messages per period
    QuietStop,          \* no write is in progress while the interface stops
    MayUnplug,          \* the device may be unplugged
    MaxMsgs,            \* bound: messages written
    MaxStops,           \* bound: times the interface is stopped
    MaxReports          \* bound: reports of a full device buffer

ASSUME SlotsAssumption == MaxUrbs \in Nat \ {0}
ASSUME CapacityAssumption == Capacity \in Nat \ {0}
ASSUME TokenAssumption == MaxToken \in Nat \ {0}
ASSUME ModesAssumption == QuietStop \in BOOLEAN /\ MayUnplug \in BOOLEAN
ASSUME BoundsAssumption ==
    MaxMsgs \in Nat /\ MaxStops \in Nat /\ MaxReports \in Nat

VARIABLES
    \* the ring tx_data
    slot,               \* the message in each slot, 0 for none
    rd, wr,             \* read and write pointer, in messages
    writer,             \* apt_usbtrx_write_tx_rb in progress
    accepted,           \* messages are numbered 1, 2, ...; the last written
    torn,               \* rd may be in the middle of a message
    \* the tx thread
    thread,             \* where it is, and the message it has taken
    token, expired,     \* tx_transfer_token; tx_transfer_expired has passed
    congested,          \* tx_buffer_rate is above the limit
    reports,            \* number of times it rose above it (to bound them)
    sem,                \* tx_usb_transfer_sem
    inflight,           \* URBs submitted and not completed
    sent,               \* history: the messages submitted, in order
    \* stopping
    clear_requested,    \* tx_data_clear_requested
    stopper,            \* ep1_cf02a_stop_can_interface
    stops,              \* number of stops (to bound them)
    mark,               \* history: `accepted' when the last stop began
    \* unplugging
    attached,           \* the USB device is there
    onclosing,          \* dev->onclosing
    should_stop,        \* kthread_stop was called
    term                \* apt_usbtrx_term

ring == <<slot, rd, wr, accepted, torn>>
tokens == <<token, expired, congested, reports>>
urbs == <<sem, inflight, sent>>
stopping == <<clear_requested, stopper, stops, mark>>
closing == <<attached, onclosing, should_stop, term>>
vars == <<ring, writer, thread, tokens, urbs, stopping, closing>>

IdleWriter == [pc |-> "idle", at |-> 0]
At(p) == [pc |-> p, msg |-> 0]

Init ==
    /\ slot = [i \in 0..(MaxMsgs - 1) |-> 0]
    /\ rd = 0 /\ wr = 0
    /\ writer = IdleWriter
    /\ accepted = 0 /\ torn = FALSE
    /\ thread = At("top")
    /\ token = 0 /\ expired = FALSE
    /\ congested = FALSE /\ reports = 0
    /\ sem = MaxUrbs /\ inflight = 0 /\ sent = << >>
    /\ clear_requested = FALSE
    /\ stopper = "up" /\ stops = 0 /\ mark = 0
    /\ attached = TRUE /\ onclosing = FALSE /\ should_stop = FALSE
    /\ term = "no"

-----------------------------------------------------------------------------
(* apt_usbtrx_write_tx_rb.  A write that is refused (closing, no space)    *)
(* changes nothing, so it is not a step.                                   *)

WriteCheck ==
    /\ writer.pc = "idle"
    /\ accepted < MaxMsgs
    /\ QuietStop => stopper = "up"
    /\ ~onclosing
    /\ wr - rd < Capacity
    /\ writer' = [pc |-> "checked", at |-> 0]
    /\ UNCHANGED <<ring, thread, tokens, urbs, stopping, closing>>

(* ringbuffer_write loads the pointer and copies the message ...           *)
WriteCopy ==
    /\ writer.pc = "checked"
    /\ slot' = [slot EXCEPT ![wr] = accepted + 1]
    /\ writer' = [pc |-> "copied", at |-> wr]
    /\ UNCHANGED <<rd, wr, accepted, torn, thread, tokens, urbs, stopping, closing>>

(* ... and stores the pointer it has computed, before a clear or after it. *)
WritePublish ==
    /\ writer.pc = "copied"
    /\ wr' = writer.at + 1
    /\ accepted' = accepted + 1
    /\ torn' = (torn \/ writer.at # wr)
    /\ writer' = IdleWriter
    /\ UNCHANGED <<slot, rd, thread, tokens, urbs, stopping, closing>>

-----------------------------------------------------------------------------
(* apt_usbtrx_tx_thread_func                                               *)

(* The head of the loop: leave, or serve a clear request, or wait.         *)
ThreadTop ==
    /\ thread.pc = "top"
    /\ thread' = At(IF should_stop THEN "exit"
                    ELSE IF clear_requested THEN "clear" ELSE "wait")
    /\ UNCHANGED <<ring, writer, tokens, urbs, stopping, closing>>

(* Fault: the clear resets the write pointer only.                         *)
ThreadClearReadSkipped ==
    /\ thread.pc = "clear"
    /\ thread' = At("clearing")
    /\ UNCHANGED <<ring, writer, tokens, urbs, stopping, closing>>

(* apt_usbtrx_ringbuffer_clear, two stores, then the request is reset.     *)
ThreadClearRead ==
    /\ thread.pc = "clear"
    /\ rd' = 0
    /\ thread' = At("clearing")
    /\ UNCHANGED <<slot, wr, accepted, torn, writer, tokens, urbs, stopping, closing>>

ThreadClearWrite ==
    /\ thread.pc = "clearing"
    /\ wr' = 0 /\ torn' = FALSE
    /\ thread' = At("cleared")
    /\ UNCHANGED <<slot, rd, accepted, writer, tokens, urbs, stopping, closing>>

ThreadCleared ==
    /\ thread.pc = "cleared"
    /\ clear_requested' = FALSE
    /\ thread' = At("top")
    /\ UNCHANGED <<ring, writer, tokens, urbs, stopper, stops, mark, closing>>

(* Fault: the thread is woken for its own requests, not for data.          *)
WriteEnableNoData == onclosing \/ clear_requested

(* apt_usbtrx_is_write_enable                                              *)
WriteEnable == onclosing \/ rd # wr \/ clear_requested

(* The wait ends when there is something to do, or after a second.         *)
ThreadWait ==
    /\ thread.pc = "wait"
    /\ thread' = At(IF WriteEnable THEN "token" ELSE "top")
    /\ UNCHANGED <<ring, writer, tokens, urbs, stopping, closing>>

(* The tokens are renewed once per period, with none for a period that     *)
(* starts while the device reports a buffer that is too full.              *)
Renewed == IF expired THEN (IF congested THEN 0 ELSE MaxToken) ELSE token

ThreadToken ==
    /\ thread.pc = "token"
    /\ token' = Renewed
    /\ expired' = FALSE
    /\ thread' = At(IF Renewed <= 0 THEN "top" ELSE "down")
    /\ UNCHANGED <<ring, writer, congested, reports, urbs, stopping, closing>>

(* down_interruptible: sleeps while all slots are in use.                  *)
ThreadDown ==
    /\ thread.pc = "down"
    /\ sem > 0
    /\ sem' = sem - 1
    /\ thread' = At("take")
    /\ UNCHANGED <<ring, writer, tokens, inflight, sent, stopping, closing>>

(* Fault: the path of the empty ring forgets the up.                       *)
ThreadTakeKeepsSlot ==
    /\ thread.pc = "take"
    /\ IF rd = wr
       THEN thread' = At("top") /\ UNCHANGED rd
       ELSE /\ ~torn
            /\ thread' = [pc |-> "submit", msg |-> slot[rd]]
            /\ rd' = rd + 1
    /\ UNCHANGED <<slot, wr, accepted, torn, writer, tokens, urbs, stopping, closing>>

(* Both rawreads.  An empty ring gives the slot back: the thread was woken *)
(* by a clear request or by onclosing.                                     *)
ThreadTake ==
    /\ thread.pc = "take"
    /\ IF rd = wr
       THEN /\ sem' = sem + 1
            /\ thread' = At("top")
            /\ UNCHANGED rd
       ELSE /\ ~torn
            /\ thread' = [pc |-> "submit", msg |-> slot[rd]]
            /\ rd' = rd + 1
            /\ UNCHANGED sem
    /\ UNCHANGED <<slot, wr, accepted, torn, writer, tokens, inflight, sent,
                   stopping, closing>>

(* A torn ring: the bytes at rd are taken for a header.  They may give a   *)
(* length that is there, as far as r (what is left of the message that was *)
(* cut is read with the next one); the message is known by its first byte. *)
BrokenTake ==
    /\ thread.pc = "take" /\ torn /\ rd # wr
    /\ \E r \in (rd + 1)..wr : rd' = r /\ torn' = (r # wr)
    /\ thread' = [pc |-> "submit", msg |-> slot[rd]]
    /\ UNCHANGED <<slot, wr, accepted, writer, tokens, urbs, stopping, closing>>

(* They may be too few, or no header, or give a length that no message     *)
(* has: they are dropped.                                                  *)
BrokenSkip ==
    /\ thread.pc = "take" /\ torn /\ rd # wr
    /\ rd' = rd + 1 /\ torn' = (rd + 1 # wr)
    /\ sem' = sem + 1
    /\ thread' = At("top")
    /\ UNCHANGED <<slot, wr, accepted, writer, tokens, inflight, sent, stopping,
                   closing>>

(* Or a length that is longer than all there is: while (remain > 0).       *)
BrokenHeader ==
    /\ thread.pc = "take" /\ torn /\ rd # wr
    /\ rd' = wr
    /\ thread' = [pc |-> "body", msg |-> slot[rd]]
    /\ UNCHANGED <<slot, wr, accepted, torn, writer, tokens, urbs, stopping,
                   closing>>

(* The loop goes on with what is written next, be it the rest of the       *)
(* length, wherever that ends, or still too little.  While the ring is     *)
(* empty the loop changes nothing, and it looks at nothing else.           *)
BodyRead ==
    /\ thread.pc = "body" /\ rd # wr
    /\ \/ /\ \E r \in rd..wr : rd' = r /\ torn' = (r # wr)
          /\ thread' = [pc |-> "submit", msg |-> thread.msg]
       \/ /\ rd' = wr
          /\ UNCHANGED <<torn, thread>>
    /\ UNCHANGED <<slot, wr, accepted, writer, tokens, urbs, stopping, closing>>

(* apt_usbtrx_setup_tx_urb                                                 *)
ThreadSubmit ==
    /\ thread.pc = "submit"
    /\ attached
    /\ inflight' = inflight + 1
    /\ sent' = Append(sent, thread.msg)
    /\ token' = token - 1
    /\ thread' = At("top")
    /\ UNCHANGED <<ring, writer, expired, congested, reports, sem, stopping,
                   closing>>

(* Fault: the error path of the submit forgets the up.                     *)
ThreadSubmitFailsKeepsSlot ==
    /\ thread.pc = "submit"
    /\ thread' = At("top")
    /\ UNCHANGED <<ring, writer, tokens, urbs, stopping, closing>>

(* No memory, or the device is gone: the message is dropped.               *)
ThreadSubmitFails ==
    /\ thread.pc = "submit"
    /\ sem' = sem + 1
    /\ thread' = At("top")
    /\ UNCHANGED <<ring, writer, tokens, inflight, sent, stopping, closing>>

(* Fault: a completed URB does not give its slot back.                     *)
UrbCompleteKeepsSlot ==
    /\ inflight > 0
    /\ inflight' = inflight - 1
    /\ UNCHANGED <<ring, writer, thread, tokens, sem, sent, stopping, closing>>

(* apt_usbtrx_write_bulk_callback: done, failed or cancelled.              *)
UrbComplete ==
    /\ inflight > 0
    /\ inflight' = inflight - 1
    /\ sem' = sem + 1
    /\ UNCHANGED <<ring, writer, thread, tokens, sent, stopping, closing>>

(* jiffies passes tx_transfer_expired.                                     *)
Tick ==
    /\ ~expired
    /\ expired' = TRUE
    /\ UNCHANGED <<ring, writer, thread, token, congested, reports, urbs,
                   stopping, closing>>

(* NotifyBufferStatus messages of the device.                              *)
ReportFull ==
    /\ ~congested /\ attached
    /\ reports < MaxReports
    /\ congested' = TRUE
    /\ reports' = reports + 1
    /\ UNCHANGED <<ring, writer, thread, token, expired, urbs, stopping, closing>>

ReportDrained ==
    /\ congested
    /\ congested' = FALSE
    /\ UNCHANGED <<ring, writer, thread, token, expired, reports, urbs,
                   stopping, closing>>

-----------------------------------------------------------------------------
(* ep1_cf02a_stop_can_interface: request a clear, wait until it was served *)
(* and a slot is free, then send SetTxRxControl.                           *)

StopRequest ==
    /\ stopper = "up"
    /\ stops < MaxStops
    /\ QuietStop => writer.pc = "idle"
    /\ clear_requested' = TRUE
    /\ stopper' = "loop"
    /\ stops' = stops + 1
    /\ mark' = accepted
    /\ UNCHANGED <<ring, writer, thread, tokens, urbs, closing>>

(* down_trylock succeeds ...                                               *)
StopTryLock ==
    /\ stopper = "loop"
    /\ ~clear_requested
    /\ sem > 0
    /\ sem' = sem - 1
    /\ stopper' = "locked"
    /\ UNCHANGED <<ring, writer, thread, tokens, inflight, sent,
                   clear_requested, stops, mark, closing>>

(* ... and the slot is given back at once.                                 *)
StopUnlock ==
    /\ stopper = "locked"
    /\ sem' = sem + 1
    /\ stopper' = "command"
    /\ UNCHANGED <<ring, writer, thread, tokens, inflight, sent,
                   clear_requested, stops, mark, closing>>

(* SetTxRxControl goes out on the endpoint of the URBs, hence behind them. *)
StopCommand ==
    /\ stopper = "command"
    /\ attached
    /\ inflight = 0
    /\ stopper' = "down"
    /\ UNCHANGED <<ring, writer, thread, tokens, urbs, clear_requested, stops,
                   mark, closing>>

(* It fails, or gets no answer in time: the caller is told, and that is it. *)
StopCommandFails ==
    /\ stopper = "command"
    /\ stopper' = "down"
    /\ UNCHANGED <<ring, writer, thread, tokens, urbs, clear_requested, stops,
                   mark, closing>>

(* ep1_cf02a_start_can_interface (it clears rx_data, not tx_data).         *)
StartInterface ==
    /\ stopper = "down"
    /\ attached
    /\ stopper' = "up"
    /\ UNCHANGED <<ring, writer, thread, tokens, urbs, clear_requested, stops,
                   mark, closing>>

-----------------------------------------------------------------------------
(* The device is unplugged.                                                *)

Unplug ==
    /\ MayUnplug
    /\ attached
    /\ attached' = FALSE
    /\ UNCHANGED <<ring, writer, thread, tokens, urbs, stopping, onclosing,
                   should_stop, term>>

(* apt_usbtrx_disconnect is called when the USB core has flushed the       *)
(* endpoints.  Its first step, unique_func.terminate, closes the network   *)
(* interface, which waits for a stop in progress or performs one.          *)
TermBegin ==
    /\ ~attached /\ term = "no"
    /\ inflight = 0
    /\ term' = "terminate"
    /\ IF QuietStop /\ stopper = "up"
       THEN /\ writer.pc = "idle"
            /\ clear_requested' = TRUE
            /\ stopper' = "loop"
            /\ mark' = accepted
       ELSE UNCHANGED <<clear_requested, stopper, mark>>
    /\ UNCHANGED <<ring, writer, thread, tokens, urbs, stops, attached,
                   onclosing, should_stop>>

TermClosing ==
    /\ term = "terminate"
    /\ QuietStop => stopper = "down"
    /\ onclosing' = TRUE
    /\ term' = "closing"
    /\ UNCHANGED <<ring, writer, thread, tokens, urbs, stopping, attached,
                   should_stop>>

(* kthread_stop: sets the flag and waits until the thread has returned.    *)
TermStopThread ==
    /\ term = "closing"
    /\ should_stop' = TRUE
    /\ term' = "waiting"
    /\ UNCHANGED <<ring, writer, thread, tokens, urbs, stopping, attached,
                   onclosing>>

(* The rings are freed.                                                    *)
TermFree ==
    /\ term = "waiting"
    /\ thread.pc = "exit"
    /\ term' = "freed"
    /\ UNCHANGED <<ring, writer, thread, tokens, urbs, stopping, attached,
                   onclosing, should_stop>>

-----------------------------------------------------------------------------
Writer == WriteCheck \/ WriteCopy \/ WritePublish

Thread ==
    \/ ThreadTop
    \/ ThreadClearRead
    \/ ThreadClearWrite
    \/ ThreadCleared
    \/ ThreadWait
    \/ ThreadToken
    \/ ThreadDown
    \/ ThreadTake
    \/ BrokenTake
    \/ BrokenSkip
    \/ BrokenHeader
    \/ BodyRead
    \/ ThreadSubmit
    \/ ThreadSubmitFails

Stopper == StopTryLock \/ StopUnlock \/ StopCommand \/ StopCommandFails

Term == TermBegin \/ TermClosing \/ TermStopThread \/ TermFree

Device == Tick \/ UrbComplete \/ ReportDrained

Next ==
    \/ Writer
    \/ Thread
    \/ StopRequest
    \/ Stopper
    \/ StartInterface
    \/ Device
    \/ ReportFull
    \/ Unplug
    \/ Term

Spec == Init /\ [][Next]_vars

(* The scheduler runs the thread and every process that is in a call;      *)
(* time passes; an URB ends because the device takes it or the USB core    *)
(* cancels it; the device sends what it has buffered.                      *)
Fairness ==
    /\ WF_vars(Thread)
    /\ WF_vars(WriteCopy \/ WritePublish)
    /\ WF_vars(Stopper)
    /\ WF_vars(Term)
    /\ WF_vars(Tick)
    /\ WF_vars(UrbComplete)
    /\ WF_vars(ReportDrained)

FairSpec == Spec /\ Fairness

-----------------------------------------------------------------------------
(* Properties                                                              *)

TypeOK ==
    /\ slot \in [0..(MaxMsgs - 1) -> 0..MaxMsgs]
    /\ rd \in 0..MaxMsgs /\ wr \in 0..MaxMsgs
    /\ writer \in [pc : {"idle", "checked", "copied"}, at : 0..MaxMsgs]
    /\ accepted \in 0..MaxMsgs /\ torn \in BOOLEAN
    /\ thread \in [pc : {"top", "clear", "clearing", "cleared", "wait",
                         "token", "down", "take", "body", "submit", "exit"},
                   msg : 0..MaxMsgs]
    /\ token \in 0..MaxToken /\ expired \in BOOLEAN
    /\ congested \in BOOLEAN /\ reports \in 0..MaxReports
    /\ sem \in 0..MaxUrbs /\ inflight \in 0..MaxUrbs
    /\ sent \in Seq(0..MaxMsgs)
    /\ clear_requested \in BOOLEAN
    /\ stopper \in {"up", "loop", "locked", "command", "down"}
    /\ stops \in 0..MaxStops /\ mark \in 0..MaxMsgs
    /\ attached \in BOOLEAN /\ onclosing \in BOOLEAN
    /\ should_stop \in BOOLEAN
    /\ term \in {"no", "terminate", "closing", "waiting", "freed"}

(* Every slot of tx_usb_transfer_sem is free, held by the tx thread, held  *)
(* by a stop, or belongs to an URB in flight: no path through the thread's *)
(* loop, no failed submit and no completion gives a slot back twice or     *)
(* forgets it.                                                             *)
Held == IF thread.pc \in {"take", "body", "submit"} THEN 1 ELSE 0
Locked == IF stopper = "locked" THEN 1 ELSE 0

SlotsConserved == sem + inflight + Held + Locked = MaxUrbs

(* On the network interface, once the loop of stop_can_interface has ended *)
(* the ring is empty and the thread has no message in hand: nothing that   *)
(* was written before the stop is transmitted after it.                    *)
StoppedIsDrained ==
    QuietStop /\ stopper \in {"locked", "command", "down"} =>
        /\ rd = wr
        /\ thread.pc # "submit"

(* On the network interface the thread submits every message at most once  *)
(* and in the order of the writes, whatever was cleared or dropped.        *)
SentInOrder ==
    QuietStop => \A i, j \in 1..Len(sent) : i < j => sent[i] < sent[j]

(* The tx thread submits no message between the end of the stop loop and   *)
(* the next start, even if the stop command fails (network interface).     *)
NothingSentWhileDown ==
    [][QuietStop /\ stopper \in {"command", "down"} => sent' = sent]_vars

(* The thread never runs into a ring that term has freed.                  *)
FreedAfterThread == term = "freed" => thread.pc = "exit"

(* The thread is caught in the body of a message that is not there: it     *)
(* serves no clear, gives back no slot and does not see kthread_stop.      *)
Spinning == thread.pc = "body" /\ rd = wr

(* Nobody waits for what nobody is going to do, unless the thread spins.   *)
(* The tx thread and a stop sleep for a slot only while somebody else      *)
(* holds one; a stop of the network interface waits for a clear that a     *)
(* living thread serves, which is not spinning; and kthread_stop waits for *)
(* a thread that was told to leave, with no URB left to keep it.           *)
NoWaitInVain ==
    /\ thread.pc = "down" /\ sem = 0 => inflight > 0 \/ stopper = "locked"
    /\ stopper = "loop" /\ sem = 0 =>
           inflight > 0 \/ thread.pc \in {"take", "body", "submit"}
    /\ QuietStop /\ stopper = "loop" => ~should_stop /\ thread.pc \notin {"body", "exit"}
    /\ term = "waiting" => should_stop /\ inflight = 0

(* What was written is taken from the ring, unless the thread is stopped:  *)
(* no wake-up, token or slot is lost for good.                             *)
RingDrains == []<>(rd = wr \/ should_stop)

(* The loop of stop_can_interface ends although the thread may be waiting  *)
(* for tokens or holding the last slot when it begins (as long as the      *)
(* thread is not being stopped).  Through the character device there is    *)
(* one way in which it does not: a clear has overlapped a write, and the   *)
(* thread spins for good.  The writes of a behaviour are finite: a poll    *)
(* every 100 ms could otherwise find all slots in use every time.          *)
StopEnds ==
    stopper = "loop" ~> stopper = "down" \/ should_stop \/ (~QuietStop /\ []Spinning)

(* The transmit path of the network interface implements a queue: a        *)
(* message waits in the ring or, when it was taken from it, in the hand of *)
(* the thread.  Between the two stores of a clear the pointers delimit     *)
(* nothing.                                                                *)
InRing == IF thread.pc = "clearing" THEN {} ELSE {i \in 0..(MaxMsgs - 1) : rd <= i /\ i < wr}

Waiting ==
    {slot[i] : i \in InRing} \cup (IF thread.pc = "submit" THEN {thread.msg} ELSE {})

Phase == CASE stopper = "up" -> "up" [] stopper = "loop" -> "stopping" [] OTHER -> "down"

Queue == INSTANCE TxQueue WITH phase <- Phase, waiting <- Waiting

(* Whatever the thread has in hand when a stop begins, and however the     *)
(* stop loop, the clear, failed submits and tokens interleave: messages    *)
(* are sent once and in the order of the writes, never more than a ring    *)
(* and one of them wait, and when the stop loop has ended nothing waits    *)
(* and nothing is sent before the next start.                              *)
ImplementsQueue == Queue!Spec
=============================================================================
