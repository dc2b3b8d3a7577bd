------------------------------ MODULE RxStream ------------------------------
(***************************************************************************)
(* The receive path: bulk-in URBs deliver a byte stream in arbitrary       *)
(* pieces (apt_usbtrx_read_bulk_callback), the parser cuts it into         *)
(* messages (apt_usbtrx_msg_parse), received frames go into the ring       *)
(* rx_data (apt_usbtrx_dispatch_msg), and a process reads them             *)
(* (apt_usbtrx_read) until the device is unplugged.                        *)
(*                                                                         *)
(* A message is SOB, length, id, payload, EOB; the payload may contain SOB *)
(* and EOB, and there is no checksum.  Nothing says that a transfer ends   *)
(* at the end of a message, so the callback keeps the remainder in front   *)
(* of the next transfer; bytes that do not begin a message are skipped one *)
(* at a time.                                                              *)
(*                                                                         *)
(* Callbacks of one endpoint do not overlap and come in the order of the   *)
(* data.  The ring is counted in whole frames and has one reader, whose    *)
(* buffer holds whole frames (RingBuffer has the bytes).  The if_type of   *)
(* the device is FILE: a file is open.                                     *)
(***************************************************************************)
EXTENDS Integers, Sequences

CONSTANTS
    SOB, EOB,           \* APT_USBTRX_MSG_SOB, APT_USBTRX_MSG_EOB
    Frame, Report,      \* ids of a received frame and of NotifyBufferStatus
    MinLength,          \* APT_USBTRX_CMD_MIN_LENGTH
    MaxLength,          \* APT_USBTRX_CMD_MAX_LENGTH
    TransferSize,       \* RX_BUFFER_SIZE
    BufferSize,         \* rx_transfer.buffer_size
    MaxUrbs,            \* MAX_RX_URBS
    RingFrames,         \* frames that fit in rx_data
    Units,              \* what the device puts on the wire: messages, noise
    MaxUnits,           \* bound: units sent
    MaxErrors           \* bound: transfers that fail

ASSUME LengthsAssumption ==
    /\ MinLength \in Nat /\ MaxLength \in Nat
    /\ 4 <= MinLength /\ MinLength <= MaxLength
    /\ TransferSize \in Nat \ {0} /\ MaxLength <= TransferSize
    /\ BufferSize = 2 * TransferSize
ASSUME BytesAssumption ==
    /\ Units \subseteq Seq(Nat)
    /\ SOB \in Nat /\ EOB \in Nat /\ SOB # EOB
ASSUME BoundsAssumption ==
    /\ MaxUrbs \in Nat \ {0} /\ RingFrames \in Nat
    /\ MaxUnits \in Nat /\ MaxErrors \in Nat

VARIABLES
    \* the device and the bus
    wire,               \* bytes sent and not yet transferred
    units,              \* units sent (to bound them)
    errors,             \* transfers that failed (to bound them)
    urbs,               \* receive URBs that are submitted
    \* the callback
    cb,                 \* where it is, and processed_size
    buf,                \* rx_transfer.buffer up to rx_transfer.data_size
    rate,               \* tx_buffer_rate
    ongoing,            \* rx_ongoing
    received,           \* history: all bytes copied to the buffer
    base,               \* history: how many of them have left it
    taken,              \* history: the messages dispatched, [at, len]
    \* the reader
    ring,               \* rx_data: the frames, by position in `received'
    reader,             \* where apt_usbtrx_read is
    host_mode,          \* timestamp_mode is not DEVICE
    stored, got,        \* history: frames put in the ring, and read
    spilt,              \* history: a read lost frames, or copied from a
                        \* ring that was freed
    \* unplugging
    attached, onclosing, rx_done,
    term                \* apt_usbtrx_term

bus == <<wire, units, errors, urbs>>
parsing == <<cb, buf, rate, ongoing, received, base, taken>>
reading == <<ring, reader, host_mode, stored, got, spilt>>
closing == <<attached, onclosing, rx_done, term>>
vars == <<bus, parsing, reading, closing>>

Init ==
    /\ wire = << >> /\ units = 0 /\ errors = 0
    /\ urbs = MaxUrbs
    /\ cb = [pc |-> "idle", processed |-> 0]
    /\ buf = << >> /\ rate = 0
    /\ ongoing = FALSE
    /\ received = << >> /\ base = 0 /\ taken = << >>
    /\ ring = << >> /\ reader = "idle"
    /\ host_mode \in BOOLEAN
    /\ stored = << >> /\ got = << >> /\ spilt = FALSE
    /\ attached = TRUE /\ onclosing = FALSE /\ rx_done = 0
    /\ term = "no"

-----------------------------------------------------------------------------
(* apt_usbtrx_msg_parse                                                    *)

(* Fault: the end mark is not compared.                                    *)
ParseNoEob(s, i, remain) ==
    IF s[i] # SOB \/ s[i + 1] \notin MinLength..MaxLength THEN "failure"
    ELSE IF s[i + 1] > remain THEN "not_enough"
    ELSE "success"

(* Fault: no upper bound on the length.                                    *)
ParseNoMaximum(s, i, remain) ==
    IF s[i] # SOB \/ s[i + 1] < MinLength THEN "failure"
    ELSE IF s[i + 1] > remain THEN "not_enough"
    ELSE IF s[i + s[i + 1] - 1] # EOB THEN "failure"
    ELSE "success"

(* The `remain' bytes of s from position i on.                             *)
Parse(s, i, remain) ==
    IF s[i] # SOB \/ s[i + 1] \notin MinLength..MaxLength THEN "failure"
    ELSE IF s[i + 1] > remain THEN "not_enough"
    ELSE IF s[i + s[i + 1] - 1] # EOB THEN "failure"
    ELSE "success"

-----------------------------------------------------------------------------
(* The device and the bus                                                  *)

DeviceSends(u) ==
    /\ attached /\ units < MaxUnits
    /\ wire' = wire \o u
    /\ units' = units + 1
    /\ UNCHANGED <<errors, urbs, parsing, reading, closing>>

Rest(s, n) == SubSeq(s, n + 1, Len(s))

(* An URB completes with n bytes; they are appended to the remainder.      *)
Transfer(n) ==
    /\ cb.pc = "idle" /\ urbs > 0
    /\ attached /\ ~onclosing
    /\ n <= Len(wire)
    /\ wire' = Rest(wire, n)
    /\ urbs' = urbs - 1
    /\ buf' = buf \o SubSeq(wire, 1, n)
    /\ received' = received \o SubSeq(wire, 1, n)
    /\ cb' = [pc |-> "loop", processed |-> 0]
    /\ UNCHANGED <<units, errors, rate, ongoing, base, taken, reading, closing>>

(* An URB completes with an error and the bytes it carried are lost.  It   *)
(* is submitted again, unless the error is -EPIPE or -EPROTO, or there is  *)
(* no memory.                                                              *)
TransferFails(n) ==
    /\ cb.pc = "idle" /\ urbs > 0
    /\ attached /\ ~onclosing
    /\ errors < MaxErrors
    /\ n <= Len(wire)
    /\ wire' = Rest(wire, n)
    /\ errors' = errors + 1
    /\ urbs' \in {urbs - 1, urbs}
    /\ UNCHANGED <<units, parsing, reading, closing>>

-----------------------------------------------------------------------------
(* apt_usbtrx_read_bulk_callback: the loop over the buffer                 *)

Remain == Len(buf) - cb.processed
Here == IF Remain < MinLength THEN "not_enough"
        ELSE Parse(buf, cb.processed + 1, Remain)
Length == buf[cb.processed + 2]
Id == buf[cb.processed + 3]

(* Fault: only a short remainder ends the loop, not an incomplete message. *)
LoopEndsWhenShort ==
    /\ cb.pc = "loop"
    /\ Remain < MinLength
    /\ cb' = [cb EXCEPT !.pc = "keep"]
    /\ UNCHANGED <<bus, buf, rate, ongoing, received, base, taken, reading,
                   closing>>

LoopEnds ==
    /\ cb.pc = "loop"
    /\ Here = "not_enough"
    /\ cb' = [cb EXCEPT !.pc = "keep"]
    /\ UNCHANGED <<bus, buf, rate, ongoing, received, base, taken, reading,
                   closing>>

SkipByte ==
    /\ cb.pc = "loop"
    /\ Here = "failure"
    /\ cb' = [cb EXCEPT !.processed = @ + 1]
    /\ UNCHANGED <<bus, buf, rate, ongoing, received, base, taken, reading,
                   closing>>

(* apt_usbtrx_dispatch_msg: a frame goes into the ring if it fits, a       *)
(* report is stored; before rx_ongoing is set everything is ignored.       *)
Dispatch ==
    /\ cb.pc = "loop"
    /\ Here = "success"
    /\ LET at == base + cb.processed + 1
           isFrame == ongoing /\ Id = Frame
           fits == isFrame /\ Len(ring) < RingFrames
       IN  /\ taken' = Append(taken, [at |-> at, len |-> Length])
           /\ ring' = IF fits THEN Append(ring, at) ELSE ring
           /\ stored' = IF fits THEN Append(stored, at) ELSE stored
           /\ rate' = IF ongoing /\ Id = Report THEN buf[cb.processed + 4]
                      ELSE rate
           /\ cb' = [pc |-> IF isFrame THEN "wake" ELSE "loop",
                     processed |-> cb.processed + Length]
    /\ UNCHANGED <<bus, buf, ongoing, received, base, reader, host_mode, got,
                   spilt, closing>>

(* Fault: the reader is not woken by a frame.                              *)
WakeNobody ==
    /\ cb.pc = "wake"
    /\ cb' = [cb EXCEPT !.pc = "loop"]
    /\ UNCHANGED <<bus, buf, rate, ongoing, received, base, taken, reading,
                   closing>>

Woken == IF reader = "asleep" THEN "check" ELSE reader

WakeReader ==
    /\ cb.pc = "wake"
    /\ reader' = Woken
    /\ cb' = [cb EXCEPT !.pc = "loop"]
    /\ UNCHANGED <<bus, buf, rate, ongoing, received, base, taken, ring,
                   host_mode, stored, got, spilt, closing>>

(* Fault: the remainder is forgotten.                                      *)
KeepNothing ==
    /\ cb.pc = "keep"
    /\ buf' = << >>
    /\ base' = base + Len(buf)
    /\ cb' = [pc |-> "submit", processed |-> 0]
    /\ UNCHANGED <<bus, rate, ongoing, received, taken, reading, closing>>

(* The remainder moves to the front.                                       *)
KeepRemainder ==
    /\ cb.pc = "keep"
    /\ buf' = Rest(buf, cb.processed)
    /\ base' = base + cb.processed
    /\ cb' = [pc |-> "submit", processed |-> 0]
    /\ UNCHANGED <<bus, rate, ongoing, received, taken, reading, closing>>

(* The URB is submitted again; if that fails it is gone.                   *)
Resubmit ==
    /\ cb.pc = "submit"
    /\ \/ urbs' = urbs + 1 /\ errors' = errors
       \/ urbs' = urbs /\ errors < MaxErrors /\ errors' = errors + 1
    /\ cb' = [cb EXCEPT !.pc = "idle"]
    /\ UNCHANGED <<wire, units, buf, rate, ongoing, received, base, taken,
                   reading, closing>>

(* The end of apt_usbtrx_setup_rx_urbs.                                    *)
SetupDone ==
    /\ ~ongoing /\ term = "no"
    /\ ongoing' = TRUE
    /\ UNCHANGED <<bus, cb, buf, rate, received, base, taken, reading, closing>>

-----------------------------------------------------------------------------
(* apt_usbtrx_read                                                         *)

Reader(pc) ==
    /\ reader' = pc
    /\ UNCHANGED <<bus, parsing, ring, host_mode, stored, got, spilt, attached,
                   onclosing, term>>

(* A process that sees onclosing completes rx_done and returns.            *)
Leave == Reader("idle") /\ rx_done' = rx_done + 1

ReadBegin ==
    /\ reader = "idle"
    /\ ongoing /\ ~onclosing
    /\ Reader("check")
    /\ UNCHANGED rx_done

(* A read that begins while the device closes.  (More completions than one *)
(* are not counted: apt_usbtrx_term waits once.)                           *)
ReadRefused ==
    /\ reader = "idle"
    /\ onclosing /\ rx_done = 0
    /\ Leave

(* wait_event_interruptible: the condition is evaluated when the process   *)
(* is already on the wait queue, so no wake-up falls in between.           *)
ReadCheck ==
    /\ reader = "check"
    /\ Reader(IF onclosing \/ ring # << >> THEN "woken" ELSE "asleep")
    /\ UNCHANGED rx_done

(* A signal.                                                               *)
ReadInterrupted ==
    /\ reader = "asleep"
    /\ Reader("idle")
    /\ UNCHANGED rx_done

ReadWoken ==
    /\ reader = "woken"
    /\ IF onclosing THEN Leave ELSE Reader("copy") /\ UNCHANGED rx_done

Freed == term \in {"freed", "freed_late"}

(* The completion behind the copy (onclosing is the value read before it)  *)
(* is never reached with onclosing set: a read that copies does not        *)
(* complete rx_done.                                                       *)
ReadCopy ==
    /\ reader = "copy" /\ ring # << >> /\ ~Freed
    /\ \E k \in 1..Len(ring) :
           /\ got' = got \o SubSeq(ring, 1, k)
           /\ ring' = Rest(ring, k)
    /\ reader' = "idle"
    /\ UNCHANGED <<bus, parsing, host_mode, stored, spilt, closing>>

(* Fault: a copy that fails has emptied the ring in every mode.            *)
ReadFaultsAlways ==
    /\ reader = "copy" /\ ring # << >> /\ ~Freed
    /\ ring' = << >>
    /\ spilt' = host_mode
    /\ reader' = "idle"
    /\ UNCHANGED <<bus, parsing, host_mode, stored, got, closing>>

(* The copy to the user fails.  With host timestamps the frames have       *)
(* already left the ring; with the device's they are still there.          *)
ReadFaults ==
    /\ reader = "copy" /\ ring # << >> /\ ~Freed
    /\ IF host_mode
       THEN /\ \E k \in 1..Len(ring) : ring' = Rest(ring, k)
            /\ spilt' = TRUE
       ELSE UNCHANGED <<ring, spilt>>
    /\ reader' = "idle"
    /\ UNCHANGED <<bus, parsing, host_mode, stored, got, closing>>

(* The ring is freed before or under the copy: what the read returns, if   *)
(* it returns, is undefined.                                               *)
ReadFreed ==
    /\ reader = "copy" /\ Freed
    /\ spilt' = TRUE
    /\ reader' = "idle"
    /\ UNCHANGED <<bus, parsing, ring, host_mode, stored, got, closing>>

-----------------------------------------------------------------------------
(* The device is unplugged: the USB core cancels the URBs (-ESHUTDOWN) and *)
(* then calls apt_usbtrx_disconnect, hence apt_usbtrx_term.                *)

Unplug ==
    /\ attached
    /\ attached' = FALSE
    /\ UNCHANGED <<bus, parsing, reading, onclosing, rx_done, term>>

UrbCancelled ==
    /\ ~attached /\ cb.pc = "idle" /\ urbs > 0
    /\ urbs' = urbs - 1
    /\ UNCHANGED <<wire, units, errors, parsing, reading, closing>>

TermClosing ==
    /\ ~attached /\ term = "no"
    /\ urbs = 0 /\ cb.pc = "idle"
    /\ onclosing' = TRUE
    /\ ongoing' = FALSE
    /\ term' = "closing"
    /\ UNCHANGED <<bus, cb, buf, rate, received, base, taken, reading, attached,
                   rx_done>>

TermWake ==
    /\ term = "closing"
    /\ reader' = Woken
    /\ term' = "waiting"
    /\ UNCHANGED <<bus, parsing, ring, host_mode, stored, got, spilt, attached,
                   onclosing, rx_done>>

(* apt_usbtrx_term waits for rx_done, but for no more than 100 ms and only *)
(* until a signal, and goes on in any case: rx_data is freed.              *)
TermFree ==
    /\ term = "waiting"
    /\ \/ rx_done > 0 /\ rx_done' = rx_done - 1 /\ term' = "freed"
       \/ rx_done = 0 /\ UNCHANGED rx_done /\ term' = "freed_late"
    /\ UNCHANGED <<bus, parsing, reading, attached, onclosing>>

-----------------------------------------------------------------------------
Callback ==
    \/ LoopEnds
    \/ SkipByte
    \/ Dispatch
    \/ WakeReader
    \/ KeepRemainder
    \/ Resubmit

Read == ReadCheck \/ ReadWoken \/ ReadCopy \/ ReadFaults \/ ReadFreed

Term == UrbCancelled \/ TermClosing \/ TermWake \/ TermFree

Next ==
    \/ \E u \in Units : DeviceSends(u)
    \/ \E n \in 1..TransferSize : Transfer(n)
    \/ \E n \in 0..TransferSize : TransferFails(n)
    \/ Callback
    \/ SetupDone
    \/ ReadBegin
    \/ ReadRefused
    \/ ReadInterrupted
    \/ Read
    \/ Unplug
    \/ Term

Spec == Init /\ [][Next]_vars

(* Softirqs and processes run; the bus transfers what the device sends as  *)
(* long as an URB is there to take it.                                     *)
Fairness ==
    /\ WF_vars(Callback)
    /\ WF_vars(\E n \in 1..TransferSize : Transfer(n))
    /\ WF_vars(SetupDone)
    /\ WF_vars(Read)
    /\ WF_vars(Term)

FairSpec == Spec /\ Fairness

-----------------------------------------------------------------------------
(* Properties                                                              *)

Message == [at : Nat, len : MinLength..MaxLength]

TypeOK ==
    /\ wire \in Seq(Nat) /\ units \in 0..MaxUnits /\ errors \in 0..MaxErrors
    /\ urbs \in 0..MaxUrbs
    /\ cb \in [pc : {"idle", "loop", "wake", "keep", "submit"}, processed : Nat]
    /\ buf \in Seq(Nat) /\ rate \in Nat /\ ongoing \in BOOLEAN
    /\ received \in Seq(Nat) /\ base \in Nat
    /\ taken \in Seq(Message)
    /\ ring \in Seq(Nat)
    /\ reader \in {"idle", "check", "asleep", "woken", "copy"}
    /\ host_mode \in BOOLEAN
    /\ stored \in Seq(Nat) /\ got \in Seq(Nat) /\ spilt \in BOOLEAN
    /\ attached \in BOOLEAN /\ onclosing \in BOOLEAN /\ rx_done \in Nat
    /\ term \in {"no", "closing", "waiting", "freed", "freed_late"}

(* The remainder of a transfer and the next transfer fit in                *)
(* rx_transfer.buffer: what the parser leaves behind is always shorter     *)
(* than the longest message, whatever the device sends.                    *)
BufferBound ==
    /\ Len(buf) <= BufferSize
    /\ cb.pc = "idle" => Len(buf) < MaxLength

(* The bytes of s from position i on are a complete message.               *)
WellFormed(s, i) ==
    /\ i + 1 <= Len(s)
    /\ s[i] = SOB /\ s[i + 1] \in MinLength..MaxLength
    /\ i + s[i + 1] - 1 <= Len(s)
    /\ s[i + s[i + 1] - 1] = EOB

(* What is dispatched are complete messages of the received stream, in its *)
(* order and without overlap, wherever the transfers cut it.               *)
DispatchedInOrder ==
    /\ \A i \in 1..Len(taken) :
           /\ WellFormed(received, taken[i].at)
           /\ taken[i].len = received[taken[i].at + 1]
    /\ \A i, j \in 1..Len(taken) :
           i < j => taken[i].at + taken[i].len <= taken[j].at

(* The parser passes over a complete message only when it begins inside a  *)
(* message that was dispatched (a payload may look like one), and after    *)
(* the callback it holds none back: where the transfers cut the stream,    *)
(* and what noise it resynchronised on, make no difference.                *)
NoMessagePassedOver ==
    /\ \A p \in 1..(base + cb.processed) :
           WellFormed(received, p) =>
               \E i \in 1..Len(taken) :
                   taken[i].at <= p /\ p < taken[i].at + taken[i].len
    /\ cb.pc = "idle" => ~WellFormed(received, base + 1)

(* The reader gets the stored frames in order, each once, unless a copy    *)
(* with host timestamps failed, or the ring was freed under it.            *)
ReaderGetsStored == ~spilt => got \o ring = stored

(* When the wait of apt_usbtrx_term ends by a completion, the ring is not  *)
(* freed under a read: no read copies at that moment, and none will.  When *)
(* it ends by its 100 ms or by a signal the code excludes nothing.         *)
FreedNotRead == rx_done > 0 \/ term = "freed" => reader = "idle"

(* No wake-up is lost: a read that sleeps although there is a frame, or    *)
(* although the device is closing, is about to be woken by the callback    *)
(* that stored the frame, or by apt_usbtrx_term.                           *)
NoWakeupLost ==
    reader = "asleep" =>
        /\ ring # << >> => cb.pc = "wake"
        /\ onclosing => term = "closing"

(* A read that waits returns when there is a frame or the device goes: no  *)
(* wake-up is lost between the test of the ring and the sleep.  When the   *)
(* device is unplugged, apt_usbtrx_term, which waits for a read, ends.     *)
ReadReturns ==
    /\ reader = "asleep" /\ (ring # << >> \/ onclosing) ~> reader # "asleep"
    /\ ~attached ~> Freed

(* What the device sends is taken off the wire and parsed, as long as an   *)
(* URB is left and the device is there.                                    *)
StreamDrains ==
    []<>(\/ wire = << >> /\ cb.pc = "idle"
         \/ urbs = 0 /\ cb.pc = "idle"
         \/ ~attached)
=============================================================================
