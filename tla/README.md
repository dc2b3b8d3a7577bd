# A TLA+ model of the EDGEPLANT USB peripheral driver

The driver (`src/module`) connects CAN and analog interfaces to Linux over USB.
One kernel module serves several products: a common part
(`apt_usbtrx_*.c`) and one directory per product, of which `ep1_cf02a` (CAN FD)
is the richest. Every device can be used through a character device
(`/dev/apt-usb/...`); the CAN interfaces also as a SocketCAN network
interface, the analog interface also through IIO.

The modules here model the parts in which concurrency, failure and ordering
decide whether the driver is right. TLC checks them on small instances; TLAPS
proves all the safety properties it checks, for every value of the constants.

## 1. Inventory

| Component | State | Operations | What is hard | What makes it correct |
|---|---|---|---|---|
| Byte ring (`apt_usbtrx_ringbuffer.c`) | buffer, `read`, `write`, `skip_count` | init, write, read, rawread, clear, get_used_size, get_free_size | one writer and one reader without a lock; wrap-around; a full ring must not look empty; `clear` by a third party | FIFO order, no byte lost or torn, copies inside the buffer |
| Transmit path (`apt_usbtrx_write_tx_rb`, `apt_usbtrx_tx_thread_func`, `apt_usbtrx_write_bulk_callback`) | `tx_data`, `tx_usb_transfer_sem`, token bucket, URBs in flight, `tx_data_clear_requested` | write, thread loop, URB completion, stop/start of the CAN interface, unplug | four contexts; seven ways to give a slot back; a stop that waits for the thread; shutdown order | slots conserved, order kept, a stopped interface is drained, a stop and a shutdown end (unless the thread spins on a torn ring, section 6) |
| Command channel (`apt_usbtrx_send_msg_sync`, `apt_usbtrx_wait_msg_timeout`, `apt_usbtrx_dispatch_msg`) | `send_msg_sem`, `rx_complete` (id, completion, buffer) | send, wait, match an answer, time out | late and missing answers; the callback takes no lock; six exits that must up the semaphore | one command at a time, a command gets the answer that is due to it, every command returns |
| RESET_TS (`apt_usbtrx_reset_ts`) | `resettime` (one static variable), `basetime` | ioctl, ACK | the time is stored before the command is admitted | the reported time is the time of this call |
| EP1-CF02A interface arbitration (`ep1_cf02a_open/close`, `ep1_cf02a_netdev_open/start/close/set_mode`) | `if_type`, `file_open_count` | open, close, ifup, restart, ifdown | check-then-act without a common lock; failures in between | files and the network interface exclude each other; frames reach the user |
| Receive stream (`apt_usbtrx_read_bulk_callback`, `apt_usbtrx_msg_parse`) and `apt_usbtrx_read` | `rx_transfer`, receive URBs, `rx_data` | URB completion, parse, dispatch, resubmit, blocking read, unplug | messages cut anywhere; resynchronisation after noise; URBs lost for good; wake-ups | every complete message is dispatched once, in order; a blocked read ends; an unplug frees no ring under a read that it has waited for |
| EP1-CF02A network transmit | queue, echo skb, `netdev`, statistics work | `start_xmit`, URB callback, open, close, restart, terminate | one context stops the queue and another wakes it; a work that rearms itself; unplug at any point | a stopped queue is woken; an echo belongs to its frame; nothing uses the freed netdev |
| EP1-CF02A store data, and its list tool | `rx_store_data`, `received_store_data_size`, `notify_..._complete` | list, clear, reset, start, read, stop, delete | a paged transfer that overlaps the callback; a tool killed in the middle | the reader gets each stored frame once, or an error |
| Device life cycle (`apt_usbtrx_main.c`, open/release) | `onopening`, `onclosing`, `kref`, minor number | probe, disconnect, open, release, attribute and IIO handlers | probe may fail at every stage; file open across disconnect; IIO callbacks until devm releases the device | files and attributes never find the structure freed; what a disconnect or a failed probe leaves is known |
| EP1-AG08A (analog) | device configuration, `if_type` | attributes, ioctls, file, IIO buffer, samples | read-modify-write over three commands; check-then-act; failed commands | a write takes effect and changes nothing else; a user gets samples of its own run |
| AP-CT2A, EP1-CH02A (CAN) | mode, bit timing, trigger, `if_type`, link settings, summary | ioctls, link changes, ifup/ifdown, status, attributes | sequences of commands that fail halfway; a channel that stops late; three firmware variants | what is set is what is shown; an interface that is up runs with its settings |
| Message codec (`*_msg.c`) | none | pack, parse | two tables that must be inverse; bytes that wrap | parse inverts pack |
| EP1-CF02A bit timing | none | calculation | 32-bit arithmetic, rounding | the result is legal and the best |
| Firmware update | `fw_count` | write | counter after a failed block | an update can be repeated |
| Other attributes, tools, samples, tests | | | | not the driver's core |

How they interact: a user's `write()` or the network stack's `start_xmit` calls
`apt_usbtrx_write_tx_rb`, which fills `tx_data` and wakes the tx thread; the
thread submits URBs; their completions give slots back. The bulk-in callback
parses messages: frames and samples go to `rx_data`, the network stack or the
IIO buffer (according to `if_type`), stored frames to `rx_store_data`,
ACK/NACK/Response to the process that waits in `apt_usbtrx_wait_msg_timeout`,
buffer reports to the token bucket. `disconnect` runs `unique_func.terminate`,
sets `onclosing`, stops the thread and frees the rings; the structure itself
goes with the last file.

## 2. Modules and how they correspond to the code

| Module | Models | Builds on |
|---|---|---|
| `ByteFifo` | what a user of the ring relies on (abstract) | |
| `RingBuffer` | `apt_usbtrx_ringbuffer.c` | instantiates `ByteFifo` |
| `TxQueue` | what the network core relies on: a bounded queue with a stop (abstract) | |
| `TxPath` | transmit path, stop/start, shutdown | instantiates `TxQueue` |
| `NetTx` | EP1-CF02A network interface on top of the transmit path | extends `TxPath` |
| `CommandChannel` | command channel and RESET_TS | |
| `InterfaceArbitration` | `if_type` and `file_open_count` of the EP1-CF02A | |
| `RxStream` | receive URBs, parser, `rx_data`, blocking read | |
| `StoreData` | store data ioctls, dispatch, device and list tool | |
| `Lifecycle` | probe, disconnect, open, release, attributes, IIO callbacks | |
| `Exchange` | a command as one step, with its three outcomes | |
| `AnalogConfig` | EP1-AG08A | extends `Exchange` |
| `CanConfig` | AP-CT2A and EP1-CH02A | extends `Exchange` |
| `Products` | the product that is bound: analog or CAN | extends both |
| `MC*` | what TLC runs | the module of the same name |
| `TransmitProofs` | theorems about `TxPath` and `NetTx` | extends `NetTx`, `TLAPS` |
| other `*Proofs` | theorems | the module of the same name and `TLAPS` |

`PROJECT.json` maps each definition to its source lines.

Conventions. An operation that another context can interleave with is split
into steps at its reads and writes of shared state; a call that returns early
without changing anything is not a step. History variables are marked as such
where they are declared; no guard reads them, except for bounds. An operator
whose comment begins with "Fault:" is a plausible bug of the operator that
follows it; it takes part in nothing, and `PROJECT.json` says which property it
violates when it takes that operator's place.

**RingBuffer.** Pointers are offsets from `begin`; `end` is the offset `Size`,
which a pointer may rest on, as in the code. A read or write is Begin (load both
pointers, decide), one step per byte, End (store the own pointer). Bytes are
numbered in the order of acceptance, so the content shows any loss, repetition
or reordering. `ExclusiveClear = FALSE` lets `clear` fall between any two of
these steps. Stores are visible in program order: the code has no barrier, so
on a weakly ordered CPU it relies on more than is modelled.

**TxPath.** Steps of `apt_usbtrx_write_tx_rb` (check, copy, publish), of the tx
thread (one per labelled state of its loop), of the URB completion, of
`ep1_cf02a_stop_can_interface`, of `apt_usbtrx_term`. The ring is counted in
whole messages and does not wrap (RingBuffer covers bytes and wrap-around): a
write is all or nothing, so the thread finds a complete message behind each
header and its two rawreads are one step (`ThreadTake`), as long as every write
begins where the last one ended. A clear that overlaps a write breaks that: the
writer publishes a pointer from before the clear, and what the pointers then
delimit begins anywhere in an old message (`torn`). From a torn ring the thread
reads whatever the bytes say: a message of some length (`BrokenTake`), a header
that is refused, which gives the slot back (`BrokenSkip`), or a header whose body
is not there (`BrokenHeader`), after which `while (remain > 0)` reads the empty
ring in a loop and keeps the slot until somebody writes (`BodyRead`, `Spinning`).
`QuietStop` says whether such an overlap can occur: the network core waits for a
transmit in progress before it calls `ndo_stop` and starts none until the
interface is open again; nothing of the kind holds between `write()` and the
stop ioctl, nor between a transmit and a restart (NetTx).

**NetTx.** `start_xmit` (stop the queue, keep the echo, then the three steps of
the write), the URB callback (the completion of TxPath, then echo and wake), the
statistics work that rearms itself, open, close, restart and
`ep1_cf02a_terminate`, conjoined with the actions of TxPath they perform. TxPath
is taken with `QuietStop = FALSE`; what the network core guarantees (it waits for
a transmit before a close, but not before a restart; it serialises opens, closes
and restarts) is stated by NetTx's own guards.

**CommandChannel.** Steps of a command function (`apt_usbtrx_reset_ts`,
`ep1_cf02a_cmd_common` and the like have the same shape): pack, down, set the
id, init the completion, send, wait, copy the buffer, accept or retry; and of
the callback: take the message (and, for an ACK of RESET_TS, the base time),
compare the id, copy and complete. A copy of the buffer while the callback
writes to it yields the old message, the new one, or something that the parser
rejects. Calls are numbered; an answer carries the number of its request, which
the real message does not, so that the model can say whose answer it is. The
device has been initialised (`rx_ongoing` is true); the polled mode used before
that is not modelled.

**InterfaceArbitration.** Steps of open (check, count, claim), close (count,
check, release) and of the network interface (open, started, start failed,
restart, close, stopped, stop failed). The constants `SerialFiles` and
`SerialNet` say which of them may overlap. A restart is reached through netlink
only, since the driver never calls `can_bus_off`.

**RxStream.** The device puts messages and noise on the wire as bytes; a
transfer takes any number of them up to the size of an URB. The callback is one
step per turn of its loop: dispatch the message at the front, skip one byte, or
keep the remainder; then resubmit. Errors end an URB or are retried as the
status demands. At the unplug `apt_usbtrx_term` waits for `rx_done`, at most
100 ms and interruptibly, and frees the ring in any case: `term = "freed"` when a
completion has ended the wait, `"freed_late"` when not; a read that is copying
completes nothing (its test of `onclosing` is from before the copy) and may copy
from a freed ring (`ReadFreed`). `received`, `base` and `taken` are history: what came in, how
much of it has left the buffer, and where the dispatched messages stood. The
reader is `apt_usbtrx_read`: test, sleep, wake, copy, with or without host
timestamps.

**StoreData.** The tool's program counter runs through its ioctls; each ioctl is
split where it waits or where the callback can get in between (test of the
ring, reset of the size, request). The device sends at most a page per request
and then waits. Another process deletes stores; the tool is interrupted, killed
and started again; the device is unplugged.

**Lifecycle.** `stage` is where probe or disconnect stands; `held` is what has
been allocated, registered and started; every stage of probe may fail and then
runs the code of its error path. Opens hold `minor_rwsem` (external), attribute
handlers hold off `device_remove_file` (external). The IIO device of the EP1-AG08A
is registered with devm: its attributes and buffer callbacks run until devm
releases it (`DevmRelease`), which is after `apt_usbtrx_disconnect` has returned,
and the release waits for them. Whether the data of the product is still there,
and whether the receive URBs are anchored, is part of the state (`held`, `urbs`). `kthread_run` may return an
error pointer, which the code takes for a thread.

**Exchange, AnalogConfig, CanConfig, Products.** A command function is one step
with three outcomes: done (`ack`), not done and reported as failed (`lost`), done
but reported as failed (`late`). Steps of different processes interleave between
commands, which is what the driver allows: there is no lock around a sequence of
commands. The device holds the bytes of the messages, callers use mV, mHz and
kbit/s; the conversion tables are translated entry by entry. `quiet` in a call
records whether anybody changed the device since the call read it, `overlap`
(`can_overlap`) whether two users were between check and store of `if_type` at a
time. `ended` records the last successful stop of the CAN channel: how often it told the
channel, and whether anybody else did anything to it meanwhile. `Products` chooses
the product and shares the bounds.

## 3. Runs

| Run | Question | Bounds | Result |
|---|---|---|---|
| `ring_exclusive` | Is the ring a byte FIFO when clears do not overlap reads and writes? | 4 cells, requests of 1, 2, 3, 5 bytes, 9 bytes, 1 clear | holds |
| `tx_net` | Slots, end of a stop, and is the path a queue that is silent when stopped, with a quiet stop? | 2 URBs, ring of 2, 3 messages, 2 stops, 1 report, unplugging | holds |
| `tx_char` | Progress of the thread and of a stop, on the character device, where a clear may tear the ring | 1 URB, ring of 2, 3 messages, 1 stop, 1 report, unplugging | holds, but for a stop that meets a thread which spins for ever |
| `net_tx` | Queue, echo, net_device and unplug of the network interface | 2 URBs, ring of 1, 2 frames, 1 close or restart, 1 report, unplugging | holds |
| `cmd` | Semaphore, matching of answers, return of every command | 2 processes, RESET_TS (not overlapping itself) and a get, 3 calls | holds |
| `cmd_shared_reset` | Does RESET_TS report its own time when calls overlap? | 2 processes, 2 calls | violated |
| `if_serial` | Is `if_type` a sufficient lock for serial opens and closes? | 4 files | holds |
| `if_net_open_race` | ... when a file is opened while the network interface starts? | 1 file | violated |
| `rx_stream` | Is every complete message dispatched once, in order, and read once, and do reads end? | messages of 4 to 6 bytes, transfers of up to 6, 2 URBs, ring of 1 frame, 2 units, 1 error | holds |
| `store_data` | Does the tool read what is stored, and end? | stores of 3 and 2 frames, page of 2, 1 failure, kill, restart or deletion | holds |
| `lifecycle` | What is left of what was built up, who finds what freed, and is the structure freed in the end? | 2 files, an attribute handler and an IIO callback, 3 tries, failures at every stage, all four products and the boot loader | holds |
| `settings` | Do settings take effect, and users get their own data? | 2 processes, 2 channels, 3 calls, 2 failed commands, either kind of product | holds |

Why the bounds are enough. *Ring:* 9 bytes through 4 cells is more than two
laps, so both pointers wrap and meet every offset; the request sizes include 1,
one less than the ring, and one more than fits. *Transmit:* with one URB slot
everyone contends for it, with two a completion can overtake the thread; two
messages fill the ring and the third has to wait; two stops give
stop-start-stop; one congestion report makes a period without tokens. *Network
transmit:* two frames are the one whose callback is late and the one that could
be mistaken for it; one close (and another open) or restart is followed by the
close that the unplug makes; the proofs cover longer sequences for all safety
properties of the run. *Commands:* a stale answer takes two calls, and its
confusion with a later call of the same command three; two processes are enough
for any overlap, since the semaphore admits one. *Receive:* a message of six
bytes is cut at every place, begins behind noise, contains the markers of
another one, and a transfer can hold the end of one and the beginning of the
next; a ring of one frame is full after one. *Store data:* three frames are more
than a page and not a multiple of it; the second store shows what the first one
leaves behind. *Life cycle:* two files are one that keeps the structure and one
that opens while it goes; the third try of the first command is the last.
*Settings:* three calls are an open, a start and a call that
interferes; two failed commands may come anywhere, also one after the other in
one sequence; a stop may tell the channel three times, with anything in between. A
call is a whole sequence of commands, and DataOfRun,
SettingsInForce and IfTypeNamesUser are about what a second call finds when it
comes between two of them. *Arbitration:* two files race, the others only change
the count. The proofs (section 5) cover all other values for the properties they
state.

`CHECK_DEADLOCK FALSE` is set because every behaviour is finite: the bounds on
bytes, messages, calls and events run out, and an unplugged device stays
unplugged.

## 4. Fairness

Safety is checked and proved without fairness. Liveness assumes:

- `TxPath`, `NetTx`: weak fairness of each actor that runs on its own: the tx
  thread, a process inside a call, a stop, a call of the network core that has
  begun, a callback or work that has begun, `apt_usbtrx_term` (the scheduler
  runs them; `msleep` and timeouts end), the clock (`jiffies` advances), the
  completion of an URB (the device takes it, or the USB core cancels it when
  the device goes), the device's report that its buffer has drained.
- `CommandChannel`: weak fairness of callers, strong fairness of the
  acquisition of `send_msg_sem`, since the kernel's semaphore queues its
  waiters. Nothing is assumed of the device's answers or of the receive
  callback: the wait has a timeout.
- `RxStream`: weak fairness of callback, reader and term, and of a transfer when
  there is data and an URB to take it.
- `StoreData`: weak fairness of the tool, the dispatch, and a device that owes
  frames; a command to a device that is gone fails.
- `Lifecycle`: weak fairness of probe and disconnect, of the attribute handlers
  and of each file's open and call in progress; strong fairness of release: a process that has the file open closes
  it in the end (calls that come and go disable the release meanwhile).

Nothing is assumed of signals, or of new writes, opens and commands.

`StopEnds` depends on finitely many writes: the stop loop polls every 100 ms, and
with an endless stream of writes it could find every slot in use each time. It
exempts, by name, the stop that meets a tx thread which spins for ever on a header
without its body (`~QuietStop /\ []Spinning`): there the stop does not end in the
code either. `QueueReopens` and `NetUnplugEnds` exempt the same after a restart that
has overlapped a transmit (`CaughtForGood`). With a quiet stop (`tx_net`) the property
holds without the exemption, since the ring is never torn.

## 5. Proofs

**`RingBufferProofs`**, from `SizeAssumption` (the buffer is not empty) and
`RequestsAssumption` (no request of 0 bytes, which `RingBuffer` does not issue):
`TypeCorrect` and `MemorySafe` hold with clears anywhere, by the invariant
`Bounds`. For exclusive clears the invariant is `Bounds /\ Inv`: the cells from
`read` to `write` hold bytes `taken+1..accepted` (`Stream`); the writer in
progress stands at `write`, still has room, and has put its bytes behind them
(`WriterInv`); the reader in progress stands at `read` and takes no more than is
used (`ReaderInv`) and has the next bytes of the stream (`GotInv`).
`StoredInOrder` alone is not inductive: the byte a reader copies is right only
because its pointers, loaded earlier, still delimit stored bytes. From it
follow `StoredBytesInOrder`, `ReadsAreInOrder`, `CopiesAreDisjoint`,
`FreeSizeIsBound`, and `RingImplementsFifo`: the refinement mapping sends the
ring to the window of accepted, not yet taken bytes; only the end of a write,
the end of a read and the first store of a clear change it.

**`TransmitProofs`**, the transmit path: `Safe` (types, the bounds of the pointers, slots, shutdown)
gives `TypeCorrect`, `SlotsAreConserved` and `FreedIsUnused` in both modes. With
`QuietStop`, `Quiet` (a clear request is pending only inside the stop loop; no
write is in progress unless the interface is up; a served request leaves nothing
to send) and `Ordered` (what is in the ring, in the thread's hand and submitted
is one increasing sequence) give `StopDrains`, `MessagesInOrder` and
`StoppedIsSilent`. With `RoomInv` (a write in progress still has the room it has
found) they give `TransmitImplementsQueue`: the refinement mapping sends the
messages in the ring and the one in the thread's hand to the waiting messages of
`TxQueue`; a write is seen when it stores its pointer, a clear at its first store,
the end of a stop when its loop ends, and a take not at all.
`SleepersAreWoken` says that the thread, a stop and `kthread_stop` sleep only for
what somebody is about to do (`NoWaitInVain`), by `LeaveInv` (the thread leaves only
when `apt_usbtrx_term` tells it to) and `FlushInv` (terminate begins with no URB in
flight, meets none later, and finds the network interface stopped).

The network interface, on top of `Safe`, for `~QuietStop`, the mode in which
NetTx takes TxPath: `PhaseInv` relates the interface to the stop loop, the clear
request and terminate; `CancelInv` says what terminate waits for and what a close
has cancelled; `CloseInv` that the stop loop leaves nothing behind; `CauseInv`
why a queue is stopped. While no restart has overlapped a transmit, `FrameInv`
says that one frame at a time is with the writer, in the ring, with the thread,
in an URB or in a callback, and `EchoInv` that the echo is its own. They give
all safety properties of `net_tx`. With `LeaveInv`, `FlushInv` and `NotRearmed` (a
cancel of the statistics work meets no new schedule) they give
`NetWaitersAreServed`: a close, a restart and terminate wait only for what is going
to happen (`NetWaitsEnd`). `XmitIsTaken` is proved for every ring
that holds one frame: that is why the one echo slot suffices.

**`CommandChannelProofs`**, for any processes, commands and number of calls:
`SemInv` gives `SemaphoreIsExclusive`; `NumberInv` (calls in progress have
numbers of their own), `AnswerInv` (until a request is given up, the only message
under way is the one between the waiting command and the device: requested,
answered, dispatched or completed) and `MessageInv` (an answer has the command of
its call) give `AnswersAreDue`; `MissInv` (before its send a call has no
message under way; while it waits, what has been dispatched of its answer lies in
the buffer and the completion is done) gives `AnswersAreNotMissed`; `TimeInv`
gives `ResetsReturnTheirTime` under `~SharedReset` (calls of RESET_TS do not
overlap; the run `cmd_shared_reset` shows that this cannot be dropped).

**`InterfaceArbitrationProofs`**: `TypeCorrect` for any overlap, because the
count is exactly the number of files between their increment and decrement
(`CountInv`); `SerialUseIsExclusive` and `SerialUseGetsFrames` when both
constants are TRUE, for any finite set of files (`SerialInv`).

**`RxStreamProofs`**, for any bytes, any cutting into transfers and any lengths
that satisfy `LengthsAssumption`: `StreamInv` (the buffer is the end of the
received stream), `SizeInv` (what the parser leaves is shorter than a message),
`TakenInv` (every position the parser is done with lies in a dispatched message
or is one where no message can begin, whatever comes later), `ReaderInv`. They
give all safety properties of `rx_stream`. `BufferNeverOverflows` needs the
buffer to be twice a transfer and a transfer to be at least a message, which is
how the code sizes them. `WakeupsArrive`: no wake-up is lost between the test of the
ring and the sleep (`NoWakeupLost`, inductive over the types).

**`StoreDataProofs`**, for any stores of any number of frames, any ring that
holds a frame, any size of a READ and any number of failures, kills and
deletions (`IdsAssumption` to `EventsAssumption`): while no transfer was left
running, the frames of the store are first those that were read, then those in
the buffer of the READ, in the ring and on the wire, then the one that the device
sends next (`TakenInv`, `NumberInv`); what was requested and has not arrived and
what has arrived is a page (`PageInv`); at most one answer is under way, and the
answer to a stop is the last message of a transfer (`ReplyInv`), so that nothing
moves between two transfers (`IdleInv`); the list is as far as its index says
(`ListInv`). `Inv` is their conjunction and gives all safety properties of
`store_data`. That no frame is dropped is part of it: `PageInv` is why it holds.
`PageWaitsAreServed` (`WaitIsServed`: no READ waits for frames that nobody owes) needs
the other direction of the page: `EndInv` (while the tool reads, the end of the
transfer was noted, is on the wire or is owed) and `OweInv` (what was received, is on
the wire and is owed is exactly a page, from an accepted request to the next).

**`LifecycleProofs`**, for any finite set of files: `StageInv` (what each stage
relies on), `CleanInv` (what each stage of `apt_usbtrx_term` has taken back),
`FileInv` (opens hold the minor number, no file without a live device) and
`KrefCounts` are inductive together and give all safety properties of
`lifecycle`. `OnlyIioFindsItFreed` and `DeviceLeavesOnlyThese` state the properties
of the run; the theorems before them state their conjuncts (a process in open and
a handler of an attribute find the structure; a callback of the IIO device finds
it until disconnect; disconnect leaves the IIO device; a probe that fails in
`apt_usbtrx_init` leaves receive URBs that were submitted again, one that fails
before leaves four allocations).

**`ProductsProofs`**, over `ProductsSpec`, for any processes, channels, settings
and failures. The CAN device: `ForInv` (a call is at a command of its own
sequence, and the network core's calls match the phase of the interface),
`UserInv` and, while no two checks overlapped, `AloneInv` (who has passed a check
is alone) and `ConfInv` (the settings an open in progress has made so far are
the interface's), `TokenInv`, `RunInv`. They give `CanInterfaceIsUsed`,
`TokensFitRate`, `NetIsConfigured`, `FramesAreOfRun`.
`StopInv` (a stop in progress tells the
channel at most three times, and a channel that it has told, that runs and that
nobody else has touched is about to stop) gives `StopsAreObeyed`. The analog device:
`AnalogUserInv`, `AnalogAloneInv` and `SampleInv` (what is
under way has the layout of the run; a start that nobody has disturbed finds
nothing under way) give `InterfaceIsUsed` and `SamplesAreOfRun`. Both parts first
reduce each action to its effect on the calls (`...Effect`, `...Frame`,
`AnalogSteps`), then prove the invariants over the effects. `NetAssumption` says
that the network core is not one of the processes. `IfTypeIsUsed`, `DataIsOfRun`
and `SettingsAreInForce` put the theorems of both products together as the
properties of `settings`.

What the device holds: `HoldsInv` (each bit rate, timing and trigger is in the
device as its packing function packs it) and `SummaryInv` (a counter that is not
zero counts a frame that the bus carried) give, with the lemmas that the tables
are inverse on the values that are sent, `HeldIsWhatIsShown`. `WriteInv` says that
the analog device has bytes that the driver can parse, and that a call which
nobody has disturbed is about to send what the device has but for the attribute
written (`Undisturbed`); `WriteStep` lists what a step can do to the calls and the
device, and each of its disjuncts keeps the invariant. It gives
`WritesAreInEffect` and `NoChangeWhileRunning`, for every mode of the attributes
that is in the tables of the conversions (`ModesAssumption`: the attributes offer
no other), and every voltage and frequency (`AnalogAssumption`: integers).

The type invariants of the modules with theorems are proved and not run (those
of `AnalogConfig` and `CanConfig` describe the state and nothing more); some more
invariants are proved only, since the runs would add nothing to the proof:
`StoredInOrder`, `ReadsInOrder`, `CopiesInBounds` and `FreeSizeBoundsWrite` of the
ring, `FreedAfterThread`, `StoppedIsDrained` and `SentInOrder` of the transmit
path, `NothingSentWhileDown` (which `ImplementsQueue` implies in `tx_net`),
`ClosedIsClean` of the network interface, `FreedNotRead` of the receive path (a
completion of `rx_done` means that no read copies; `CompletionEndsReads`), and the four that say that nobody waits in vain: `NoWaitInVain`, `NetWaitsEnd`,
`NoWakeupLost`, `WaitIsServed`.

Only model-checked: everything temporal (`RingDrains`, `StopEnds`, `CommandsEnd`,
`ReadReturns` with the end of an unplug, `StreamDrains`, `QueueReopens`,
`NetUnplugEnds`, `UnplugFrees`, `ToolEnds`), because liveness under fairness and
ENABLED are outside the prover. What a liveness property needs besides fairness,
that whoever waits is due to be woken, is proved for `StopEnds`, `NetUnplugEnds`,
`ReadReturns` and `ToolEnds` by the four theorems on waiting above, and for
`CommandsEnd` by `AnswersAreNotMissed`; that fair steps then end the wait stays with
TLC.

## 6. Findings

1. *RESET_TS reports another call's time* (`cmd_shared_reset`).
   `apt_usbtrx_reset_ts` stores the time in `*dev->resettime` before it is
   admitted by the semaphore, and all devices share one variable; the ACK copies
   whatever it holds by then to `basetime`, which the ioctl returns.
2. *A file opened while the network interface starts is accepted*
   (`if_net_open_race`): `if_type` becomes NET only after the last of the
   commands, although "simultaneous use with SocketCAN is prohibited".

Further observations, met while modelling, without a line in the repository they
clearly contradict. The properties exempt them explicitly where they say so.

- After a request that was given up, a later call of the same command can take
  its late answer for its own (`AnswerIsDue`).
- `apt_usbtrx_write_tx_rb` admits a message of exactly the free size, which the
  ring then refuses (`FreeSizeBoundsWrite`).
- A close of the EP1-CF02A file counts, checks and releases in three steps; a
  file opened in between is left without `if_type`.
- A stop command that fails leaves `if_type` at NET: the channel is refused to
  everybody until the device is unplugged (`CanInterfaceHasUser`, the phase
  "stuck" of the models).
- A frame that the tx thread drops, or that a restart clears, leaves the network
  queue stopped (`lost` in `QueueHasCause`); a restart through netlink may clear
  the ring under a transmit (`overlapped`).
- A receive URB that ends with `-EPIPE` or `-EPROTO`, or cannot be resubmitted, is
  gone; after the last one the device is silent (`StreamDrains`).
- A clear that overlaps a `write()` to the character device, or a restart that
  overlaps a transmit, can leave the head of a message without its body in
  `tx_data`. `while (remain > 0)` (`apt_usbtrx_core.c:677`) then spins, because a
  rawread of an empty ring returns 0: the thread keeps its slot and never serves
  `tx_data_clear_requested`, and the stop does not end unless somebody writes
  (`Spinning` in `StopEnds`, `CaughtForGood` in `QueueReopens` and `NetUnplugEnds`).
- A copy with host timestamps that faults halfway loses frames (`spilt`).
- `apt_usbtrx_term` waits at most 100 ms, interruptibly, for `rx_done`
  (`apt_usbtrx_main.c:581`) and then frees `rx_data`. A read that copies completes
  `rx_done` only if its `onclosing`, read before the copy, was set, which it was not
  (`apt_usbtrx_fops.c:300`): a copy in progress is always waited for in vain, and one
  that takes longer reads a freed ring (`ReadFreed`).
- The attributes and buffer callbacks of the EP1-AG08A's IIO device are registered
  with devm and outlive `kref_put` in disconnect (`apt_usbtrx_main.c:751`): between
  it and the release by devm they can find the structure freed, and from
  `apt_usbtrx_term` on `unique_data` (`IioFindsDeviceUntilDisconnect`). The release
  itself calls `predisable` and `postdisable` of a buffer that is still enabled.
- Attributes of `apt_usbtrx_sysfs_init` can find `unique_data` freed: `apt_usbtrx_term`
  frees it (`apt_usbtrx_main.c:622`), the attributes are removed after it (line 745)
  (`AttributeFindsDevice`).
- A probe that fails before `apt_usbtrx_init` leaks what it had allocated of
  `unique_data`, `rx_transfer`, `rx_complete` and `rx_rbmsg` (`apt_usbtrx_main.c:659-687`);
  one that fails in it leaves receive URBs that the callback had submitted again:
  they are not anchored (`apt_usbtrx_core.c:256`), so nothing kills them, and the
  structure and their buffers are freed under them (`FailedProbeLeaves`).
- `stop_can` of the AP-CT2A succeeds also when the channel still says that it runs,
  after telling it three times (`StoppedOrToldThrice`).
- `kthread_run` returns an error pointer, the code tests for NULL
  (`UnplugFrees`, stage "oops").
- An output voltage of 1 to 19 mV, or 5120 mV, is sent as the zero which the
  workaround in `ep1_ag08a_msg_pack_set_analog_output` is there to avoid
  (`NoZeroOutput`).
- `tx_transfer_max_token` keeps the new rate when SET_MODE fails (`TokensOfRate`).
- The AP-CT2A trigger is read back with its logic inverted and its id modulo 2048,
  the EP1-CH02A bit timing as the bytes it was sent in, whatever was asked for
  (`StatusShowsSettings`).

## 7. Not modelled, and why

- *Bit timing of the EP1-CF02A*: the kernel's search with other sample points;
  stateless, thousands of 32-bit candidates, out of TLC's reach.
- *Firmware update*: one static counter in one function and a boot loader that is
  not in the repository (hazard `apt_usbtrx_fops.c:751`).
- *What the bytes of a torn `tx_data` say*: TxPath lets the thread find any lengths
  there, and says nothing of the content of what it then sends.
- *Unplugging in the configuration modules* (`AnalogConfig`, `CanConfig`): the early
  returns while `onclosing` is set. `Lifecycle` has the unplug.
- *Two writers of one file, two readers of the store data*: the code promises
  nothing there, and no property could be stated.
- *`start_xmit` and URB callbacks of AP-CT2A and EP1-CH02A*: the shape of NetTx.
- *The polled command mode* before `rx_ongoing`: one process, no concurrency.
- *Contents*: timestamps, layouts of messages no property is about, what
  attributes print, logging.
- *Weak memory ordering*; *tools other than the store data list, samples, unit
  tests, build files*.
