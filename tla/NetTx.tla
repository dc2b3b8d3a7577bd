-------------------------------- MODULE NetTx --------------------------------
(***************************************************************************)
(* The EP1-CF02A network interface on top of the transmit path: one frame  *)
(* at a time.  start_xmit stops the network queue, keeps the frame as the  *)
(* echo skb of slot 0 and writes it to tx_data; the callback of its URB    *)
(* loops the echo back and wakes the queue.  Closing, restarting after     *)
(* bus-off and unplugging take the ring, the echo, the statistics work and *)
(* finally the net_device itself away.                                     *)
(*                                                                         *)
(* The ring, the tx thread and the stop loop are TxPath's, taken with      *)
(* QuietStop = FALSE: what the network core guarantees is stated by the    *)
(* guards here.  It waits for a transmit in progress before it closes the  *)
(* device, but not before it restarts it.  Opens, closes and restarts are  *)
(* serialised by the network core.  A behaviour begins with the interface  *)
(* open.                                                                   *)
(***************************************************************************)
EXTENDS TxPath

VARIABLES
    queue,          \* the network queue: "running" or "stopped"
    echo,           \* the frame in echo skb slot 0, 0 for none
    ifc,            \* where the interface is between open and close
    netdev,         \* unique_data->netdev is not NULL
    work,           \* the statistics work
    cancelling,     \* cancel_delayed_work_sync is waiting for it
    done,           \* completed URBs: the rest of their callbacks is to run
    lost,           \* history: the frame of the stopped queue was dropped
    overlapped      \* history: a transmit overlapped a restart's clear

net == <<queue, echo, ifc, netdev, work, cancelling, done, lost, overlapped>>
netvars == <<vars, net>>

Running == {"up", "restarting", "starting"}   \* the network core may transmit

NetInit ==
    /\ Init
    /\ queue = "running" /\ echo = 0
    /\ ifc = "up" /\ netdev = TRUE
    /\ work = "pending" /\ cancelling = FALSE
    /\ done = << >>
    /\ lost = FALSE /\ overlapped = FALSE

-----------------------------------------------------------------------------
(* ep1_cf02a_netdev_start_xmit: the queue is stopped and the echo kept     *)
(* before the frame is written.                                            *)

(* Fault: the queue is left running.                                       *)
XmitKeepsQueue ==
    /\ ifc \in Running
    /\ queue = "running"
    /\ WriteCheck
    /\ echo' = IF echo = 0 THEN accepted + 1 ELSE echo
    /\ UNCHANGED <<queue, ifc, netdev, work, cancelling, done, lost, overlapped>>

Xmit ==
    /\ ifc \in Running
    /\ queue = "running"
    /\ WriteCheck
    /\ queue' = "stopped"
    /\ echo' = IF echo = 0 THEN accepted + 1 ELSE echo
    /\ overlapped' = (overlapped \/ ifc = "restarting")
    /\ UNCHANGED <<ifc, netdev, work, cancelling, done, lost>>

NetWrite == (WriteCopy \/ WritePublish) /\ UNCHANGED net

(* The thread: as in TxPath.  A failed submit drops the frame, bytes that  *)
(* are no message are dropped, and so may the frame be by a clear that is  *)
(* served while the queue is stopped.                                      *)
NetThread ==
    /\ Thread
    /\ lost' = \/ lost
               \/ ThreadSubmitFails \/ BrokenSkip
               \/ queue = "stopped" /\ ThreadClearWrite
    /\ UNCHANGED <<queue, echo, ifc, netdev, work, cancelling, done, overlapped>>

(* apt_usbtrx_write_bulk_callback gives the slot back ...                  *)
NetUrbComplete ==
    /\ UrbComplete
    /\ done' = Append(done, sent[Len(sent) - inflight + 1])
    /\ UNCHANGED <<queue, echo, ifc, netdev, work, cancelling, lost, overlapped>>

(* Fault: the callback counts the frame and leaves the queue alone.        *)
CallbackNoWake ==
    /\ done # << >>
    /\ done' = Tail(done)
    /\ echo' = 0
    /\ UNCHANGED <<vars, queue, ifc, netdev, work, cancelling, lost, overlapped>>

(* ... and ep1_cf02a_write_bulk_callback loops the echo back and wakes the *)
(* queue, whatever the status of the URB was.                              *)
Callback ==
    /\ done # << >>
    /\ done' = Tail(done)
    /\ echo' = 0
    /\ queue' = "running"
    /\ lost' = FALSE
    /\ UNCHANGED <<vars, ifc, netdev, work, cancelling, overlapped>>

-----------------------------------------------------------------------------
(* The statistics work returns when it finds on_terminating set; otherwise *)
(* it sends its command and rearms itself, on success and on error, unless *)
(* it is being cancelled.                                                  *)

WorkRuns ==
    /\ work = "pending"
    /\ work' = IF term = "no" THEN "running" ELSE "idle"
    /\ UNCHANGED <<vars, queue, echo, ifc, netdev, cancelling, done, lost, overlapped>>

WorkEnds ==
    /\ work = "running"
    /\ work' = IF cancelling THEN "idle" ELSE "pending"
    /\ UNCHANGED <<vars, queue, echo, ifc, netdev, cancelling, done, lost, overlapped>>

(* cancel_delayed_work_sync begins: it takes a pending work back and keeps *)
(* everyone from scheduling it again; it has ended when the work is idle.  *)
Cancel ==
    /\ cancelling' = TRUE
    /\ work' = IF work = "pending" THEN "idle" ELSE work

Cancelled == work = "idle" /\ cancelling' = FALSE

-----------------------------------------------------------------------------
(* The loop of ep1_cf02a_stop_can_interface begins.                        *)
StopLoop ==
    /\ clear_requested' = TRUE
    /\ stopper' = "loop"
    /\ mark' = accepted
    /\ UNCHANGED <<ring, writer, thread, tokens, urbs, closing>>

(* Fault: the close leaves the statistics work alone.                      *)
CloseBeginKeepsWork ==
    /\ ifc = "up"
    /\ writer.pc = "idle"
    /\ \/ term = "no" /\ stops < MaxStops
       \/ term = "terminate" /\ ~cancelling
    /\ ifc' = "cancelling"
    /\ UNCHANGED <<vars, queue, echo, netdev, work, cancelling, done, lost, overlapped>>

(* ep1_cf02a_netdev_close, on behalf of the user or of unregister_netdev   *)
(* in ep1_cf02a_terminate.                                                 *)
CloseBegin ==
    /\ ifc = "up"
    /\ writer.pc = "idle"
    /\ \/ term = "no" /\ stops < MaxStops
       \/ term = "terminate" /\ ~cancelling
    /\ Cancel
    /\ ifc' = "cancelling"
    /\ UNCHANGED <<vars, queue, echo, netdev, done, lost, overlapped>>

CloseStop ==
    /\ ifc = "cancelling"
    /\ work # "running"
    /\ cancelling' = FALSE
    /\ StopLoop
    /\ stops' = IF term = "no" THEN stops + 1 ELSE stops
    /\ ifc' = "stopping"
    /\ UNCHANGED <<queue, echo, netdev, work, done, lost, overlapped>>

(* Fault: the close frees no echo skb.                                     *)
CloseDoneKeepsEcho ==
    /\ ifc = "stopping"
    /\ done = << >>
    /\ StopCommand
    /\ ifc' = "down"
    /\ queue' = "stopped"
    /\ UNCHANGED <<echo, netdev, work, cancelling, done, lost, overlapped>>

(* The command goes out behind the URBs, and their callbacks come first.   *)
(* Then netif_stop_queue and close_candev, which frees the echo skb.       *)
CloseDone ==
    /\ ifc = "stopping"
    /\ done = << >>
    /\ StopCommand
    /\ ifc' = "down"
    /\ queue' = "stopped"
    /\ echo' = 0
    /\ UNCHANGED <<netdev, work, cancelling, done, lost, overlapped>>

(* The command fails: close returns -EIO before all that.  if_type stays   *)
(* NET, so the interface cannot be opened again.                           *)
CloseFails ==
    /\ ifc = "stopping"
    /\ StopCommandFails
    /\ ifc' = "stuck"
    /\ UNCHANGED <<queue, echo, netdev, work, cancelling, done, lost, overlapped>>

NetStopLoop == (StopTryLock \/ StopUnlock) /\ UNCHANGED net

(* ep1_cf02a_netdev_open: settings and start command, then the queue and   *)
(* the statistics work are started.                                        *)
OpenBegin ==
    /\ ifc = "down"
    /\ term = "no"
    /\ ifc' = "opening"
    /\ UNCHANGED <<vars, queue, echo, netdev, work, cancelling, done, lost, overlapped>>

OpenStarted ==
    /\ ifc = "opening"
    /\ StartInterface
    /\ ifc' = "started"
    /\ UNCHANGED <<queue, echo, netdev, work, cancelling, done, lost, overlapped>>

OpenDone ==
    /\ ifc = "started"
    /\ ifc' = "up"
    /\ queue' = "running"
    /\ work' = IF cancelling THEN work ELSE "pending"
    /\ lost' = FALSE
    /\ UNCHANGED <<vars, echo, netdev, cancelling, done, overlapped>>

OpenFails ==
    /\ ifc = "opening"
    /\ ifc' = "down"
    /\ UNCHANGED <<vars, queue, echo, netdev, work, cancelling, done, lost, overlapped>>

(* ep1_cf02a_netdev_set_mode(CAN_MODE_START), after the CAN core has       *)
(* flushed the echo skb.  The queue is neither stopped nor woken.          *)
RestartBegin ==
    /\ ifc = "up"
    /\ term = "no"
    /\ stops < MaxStops
    /\ StopLoop
    /\ stops' = stops + 1
    /\ echo' = 0
    /\ ifc' = "restarting"
    /\ overlapped' = (overlapped \/ writer.pc # "idle")
    /\ UNCHANGED <<queue, netdev, work, cancelling, done, lost>>

RestartStopped ==
    /\ ifc = "restarting"
    /\ done = << >>
    /\ StopCommand
    /\ ifc' = "starting"
    /\ UNCHANGED <<queue, echo, netdev, work, cancelling, done, lost, overlapped>>

RestartDone ==
    /\ ifc = "starting"
    /\ StartInterface
    /\ ifc' = "up"
    /\ UNCHANGED <<queue, echo, netdev, work, cancelling, done, lost, overlapped>>

(* The stop or the start command fails: the interface stays as it is.      *)
RestartFails ==
    /\ \/ ifc = "restarting" /\ StopCommandFails
       \/ ifc = "starting" /\ UNCHANGED vars
    /\ ifc' = "up"
    /\ UNCHANGED <<queue, echo, netdev, work, cancelling, done, lost, overlapped>>

-----------------------------------------------------------------------------
(* ep1_cf02a_terminate: on_terminating, cancel_delayed_work_sync ...       *)
NetTermBegin ==
    /\ done = << >>
    /\ TermBegin
    /\ Cancel
    /\ UNCHANGED <<queue, echo, ifc, netdev, done, lost, overlapped>>

NetTermCancelled ==
    /\ term = "terminate" /\ cancelling /\ ifc # "cancelling"
    /\ Cancelled
    /\ UNCHANGED <<vars, queue, echo, ifc, netdev, work, done, lost, overlapped>>

(* ... unregister_netdev (which closes the interface), free_candev ...     *)
NetTermFree ==
    /\ term = "terminate" /\ ~cancelling
    /\ ifc \in {"down", "stuck"}
    /\ netdev
    /\ netdev' = FALSE
    /\ UNCHANGED <<vars, queue, echo, ifc, work, cancelling, done, lost, overlapped>>

(* ... and apt_usbtrx_term goes on.                                        *)
NetTerm == ~netdev /\ (TermClosing \/ TermStopThread \/ TermFree) /\ UNCHANGED net

-----------------------------------------------------------------------------
Close == CloseBegin \/ CloseStop \/ CloseDone \/ CloseFails
Open == OpenStarted \/ OpenDone \/ OpenFails
Restart == RestartStopped \/ RestartDone \/ RestartFails
Terminate == NetTermBegin \/ NetTermCancelled \/ NetTermFree \/ NetTerm
Work == WorkRuns \/ WorkEnds

NetNext ==
    \/ Xmit \/ NetWrite
    \/ NetThread
    \/ NetUrbComplete \/ Callback
    \/ Work
    \/ Close \/ NetStopLoop
    \/ OpenBegin \/ Open
    \/ RestartBegin \/ Restart
    \/ (Tick \/ ReportFull \/ ReportDrained \/ Unplug) /\ UNCHANGED net
    \/ Terminate

NetSpec == NetInit /\ [][NetNext]_netvars

(* As in TxPath; a callback that has begun ends, a work that runs ends,    *)
(* and a call of the network core that has begun goes on.                  *)
NetFairness ==
    /\ WF_netvars(NetThread)
    /\ WF_netvars(NetWrite)
    /\ WF_netvars(NetUrbComplete)
    /\ WF_netvars(Callback)
    /\ WF_netvars(WorkEnds)
    /\ WF_netvars(CloseStop \/ CloseDone \/ CloseFails \/ NetStopLoop \/ Open \/ Restart)
    /\ WF_netvars(term = "terminate" /\ CloseBegin)
    /\ WF_netvars(Terminate)
    /\ WF_netvars(Tick /\ UNCHANGED net)
    /\ WF_netvars(ReportDrained /\ UNCHANGED net)

NetFairSpec == NetSpec /\ NetFairness

-----------------------------------------------------------------------------
(* Properties                                                              *)

NetTypeOK ==
    /\ TypeOK
    /\ queue \in {"running", "stopped"}
    /\ echo \in 0..MaxMsgs
    /\ ifc \in {"down", "opening", "started", "up", "cancelling", "stopping", "stuck",
                "restarting", "starting"}
    /\ netdev \in BOOLEAN /\ cancelling \in BOOLEAN
    /\ work \in {"idle", "pending", "running"}
    /\ done \in Seq(1..MaxMsgs)
    /\ lost \in BOOLEAN /\ overlapped \in BOOLEAN

(* While the interface is up, the queue is stopped only for a frame that   *)
(* is on its way through the ring, the thread, an URB or its callback, so  *)
(* that something will wake it: the ways to strand the queue are the ones  *)
(* `lost' records, a frame dropped by the tx thread and a frame cleared by *)
(* a restart, and a thread that takes the frame for the body of a message  *)
(* that a restart has broken.                                              *)
QueueHasCause ==
    ifc = "up" /\ queue = "stopped" =>
        \/ lost
        \/ writer.pc # "idle" \/ rd # wr \/ thread.pc \in {"submit", "body"}
        \/ inflight > 0 \/ done # << >>

(* A frame the network core may send is always taken: start_xmit never     *)
(* reaches its NETDEV_TX_BUSY, which would leave the queue stopped and the *)
(* skb both echoed and requeued.  It holds although the ring has room for  *)
(* one frame only, as long as no restart overlapped a transmit.            *)
XmitIsTaken ==
    ifc = "up" /\ queue = "running" /\ writer.pc = "idle" /\ ~overlapped =>
        ~onclosing /\ wr - rd < Capacity

(* A callback loops back the echo of the frame that its URB carried, or    *)
(* none: the network stack never sees a frame that was not transmitted, as *)
(* long as no restart overlapped a transmit (the clear then meets a write  *)
(* in progress, and a frame already sent is found in the ring again).      *)
EchoWasSent == done # << >> /\ ~overlapped => echo \in {0, Head(done)}

(* Nothing uses the net_device when terminate frees it: no URB callback is *)
(* to come (it dereferences unique_data->netdev without a check) and the   *)
(* statistics work is not armed, although open, close, unplug and the work *)
(* that rearms itself overlap.                                             *)
NetdevOutlivesUse ==
    ~netdev => inflight = 0 /\ done = << >> /\ work = "idle"

(* A closed interface holds no frame: none in the ring, the thread or the  *)
(* echo slot, so that the next open starts clean.                          *)
ClosedIsClean ==
    ifc \in {"down", "opening", "started"} =>
        /\ queue = "stopped" /\ echo = 0 /\ work = "idle"
        /\ rd = wr /\ thread.pc # "submit" /\ inflight = 0

(* The network core and terminate do not wait in vain either: a close or a *)
(* restart that waits for its stop has one in progress and a living thread *)
(* to serve it, which is caught in a broken message only if a restart has  *)
(* overlapped a transmit; a cancel waits for a work that runs, which will  *)
(* not be scheduled again; and whoever has left terminate has left nobody  *)
(* behind in a call.                                                       *)
NetWaitsEnd ==
    /\ ifc \in {"stopping", "restarting"} =>
           /\ stopper \in {"loop", "locked", "command"}
           /\ ~should_stop /\ thread.pc # "exit"
           /\ thread.pc = "body" => overlapped
    /\ cancelling => work # "pending"
    /\ term \in {"closing", "waiting", "freed"} =>
           ifc \in {"down", "stuck"} /\ stopper = "down" /\ inflight = 0 /\ done = << >>
    /\ term = "waiting" /\ thread.pc = "down" => sem > 0

(* A restart has overlapped a transmit, and the thread spins for good.     *)
CaughtForGood == overlapped /\ []Spinning

(* A stopped queue is woken, unless its frame was dropped, the interface   *)
(* goes down, or the thread is caught for good.                            *)
QueueReopens ==
    queue = "stopped" /\ ifc \in Running
        ~> \/ queue = "running" \/ lost \/ ifc \notin Running \/ ~attached
           \/ CaughtForGood

(* Unplugging ends with the net_device and the rings freed, whatever the   *)
(* interface, the statistics work and the thread were doing, unless the    *)
(* thread is caught for good: the close then waits for a clear that nobody *)
(* serves.                                                                 *)
NetUnplugEnds == ~attached ~> (~netdev /\ term = "freed") \/ CaughtForGood
=============================================================================
