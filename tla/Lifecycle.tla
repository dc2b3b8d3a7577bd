----------------------------- MODULE Lifecycle -----------------------------
(***************************************************************************)
(* The life of one device structure (apt_usbtrx_dev_t): apt_usbtrx_probe   *)
(* builds it up in stages, any of which may fail; files are opened, used   *)
(* and released; apt_usbtrx_disconnect takes it down again.  Three things  *)
(* keep it alive while somebody uses it: the flags onopening and onclosing *)
(* that turn calls away, the reference count kref, and the minor number,   *)
(* whose removal waits for opens in progress.                              *)
(*                                                                         *)
(* What the kernel does is external: an open holds minor_rwsem for reading *)
(* and usb_deregister_dev takes it for writing; the removal of a sysfs     *)
(* attribute waits for its handler; the USB core cancels every URB before  *)
(* it calls disconnect, and none when probe fails.  Calls on a file never  *)
(* overlap its release.                                                    *)
(***************************************************************************)
EXTENDS Naturals, FiniteSets

CONSTANTS
    Files,              \* processes that open the device file
    MaxRetry            \* tries of the first command (3)

ASSUME FilesAssumption == IsFiniteSet(Files)
ASSUME RetryAssumption == MaxRetry \in Nat \ {0}

VARIABLES
    unit,               \* the device: [dfu, revision, leads, product]
    attached,           \* it is plugged in
    stage,              \* what probe or disconnect does next
    leaving,            \* why the structure is taken down
    held,               \* what has been allocated, registered, started
    urbs,               \* receive URBs: "none", "anchored", "resubmitted"
    tries,              \* tries of GET_DEVICE_ID that are left
    onopening, onclosing, rx_ongoing,
    kref,               \* dev->kref; 0 when the structure is freed
    file,               \* where each file is
    handlers            \* the kinds of sysfs handlers that are running

probing == <<stage, held, urbs, tries, rx_ongoing>>
flags == <<onopening, onclosing>>
users == <<file, handlers>>
vars == <<unit, attached, leaving, probing, flags, kref, users>>

(* dfu: the interface is the boot loader's.  revision: the firmware knows  *)
(* the revision command (is_support_revision_command).  leads: its clock   *)
(* is the one to reset (is_need_init_reset_ts, and no sync pulse input).   *)
(* Neither is asked of a boot loader.                                      *)
AllUnits == [dfu : BOOLEAN, revision : BOOLEAN, leads : BOOLEAN,
          product : {"ct2a", "ch02a", "cf02a", "ag08a"}]
Units == {u \in AllUnits : /\ u.product \in {"cf02a", "ag08a"} => u.revision
                           /\ u.dfu => u.revision /\ ~u.leads}

Init ==
    /\ unit \in Units
    /\ attached = TRUE
    /\ stage = "allocate" /\ leaving = "no"
    /\ held = {} /\ urbs = "none" /\ tries = MaxRetry
    /\ onopening = FALSE /\ onclosing = FALSE /\ rx_ongoing = FALSE
    /\ kref = 0
    /\ file = [f \in Files |-> "closed"]
    /\ handlers = {}

-----------------------------------------------------------------------------
(* apt_usbtrx_probe up to usb_set_intfdata.  A failure here goes straight  *)
(* to kref_put.                                                            *)

Allocate ==
    /\ stage = "allocate"
    /\ \/ kref' = 1 /\ stage' = "function"
       \/ kref' = 0 /\ stage' = "off"
    /\ UNCHANGED <<unit, attached, leaving, held, urbs, tries, rx_ongoing,
                   flags, users>>

(* apt_usbtrx_init_function knows the product; ...                         *)
InitFunction ==
    /\ stage = "function"
    /\ stage' = "instance"
    /\ UNCHANGED <<unit, attached, leaving, held, urbs, tries, rx_ongoing, flags,
                   kref, users>>

(* ... apt_usbtrx_init_instance sets the fields and calls                  *)
(* unique_func.init_data; ...                                              *)
InitInstance ==
    /\ stage = "instance"
    /\ stage' = "transfer"
    /\ held' = held \cup {"unique_data"}
    /\ onopening' = TRUE
    /\ UNCHANGED <<unit, attached, leaving, urbs, tries, rx_ongoing, onclosing,
                   kref, users>>

(* ... then three buffers; then the endpoints.                             *)
BufferNext == [transfer |-> "complete", complete |-> "rbmsg",
               rbmsg |-> "endpoints", endpoints |-> "register"]

AllocateBuffer ==
    /\ stage \in DOMAIN BufferNext
    /\ stage' = BufferNext[stage]
    /\ held' = IF stage = "endpoints" THEN held ELSE held \cup {stage}
    /\ UNCHANGED <<unit, attached, leaving, urbs, tries, rx_ongoing, flags, kref,
                   users>>

EarlyStages == {"function", "instance"} \cup DOMAIN BufferNext

EarlyFails ==
    /\ stage \in EarlyStages
    /\ leaving' = "failed"
    /\ stage' = "put"
    /\ onopening' = (onopening \/ stage = "instance")
    /\ UNCHANGED <<unit, attached, held, urbs, tries, rx_ongoing, onclosing,
                   kref, users>>

-----------------------------------------------------------------------------
(* apt_usbtrx_init.  A failure here is followed by apt_usbtrx_term.        *)

Fails ==
    /\ leaving' = "failed"
    /\ stage' = "terminate"

(* usb_register_dev: from here on the device file can be opened.           *)
Register ==
    /\ stage = "register"
    /\ \/ /\ held' = held \cup {"minor"}
          /\ stage' = "rx_ring"
          /\ UNCHANGED leaving
       \/ Fails /\ UNCHANGED held
    /\ UNCHANGED <<unit, attached, urbs, tries, rx_ongoing, flags, kref, users>>

RxRing ==
    /\ stage = "rx_ring"
    /\ \/ /\ held' = held \cup {"rx_ring"}
          /\ stage' = "rx_urbs"
          /\ UNCHANGED leaving
       \/ Fails /\ UNCHANGED held
    /\ UNCHANGED <<unit, attached, urbs, tries, rx_ongoing, flags, kref, users>>

(* apt_usbtrx_setup_rx_urbs: URBs that were submitted before one failed    *)
(* stay submitted.  The boot loader needs nothing more.                    *)
SetupRxUrbs ==
    /\ stage = "rx_urbs"
    /\ \/ /\ urbs' = "anchored" /\ rx_ongoing' = TRUE
          /\ held' = held \cup {"rxbuf"}
          /\ stage' = IF unit.dfu THEN "settle" ELSE "device_id"
          /\ UNCHANGED leaving
       \/ /\ Fails
          /\ \/ urbs' = "anchored" /\ held' = held \cup {"rxbuf"}
             \/ UNCHANGED <<urbs, held>>
          /\ UNCHANGED rx_ongoing
    /\ UNCHANGED <<unit, attached, tries, flags, kref, users>>

(* Commands need the device: apt_usbtrx_get_device_id ...                  *)
DeviceIdAnswered == attached

(* ... is repeated while tries are left; the count is not used again, ...  *)
GetDeviceId ==
    /\ stage = "device_id"
    /\ \/ /\ DeviceIdAnswered
          /\ stage' = "serial"
          /\ tries' = 0
          /\ UNCHANGED leaving
       \/ /\ tries' = tries - 1
          /\ IF tries' > 0 THEN UNCHANGED <<stage, leaving>> ELSE Fails
    /\ UNCHANGED <<unit, attached, held, urbs, rx_ongoing, flags, kref, users>>

(* ... the others must be answered.                                        *)
Command(from, to) ==
    /\ stage = from
    /\ \/ /\ attached
          /\ stage' = to
          /\ UNCHANGED leaving
       \/ Fails
    /\ UNCHANGED <<unit, attached, held, urbs, tries, rx_ongoing, flags, kref,
                   users>>

GetSerialNo == Command("serial", "version")
GetFwVersion == Command("version", IF unit.revision THEN "revision" ELSE "tx_ring")
GetFwVersionRevision == Command("revision", "tx_ring")
EnableResetTs == Command("enable", IF unit.leads THEN "reset" ELSE "unique")

(* RESET_TS may also time out ("maybe connect sync cable ?").              *)
ResetTs ==
    \/ Command("reset", "unique")
    \/ /\ stage = "reset" /\ stage' = "unique"
       /\ UNCHANGED <<unit, attached, leaving, held, urbs, tries, rx_ongoing,
                      flags, kref, users>>

TxRing ==
    /\ stage = "tx_ring"
    /\ \/ /\ held' = held \cup {"tx_ring"}
          /\ stage' = "thread"
          /\ UNCHANGED leaving
       \/ Fails /\ UNCHANGED held
    /\ UNCHANGED <<unit, attached, urbs, tries, rx_ongoing, flags, kref, users>>

(* kthread_run reports a failure as an error pointer, which is not the     *)
(* NULL that the code looks for.                                           *)
StartThread ==
    /\ stage = "thread"
    /\ \E t \in {"thread", "error_pointer"} : held' = held \cup {t}
    /\ stage' = "enable"
    /\ UNCHANGED <<unit, attached, leaving, urbs, tries, rx_ongoing, flags, kref,
                   users>>

(* unique_func.init registers a network device or an IIO device ...        *)
UniqueInit(product, thing) ==
    /\ stage = "unique" /\ unit.product = product
    /\ \/ /\ held' = held \cup {thing}
          /\ stage' = "settle"
          /\ UNCHANGED leaving
       \/ Fails /\ UNCHANGED held
    /\ UNCHANGED <<unit, attached, urbs, tries, rx_ongoing, flags, kref, users>>

Ct2aInit == UniqueInit("ct2a", "netdev")
Ag08aInit == UniqueInit("ag08a", "iio")

(* ... after it has asked for the bit timing, which may fail, ...          *)
Ch02aInit == UniqueInit("ch02a", "netdev")

(* ... or for the settings of the device, which may not.                   *)
Cf02aInit ==
    /\ UniqueInit("cf02a", "netdev")
    /\ stage' = "settle" => attached

Settle ==
    /\ stage = "settle"
    /\ onopening' = FALSE
    /\ stage' = "sysfs"
    /\ UNCHANGED <<unit, attached, leaving, held, urbs, tries, rx_ongoing,
                   onclosing, kref, users>>

(* apt_usbtrx_sysfs_init, whose errors are logged and no more.             *)
SysfsInit ==
    /\ stage = "sysfs"
    /\ held' = held \cup {"sysfs"}
    /\ stage' = "bound"
    /\ UNCHANGED <<unit, attached, leaving, urbs, tries, rx_ongoing, flags, kref,
                   users>>

-----------------------------------------------------------------------------
(* External: receive URBs complete at any time.  A callback that is turned *)
(* away by onclosing or a status does not submit its URB again; one that   *)
(* does submit it again does not anchor it again.                          *)
UrbCompletes ==
    /\ urbs # "none"
    /\ urbs' = IF onclosing \/ ~attached THEN "none" ELSE "resubmitted"
    /\ UNCHANGED <<unit, attached, leaving, stage, held, tries, rx_ongoing,
                   flags, kref, users>>

Unplug ==
    /\ attached
    /\ attached' = FALSE
    /\ UNCHANGED <<unit, leaving, probing, flags, kref, users>>

(* The USB core cancels the URBs of the interface and calls disconnect:    *)
(* the device is gone, or somebody unbinds the driver.                     *)
Unbind ==
    /\ stage = "bound"
    /\ leaving' = "unbound"
    /\ urbs' = "none"
    /\ stage' = "terminate"
    /\ UNCHANGED <<unit, attached, held, tries, rx_ongoing, flags, kref, users>>

DisconnectBegin == ~attached /\ Unbind

-----------------------------------------------------------------------------
(* apt_usbtrx_term.                                                        *)

(* Fault: the network device is left to the network core.                  *)
TermUniqueKeeps ==
    /\ stage = "terminate"
    /\ stage' = "closing"
    /\ UNCHANGED <<unit, attached, leaving, held, urbs, tries, rx_ongoing, flags,
                   kref, users>>

(* unique_func.terminate unregisters the network device; nothing does that *)
(* for the IIO device.                                                     *)
Ct2aTerminate == held \ {"netdev"}
Ch02aTerminate == held \ {"netdev"}
Cf02aTerminate == held \ {"netdev"}
Ag08aTerminate == held

TermUnique ==
    /\ stage = "terminate"
    /\ held' = CASE unit.product = "ct2a" -> Ct2aTerminate
                 [] unit.product = "ch02a" -> Ch02aTerminate
                 [] unit.product = "cf02a" -> Cf02aTerminate
                 [] unit.product = "ag08a" -> Ag08aTerminate
    /\ stage' = "closing"
    /\ UNCHANGED <<unit, attached, leaving, urbs, tries, rx_ongoing, flags, kref,
                   users>>

(* The flags, then a wake-up of the reader.  Without a minor number the    *)
(* wait queue of rx_data was never set up, and the wake-up follows a null  *)
(* pointer.                                                                *)
TermClosing ==
    /\ stage = "closing"
    /\ onclosing' = TRUE
    /\ rx_ongoing' = FALSE
    /\ stage' = IF "minor" \in held THEN "stop_thread" ELSE "oops"
    /\ UNCHANGED <<unit, attached, leaving, held, urbs, tries, onopening, kref,
                   users>>

(* kthread_stop, which an error pointer does not survive.                  *)
TermStopThread ==
    /\ stage = "stop_thread"
    /\ held' = IF unit.dfu THEN held ELSE held \ {"thread"}
    /\ stage' = IF "error_pointer" \in held THEN "oops" ELSE "kill"
    /\ UNCHANGED <<unit, attached, leaving, urbs, tries, rx_ongoing, flags, kref,
                   users>>

(* usb_kill_anchored_urbs finds the URBs that never completed.             *)
TermKillUrbs ==
    /\ stage = "kill"
    /\ urbs' = IF urbs = "anchored" THEN "none" ELSE urbs
    /\ stage' = "rings"
    /\ UNCHANGED <<unit, attached, leaving, held, tries, rx_ongoing, flags, kref,
                   users>>

(* Fault: the minor number is removed after the data of the product.       *)
TermRingsToFree ==
    /\ stage = "rings"
    /\ held' = held \ ({"rxbuf", "rx_ring", "unique_data"}
                       \cup IF unit.dfu THEN {} ELSE {"tx_ring"})
    /\ stage' = "deregister"
    /\ UNCHANGED <<unit, attached, leaving, urbs, tries, rx_ongoing, flags, kref,
                   users>>

(* The receive buffers and both rings.                                     *)
TermRings ==
    /\ stage = "rings"
    /\ held' = held \ ({"rxbuf", "rx_ring"}
                       \cup IF unit.dfu THEN {} ELSE {"tx_ring"})
    /\ stage' = "deregister"
    /\ UNCHANGED <<unit, attached, leaving, urbs, tries, rx_ongoing, flags, kref,
                   users>>

Opening(f) == file[f] \in {"check", "unique", "ref"}

(* usb_deregister_dev waits for minor_rwsem; the stage begins when it is   *)
(* in the queue, and from then on new readers wait behind it.              *)
TermDeregister ==
    /\ stage = "deregister"
    /\ \A f \in Files : ~Opening(f)
    /\ held' = held \ {"minor"}
    /\ stage' = "free"
    /\ UNCHANGED <<unit, attached, leaving, urbs, tries, rx_ongoing, flags, kref,
                   users>>

(* The buffers of the structure and unique_func.free_data.                 *)
TermFree ==
    /\ stage = "free"
    /\ held' = held \ {"transfer", "complete", "rbmsg", "unique_data"}
    /\ stage' = IF leaving = "failed" THEN "put" ELSE "sysfs_term"
    /\ UNCHANGED <<unit, attached, leaving, urbs, tries, rx_ongoing, flags, kref,
                   users>>

(* apt_usbtrx_sysfs_term; device_remove_file waits for handlers.           *)
SysfsTerm ==
    /\ stage = "sysfs_term"
    /\ "sysfs" \notin handlers
    /\ held' = held \ {"sysfs"}
    /\ stage' = "put"
    /\ UNCHANGED <<unit, attached, leaving, urbs, tries, rx_ongoing, flags, kref,
                   users>>

Put ==
    /\ stage = "put"
    /\ kref' = kref - 1
    /\ stage' = "off"
    /\ UNCHANGED <<unit, attached, leaving, held, urbs, tries, rx_ongoing, flags,
                   users>>

(* External: devm releases the IIO device after disconnect has returned,   *)
(* and waits for its handlers.                                             *)
DevmRelease ==
    /\ stage = "off" /\ "iio" \in held
    /\ "iio" \notin handlers
    /\ held' = held \ {"iio"}
    /\ UNCHANGED <<unit, attached, leaving, stage, urbs, tries, rx_ongoing,
                   flags, kref, users>>

-----------------------------------------------------------------------------
(* apt_usbtrx_open: usb_find_interface finds the interface while its minor *)
(* number is registered, and the interface data is set all that time.      *)

Move(f, from, to) ==
    /\ file[f] = from
    /\ file' = [file EXCEPT ![f] = to]
    /\ UNCHANGED <<unit, attached, leaving, probing, flags, handlers>>

OpenFind(f) ==
    /\ "minor" \in held
    /\ stage # "deregister"
    /\ Move(f, "closed", "check") /\ UNCHANGED kref

(* Both flags change once, so reading one after the other is one step.     *)
OpenCheck(f) ==
    /\ \/ /\ onopening \/ onclosing
          /\ Move(f, "check", "closed")
       \/ /\ ~onopening /\ ~onclosing
          /\ Move(f, "check", "unique")
    /\ UNCHANGED kref

(* unique_func.open may refuse (InterfaceArbitration).                     *)
OpenUnique(f) ==
    /\ \E to \in {"closed", "ref"} : Move(f, "unique", to)
    /\ UNCHANGED kref

OpenRef(f) ==
    /\ Move(f, "ref", "open")
    /\ kref' = kref + 1

(* Any call on the open file: refused when the device is being closed,     *)
(* else it uses the structure for a while.                                 *)
CallBegin(f) ==
    /\ ~onopening /\ ~onclosing
    /\ Move(f, "open", "call") /\ UNCHANGED kref

CallEnd(f) ==
    Move(f, "call", "open") /\ UNCHANGED kref

(* Fault: a release that is turned away returns at once.                   *)
ReleaseCheckReturns(f) ==
    /\ \/ /\ onopening \/ onclosing
          /\ Move(f, "open", "closed")
       \/ /\ ~onopening /\ ~onclosing
          /\ Move(f, "open", "unique_close")
    /\ UNCHANGED kref

(* apt_usbtrx_release calls unique_func.close unless the device is being   *)
(* closed, and drops the reference in any case.                            *)
ReleaseCheck(f) ==
    /\ \/ /\ onopening \/ onclosing
          /\ Move(f, "open", "drop")
       \/ /\ ~onopening /\ ~onclosing
          /\ Move(f, "open", "unique_close")
    /\ UNCHANGED kref

ReleaseClose(f) ==
    Move(f, "unique_close", "drop") /\ UNCHANGED kref

ReleaseDrop(f) ==
    /\ Move(f, "drop", "closed")
    /\ kref' = kref - 1

HandlerBegin(h) ==
    /\ h \in held /\ h \notin handlers
    /\ handlers' = handlers \cup {h}
    /\ UNCHANGED <<unit, attached, leaving, probing, flags, kref, file>>

(* A handler of the attributes of apt_usbtrx_sysfs_init uses the           *)
(* structure.  An attribute that is being removed starts no handler.       *)
AttributeBegin == stage # "sysfs_term" /\ HandlerBegin("sysfs")

(* So does a callback of the IIO device of the EP1-AG08A, an attribute or  *)
(* a change of its buffer, from its registration to its release by devm.   *)
IioBegin == HandlerBegin("iio")

HandlerEnd(h) ==
    /\ h \in handlers
    /\ handlers' = handlers \ {h}
    /\ UNCHANGED <<unit, attached, leaving, probing, flags, kref, file>>

-----------------------------------------------------------------------------
Probe ==
    \/ Allocate \/ InitFunction \/ InitInstance \/ AllocateBuffer \/ EarlyFails
    \/ Register \/ RxRing \/ SetupRxUrbs
    \/ GetDeviceId \/ GetSerialNo \/ GetFwVersion \/ GetFwVersionRevision
    \/ TxRing \/ StartThread \/ EnableResetTs \/ ResetTs
    \/ Ct2aInit \/ Ch02aInit \/ Cf02aInit \/ Ag08aInit
    \/ Settle \/ SysfsInit

Disconnect ==
    \/ DisconnectBegin \/ TermUnique \/ TermClosing \/ TermStopThread
    \/ TermKillUrbs \/ TermRings \/ TermDeregister \/ TermFree \/ SysfsTerm
    \/ Put \/ DevmRelease

Open(f) == OpenFind(f) \/ OpenCheck(f) \/ OpenUnique(f) \/ OpenRef(f)
Release(f) == ReleaseCheck(f) \/ ReleaseClose(f) \/ ReleaseDrop(f)

Next ==
    \/ Probe \/ Disconnect \/ Unbind \/ UrbCompletes \/ Unplug
    \/ \E f \in Files : Open(f) \/ CallBegin(f) \/ CallEnd(f) \/ Release(f)
    \/ AttributeBegin \/ IioBegin \/ \E h \in {"sysfs", "iio"} : HandlerEnd(h)

Spec == Init /\ [][Next]_vars

(* The thread of the USB core that runs probe and disconnect goes on,      *)
(* calls and handlers return, and a process that has the file open closes  *)
(* it in the end.                                                          *)
FairSpec ==
    /\ Spec
    /\ WF_vars(Probe \/ Disconnect) /\ WF_vars(HandlerEnd("sysfs"))
    /\ \A f \in Files :
        /\ WF_vars(OpenCheck(f) \/ OpenUnique(f) \/ OpenRef(f) \/ CallEnd(f))
        /\ SF_vars(Release(f))

-----------------------------------------------------------------------------
Resources == {"unique_data", "transfer", "complete", "rbmsg", "minor", "rx_ring",
              "rxbuf", "tx_ring", "thread", "error_pointer",
              "netdev", "iio", "sysfs"}
Stages == EarlyStages \cup
    {"allocate", "register", "rx_ring", "rx_urbs", "device_id", "serial",
     "version", "revision", "tx_ring", "thread", "enable", "reset", "unique",
     "settle", "sysfs", "bound", "terminate", "closing", "stop_thread", "kill",
     "rings", "deregister", "free", "sysfs_term", "put", "off",
     "oops"}
FileStates == {"closed", "check", "unique", "ref", "open", "call",
               "unique_close", "drop"}

TypeOK ==
    /\ unit \in Units /\ attached \in BOOLEAN
    /\ stage \in Stages /\ leaving \in {"no", "failed", "unbound"}
    /\ held \subseteq Resources
    /\ urbs \in {"none", "anchored", "resubmitted"}
    /\ tries \in 0..MaxRetry
    /\ onopening \in BOOLEAN /\ onclosing \in BOOLEAN /\ rx_ongoing \in BOOLEAN
    /\ kref \in 0..(Cardinality(Files) + 1)
    /\ file \in [Files -> FileStates] 
    /\ handlers \subseteq {"sysfs", "iio"}

UsesFile(f) == file[f] \in {"open", "call", "unique_close", "drop"}

(* The structure is counted once for the driver and once for every file    *)
(* that is open, whatever the order in which the device is unplugged and   *)
(* the files are closed.                                                   *)
KrefCounts ==
    kref = Cardinality({f \in Files : UsesFile(f)})
           + (IF stage \in {"allocate", "off"} THEN 0 ELSE 1)

(* A process inside apt_usbtrx_open finds a live structure with the data   *)
(* of the product, although probe may fail or the device be unplugged      *)
(* between any two of its steps and open takes its reference last.         *)
OpenFindsLiveDevice ==
    \A f \in Files :
        Opening(f) => /\ kref > 0
                      /\ file[f] = "unique" => "unique_data" \in held

(* No process has the file of a device that probe gave up.                 *)
FailedProbeHasNoFile ==
    leaving = "failed" => \A f \in Files : ~UsesFile(f)

(* A handler of an attribute of apt_usbtrx_sysfs_init always finds a       *)
(* structure, but not always the data of the product: disconnect frees the *)
(* data in apt_usbtrx_term, before it removes the attributes.              *)
AttributeFindsDevice ==
    "sysfs" \in handlers =>
        /\ kref > 0
        /\ "unique_data" \in held \/ stage = "sysfs_term"

(* A callback of the IIO device finds both until apt_usbtrx_disconnect     *)
(* frees the data and drops its reference, and may find neither after      *)
(* that, until devm has released the IIO device.                           *)
IioFindsDeviceUntilDisconnect ==
    "iio" \in handlers =>
        /\ kref > 0 \/ (stage = "off" /\ leaving = "unbound")
        /\ "unique_data" \in held \/ stage \in {"sysfs_term", "put", "off"}

(* When disconnect has returned, nothing is left of what probe built but   *)
(* the IIO device, which devm releases, and no receive URB can call back.  *)
DisconnectTakesAllDown ==
    stage = "off" /\ leaving = "unbound" =>
        held \subseteq {"iio"} /\ urbs = "none"

(* A probe that fails in apt_usbtrx_init has everything taken back by      *)
(* apt_usbtrx_term, but for receive URBs that were submitted again: those  *)
(* are not anchored, and call back when the structure is freed.  One that  *)
(* fails before it leaks the data of the product and the three buffers     *)
(* that it had allocated, and has submitted nothing.                       *)
FailedProbeLeaves ==
    stage = "off" /\ leaving = "failed" =>
        IF onclosing
        THEN held = {} /\ urbs # "anchored"
        ELSE held \subseteq {"unique_data", "transfer", "complete", "rbmsg"}
             /\ urbs = "none"

(* Of those that use the structure, a process in open and a handler of     *)
(* apt_usbtrx_sysfs_init never find it freed; a callback of the IIO device *)
(* does so only between apt_usbtrx_disconnect and the release by devm.     *)
OnlyIioFindsFreed ==
    OpenFindsLiveDevice /\ AttributeFindsDevice /\ IioFindsDeviceUntilDisconnect

(* What is left of a device when disconnect or a probe that failed has     *)
(* returned is no more than these two name, and nobody has the file of a   *)
(* device that probe gave up.                                              *)
LeavesOnlyThese ==
    DisconnectTakesAllDown /\ FailedProbeLeaves /\ FailedProbeHasNoFile

(* After unplugging, the structure is freed, provided that the files are   *)
(* closed in the end; nothing is promised after a null pointer.            *)
UnplugFrees == ~attached ~> (kref = 0 \/ stage = "oops")
=============================================================================
