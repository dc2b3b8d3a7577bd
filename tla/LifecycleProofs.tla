-------------------------- MODULE LifecycleProofs --------------------------
(***************************************************************************)
(* Proofs about Lifecycle, for any number of files and any number of tries *)
(* of the first command: whatever the stage at which probe fails and       *)
(* whenever the device is unplugged, the reference count counts the users, *)
(* who may find the structure or its data freed is known exactly, and so   *)
(* is what a disconnect or a failed probe leaves behind.                   *)
(***************************************************************************)
EXTENDS Lifecycle, FiniteSetTheorems, TLAPS

(* TypeOK but for kref, whose bound comes from KrefCounts.                 *)
Types ==
    /\ unit \in Units /\ attached \in BOOLEAN
    /\ stage \in Stages /\ leaving \in {"no", "failed", "unbound"}
    /\ held \subseteq Resources
    /\ urbs \in {"none", "anchored", "resubmitted"}
    /\ tries \in 0..MaxRetry
    /\ onopening \in BOOLEAN /\ onclosing \in BOOLEAN /\ rx_ongoing \in BOOLEAN
    /\ file \in [Files -> FileStates] /\ handlers \subseteq {"sysfs", "iio"}

(* Where probe and disconnect can be.                                      *)
InInit == {"rx_ring", "rx_urbs", "device_id", "serial", "version", "revision",
           "tx_ring", "thread", "enable", "reset", "unique", "settle"}
Guarded == DOMAIN BufferNext \cup {"register"} \cup InInit
Probing == EarlyStages \cup Guarded \cup {"allocate", "sysfs", "bound"}
Stopping == {"stop_thread", "kill", "rings", "deregister"}
Closing == Stopping \cup {"free", "sysfs_term"}
Begun == EarlyStages \cup {"allocate", "register"}
Fallible == Begun \cup (InInit \ {"settle"})
Registered == InInit \cup {"sysfs", "bound", "terminate", "closing", "oops"} \cup Stopping

(* What is there before apt_usbtrx_init.                                   *)
Early == {"unique_data", "transfer", "complete", "rbmsg"}

(* What each stage can rely on: the flags, the minor number and the data.  *)
StageInv ==
    /\ stage \in Probing => leaving = "no" /\ ~onclosing
    /\ stage \in Guarded => onopening
    /\ stage \in {"register", "free"} \cup DOMAIN BufferNext \cup Registered
           => "unique_data" \in held
    /\ "minor" \in held => stage \in Registered /\ (leaving = "failed" => onopening)
    /\ "sysfs" \in held =>
           /\ stage \in {"bound", "terminate", "closing", "oops"} \cup Closing
           /\ leaving # "failed"
    /\ stage \in EarlyStages \cup {"allocate", "register", "rx_ring", "rx_urbs", "device_id"}
           => tries > 0
    /\ leaving = "no" => stage \in Probing \cup {"off"} /\ ~onclosing
    /\ "iio" \in held => leaving # "failed" /\ stage \notin Fallible
    /\ stage \in Begun => held \subseteq Early /\ urbs = "none"
    /\ stage \in {"put", "off"} /\ ~onclosing => held \subseteq Early /\ urbs = "none"

(* What each stage of apt_usbtrx_term has already taken back.              *)
CleanInv ==
    /\ unit.dfu => /\ held \cap {"tx_ring", "thread", "error_pointer", "netdev", "iio"} = {}
                   /\ stage \notin InInit \ {"rx_ring", "rx_urbs", "settle"}
    /\ unit.product = "ag08a" => "netdev" \notin held
    /\ stage \in {"closing"} \cup Closing => "netdev" \notin held
    /\ stage \in Closing \ {"stop_thread"} => held \cap {"thread", "error_pointer"} = {}
    /\ stage \in Closing \ {"stop_thread", "kill", "rings"} =>
           held \cap {"rx_ring", "rxbuf", "tx_ring"} = {}
    /\ stage = "sysfs_term" => held \subseteq {"sysfs", "iio"}
    /\ stage \in {"put", "off"} /\ onclosing => held \subseteq {"iio"}
    /\ stage \in Closing => onclosing
    /\ stage \in {"put", "off"} /\ leaving = "unbound" => onclosing
    /\ leaving = "unbound" => urbs = "none"
    /\ stage \in Closing \ {"stop_thread", "kill"} => urbs # "anchored"
    /\ stage \in {"put", "off"} /\ onclosing => urbs # "anchored"

(* Files and sysfs handlers.                                               *)
FileInv ==
    /\ \A f \in Files : Opening(f) => "minor" \in held
    /\ \A f \in Files : file[f] \notin {"closed", "check"} =>
           leaving # "failed" /\ stage \notin Probing \ {"sysfs", "bound"}
    /\ handlers \subseteq held

Unsettled == Probing \ {"sysfs", "bound"}
Own == IF stage \in {"allocate", "off"} THEN 0 ELSE 1

(* A step that is not a call: what it leaves to files and sysfs handlers.  *)
Undisturbed ==
    /\ UNCHANGED users
    /\ "minor" \in held /\ "minor" \notin held' => \A f \in Files : ~Opening(f)
    /\ \A h \in handlers : h \in held => h \in held'
    /\ stage \notin Unsettled =>
           stage' \notin Unsettled /\ (leaving' = "failed" => leaving = "failed")
    /\ \A n \in Nat : (stage = "allocate" => n = 0) /\ kref = n + Own => kref' = n + Own'

-----------------------------------------------------------------------------
(* The stages of probe, and those of disconnect, keep what they rely on:   *)
(* apt_usbtrx_probe and apt_usbtrx_init.                                   *)
LEMMA ProbeKeeps ==
    ASSUME Types, StageInv, CleanInv, Probe
    PROVE  Types' /\ StageInv' /\ CleanInv' /\ Undisturbed
<1> USE RetryAssumption DEF Types, Stages, Resources, StageInv, CleanInv, Stopping,
       Closing, Registered, InInit, Guarded, Probing, EarlyStages, BufferNext, Unsettled,
       Begun, Fallible, Early, Undisturbed, Own, probing, flags, users
<1>1. CASE Allocate
  BY <1>1 DEF Allocate
<1>2. CASE InitFunction
  BY <1>2 DEF InitFunction
<1>3. CASE InitInstance
  BY <1>3 DEF InitInstance
<1>4. CASE AllocateBuffer
  <2>1. \/ stage = "transfer" /\ stage' = "complete" /\ held' = held \cup {"transfer"}
        \/ stage = "complete" /\ stage' = "rbmsg" /\ held' = held \cup {"complete"}
        \/ stage = "rbmsg" /\ stage' = "endpoints" /\ held' = held \cup {"rbmsg"}
        \/ stage = "endpoints" /\ stage' = "register" /\ held' = held
    BY <1>4 DEF AllocateBuffer
  <2>2. UNCHANGED <<unit, attached, leaving, urbs, tries, rx_ongoing, flags, kref, users>>
    BY <1>4 DEF AllocateBuffer
  <2>3. QED
    BY ZenonT(120), <2>1, <2>2
<1>5. CASE EarlyFails
  BY <1>5 DEF EarlyFails
<1>6. CASE Register
  BY ZenonT(30), <1>6 DEF Register, Fails
<1>7. CASE RxRing
  BY ZenonT(30), <1>7 DEF RxRing, Fails
<1>8. CASE SetupRxUrbs
  BY ZenonT(60), <1>8 DEF SetupRxUrbs, Fails
<1>9. CASE GetDeviceId
  BY <1>9 DEF GetDeviceId, Fails
<1>10. CASE GetSerialNo
  BY <1>10 DEF GetSerialNo, Command, Fails
<1>11. CASE GetFwVersion
  BY <1>11 DEF GetFwVersion, Command, Fails
<1>12. CASE GetFwVersionRevision
  BY <1>12 DEF GetFwVersionRevision, Command, Fails
<1>13. CASE TxRing
  BY <1>13 DEF TxRing, Fails
<1>14. CASE StartThread
  BY <1>14 DEF StartThread
<1>15. CASE EnableResetTs
  BY <1>15 DEF EnableResetTs, Command, Fails
<1>16. CASE ResetTs
  <2>1. /\ stage = "reset" /\ stage' \in {"unique", "terminate"}
        /\ stage' = "unique" => leaving' = leaving
        /\ stage' = "terminate" => leaving' = "failed"
        /\ UNCHANGED <<unit, attached, held, urbs, tries, rx_ongoing, flags, kref, users>>
    BY <1>16 DEF ResetTs, Command, Fails
  <2>2. QED
    BY <2>1
<1>17. CASE Ct2aInit
  BY <1>17 DEF Ct2aInit, UniqueInit, Fails
<1>18. CASE Ch02aInit
  BY <1>18 DEF Ch02aInit, UniqueInit, Fails
<1>19. CASE Cf02aInit
  BY <1>19 DEF Cf02aInit, UniqueInit, Fails
<1>20. CASE Ag08aInit
  BY <1>20 DEF Ag08aInit, UniqueInit, Fails
<1>21. CASE Settle
  BY <1>21 DEF Settle
<1>22. CASE SysfsInit
  BY <1>22 DEF SysfsInit
<1> QED
  BY <1>1, <1>2, <1>3, <1>4, <1>5, <1>6, <1>7, <1>8, <1>9, <1>10, <1>11, <1>12, <1>13, <1>14, <1>15, <1>16, <1>17, <1>18, <1>19, <1>20, <1>21, <1>22 DEF Probe

(* apt_usbtrx_disconnect, apt_usbtrx_term and what follows them.           *)
LEMMA DisconnectKeeps ==
    ASSUME Types, StageInv, CleanInv, Disconnect \/ Unbind
    PROVE  Types' /\ StageInv' /\ CleanInv' /\ Undisturbed
<1> USE RetryAssumption DEF Types, Stages, Resources, StageInv, CleanInv, Stopping,
       Closing, Registered, InInit, Guarded, Probing, EarlyStages, BufferNext, Unsettled,
       Begun, Fallible, Early, Undisturbed, Own, probing, flags, users
<1>1. CASE Unbind
  BY <1>1 DEF Unbind
<1>2. CASE TermUnique
  <2>1. held' = held \ {"netdev"} \/ (unit.product = "ag08a" /\ held' = held)
    BY <1>2 DEF TermUnique, Ct2aTerminate, Ch02aTerminate, Cf02aTerminate,
       Ag08aTerminate, Units, AllUnits
  <2>2. held' = held \ {"netdev"}
    <3>1. CASE unit.product = "ag08a" /\ held' = held
      <4>1. "netdev" \notin held
        BY <3>1
      <4>2. QED
        BY <3>1, <4>1
    <3>2. QED
      BY <2>1, <3>1
  <2>3. /\ stage = "terminate" /\ stage' = "closing"
        /\ UNCHANGED <<unit, attached, leaving, urbs, tries, rx_ongoing, flags, kref,
                       users>>
    BY <1>2 DEF TermUnique
  <2>4. QED
    BY <2>2, <2>3
<1>3. CASE TermClosing
  <2>1. CASE "minor" \in held
    BY ZenonT(30), <1>3, <2>1 DEF TermClosing
  <2>2. CASE "minor" \notin held
    BY ZenonT(30), <1>3, <2>2 DEF TermClosing
  <2>3. QED
    BY <2>1, <2>2
<1>4. CASE TermStopThread
  BY <1>4 DEF TermStopThread
<1>5. CASE TermKillUrbs
  BY <1>5 DEF TermKillUrbs
<1>6. CASE TermRings
  BY <1>6 DEF TermRings
<1>7. CASE TermDeregister
  BY <1>7 DEF TermDeregister
<1>8. CASE TermFree
  BY <1>8 DEF TermFree
<1>9. CASE SysfsTerm
  BY <1>9 DEF SysfsTerm
<1>10. CASE Put
  BY <1>10 DEF Put
<1>11. CASE DevmRelease
  BY <1>11 DEF DevmRelease
<1> QED
  BY <1>1, <1>2, <1>3, <1>4, <1>5, <1>6, <1>7, <1>8, <1>9, <1>10, <1>11 DEF Disconnect, DisconnectBegin

(* What the device and the USB core do.                                    *)
LEMMA DeviceKeeps ==
    ASSUME Types, StageInv, CleanInv, UrbCompletes \/ Unplug
    PROVE  Types' /\ StageInv' /\ CleanInv' /\ Undisturbed
<1> USE RetryAssumption DEF Types, Stages, Resources, StageInv, CleanInv, Stopping,
       Closing, Registered, InInit, Guarded, Probing, EarlyStages, BufferNext, Unsettled,
       Begun, Fallible, Early, Undisturbed, Own, probing, flags, users
<1>1. CASE UrbCompletes
  BY <1>1 DEF UrbCompletes
<1>2. CASE Unplug
  <2>1. attached' \in BOOLEAN
    BY <1>2, Zenon DEF Unplug
  <2>2. QED
    BY <1>2, <2>1 DEF Unplug
<1> QED
  BY <1>1, <1>2

-----------------------------------------------------------------------------
(* Files and sysfs handlers, and the reference count.                      *)

Users == {f \in Files : UsesFile(f)}

LEMMA UsersFinite == IsFiniteSet(Users) /\ Cardinality(Users) \in 0..Cardinality(Files)
<1>1. Users \in SUBSET Files
  BY DEF Users
<1>2. IsFiniteSet(Users) /\ Cardinality(Users) <= Cardinality(Files)
  BY <1>1, FilesAssumption, FS_Subset
<1>3. Cardinality(Users) \in Nat /\ Cardinality(Files) \in Nat
  BY <1>2, FilesAssumption, FS_CardinalityType
<1>4. QED
  BY <1>2, <1>3

LEMMA FilesUndisturbed ==
    ASSUME Types, StageInv, FileInv, KrefCounts, Undisturbed
    PROVE  FileInv' /\ KrefCounts'
<1>1. file' = file /\ handlers' = handlers
  BY DEF Undisturbed, users
<1>2. FileInv'
  <2>1. \A f \in Files : Opening(f)' => "minor" \in held'
    BY <1>1 DEF FileInv, Undisturbed, Opening
  <2>2. ASSUME NEW f \in Files, file'[f] \notin {"closed", "check"}
        PROVE  leaving' # "failed" /\ stage' \notin Unsettled
    BY <1>1, <2>2 DEF FileInv, Undisturbed, Unsettled
  <2>3. handlers' \subseteq held'
    BY <1>1 DEF FileInv, Undisturbed
  <2>4. QED
    BY <2>1, <2>2, <2>3 DEF FileInv, Unsettled
<1>3. KrefCounts'
  <2>1. Users' = Users
    BY <1>1 DEF Users, UsesFile
  <2>2. stage = "allocate" => Cardinality(Users) = 0
    <3>1. stage = "allocate" => Users = {}
      BY DEF FileInv, Users, UsesFile, Probing
    <3>2. QED
      BY <3>1, FS_EmptySet
  <2>3. kref = Cardinality(Users) + Own
    BY DEF KrefCounts, Users, Own
  <2>4. kref' = Cardinality(Users) + Own'
    BY <2>2, <2>3, UsersFinite DEF Undisturbed
  <2>5. QED
    BY <2>1, <2>4 DEF KrefCounts, Users, Own
<1>4. QED
  BY <1>2, <1>3

(* A file goes from one place to another, and the count with it.           *)
LEMMA CountMove ==
    ASSUME Types, KrefCounts, NEW f \in Files, NEW from \in FileStates,
           NEW to \in FileStates, Move(f, from, to),
           LET counted == {"open", "call", "unique_close", "drop"}
           IN  kref' = CASE from \notin counted /\ to \in counted -> kref + 1
                         [] from \in counted /\ to \notin counted -> kref - 1
                         [] OTHER -> kref
    PROVE  KrefCounts'
<1> DEFINE counted == {"open", "call", "unique_close", "drop"}
<1>1. /\ file[f] = from /\ file'[f] = to /\ Own' = Own
      /\ \A g \in Files : g # f => file'[g] = file[g]
  BY DEF Types, Move, probing, Own
<1>2. kref = Cardinality(Users) + Own /\ Own \in Nat
  BY DEF KrefCounts, Users, Own
<1>3. CASE from \notin counted /\ to \in counted
  <2>1. Users' = Users \cup {f} /\ f \notin Users /\ kref' = kref + 1
    BY <1>1, <1>3 DEF Users, UsesFile
  <2>2. Cardinality(Users') = Cardinality(Users) + 1
    BY <2>1, UsersFinite, FS_AddElement
  <2>3. kref' = Cardinality(Users') + Own'
    BY <1>1, <1>2, <2>1, <2>2, UsersFinite
  <2>4. QED
    BY <2>3 DEF KrefCounts, Users, Own
<1>4. CASE from \in counted /\ to \notin counted
  <2>1. Users' = Users \ {f} /\ f \in Users /\ kref' = kref - 1
    BY <1>1, <1>4 DEF Users, UsesFile
  <2>2. Cardinality(Users') = Cardinality(Users) - 1
    BY <2>1, UsersFinite, FS_RemoveElement
  <2>3. kref' = Cardinality(Users') + Own'
    BY <1>1, <1>2, <2>1, <2>2, UsersFinite
  <2>4. QED
    BY <2>3 DEF KrefCounts, Users, Own
<1>5. CASE (from \in counted) <=> (to \in counted)
  <2>1. Users' = Users /\ kref' = kref
    BY <1>1, <1>5 DEF Users, UsesFile
  <2>2. kref' = Cardinality(Users') + Own'
    BY <1>1, <1>2, <2>1
  <2>3. QED
    BY <2>2 DEF KrefCounts, Users, Own
<1>6. QED
  BY <1>3, <1>4, <1>5

(* The steps of open, release and the other calls.                         *)
LEMMA FilesKeep ==
    ASSUME Types, StageInv, CleanInv, FileInv, KrefCounts, NEW f \in Files,
           Open(f) \/ CallBegin(f) \/ CallEnd(f) \/ Release(f)
    PROVE  Types' /\ StageInv' /\ CleanInv' /\ FileInv' /\ KrefCounts'
<1> DEFINE counted == {"open", "call", "unique_close", "drop"}
<1>1. PICK from \in FileStates, to \in FileStates :
          /\ Move(f, from, to)
          /\ from = "closed" => to = "check" /\ "minor" \in held
          /\ from = "check" => to = "closed" \/ (to = "unique" /\ ~onopening)
          /\ to \in {"unique", "ref"} => from \in {"check", "unique"}
          /\ to = "check" => from = "closed"
          /\ kref' = CASE from \notin counted /\ to \in counted -> kref + 1
                       [] from \in counted /\ to \notin counted -> kref - 1
                       [] OTHER -> kref
  <2>1. CASE OpenFind(f)
    BY <2>1 DEF OpenFind, FileStates
  <2>2. CASE OpenCheck(f)
    BY <2>2 DEF OpenCheck, FileStates
  <2>3. CASE OpenUnique(f)
    BY <2>3 DEF OpenUnique, FileStates
  <2>4. CASE OpenRef(f)
    BY <2>4 DEF OpenRef, FileStates
  <2>5. CASE CallBegin(f)
    BY <2>5 DEF CallBegin, FileStates
  <2>6. CASE CallEnd(f)
    BY <2>6 DEF CallEnd, FileStates
  <2>7. CASE ReleaseCheck(f)
    BY <2>7 DEF ReleaseCheck, FileStates
  <2>8. CASE ReleaseClose(f)
    BY <2>8 DEF ReleaseClose, FileStates
  <2>9. CASE ReleaseDrop(f)
    BY <2>9 DEF ReleaseDrop, FileStates
  <2>10. QED
    BY <2>1, <2>2, <2>3, <2>4, <2>5, <2>6, <2>7, <2>8, <2>9 DEF Open, Release
<1>2. /\ UNCHANGED <<unit, attached, leaving, stage, held, urbs, tries, rx_ongoing,
                     onopening, onclosing, handlers>>
      /\ file[f] = from /\ file'[f] = to
      /\ \A g \in Files : g # f => file'[g] = file[g]
  BY <1>1 DEF Move, probing, flags, Types
<1>3. Types'
  <2>1. file' \in [Files -> FileStates]
    BY <1>1 DEF Types, Move
  <2>2. QED
    BY <1>2, <2>1 DEF Types
<1>4. StageInv'
  BY <1>2 DEF StageInv
<1>5. CleanInv'
  BY <1>2 DEF CleanInv
<1>6. FileInv'
  <2>1. \A g \in Files : Opening(g)' => "minor" \in held'
    BY <1>1, <1>2 DEF FileInv, Opening
  <2>2. ASSUME to \notin {"closed", "check"}
        PROVE  leaving # "failed" /\ stage \notin Probing \ {"sysfs", "bound"}
    <3>1. CASE from \notin {"closed", "check"}
      BY <1>2, <3>1 DEF FileInv
    <3>2. CASE from \in {"closed", "check"}
      <4>1. from = "check" /\ ~onopening
        BY <1>1, <2>2, <3>2
      <4>2. "minor" \in held
        BY <1>2, <4>1 DEF FileInv, Opening
      <4>3. stage \in Registered /\ leaving # "failed" /\ stage \notin Guarded
        BY <4>1, <4>2 DEF StageInv
      <4>4. QED
        BY <4>3 DEF Registered, Stopping, Guarded, InInit, Probing, EarlyStages,
           BufferNext
    <3>3. QED
      BY <3>1, <3>2
  <2>3. QED
    BY <1>2, <2>1, <2>2 DEF FileInv
<1>7. KrefCounts'
  BY <1>1, CountMove
<1>8. QED
  BY <1>3, <1>4, <1>5, <1>6, <1>7

LEMMA HandlersKeep ==
    ASSUME Types, StageInv, CleanInv, FileInv, KrefCounts,
           \/ AttributeBegin \/ IioBegin \/ \E h \in {"sysfs", "iio"} : HandlerEnd(h)
           \/ UNCHANGED vars
    PROVE  Types' /\ StageInv' /\ CleanInv' /\ FileInv' /\ KrefCounts'
<1>1. /\ UNCHANGED <<unit, attached, leaving, stage, held, urbs, tries, rx_ongoing,
                     onopening, onclosing, kref, file>>
      /\ \/ handlers' \subseteq handlers
         \/ \E h \in held \cap {"sysfs", "iio"} : handlers' = handlers \cup {h}
  <2>1. CASE AttributeBegin
    BY <2>1 DEF AttributeBegin, HandlerBegin, probing, flags
  <2>2. CASE IioBegin
    BY <2>2 DEF IioBegin, HandlerBegin, probing, flags
  <2>3. CASE \E h \in {"sysfs", "iio"} : HandlerEnd(h)
    BY <2>3 DEF HandlerEnd, probing, flags
  <2>4. CASE UNCHANGED vars
    BY <2>4 DEF vars, probing, flags, users
  <2>5. QED
    BY <2>1, <2>2, <2>3, <2>4
<1>2. handlers' \subseteq {"sysfs", "iio"} /\ handlers' \subseteq held
  BY <1>1 DEF Types, FileInv
<1>3. Types'
  BY <1>1, <1>2 DEF Types
<1>4. StageInv' /\ CleanInv'
  BY <1>1 DEF StageInv, CleanInv
<1>5. FileInv'
  BY <1>1 DEF FileInv, Opening
<1>6. KrefCounts'
  BY <1>1 DEF KrefCounts, UsesFile
<1>7. QED
  BY <1>3, <1>4, <1>5, <1>6

-----------------------------------------------------------------------------
Inv == Types /\ StageInv /\ CleanInv /\ FileInv /\ KrefCounts

LEMMA InitInv == Init => Inv
<1> SUFFICES ASSUME Init
             PROVE  Inv
  OBVIOUS
<1>1. Types
  <2>1. /\ attached \in BOOLEAN /\ onopening \in BOOLEAN /\ onclosing \in BOOLEAN
        /\ rx_ongoing \in BOOLEAN
    BY Zenon DEF Init
  <2>2. /\ unit \in Units /\ tries \in 0..MaxRetry /\ held \subseteq Resources
        /\ handlers \subseteq {"sysfs", "iio"}
    BY RetryAssumption DEF Init
  <2>3. file \in [Files -> FileStates]
    BY DEF Init, FileStates
  <2>4. QED
    BY <2>1, <2>2, <2>3 DEF Init, Types, Stages
<1>2. StageInv
  BY RetryAssumption
     DEF Init, StageInv, Guarded, InInit, Registered, Stopping, EarlyStages, BufferNext,
         Begun, Early, Probing
<1>3. CleanInv
  BY DEF Init, CleanInv, Closing, Stopping, InInit
<1>4. FileInv
  BY DEF Init, FileInv, Opening
<1>5. KrefCounts
  <2>1. Users = {} /\ kref = 0 /\ stage = "allocate"
    BY DEF Init, Users, UsesFile
  <2>2. QED
    BY <2>1, FS_EmptySet DEF KrefCounts, Users
<1>6. QED
  BY <1>1, <1>2, <1>3, <1>4, <1>5 DEF Inv

LEMMA NextInv == Inv /\ [Next]_vars => Inv'
<1> SUFFICES ASSUME Inv, [Next]_vars
             PROVE  Inv'
  OBVIOUS
<1>1. CASE Probe \/ Disconnect \/ Unbind \/ UrbCompletes \/ Unplug
  BY <1>1, ProbeKeeps, DisconnectKeeps, DeviceKeeps, FilesUndisturbed DEF Inv
<1>2. CASE \E f \in Files : Open(f) \/ CallBegin(f) \/ CallEnd(f) \/ Release(f)
  BY <1>2, FilesKeep DEF Inv
<1>3. CASE \/ AttributeBegin \/ IioBegin \/ \E h \in {"sysfs", "iio"} : HandlerEnd(h)
           \/ UNCHANGED vars
  BY <1>3, HandlersKeep DEF Inv
<1>4. QED
  BY <1>1, <1>2, <1>3 DEF Next

LEMMA SpecInv == Spec => []Inv
BY InitInv, NextInv, PTL DEF Spec

(* kref is one for the driver plus one for each open file, for any number  *)
(* of files and in every interleaving of probe, disconnect and calls.      *)
THEOREM KrefIsExact == Spec => []KrefCounts
<1>1. Inv => KrefCounts
  BY DEF Inv
<1>2. QED
  BY <1>1, SpecInv, PTL

THEOREM LifecycleTypes == Spec => []TypeOK
<1>1. Inv => TypeOK
  <2>1. ASSUME Inv
        PROVE  kref \in 0..(Cardinality(Files) + 1)
    <3>1. kref = Cardinality(Users) + Own
      BY <2>1 DEF Inv, KrefCounts, Users, Own
    <3>2. Cardinality(Files) \in Nat
      BY FilesAssumption, FS_CardinalityType
    <3>3. QED
      BY <3>1, <3>2, UsersFinite DEF Own
  <2>2. QED
    BY <2>1 DEF Inv, Types, TypeOK
<1>2. QED
  BY <1>1, SpecInv, PTL

(* apt_usbtrx_open finds a live structure at each of its steps, although   *)
(* it takes its reference last: the minor number outlasts it.              *)
THEOREM OpensFindLiveDevice == Spec => []OpenFindsLiveDevice
<1>1. Inv => OpenFindsLiveDevice
  <2> SUFFICES ASSUME Inv, NEW f \in Files, Opening(f)
               PROVE  kref > 0 /\ "unique_data" \in held
    BY DEF OpenFindsLiveDevice
  <2>1. "minor" \in held
    BY DEF Inv, FileInv
  <2>2. stage \in Registered
    BY <2>1 DEF Inv, StageInv
  <2>3. stage \notin {"allocate", "off"}
    BY <2>2 DEF Registered, Stopping, InInit
  <2>4. kref = Cardinality(Users) + 1
    BY <2>3 DEF Inv, KrefCounts, Users
  <2>5. QED
    BY <2>2, <2>4, UsersFinite DEF Inv, StageInv
<1>2. QED
  BY <1>1, SpecInv, PTL

(* Nobody gets a file of a device whose probe fails: onopening turns every *)
(* open away until apt_usbtrx_init can no longer fail.                     *)
THEOREM FailedProbesHaveNoFile == Spec => []FailedProbeHasNoFile
<1>1. Inv => FailedProbeHasNoFile
  BY DEF Inv, FileInv, FailedProbeHasNoFile, UsesFile
<1>2. QED
  BY <1>1, SpecInv, PTL

(* A handler of an attribute finds the structure: the attributes go before *)
(* the driver drops its reference; but after free_data has freed the data. *)
THEOREM AttributesFindDevice == Spec => []AttributeFindsDevice
<1>1. Inv => AttributeFindsDevice
  <2> SUFFICES ASSUME Inv, "sysfs" \in handlers
               PROVE  kref > 0 /\ ("unique_data" \in held \/ stage = "sysfs_term")
    BY DEF AttributeFindsDevice
  <2>1. stage \in {"bound", "terminate", "closing", "oops"} \cup Closing /\ leaving # "failed"
    BY DEF Inv, FileInv, StageInv
  <2>2. stage \notin {"allocate", "off"}
    BY <2>1 DEF Closing, Stopping
  <2>3. kref = Cardinality(Users) + 1
    BY <2>2 DEF Inv, KrefCounts, Users
  <2>4. stage = "free" => "unique_data" \in held
    BY DEF Inv, StageInv
  <2>5. "unique_data" \in held \/ stage = "sysfs_term"
    BY <2>1, <2>4 DEF Inv, StageInv, Registered, Closing
  <2>6. QED
    BY <2>3, <2>5, UsersFinite
<1>2. QED
  BY <1>1, SpecInv, PTL

(* Nothing takes the IIO device back before apt_usbtrx_disconnect drops    *)
(* its reference: a callback finds the structure until then, and no longer.*)
THEOREM IioFindsDevice == Spec => []IioFindsDeviceUntilDisconnect
<1>1. Inv => IioFindsDeviceUntilDisconnect
  <2> SUFFICES ASSUME Inv, "iio" \in handlers
               PROVE  /\ kref > 0 \/ (stage = "off" /\ leaving = "unbound")
                      /\ "unique_data" \in held \/ stage \in {"sysfs_term", "put", "off"}
    BY DEF IioFindsDeviceUntilDisconnect
  <2>1. leaving # "failed" /\ stage \notin Fallible
    BY DEF Inv, FileInv, StageInv
  <2>2. stage \notin {"put", "off"} \/ leaving = "unbound"
    <3>1. stage \in {"put", "off"} => onclosing
      BY DEF Inv, FileInv, StageInv, Early
    <3>2. QED
      BY <2>1, <3>1 DEF Inv, Types, StageInv
  <2>3. stage # "off" => kref = Cardinality(Users) + 1
    BY <2>1 DEF Inv, KrefCounts, Users, Fallible, Begun
  <2>4. stage # "off" => kref > 0
    BY <2>3, UsersFinite
  <2>5. "unique_data" \in held \/ stage \in {"sysfs_term", "put", "off"}
    BY <2>1 DEF Inv, Types, Stages, StageInv, Registered, Stopping, InInit, Fallible,
       Begun, EarlyStages, BufferNext
  <2>6. QED
    BY <2>2, <2>4, <2>5
<1>2. QED
  BY <1>1, SpecInv, PTL

(* apt_usbtrx_term and what follows it take back all that probe built but  *)
(* the IIO device.                                                         *)
THEOREM DisconnectsTakeAllDown == Spec => []DisconnectTakesAllDown
<1>1. Inv => DisconnectTakesAllDown
  BY DEF Inv, CleanInv, DisconnectTakesAllDown
<1>2. QED
  BY <1>1, SpecInv, PTL

(* A probe that fails leaves receive URBs that were resubmitted, or what   *)
(* it had allocated before apt_usbtrx_init, and never more.                *)
THEOREM FailedProbesLeave == Spec => []FailedProbeLeaves
<1>1. Inv => FailedProbeLeaves
  <2> SUFFICES ASSUME Inv, stage = "off", leaving = "failed"
               PROVE  IF onclosing THEN held = {} /\ urbs # "anchored"
                      ELSE held \subseteq Early /\ urbs = "none"
    BY DEF FailedProbeLeaves, Early
  <2>1. CASE onclosing
    <3>1. held \subseteq {"iio"} /\ "iio" \notin held /\ urbs # "anchored"
      BY <2>1 DEF Inv, CleanInv, StageInv
    <3>2. QED
      BY <2>1, <3>1
  <2>2. CASE ~onclosing
    BY <2>2 DEF Inv, StageInv
  <2>3. QED
    BY <2>1, <2>2
<1>2. QED
  BY <1>1, SpecInv, PTL

(* Opens and the attributes of apt_usbtrx_sysfs_init never use a structure *)
(* that is freed; callbacks of the IIO device do so only after disconnect. *)
THEOREM OnlyIioFindsItFreed == Spec => []OnlyIioFindsFreed
<1>1. OpenFindsLiveDevice /\ AttributeFindsDevice /\ IioFindsDeviceUntilDisconnect
         => OnlyIioFindsFreed
  BY DEF OnlyIioFindsFreed
<1>2. QED
  BY <1>1, OpensFindLiveDevice, AttributesFindDevice, IioFindsDevice, PTL

(* What apt_usbtrx_disconnect and a probe that fails leave behind is no    *)
(* more than these name, and nobody has the file of a failed probe.        *)
THEOREM DeviceLeavesOnlyThese == Spec => []LeavesOnlyThese
<1>1. DisconnectTakesAllDown /\ FailedProbeLeaves /\ FailedProbeHasNoFile => LeavesOnlyThese
  BY DEF LeavesOnlyThese
<1>2. QED
  BY <1>1, DisconnectsTakeAllDown, FailedProbesLeave, FailedProbesHaveNoFile, PTL
=============================================================================
