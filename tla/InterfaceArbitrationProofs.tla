--------------------- MODULE InterfaceArbitrationProofs ---------------------
(***************************************************************************)
(* Proofs about InterfaceArbitration, for any number of files: when opens  *)
(* and closes do not overlap (SerialFiles and SerialNet), if_type is a     *)
(* sufficient lock, also through failed starts, stops and restarts.  The   *)
(* runs show that neither assumption can be dropped.                       *)
(***************************************************************************)
EXTENDS InterfaceArbitration, FiniteSetTheorems, TLAPS

(* The files that file_open_count counts.                                  *)
Counted == {f \in Files : file[f] \in {"counted", "open"}}

FileType ==
    file \in [Files -> {"closed", "checked", "counted", "open", "uncounted",
                        "last"}]

(* The count is exact whatever overlaps.                                   *)
CountInv ==
    /\ FileType
    /\ file_open_count = Cardinality(Counted)

(* What serial opens and closes rely on: a file that is being opened has   *)
(* found the channel free of the network interface, and still does; the    *)
(* file that resets if_type is the last one; while if_type is NET, all     *)
(* files are closed.                                                       *)
SerialInv ==
    SerialFiles /\ SerialNet =>
        /\ \A f, g \in Busy : f = g
        /\ \A f \in Files : file[f] = "open" => if_type = "FILE"
        /\ \A f \in Files : file[f] = "last" =>
               if_type = "FILE" /\ Counted = {}
        /\ \A f \in Files : file[f] = "uncounted" => if_type = "FILE"
        /\ if_type = "NET" => \A f \in Files : file[f] = "closed"
        /\ NetInUse => if_type = "NET"
        /\ net = "starting" => if_type = "NONE" /\ Busy = {}

IInv == TypeOK /\ CountInv /\ SerialInv

-----------------------------------------------------------------------------
(* The count                                                               *)

(* An open counts its file and a close uncounts it: the other steps leave  *)
(* the counted files alone.                                                *)
LEMMA CountedSteps ==
    ASSUME FileType, NEW f \in Files
    PROVE  /\ file[f] = "checked" /\ Becomes(f, "counted") =>
                 Counted' = Counted \cup {f} /\ f \notin Counted
           /\ file[f] = "open" /\ Becomes(f, "uncounted") =>
                 Counted' = Counted \ {f} /\ f \in Counted
           /\ \A a \in {"counted", "open"}, b \in {"counted", "open"} :
                 file[f] = a /\ Becomes(f, b) => Counted' = Counted
           /\ \A a \in {"closed", "checked", "uncounted", "last"},
                 b \in {"closed", "checked", "uncounted", "last"} :
                 file[f] = a /\ Becomes(f, b) => Counted' = Counted
BY DEF FileType, Counted, Becomes

(* file_open_count stays the number of files between the increment of      *)
(* ep1_cf02a_open and the decrement of ep1_cf02a_close.                    *)
LEMMA NextCount == CountInv /\ [Next]_vars => CountInv'
<1> SUFFICES ASSUME CountInv, [Next]_vars
             PROVE  CountInv'
  OBVIOUS
<1>1. IsFiniteSet(Counted) /\ Cardinality(Counted) \in Nat
  BY FilesAssumption, FS_Subset, FS_CardinalityType DEF Counted
<1>2. ASSUME NEW f \in Files, File(f)
      PROVE  CountInv'
  <2>1. FileType'
    BY <1>2 DEF CountInv, FileType, File, Becomes, OpenCheck, OpenCount,
       OpenClaim, CloseCount, CloseCheck, CloseRelease
  <2>2. CASE OpenCount(f)
    <3>1. Counted' = Counted \cup {f} /\ f \notin Counted
      BY <2>2, CountedSteps DEF CountInv, OpenCount
    <3>2. Cardinality(Counted') = Cardinality(Counted) + 1
      BY <1>1, <3>1, FS_AddElement
    <3>3. QED
      BY <2>1, <2>2, <3>2 DEF CountInv, OpenCount
  <2>3. CASE CloseCount(f)
    <3>1. Counted' = Counted \ {f} /\ f \in Counted
      BY <2>3, CountedSteps DEF CountInv, CloseCount
    <3>2. Cardinality(Counted') = Cardinality(Counted) - 1
      BY <1>1, <3>1, FS_RemoveElement
    <3>3. QED
      BY <2>1, <2>3, <3>2 DEF CountInv, CloseCount
  <2>4. CASE OpenCheck(f) \/ OpenClaim(f) \/ CloseCheck(f) \/ CloseRelease(f)
    <3>1. Counted' = Counted /\ file_open_count' = file_open_count
      BY <2>4, CountedSteps
         DEF CountInv, OpenCheck, OpenClaim, CloseCheck, CloseRelease
    <3>2. QED
      BY <2>1, <3>1 DEF CountInv
  <2>5. QED
    BY <1>2, <2>2, <2>3, <2>4 DEF File
<1>3. CASE Net \/ UNCHANGED vars
  <2>1. UNCHANGED <<file, file_open_count>>
    BY <1>3 DEF vars, Net, NetOpen, NetStarted, NetStartFails, NetRestart,
       NetClose, NetStopped, NetStopFails
  <2>2. QED
    BY <2>1 DEF CountInv, FileType, Counted
<1>4. QED
  BY <1>2, <1>3 DEF Next

(* With the count exact, its type follows.                                 *)
LEMMA NextType == TypeOK /\ CountInv /\ CountInv' /\ [Next]_vars => TypeOK'
<1> SUFFICES ASSUME TypeOK, CountInv', [Next]_vars
             PROVE  TypeOK'
  OBVIOUS
<1>1. file_open_count' \in 0..Cardinality(Files)
  <2>1. Counted' \subseteq Files
    BY DEF Counted
  <2>2. /\ Cardinality(Counted') \in Nat
        /\ Cardinality(Files) \in Nat
        /\ Cardinality(Counted') <= Cardinality(Files)
    BY <2>1, FilesAssumption, FS_Subset, FS_CardinalityType
  <2>3. QED
    BY <2>2 DEF CountInv
<1>2. if_type' \in {"NONE", "FILE", "NET"}
  BY DEF TypeOK, Next, vars, File, Net, OpenCheck, OpenCount, OpenClaim,
     CloseCount, CloseCheck, CloseRelease, NetOpen, NetStarted,
     NetStartFails, NetRestart, NetClose, NetStopped, NetStopFails
<1>3. net' \in {"down", "starting", "up", "restarting", "closing"}
  BY DEF TypeOK, Next, vars, File, Net, OpenCheck, OpenCount, OpenClaim,
     CloseCount, CloseCheck, CloseRelease, NetOpen, NetStarted,
     NetStartFails, NetRestart, NetClose, NetStopped, NetStopFails
<1>4. QED
  BY <1>1, <1>2, <1>3 DEF TypeOK, CountInv, FileType

-----------------------------------------------------------------------------
(* Serial opens and closes                                                 *)

(* Each step of open, close, netdev_open, restart and netdev_close keeps   *)
(* if_type in agreement with who uses the channel.                         *)
LEMMA NextSerial ==
    TypeOK /\ CountInv /\ CountInv' /\ SerialInv /\ [Next]_vars => SerialInv'
<1> SUFFICES ASSUME TypeOK, CountInv, SerialInv, [Next]_vars,
                    SerialFiles, SerialNet
             PROVE  SerialInv'
  BY DEF SerialInv
<1> USE DEF TypeOK, SerialInv, NetInUse, Becomes, MayBegin
<1>1. ASSUME NEW f \in Files, OpenCheck(f)
      PROVE  SerialInv'
  BY <1>1 DEF OpenCheck, Busy, Counted
<1>2. ASSUME NEW f \in Files, OpenCount(f)
      PROVE  SerialInv'
  BY <1>2 DEF OpenCount, Busy, Counted
<1>3. ASSUME NEW f \in Files, OpenClaim(f)
      PROVE  SerialInv'
  BY <1>3 DEF OpenClaim, Busy, Counted
<1>4. ASSUME NEW f \in Files, CloseCount(f)
      PROVE  SerialInv'
  BY <1>4 DEF CloseCount, Busy, Counted
<1>5. ASSUME NEW f \in Files, CloseCheck(f)
      PROVE  SerialInv'
  <2>1. file_open_count = 0 => Counted = {}
    <3>1. IsFiniteSet(Counted)
      BY FilesAssumption, FS_Subset DEF Counted
    <3>2. QED
      BY <3>1, FS_EmptySet DEF CountInv
  <2>2. Counted' = Counted
    BY <1>5, CountedSteps DEF CloseCheck, CountInv
  <2>3. Busy' \subseteq Busy
    BY <1>5 DEF CloseCheck, Busy
  <2>4. QED
    BY <1>5, <2>1, <2>2, <2>3 DEF CloseCheck, Busy
<1>6. ASSUME NEW f \in Files, CloseRelease(f)
      PROVE  SerialInv'
  BY <1>6 DEF CloseRelease, Busy, Counted
<1>7. CASE NetOpen
  BY <1>7 DEF NetOpen, Busy, Counted
<1>8. CASE NetStarted
  BY <1>8 DEF NetStarted, Busy, Counted
<1>9. CASE NetStartFails
  BY <1>9 DEF NetStartFails, Busy, Counted
<1>10. CASE NetRestart
  BY <1>10 DEF NetRestart, Busy, Counted
<1>11. CASE NetClose
  BY <1>11 DEF NetClose, Busy, Counted
<1>12. CASE NetStopped
  BY <1>12 DEF NetStopped, Busy, Counted
<1>13. CASE NetStopFails
  BY <1>13 DEF NetStopFails, Busy, Counted
<1>14. CASE UNCHANGED vars
  BY <1>14 DEF vars, Busy, Counted
<1>15. QED
  BY <1>1, <1>2, <1>3, <1>4, <1>5, <1>6, <1>7, <1>8, <1>9, <1>10, <1>11, <1>12, <1>13, <1>14
     DEF Next, File, Net

(* The invariant holds in every reachable state.                           *)
LEMMA Invariant == Spec => []IInv
<1>1. Init => IInv
  <2> SUFFICES ASSUME Init
               PROVE  IInv
    OBVIOUS
  <2>1. Counted = {} /\ Cardinality({}) = 0 /\ Busy = {}
    BY FS_EmptySet DEF Init, Counted, Busy
  <2>2. Cardinality(Files) \in Nat
    BY FilesAssumption, FS_CardinalityType
  <2>3. TypeOK
    BY <2>2 DEF Init, TypeOK
  <2>4. CountInv
    BY <2>1 DEF Init, CountInv, FileType
  <2>5. SerialInv
    BY <2>1 DEF Init, SerialInv, NetInUse
  <2>6. QED
    BY <2>3, <2>4, <2>5 DEF IInv
<1>2. IInv /\ [Next]_vars => IInv'
  BY NextCount, NextType, NextSerial DEF IInv
<1>3. QED
  BY <1>1, <1>2, PTL DEF Spec

-----------------------------------------------------------------------------
(* if_type and file_open_count stay in range however opens, closes and the *)
(* network interface overlap.                                              *)
THEOREM TypeCorrect == Spec => []TypeOK
<1>1. IInv => TypeOK
  BY DEF IInv
<1>2. QED
  BY <1>1, Invariant, PTL

(* If opens and closes do not overlap, the check of if_type at the start   *)
(* of ep1_cf02a_open and ep1_cf02a_netdev_open keeps files and the network *)
(* interface apart.                                                        *)
THEOREM SerialUseIsExclusive ==
    SerialFiles /\ SerialNet => (Spec => []NoSimultaneousUse)
<1> SUFFICES ASSUME SerialFiles, SerialNet
             PROVE  Spec => []NoSimultaneousUse
  OBVIOUS
<1>1. IInv => NoSimultaneousUse
  BY DEF IInv, SerialInv, NoSimultaneousUse, FileInUse
<1>2. QED
  BY <1>1, Invariant, PTL

(* ... and received frames go to the one that uses the channel.            *)
THEOREM SerialUseGetsFrames ==
    SerialFiles /\ SerialNet => (Spec => []FramesReachUser)
<1> SUFFICES ASSUME SerialFiles, SerialNet
             PROVE  Spec => []FramesReachUser
  OBVIOUS
<1>1. IInv => FramesReachUser
  BY DEF IInv, SerialInv, FramesReachUser, FileInUse
<1>2. QED
  BY <1>1, Invariant, PTL
=============================================================================
