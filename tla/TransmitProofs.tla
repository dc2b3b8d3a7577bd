--------------------------- MODULE TransmitProofs ---------------------------
(***************************************************************************)
(* Proofs about TxPath and about NetTx, which is built on it, for every    *)
(* number of URB slots, every ring and token limit and every bound.        *)
(*                                                                         *)
(* TxPath:                                                                 *)
(*   - in both modes: the state keeps its type, slots are conserved, and   *)
(*     the rings are freed after the thread;                               *)
(*   - through the network interface (QuietStop): a stopped interface is   *)
(*     drained and submits nothing, messages are submitted in order, and   *)
(*     all of it implements TxQueue.                                       *)
(*                                                                         *)
(* NetTx: nothing uses the net_device that terminate frees, a closed       *)
(* interface is clean, a stopped queue has a cause, and, as long as no     *)
(* restart overlaps a transmit, one frame at a time is under way: the ring *)
(* has room for it and the echo that is looped back is its own.            *)
(***************************************************************************)
EXTENDS NetTx, FiniteSetTheorems, SequenceTheorems, TLAPS

-----------------------------------------------------------------------------
(* Types and slots                                                         *)

(* The pointers of tx_data never pass what was written, also when a clear  *)
(* overlaps a write; the thread that is past the token test has a token;   *)
(* no message is written beyond the bound.                                 *)
RingBounds ==
    /\ rd <= wr /\ wr <= accepted
    /\ writer.at <= accepted
    /\ writer.pc # "idle" => accepted < MaxMsgs
    /\ writer.pc = "copied" => wr <= writer.at
    /\ thread.pc = "clearing" => rd = 0
    /\ thread.pc \in {"down", "take", "body", "submit"} => token > 0

Safe == TypeOK /\ RingBounds /\ SlotsConserved /\ FreedAfterThread

-----------------------------------------------------------------------------
(* What a stop of the network interface relies on                          *)

(* A clear request is pending only inside the stop loop, no write is in    *)
(* progress while the interface is not up, and once the request was served *)
(* there is nothing to send.                                               *)
Quiet ==
    /\ stopper # "up" => writer.pc = "idle"
    /\ clear_requested => stopper = "loop"
    /\ thread.pc \in {"clear", "clearing", "cleared"} => clear_requested
    /\ thread.pc = "cleared" => rd = wr
    /\ stopper # "up" /\ ~clear_requested => rd = wr /\ thread.pc # "submit"

(* The messages in the ring are in order, and behind the ones that were    *)
(* submitted or that the thread has in hand; no clear overlaps a write, so *)
(* the ring is not torn.  (In the middle of a clear the pointers delimit   *)
(* nothing.)                                                               *)
Ordered ==
    /\ \A i, j \in 1..Len(sent) : i < j => sent[i] < sent[j]
    /\ \A k \in 1..Len(sent) : sent[k] <= accepted
    /\ \A i, j \in InRing : i < j => slot[i] < slot[j]
    /\ \A i \in InRing : slot[i] <= accepted
    /\ \A i \in InRing, k \in 1..Len(sent) : sent[k] < slot[i]
    /\ thread.pc = "submit" =>
         /\ thread.msg <= accepted
         /\ \A i \in InRing : thread.msg < slot[i]
         /\ \A k \in 1..Len(sent) : sent[k] < thread.msg
    /\ writer.pc = "copied" => writer.at = wr /\ slot[wr] = accepted + 1
    /\ ~torn /\ thread.pc # "body"

QuietInv == QuietStop => Quiet /\ Ordered

-----------------------------------------------------------------------------
(* apt_usbtrx_init_data and the start of the tx thread.                    *)
LEMMA InitSafe == Init => Safe
<1> SUFFICES ASSUME Init
             PROVE  Safe
  OBVIOUS
<1> USE SlotsAssumption, CapacityAssumption, TokenAssumption, BoundsAssumption
    DEF Init, IdleWriter, At
<1>1. /\ congested \in BOOLEAN /\ expired \in BOOLEAN
      /\ clear_requested \in BOOLEAN /\ attached \in BOOLEAN
      /\ onclosing \in BOOLEAN /\ should_stop \in BOOLEAN
      /\ torn \in BOOLEAN
  BY Zenon
<1>2. TypeOK
  BY <1>1 DEF TypeOK
<1>3. RingBounds /\ SlotsConserved /\ FreedAfterThread
  BY DEF RingBounds, SlotsConserved, FreedAfterThread, Held, Locked
<1>4. QED
  BY <1>2, <1>3 DEF Safe

(* No step of the writer, the thread, a completion, a stop or the shutdown *)
(* loses a slot or passes a bound.                                         *)
LEMMA NextSafe == Safe /\ [Next]_vars => Safe'
<1> SUFFICES ASSUME Safe, [Next]_vars
             PROVE  Safe'
  OBVIOUS
<1> USE SlotsAssumption, CapacityAssumption, TokenAssumption, BoundsAssumption
    DEF Safe, TypeOK, RingBounds, SlotsConserved, FreedAfterThread, Held,
        Locked, IdleWriter, At, ring, tokens, urbs, stopping, closing
<1>1. CASE WriteCheck
  BY <1>1 DEF WriteCheck
<1>2. CASE WriteCopy
  BY <1>2 DEF WriteCopy
<1>3. CASE WritePublish
  <2>0. torn' \in BOOLEAN
    BY <1>3, Zenon DEF WritePublish
  <2>1. TypeOK'
    BY SMTT(30), <1>3, <2>0 DEF WritePublish
  <2>2. RingBounds'
    BY <1>3 DEF WritePublish
  <2>3. SlotsConserved' /\ FreedAfterThread'
    BY <1>3 DEF WritePublish
  <2>4. QED
    BY <2>1, <2>2, <2>3
<1>4. CASE ThreadTop
  BY <1>4 DEF ThreadTop
<1>5. CASE ThreadClearRead
  BY <1>5 DEF ThreadClearRead
<1>6. CASE ThreadClearWrite
  <2>0. torn' \in BOOLEAN
    BY <1>6, Zenon DEF ThreadClearWrite
  <2>1. QED
    BY <1>6, <2>0 DEF ThreadClearWrite
<1>7. CASE ThreadCleared
  <2>0. clear_requested' \in BOOLEAN
    BY <1>7, Zenon DEF ThreadCleared
  <2>1. TypeOK'
    BY <1>7, <2>0 DEF ThreadCleared
  <2>2. RingBounds'
    BY <1>7 DEF ThreadCleared
  <2>3. SlotsConserved' /\ FreedAfterThread'
    BY <1>7 DEF ThreadCleared
  <2>4. QED
    BY <2>1, <2>2, <2>3
<1>8. CASE ThreadWait
  BY <1>8 DEF ThreadWait
<1>9. CASE ThreadToken
  <2>0. expired' \in BOOLEAN
    BY <1>9, Zenon DEF ThreadToken
  <2>1. TypeOK'
    BY <1>9, <2>0 DEF ThreadToken, Renewed
  <2>2. RingBounds'
    BY <1>9 DEF ThreadToken, Renewed
  <2>3. SlotsConserved' /\ FreedAfterThread'
    BY <1>9 DEF ThreadToken, Renewed
  <2>4. QED
    BY <2>1, <2>2, <2>3
<1>10. CASE ThreadDown
  BY <1>10 DEF ThreadDown
<1>11. CASE ThreadTake
  <2>1. CASE rd = wr
    <3>1. /\ thread.pc = "take" /\ thread' = At("top")
          /\ sem' = sem + 1 /\ rd' = rd
          /\ UNCHANGED <<slot, wr, accepted, torn, writer, tokens, inflight, sent,
                         stopping, closing>>
      BY <1>11, <2>1 DEF ThreadTake
    <3>2. SlotsConserved' /\ FreedAfterThread' /\ RingBounds'
      BY <3>1
    <3>3. sem' \in 0..MaxUrbs
      BY <3>1, <3>2
    <3>4. TypeOK'
      BY <3>1, <3>3
    <3>5. QED
      BY <3>2, <3>4
  <2>2. CASE rd # wr
    <3>1. /\ thread.pc = "take"
          /\ thread' = [pc |-> "submit", msg |-> slot[rd]]
          /\ rd' = rd + 1
          /\ UNCHANGED <<slot, wr, accepted, torn, writer, tokens, urbs, stopping,
                         closing>>
      BY <1>11, <2>2 DEF ThreadTake
    <3>2. rd \in 0..(MaxMsgs - 1) /\ slot[rd] \in 0..MaxMsgs
      BY <2>2
    <3>3. SlotsConserved' /\ FreedAfterThread' /\ RingBounds'
      BY <2>2, <3>1, <3>2
    <3>4. TypeOK'
      BY <3>1, <3>2
    <3>5. QED
      BY <3>3, <3>4
  <2>3. QED
    BY <2>1, <2>2
<1>11a. CASE BrokenTake
  <2>0. torn' \in BOOLEAN
    BY <1>11a, Zenon DEF BrokenTake
  <2>1. /\ thread.pc = "take" /\ rd' \in (rd + 1)..wr
        /\ thread' = [pc |-> "submit", msg |-> slot[rd]]
        /\ UNCHANGED <<slot, wr, accepted, writer, tokens, urbs, stopping, closing>>
    BY <1>11a DEF BrokenTake
  <2>2. rd \in 0..(MaxMsgs - 1) /\ slot[rd] \in 0..MaxMsgs
    BY <1>11a DEF BrokenTake
  <2>3. QED
    BY <2>0, <2>1, <2>2
<1>11b. CASE BrokenSkip
  <2>0. torn' \in BOOLEAN
    BY <1>11b, Zenon DEF BrokenSkip
  <2>1. /\ thread.pc = "take" /\ rd < wr /\ rd' = rd + 1
        /\ sem' = sem + 1 /\ thread' = At("top")
        /\ UNCHANGED <<slot, wr, accepted, writer, tokens, inflight, sent, stopping, closing>>
    BY <1>11b DEF BrokenSkip
  <2>2. SlotsConserved' /\ FreedAfterThread' /\ RingBounds'
    BY <2>1
  <2>3. sem' \in 0..MaxUrbs
    BY <2>1, <2>2
  <2>4. TypeOK'
    BY <2>0, <2>1, <2>3
  <2>5. QED
    BY <2>2, <2>4
<1>11c. CASE BrokenHeader
  <2>1. /\ thread.pc = "take" /\ rd' = wr
        /\ thread' = [pc |-> "body", msg |-> slot[rd]]
        /\ UNCHANGED <<slot, wr, accepted, torn, writer, tokens, urbs, stopping, closing>>
    BY <1>11c DEF BrokenHeader
  <2>2. rd \in 0..(MaxMsgs - 1) /\ slot[rd] \in 0..MaxMsgs
    BY <1>11c DEF BrokenHeader
  <2>3. QED
    BY <2>1, <2>2
<1>11d. CASE BodyRead
  <2>0. torn' \in BOOLEAN
    BY <1>11d, Zenon DEF BodyRead
  <2>1. /\ thread.pc = "body" /\ rd' \in rd..wr
        /\ thread' = thread \/ thread' = [pc |-> "submit", msg |-> thread.msg]
        /\ UNCHANGED <<slot, wr, accepted, writer, tokens, urbs, stopping, closing>>
    BY <1>11d DEF BodyRead
  <2>2. QED
    BY <2>0, <2>1
<1>12. CASE ThreadSubmit
  BY <1>12 DEF ThreadSubmit
<1>13. CASE ThreadSubmitFails
  BY <1>13 DEF ThreadSubmitFails
<1>14. CASE StopRequest
  BY <1>14 DEF StopRequest
<1>15. CASE StopTryLock
  BY <1>15 DEF StopTryLock
<1>16. CASE StopUnlock
  BY <1>16 DEF StopUnlock
<1>17. CASE StopCommand
  BY <1>17 DEF StopCommand
<1>18. CASE StopCommandFails
  BY <1>18 DEF StopCommandFails
<1>19. CASE StartInterface
  BY <1>19 DEF StartInterface
<1>20. CASE Tick
  BY <1>20 DEF Tick
<1>21. CASE UrbComplete
  BY <1>21 DEF UrbComplete
<1>22. CASE ReportDrained
  <2>0. congested' \in BOOLEAN
    BY <1>22, Zenon DEF ReportDrained
  <2>1. TypeOK'
    BY <1>22, <2>0 DEF ReportDrained
  <2>2. RingBounds'
    BY <1>22 DEF ReportDrained
  <2>3. SlotsConserved' /\ FreedAfterThread'
    BY <1>22 DEF ReportDrained
  <2>4. QED
    BY <2>1, <2>2, <2>3
<1>23. CASE ReportFull
  BY <1>23 DEF ReportFull
<1>24. CASE Unplug
  <2>0. attached' \in BOOLEAN
    BY <1>24, Zenon DEF Unplug
  <2>1. TypeOK'
    BY <1>24, <2>0 DEF Unplug
  <2>2. RingBounds'
    BY <1>24 DEF Unplug
  <2>3. SlotsConserved' /\ FreedAfterThread'
    BY <1>24 DEF Unplug
  <2>4. QED
    BY <2>1, <2>2, <2>3
<1>25. CASE TermBegin
  <2>1. /\ term' = "terminate" /\ stopper' \in {stopper, "loop"}
        /\ stopper' = stopper \/ stopper = "up"
        /\ mark' \in {mark, accepted}
        /\ UNCHANGED <<ring, writer, thread, tokens, urbs, stops, attached,
                       onclosing, should_stop>>
    BY <1>25 DEF TermBegin
  <2>2. clear_requested' \in BOOLEAN
    <3>1. clear_requested' = TRUE \/ clear_requested' = clear_requested
      BY <1>25 DEF TermBegin
    <3>2. QED
      BY <3>1
  <2>3. TypeOK'
    BY <2>1, <2>2
  <2>4. RingBounds' /\ SlotsConserved' /\ FreedAfterThread'
    BY <1>25, <2>1 DEF TermBegin
  <2>5. QED
    BY <2>3, <2>4
<1>26. CASE TermClosing
  BY <1>26 DEF TermClosing
<1>27. CASE TermStopThread
  BY <1>27 DEF TermStopThread
<1>28. CASE TermFree
  BY <1>28 DEF TermFree
<1>29. CASE UNCHANGED vars
  BY <1>29 DEF vars
<1>30. QED
  BY <1>1, <1>2, <1>3, <1>4, <1>5, <1>6, <1>7, <1>8, <1>9, <1>10, <1>11, <1>11a, <1>11b, <1>11c, <1>11d, <1>12, <1>13, <1>14, <1>15, <1>16, <1>17, <1>18, <1>19, <1>20, <1>21, <1>22, <1>23, <1>24, <1>25, <1>26, <1>27, <1>28, <1>29
     DEF Next, Writer, Thread, Stopper, Device, Term

(* The state keeps its type for any interleaving of writers, thread, stop  *)
(* and shutdown; in particular the semaphore and the number of URBs stay   *)
(* within MAX_TX_URBS.                                                     *)
THEOREM TypeCorrect == Spec => []TypeOK
<1>1. Safe => TypeOK
  BY DEF Safe
<1>2. QED
  BY <1>1, InitSafe, NextSafe, PTL DEF Spec

(* tx_usb_transfer_sem: every slot is free, or held by exactly one of the  *)
(* tx thread, a stop and an URB in flight.                                 *)
THEOREM SlotsAreConserved == Spec => []SlotsConserved
<1>1. Safe => SlotsConserved
  BY DEF Safe
<1>2. QED
  BY <1>1, InitSafe, NextSafe, PTL DEF Spec

(* apt_usbtrx_term frees tx_data only when the tx thread has returned.     *)
THEOREM FreedIsUnused == Spec => []FreedAfterThread
<1>1. Safe => FreedAfterThread
  BY DEF Safe
<1>2. QED
  BY <1>1, InitSafe, NextSafe, PTL DEF Spec

-----------------------------------------------------------------------------
(* A stop of the network interface                                         *)

(* The steps of the stop loop, of the clear in the thread and of the       *)
(* network core keep the promises of Quiet.                                *)
LEMMA NextQuiet == Safe /\ QuietStop /\ Quiet /\ [Next]_vars => Quiet'
<1> SUFFICES ASSUME Safe, QuietStop, Quiet, [Next]_vars
             PROVE  Quiet'
  OBVIOUS
<1> USE DEF Safe, TypeOK, RingBounds, Quiet, IdleWriter, At, ring, tokens,
        urbs, stopping, closing
<1>1. CASE WriteCheck
  BY <1>1 DEF WriteCheck
<1>2. CASE WriteCopy
  BY <1>2 DEF WriteCopy
<1>3. CASE WritePublish
  BY <1>3 DEF WritePublish
<1>4. CASE ThreadTop
  BY <1>4 DEF ThreadTop
<1>5. CASE ThreadClearRead
  BY <1>5 DEF ThreadClearRead
<1>6. CASE ThreadClearWrite
  BY <1>6 DEF ThreadClearWrite
<1>7. CASE ThreadCleared
  BY <1>7 DEF ThreadCleared
<1>8. CASE ThreadWait
  BY <1>8 DEF ThreadWait
<1>9. CASE ThreadToken
  BY <1>9 DEF ThreadToken
<1>10. CASE ThreadDown
  BY <1>10 DEF ThreadDown
<1>11. CASE ThreadTake
  BY <1>11 DEF ThreadTake
<1>11a. CASE BrokenTake
  BY <1>11a DEF BrokenTake
<1>11b. CASE BrokenSkip
  BY <1>11b DEF BrokenSkip
<1>11c. CASE BrokenHeader
  BY <1>11c DEF BrokenHeader
<1>11d. CASE BodyRead
  BY <1>11d DEF BodyRead
<1>12. CASE ThreadSubmit
  BY <1>12 DEF ThreadSubmit
<1>13. CASE ThreadSubmitFails
  BY <1>13 DEF ThreadSubmitFails
<1>14. CASE StopRequest
  BY <1>14 DEF StopRequest
<1>15. CASE StopTryLock
  BY <1>15 DEF StopTryLock
<1>16. CASE StopUnlock
  BY <1>16 DEF StopUnlock
<1>17. CASE StopCommand
  BY <1>17 DEF StopCommand
<1>18. CASE StopCommandFails
  BY <1>18 DEF StopCommandFails
<1>19. CASE StartInterface
  BY <1>19 DEF StartInterface
<1>20. CASE Tick
  BY <1>20 DEF Tick
<1>21. CASE UrbComplete
  BY <1>21 DEF UrbComplete
<1>22. CASE ReportDrained
  BY <1>22 DEF ReportDrained
<1>23. CASE ReportFull
  BY <1>23 DEF ReportFull
<1>24. CASE Unplug
  BY <1>24 DEF Unplug
<1>25. CASE TermBegin
  BY <1>25 DEF TermBegin
<1>26. CASE TermClosing
  BY <1>26 DEF TermClosing
<1>27. CASE TermStopThread
  BY <1>27 DEF TermStopThread
<1>28. CASE TermFree
  BY <1>28 DEF TermFree
<1>29. CASE UNCHANGED vars
  BY <1>29 DEF vars
<1>30. QED
  BY <1>1, <1>2, <1>3, <1>4, <1>5, <1>6, <1>7, <1>8, <1>9, <1>10, <1>11, <1>11a, <1>11b, <1>11c, <1>11d, <1>12, <1>13, <1>14, <1>15, <1>16, <1>17, <1>18, <1>19, <1>20, <1>21, <1>22, <1>23, <1>24, <1>25, <1>26, <1>27, <1>28, <1>29
     DEF Next, Writer, Thread, Stopper, Device, Term

(* Messages stay in order through copies, clears, takes and submits.       *)
LEMMA NextOrdered ==
    Safe /\ QuietStop /\ Quiet /\ Ordered /\ [Next]_vars => Ordered'
<1> SUFFICES ASSUME Safe, QuietStop, Quiet, Ordered, [Next]_vars
             PROVE  Ordered'
  OBVIOUS
<1> USE BoundsAssumption
    DEF Safe, TypeOK, RingBounds, Quiet, IdleWriter, At, ring, tokens,
        urbs, stopping, closing
<1>1. CASE WriteCheck
  BY <1>1 DEF Ordered, InRing, WriteCheck
<1>2. CASE WriteCopy
  <2>1. thread.pc # "clearing" /\ wr \in 0..(MaxMsgs - 1)
    BY <1>2 DEF WriteCopy
  <2>2. /\ UNCHANGED <<rd, wr, accepted, torn, thread, sent>>
        /\ writer'.pc = "copied" /\ writer'.at = wr
        /\ slot' = [slot EXCEPT ![wr] = accepted + 1]
    BY <1>2 DEF WriteCopy
  <2>3. InRing' = InRing /\ wr \notin InRing /\ InRing \subseteq 0..(MaxMsgs - 1)
    BY <2>2 DEF InRing
  <2>4. slot'[wr] = accepted + 1 /\ \A i \in InRing : slot'[i] = slot[i]
    BY <2>1, <2>2, <2>3
  <2>5. QED
    BY <2>2, <2>3, <2>4 DEF Ordered
<1>3. CASE WritePublish
  <2>0. writer.pc = "copied"
    BY <1>3 DEF WritePublish
  <2>1. /\ thread.pc # "clearing" /\ wr \in 0..(MaxMsgs - 1)
        /\ writer.at = wr /\ slot[wr] = accepted + 1 /\ ~torn /\ thread.pc # "body"
    <3>1. thread.pc # "clearing" /\ wr \in 0..(MaxMsgs - 1)
      BY <2>0
    <3>2. QED
      BY <2>0, <3>1 DEF Ordered
  <2>2. /\ UNCHANGED <<slot, rd, thread, sent>>
        /\ writer'.pc = "idle"
        /\ wr' = wr + 1 /\ accepted' = accepted + 1 /\ ~torn'
    BY <1>3, <2>1 DEF WritePublish
  <2>3. /\ InRing' = InRing \cup {wr}
        /\ InRing \subseteq 0..(MaxMsgs - 1) /\ \A i \in InRing : i < wr
    BY SMTT(30), <2>1, <2>2 DEF InRing
  <2>4. /\ accepted \in Nat
        /\ \A i \in 0..(MaxMsgs - 1) : slot[i] \in Nat
        /\ \A k \in 1..Len(sent) : sent[k] \in Nat
        /\ thread.msg \in Nat /\ wr \in Nat
    BY SMTT(30)
  <2> HIDE DEF TypeOK, RingBounds, Quiet
  <2>5. /\ \A i, j \in InRing' : i < j => slot'[i] < slot'[j]
        /\ \A i \in InRing' : slot'[i] <= accepted'
    BY <2>1, <2>2, <2>3, <2>4 DEF Ordered
  <2>6. /\ \A k \in 1..Len(sent') : sent'[k] <= accepted'
        /\ \A i \in InRing', k \in 1..Len(sent') : sent'[k] < slot'[i]
    BY <2>1, <2>2, <2>3, <2>4 DEF Ordered
  <2>7. thread'.pc = "submit" =>
          /\ thread'.msg <= accepted'
          /\ \A i \in InRing' : thread'.msg < slot'[i]
    BY <2>1, <2>2, <2>3, <2>4 DEF Ordered
  <2>8. QED
    BY <2>1, <2>2, <2>5, <2>6, <2>7 DEF Ordered
<1>4. CASE ThreadTop
  BY <1>4 DEF Ordered, InRing, ThreadTop
<1>5. CASE ThreadClearRead
  BY <1>5 DEF Ordered, InRing, ThreadClearRead
<1>6. CASE ThreadClearWrite
  BY <1>6 DEF Ordered, InRing, ThreadClearWrite
<1>7. CASE ThreadCleared
  BY <1>7 DEF Ordered, InRing, ThreadCleared
<1>8. CASE ThreadWait
  BY <1>8 DEF Ordered, InRing, ThreadWait
<1>9. CASE ThreadToken
  BY <1>9 DEF Ordered, InRing, ThreadToken, Renewed
<1>10. CASE ThreadDown
  BY <1>10 DEF Ordered, InRing, ThreadDown
<1>11. CASE ThreadTake
  <2>1. CASE rd = wr
    BY SMTT(60), <1>11, <2>1 DEF ThreadTake, Ordered, InRing
  <2>2. CASE rd # wr
    <3>1. /\ UNCHANGED <<slot, wr, accepted, torn, writer, sent>>
          /\ thread.pc = "take"
          /\ thread'.pc = "submit" /\ thread'.msg = slot[rd]
          /\ rd' = rd + 1
      BY <1>11, <2>2 DEF ThreadTake
    <3>2. /\ rd \in 0..(MaxMsgs - 1) /\ rd < wr
          /\ InRing = {i \in 0..(MaxMsgs - 1) : rd <= i /\ i < wr}
          /\ InRing' = {i \in 0..(MaxMsgs - 1) : rd + 1 <= i /\ i < wr}
      BY <2>2, <3>1 DEF InRing
    <3>3. /\ rd \in InRing /\ InRing' \subseteq InRing
          /\ \A i \in InRing' : rd < i
      BY <3>2
    <3>4. QED
      BY <3>1, <3>3 DEF Ordered
  <2>3. QED
    BY <2>1, <2>2
<1>11a. CASE BrokenTake
  BY <1>11a DEF Ordered, BrokenTake
<1>11b. CASE BrokenSkip
  BY <1>11b DEF Ordered, BrokenSkip
<1>11c. CASE BrokenHeader
  BY <1>11c DEF Ordered, BrokenHeader
<1>11d. CASE BodyRead
  BY <1>11d DEF Ordered, BodyRead
<1>12. CASE ThreadSubmit
  <2>1. /\ thread.pc = "submit" /\ thread'.pc = "top"
        /\ UNCHANGED <<slot, rd, wr, accepted, torn, writer>>
        /\ sent' = Append(sent, thread.msg)
    BY <1>12 DEF ThreadSubmit
  <2>2. InRing' = InRing
    BY <2>1 DEF InRing
  <2>3. /\ Len(sent') = Len(sent) + 1 /\ Len(sent) \in Nat
        /\ \A k \in 1..Len(sent) : sent'[k] = sent[k]
        /\ sent'[Len(sent) + 1] = thread.msg
    BY <2>1
  <2> HIDE DEF Safe, TypeOK, RingBounds, Quiet
  <2>4. /\ \A k \in 1..Len(sent') : sent'[k] <= accepted
        /\ \A i \in InRing, k \in 1..Len(sent') : sent'[k] < slot[i]
    BY <2>1, <2>3 DEF Ordered
  <2>5. \A i, j \in 1..Len(sent') : i < j => sent'[i] < sent'[j]
    BY <2>1, <2>3 DEF Ordered
  <2>6. QED
    BY <2>1, <2>2, <2>4, <2>5 DEF Ordered
<1>13. CASE ThreadSubmitFails
  BY <1>13 DEF Ordered, InRing, ThreadSubmitFails
<1>14. CASE StopRequest
  BY <1>14 DEF Ordered, InRing, StopRequest
<1>15. CASE StopTryLock
  BY <1>15 DEF Ordered, InRing, StopTryLock
<1>16. CASE StopUnlock
  BY <1>16 DEF Ordered, InRing, StopUnlock
<1>17. CASE StopCommand
  BY <1>17 DEF Ordered, InRing, StopCommand
<1>18. CASE StopCommandFails
  BY <1>18 DEF Ordered, InRing, StopCommandFails
<1>19. CASE StartInterface
  BY <1>19 DEF Ordered, InRing, StartInterface
<1>20. CASE Tick
  BY <1>20 DEF Ordered, InRing, Tick
<1>21. CASE UrbComplete
  BY <1>21 DEF Ordered, InRing, UrbComplete
<1>22. CASE ReportDrained
  BY <1>22 DEF Ordered, InRing, ReportDrained
<1>23. CASE ReportFull
  BY <1>23 DEF Ordered, InRing, ReportFull
<1>24. CASE Unplug
  BY <1>24 DEF Ordered, InRing, Unplug
<1>25. CASE TermBegin
  BY <1>25 DEF Ordered, InRing, TermBegin
<1>26. CASE TermClosing
  BY <1>26 DEF Ordered, InRing, TermClosing
<1>27. CASE TermStopThread
  BY <1>27 DEF Ordered, InRing, TermStopThread
<1>28. CASE TermFree
  BY <1>28 DEF Ordered, InRing, TermFree
<1>29. CASE UNCHANGED vars
  BY <1>29 DEF Ordered, InRing, vars
<1>30. QED
  BY <1>1, <1>2, <1>3, <1>4, <1>5, <1>6, <1>7, <1>8, <1>9, <1>10, <1>11, <1>11a, <1>11b, <1>11c, <1>11d, <1>12, <1>13, <1>14, <1>15, <1>16, <1>17, <1>18, <1>19, <1>20, <1>21, <1>22, <1>23, <1>24, <1>25, <1>26, <1>27, <1>28, <1>29
     DEF Next, Writer, Thread, Stopper, Device, Term

(* Both hold in every state of a network interface.                        *)
LEMMA QuietInvariant == Spec => [](Safe /\ QuietInv)
<1>1. Init => QuietInv
  BY DEF Init, QuietInv, Quiet, Ordered, InRing, IdleWriter, At
<1>2. Safe /\ QuietInv /\ [Next]_vars => QuietInv'
  BY NextQuiet, NextOrdered DEF QuietInv
<1>3. QED
  BY <1>1, <1>2, InitSafe, NextSafe, PTL DEF Spec

(* Once the loop of ep1_cf02a_stop_can_interface has ended, tx_data is     *)
(* empty and the thread has no message in hand.                            *)
THEOREM StopDrains == Spec => []StoppedIsDrained
<1>1. Safe /\ QuietInv => StoppedIsDrained
  BY DEF QuietInv, Quiet, StoppedIsDrained
<1>2. QED
  BY <1>1, QuietInvariant, PTL

(* Through the network interface, messages are submitted at most once and  *)
(* in the order of the writes, whatever was cleared or dropped in between. *)
THEOREM MessagesInOrder == Spec => []SentInOrder
<1>1. Safe /\ QuietInv => SentInOrder
  BY DEF QuietInv, Ordered, SentInOrder
<1>2. QED
  BY <1>1, QuietInvariant, PTL

(* A stopped network interface submits nothing until it is started again.  *)
THEOREM StoppedIsSilent == Spec => NothingSentWhileDown
<1>1. ASSUME Safe, QuietInv, [Next]_vars
      PROVE  [QuietStop /\ stopper \in {"command", "down"} => sent' = sent]_vars
  <2> SUFFICES ASSUME Quiet, stopper \in {"command", "down"}, Next
               PROVE  sent' = sent
    BY <1>1 DEF QuietInv, vars, urbs
  <2>1. ~ThreadSubmit
    BY DEF Quiet, ThreadSubmit
  <2>2. QED
    BY <2>1 DEF Next, Writer, Thread, Stopper, Device, Term, WriteCheck, WriteCopy,
       WritePublish, ThreadTop, ThreadClearRead, ThreadClearWrite,
       ThreadCleared, ThreadWait, ThreadToken, ThreadDown, ThreadTake,
       BrokenTake, BrokenSkip, BrokenHeader, BodyRead,
       ThreadSubmitFails, StopRequest, StopTryLock, StopUnlock, StopCommand,
       StopCommandFails, StartInterface, Tick, UrbComplete, ReportDrained,
       ReportFull, Unplug, TermBegin, TermClosing, TermStopThread, TermFree,
       urbs
<1>2. QED
  BY <1>1, QuietInvariant, PTL DEF Spec, NothingSentWhileDown

-----------------------------------------------------------------------------
(* The transmit path is a queue                                            *)

(* A write in progress still has the room that it has found.               *)
RoomInv == writer.pc # "idle" => wr - rd < Capacity

LEMMA NextRoom ==
    ASSUME Safe, QuietStop, Quiet, Ordered, RoomInv, [Next]_vars
    PROVE  RoomInv'
<1> USE CapacityAssumption, BoundsAssumption DEF Safe, TypeOK, RingBounds, RoomInv
<1>1. CASE WriteCheck
  BY <1>1 DEF WriteCheck, ring
<1>2. CASE WriteCopy
  BY <1>2 DEF WriteCopy
<1>3. CASE WritePublish
  BY <1>3 DEF WritePublish, IdleWriter
<1>4. CASE ThreadClearRead \/ ThreadClearWrite
  <2>1. writer.pc = "idle" /\ writer' = writer
    BY <1>4 DEF ThreadClearRead, ThreadClearWrite, Quiet
  <2>2. QED
    BY <2>1
<1>5. CASE ThreadTake
  BY <1>5 DEF ThreadTake
<1>5a. ~(BrokenTake \/ BrokenSkip \/ BrokenHeader \/ BodyRead)
  BY DEF Ordered, BrokenTake, BrokenSkip, BrokenHeader, BodyRead
<1>6. ASSUME ~WriteCheck, ~WriteCopy, ~WritePublish, ~ThreadClearRead,
             ~ThreadClearWrite, ~ThreadTake
      PROVE  UNCHANGED <<writer, rd, wr>>
  BY <1>5a, <1>6 DEF Next, Writer, Thread, Stopper, Device, Term, ThreadTop, ThreadCleared,
     ThreadWait, ThreadToken, ThreadDown, ThreadSubmit, ThreadSubmitFails, StopRequest,
     StopTryLock, StopUnlock, StopCommand, StopCommandFails, StartInterface, Tick,
     UrbComplete, ReportDrained, ReportFull, Unplug, TermBegin, TermClosing,
     TermStopThread, TermFree, vars, ring
<1>7. QED
  BY <1>1, <1>2, <1>3, <1>4, <1>5, <1>6

LEMMA RoomInvariant ==
    ASSUME QuietStop
    PROVE  Spec => []RoomInv
<1>1. Init => RoomInv
  BY DEF Init, RoomInv, IdleWriter
<1>2. Safe /\ QuietInv /\ RoomInv /\ [Next]_vars => RoomInv'
  BY NextRoom DEF QuietInv
<1>3. QED
  BY <1>1, <1>2, QuietInvariant, PTL DEF Spec

(* The messages that wait: no more than the cells of the ring that are in  *)
(* use, and the one that the thread has in hand.                           *)
InHand == IF thread.pc = "submit" THEN {thread.msg} ELSE {}

LEMMA WaitingParts == Waiting = {slot[i] : i \in InRing} \cup InHand
  BY DEF Waiting, InHand

LEMMA WaitingIsBounded ==
    ASSUME TypeOK, RingBounds
    PROVE  /\ IsFiniteSet(Waiting)
           /\ Cardinality(Waiting) <= wr - rd + 1
<1> DEFINE Cells == rd .. (wr - 1)
           Used == {slot[i] : i \in InRing}
<1>1. rd \in Nat /\ wr \in Nat /\ rd <= wr
  BY BoundsAssumption DEF TypeOK, RingBounds
<1>2. IsFiniteSet(Cells) /\ Cardinality(Cells) = wr - rd
  <2>1. rd \in Int /\ wr - 1 \in Int
    BY <1>1
  <2>2. /\ IsFiniteSet(Cells)
        /\ Cardinality(Cells) = IF rd > wr - 1 THEN 0 ELSE (wr - 1) - rd + 1
    BY <2>1, FS_Interval
  <2>3. QED
    BY <1>1, <2>2
<1>3. InRing \subseteq Cells
  BY <1>1 DEF InRing
<1>4. /\ IsFiniteSet(InRing) /\ Cardinality(InRing) <= wr - rd
      /\ Cardinality(InRing) \in Nat
  BY <1>2, <1>3, FS_Subset, FS_CardinalityType
<1>5. [i \in InRing |-> slot[i]] \in Surjection(InRing, Used)
  BY DEF Surjection
<1>6. /\ IsFiniteSet(Used) /\ Cardinality(Used) <= wr - rd
      /\ Cardinality(Used) \in Nat
  BY <1>1, <1>4, <1>5, FS_Surjection, FS_CardinalityType
<1>7. CASE thread.pc = "submit"
  <2>1. Waiting = Used \cup {thread.msg}
    BY <1>7 DEF Waiting
  <2>2. QED
    BY <1>1, <1>6, <2>1, FS_AddElement
<1>8. CASE thread.pc # "submit"
  <2>1. Waiting = Used
    BY <1>8 DEF Waiting
  <2>2. QED
    BY <1>1, <1>6, <2>1
<1>9. QED
  BY <1>7, <1>8

(* Each action, as the queue sees it.                                      *)
LEMMA SameQueue ==
    ASSUME InRing' = InRing, InHand' = InHand, UNCHANGED <<slot, accepted, sent, stopper>>
    PROVE  UNCHANGED <<Phase, accepted, Waiting, sent>>
  BY WaitingParts DEF Phase, Waiting, InHand

(* The thread, the clock, the URBs and term beside the messages.           *)
Beside ==
    \/ ThreadTop \/ ThreadCleared \/ ThreadWait \/ ThreadToken \/ ThreadDown
    \/ Device \/ ReportFull \/ Unplug \/ TermClosing \/ TermStopThread \/ TermFree

LEMMA BesideIsStutter ==
    ASSUME Beside \/ WriteCheck \/ UNCHANGED vars
    PROVE  UNCHANGED <<Phase, accepted, Waiting, sent>>
<1>1. /\ UNCHANGED <<slot, rd, wr, accepted, sent, stopper>>
      /\ \/ thread.pc \notin {"clearing", "submit"} /\ thread'.pc \notin {"clearing", "submit"}
         \/ UNCHANGED thread
  BY DEF Beside, WriteCheck, Device, Term, ThreadTop, ThreadCleared, ThreadWait, ThreadToken,
     ThreadDown, Tick, UrbComplete, ReportDrained, ReportFull, Unplug, TermClosing,
     TermStopThread, TermFree, vars, ring, tokens, urbs, stopping, closing, At
<1>2. InRing' = InRing /\ InHand' = InHand
  BY <1>1 DEF InRing, InHand
<1>3. QED
  BY <1>1, <1>2, SameQueue

(* ringbuffer_write is seen when it stores the pointer.                    *)
LEMMA CopyIsStutter ==
    ASSUME Safe, QuietStop, Quiet, Ordered, WriteCopy
    PROVE  UNCHANGED <<Phase, accepted, Waiting, sent>>
<1>1. /\ UNCHANGED <<rd, wr, accepted, thread, sent, stopper>>
      /\ slot' = [slot EXCEPT ![wr] = accepted + 1]
  BY DEF WriteCopy, urbs, stopping
<1>2. InRing' = InRing /\ InHand' = InHand
  BY <1>1 DEF InRing, InHand
<1>3. \A i \in InRing : slot'[i] = slot[i]
  BY <1>1 DEF InRing, Safe, TypeOK
<1>4. Waiting' = Waiting
  BY <1>2, <1>3, WaitingParts, Zenon DEF Waiting, InHand
<1>5. QED
  BY <1>1, <1>4 DEF Phase

LEMMA SameCardinality == \A S : Queue!Cardinality(S) = Cardinality(S)
  BY Zenon DEF Cardinality, Queue!Cardinality

LEMMA PublishIsAccept ==
    ASSUME Safe, QuietStop, Quiet, Ordered, RoomInv, WritePublish
    PROVE  Queue!Accept
<1>1. /\ writer.pc = "copied" /\ UNCHANGED <<slot, rd, thread, sent, stopper>>
      /\ wr' = writer.at + 1 /\ accepted' = accepted + 1
  BY DEF WritePublish, urbs, stopping
<1>2. /\ stopper = "up" /\ thread.pc # "clearing"
      /\ writer.at = wr /\ slot[wr] = accepted + 1
  BY <1>1 DEF Quiet, Ordered
<1>3. rd \in Nat /\ wr \in 0..(MaxMsgs - 1)
  BY <1>1, BoundsAssumption DEF Safe, TypeOK, RingBounds
<1>4. InRing' = InRing \cup {wr} /\ InHand' = InHand
  BY SMTT(30), <1>1, <1>2, <1>3 DEF InRing, InHand, Safe, RingBounds
<1>5. Waiting' = Waiting \cup {accepted + 1}
  <2>1. Waiting' = {slot[i] : i \in InRing'} \cup InHand
    BY <1>1, <1>4 DEF Waiting, InHand
  <2>2. QED
    BY <1>2, <1>4, <2>1, WaitingParts
<1>6. Cardinality(Waiting) <= Capacity
  <2>1. wr - rd < Capacity
    BY <1>1 DEF RoomInv
  <2>2. Cardinality(Waiting) <= wr - rd + 1 /\ Cardinality(Waiting) \in Nat
    BY WaitingIsBounded, FS_CardinalityType DEF Safe
  <2>3. QED
    BY <1>3, <2>1, <2>2, CapacityAssumption
<1>7. Phase = "up" /\ Phase' = "up"
  BY <1>1, <1>2 DEF Phase
<1>8. QED
  BY <1>1, <1>5, <1>6, <1>7, SameCardinality DEF Queue!Accept

(* The message moves from the ring to the hand of the thread.              *)
LEMMA TakeIsStutter ==
    ASSUME Safe, ThreadTake
    PROVE  UNCHANGED <<Phase, accepted, Waiting, sent>>
<1>1. UNCHANGED <<slot, wr, accepted, sent, stopper>> /\ thread.pc = "take"
  BY DEF ThreadTake, stopping
<1>2. CASE rd = wr
  <2>1. InRing' = InRing /\ InHand' = InHand
    BY <1>1, <1>2 DEF ThreadTake, InRing, InHand, At
  <2>2. QED
    BY <1>1, <2>1, SameQueue
<1>3. CASE rd # wr
  <2>1. rd' = rd + 1 /\ thread' = [pc |-> "submit", msg |-> slot[rd]]
    BY <1>3 DEF ThreadTake
  <2>2. rd \in 0..(MaxMsgs - 1) /\ rd < wr
    BY <1>3, BoundsAssumption DEF Safe, TypeOK, RingBounds
  <2>3. InRing = InRing' \cup {rd}
    BY <1>1, <2>1, <2>2 DEF InRing
  <2>4. InHand = {} /\ InHand' = {slot[rd]}
    BY <1>1, <2>1 DEF InHand
  <2>5. Waiting' = {slot[i] : i \in InRing'} \cup InHand'
    BY <1>1 DEF Waiting, InHand
  <2>6. QED
    BY <1>1, <2>3, <2>4, <2>5, WaitingParts DEF Phase
<1>4. QED
  BY <1>2, <1>3

(* The message in hand is the oldest.                                      *)
LEMMA InHandIsOldest ==
    ASSUME Safe, Ordered, thread.pc = "submit", InRing' = InRing, UNCHANGED slot,
           thread'.pc = "top"
    PROVE  Queue!Leaves(thread.msg)
<1>1. Waiting = {slot[i] : i \in InRing} \cup {thread.msg}
  BY DEF Waiting
<1>2. Waiting' = {slot[i] : i \in InRing}
  BY DEF Waiting
<1>3. \A i \in InRing : thread.msg < slot[i]
  BY DEF Ordered
<1>4. thread.msg \in Int /\ \A i \in InRing : slot[i] \in Int
  BY DEF Safe, TypeOK, InRing
<1>5. \A n \in Waiting : thread.msg <= n
  BY <1>1, <1>3, <1>4
<1>6. Waiting' = Waiting \ {thread.msg}
  BY <1>1, <1>2, <1>3, <1>4
<1>7. QED
  BY <1>1, <1>5, <1>6 DEF Queue!Leaves

LEMMA SubmitIsSend ==
    ASSUME Safe, QuietStop, Quiet, Ordered, ThreadSubmit
    PROVE  Queue!Send
<1>1. /\ thread.pc = "submit" /\ thread'.pc = "top"
      /\ UNCHANGED <<slot, rd, wr, accepted, stopper>>
      /\ sent' = Append(sent, thread.msg)
  BY DEF ThreadSubmit, ring, stopping, At
<1>2. InRing' = InRing
  BY <1>1 DEF InRing
<1>3. Queue!Leaves(thread.msg)
  BY <1>1, <1>2, InHandIsOldest
<1>4. stopper \in {"up", "loop"}
  BY <1>1 DEF Quiet, Safe, TypeOK
<1>5. Phase # "down" /\ Phase' = Phase
  BY <1>1, <1>4 DEF Phase
<1>6. QED
  BY <1>1, <1>3, <1>5 DEF Queue!Send, Queue!Leaves

LEMMA FailedSubmitIsDrop ==
    ASSUME Safe, Ordered, ThreadSubmitFails
    PROVE  Queue!Drop
<1>1. /\ thread.pc = "submit" /\ thread'.pc = "top"
      /\ UNCHANGED <<slot, rd, wr, accepted, stopper, sent>>
  BY DEF ThreadSubmitFails, ring, stopping, At
<1>2. InRing' = InRing
  BY <1>1 DEF InRing
<1>3. Queue!Leaves(thread.msg)
  BY <1>1, <1>2, InHandIsOldest
<1>4. QED
  BY <1>1, <1>3 DEF Queue!Drop, Queue!Leaves, Phase

(* A clear is seen at its first store.                                     *)
LEMMA ClearIsDiscard ==
    ASSUME Safe, QuietStop, Quiet, Ordered, ThreadClearRead \/ ThreadClearWrite
    PROVE  Queue!Discard
<1>1. /\ UNCHANGED <<slot, accepted, sent, stopper>>
      /\ thread.pc \in {"clear", "clearing"} /\ thread'.pc # "submit"
  BY DEF ThreadClearRead, ThreadClearWrite, stopping, urbs, At
<1>2. stopper = "loop"
  BY <1>1 DEF Quiet
<1>3. InRing' = {}
  <2>1. CASE ThreadClearRead
    BY <2>1 DEF ThreadClearRead, At, InRing
  <2>2. CASE ThreadClearWrite
    BY <2>2, BoundsAssumption DEF ThreadClearWrite, InRing, At, Safe, TypeOK, RingBounds
  <2>3. QED
    BY <2>1, <2>2
<1>4. Waiting' = {}
  BY <1>1, <1>3 DEF Waiting
<1>5. QED
  BY <1>1, <1>2, <1>4 DEF Queue!Discard, Phase

(* The stop, and the start of the interface.                               *)
LEMMA StopIsStopBegin ==
    ASSUME StopRequest \/ TermBegin
    PROVE  Queue!StopBegin \/ UNCHANGED <<Phase, accepted, Waiting, sent>>
<1>1. /\ UNCHANGED <<slot, rd, wr, accepted, thread, sent>>
      /\ \/ stopper = "up" /\ stopper' = "loop"
         \/ UNCHANGED stopper
  BY DEF StopRequest, TermBegin, ring, urbs
<1>2. Waiting' = Waiting
  BY <1>1 DEF Waiting, InRing
<1>3. QED
  BY <1>1, <1>2 DEF Queue!StopBegin, Phase

LEMMA StopperStep ==
    ASSUME Safe, QuietStop, Quiet, Stopper \/ StartInterface
    PROVE  \/ Queue!StopDone \/ Queue!Start
           \/ UNCHANGED <<Phase, accepted, Waiting, sent>>
<1>1. /\ UNCHANGED <<slot, rd, wr, accepted, thread, sent>>
      /\ \/ stopper = "loop" /\ ~clear_requested /\ stopper' = "locked"
         \/ stopper \in {"locked", "command"} /\ stopper' \in {"command", "down"}
         \/ stopper = "down" /\ stopper' = "up"
  BY DEF Stopper, StopTryLock, StopUnlock, StopCommand, StopCommandFails, StartInterface,
     ring, urbs
<1>2. Waiting' = Waiting
  BY <1>1 DEF Waiting, InRing
<1>3. stopper = "loop" /\ ~clear_requested => Waiting = {}
  <2>1. stopper = "loop" /\ ~clear_requested => rd = wr /\ thread.pc # "submit"
    BY DEF Quiet
  <2>2. rd = wr => InRing = {}
    BY BoundsAssumption DEF InRing, Safe, TypeOK
  <2>3. QED
    BY <2>1, <2>2 DEF Waiting
<1>4. QED
  BY <1>1, <1>2, <1>3 DEF Queue!StopDone, Queue!Start, Phase

LEMMA StepIsQueueStep ==
    ASSUME Safe, QuietStop, Quiet, Ordered, RoomInv, [Next]_vars
    PROVE  Queue!Next \/ UNCHANGED <<Phase, accepted, Waiting, sent>>
<1>1. CASE Beside \/ WriteCheck \/ UNCHANGED vars
  BY <1>1, BesideIsStutter
<1>2. CASE WriteCopy \/ WritePublish
  BY <1>2, CopyIsStutter, PublishIsAccept DEF Queue!Next
<1>3. CASE ThreadTake \/ ThreadSubmit \/ ThreadSubmitFails
  BY <1>3, TakeIsStutter, SubmitIsSend, FailedSubmitIsDrop DEF Queue!Next
<1>4. CASE ThreadClearRead \/ ThreadClearWrite
  BY <1>4, ClearIsDiscard DEF Queue!Next
<1>5. CASE StopRequest \/ TermBegin
  BY <1>5, StopIsStopBegin DEF Queue!Next
<1>6. CASE Stopper \/ StartInterface
  BY <1>6, StopperStep DEF Queue!Next
<1>7. ~(BrokenTake \/ BrokenSkip \/ BrokenHeader \/ BodyRead)
  BY DEF Ordered, BrokenTake, BrokenSkip, BrokenHeader, BodyRead
<1>8. QED
  BY <1>1, <1>2, <1>3, <1>4, <1>5, <1>6, <1>7 DEF Next, Writer, Thread, Term, Beside

(* The transmit path of a network interface implements the queue: messages *)
(* are sent once and in order, at most a ring and one of them wait, a stop *)
(* ends with nothing waiting, and nothing is sent before the next start.   *)
THEOREM TransmitImplementsQueue ==
    ASSUME QuietStop
    PROVE  Spec => ImplementsQueue
<1>1. Init => Queue!Init
  <2> SUFFICES ASSUME Init
               PROVE  Queue!Init
    OBVIOUS
  <2>1. InRing = {} /\ thread.pc # "submit"
    BY BoundsAssumption DEF Init, At, InRing
  <2>2. Waiting = {}
    BY <2>1 DEF Waiting
  <2>3. QED
    BY <2>2 DEF Init, Phase, Queue!Init
<1>2. Safe /\ QuietInv /\ RoomInv /\ [Next]_vars
      => Queue!Next \/ UNCHANGED <<Phase, accepted, Waiting, sent>>
  BY StepIsQueueStep DEF QuietInv
<1>3. Safe /\ QuietInv /\ RoomInv /\ [Next]_vars => [Queue!Next]_(Queue!vars)
  BY <1>2 DEF Queue!vars
<1>4. QED
  BY <1>1, <1>3, QuietInvariant, RoomInvariant, PTL DEF Spec, ImplementsQueue, Queue!Spec

-----------------------------------------------------------------------------
(* Nobody waits in vain                                                    *)

(* The thread leaves its loop for kthread_stop alone, and the flags follow *)
(* the stages of apt_usbtrx_term.                                          *)
LeaveInv ==
    /\ thread.pc = "exit" => should_stop
    /\ should_stop => term \in {"waiting", "freed"}
    /\ term = "waiting" => should_stop
    /\ term \in {"closing", "waiting", "freed"} => onclosing

(* apt_usbtrx_term begins without an URB in flight and meets none later;   *)
(* behind its first step the network interface is closed.                  *)
FlushInv ==
    /\ term # "no" => ~attached /\ inflight = 0
    /\ QuietStop /\ term \in {"closing", "waiting", "freed"} => stopper = "down"

LEMMA NextLeave ==
    ASSUME Safe, LeaveInv, [Next]_vars
    PROVE  LeaveInv'
<1> USE DEF LeaveInv, closing, At
<1>1. CASE ThreadTop
  BY <1>1 DEF ThreadTop
<1>2. CASE TermBegin \/ TermClosing \/ TermStopThread \/ TermFree
  BY <1>2 DEF TermBegin, TermClosing, TermStopThread, TermFree
<1>3. CASE Thread /\ ~ThreadTop
  <2>1. thread'.pc # "exit"
    BY <1>3 DEF Safe, TypeOK, Thread, ThreadTop, ThreadClearRead, ThreadClearWrite,
       ThreadCleared, ThreadWait, ThreadToken, ThreadDown, ThreadTake,
       BrokenTake, BrokenSkip, BrokenHeader, BodyRead,
       ThreadSubmit, ThreadSubmitFails
  <2>2. UNCHANGED closing
    BY <1>3, Zenon DEF Thread, ThreadTop, ThreadClearRead, ThreadClearWrite,
       ThreadCleared, ThreadWait, ThreadToken, ThreadDown, ThreadTake,
       BrokenTake, BrokenSkip, BrokenHeader, BodyRead,
       ThreadSubmit, ThreadSubmitFails
  <2>3. QED
    BY <2>1, <2>2
<1>4. CASE Writer \/ StopRequest \/ Stopper \/ StartInterface \/ Device \/ ReportFull
             \/ Unplug \/ UNCHANGED vars
  <2>1. UNCHANGED <<thread, onclosing, should_stop, term>>
    BY <1>4 DEF Writer, WriteCheck, WriteCopy, WritePublish, StopRequest, Stopper,
       StopTryLock, StopUnlock, StopCommand, StopCommandFails, StartInterface,
       Device, Tick, UrbComplete, ReportDrained, ReportFull, Unplug, vars
  <2>2. QED
    BY <2>1
<1>5. QED
  BY <1>1, <1>2, <1>3, <1>4 DEF Next, Term

LEMMA NextFlush ==
    ASSUME Safe, FlushInv, [Next]_vars
    PROVE  FlushInv'
<1> USE DEF FlushInv, closing, urbs, stopping
<1>1. CASE ThreadSubmit
  BY <1>1 DEF ThreadSubmit
<1>2. CASE UrbComplete
  <2>1. inflight > 0 /\ UNCHANGED <<closing, stopping>>
    BY <1>2 DEF UrbComplete
  <2>2. term = "no"
    BY <2>1
  <2>3. QED
    BY <2>1, <2>2
<1>3. CASE StopRequest \/ StartInterface \/ Stopper
  BY <1>3 DEF StopRequest, StartInterface, Stopper, StopTryLock, StopUnlock,
     StopCommand, StopCommandFails
<1>4. CASE Unplug \/ TermBegin \/ TermClosing \/ TermStopThread \/ TermFree
  BY <1>4 DEF Unplug, TermBegin, TermClosing, TermStopThread, TermFree
<1>5. CASE (Thread /\ ~ThreadSubmit) \/ Writer \/ Tick \/ ReportDrained \/ ReportFull
             \/ UNCHANGED vars
  <2>1. UNCHANGED <<closing, inflight, stopper>>
    BY <1>5, Zenon DEF Thread, ThreadTop, ThreadClearRead, ThreadClearWrite,
       ThreadCleared, ThreadWait, ThreadToken, ThreadDown, ThreadTake,
       BrokenTake, BrokenSkip, BrokenHeader, BodyRead,
       ThreadSubmitFails, Writer, WriteCheck, WriteCopy, WritePublish, Tick,
       ReportDrained, ReportFull, vars
  <2>2. QED
    BY <2>1
<1>6. QED
  BY <1>1, <1>2, <1>3, <1>4, <1>5 DEF Next, Term, Device

(* Whoever sleeps in the transmit path, the thread for a slot, a stop for  *)
(* its clear or a slot, kthread_stop for the thread, is due to be woken,   *)
(* unless the thread spins on a torn ring, which a quiet stop excludes.    *)
THEOREM SleepersAreWoken == Spec => []NoWaitInVain
<1>1. Init => LeaveInv /\ FlushInv
  BY DEF Init, LeaveInv, FlushInv, At
<1>2. Safe /\ QuietInv /\ LeaveInv /\ FlushInv => NoWaitInVain
  BY SlotsAssumption DEF Safe, TypeOK, SlotsConserved, Held, Locked, LeaveInv,
     FlushInv, QuietInv, Ordered, NoWaitInVain
<1>3. Safe /\ LeaveInv /\ FlushInv /\ [Next]_vars => LeaveInv' /\ FlushInv'
  BY NextLeave, NextFlush
<1>4. QED
  BY <1>1, <1>2, <1>3, QuietInvariant, PTL DEF Spec

-----------------------------------------------------------------------------
(*                        The network interface: NetTx                     *)
-----------------------------------------------------------------------------

Closed == {"down", "opening", "started"}

Ifc == {"down", "opening", "started", "up", "cancelling", "stopping", "stuck",
        "restarting", "starting"}

NetTypes ==
    /\ queue \in {"running", "stopped"}
    /\ echo \in 0..MaxMsgs
    /\ ifc \in Ifc
    /\ netdev \in BOOLEAN /\ cancelling \in BOOLEAN
    /\ work \in {"idle", "pending", "running"}
    /\ lost \in BOOLEAN /\ overlapped \in BOOLEAN

(* The stop loop belongs to a close or a restart in progress, a clear to   *)
(* the stop loop, and a transmit to an interface that runs; what terminate *)
(* has passed is not passed again.                                         *)
PhaseInv ==
    /\ ifc \in {"up", "cancelling"} => stopper \in {"up", "down"}
    /\ ifc \in {"down", "opening", "stuck", "starting"} => stopper = "down"
    /\ ifc = "started" => stopper = "up"
    /\ ifc \in {"stopping", "restarting"} => stopper \in {"loop", "locked", "command"}
    /\ clear_requested => stopper = "loop"
    /\ thread.pc \in {"clear", "clearing", "cleared"} => clear_requested
    /\ ifc \notin Running => writer.pc = "idle"
    /\ ~netdev => term # "no" /\ ifc \in {"down", "stuck"}
    /\ onclosing => ~netdev
    /\ ifc = "cancelling" /\ term = "no" => stops < MaxStops

(* terminate begins when the last URB and its callback are through, and a  *)
(* close has cancelled the statistics work before it stops the device.     *)
CancelInv ==
    /\ term # "no" => ~attached /\ inflight = 0 /\ done = << >>
    /\ ifc = "cancelling" => cancelling /\ work # "pending"
    /\ ifc \in Closed \cup {"stopping", "stuck"} => work = "idle"

(* The stop loop leaves nothing in the ring or in the hand of the thread,  *)
(* and the command of the close goes out behind the URBs.                  *)
CloseInv ==
    /\ ifc = "stopping" /\ thread.pc = "cleared" => rd = wr
    /\ ifc = "stopping" /\ ~clear_requested => rd = wr /\ thread.pc # "submit"
    /\ ifc \in Closed => /\ queue = "stopped" /\ echo = 0
                         /\ rd = wr /\ thread.pc # "submit"
                         /\ inflight = 0 /\ done = << >>

CauseInv ==
    ifc \in Running /\ queue = "stopped" =>
        \/ lost
        \/ writer.pc # "idle" \/ rd # wr \/ thread.pc \in {"submit", "body"}
        \/ inflight > 0 \/ done # << >>

(* Frames that have been written carry a number.                           *)
NumberInv ==
    /\ \A i \in 0..(MaxMsgs - 1) : i < wr => slot[i] # 0
    /\ writer.pc = "copied" => \A i \in 0..(MaxMsgs - 1) : i <= writer.at => slot[i] # 0
    /\ thread.pc \in {"submit", "body"} => thread.msg # 0
    /\ \A k \in 1..Len(sent) : sent[k] # 0
    /\ inflight <= Len(sent)
    /\ done \in Seq(1..MaxMsgs)

(* One frame at a time: it is with the writer, in the ring, in the hand of *)
(* the thread, in an URB or in its callback.                               *)
NoneAtWriter == writer.pc = "idle"
NoneInRing == rd = wr \/ thread.pc = "clearing"
NoneAtThread == thread.pc # "submit"
NoneInUrb == inflight = 0
NoneDone == done = << >>

FrameInv ==
    /\ queue = "running" => NoneAtWriter /\ NoneInRing /\ NoneAtThread /\ NoneInUrb /\ NoneDone
    /\ ~NoneAtWriter => /\ ifc \in {"up", "starting"}
                        /\ NoneInRing /\ NoneAtThread /\ NoneInUrb /\ NoneDone
    /\ ~NoneInRing => wr = rd + 1 /\ NoneAtThread /\ NoneInUrb /\ NoneDone
    /\ ~NoneAtThread => NoneInUrb /\ NoneDone
    /\ ~NoneInUrb => inflight = 1 /\ NoneDone
    /\ ~NoneDone => Len(done) = 1
    /\ writer.pc = "copied" => writer.at = wr
    /\ ~torn /\ thread.pc # "body"

(* The echo is the echo of this frame.                                     *)
EchoInv ==
    /\ queue = "running" => echo = 0
    /\ echo # 0 =>
        /\ ~NoneAtWriter => echo = accepted + 1
        /\ writer.pc = "copied" => slot[writer.at] = accepted + 1
        /\ ~NoneInRing => slot[rd] = echo
        /\ ~NoneAtThread => thread.msg = echo
        /\ ~NoneInUrb => sent[Len(sent)] = echo
        /\ ~NoneDone => done[1] = echo

NetInv ==
    /\ Safe /\ NetTypes /\ PhaseInv /\ CancelInv /\ CloseInv /\ CauseInv /\ NumberInv
    /\ ~overlapped => FrameInv /\ EchoInv

-----------------------------------------------------------------------------
(* Sequences                                                               *)

(* Appending keeps the elements of a sequence and its length.              *)
LEMMA AppendedNonzero ==
    ASSUME NEW S, NEW s \in Seq(S), NEW e \in S, e # 0,
           \A k \in 1..Len(s) : s[k] # 0
    PROVE  /\ \A k \in 1..Len(Append(s, e)) : Append(s, e)[k] # 0
           /\ Len(Append(s, e)) = Len(s) + 1
  OBVIOUS

(* The same of the frames submitted.                                       *)
LEMMA SubmittedNonzero ==
    ASSUME sent \in Seq(0..MaxMsgs), thread.msg \in 0..MaxMsgs, thread.msg # 0,
           \A k \in 1..Len(sent) : sent[k] # 0
    PROVE  \A k \in 1..Len(Append(sent, thread.msg)) : Append(sent, thread.msg)[k] # 0
  BY AppendedNonzero

(* A sequence of one element has an empty tail.                            *)
LEMMA TailOfOne ==
    ASSUME NEW S, NEW s \in Seq(S), Len(s) = 1
    PROVE  Tail(s) = << >>
<1>1. Tail(s) \in Seq(S) /\ Len(Tail(s)) = 0
  OBVIOUS
<1>2. QED
  BY <1>1, EmptySeq

-----------------------------------------------------------------------------
(* The steps of the transmit path                                          *)

(* The loop of ep1_cf02a_stop_can_interface begins, also on behalf of      *)
(* terminate, when no bound on the stops applies.                          *)
LEMMA StopLoopSafe ==
    ASSUME Safe, StopLoop, stops' \in 0..MaxStops, stopper # "locked"
    PROVE  Safe'
<1> USE BoundsAssumption
    DEF Safe, TypeOK, RingBounds, SlotsConserved, FreedAfterThread, Held,
        Locked, ring, tokens, urbs, closing, StopLoop
<1>1. clear_requested' \in BOOLEAN
  BY Zenon
<1>2. TypeOK'
  BY SMTT(30), <1>1
<1>3. RingBounds' /\ SlotsConserved' /\ FreedAfterThread'
  OBVIOUS
<1>4. QED
  BY <1>2, <1>3

(* Every step of the interface is a step of the transmit path, leaves it   *)
(* alone or begins the stop loop.                                          *)
LEMMA NetSteps ==
    ASSUME [NetNext]_netvars, ~(CloseStop \/ RestartBegin)
    PROVE  [Next]_vars
  BY DEF NetNext, netvars, Next, Writer, Stopper, Device, Term, Xmit, NetWrite, NetThread,
      NetUrbComplete, Callback, Work, WorkRuns, WorkEnds, Close, CloseBegin, CloseDone,
      CloseFails, NetStopLoop, OpenBegin, Open, OpenStarted, OpenDone, OpenFails,
      Restart, RestartStopped, RestartDone, RestartFails, Terminate, NetTermBegin,
      NetTermCancelled, NetTermFree, NetTerm

(* Hence it keeps what holds of the transmit path.                         *)
LEMMA NetSafe ==
    ASSUME Safe, PhaseInv, [NetNext]_netvars
    PROVE  Safe'
<1>1. CASE CloseStop \/ RestartBegin
  <2>1. StopLoop
    BY <1>1 DEF CloseStop, RestartBegin
  <2>2. stops \in 0..MaxStops /\ MaxStops \in Nat
    BY BoundsAssumption DEF Safe, TypeOK
  <2>3. stops' = stops \/ (stops' = stops + 1 /\ stops < MaxStops)
    <3>1. CASE CloseStop
      BY <3>1 DEF CloseStop, PhaseInv
    <3>2. CASE RestartBegin
      BY <3>2 DEF RestartBegin
    <3>3. QED
      BY <1>1, <3>1, <3>2
  <2>6. stops' \in 0..MaxStops
    BY <2>2, <2>3
  <2>4. stopper # "locked"
    BY <1>1 DEF CloseStop, RestartBegin, PhaseInv
  <2>5. QED
    BY <2>1, <2>4, <2>6, StopLoopSafe
<1>2. CASE ~(CloseStop \/ RestartBegin)
  BY <1>2, NetSteps, NextSafe
<1>3. QED
  BY <1>1, <1>2

-----------------------------------------------------------------------------
(* The phases of the interface                                             *)

(* The phases follow the calls of the network core and of terminate.       *)
LEMMA NextPhase ==
    ASSUME Safe, PhaseInv, ~QuietStop, NetNext \/ UNCHANGED netvars
    PROVE  PhaseInv'
<1> USE BoundsAssumption DEF Safe, TypeOK, PhaseInv, Running, At, IdleWriter, vars,
        ring, tokens, urbs, stopping, closing, net
<1>1. CASE Xmit
  BY <1>1 DEF Xmit, WriteCheck
<1>2. CASE WriteCopy /\ UNCHANGED net
  BY <1>2 DEF WriteCopy
<1>3. CASE WritePublish /\ UNCHANGED net
  BY <1>3 DEF WritePublish
<1>4. CASE NetThread /\ ThreadTop
  BY <1>4 DEF NetThread, ThreadTop
<1>5. CASE NetThread /\ ThreadClearRead
  BY <1>5 DEF NetThread, ThreadClearRead
<1>6. CASE NetThread /\ ThreadClearWrite
  BY <1>6 DEF NetThread, ThreadClearWrite
<1>7. CASE NetThread /\ ThreadCleared
  BY <1>7 DEF NetThread, ThreadCleared
<1>8. CASE NetThread /\ ThreadWait
  BY <1>8 DEF NetThread, ThreadWait
<1>9. CASE NetThread /\ ThreadToken
  BY <1>9 DEF NetThread, ThreadToken
<1>10. CASE NetThread /\ ThreadDown
  BY <1>10 DEF NetThread, ThreadDown
<1>11. CASE NetThread /\ ThreadTake
  BY <1>11 DEF NetThread, ThreadTake
<1>11a. CASE NetThread /\ BrokenTake
  BY <1>11a DEF NetThread, BrokenTake
<1>11b. CASE NetThread /\ BrokenSkip
  BY <1>11b DEF NetThread, BrokenSkip
<1>11c. CASE NetThread /\ BrokenHeader
  BY <1>11c DEF NetThread, BrokenHeader
<1>11d. CASE NetThread /\ BodyRead
  BY <1>11d DEF NetThread, BodyRead
<1>12. CASE NetThread /\ ThreadSubmit
  BY <1>12 DEF NetThread, ThreadSubmit
<1>13. CASE NetThread /\ ThreadSubmitFails
  BY <1>13 DEF NetThread, ThreadSubmitFails
<1>14. CASE NetUrbComplete
  BY <1>14 DEF NetUrbComplete, UrbComplete
<1>15. CASE Callback
  BY <1>15 DEF Callback
<1>16. CASE WorkRuns
  BY <1>16 DEF WorkRuns
<1>17. CASE WorkEnds
  BY <1>17 DEF WorkEnds
<1>18. CASE CloseBegin
  BY <1>18 DEF CloseBegin, Cancel
<1>19. CASE CloseStop
  BY <1>19 DEF CloseStop, StopLoop
<1>20. CASE CloseDone
  BY <1>20 DEF CloseDone, StopCommand
<1>21. CASE CloseFails
  BY <1>21 DEF CloseFails, StopCommandFails
<1>22. CASE StopTryLock /\ UNCHANGED net
  BY <1>22 DEF StopTryLock
<1>23. CASE StopUnlock /\ UNCHANGED net
  BY <1>23 DEF StopUnlock
<1>24. CASE OpenBegin
  BY <1>24 DEF OpenBegin
<1>25. CASE OpenStarted
  BY <1>25 DEF OpenStarted, StartInterface
<1>26. CASE OpenDone
  BY <1>26 DEF OpenDone
<1>27. CASE OpenFails
  BY <1>27 DEF OpenFails
<1>28. CASE RestartBegin
  BY <1>28 DEF RestartBegin, StopLoop
<1>29. CASE RestartStopped
  BY <1>29 DEF RestartStopped, StopCommand
<1>30. CASE RestartDone
  BY <1>30 DEF RestartDone, StartInterface
<1>31. CASE RestartFails
  BY <1>31 DEF RestartFails, StopCommandFails
<1>32. CASE (Tick \/ ReportFull \/ ReportDrained) /\ UNCHANGED net
  BY SMTT(30), <1>32 DEF Tick, ReportFull, ReportDrained
<1>33. CASE Unplug /\ UNCHANGED net
  BY <1>33 DEF Unplug
<1>34. CASE NetTermBegin
  BY <1>34 DEF NetTermBegin, TermBegin, Cancel
<1>35. CASE NetTermCancelled
  BY <1>35 DEF NetTermCancelled, Cancelled
<1>36. CASE NetTermFree
  BY <1>36 DEF NetTermFree
<1>37. CASE NetTerm /\ TermClosing
  BY <1>37 DEF NetTerm, TermClosing
<1>38. CASE NetTerm /\ TermStopThread
  BY <1>38 DEF NetTerm, TermStopThread
<1>39. CASE NetTerm /\ TermFree
  BY <1>39 DEF NetTerm, TermFree
<1>40. CASE UNCHANGED netvars
  BY <1>40 DEF netvars, vars
<1>41. QED
  BY <1>1, <1>2, <1>3, <1>4, <1>5, <1>6, <1>7, <1>8, <1>9, <1>10, <1>11, <1>11a,
     <1>11b, <1>11c, <1>11d, <1>12, <1>13,
     <1>14, <1>15, <1>16, <1>17, <1>18, <1>19, <1>20, <1>21, <1>22, <1>23, <1>24, <1>25,
     <1>26, <1>27, <1>28, <1>29, <1>30, <1>31, <1>32, <1>33, <1>34, <1>35, <1>36, <1>37,
     <1>38, <1>39, <1>40
     DEF NetNext, NetWrite, NetThread, Thread, Work, Close, NetStopLoop, Open, Restart,
         Terminate, NetTerm

(* The statistics work is idle before the device is stopped, the URBs      *)
(* are through before terminate begins.                                    *)
LEMMA NextQuietInv ==
    ASSUME NetTypes, PhaseInv, CancelInv, ~QuietStop, NetNext \/ UNCHANGED netvars
    PROVE  CancelInv'
<1> USE DEF NetTypes, PhaseInv, CancelInv, Closed, Running, At, IdleWriter, vars, ring,
        tokens, urbs, stopping, closing, net
<1>1. CASE Xmit
  BY <1>1 DEF Xmit, WriteCheck
<1>2. CASE WriteCopy /\ UNCHANGED net
  BY <1>2 DEF WriteCopy
<1>3. CASE WritePublish /\ UNCHANGED net
  BY <1>3 DEF WritePublish
<1>4. CASE NetThread /\ ThreadTop
  BY <1>4 DEF NetThread, ThreadTop
<1>5. CASE NetThread /\ ThreadClearRead
  BY <1>5 DEF NetThread, ThreadClearRead
<1>6. CASE NetThread /\ ThreadClearWrite
  BY <1>6 DEF NetThread, ThreadClearWrite
<1>7. CASE NetThread /\ ThreadCleared
  BY <1>7 DEF NetThread, ThreadCleared
<1>8. CASE NetThread /\ ThreadWait
  BY <1>8 DEF NetThread, ThreadWait
<1>9. CASE NetThread /\ ThreadToken
  BY <1>9 DEF NetThread, ThreadToken
<1>10. CASE NetThread /\ ThreadDown
  BY <1>10 DEF NetThread, ThreadDown
<1>11. CASE NetThread /\ ThreadTake
  BY <1>11 DEF NetThread, ThreadTake
<1>11a. CASE NetThread /\ BrokenTake
  BY <1>11a DEF NetThread, BrokenTake
<1>11b. CASE NetThread /\ BrokenSkip
  BY <1>11b DEF NetThread, BrokenSkip
<1>11c. CASE NetThread /\ BrokenHeader
  BY <1>11c DEF NetThread, BrokenHeader
<1>11d. CASE NetThread /\ BodyRead
  BY <1>11d DEF NetThread, BodyRead
<1>12. CASE NetThread /\ ThreadSubmit
  BY <1>12 DEF NetThread, ThreadSubmit
<1>13. CASE NetThread /\ ThreadSubmitFails
  BY <1>13 DEF NetThread, ThreadSubmitFails
<1>14. CASE NetUrbComplete
  BY <1>14 DEF NetUrbComplete, UrbComplete
<1>15. CASE Callback
  BY <1>15 DEF Callback
<1>16. CASE WorkRuns
  BY <1>16 DEF WorkRuns
<1>17. CASE WorkEnds
  BY <1>17 DEF WorkEnds
<1>18. CASE CloseBegin
  BY <1>18 DEF CloseBegin, Cancel
<1>19. CASE CloseStop
  BY <1>19 DEF CloseStop, StopLoop
<1>20. CASE CloseDone
  BY <1>20 DEF CloseDone, StopCommand
<1>21. CASE CloseFails
  BY <1>21 DEF CloseFails, StopCommandFails
<1>22. CASE StopTryLock /\ UNCHANGED net
  BY <1>22 DEF StopTryLock
<1>23. CASE StopUnlock /\ UNCHANGED net
  BY <1>23 DEF StopUnlock
<1>24. CASE OpenBegin
  BY <1>24 DEF OpenBegin
<1>25. CASE OpenStarted
  BY <1>25 DEF OpenStarted, StartInterface
<1>26. CASE OpenDone
  BY <1>26 DEF OpenDone
<1>27. CASE OpenFails
  BY <1>27 DEF OpenFails
<1>28. CASE RestartBegin
  BY <1>28 DEF RestartBegin, StopLoop
<1>29. CASE RestartStopped
  BY <1>29 DEF RestartStopped, StopCommand
<1>30. CASE RestartDone
  BY <1>30 DEF RestartDone, StartInterface
<1>31. CASE RestartFails
  BY <1>31 DEF RestartFails, StopCommandFails
<1>32. CASE (Tick \/ ReportFull \/ ReportDrained) /\ UNCHANGED net
  BY <1>32 DEF Tick, ReportFull, ReportDrained
<1>33. CASE Unplug /\ UNCHANGED net
  BY <1>33 DEF Unplug
<1>34. CASE NetTermBegin
  BY <1>34 DEF NetTermBegin, TermBegin, Cancel
<1>35. CASE NetTermCancelled
  BY <1>35 DEF NetTermCancelled, Cancelled
<1>36. CASE NetTermFree
  BY <1>36 DEF NetTermFree
<1>37. CASE NetTerm /\ TermClosing
  BY <1>37 DEF NetTerm, TermClosing
<1>38. CASE NetTerm /\ TermStopThread
  BY <1>38 DEF NetTerm, TermStopThread
<1>39. CASE NetTerm /\ TermFree
  BY <1>39 DEF NetTerm, TermFree
<1>40. CASE UNCHANGED netvars
  BY <1>40 DEF netvars, vars
<1>41. QED
  BY <1>1, <1>2, <1>3, <1>4, <1>5, <1>6, <1>7, <1>8, <1>9, <1>10, <1>11, <1>11a,
     <1>11b, <1>11c, <1>11d, <1>12, <1>13,
     <1>14, <1>15, <1>16, <1>17, <1>18, <1>19, <1>20, <1>21, <1>22, <1>23, <1>24, <1>25,
     <1>26, <1>27, <1>28, <1>29, <1>30, <1>31, <1>32, <1>33, <1>34, <1>35, <1>36, <1>37,
     <1>38, <1>39, <1>40
     DEF NetNext, NetWrite, NetThread, Thread, Work, Close, NetStopLoop, Open, Restart,
         Terminate, NetTerm

(* The stop loop empties the ring, the command waits for the URBs.         *)
LEMMA NextClose ==
    ASSUME Safe, PhaseInv, CancelInv, CloseInv, ~QuietStop, NetNext \/ UNCHANGED netvars
    PROVE  CloseInv'
<1> USE DEF Safe, RingBounds, PhaseInv, CancelInv, CloseInv, Closed, Running, At,
        IdleWriter, vars, ring, tokens, urbs, stopping, closing, net
<1>1. CASE Xmit
  BY <1>1 DEF Xmit, WriteCheck
<1>2. CASE WriteCopy /\ UNCHANGED net
  BY <1>2 DEF WriteCopy
<1>3. CASE WritePublish /\ UNCHANGED net
  BY <1>3 DEF WritePublish
<1>4. CASE NetThread /\ ThreadTop
  BY <1>4 DEF NetThread, ThreadTop
<1>5. CASE NetThread /\ ThreadClearRead
  BY <1>5 DEF NetThread, ThreadClearRead
<1>6. CASE NetThread /\ ThreadClearWrite
  BY <1>6 DEF NetThread, ThreadClearWrite
<1>7. CASE NetThread /\ ThreadCleared
  BY <1>7 DEF NetThread, ThreadCleared
<1>8. CASE NetThread /\ ThreadWait
  BY <1>8 DEF NetThread, ThreadWait
<1>9. CASE NetThread /\ ThreadToken
  BY <1>9 DEF NetThread, ThreadToken
<1>10. CASE NetThread /\ ThreadDown
  BY <1>10 DEF NetThread, ThreadDown
<1>11. CASE NetThread /\ ThreadTake
  BY <1>11 DEF NetThread, ThreadTake
<1>11a. CASE NetThread /\ BrokenTake
  BY <1>11a DEF NetThread, BrokenTake
<1>11b. CASE NetThread /\ BrokenSkip
  BY <1>11b DEF NetThread, BrokenSkip
<1>11c. CASE NetThread /\ BrokenHeader
  BY <1>11c DEF NetThread, BrokenHeader
<1>11d. CASE NetThread /\ BodyRead
  BY <1>11d DEF NetThread, BodyRead
<1>12. CASE NetThread /\ ThreadSubmit
  BY <1>12 DEF NetThread, ThreadSubmit
<1>13. CASE NetThread /\ ThreadSubmitFails
  BY <1>13 DEF NetThread, ThreadSubmitFails
<1>14. CASE NetUrbComplete
  BY <1>14 DEF NetUrbComplete, UrbComplete
<1>15. CASE Callback
  BY <1>15 DEF Callback
<1>16. CASE WorkRuns
  BY <1>16 DEF WorkRuns
<1>17. CASE WorkEnds
  BY <1>17 DEF WorkEnds
<1>18. CASE CloseBegin
  BY <1>18 DEF CloseBegin, Cancel
<1>19. CASE CloseStop
  BY <1>19 DEF CloseStop, StopLoop
<1>20. CASE CloseDone
  BY <1>20 DEF CloseDone, StopCommand
<1>21. CASE CloseFails
  BY <1>21 DEF CloseFails, StopCommandFails
<1>22. CASE StopTryLock /\ UNCHANGED net
  BY <1>22 DEF StopTryLock
<1>23. CASE StopUnlock /\ UNCHANGED net
  BY <1>23 DEF StopUnlock
<1>24. CASE OpenBegin
  BY <1>24 DEF OpenBegin
<1>25. CASE OpenStarted
  BY <1>25 DEF OpenStarted, StartInterface
<1>26. CASE OpenDone
  BY <1>26 DEF OpenDone
<1>27. CASE OpenFails
  BY <1>27 DEF OpenFails
<1>28. CASE RestartBegin
  BY <1>28 DEF RestartBegin, StopLoop
<1>29. CASE RestartStopped
  BY <1>29 DEF RestartStopped, StopCommand
<1>30. CASE RestartDone
  BY <1>30 DEF RestartDone, StartInterface
<1>31. CASE RestartFails
  BY <1>31 DEF RestartFails, StopCommandFails
<1>32. CASE (Tick \/ ReportFull \/ ReportDrained) /\ UNCHANGED net
  BY <1>32 DEF Tick, ReportFull, ReportDrained
<1>33. CASE Unplug /\ UNCHANGED net
  BY <1>33 DEF Unplug
<1>34. CASE NetTermBegin
  BY <1>34 DEF NetTermBegin, TermBegin, Cancel
<1>35. CASE NetTermCancelled
  BY <1>35 DEF NetTermCancelled, Cancelled
<1>36. CASE NetTermFree
  BY <1>36 DEF NetTermFree
<1>37. CASE NetTerm /\ TermClosing
  BY <1>37 DEF NetTerm, TermClosing
<1>38. CASE NetTerm /\ TermStopThread
  BY <1>38 DEF NetTerm, TermStopThread
<1>39. CASE NetTerm /\ TermFree
  BY <1>39 DEF NetTerm, TermFree
<1>40. CASE UNCHANGED netvars
  BY <1>40 DEF netvars, vars
<1>41. QED
  BY <1>1, <1>2, <1>3, <1>4, <1>5, <1>6, <1>7, <1>8, <1>9, <1>10, <1>11, <1>11a,
     <1>11b, <1>11c, <1>11d, <1>12, <1>13,
     <1>14, <1>15, <1>16, <1>17, <1>18, <1>19, <1>20, <1>21, <1>22, <1>23, <1>24, <1>25,
     <1>26, <1>27, <1>28, <1>29, <1>30, <1>31, <1>32, <1>33, <1>34, <1>35, <1>36, <1>37,
     <1>38, <1>39, <1>40
     DEF NetNext, NetWrite, NetThread, Thread, Work, Close, NetStopLoop, Open, Restart,
         Terminate, NetTerm

(* A frame moves on: from the writer to the ring, the thread, the URB.     *)
LEMMA NextCause ==
    ASSUME Safe, PhaseInv, CauseInv, ~QuietStop, NetNext \/ UNCHANGED netvars
    PROVE  CauseInv'
<1> USE DEF Safe, TypeOK, RingBounds, PhaseInv, CauseInv, Running, At, IdleWriter, vars,
        ring, tokens, urbs, stopping, closing, net
<1>1. CASE Xmit
  BY <1>1 DEF Xmit, WriteCheck
<1>2. CASE WriteCopy /\ UNCHANGED net
  BY <1>2 DEF WriteCopy
<1>3. CASE WritePublish /\ UNCHANGED net
  BY <1>3 DEF WritePublish
<1>4. CASE NetThread /\ ThreadTop
  BY <1>4 DEF NetThread, ThreadTop
<1>5. CASE NetThread /\ ThreadClearRead
  BY <1>5 DEF NetThread, ThreadClearRead
<1>6. CASE NetThread /\ ThreadClearWrite
  BY <1>6 DEF NetThread, ThreadClearWrite
<1>7. CASE NetThread /\ ThreadCleared
  BY <1>7 DEF NetThread, ThreadCleared
<1>8. CASE NetThread /\ ThreadWait
  BY <1>8 DEF NetThread, ThreadWait
<1>9. CASE NetThread /\ ThreadToken
  BY <1>9 DEF NetThread, ThreadToken
<1>10. CASE NetThread /\ ThreadDown
  BY <1>10 DEF NetThread, ThreadDown
<1>11. CASE NetThread /\ ThreadTake
  BY <1>11 DEF NetThread, ThreadTake
<1>11a. CASE NetThread /\ BrokenTake
  BY <1>11a DEF NetThread, BrokenTake
<1>11b. CASE NetThread /\ BrokenSkip
  BY <1>11b DEF NetThread, BrokenSkip
<1>11c. CASE NetThread /\ BrokenHeader
  BY <1>11c DEF NetThread, BrokenHeader
<1>11d. CASE NetThread /\ BodyRead
  BY <1>11d DEF NetThread, BodyRead
<1>12. CASE NetThread /\ ThreadSubmit
  BY <1>12 DEF NetThread, ThreadSubmit
<1>13. CASE NetThread /\ ThreadSubmitFails
  BY <1>13 DEF NetThread, ThreadSubmitFails
<1>14. CASE NetUrbComplete
  BY <1>14 DEF NetUrbComplete, UrbComplete
<1>15. CASE Callback
  BY <1>15 DEF Callback
<1>16. CASE WorkRuns
  BY <1>16 DEF WorkRuns
<1>17. CASE WorkEnds
  BY <1>17 DEF WorkEnds
<1>18. CASE CloseBegin
  BY <1>18 DEF CloseBegin, Cancel
<1>19. CASE CloseStop
  BY <1>19 DEF CloseStop, StopLoop
<1>20. CASE CloseDone
  BY <1>20 DEF CloseDone, StopCommand
<1>21. CASE CloseFails
  BY <1>21 DEF CloseFails, StopCommandFails
<1>22. CASE StopTryLock /\ UNCHANGED net
  BY <1>22 DEF StopTryLock
<1>23. CASE StopUnlock /\ UNCHANGED net
  BY <1>23 DEF StopUnlock
<1>24. CASE OpenBegin
  BY <1>24 DEF OpenBegin
<1>25. CASE OpenStarted
  BY <1>25 DEF OpenStarted, StartInterface
<1>26. CASE OpenDone
  BY <1>26 DEF OpenDone
<1>27. CASE OpenFails
  BY <1>27 DEF OpenFails
<1>28. CASE RestartBegin
  BY <1>28 DEF RestartBegin, StopLoop
<1>29. CASE RestartStopped
  BY <1>29 DEF RestartStopped, StopCommand
<1>30. CASE RestartDone
  BY <1>30 DEF RestartDone, StartInterface
<1>31. CASE RestartFails
  BY <1>31 DEF RestartFails, StopCommandFails
<1>32. CASE (Tick \/ ReportFull \/ ReportDrained) /\ UNCHANGED net
  BY <1>32 DEF Tick, ReportFull, ReportDrained
<1>33. CASE Unplug /\ UNCHANGED net
  BY <1>33 DEF Unplug
<1>34. CASE NetTermBegin
  BY <1>34 DEF NetTermBegin, TermBegin, Cancel
<1>35. CASE NetTermCancelled
  BY <1>35 DEF NetTermCancelled, Cancelled
<1>36. CASE NetTermFree
  BY <1>36 DEF NetTermFree
<1>37. CASE NetTerm /\ TermClosing
  BY <1>37 DEF NetTerm, TermClosing
<1>38. CASE NetTerm /\ TermStopThread
  BY <1>38 DEF NetTerm, TermStopThread
<1>39. CASE NetTerm /\ TermFree
  BY <1>39 DEF NetTerm, TermFree
<1>40. CASE UNCHANGED netvars
  BY <1>40 DEF netvars, vars
<1>41. QED
  BY <1>1, <1>2, <1>3, <1>4, <1>5, <1>6, <1>7, <1>8, <1>9, <1>10, <1>11, <1>11a,
     <1>11b, <1>11c, <1>11d, <1>12, <1>13,
     <1>14, <1>15, <1>16, <1>17, <1>18, <1>19, <1>20, <1>21, <1>22, <1>23, <1>24, <1>25,
     <1>26, <1>27, <1>28, <1>29, <1>30, <1>31, <1>32, <1>33, <1>34, <1>35, <1>36, <1>37,
     <1>38, <1>39, <1>40
     DEF NetNext, NetWrite, NetThread, Thread, Work, Close, NetStopLoop, Open, Restart,
         Terminate, NetTerm

(* Types of the interface, one action at a time ...                        *)
LEMMA NextWords ==
    ASSUME Safe, NetTypes, ~QuietStop, NetNext \/ UNCHANGED netvars
    PROVE  /\ queue' \in {"running", "stopped"}
           /\ echo' \in 0..MaxMsgs
           /\ ifc' \in Ifc
           /\ work' \in {"idle", "pending", "running"}
<1> USE BoundsAssumption DEF Safe, TypeOK, NetTypes, Ifc, Running, At, IdleWriter, vars,
        ring, tokens, urbs, stopping, closing, net
<1>1. CASE Xmit
  BY <1>1 DEF Xmit, WriteCheck
<1>2. CASE WriteCopy /\ UNCHANGED net
  BY <1>2 DEF WriteCopy
<1>3. CASE WritePublish /\ UNCHANGED net
  BY <1>3 DEF WritePublish
<1>4. CASE NetThread /\ ThreadTop
  BY <1>4 DEF NetThread, ThreadTop
<1>5. CASE NetThread /\ ThreadClearRead
  BY <1>5 DEF NetThread, ThreadClearRead
<1>6. CASE NetThread /\ ThreadClearWrite
  BY <1>6 DEF NetThread, ThreadClearWrite
<1>7. CASE NetThread /\ ThreadCleared
  BY <1>7 DEF NetThread, ThreadCleared
<1>8. CASE NetThread /\ ThreadWait
  BY <1>8 DEF NetThread, ThreadWait
<1>9. CASE NetThread /\ ThreadToken
  BY <1>9 DEF NetThread, ThreadToken
<1>10. CASE NetThread /\ ThreadDown
  BY <1>10 DEF NetThread, ThreadDown
<1>11. CASE NetThread /\ ThreadTake
  BY <1>11 DEF NetThread, ThreadTake
<1>11a. CASE NetThread /\ BrokenTake
  BY <1>11a DEF NetThread, BrokenTake
<1>11b. CASE NetThread /\ BrokenSkip
  BY <1>11b DEF NetThread, BrokenSkip
<1>11c. CASE NetThread /\ BrokenHeader
  BY <1>11c DEF NetThread, BrokenHeader
<1>11d. CASE NetThread /\ BodyRead
  BY <1>11d DEF NetThread, BodyRead
<1>12. CASE NetThread /\ ThreadSubmit
  BY <1>12 DEF NetThread, ThreadSubmit
<1>13. CASE NetThread /\ ThreadSubmitFails
  BY <1>13 DEF NetThread, ThreadSubmitFails
<1>14. CASE NetUrbComplete
  BY <1>14 DEF NetUrbComplete, UrbComplete
<1>15. CASE Callback
  BY <1>15 DEF Callback
<1>16. CASE WorkRuns
  BY <1>16 DEF WorkRuns
<1>17. CASE WorkEnds
  BY <1>17 DEF WorkEnds
<1>18. CASE CloseBegin
  BY <1>18 DEF CloseBegin, Cancel
<1>19. CASE CloseStop
  BY <1>19 DEF CloseStop, StopLoop
<1>20. CASE CloseDone
  BY <1>20 DEF CloseDone, StopCommand
<1>21. CASE CloseFails
  BY <1>21 DEF CloseFails, StopCommandFails
<1>22. CASE StopTryLock /\ UNCHANGED net
  BY <1>22 DEF StopTryLock
<1>23. CASE StopUnlock /\ UNCHANGED net
  BY <1>23 DEF StopUnlock
<1>24. CASE OpenBegin
  BY <1>24 DEF OpenBegin
<1>25. CASE OpenStarted
  BY <1>25 DEF OpenStarted, StartInterface
<1>26. CASE OpenDone
  BY <1>26 DEF OpenDone
<1>27. CASE OpenFails
  BY <1>27 DEF OpenFails
<1>28. CASE RestartBegin
  BY <1>28 DEF RestartBegin, StopLoop
<1>29. CASE RestartStopped
  BY <1>29 DEF RestartStopped, StopCommand
<1>30. CASE RestartDone
  BY <1>30 DEF RestartDone, StartInterface
<1>31. CASE RestartFails
  BY <1>31 DEF RestartFails, StopCommandFails
<1>32. CASE (Tick \/ ReportFull \/ ReportDrained) /\ UNCHANGED net
  BY <1>32 DEF Tick, ReportFull, ReportDrained
<1>33. CASE Unplug /\ UNCHANGED net
  BY <1>33 DEF Unplug
<1>34. CASE NetTermBegin
  BY <1>34 DEF NetTermBegin, TermBegin, Cancel
<1>35. CASE NetTermCancelled
  BY <1>35 DEF NetTermCancelled, Cancelled
<1>36. CASE NetTermFree
  BY <1>36 DEF NetTermFree
<1>37. CASE NetTerm /\ TermClosing
  BY <1>37 DEF NetTerm, TermClosing
<1>38. CASE NetTerm /\ TermStopThread
  BY <1>38 DEF NetTerm, TermStopThread
<1>39. CASE NetTerm /\ TermFree
  BY <1>39 DEF NetTerm, TermFree
<1>40. CASE UNCHANGED netvars
  BY <1>40 DEF netvars, vars
<1>41. QED
  BY <1>1, <1>2, <1>3, <1>4, <1>5, <1>6, <1>7, <1>8, <1>9, <1>10, <1>11, <1>11a,
     <1>11b, <1>11c, <1>11d, <1>12, <1>13,
     <1>14, <1>15, <1>16, <1>17, <1>18, <1>19, <1>20, <1>21, <1>22, <1>23, <1>24, <1>25,
     <1>26, <1>27, <1>28, <1>29, <1>30, <1>31, <1>32, <1>33, <1>34, <1>35, <1>36, <1>37,
     <1>38, <1>39, <1>40
     DEF NetNext, NetWrite, NetThread, Thread, Work, Close, NetStopLoop, Open, Restart,
         Terminate, NetTerm

(* ... and of its flags.                                                   *)
LEMMA NextFlags ==
    ASSUME Safe, NetTypes, ~QuietStop, NetNext \/ UNCHANGED netvars
    PROVE  /\ netdev' \in BOOLEAN
           /\ cancelling' \in BOOLEAN
           /\ lost' \in BOOLEAN
           /\ overlapped' \in BOOLEAN
<1> USE DEF Safe, TypeOK, NetTypes, Running, At, IdleWriter, vars, ring, tokens, urbs,
        stopping, closing, net
<1>1. CASE Xmit
  BY <1>1, Zenon DEF Xmit, WriteCheck
<1>2. CASE WriteCopy /\ UNCHANGED net
  BY <1>2, Zenon DEF WriteCopy
<1>3. CASE WritePublish /\ UNCHANGED net
  BY <1>3, Zenon DEF WritePublish
<1>4. CASE NetThread /\ ThreadTop
  BY <1>4, Zenon DEF NetThread, ThreadTop
<1>5. CASE NetThread /\ ThreadClearRead
  BY <1>5, Zenon DEF NetThread, ThreadClearRead
<1>6. CASE NetThread /\ ThreadClearWrite
  BY <1>6, Zenon DEF NetThread, ThreadClearWrite
<1>7. CASE NetThread /\ ThreadCleared
  BY <1>7, Zenon DEF NetThread, ThreadCleared
<1>8. CASE NetThread /\ ThreadWait
  BY <1>8, Zenon DEF NetThread, ThreadWait
<1>9. CASE NetThread /\ ThreadToken
  BY <1>9, Zenon DEF NetThread, ThreadToken
<1>10. CASE NetThread /\ ThreadDown
  BY <1>10, Zenon DEF NetThread, ThreadDown
<1>11. CASE NetThread /\ ThreadTake
  BY <1>11, Zenon DEF NetThread, ThreadTake
<1>11a. CASE NetThread /\ BrokenTake
  BY <1>11a, Zenon DEF NetThread, BrokenTake
<1>11b. CASE NetThread /\ BrokenSkip
  BY <1>11b, Zenon DEF NetThread, BrokenSkip
<1>11c. CASE NetThread /\ BrokenHeader
  BY <1>11c, Zenon DEF NetThread, BrokenHeader
<1>11d. CASE NetThread /\ BodyRead
  BY <1>11d, Zenon DEF NetThread, BodyRead
<1>12. CASE NetThread /\ ThreadSubmit
  BY <1>12, Zenon DEF NetThread, ThreadSubmit
<1>13. CASE NetThread /\ ThreadSubmitFails
  BY <1>13, Zenon DEF NetThread, ThreadSubmitFails
<1>14. CASE NetUrbComplete
  BY <1>14, Zenon DEF NetUrbComplete, UrbComplete
<1>15. CASE Callback
  BY <1>15, Zenon DEF Callback
<1>16. CASE WorkRuns
  BY <1>16, Zenon DEF WorkRuns
<1>17. CASE WorkEnds
  BY <1>17, Zenon DEF WorkEnds
<1>18. CASE CloseBegin
  BY <1>18, Zenon DEF CloseBegin, Cancel
<1>19. CASE CloseStop
  BY <1>19, Zenon DEF CloseStop, StopLoop
<1>20. CASE CloseDone
  BY <1>20, Zenon DEF CloseDone, StopCommand
<1>21. CASE CloseFails
  BY <1>21, Zenon DEF CloseFails, StopCommandFails
<1>22. CASE StopTryLock /\ UNCHANGED net
  BY <1>22, Zenon DEF StopTryLock
<1>23. CASE StopUnlock /\ UNCHANGED net
  BY <1>23, Zenon DEF StopUnlock
<1>24. CASE OpenBegin
  BY <1>24, Zenon DEF OpenBegin
<1>25. CASE OpenStarted
  BY <1>25, Zenon DEF OpenStarted, StartInterface
<1>26. CASE OpenDone
  BY <1>26, Zenon DEF OpenDone
<1>27. CASE OpenFails
  BY <1>27, Zenon DEF OpenFails
<1>28. CASE RestartBegin
  BY <1>28, Zenon DEF RestartBegin, StopLoop
<1>29. CASE RestartStopped
  BY <1>29, Zenon DEF RestartStopped, StopCommand
<1>30. CASE RestartDone
  BY <1>30, Zenon DEF RestartDone, StartInterface
<1>31. CASE RestartFails
  BY <1>31, Zenon DEF RestartFails, StopCommandFails
<1>32. CASE (Tick \/ ReportFull \/ ReportDrained) /\ UNCHANGED net
  BY <1>32, Zenon DEF Tick, ReportFull, ReportDrained
<1>33. CASE Unplug /\ UNCHANGED net
  BY <1>33, Zenon DEF Unplug
<1>34. CASE NetTermBegin
  BY <1>34, Zenon DEF NetTermBegin, TermBegin, Cancel
<1>35. CASE NetTermCancelled
  BY <1>35, Zenon DEF NetTermCancelled, Cancelled
<1>36. CASE NetTermFree
  BY <1>36, Zenon DEF NetTermFree
<1>37. CASE NetTerm /\ TermClosing
  BY <1>37, Zenon DEF NetTerm, TermClosing
<1>38. CASE NetTerm /\ TermStopThread
  BY <1>38, Zenon DEF NetTerm, TermStopThread
<1>39. CASE NetTerm /\ TermFree
  BY <1>39, Zenon DEF NetTerm, TermFree
<1>40. CASE UNCHANGED netvars
  BY <1>40, Zenon DEF netvars, vars
<1>41. QED
  BY <1>1, <1>2, <1>3, <1>4, <1>5, <1>6, <1>7, <1>8, <1>9, <1>10, <1>11, <1>11a,
     <1>11b, <1>11c, <1>11d, <1>12, <1>13,
     <1>14, <1>15, <1>16, <1>17, <1>18, <1>19, <1>20, <1>21, <1>22, <1>23, <1>24, <1>25,
     <1>26, <1>27, <1>28, <1>29, <1>30, <1>31, <1>32, <1>33, <1>34, <1>35, <1>36, <1>37,
     <1>38, <1>39, <1>40
     DEF NetNext, NetWrite, NetThread, Thread, Work, Close, NetStopLoop, Open, Restart,
         Terminate, NetTerm

(* Frames keep their numbers.                                              *)
LEMMA NextNumber ==
    ASSUME Safe, PhaseInv, NumberInv, ~QuietStop, NetNext \/ UNCHANGED netvars
    PROVE  NumberInv'
<1> USE BoundsAssumption, SlotsAssumption DEF Safe, TypeOK, RingBounds, NumberInv,
        Running, At, IdleWriter, vars, ring, tokens, urbs, stopping, closing, net
<1>1. CASE Xmit
  BY <1>1 DEF Xmit, WriteCheck
<1>2. CASE WriteCopy /\ UNCHANGED net
  BY SMTT(30), <1>2 DEF WriteCopy
<1>3. CASE WritePublish /\ UNCHANGED net
  BY <1>3 DEF WritePublish
<1>4. CASE NetThread /\ ThreadTop
  BY <1>4 DEF NetThread, ThreadTop
<1>5. CASE NetThread /\ ThreadClearRead
  BY <1>5 DEF NetThread, ThreadClearRead
<1>6. CASE NetThread /\ ThreadClearWrite
  BY <1>6 DEF NetThread, ThreadClearWrite
<1>7. CASE NetThread /\ ThreadCleared
  BY <1>7 DEF NetThread, ThreadCleared
<1>8. CASE NetThread /\ ThreadWait
  BY <1>8 DEF NetThread, ThreadWait
<1>9. CASE NetThread /\ ThreadToken
  BY <1>9 DEF NetThread, ThreadToken
<1>10. CASE NetThread /\ ThreadDown
  BY <1>10 DEF NetThread, ThreadDown
<1>11. CASE NetThread /\ ThreadTake
  BY <1>11 DEF NetThread, ThreadTake
<1>11a. CASE NetThread /\ BrokenTake
  BY <1>11a DEF NetThread, BrokenTake
<1>11b. CASE NetThread /\ BrokenSkip
  BY <1>11b DEF NetThread, BrokenSkip
<1>11c. CASE NetThread /\ BrokenHeader
  BY <1>11c DEF NetThread, BrokenHeader
<1>11d. CASE NetThread /\ BodyRead
  BY <1>11d DEF NetThread, BodyRead
<1>12. CASE NetThread /\ ThreadSubmit
  <2>1. sent' = Append(sent, thread.msg) /\ thread.msg # 0 /\ inflight' = inflight + 1
    BY <1>12 DEF NetThread, ThreadSubmit
  <2>2. sent \in Seq(0..MaxMsgs) /\ inflight \in Nat /\ thread.msg \in 0..MaxMsgs
    BY SlotsAssumption DEF Safe, TypeOK
  <2>5. \A k \in 1..Len(sent') : sent'[k] # 0
    <3>1. \A k \in 1..Len(sent) : sent[k] # 0
      BY DEF NumberInv
    <3>2. \A k \in 1..Len(Append(sent, thread.msg)) : Append(sent, thread.msg)[k] # 0
      BY <2>1, <2>2, <3>1, SubmittedNonzero, Zenon
    <3>3. QED
      BY <2>1, <3>2
  <2>3. inflight' <= Len(sent')
    <3>1. \A k \in 1..Len(sent) : sent[k] # 0
      BY DEF NumberInv
    <3>2. inflight <= Len(sent)
      BY DEF NumberInv
    <3>3. Len(sent') = Len(sent) + 1
      BY <2>1, <2>2, <3>1, AppendedNonzero
    <3>4. QED
      BY <2>1, <2>2, <3>2, <3>3
  <2>4. QED
    BY <1>12, <2>5, <2>3 DEF NetThread, ThreadSubmit
<1>13. CASE NetThread /\ ThreadSubmitFails
  BY <1>13 DEF NetThread, ThreadSubmitFails
<1>14. CASE NetUrbComplete
  BY SMTT(60), <1>14 DEF NetUrbComplete, UrbComplete
<1>15. CASE Callback
  BY <1>15 DEF Callback
<1>16. CASE WorkRuns
  BY <1>16 DEF WorkRuns
<1>17. CASE WorkEnds
  BY <1>17 DEF WorkEnds
<1>18. CASE CloseBegin
  BY <1>18 DEF CloseBegin, Cancel
<1>19. CASE CloseStop
  BY <1>19 DEF CloseStop, StopLoop
<1>20. CASE CloseDone
  BY <1>20 DEF CloseDone, StopCommand
<1>21. CASE CloseFails
  BY <1>21 DEF CloseFails, StopCommandFails
<1>22. CASE StopTryLock /\ UNCHANGED net
  BY <1>22 DEF StopTryLock
<1>23. CASE StopUnlock /\ UNCHANGED net
  BY <1>23 DEF StopUnlock
<1>24. CASE OpenBegin
  BY <1>24 DEF OpenBegin
<1>25. CASE OpenStarted
  BY <1>25 DEF OpenStarted, StartInterface
<1>26. CASE OpenDone
  BY <1>26 DEF OpenDone
<1>27. CASE OpenFails
  BY <1>27 DEF OpenFails
<1>28. CASE RestartBegin
  BY <1>28 DEF RestartBegin, StopLoop
<1>29. CASE RestartStopped
  BY <1>29 DEF RestartStopped, StopCommand
<1>30. CASE RestartDone
  BY <1>30 DEF RestartDone, StartInterface
<1>31. CASE RestartFails
  BY <1>31 DEF RestartFails, StopCommandFails
<1>32. CASE (Tick \/ ReportFull \/ ReportDrained) /\ UNCHANGED net
  BY <1>32 DEF Tick, ReportFull, ReportDrained
<1>33. CASE Unplug /\ UNCHANGED net
  BY <1>33 DEF Unplug
<1>34. CASE NetTermBegin
  BY <1>34 DEF NetTermBegin, TermBegin, Cancel
<1>35. CASE NetTermCancelled
  BY <1>35 DEF NetTermCancelled, Cancelled
<1>36. CASE NetTermFree
  BY <1>36 DEF NetTermFree
<1>37. CASE NetTerm /\ TermClosing
  BY <1>37 DEF NetTerm, TermClosing
<1>38. CASE NetTerm /\ TermStopThread
  BY <1>38 DEF NetTerm, TermStopThread
<1>39. CASE NetTerm /\ TermFree
  BY <1>39 DEF NetTerm, TermFree
<1>40. CASE UNCHANGED netvars
  BY <1>40 DEF netvars, vars
<1>41. QED
  BY <1>1, <1>2, <1>3, <1>4, <1>5, <1>6, <1>7, <1>8, <1>9, <1>10, <1>11, <1>11a,
     <1>11b, <1>11c, <1>11d, <1>12, <1>13,
     <1>14, <1>15, <1>16, <1>17, <1>18, <1>19, <1>20, <1>21, <1>22, <1>23, <1>24, <1>25,
     <1>26, <1>27, <1>28, <1>29, <1>30, <1>31, <1>32, <1>33, <1>34, <1>35, <1>36, <1>37,
     <1>38, <1>39, <1>40
     DEF NetNext, NetWrite, NetThread, Thread, Work, Close, NetStopLoop, Open, Restart,
         Terminate, NetTerm

(* One frame at a time.                                                    *)
LEMMA NextFrame ==
        ASSUME Safe, PhaseInv, CancelInv, CloseInv, NumberInv, FrameInv, ~overlapped',
           ~QuietStop, NetNext \/ UNCHANGED netvars
    PROVE  FrameInv'
<1> USE BoundsAssumption, CapacityAssumption DEF Safe, TypeOK, RingBounds, PhaseInv,
        CancelInv, CloseInv, NumberInv, FrameInv, NoneAtWriter, NoneInRing, NoneAtThread,
        NoneInUrb, NoneDone, Closed, Running, At, IdleWriter, vars, ring, tokens, urbs,
        stopping, closing, net
<1>1. CASE Xmit
  BY <1>1 DEF Xmit, WriteCheck
<1>2. CASE WriteCopy /\ UNCHANGED net
  BY <1>2 DEF WriteCopy
<1>3. CASE WritePublish /\ UNCHANGED net
  BY <1>3 DEF WritePublish
<1>4. CASE NetThread /\ ThreadTop
  BY <1>4 DEF NetThread, ThreadTop
<1>5. CASE NetThread /\ ThreadClearRead
  BY <1>5 DEF NetThread, ThreadClearRead
<1>6. CASE NetThread /\ ThreadClearWrite
  BY <1>6 DEF NetThread, ThreadClearWrite
<1>7. CASE NetThread /\ ThreadCleared
  BY <1>7 DEF NetThread, ThreadCleared
<1>8. CASE NetThread /\ ThreadWait
  BY <1>8 DEF NetThread, ThreadWait
<1>9. CASE NetThread /\ ThreadToken
  BY <1>9 DEF NetThread, ThreadToken
<1>10. CASE NetThread /\ ThreadDown
  BY <1>10 DEF NetThread, ThreadDown
<1>11. CASE NetThread /\ ThreadTake
  BY SMTT(30), <1>11 DEF NetThread, ThreadTake
<1>11a. CASE NetThread /\ BrokenTake
  BY <1>11a DEF NetThread, BrokenTake
<1>11b. CASE NetThread /\ BrokenSkip
  BY <1>11b DEF NetThread, BrokenSkip
<1>11c. CASE NetThread /\ BrokenHeader
  BY <1>11c DEF NetThread, BrokenHeader
<1>11d. CASE NetThread /\ BodyRead
  BY <1>11d DEF NetThread, BodyRead
<1>12. CASE NetThread /\ ThreadSubmit
  BY <1>12 DEF NetThread, ThreadSubmit
<1>13. CASE NetThread /\ ThreadSubmitFails
  BY <1>13 DEF NetThread, ThreadSubmitFails
<1>14. CASE NetUrbComplete
  BY <1>14 DEF NetUrbComplete, UrbComplete
<1>15. CASE Callback
  <2>1. Len(done) = 1 /\ done \in Seq(1..MaxMsgs)
    BY <1>15 DEF Callback
  <2>2. Tail(done) = << >>
    BY <2>1, TailOfOne
  <2>3. NoneAtWriter /\ NoneInRing /\ NoneAtThread /\ NoneInUrb
    BY <1>15 DEF Callback
  <2>4. QED
    BY <1>15, <2>2, <2>3 DEF Callback
<1>16. CASE WorkRuns
  BY <1>16 DEF WorkRuns
<1>17. CASE WorkEnds
  BY <1>17 DEF WorkEnds
<1>18. CASE CloseBegin
  BY <1>18 DEF CloseBegin, Cancel
<1>19. CASE CloseStop
  BY <1>19 DEF CloseStop, StopLoop
<1>20. CASE CloseDone
  BY <1>20 DEF CloseDone, StopCommand
<1>21. CASE CloseFails
  BY <1>21 DEF CloseFails, StopCommandFails
<1>22. CASE StopTryLock /\ UNCHANGED net
  BY <1>22 DEF StopTryLock
<1>23. CASE StopUnlock /\ UNCHANGED net
  BY <1>23 DEF StopUnlock
<1>24. CASE OpenBegin
  BY <1>24 DEF OpenBegin
<1>25. CASE OpenStarted
  BY <1>25 DEF OpenStarted, StartInterface
<1>26. CASE OpenDone
  BY <1>26 DEF OpenDone
<1>27. CASE OpenFails
  BY <1>27 DEF OpenFails
<1>28. CASE RestartBegin
  BY <1>28 DEF RestartBegin, StopLoop
<1>29. CASE RestartStopped
  BY <1>29 DEF RestartStopped, StopCommand
<1>30. CASE RestartDone
  BY <1>30 DEF RestartDone, StartInterface
<1>31. CASE RestartFails
  <2>1. UNCHANGED <<ring, writer, thread, inflight, sent, queue, done>>
        /\ ifc' = "up" /\ ~overlapped
    BY <1>31 DEF RestartFails, StopCommandFails
  <2>2. QED
    BY <2>1
<1>32. CASE (Tick \/ ReportFull \/ ReportDrained) /\ UNCHANGED net
  <2>1. UNCHANGED <<ring, writer, thread, inflight, sent, ifc, queue, done>>
    BY <1>32 DEF Tick, ReportFull, ReportDrained
  <2>2. QED
    BY <2>1
<1>33. CASE Unplug /\ UNCHANGED net
  BY <1>33 DEF Unplug
<1>34. CASE NetTermBegin
  BY <1>34 DEF NetTermBegin, TermBegin, Cancel
<1>35. CASE NetTermCancelled
  BY <1>35 DEF NetTermCancelled, Cancelled
<1>36. CASE NetTermFree
  BY <1>36 DEF NetTermFree
<1>37. CASE NetTerm /\ TermClosing
  BY <1>37 DEF NetTerm, TermClosing
<1>38. CASE NetTerm /\ TermStopThread
  BY <1>38 DEF NetTerm, TermStopThread
<1>39. CASE NetTerm /\ TermFree
  BY <1>39 DEF NetTerm, TermFree
<1>40. CASE UNCHANGED netvars
  BY <1>40 DEF netvars, vars
<1>41. QED
  BY <1>1, <1>2, <1>3, <1>4, <1>5, <1>6, <1>7, <1>8, <1>9, <1>10, <1>11, <1>11a,
     <1>11b, <1>11c, <1>11d, <1>12, <1>13,
     <1>14, <1>15, <1>16, <1>17, <1>18, <1>19, <1>20, <1>21, <1>22, <1>23, <1>24, <1>25,
     <1>26, <1>27, <1>28, <1>29, <1>30, <1>31, <1>32, <1>33, <1>34, <1>35, <1>36, <1>37,
     <1>38, <1>39, <1>40
     DEF NetNext, NetWrite, NetThread, Thread, Work, Close, NetStopLoop, Open, Restart,
         Terminate, NetTerm

(* The echo follows the frame.                                             *)
LEMMA NextEcho ==
        ASSUME Safe, PhaseInv, CancelInv, CloseInv, NumberInv, FrameInv, EchoInv,
           ~overlapped', ~QuietStop, NetNext \/ UNCHANGED netvars
    PROVE  EchoInv'
<1> USE BoundsAssumption, CapacityAssumption DEF Safe, TypeOK, RingBounds, PhaseInv,
        CancelInv, CloseInv, NumberInv, FrameInv, EchoInv, NoneAtWriter, NoneInRing,
        NoneAtThread, NoneInUrb, NoneDone, Closed, Running, At, IdleWriter, vars, ring, tokens,
        urbs, stopping, closing, net
<1>1. CASE Xmit
  BY <1>1 DEF Xmit, WriteCheck
<1>2. CASE WriteCopy /\ UNCHANGED net
  BY <1>2 DEF WriteCopy
<1>3. CASE WritePublish /\ UNCHANGED net
  BY <1>3 DEF WritePublish
<1>4. CASE NetThread /\ ThreadTop
  BY <1>4 DEF NetThread, ThreadTop
<1>5. CASE NetThread /\ ThreadClearRead
  BY <1>5 DEF NetThread, ThreadClearRead
<1>6. CASE NetThread /\ ThreadClearWrite
  BY <1>6 DEF NetThread, ThreadClearWrite
<1>7. CASE NetThread /\ ThreadCleared
  BY <1>7 DEF NetThread, ThreadCleared
<1>8. CASE NetThread /\ ThreadWait
  BY <1>8 DEF NetThread, ThreadWait
<1>9. CASE NetThread /\ ThreadToken
  BY <1>9 DEF NetThread, ThreadToken
<1>10. CASE NetThread /\ ThreadDown
  BY <1>10 DEF NetThread, ThreadDown
<1>11. CASE NetThread /\ ThreadTake
  BY <1>11 DEF NetThread, ThreadTake
<1>11a. CASE NetThread /\ BrokenTake
  BY <1>11a DEF NetThread, BrokenTake
<1>11b. CASE NetThread /\ BrokenSkip
  BY <1>11b DEF NetThread, BrokenSkip
<1>11c. CASE NetThread /\ BrokenHeader
  BY <1>11c DEF NetThread, BrokenHeader
<1>11d. CASE NetThread /\ BodyRead
  BY <1>11d DEF NetThread, BodyRead
<1>12. CASE NetThread /\ ThreadSubmit
  BY <1>12 DEF NetThread, ThreadSubmit
<1>13. CASE NetThread /\ ThreadSubmitFails
  BY <1>13 DEF NetThread, ThreadSubmitFails
<1>14. CASE NetUrbComplete
  BY <1>14 DEF NetUrbComplete, UrbComplete
<1>15. CASE Callback
  BY <1>15 DEF Callback
<1>16. CASE WorkRuns
  BY <1>16 DEF WorkRuns
<1>17. CASE WorkEnds
  BY <1>17 DEF WorkEnds
<1>18. CASE CloseBegin
  BY <1>18 DEF CloseBegin, Cancel
<1>19. CASE CloseStop
  BY <1>19 DEF CloseStop, StopLoop
<1>20. CASE CloseDone
  BY <1>20 DEF CloseDone, StopCommand
<1>21. CASE CloseFails
  BY <1>21 DEF CloseFails, StopCommandFails
<1>22. CASE StopTryLock /\ UNCHANGED net
  BY <1>22 DEF StopTryLock
<1>23. CASE StopUnlock /\ UNCHANGED net
  BY <1>23 DEF StopUnlock
<1>24. CASE OpenBegin
  BY <1>24 DEF OpenBegin
<1>25. CASE OpenStarted
  BY <1>25 DEF OpenStarted, StartInterface
<1>26. CASE OpenDone
  BY <1>26 DEF OpenDone
<1>27. CASE OpenFails
  BY <1>27 DEF OpenFails
<1>28. CASE RestartBegin
  BY <1>28 DEF RestartBegin, StopLoop
<1>29. CASE RestartStopped
  BY <1>29 DEF RestartStopped, StopCommand
<1>30. CASE RestartDone
  BY <1>30 DEF RestartDone, StartInterface
<1>31. CASE RestartFails
  BY ZenonT(30), <1>31 DEF RestartFails, StopCommandFails
<1>32. CASE (Tick \/ ReportFull \/ ReportDrained) /\ UNCHANGED net
  BY ZenonT(30), <1>32 DEF Tick, ReportFull, ReportDrained
<1>33. CASE Unplug /\ UNCHANGED net
  BY <1>33 DEF Unplug
<1>34. CASE NetTermBegin
  BY <1>34 DEF NetTermBegin, TermBegin, Cancel
<1>35. CASE NetTermCancelled
  BY <1>35 DEF NetTermCancelled, Cancelled
<1>36. CASE NetTermFree
  BY <1>36 DEF NetTermFree
<1>37. CASE NetTerm /\ TermClosing
  BY <1>37 DEF NetTerm, TermClosing
<1>38. CASE NetTerm /\ TermStopThread
  BY <1>38 DEF NetTerm, TermStopThread
<1>39. CASE NetTerm /\ TermFree
  BY <1>39 DEF NetTerm, TermFree
<1>40. CASE UNCHANGED netvars
  BY <1>40 DEF netvars, vars
<1>41. QED
  BY <1>1, <1>2, <1>3, <1>4, <1>5, <1>6, <1>7, <1>8, <1>9, <1>10, <1>11, <1>11a,
     <1>11b, <1>11c, <1>11d, <1>12, <1>13,
     <1>14, <1>15, <1>16, <1>17, <1>18, <1>19, <1>20, <1>21, <1>22, <1>23, <1>24, <1>25,
     <1>26, <1>27, <1>28, <1>29, <1>30, <1>31, <1>32, <1>33, <1>34, <1>35, <1>36, <1>37,
     <1>38, <1>39, <1>40
     DEF NetNext, NetWrite, NetThread, Thread, Work, Close, NetStopLoop, Open, Restart,
         Terminate, NetTerm

-----------------------------------------------------------------------------
(* The invariant                                                           *)

(* Types are kept.                                                         *)
LEMMA NextNetTypes ==
    ASSUME Safe, NetTypes, ~QuietStop, NetNext \/ UNCHANGED netvars
    PROVE  NetTypes'
  BY NextWords, NextFlags DEF NetTypes

(* A transmit that overlaps a restart stays recorded.                      *)
LEMMA OverlapStays ==
    ASSUME overlapped, NetNext \/ UNCHANGED netvars
    PROVE  overlapped'
  BY DEF NetNext, netvars, net, Xmit, NetWrite, NetThread, NetUrbComplete, Callback, Work,
         WorkRuns, WorkEnds, Close, CloseBegin, CloseStop, CloseDone, CloseFails,
         NetStopLoop, OpenBegin, Open, OpenStarted, OpenDone, OpenFails, RestartBegin,
         Restart, RestartStopped, RestartDone, RestartFails, Terminate, NetTermBegin,
         NetTermCancelled, NetTermFree, NetTerm

(* ep1_cf02a_netdev_open has succeeded on an idle device.                  *)
LEMMA InitNet == NetInit => NetInv
<1> SUFFICES ASSUME NetInit
             PROVE  NetInv
  OBVIOUS
<1>1. Safe
  BY InitSafe DEF NetInit
<1>2. netdev \in BOOLEAN /\ cancelling \in BOOLEAN /\ lost \in BOOLEAN /\ overlapped \in BOOLEAN
  BY Zenon DEF NetInit
<1>3. NetTypes
  BY <1>2, BoundsAssumption DEF NetInit, NetTypes, Ifc
<1>4. PhaseInv /\ CancelInv /\ CloseInv /\ CauseInv
    BY DEF NetInit, Init, At, IdleWriter, Running, Closed, PhaseInv, CancelInv, CloseInv,
     CauseInv
<1>5. NumberInv
  BY BoundsAssumption DEF NetInit, Init, At, IdleWriter, NumberInv
<1>6. FrameInv /\ EchoInv
  BY DEF NetInit, Init, At, IdleWriter, FrameInv, EchoInv, NoneAtWriter, NoneInRing,
         NoneAtThread, NoneInUrb, NoneDone
<1>7. QED
  BY <1>1, <1>3, <1>4, <1>5, <1>6 DEF NetInv

(* Every step keeps the invariant.                                         *)
LEMMA NextNet == ~QuietStop /\ NetInv /\ [NetNext]_netvars => NetInv'
<1> SUFFICES ASSUME ~QuietStop, NetInv, NetNext \/ UNCHANGED netvars
             PROVE  NetInv'
  OBVIOUS
<1> USE DEF NetInv
<1>1. Safe' /\ NetTypes'
  BY NetSafe, NextNetTypes
<1>2. PhaseInv' /\ CancelInv'
  BY NextPhase, NextQuietInv
<1>3. CloseInv' /\ CauseInv' /\ NumberInv'
  BY NextClose, NextCause, NextNumber
<1>4. ASSUME ~overlapped'
      PROVE  FrameInv' /\ EchoInv'
  <2>1. ~overlapped
    BY <1>4, OverlapStays
  <2>2. QED
    BY <1>4, <2>1, NextFrame, NextEcho
<1>5. QED
  BY <1>1, <1>2, <1>3, <1>4

(* The invariant holds in every behaviour.                                 *)
LEMMA NetInvariant ==
    ASSUME ~QuietStop
    PROVE  NetSpec => []NetInv
<1>1. NetInv /\ [NetNext]_netvars => NetInv'
  BY NextNet
<1>2. QED
  BY <1>1, InitNet, PTL DEF NetSpec

-----------------------------------------------------------------------------
(* What it says of the network interface                                   *)

(* Types of the interface, and of the transmit path below it.              *)
THEOREM NetTypesHold ==
    ASSUME ~QuietStop
    PROVE  NetSpec => []NetTypeOK
<1>1. NetInv => NetTypeOK
  BY DEF NetInv, Safe, NetTypes, Ifc, NumberInv, NetTypeOK
<1>2. QED
  BY <1>1, NetInvariant, PTL

(* No URB callback and no statistics work meets a net_device that          *)
(* ep1_cf02a_terminate has freed.                                          *)
THEOREM NetdevIsUnused ==
    ASSUME ~QuietStop
    PROVE  NetSpec => []NetdevOutlivesUse
<1>1. NetInv => NetdevOutlivesUse
  BY DEF NetInv, PhaseInv, CancelInv, NetdevOutlivesUse, Closed
<1>2. QED
  BY <1>1, NetInvariant, PTL

(* ep1_cf02a_netdev_close leaves no frame and no work behind.              *)
THEOREM ClosedHoldsNothing ==
    ASSUME ~QuietStop
    PROVE  NetSpec => []ClosedIsClean
<1>1. NetInv => ClosedIsClean
  BY DEF NetInv, CancelInv, CloseInv, ClosedIsClean, Closed
<1>2. QED
  BY <1>1, NetInvariant, PTL

(* A stopped queue waits for a frame that is under way, or for one that    *)
(* the tx thread dropped or a restart cleared.                             *)
THEOREM StoppedQueueHasCause ==
    ASSUME ~QuietStop
    PROVE  NetSpec => []QueueHasCause
<1>1. NetInv => QueueHasCause
  BY DEF NetInv, CauseInv, QueueHasCause, Running
<1>2. QED
  BY <1>1, NetInvariant, PTL

(* ep1_cf02a_netdev_start_xmit never returns NETDEV_TX_BUSY unless a       *)
(* restart overlapped a transmit.                                          *)
THEOREM XmitIsAlwaysTaken ==
    ASSUME ~QuietStop
    PROVE  NetSpec => []XmitIsTaken
<1>1. NetInv => XmitIsTaken
  <2> SUFFICES ASSUME NetInv, ifc = "up", queue = "running", writer.pc = "idle", ~overlapped
               PROVE  ~onclosing /\ wr - rd < Capacity
    BY DEF XmitIsTaken
  <2>1. ~onclosing
    BY DEF NetInv, PhaseInv
  <2>2. thread.pc = "clearing" => clear_requested /\ stopper \in {"up", "down"}
    BY DEF NetInv, PhaseInv
  <2>3. thread.pc # "clearing"
    BY <2>2 DEF NetInv, PhaseInv
  <2>4. rd = wr /\ wr \in 0..MaxMsgs
    BY <2>3 DEF NetInv, FrameInv, NoneInRing, Safe, TypeOK
  <2>5. wr - rd = 0
    BY <2>4, BoundsAssumption
  <2>6. QED
    BY <2>1, <2>5, CapacityAssumption
<1>2. QED
  BY <1>1, NetInvariant, PTL

(* can_get_echo_skb loops back the frame that the URB carried, or none,    *)
(* unless a restart overlapped a transmit.                                 *)
THEOREM EchoIsOwn ==
    ASSUME ~QuietStop
    PROVE  NetSpec => []EchoWasSent
<1>1. NetInv => EchoWasSent
  BY DEF NetInv, FrameInv, EchoInv, NoneDone, EchoWasSent
<1>2. QED
  BY <1>1, NetInvariant, PTL

(* cancel_delayed_work_sync, in a close or in terminate, waits for a work  *)
(* that runs and that nobody can schedule behind its back.                 *)
NotRearmed == cancelling => work # "pending"

LEMMA NextRearm ==
    ASSUME NetInv, NotRearmed, [NetNext]_netvars
    PROVE  NotRearmed'
<1> USE DEF NotRearmed, net
<1>1. CASE WorkRuns \/ WorkEnds \/ OpenDone
  BY <1>1 DEF WorkRuns, WorkEnds, OpenDone
<1>2. CASE CloseBegin \/ NetTermBegin
  BY <1>2 DEF CloseBegin, NetTermBegin, Cancel
<1>3. CASE CloseStop \/ NetTermCancelled
  BY <1>3, Zenon DEF CloseStop, NetTermCancelled, Cancelled
<1>4. ASSUME ~(WorkRuns \/ WorkEnds \/ OpenDone), ~(CloseBegin \/ NetTermBegin),
             ~(CloseStop \/ NetTermCancelled)
      PROVE  UNCHANGED <<work, cancelling>>
  BY <1>4 DEF NetNext, netvars, Xmit, NetWrite, NetThread, NetUrbComplete, Callback, Work,
     Close, CloseDone, CloseFails, NetStopLoop, OpenBegin, Open, OpenStarted, OpenFails,
     RestartBegin, Restart, RestartStopped, RestartDone, RestartFails, Terminate,
     NetTermFree, NetTerm
<1>5. QED
  BY <1>1, <1>2, <1>3, <1>4

(* The flags of the shutdown, as in TxPath: a stop loop on behalf of the   *)
(* interface touches none of them.                                         *)
LEMMA NextNetLeave ==
    ASSUME NetInv, LeaveInv, [NetNext]_netvars
    PROVE  LeaveInv'
<1>1. CASE CloseStop \/ RestartBegin
  <2>1. UNCHANGED <<thread, closing>>
    BY <1>1 DEF CloseStop, RestartBegin, StopLoop
  <2>2. QED
    BY <2>1 DEF LeaveInv, closing
<1>2. CASE ~(CloseStop \/ RestartBegin)
  <2>1. [Next]_vars
    BY <1>2, NetSteps
  <2>2. QED
    BY <2>1, NextLeave DEF NetInv
<1>3. QED
  BY <1>1, <1>2

(* A close, a restart and terminate wait only for what is going to happen, *)
(* unless a restart has overlapped a transmit and the thread spins.        *)
THEOREM NetWaitersAreServed ==
    ASSUME ~QuietStop
    PROVE  NetSpec => []NetWaitsEnd
<1>1. NetInit => LeaveInv /\ NotRearmed
  BY DEF NetInit, Init, LeaveInv, NotRearmed, At
<1>2. NetInv /\ LeaveInv /\ NotRearmed => NetWaitsEnd
  <2> SUFFICES ASSUME NetInv, LeaveInv, NotRearmed
               PROVE  NetWaitsEnd
    OBVIOUS
  <2> USE DEF NetInv
  <2>1. ifc \in {"stopping", "restarting"} =>
            /\ stopper \in {"loop", "locked", "command"}
            /\ ~should_stop /\ thread.pc # "exit"
            /\ thread.pc = "body" => overlapped
    BY DEF PhaseInv, LeaveInv, FrameInv
  <2>2. term \in {"closing", "waiting", "freed"} =>
            ifc \in {"down", "stuck"} /\ stopper = "down" /\ inflight = 0 /\ done = << >>
    BY DEF PhaseInv, LeaveInv, CancelInv
  <2>3. term = "waiting" /\ thread.pc = "down" => sem > 0
    BY <2>2, SlotsAssumption DEF Safe, TypeOK, SlotsConserved, Held, Locked
  <2>4. QED
    BY <2>1, <2>2, <2>3 DEF NetWaitsEnd, NotRearmed
<1>3. NetInv /\ LeaveInv /\ NotRearmed /\ [NetNext]_netvars => LeaveInv' /\ NotRearmed'
  BY NextNetLeave, NextRearm
<1>4. QED
  BY <1>1, <1>2, <1>3, NetInvariant, PTL DEF NetSpec
=============================================================================
