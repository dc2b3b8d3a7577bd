------------------------ MODULE CommandChannelProofs ------------------------
(***************************************************************************)
(* Proofs about CommandChannel, for any number of processes, any commands  *)
(* and any number of calls: send_msg_sem admits one command at a time, and *)
(* each of the exits of apt_usbtrx_wait_msg_timeout gives it back once;    *)
(* until a request is given up only one message is on its way, so every    *)
(* command gets its own answer; and RESET_TS calls that do not overlap     *)
(* leave the time they took.                                               *)
(***************************************************************************)
EXTENDS CommandChannel, TLAPS

PC == {"idle", "down", "set", "init", "send", "wait", "copy"}

ProcType == proc \in [Procs -> [pc : PC, cmd : Cmds, call : Nat]]

(* What the semaphore protects.                                            *)
SemInv == ProcType /\ calls \in Nat /\ OneCommandAtATime

(* Process p goes from a holding state to another, or from a state that    *)
(* does not hold the semaphore to another.                                 *)
LEMMA HoldersStay ==
    ASSUME SemInv, ProcType', calls' \in Nat, sem' = sem, NEW p \in Procs,
           \A q \in Procs : q # p => proc'[q] = proc[q],
           Holding(p)' = Holding(p)
    PROVE  SemInv'
<1>1. \A q \in Procs : Holding(q)' = Holding(q)
  BY DEF Holding
<1>2. OneCommandAtATime'
  BY <1>1 DEF SemInv, OneCommandAtATime
<1>3. QED
  BY <1>2 DEF SemInv

(* The holder ups the semaphore and holds it no longer.                    *)
LEMMA HolderLeaves ==
    ASSUME SemInv, ProcType', calls' \in Nat, NEW p \in Procs, Holding(p),
           \A q \in Procs : q # p => proc'[q] = proc[q],
           sem' = sem + 1, ~Holding(p)'
    PROVE  SemInv'
<1>1. sem = 0 /\ \A q \in Procs : q # p => ~Holding(q)
  BY DEF SemInv, OneCommandAtATime
<1>2. \A q \in Procs : ~Holding(q)'
  BY <1>1 DEF Holding
<1>3. OneCommandAtATime'
  BY <1>1, <1>2 DEF OneCommandAtATime
<1>4. QED
  BY <1>3 DEF SemInv

(* The semaphore is downed only while nobody holds it.                     *)
LEMMA HolderEnters ==
    ASSUME SemInv, ProcType', calls' \in Nat, NEW p \in Procs, sem > 0,
           \A q \in Procs : q # p => proc'[q] = proc[q],
           sem' = sem - 1, Holding(p)'
    PROVE  SemInv'
<1>1. sem = 1 /\ \A q \in Procs : ~Holding(q)
  BY DEF SemInv, OneCommandAtATime
<1>2. \A q \in Procs : Holding(q)' => q = p
  BY <1>1 DEF Holding
<1>3. OneCommandAtATime'
  BY <1>1, <1>2 DEF OneCommandAtATime
<1>4. QED
  BY <1>3 DEF SemInv

(* Goto and Return give proc a value of its type, and change one process.  *)
LEMMA GotoType ==
    ASSUME ProcType, NEW p \in Procs, NEW q \in PC, Goto(p, q)
    PROVE  /\ ProcType'
           /\ proc'[p].pc = q
           /\ \A r \in Procs : r # p => proc'[r] = proc[r]
BY DEF ProcType, Goto

(* A command that returns leaves its process idle.                         *)
LEMMA ReturnType ==
    ASSUME ProcType, NEW p \in Procs, NEW result, NEW of, Return(p, result, of)
    PROVE  /\ ProcType'
           /\ proc'[p].pc = "idle"
           /\ \A r \in Procs : r # p => proc'[r] = proc[r]
BY CmdsAssumption DEF ProcType, Return, Idle, Cmds, PC

(* No step of a command function, of the callback or of the device breaks  *)
(* the agreement between the semaphore and the commands in progress.       *)
LEMMA NextSem == SemInv /\ [Next]_vars => SemInv'
<1> SUFFICES ASSUME SemInv, [Next]_vars
             PROVE  SemInv'
  OBVIOUS
<1>0. ProcType /\ calls \in Nat
  BY DEF SemInv
<1>1. ASSUME NEW p \in Procs, NEW c \in Cmds, Begin(p, c)
      PROVE  SemInv'
  <2>1. /\ proc[p].pc = "idle" /\ calls' = calls + 1 /\ sem' = sem
        /\ proc' = [proc EXCEPT ![p] =
                       [pc |-> "down", cmd |-> c, call |-> calls + 1]]
    BY <1>1 DEF Begin
  <2>2. /\ ProcType' /\ proc'[p].pc = "down"
        /\ \A r \in Procs : r # p => proc'[r] = proc[r]
    BY <1>0, <2>1 DEF ProcType, PC
  <2>3. QED
    BY <1>0, <2>1, <2>2, HoldersStay DEF Holding
<1>2. ASSUME NEW p \in Procs, Down(p)
      PROVE  SemInv'
  BY <1>0, <1>2, GotoType, HolderEnters DEF Down, Holding, PC
<1>3. ASSUME NEW p \in Procs, DownInterrupted(p)
      PROVE  SemInv'
  BY <1>0, <1>3, ReturnType, HoldersStay DEF DownInterrupted, Holding
<1>4. ASSUME NEW p \in Procs,
             SetId(p) \/ InitCompletion(p) \/ Send(p) \/ Wait(p) \/ Retry(p)
      PROVE  SemInv'
  <2>1. /\ Holding(p) /\ sem' = sem /\ calls' = calls
        /\ \E q \in {"init", "send", "wait", "copy"} : Goto(p, q)
    BY <1>4 DEF SetId, InitCompletion, Send, Wait, Retry, Skips, Holding
  <2>2. /\ ProcType' /\ proc'[p].pc \in {"init", "send", "wait", "copy"}
        /\ \A r \in Procs : r # p => proc'[r] = proc[r]
    BY <1>0, <2>1, GotoType DEF PC
  <2>3. QED
    BY <1>0, <2>1, <2>2, HoldersStay DEF Holding
<1>5. ASSUME NEW p \in Procs,
             Fails(p) \/ WaitTimeout(p) \/ Accept(p) \/ DeadlinePassed(p)
      PROVE  SemInv'
  <2>1. /\ Holding(p) /\ sem' = sem + 1 /\ calls' = calls
        /\ \E result, of : Return(p, result, of)
    BY <1>5 DEF Fails, WaitTimeout, Accept, DeadlinePassed, Skips, Holding
  <2>2. /\ ProcType' /\ proc'[p].pc = "idle"
        /\ \A r \in Procs : r # p => proc'[r] = proc[r]
    BY <1>0, <2>1, ReturnType
  <2>3. QED
    BY <1>0, <2>1, <2>2, HolderLeaves DEF Holding
<1>6. ASSUME BeginElsewhere \/ Callback \/ DeviceSilent \/ UNCHANGED vars
                \/ \E ok \in BOOLEAN : DeviceAnswer(ok)
      PROVE  SemInv'
  <2>1. UNCHANGED <<sem, proc>> /\ calls' \in Nat
    <3>1. CASE BeginElsewhere
      BY <1>0, <3>1 DEF BeginElsewhere
    <3>2. CASE Callback
      BY <1>0, <3>2, Zenon DEF Callback, RxMessage, RxCompare, RxComplete
    <3>3. CASE DeviceSilent \/ \E ok \in BOOLEAN : DeviceAnswer(ok)
      BY <1>0, <3>3, Zenon DEF DeviceSilent, DeviceAnswer
    <3>4. CASE UNCHANGED vars
      BY <1>0, <3>4 DEF vars
    <3>5. QED
      BY <1>6, <3>1, <3>2, <3>3, <3>4
  <2>2. QED
    BY <2>1 DEF SemInv, ProcType, OneCommandAtATime, Holding
<1>7. QED
  BY <1>1, <1>2, <1>3, <1>4, <1>5, <1>6 DEF Next, Proceed

(* send_msg_sem is taken by one command at a time and free exactly when no *)
(* command is between its down in apt_usbtrx_send_msg_sync and its up.     *)
THEOREM SemaphoreIsExclusive == Spec => []OneCommandAtATime
<1>1. Init => SemInv
  BY CmdsAssumption DEF Init, SemInv, ProcType, OneCommandAtATime, Holding,
     Idle, Cmds, PC
<1>2. SemInv => OneCommandAtATime
  BY DEF SemInv
<1>3. QED
  BY <1>1, <1>2, NextSem, PTL DEF Spec

-----------------------------------------------------------------------------
(* Types: what goes through the channel, and what is remembered of it.     *)

Ended == [cmd : Cmds, call : 0..MaxCalls,
          result : {"none", "ok", "nack", "failure", "timeout"},
          of : Message, time : 0..MaxCalls]

(* A command that ends with an answer, or without one, leaves the right    *)
(* kind of record behind.                                                  *)
LEMMA ReturnKeepsType ==
    ASSUME TypeOK, NEW p \in Procs, NEW of \in Message,
           NEW result \in {"none", "ok", "nack", "failure", "timeout"},
           Return(p, result, of)
    PROVE  /\ last' \in Ended /\ lost' \subseteq 0..MaxCalls
           /\ proc' \in [Procs -> [pc : PC, cmd : Cmds, call : 0..MaxCalls]]
<1>1. /\ proc[p] \in [pc : PC, cmd : Cmds, call : 0..MaxCalls]
      /\ basetime \in 0..MaxCalls
  BY DEF TypeOK, PC
<1>2. [cmd |-> proc[p].cmd, call |-> proc[p].call, result |-> result, of |-> of,
       time |-> basetime] \in Ended
  BY <1>1 DEF Ended
<1>3. last' \in Ended
  BY <1>2 DEF Return
<1>4. lost' \subseteq 0..MaxCalls
  BY <1>1 DEF Return, TypeOK
<1>5. proc' \in [Procs -> [pc : PC, cmd : Cmds, call : 0..MaxCalls]]
  BY CmdsAssumption, MaxCallsAssumption DEF Return, TypeOK, Idle, Cmds, PC
<1>6. QED
  BY <1>3, <1>4, <1>5

LEMMA NoneIsMessage == None \in Message
BY CmdsAssumption, MaxCallsAssumption DEF None, Message, Cmds

LEMMA HeadAndTail ==
    ASSUME NEW S, NEW q \in Seq(S), q # << >>
    PROVE  Head(q) \in S /\ Tail(q) \in Seq(S)
OBVIOUS

(* What the wait copies is a message, also while the callback writes it.   *)
LEMMA CopiedAreMessages == TypeOK => Copied \subseteq Message
BY DEF TypeOK, Copied

LEMMA NextType == TypeOK /\ OneCommandAtATime /\ [Next]_vars => TypeOK'
<1> SUFFICES ASSUME TypeOK, OneCommandAtATime, [Next]_vars
             PROVE  TypeOK'
  OBVIOUS
<1> USE MaxCallsAssumption
<1>1. ASSUME NEW p \in Procs, NEW c \in Cmds, Begin(p, c)
      PROVE  TypeOK'
  <2>1. last' \in Ended
    BY <1>1, NoneIsMessage, CmdsAssumption DEF Begin, Never, Ended, Cmds
  <2>2. QED
    BY <1>1, <2>1 DEF Begin, TypeOK, Ended, matching, device
<1>2. ASSUME BeginElsewhere
      PROVE  TypeOK'
  BY <1>2 DEF BeginElsewhere, TypeOK, matching, device
<1>3. ASSUME NEW p \in Procs, Down(p) \/ SetId(p) \/ InitCompletion(p) \/ Wait(p) \/ Retry(p)
      PROVE  TypeOK'
  <2>1. CASE Down(p)
    <3>1. sem' \in {0, 1}
      BY <2>1 DEF Down, TypeOK
    <3>2. QED
      BY ZenonT(30), <2>1, <3>1 DEF Down, Goto, TypeOK, matching, times, device
  <2>2. CASE SetId(p)
    BY ZenonT(30), <2>2 DEF SetId, Goto, TypeOK, times, device
  <2>3. CASE InitCompletion(p)
    BY ZenonT(30), <2>3 DEF InitCompletion, Goto, TypeOK, times, device
  <2>4. CASE Wait(p)
    <3>1. done' \in Nat
      BY <2>4 DEF Wait, TypeOK
    <3>2. QED
      BY ZenonT(30), <2>4, <3>1 DEF Wait, Goto, TypeOK, times, device
  <2>5. CASE Retry(p)
    BY ZenonT(30), <2>5 DEF Retry, Goto, TypeOK, matching, times, device
  <2>6. QED
    BY <1>3, <2>1, <2>2, <2>3, <2>4, <2>5
<1>4. ASSUME NEW p \in Procs, Send(p)
      PROVE  TypeOK'
  <2>1. [cmd |-> proc[p].cmd, call |-> proc[p].call] \in [cmd : Cmds, call : 0..MaxCalls]
    BY DEF TypeOK
  <2>2. requests' \in Seq([cmd : Cmds, call : 0..MaxCalls])
    BY <1>4, <2>1 DEF Send, TypeOK
  <2>3. QED
    BY ZenonT(30), <1>4, <2>2 DEF Send, Goto, TypeOK, matching, times
<1>5. ASSUME NEW p \in Procs, DownInterrupted(p)
      PROVE  TypeOK'
  BY <1>5, ReturnKeepsType, NoneIsMessage
     DEF DownInterrupted, TypeOK, matching, times, device, Ended, PC
<1>6. ASSUME NEW p \in Procs, Fails(p) \/ WaitTimeout(p) \/ Accept(p) \/ DeadlinePassed(p)
      PROVE  TypeOK'
  <2>1. \E result \in {"none", "ok", "nack", "failure", "timeout"}, of \in Message :
            Return(p, result, of)
    BY <1>6, NoneIsMessage, CopiedAreMessages
       DEF Fails, WaitTimeout, Accept, DeadlinePassed
  <2>2. sem = 0
    BY <1>6 DEF Fails, WaitTimeout, Accept, DeadlinePassed, Skips, Holding,
                OneCommandAtATime
  <2>3. sem' = 1 /\ UNCHANGED <<matching, times, calls, device>>
    BY <1>6, <2>2 DEF Fails, WaitTimeout, Accept, DeadlinePassed
  <2>4. QED
    BY <2>1, <2>3, ReturnKeepsType
       DEF TypeOK, matching, times, device, Ended, PC
<1>7. ASSUME RxMessage
      PROVE  TypeOK'
  <2>1. Head(answers) \in Message /\ Tail(answers) \in Seq(Message)
    BY <1>7 DEF RxMessage, TypeOK
  <2>2. QED
    BY <1>7, <2>1 DEF RxMessage, TypeOK
<1>8. ASSUME RxCompare \/ RxComplete
      PROVE  TypeOK'
  <2>1. CASE RxCompare
    BY <2>1, NoneIsMessage DEF RxCompare, TypeOK, times
  <2>2. CASE RxComplete
    BY <2>2, NoneIsMessage DEF RxComplete, TypeOK, times
  <2>3. QED
    BY <1>8, <2>1, <2>2
<1>9. ASSUME NEW ok \in BOOLEAN, DeviceAnswer(ok) \/ DeviceSilent
      PROVE  TypeOK'
  <2>1. /\ Head(requests) \in [cmd : Cmds, call : 0..MaxCalls]
        /\ Tail(requests) \in Seq([cmd : Cmds, call : 0..MaxCalls])
    <3>1. requests \in Seq([cmd : Cmds, call : 0..MaxCalls]) /\ requests # << >>
      BY <1>9 DEF DeviceAnswer, DeviceSilent, TypeOK
    <3>2. QED
      BY <3>1, HeadAndTail
  <2>2. [cmd |-> Head(requests).cmd, call |-> Head(requests).call, ok |-> ok] \in Message
    BY <2>1 DEF Message
  <2>3. CASE DeviceAnswer(ok)
    BY <2>1, <2>2, <2>3 DEF DeviceAnswer, TypeOK, matching, times
  <2>4. CASE DeviceSilent
    BY <2>1, <2>4 DEF DeviceSilent, TypeOK, matching, times
  <2>5. QED
    BY <1>9, <2>3, <2>4
<1>10. CASE UNCHANGED vars
  BY <1>10 DEF vars, TypeOK, matching, times, device
<1>11. QED
  BY <1>1, <1>2, <1>3, <1>4, <1>5, <1>6, <1>7, <1>8, <1>9, <1>10
     DEF Next, Proceed, Callback

(* The command channel is well typed: its semaphore is binary, and what    *)
(* callers find in the buffer is always a whole message.                   *)
THEOREM ChannelTypes == Spec => []TypeOK
<1>1. Init => TypeOK
  BY CmdsAssumption, MaxCallsAssumption
     DEF Init, TypeOK, None, Idle, Never, Message, Cmds
<1>2. QED
  BY <1>1, NextType, SemaphoreIsExclusive, PTL DEF Spec

-----------------------------------------------------------------------------
(* Answers.  Calls have numbers of their own, and as long as no request    *)
(* was given up, the only message on its way is the one between the        *)
(* command that waits and the device.                                      *)

Active(p) == proc[p].pc # "idle"

NumberInv ==
    /\ lost \subseteq 1..calls
    /\ \A p \in Procs : Active(p) => proc[p].call \in 1..calls /\ proc[p].call \notin lost
    /\ \A p, q \in Procs :
           Active(p) /\ Active(q) /\ proc[p].call = proc[q].call => p = q

NothingSent == requests = << >> /\ answers = << >> /\ callback.pc = "idle"

Requested(k) ==
    /\ answers = << >> /\ callback.pc = "idle" /\ done = 0
    /\ \E r \in [cmd : Cmds, call : 0..MaxCalls] : requests = <<r>> /\ r.call = k

Answered(k) ==
    /\ requests = << >> /\ callback.pc = "idle" /\ done = 0
    /\ \E m \in Message : answers = <<m>> /\ m.call = k

Dispatched(k) ==
    /\ requests = << >> /\ answers = << >> /\ done = 0
    /\ callback.pc # "idle" /\ callback.msg.call = k

Completed(k) ==
    /\ NothingSent
    /\ done = 0 \/ (done = 1 /\ buffer.call = k)

AnswerInv ==
    lost = {} =>
        /\ (\A p \in Procs : proc[p].pc \notin {"wait", "copy"}) => NothingSent
        /\ \A p \in Procs :
               LET k == proc[p].call
               IN  /\ proc[p].pc = "send" => done = 0
                   /\ proc[p].pc = "wait" =>
                          Requested(k) \/ Answered(k) \/ Dispatched(k) \/ Completed(k)
                   /\ proc[p].pc = "copy" => NothingSent /\ done = 0 /\ buffer.call = k

-----------------------------------------------------------------------------
(* The time of RESET_TS, when these calls do not overlap: while one is in  *)
(* progress g_resettime is its own, and an ACK to it has set basetime.     *)

Belongs(m) ==
    /\ m.call <= calls
    /\ \A p \in Procs : Active(p) /\ m.call = proc[p].call => m.cmd = proc[p].cmd

MessageInv ==
    /\ Belongs(buffer) /\ Belongs(callback.msg)
    /\ \A i \in 1..Len(requests) : Belongs(requests[i])
    /\ \A i \in 1..Len(answers) : Belongs(answers[i])

ResetsTime(p) == Active(p) /\ proc[p].cmd = ResetTS

TimeInv ==
    ~SharedReset =>
        /\ \A p, q \in Procs : ResetsTime(p) /\ ResetsTime(q) => p = q
        /\ \A p \in Procs : ResetsTime(p) =>
               /\ resettime = proc[p].call
               /\ \A m \in {buffer, callback.msg} :
                      m.call = proc[p].call /\ m.ok => basetime = m.call

-----------------------------------------------------------------------------
(* The kinds of steps, as far as the numbers of calls are concerned.       *)

Moves(p) == /\ Active(p) /\ lost' = lost /\ calls' = calls
            /\ \E q \in PC \ {"idle"} : Goto(p, q)

Leaves(p) == /\ Active(p) /\ calls' = calls
             /\ \E result, of : Return(p, result, of)

Outside == UNCHANGED <<proc, lost>> /\ calls' \in {calls, calls + 1}

LEMMA StepKinds ==
    ASSUME [Next]_vars
    PROVE  \/ \E p \in Procs, c \in Cmds : Begin(p, c)
           \/ \E p \in Procs : Moves(p) \/ Leaves(p)
           \/ Outside
<1>1. ASSUME NEW p \in Procs,
             Down(p) \/ SetId(p) \/ InitCompletion(p) \/ Send(p) \/ Wait(p) \/ Retry(p)
      PROVE  Moves(p)
  <2>1. Active(p) /\ lost' = lost /\ calls' = calls
    BY <1>1 DEF Down, SetId, InitCompletion, Send, Wait, Retry, Skips, Active
  <2>2. \E q \in PC \ {"idle"} : Goto(p, q)
    BY <1>1 DEF Down, SetId, InitCompletion, Send, Wait, Retry, PC
  <2>3. QED
    BY <2>1, <2>2 DEF Moves
<1>2. ASSUME NEW p \in Procs,
             DownInterrupted(p) \/ Fails(p) \/ WaitTimeout(p) \/ Accept(p) \/ DeadlinePassed(p)
      PROVE  Leaves(p)
  BY <1>2 DEF DownInterrupted, Fails, WaitTimeout, Accept, DeadlinePassed, Skips,
              Leaves, Active
<1>3. ASSUME BeginElsewhere \/ Callback \/ DeviceSilent \/ UNCHANGED vars
                \/ \E ok \in BOOLEAN : DeviceAnswer(ok)
      PROVE  Outside
  <2>1. CASE BeginElsewhere
    BY <2>1 DEF BeginElsewhere, Outside
  <2>2. CASE Callback
    BY <2>2 DEF Callback, RxMessage, RxCompare, RxComplete, Outside
  <2>3. CASE DeviceSilent \/ \E ok \in BOOLEAN : DeviceAnswer(ok)
    BY <2>3 DEF DeviceSilent, DeviceAnswer, Outside
  <2>4. CASE UNCHANGED vars
    BY <2>4 DEF vars, Outside
  <2>5. QED
    BY <1>3, <2>1, <2>2, <2>3, <2>4
<1>4. QED
  BY <1>1, <1>2, <1>3 DEF Next, Proceed

(* No two commands in progress have the same number, and a request that    *)
(* was given up is not that of a command in progress.                      *)
LEMMA NextNumber == TypeOK /\ NumberInv /\ [Next]_vars => NumberInv'
<1> SUFFICES ASSUME TypeOK, NumberInv, [Next]_vars
             PROVE  NumberInv'
  OBVIOUS
<1>0. /\ calls \in Nat /\ lost \subseteq 1..calls
      /\ \A p \in Procs : Active(p) => proc[p].call \in 1..calls
      /\ proc \in [Procs -> [pc : PC, cmd : Cmds, call : 0..MaxCalls]]
  BY MaxCallsAssumption DEF TypeOK, NumberInv, PC
<1>1. ASSUME NEW p \in Procs, NEW c \in Cmds, Begin(p, c)
      PROVE  NumberInv'
  <2>1. /\ calls' = calls + 1 /\ lost' = lost /\ ~Active(p)
        /\ proc'[p].call = calls + 1 /\ Active(p)'
        /\ \A q \in Procs : q # p => proc'[q] = proc[q]
    BY <1>0, <1>1 DEF Begin, Active
  <2>2. \A q \in Procs : Active(q)' =>
            \/ q = p
            \/ Active(q) /\ proc'[q].call = proc[q].call /\ proc[q].call \in 1..calls
    BY <1>0, <2>1 DEF Active
  <2>3. lost' \subseteq 1..calls' /\ calls + 1 \notin 1..calls
    BY <1>0, <2>1
  <2>4. QED
    BY <1>0, <2>1, <2>2, <2>3 DEF NumberInv
<1>2. ASSUME NEW p \in Procs, Moves(p)
      PROVE  NumberInv'
  <2>1. \A q \in Procs : proc'[q].call = proc[q].call /\ (Active(q)' <=> Active(q))
    BY <1>0, <1>2 DEF Moves, Goto, Active
  <2>2. lost' = lost /\ calls' = calls
    BY <1>2 DEF Moves
  <2>3. QED
    BY <2>1, <2>2 DEF NumberInv
<1>3. ASSUME NEW p \in Procs, Leaves(p)
      PROVE  NumberInv'
  <2>1. /\ calls' = calls /\ Active(p) /\ lost' \subseteq lost \cup {proc[p].call}
        /\ ~Active(p)' /\ \A q \in Procs : q # p => proc'[q] = proc[q]
    BY <1>0, <1>3 DEF Leaves, Return, Active, Idle
  <2>2. \A q \in Procs : Active(q)' =>
            q # p /\ Active(q) /\ proc'[q].call = proc[q].call
    BY <2>1 DEF Active
  <2>3. QED
    BY <1>0, <2>1, <2>2 DEF NumberInv
<1>4. ASSUME Outside
      PROVE  NumberInv'
  <2>1. UNCHANGED <<proc, lost>> /\ 1..calls \subseteq 1..calls'
    BY <1>0, <1>4 DEF Outside
  <2>2. QED
    BY <2>1 DEF NumberInv, Active
<1>5. QED
  BY <1>1, <1>2, <1>3, <1>4, StepKinds

-----------------------------------------------------------------------------
(* Sequences of one message.                                               *)
LEMMA OneMessage ==
    ASSUME NEW m, NEW n
    PROVE  /\ Head(<<m>>) = m /\ Tail(<<m>>) = << >> /\ <<m>> # << >>
           /\ <<m>> = <<n>> => m = n
OBVIOUS

LEMMA FirstMessage ==
    ASSUME NEW S, NEW m \in S
    PROVE  Append(<< >>, m) = <<m>>
OBVIOUS

(* Only one process can be sending, waiting or copying.                    *)
LEMMA AloneHolding ==
    ASSUME OneCommandAtATime, NEW p \in Procs, Holding(p)
    PROVE  \A q \in Procs : q # p /\ proc[q].pc \in PC => proc[q].pc \in {"idle", "down"}
BY DEF OneCommandAtATime, Holding, PC

(* The state of a wait that lasts, in a step of the callback or device.    *)
Waited(k) == Requested(k) \/ Answered(k) \/ Dispatched(k) \/ Completed(k)

LEMMA WaitLasts ==
    ASSUME TypeOK, OneCommandAtATime, AnswerInv, UNCHANGED <<proc, lost>>,
           ~NothingSent,
           \A p \in Procs : proc[p].pc = "wait" /\ Waited(proc[p].call) /\ lost = {}
                => Waited(proc[p].call)'
    PROVE  AnswerInv'
<1> SUFFICES ASSUME lost = {}
             PROVE  AnswerInv'
  BY DEF AnswerInv
<1>1. PICK p \in Procs : proc[p].pc \in {"wait", "copy"}
  BY DEF AnswerInv
<1>2. proc[p].pc = "wait" /\ Waited(proc[p].call)
  BY <1>1 DEF AnswerInv, Waited
<1>3. \A q \in Procs : q # p => proc[q].pc \in {"idle", "down"}
  BY <1>2, AloneHolding DEF Holding, TypeOK, PC
<1>4. \A q \in Procs : proc'[q] = proc[q]
  OBVIOUS
<1>5. Waited(proc[p].call)'
  BY <1>2
<1>6. QED
  BY <1>2, <1>3, <1>4, <1>5 DEF AnswerInv, Waited

(* p gets to another point of its command, or ends it, and the rest of the *)
(* channel is as the invariant has it for p.                               *)
Sound(p) ==
    /\ proc[p].pc \notin {"wait", "copy"} => NothingSent
    /\ proc[p].pc = "send" => done = 0
    /\ proc[p].pc = "wait" => Waited(proc[p].call)
    /\ proc[p].pc = "copy" => NothingSent /\ done = 0 /\ buffer.call = proc[p].call

LEMMA HolderMoves ==
    ASSUME TypeOK, OneCommandAtATime, NEW p \in Procs, Holding(p),
           \A q \in Procs : q # p => proc'[q] = proc[q],
           Sound(p)'
    PROVE  AnswerInv'
<1>1. \A q \in Procs : q # p => proc'[q].pc \in {"idle", "down"}
  BY AloneHolding DEF TypeOK, PC
<1>2. (\A q \in Procs : proc'[q].pc \notin {"wait", "copy"}) => NothingSent'
  BY DEF Sound
<1>3. ASSUME NEW q \in Procs
      PROVE  /\ proc'[q].pc = "send" => done' = 0
             /\ proc'[q].pc = "wait" => Waited(proc[q].call)'
             /\ proc'[q].pc = "copy" =>
                    NothingSent' /\ done' = 0 /\ buffer'.call = proc'[q].call
  BY <1>1 DEF Sound
<1>4. QED
  BY <1>2, <1>3 DEF AnswerInv, Waited

LEMMA NextAnswer ==
    TypeOK /\ OneCommandAtATime /\ NumberInv /\ AnswerInv /\ [Next]_vars => AnswerInv'
<1> SUFFICES ASSUME TypeOK, OneCommandAtATime, NumberInv, AnswerInv, [Next]_vars
             PROVE  AnswerInv'
  OBVIOUS
<1>0. \A p \in Procs : proc[p].pc \in PC
  BY DEF TypeOK, PC
<1>1. ASSUME NEW p \in Procs, NEW c \in Cmds, Begin(p, c)
      PROVE  AnswerInv'
  <2>1. /\ UNCHANGED <<requests, answers, callback, done, buffer, lost>>
        /\ proc[p].pc = "idle" /\ proc'[p].pc = "down"
        /\ \A q \in Procs : q # p => proc'[q] = proc[q]
    BY <1>1 DEF Begin, TypeOK, matching, device
  <2>2. QED
    BY <2>1 DEF AnswerInv, NothingSent, Requested, Answered, Dispatched, Completed
<1>2. ASSUME NEW p \in Procs, Down(p) \/ DownInterrupted(p)
      PROVE  AnswerInv'
  <2>1. /\ UNCHANGED <<requests, answers, callback, done, buffer, lost>>
        /\ proc[p].pc = "down" /\ proc'[p].pc \in {"idle", "set"}
        /\ \A q \in Procs : q # p => proc'[q] = proc[q]
    <3>1. CASE Down(p)
      BY <3>1 DEF Down, Goto, TypeOK, matching, device
    <3>2. CASE DownInterrupted(p)
      BY <3>2 DEF DownInterrupted, Return, Idle, TypeOK, matching, device
    <3>3. QED
      BY <1>2, <3>1, <3>2
  <2>2. QED
    BY <2>1 DEF AnswerInv, NothingSent, Requested, Answered, Dispatched, Completed
<1>3. ASSUME NEW p \in Procs, SetId(p) \/ InitCompletion(p)
      PROVE  AnswerInv'
  <2>1. /\ UNCHANGED <<requests, answers, callback, buffer, lost>>
        /\ proc[p].pc \in {"set", "init"} /\ proc'[p].pc \in {"init", "send"}
        /\ proc'[p].pc = "send" => done' = 0
        /\ \A q \in Procs : q # p => proc'[q] = proc[q]
    BY <1>3 DEF SetId, InitCompletion, Goto, TypeOK, device
  <2>2. SUFFICES ASSUME lost = {}
                 PROVE  AnswerInv'
    BY <2>1 DEF AnswerInv
  <2>3. Holding(p)
    BY <2>1 DEF Holding
  <2>4. NothingSent
    BY <1>0, <2>1, <2>2, <2>3, AloneHolding DEF AnswerInv
  <2>5. NothingSent'
    BY <2>1, <2>4 DEF NothingSent
  <2>6. Sound(p)'
    BY <2>1, <2>5 DEF Sound
  <2>7. QED
    BY <2>1, <2>3, <2>6, HolderMoves
<1>4. ASSUME NEW p \in Procs, Send(p)
      PROVE  AnswerInv'
  <2>1. /\ UNCHANGED <<answers, callback, buffer, done, lost>>
        /\ proc[p].pc = "send" /\ proc'[p].pc = "wait" /\ proc'[p].call = proc[p].call
        /\ \A q \in Procs : q # p => proc'[q] = proc[q]
        /\ requests' = Append(requests, [cmd |-> proc[p].cmd, call |-> proc[p].call])
    BY <1>4 DEF Send, Goto, TypeOK, matching
  <2>2. SUFFICES ASSUME lost = {}
                 PROVE  AnswerInv'
    BY <2>1 DEF AnswerInv
  <2>3. Holding(p)
    BY <2>1 DEF Holding
  <2>4. NothingSent /\ done = 0
    BY <1>0, <2>1, <2>2, <2>3, AloneHolding DEF AnswerInv
  <2> DEFINE r == [cmd |-> proc[p].cmd, call |-> proc[p].call]
  <2>5. r \in [cmd : Cmds, call : 0..MaxCalls] /\ r.call = proc'[p].call
    BY <2>1 DEF TypeOK
  <2> HIDE DEF r
  <2>6. requests' = <<r>>
    BY <2>1, <2>4, <2>5, FirstMessage DEF NothingSent, r
  <2>7. Requested(proc[p].call)'
    BY <2>1, <2>4, <2>5, <2>6 DEF Requested, NothingSent
  <2>8. Sound(p)'
    BY <2>1, <2>7 DEF Sound, Waited
  <2>9. QED
    BY <2>1, <2>3, <2>8, HolderMoves
<1>5. ASSUME NEW p \in Procs, Fails(p) \/ WaitTimeout(p) \/ DeadlinePassed(p)
      PROVE  AnswerInv'
  <2>1. /\ UNCHANGED <<requests, answers, callback, buffer, done>>
        /\ proc[p].pc \in {"send", "wait", "copy"} /\ proc'[p].pc = "idle"
        /\ \A q \in Procs : q # p => proc'[q] = proc[q]
        /\ Return(p, "failure", None) \/ Return(p, "timeout", None)
    BY <1>5 DEF Fails, WaitTimeout, DeadlinePassed, Skips, Return, Idle, TypeOK,
                matching, device
  <2>2. None.call # proc[p].call
    <3>1. Active(p) /\ calls \in Nat
      BY <2>1, MaxCallsAssumption DEF Active, TypeOK
    <3>2. proc[p].call \in 1..calls
      BY <3>1 DEF NumberInv
    <3>3. None.call = 0
      BY DEF None
    <3>4. QED
      BY <3>1, <3>2, <3>3
  <2>3. CASE proc[p].pc # "send"
    <3>1. lost' = lost \cup {proc[p].call}
      BY <2>1, <2>2, <2>3 DEF Return
    <3>2. QED
      BY <3>1 DEF AnswerInv
  <2>4. CASE proc[p].pc = "send"
    <3>1. lost' = lost
      BY <2>1, <2>4 DEF Return
    <3>2. SUFFICES ASSUME lost = {}
                   PROVE  AnswerInv'
      BY <3>1 DEF AnswerInv
    <3>3. Holding(p)
      BY <2>4 DEF Holding
    <3>4. NothingSent
      BY <1>0, <2>4, <3>2, <3>3, AloneHolding DEF AnswerInv
    <3>5. NothingSent'
      BY <2>1, <3>4 DEF NothingSent
    <3>6. Sound(p)'
      BY <2>1, <3>5 DEF Sound
    <3>7. QED
      BY <2>1, <3>3, <3>6, HolderMoves
  <2>5. QED
    BY <2>3, <2>4
<1>6. ASSUME NEW p \in Procs, Wait(p)
      PROVE  AnswerInv'
  <2>1. /\ UNCHANGED <<requests, answers, callback, buffer, lost>>
        /\ proc[p].pc = "wait" /\ proc'[p].pc = "copy" /\ proc'[p].call = proc[p].call
        /\ done > 0 /\ done' = done - 1
        /\ \A q \in Procs : q # p => proc'[q] = proc[q]
    BY <1>6 DEF Wait, Goto, TypeOK, device
  <2>2. SUFFICES ASSUME lost = {}
                 PROVE  AnswerInv'
    BY <2>1 DEF AnswerInv
  <2>3. Holding(p)
    BY <2>1 DEF Holding
  <2>4. NothingSent /\ done = 1 /\ buffer.call = proc[p].call
    BY <2>1, <2>2 DEF AnswerInv, Requested, Answered, Dispatched, Completed
  <2>5. NothingSent' /\ done' = 0 /\ buffer'.call = proc'[p].call
    BY <2>1, <2>4 DEF NothingSent
  <2>6. Sound(p)'
    BY <2>1, <2>5 DEF Sound
  <2>7. QED
    BY <2>1, <2>3, <2>6, HolderMoves
<1>7. ASSUME NEW p \in Procs, Accept(p) \/ Retry(p)
      PROVE  AnswerInv'
  <2>1. /\ UNCHANGED <<requests, answers, callback, buffer, done>>
        /\ proc[p].pc = "copy" /\ lost \subseteq lost'
        /\ \/ proc'[p].pc = "idle"
           \/ proc'[p].pc = "wait" /\ proc'[p].call = proc[p].call
        /\ \A q \in Procs : q # p => proc'[q] = proc[q]
    <3>1. CASE Accept(p)
      BY <3>1 DEF Accept, Return, Idle, TypeOK, matching, device
    <3>2. CASE Retry(p)
      BY <3>2 DEF Retry, Skips, Goto, TypeOK, matching, device
    <3>3. QED
      BY <1>7, <3>1, <3>2
  <2>2. SUFFICES ASSUME lost = {}
                 PROVE  AnswerInv'
    BY <2>1 DEF AnswerInv
  <2>3. Holding(p)
    BY <2>1 DEF Holding
  <2>4. NothingSent /\ done = 0
    BY <2>1, <2>2 DEF AnswerInv
  <2>5. NothingSent' /\ Completed(proc[p].call)'
    BY <2>1, <2>4 DEF NothingSent, Completed
  <2>6. Sound(p)'
    BY <2>1, <2>5 DEF Sound, Waited
  <2>7. QED
    BY <2>1, <2>3, <2>6, HolderMoves
<1>8. ASSUME RxMessage
      PROVE  AnswerInv'
  <2>1. /\ UNCHANGED <<proc, lost, requests, done>> /\ answers # << >>
        /\ callback.pc = "idle" /\ callback'.pc = "compare"
        /\ callback'.msg = Head(answers) /\ answers' = Tail(answers)
    BY <1>8 DEF RxMessage
  <2>2. ~NothingSent
    BY <2>1 DEF NothingSent
  <2>3. ASSUME NEW k, Waited(k)
        PROVE  Waited(k)'
    <3>1. Answered(k)
      BY <2>1, <2>3 DEF Waited, Requested, Dispatched, Completed, NothingSent
    <3>2. PICK m \in Message : answers = <<m>> /\ m.call = k
      BY <3>1 DEF Answered
    <3>3. callback'.msg = m /\ answers' = << >>
      BY <2>1, <3>2, OneMessage
    <3>4. Dispatched(k)'
      BY <2>1, <3>1, <3>2, <3>3 DEF Answered, Dispatched
    <3>5. QED
      BY <3>4 DEF Waited
  <2>4. QED
    BY <2>1, <2>2, <2>3, WaitLasts
<1>9. ASSUME RxCompare \/ RxComplete
      PROVE  AnswerInv'
  <2>1. UNCHANGED <<proc, lost, requests, answers>> /\ callback.pc # "idle"
    BY <1>9 DEF RxCompare, RxComplete
  <2>2. ~NothingSent
    BY <2>1 DEF NothingSent
  <2>3. ASSUME NEW k, Waited(k)
        PROVE  Waited(k)'
    <3>1. Dispatched(k)
      BY <2>1, <2>3 DEF Waited, Requested, Answered, Completed, NothingSent
    <3>2. CASE RxCompare
      <4>1. done' = done /\ \/ callback'.pc = "copying" /\ callback'.msg = callback.msg
                            \/ callback'.pc = "idle"
        BY <3>2 DEF RxCompare, TypeOK
      <4>2. Dispatched(k)' \/ Completed(k)'
        BY <2>1, <3>1, <4>1 DEF Dispatched, Completed, NothingSent
      <4>3. QED
        BY <4>2 DEF Waited
    <3>3. CASE RxComplete
      <4>1. done' = done + 1 /\ callback'.pc = "idle" /\ buffer' = callback.msg
        BY <3>3 DEF RxComplete
      <4>2. Completed(k)'
        BY <2>1, <3>1, <4>1 DEF Dispatched, Completed, NothingSent
      <4>3. QED
        BY <4>2 DEF Waited
    <3>4. QED
      BY <1>9, <3>2, <3>3
  <2>4. QED
    BY <2>1, <2>2, <2>3, WaitLasts
<1>10. ASSUME NEW ok \in BOOLEAN, DeviceAnswer(ok) \/ DeviceSilent
       PROVE  AnswerInv'
  <2>1. /\ UNCHANGED <<proc, lost, callback, done, buffer>>
        /\ requests # << >> /\ requests' = Tail(requests)
        /\ \/ answers' = answers
           \/ answers' = Append(answers, [cmd |-> Head(requests).cmd,
                                          call |-> Head(requests).call, ok |-> ok])
    BY <1>10 DEF DeviceAnswer, DeviceSilent, matching
  <2>2. ~NothingSent
    BY <2>1 DEF NothingSent
  <2>3. ASSUME NEW k, Waited(k)
        PROVE  Waited(k)'
    <3>1. Requested(k)
      BY <2>1, <2>3 DEF Waited, Answered, Dispatched, Completed, NothingSent
    <3>2. PICK r \in [cmd : Cmds, call : 0..MaxCalls] : requests = <<r>> /\ r.call = k
      BY <3>1 DEF Requested
    <3>3. Head(requests) = r /\ requests' = << >>
      BY <2>1, <3>2, OneMessage
    <3>4. CASE answers' = answers
      BY <2>1, <3>1, <3>3, <3>4 DEF Requested, Completed, NothingSent, Waited
    <3>5. CASE answers' = Append(answers, [cmd |-> Head(requests).cmd,
                                           call |-> Head(requests).call, ok |-> ok])
      <4> DEFINE m == [cmd |-> r.cmd, call |-> r.call, ok |-> ok]
      <4>1. m \in Message /\ m.call = k
        BY <3>2 DEF Message
      <4> HIDE DEF m
      <4>2. answers' = <<m>>
        BY <3>1, <3>3, <3>5, <4>1, FirstMessage DEF Requested, m
      <4>3. Answered(k)'
        BY <2>1, <3>1, <3>3, <4>1, <4>2 DEF Requested, Answered
      <4>4. QED
        BY <4>3 DEF Waited
    <3>6. QED
      BY <2>1, <3>4, <3>5
  <2>4. QED
    BY <2>1, <2>2, <2>3, WaitLasts
<1>11. ASSUME BeginElsewhere \/ UNCHANGED vars
       PROVE  AnswerInv'
  <2>1. UNCHANGED <<proc, lost, callback, done, buffer, requests, answers>>
    BY <1>11 DEF BeginElsewhere, vars, matching, device
  <2>2. QED
    BY <2>1 DEF AnswerInv, NothingSent, Requested, Answered, Dispatched, Completed
<1>12. QED
  BY <1>1, <1>2, <1>3, <1>4, <1>5, <1>6, <1>7, <1>8, <1>9, <1>10, <1>11
     DEF Next, Proceed, Callback

(* What a command reports was for it: kept by every step.                  *)
LEMMA NextDue ==
    TypeOK /\ NumberInv /\ AnswerInv /\ AnswerIsDue /\ [Next]_vars => AnswerIsDue'
<1> SUFFICES ASSUME TypeOK, NumberInv, AnswerInv, AnswerIsDue, [Next]_vars
             PROVE  AnswerIsDue'
  OBVIOUS
<1>1. ASSUME UNCHANGED last, lost \subseteq lost'
      PROVE  AnswerIsDue'
  BY <1>1 DEF AnswerIsDue
<1>2. ASSUME NEW p \in Procs, NEW result, NEW of, Return(p, result, of),
             result \in {"ok", "nack"} =>
                 /\ of.cmd = proc[p].cmd
                 /\ of.call = proc[p].call \/ lost \ {proc[p].call} # {}
      PROVE  AnswerIsDue'
  <2>1. lost \subseteq lost'
    BY <1>2 DEF Return
  <2>2. /\ last'.result = result /\ last'.of = of
        /\ last'.cmd = proc[p].cmd /\ last'.call = proc[p].call
    BY <1>2 DEF Return
  <2>3. QED
    BY <1>2, <2>1, <2>2 DEF AnswerIsDue
<1>3. ASSUME NEW p \in Procs, Accept(p)
      PROVE  AnswerIsDue'
  <2>1. PICK m \in Copied :
            Return(p, IF m.cmd # proc[p].cmd THEN "failure"
                      ELSE IF m.ok THEN "ok" ELSE "nack", m)
    BY <1>3 DEF Accept
  <2>2. proc[p].pc = "copy" /\ proc[p].call \notin lost
    BY <1>3 DEF Accept, NumberInv, Active
  <2>3. ASSUME lost = {}
        PROVE  m.call = proc[p].call
    BY <2>2, <2>3 DEF AnswerInv, NothingSent, Copied
  <2>4. QED
    BY <1>2, <2>1, <2>2, <2>3
<1>4. ASSUME NEW p \in Procs,
             DownInterrupted(p) \/ Fails(p) \/ WaitTimeout(p) \/ DeadlinePassed(p)
      PROVE  AnswerIsDue'
  <2>1. \E result \in {"failure", "timeout"} : Return(p, result, None)
    BY <1>4 DEF DownInterrupted, Fails, WaitTimeout, DeadlinePassed
  <2>2. QED
    BY <1>2, <2>1
<1>5. ASSUME NEW p \in Procs,
             Down(p) \/ SetId(p) \/ InitCompletion(p) \/ Send(p) \/ Wait(p) \/ Retry(p)
      PROVE  UNCHANGED <<last, lost>>
  BY <1>5, Zenon DEF Down, SetId, InitCompletion, Send, Wait, Retry
<1>6. ASSUME \/ BeginElsewhere \/ Callback \/ DeviceSilent \/ UNCHANGED vars
             \/ \E ok \in BOOLEAN : DeviceAnswer(ok)
      PROVE  UNCHANGED <<last, lost>>
  BY <1>6, Zenon DEF BeginElsewhere, Callback, RxMessage, RxCompare, RxComplete,
     DeviceSilent, DeviceAnswer, vars
<1>7. ASSUME NEW p \in Procs, NEW c \in Cmds, Begin(p, c)
      PROVE  AnswerIsDue'
  BY <1>7 DEF Begin, Never, AnswerIsDue
<1>8. QED
  BY <1>1, <1>3, <1>4, <1>5, <1>6, <1>7 DEF Next, Proceed

LEMMA InitAnswers == Init => NumberInv /\ AnswerInv /\ AnswerIsDue
BY MaxCallsAssumption
   DEF Init, NumberInv, AnswerInv, AnswerIsDue, Active, NothingSent, Idle, Never

(* A command that reports success or refusal reports an answer to its own  *)
(* command, and to its own call unless an earlier request was given up.    *)
THEOREM AnswersAreDue == Spec => []AnswerIsDue
<1>1. QED
  BY InitAnswers, NextNumber, NextAnswer, NextDue, ChannelTypes,
     SemaphoreIsExclusive, PTL DEF Spec

-----------------------------------------------------------------------------
(* Where the elements of Tail and Append come from.                        *)
LEMMA TailElements ==
    ASSUME NEW S, NEW s \in Seq(S), s # << >>
    PROVE  /\ 1 \in 1..Len(s) /\ Head(s) = s[1]
           /\ \A i \in 1..Len(Tail(s)) : \E j \in 1..Len(s) : Tail(s)[i] = s[j]
<1>1. Len(s) \in Nat \ {0} /\ Len(Tail(s)) = Len(s) - 1 /\ Head(s) = s[1]
  OBVIOUS
<1>2. \A i \in 1..Len(Tail(s)) : i + 1 \in 1..Len(s) /\ Tail(s)[i] = s[i + 1]
  BY <1>1
<1>3. QED
  BY <1>1, <1>2

LEMMA ElementType ==
    ASSUME NEW S, NEW s \in Seq(S), NEW i \in 1..Len(s)
    PROVE  s[i] \in S
OBVIOUS

LEMMA AppendElements ==
    ASSUME NEW S, NEW s \in Seq(S), NEW e \in S
    PROVE  \A i \in 1..Len(Append(s, e)) :
               Append(s, e)[i] = e \/ \E j \in 1..Len(s) : Append(s, e)[i] = s[j]
<1>1. Len(s) \in Nat /\ Len(Append(s, e)) = Len(s) + 1
  OBVIOUS
<1>2. \A i \in 1..Len(Append(s, e)) : i = Len(s) + 1 \/ i \in 1..Len(s)
  BY <1>1
<1>3. \A i \in 1..Len(s) : Append(s, e)[i] = s[i]
  OBVIOUS
<1>4. Append(s, e)[Len(s) + 1] = e
  OBVIOUS
<1>5. QED
  BY <1>2, <1>3, <1>4

(* A message of an earlier call never takes the number of a later one.     *)
LEMMA BelongsStays ==
    ASSUME TypeOK, NumberInv, [Next]_vars, NEW m, m.call \in Nat, Belongs(m)
    PROVE  /\ m.call <= calls'
           /\ \A q \in Procs : proc'[q].pc # "idle" /\ m.call = proc'[q].call
                  => m.cmd = proc'[q].cmd
<1>0. /\ calls \in Nat /\ m.call <= calls
      /\ \A q \in Procs : proc[q].pc # "idle" /\ m.call = proc[q].call
             => m.cmd = proc[q].cmd
  BY MaxCallsAssumption DEF TypeOK, Belongs, Active
<1>1. ASSUME NEW p \in Procs, NEW c \in Cmds, Begin(p, c)
      PROVE  /\ calls' = calls + 1 /\ proc'[p].call = calls + 1
             /\ \A q \in Procs : q # p => proc'[q] = proc[q]
  BY <1>1 DEF Begin, TypeOK
<1>2. ASSUME NEW p \in Procs, Moves(p) \/ Leaves(p)
      PROVE  /\ calls' = calls
             /\ \A q \in Procs : proc'[q].pc # "idle" =>
                    /\ proc[q].pc # "idle" /\ proc'[q].call = proc[q].call
                    /\ proc'[q].cmd = proc[q].cmd
  <2>1. CASE Moves(p)
    BY <2>1 DEF Moves, Goto, Active, TypeOK
  <2>2. CASE Leaves(p)
    BY <2>2 DEF Leaves, Return, Idle, Active, TypeOK
  <2>3. QED
    BY <1>2, <2>1, <2>2
<1>3. CASE \E p \in Procs, c \in Cmds : Begin(p, c)
  BY <1>0, <1>1, <1>3
<1>4. CASE \E p \in Procs : Moves(p) \/ Leaves(p)
  BY <1>0, <1>2, <1>4
<1>5. CASE Outside
  BY <1>0, <1>5 DEF Outside
<1>6. QED
  BY <1>3, <1>4, <1>5, StepKinds

(* A message that steps keep stays where it belongs; a new one is that of  *)
(* the only command with its number.                                       *)
LEMMA NextMessage == TypeOK /\ NumberInv /\ MessageInv /\ [Next]_vars => MessageInv'
<1> SUFFICES ASSUME TypeOK, NumberInv, MessageInv, [Next]_vars
             PROVE  MessageInv'
  OBVIOUS
<1> DEFINE Known(m) ==
        \/ m = buffer \/ m = callback.msg \/ m = None
        \/ \E i \in 1..Len(requests) : m.call = requests[i].call /\ m.cmd = requests[i].cmd
        \/ \E i \in 1..Len(answers) : m = answers[i]
        \/ \E p \in Procs : Active(p) /\ m.call = proc[p].call /\ m.cmd = proc[p].cmd
<1>0. /\ calls \in Nat /\ None.call = 0 /\ buffer.call \in Nat /\ callback.msg.call \in Nat
      /\ requests \in Seq([cmd : Cmds, call : 0..MaxCalls])
      /\ answers \in Seq(Message)
      /\ \A i \in 1..Len(requests) : requests[i].call \in Nat
      /\ \A i \in 1..Len(answers) : answers[i].call \in Nat
      /\ \A p \in Procs : proc[p].call \in Nat
  <2>1. 0..MaxCalls \subseteq Nat /\ calls \in Nat /\ None.call = 0
    BY MaxCallsAssumption DEF TypeOK, None
  <2>2. \A m \in Message : m.call \in Nat
    BY <2>1 DEF Message
  <2>3. requests \in Seq([cmd : Cmds, call : 0..MaxCalls]) /\ answers \in Seq(Message)
    BY DEF TypeOK
  <2>4. ASSUME NEW i \in 1..Len(requests)
        PROVE  requests[i].call \in Nat
    <3>1. requests[i] \in [cmd : Cmds, call : 0..MaxCalls]
      BY <2>3, ElementType, Zenon
    <3>2. QED
      BY <2>1, <3>1
  <2>5. \A i \in 1..Len(answers) : answers[i].call \in Nat
    <3>1. \A i \in 1..Len(answers) : answers[i] \in Message
      BY <2>3
    <3>2. QED
      BY <2>2, <3>1
  <2>6. buffer.call \in Nat /\ callback.msg.call \in Nat
    BY <2>2 DEF TypeOK
  <2>7. \A p \in Procs : proc[p].call \in Nat
    BY <2>1 DEF TypeOK
  <2>8. QED
    BY <2>1, <2>3, <2>4, <2>5, <2>6, <2>7
<1>1. ASSUME NEW m, Known(m)
      PROVE  m.call \in Nat /\ Belongs(m)
  <2>1. CASE m = None
    BY <1>0, <2>1 DEF Belongs, NumberInv
  <2>2. CASE \E p \in Procs : Active(p) /\ m.call = proc[p].call /\ m.cmd = proc[p].cmd
    <3>1. PICK p \in Procs : Active(p) /\ m.call = proc[p].call /\ m.cmd = proc[p].cmd
      BY <2>2
    <3>2. proc[p].call \in 1..calls
      BY <3>1 DEF NumberInv
    <3>3. \A q \in Procs : Active(q) /\ m.call = proc[q].call => q = p
      BY <3>1 DEF NumberInv
    <3>4. QED
      BY <1>0, <3>1, <3>2, <3>3 DEF Belongs
  <2>3. CASE \E i \in 1..Len(requests) : m.call = requests[i].call /\ m.cmd = requests[i].cmd
    BY <1>0, <2>3 DEF MessageInv, Belongs
  <2>4. CASE m = buffer \/ m = callback.msg \/ \E i \in 1..Len(answers) : m = answers[i]
    BY <1>0, <2>4 DEF MessageInv
  <2>5. QED
    BY <1>1, <2>1, <2>2, <2>3, <2>4
<1>2. ASSUME NEW m, Known(m)
      PROVE  /\ m.call <= calls'
             /\ \A q \in Procs : proc'[q].pc # "idle" /\ m.call = proc'[q].call
                    => m.cmd = proc'[q].cmd
  BY <1>1, <1>2, BelongsStays
<1>3. SUFFICES /\ Known(buffer') /\ Known(callback'.msg)
               /\ \A i \in 1..Len(requests') : Known(requests'[i])
               /\ \A i \in 1..Len(answers') : Known(answers'[i])
  BY SMTT(60), <1>2 DEF MessageInv, Belongs, Active
<1>4. CASE UNCHANGED <<matching, requests, answers>>
  BY <1>4 DEF matching
<1>5. ASSUME NEW p \in Procs,
             SetId(p) \/ InitCompletion(p) \/ Wait(p)
      PROVE  UNCHANGED <<buffer, callback, requests, answers>>
  BY <1>5 DEF SetId, InitCompletion, Wait, device
<1>6. ASSUME NEW p \in Procs, Send(p)
      PROVE  /\ Known(buffer') /\ Known(callback'.msg)
             /\ \A i \in 1..Len(requests') : Known(requests'[i])
             /\ \A i \in 1..Len(answers') : Known(answers'[i])
  <2> DEFINE r == [cmd |-> proc[p].cmd, call |-> proc[p].call]
  <2>1. /\ requests' = Append(requests, r) /\ UNCHANGED <<matching, answers>>
        /\ Active(p)
    BY <1>6 DEF Send, Active
  <2>2. r \in [cmd : Cmds, call : 0..MaxCalls] /\ r.call = proc[p].call /\ r.cmd = proc[p].cmd
    BY DEF TypeOK
  <2> HIDE DEF r
  <2>3. \A i \in 1..Len(requests') :
            requests'[i] = r \/ \E j \in 1..Len(requests) : requests'[i] = requests[j]
    BY <1>0, <2>1, <2>2, AppendElements
  <2>4. QED
    BY <2>1, <2>2, <2>3 DEF matching
<1>7. ASSUME Callback
      PROVE  /\ Known(buffer') /\ Known(callback'.msg)
             /\ \A i \in 1..Len(requests') : Known(requests'[i])
             /\ \A i \in 1..Len(answers') : Known(answers'[i])
  <2>1. CASE RxMessage
    <3>1. /\ answers # << >> /\ callback'.msg = Head(answers) /\ answers' = Tail(answers)
          /\ UNCHANGED <<buffer, requests>>
      BY <2>1 DEF RxMessage
    <3>2. /\ 1 \in 1..Len(answers) /\ Head(answers) = answers[1]
          /\ \A i \in 1..Len(Tail(answers)) :
                 \E j \in 1..Len(answers) : Tail(answers)[i] = answers[j]
      BY <1>0, <3>1, TailElements
    <3>3. QED
      BY <3>1, <3>2
  <2>2. CASE RxCompare
    <3>1. callback'.msg \in {callback.msg, None} /\ UNCHANGED <<buffer, requests, answers>>
      BY <2>2 DEF RxCompare, TypeOK
    <3>2. QED
      BY <3>1
  <2>3. CASE RxComplete
    <3>1. /\ callback'.msg = None /\ buffer' = callback.msg
          /\ UNCHANGED <<requests, answers>>
      BY <2>3 DEF RxComplete
    <3>2. QED
      BY <3>1
  <2>4. QED
    BY <1>7, <2>1, <2>2, <2>3 DEF Callback
<1>8. ASSUME NEW ok \in BOOLEAN, DeviceAnswer(ok) \/ DeviceSilent
      PROVE  /\ Known(buffer') /\ Known(callback'.msg)
             /\ \A i \in 1..Len(requests') : Known(requests'[i])
             /\ \A i \in 1..Len(answers') : Known(answers'[i])
  <2> DEFINE m == [cmd |-> Head(requests).cmd, call |-> Head(requests).call, ok |-> ok]
  <2>1. /\ requests # << >> /\ requests' = Tail(requests) /\ UNCHANGED <<buffer, callback>>
        /\ answers' = answers \/ answers' = Append(answers, m)
    BY <1>8 DEF DeviceAnswer, DeviceSilent, matching
  <2>2. /\ 1 \in 1..Len(requests) /\ Head(requests) = requests[1]
        /\ \A i \in 1..Len(Tail(requests)) :
               \E j \in 1..Len(requests) : Tail(requests)[i] = requests[j]
    BY <1>0, <2>1, TailElements
  <2>3. m \in Message /\ m.call = requests[1].call /\ m.cmd = requests[1].cmd
    <3>1. requests[1] \in [cmd : Cmds, call : 0..MaxCalls]
      BY <1>0, <2>2, ElementType, Zenon
    <3>2. requests[1].cmd \in Cmds /\ requests[1].call \in 0..MaxCalls
      BY <3>1
    <3>3. m = [cmd |-> requests[1].cmd, call |-> requests[1].call, ok |-> ok]
      BY <2>2
    <3> HIDE DEF m
    <3>4. m \in Message
      BY <3>2, <3>3 DEF Message
    <3>5. QED
      BY <3>3, <3>4
  <2> HIDE DEF m
  <2>4. \A i \in 1..Len(answers') :
            answers'[i] = m \/ \E j \in 1..Len(answers) : answers'[i] = answers[j]
    <3>1. CASE answers' = answers
      BY <3>1
    <3>2. CASE answers' = Append(answers, m)
      BY <1>0, <2>3, <3>2, AppendElements
    <3>3. QED
      BY <2>1, <3>1, <3>2
  <2>5. QED
    BY <2>1, <2>2, <2>3, <2>4
<1>9. ASSUME NEW p \in Procs,
             \/ Down(p) \/ DownInterrupted(p) \/ Fails(p) \/ WaitTimeout(p)
             \/ Accept(p) \/ Retry(p) \/ DeadlinePassed(p)
             \/ \E c \in Cmds : Begin(p, c)
      PROVE  UNCHANGED <<matching, requests, answers>>
  BY <1>9, Zenon DEF Down, DownInterrupted, Fails, WaitTimeout, Accept, Retry,
     DeadlinePassed, Begin, device
<1>10. ASSUME BeginElsewhere \/ UNCHANGED vars
       PROVE  UNCHANGED <<matching, requests, answers>>
  BY <1>10, Zenon DEF BeginElsewhere, vars, device
<1>11. ASSUME UNCHANGED <<buffer, callback, requests, answers>>
       PROVE  /\ Known(buffer') /\ Known(callback'.msg)
              /\ \A i \in 1..Len(requests') : Known(requests'[i])
              /\ \A i \in 1..Len(answers') : Known(answers'[i])
  BY <1>11
<1> HIDE DEF Known
<1>12. QED
  BY <1>4, <1>5, <1>6, <1>7, <1>8, <1>9, <1>10, <1>11 DEF Next, Proceed

(* No command of RESET_TS begins, and what is stored about its time stays. *)
LEMMA TimeKept ==
    ASSUME ~SharedReset, TimeInv, UNCHANGED <<resettime, basetime>>,
           \A p \in Procs : ResetsTime(p)' =>
               /\ ResetsTime(p) /\ proc'[p].call = proc[p].call
               /\ \A m \in {buffer', callback'.msg} :
                      m \in {buffer, callback.msg} \/ ~m.ok
    PROVE  TimeInv'
<1>1. \A p, q \in Procs : ResetsTime(p)' /\ ResetsTime(q)' => p = q
  BY DEF TimeInv
<1>2. ASSUME NEW p \in Procs, ResetsTime(p)'
      PROVE  /\ resettime' = proc'[p].call
             /\ \A m \in {buffer', callback'.msg} :
                    m.call = proc'[p].call /\ m.ok => basetime' = m.call
  BY <1>2 DEF TimeInv
<1>3. QED
  BY <1>1, <1>2 DEF TimeInv

LEMMA NextTime ==
    ~SharedReset /\ TypeOK /\ NumberInv /\ MessageInv /\ TimeInv /\ [Next]_vars => TimeInv'
<1> SUFFICES ASSUME ~SharedReset, TypeOK, NumberInv, MessageInv, TimeInv, [Next]_vars
             PROVE  TimeInv'
  OBVIOUS
<1>1. ASSUME NEW p \in Procs, NEW c \in Cmds, Begin(p, c)
      PROVE  TimeInv'
  <2>1. /\ proc[p].pc = "idle" /\ proc'[p].cmd = c /\ proc'[p].call = calls + 1
        /\ \A q \in Procs : q # p => proc'[q] = proc[q]
        /\ UNCHANGED <<buffer, callback, basetime>>
        /\ c # ResetTS => resettime' = resettime
        /\ c = ResetTS => resettime' = calls + 1 /\ ~Resetting
    BY <1>1 DEF Begin, TypeOK, matching
  <2>2. calls \in Nat /\ buffer.call <= calls /\ callback.msg.call <= calls
    BY MaxCallsAssumption DEF TypeOK, MessageInv, Belongs
  <2>3. buffer.call # calls + 1 /\ callback.msg.call # calls + 1
    <3>1. buffer.call \in Nat /\ callback.msg.call \in Nat
      BY MaxCallsAssumption DEF TypeOK, Message
    <3>2. QED
      BY <2>2, <3>1
  <2>4. CASE c # ResetTS
    <3>1. \A q \in Procs : ResetsTime(q)' => ResetsTime(q) /\ proc'[q].call = proc[q].call
      BY <2>1, <2>4 DEF ResetsTime, Active
    <3>2. QED
      BY <2>1, <2>4, <3>1, TimeKept
  <2>5. CASE c = ResetTS
    <3>1. \A q \in Procs : ResetsTime(q)' => q = p
      BY <2>1, <2>5 DEF ResetsTime, Active, Resetting
    <3>2. QED
      BY <2>1, <2>3, <2>5, <3>1 DEF TimeInv
  <2>6. QED
    BY <2>4, <2>5
<1>2. ASSUME BeginElsewhere
      PROVE  TimeInv'
  <2>1. ~Resetting /\ proc' = proc
    BY <1>2 DEF BeginElsewhere
  <2>2. \A p \in Procs : ~ResetsTime(p)'
    BY <2>1 DEF Resetting, ResetsTime, Active
  <2>3. QED
    BY <2>2 DEF TimeInv
<1>3. ASSUME NEW p \in Procs, Proceed(p)
      PROVE  TimeInv'
  <2>1. UNCHANGED <<resettime, basetime>>
    BY <1>3, Zenon DEF Proceed, Down, DownInterrupted, SetId, InitCompletion, Send,
       Fails, Wait, WaitTimeout, Accept, Retry, DeadlinePassed, times
  <2>2. UNCHANGED <<buffer, callback>>
    BY <1>3, Zenon DEF Proceed, Down, DownInterrupted, SetId, InitCompletion, Send,
       Fails, Wait, WaitTimeout, Accept, Retry, DeadlinePassed, matching
  <2>3. Moves(p) \/ Leaves(p)
    <3>1. CASE Down(p) \/ SetId(p) \/ InitCompletion(p) \/ Send(p) \/ Wait(p) \/ Retry(p)
      <4>1. Active(p) /\ lost' = lost /\ calls' = calls
        BY <3>1 DEF Down, SetId, InitCompletion, Send, Wait, Retry, Skips, Active
      <4>2. \E q \in PC \ {"idle"} : Goto(p, q)
        BY <3>1 DEF Down, SetId, InitCompletion, Send, Wait, Retry, PC
      <4>3. QED
        BY <4>1, <4>2 DEF Moves
    <3>2. CASE \/ DownInterrupted(p) \/ Fails(p) \/ WaitTimeout(p) \/ Accept(p)
               \/ DeadlinePassed(p)
      BY <3>2 DEF DownInterrupted, Fails, WaitTimeout, Accept, DeadlinePassed, Skips,
                  Leaves, Active
    <3>3. QED
      BY <1>3, <3>1, <3>2 DEF Proceed
  <2>4. \A q \in Procs : ResetsTime(q)' => ResetsTime(q) /\ proc'[q].call = proc[q].call
    <3>1. CASE Moves(p)
      BY <3>1 DEF Moves, Goto, ResetsTime, Active, TypeOK
    <3>2. CASE Leaves(p)
      BY <3>2 DEF Leaves, Return, Idle, ResetsTime, Active, TypeOK
    <3>3. QED
      BY <2>3, <3>1, <3>2
  <2>5. QED
    BY <2>1, <2>2, <2>4, TimeKept
<1>4. ASSUME RxMessage
      PROVE  TimeInv'
  <2>1. /\ answers # << >> /\ callback'.msg = Head(answers)
        /\ UNCHANGED <<buffer, resettime, proc>>
        /\ basetime' = IF Head(answers).cmd = ResetTS /\ Head(answers).ok
                       THEN resettime ELSE basetime
    BY <1>4 DEF RxMessage
  <2>2. Belongs(Head(answers))
    <3>1. answers \in Seq(Message)
      BY DEF TypeOK
    <3>2. 1 \in 1..Len(answers) /\ Head(answers) = answers[1]
      BY <2>1, <3>1, TailElements
    <3>3. QED
      BY <3>2 DEF MessageInv
  <2>3. ASSUME NEW p \in Procs, ResetsTime(p)
        PROVE  /\ resettime' = proc'[p].call
               /\ \A m \in {buffer', callback'.msg} :
                      m.call = proc'[p].call /\ m.ok => basetime' = m.call
    <3>1. resettime = proc[p].call
      BY <2>3 DEF TimeInv
    <3>2. buffer.call = proc[p].call /\ buffer.ok => basetime = buffer.call
      BY <2>3 DEF TimeInv
    <3>3. Head(answers).call = proc[p].call => Head(answers).cmd = ResetTS
      BY <2>2, <2>3 DEF Belongs, ResetsTime
    <3>4. QED
      BY <2>1, <3>1, <3>2, <3>3
  <2>4. \A p \in Procs : ResetsTime(p)' <=> ResetsTime(p)
    BY <2>1 DEF ResetsTime, Active
  <2>5. QED
    BY <2>3, <2>4 DEF TimeInv
<1>5. ASSUME RxCompare \/ RxComplete
      PROVE  TimeInv'
  <2>1. /\ UNCHANGED <<proc, resettime, basetime>>
        /\ buffer' \in {buffer, callback.msg} /\ callback'.msg \in {callback.msg, None}
    BY <1>5 DEF RxCompare, RxComplete, times, TypeOK
  <2>2. ~None.ok
    BY DEF None
  <2>3. QED
    BY <2>1, <2>2, TimeKept DEF ResetsTime, Active
<1>6. ASSUME \/ DeviceSilent \/ UNCHANGED vars \/ \E ok \in BOOLEAN : DeviceAnswer(ok)
      PROVE  TimeInv'
  <2>1. UNCHANGED <<proc, resettime, basetime, buffer, callback>>
    BY <1>6 DEF DeviceSilent, DeviceAnswer, vars, matching, times
  <2>2. QED
    BY <2>1, TimeKept DEF ResetsTime, Active
<1>7. QED
  BY <1>1, <1>2, <1>3, <1>4, <1>5, <1>6 DEF Next, Callback

(* What a command returns with: kept by every step.                        *)
LEMMA NextReset ==
    ~SharedReset /\ TypeOK /\ TimeInv /\ ResetReturnsItsTime /\ [Next]_vars
        => ResetReturnsItsTime'
<1> SUFFICES ASSUME ~SharedReset, TypeOK, TimeInv, ResetReturnsItsTime, [Next]_vars
             PROVE  ResetReturnsItsTime'
  OBVIOUS
<1>1. ASSUME UNCHANGED last
      PROVE  ResetReturnsItsTime'
  BY <1>1 DEF ResetReturnsItsTime
<1>2. ASSUME NEW p \in Procs, NEW result, NEW of, Return(p, result, of),
             proc[p].cmd = ResetTS /\ result = "ok" /\ of.call = proc[p].call =>
                 basetime = proc[p].call
      PROVE  ResetReturnsItsTime'
  <2>1. /\ last'.result = result /\ last'.of = of /\ last'.time = basetime
        /\ last'.cmd = proc[p].cmd /\ last'.call = proc[p].call
    BY <1>2 DEF Return
  <2>2. QED
    BY <1>2, <2>1 DEF ResetReturnsItsTime
<1>3. ASSUME NEW p \in Procs, Accept(p)
      PROVE  ResetReturnsItsTime'
  <2>1. PICK m \in Copied :
            Return(p, IF m.cmd # proc[p].cmd THEN "failure"
                      ELSE IF m.ok THEN "ok" ELSE "nack", m)
    BY <1>3 DEF Accept
  <2>2. Active(p) /\ m \in {buffer, callback.msg}
    BY <1>3 DEF Accept, Active, Copied
  <2>3. ASSUME proc[p].cmd = ResetTS, m.ok, m.call = proc[p].call
        PROVE  basetime = proc[p].call
    BY <2>2, <2>3 DEF TimeInv, ResetsTime
  <2>4. QED
    BY <1>2, <2>1, <2>3
<1>4. ASSUME NEW p \in Procs,
             DownInterrupted(p) \/ Fails(p) \/ WaitTimeout(p) \/ DeadlinePassed(p)
      PROVE  ResetReturnsItsTime'
  <2>1. \E result \in {"failure", "timeout"} : Return(p, result, None)
    BY <1>4 DEF DownInterrupted, Fails, WaitTimeout, DeadlinePassed
  <2>2. QED
    BY <1>2, <2>1
<1>5. ASSUME NEW p \in Procs,
             Down(p) \/ SetId(p) \/ InitCompletion(p) \/ Send(p) \/ Wait(p) \/ Retry(p)
      PROVE  UNCHANGED last
  BY <1>5, Zenon DEF Down, SetId, InitCompletion, Send, Wait, Retry
<1>6. ASSUME \/ BeginElsewhere \/ Callback \/ DeviceSilent \/ UNCHANGED vars
             \/ \E ok \in BOOLEAN : DeviceAnswer(ok)
      PROVE  UNCHANGED last
  BY <1>6, Zenon DEF BeginElsewhere, Callback, RxMessage, RxCompare, RxComplete,
     DeviceSilent, DeviceAnswer, vars
<1>7. ASSUME NEW p \in Procs, NEW c \in Cmds, Begin(p, c)
      PROVE  ResetReturnsItsTime'
  BY <1>7 DEF Begin, Never, ResetReturnsItsTime
<1>8. QED
  BY <1>1, <1>3, <1>4, <1>5, <1>6, <1>7 DEF Next, Proceed

LEMMA InitTime == Init => MessageInv /\ TimeInv /\ ResetReturnsItsTime
<1> SUFFICES ASSUME Init
             PROVE  MessageInv /\ TimeInv /\ ResetReturnsItsTime
  OBVIOUS
<1>1. /\ calls = 0 /\ buffer = None /\ callback.msg = None /\ None.call = 0
      /\ \A p \in Procs : ~Active(p)
      /\ last.result = "none"
  BY DEF Init, Active, Idle, Never, None
<1>2. Len(requests) = 0 /\ Len(answers) = 0
  BY DEF Init
<1>3. MessageInv
  BY <1>1, <1>2 DEF MessageInv, Belongs
<1>4. TimeInv /\ ResetReturnsItsTime
  BY <1>1 DEF TimeInv, ResetsTime, ResetReturnsItsTime
<1>5. QED
  BY <1>3, <1>4

(* As long as calls of RESET_TS do not overlap, on this device or any      *)
(* other, the one that succeeds leaves its own time as the time base.      *)
THEOREM ResetsReturnTheirTime ==
    ASSUME ~SharedReset
    PROVE  Spec => []ResetReturnsItsTime
<1>1. TypeOK /\ NumberInv /\ TimeInv /\ MessageInv /\ [Next]_vars => TimeInv'
  BY NextTime
<1>2. TypeOK /\ TimeInv /\ ResetReturnsItsTime /\ [Next]_vars => ResetReturnsItsTime'
  BY NextReset
<1>3. QED
  BY <1>1, <1>2, InitTime, InitAnswers, NextNumber, NextMessage, ChannelTypes, PTL DEF Spec

-----------------------------------------------------------------------------
(* No answer is missed.  Requests and answers pass in order, and a request *)
(* is the last one while its command waits, so nothing follows its answer: *)
(* once the callback has gone through it, the wait has its completion and  *)
(* nothing writes to the buffer any more.                                  *)

Unsent(c) ==
    /\ \A i \in 1..Len(requests) : requests[i].call # c
    /\ \A i \in 1..Len(answers) : answers[i].call # c
    /\ callback.pc # "idle" => callback.msg.call # c
    /\ \A m \in seen : m.call # c

LastSent(c) ==
    /\ \A i \in 1..Len(requests) : requests[i].call = c => i = Len(requests)
    /\ \A i \in 1..Len(answers) : answers[i].call = c =>
           i = Len(answers) /\ requests = << >>
    /\ callback.pc # "idle" /\ callback.msg.call = c =>
           requests = << >> /\ answers = << >>
    /\ \A m \in seen : m.call = c => NothingSent

Heard(p) ==
    \A m \in seen : m.call = proc[p].call /\ Awaited(p, m) =>
        buffer = m /\ (proc[p].pc = "wait" => done > 0)

MissInv ==
    /\ \A m \in seen : m.call <= calls
    /\ \A p \in Procs : Active(p) /\ proc[p].pc \notin {"wait", "copy"} =>
           Unsent(proc[p].call)
    /\ \A p \in Procs : proc[p].pc \in {"init", "send", "wait", "copy"} =>
           rx_id = proc[p].cmd
    /\ \A p \in Procs : proc[p].pc \in {"wait", "copy"} =>
           LastSent(proc[p].call) /\ Heard(p)

(* A step of the callback or the device, or one that sends nothing.        *)
Channel ==
    \/ Callback \/ DeviceSilent \/ \E ok \in BOOLEAN : DeviceAnswer(ok)
    \/ UNCHANGED <<requests, answers, seen, callback>>

LEMMA UnsentStays ==
    ASSUME TypeOK, Channel, NEW c \in Nat, Unsent(c)
    PROVE  Unsent(c)'
<1>0. /\ requests \in Seq([cmd : Cmds, call : 0..MaxCalls])
      /\ answers \in Seq(Message)
  BY DEF TypeOK
<1>1. CASE RxMessage
  <2>1. /\ answers # << >> /\ callback' = [pc |-> "compare", msg |-> Head(answers)]
        /\ answers' = Tail(answers) /\ UNCHANGED <<requests, seen>>
    BY <1>1 DEF RxMessage
  <2>2. QED
    BY <1>0, <2>1, TailElements DEF Unsent
<1>2. CASE RxCompare
  BY <1>2 DEF RxCompare, Unsent, TypeOK
<1>3. CASE RxComplete
  BY <1>3 DEF RxComplete, Unsent, TypeOK
<1>4. CASE DeviceSilent
  <2>1. /\ requests # << >> /\ requests' = Tail(requests)
        /\ UNCHANGED <<answers, seen, callback>>
    BY <1>4 DEF DeviceSilent, matching
  <2>2. \A i \in 1..Len(requests') : requests'[i].call # c
    BY <1>0, <2>1, TailElements DEF Unsent
  <2>3. QED
    BY <2>1, <2>2 DEF Unsent
<1>5. ASSUME NEW ok \in BOOLEAN, DeviceAnswer(ok)
      PROVE  Unsent(c)'
  <2> DEFINE r == Head(requests)
             m == [cmd |-> r.cmd, call |-> r.call, ok |-> ok]
  <2>1. /\ requests # << >> /\ requests' = Tail(requests)
        /\ answers' = Append(answers, m) /\ UNCHANGED <<seen, callback>>
    BY <1>5 DEF DeviceAnswer, matching
  <2>2. r \in [cmd : Cmds, call : 0..MaxCalls] /\ r.call # c
    <3>1. 1 \in 1..Len(requests) /\ r = requests[1]
      BY <1>0, <2>1, TailElements
    <3>2. r \in [cmd : Cmds, call : 0..MaxCalls]
      BY <1>0, <2>1, HeadAndTail
    <3>3. QED
      BY <3>1, <3>2 DEF Unsent
  <2>3. m \in Message /\ m.call # c
    BY <2>2 DEF Message
  <2>4. \A i \in 1..Len(answers') : answers'[i].call # c
    <3> HIDE DEF m
    <3>1. QED
      BY <1>0, <2>1, <2>3, AppendElements DEF Unsent
  <2>5. \A i \in 1..Len(requests') : requests'[i].call # c
    BY <1>0, <2>1, TailElements DEF Unsent
  <2>6. QED
    BY <2>1, <2>4, <2>5 DEF Unsent
<1>6. CASE UNCHANGED <<requests, answers, seen, callback>>
  BY <1>6 DEF Unsent
<1>7. QED
  BY <1>1, <1>2, <1>3, <1>4, <1>5, <1>6 DEF Channel, Callback

(* The last element of a sequence is the last of its tail.                 *)
LEMMA LastOfTail ==
    ASSUME NEW S, NEW s \in Seq(S), s # << >>, NEW P,
           \A i \in 1..Len(s) : i \in P => i = Len(s)
    PROVE  /\ Head(s) = s[1] /\ Len(Tail(s)) = Len(s) - 1
           /\ 1 \in P => Tail(s) = << >>
           /\ \A i \in 1..Len(Tail(s)) :
                  /\ Tail(s)[i] = s[i + 1] /\ i + 1 \in 1..Len(s)
                  /\ i + 1 \in P => i = Len(Tail(s))
OBVIOUS

LEMMA LastSentStays ==
    ASSUME TypeOK, Channel, NEW c \in Nat, LastSent(c)
    PROVE  LastSent(c)'
<1> USE DEF LastSent, NothingSent
<1>0. /\ requests \in Seq([cmd : Cmds, call : 0..MaxCalls])
      /\ answers \in Seq(Message)
  BY DEF TypeOK
<1>1. CASE RxMessage
  <2>1. /\ answers # << >> /\ callback' = [pc |-> "compare", msg |-> Head(answers)]
        /\ answers' = Tail(answers) /\ UNCHANGED <<requests, seen>>
    BY <1>1 DEF RxMessage
  <2> DEFINE P == {i \in 1..Len(answers) : answers[i].call = c}
  <2>2. \A i \in 1..Len(answers) : i \in P => i = Len(answers)
    OBVIOUS
  <2>3. /\ Head(answers) = answers[1] /\ Len(Tail(answers)) = Len(answers) - 1
        /\ 1 \in P => Tail(answers) = << >>
        /\ \A i \in 1..Len(Tail(answers)) :
               /\ Tail(answers)[i] = answers[i + 1] /\ i + 1 \in 1..Len(answers)
               /\ i + 1 \in P => i = Len(Tail(answers))
    <3> HIDE DEF P
    <3>1. QED
      BY <1>0, <2>1, <2>2, LastOfTail
  <2>4. 1 \in 1..Len(answers)
    BY <1>0, <2>1
  <2>5. \A i \in 1..Len(answers') : answers'[i].call = c =>
            i = Len(answers') /\ requests' = << >>
    BY <2>1, <2>3
  <2>6. callback'.msg.call = c => requests' = << >> /\ answers' = << >>
    BY <2>1, <2>3, <2>4
  <2>7. \A m \in seen' : m.call # c
    BY <2>1
  <2>8. QED
    BY <2>1, <2>5, <2>6, <2>7
<1>2. CASE RxCompare
  <2>1. /\ callback.pc = "compare" /\ UNCHANGED <<requests, answers>>
        /\ callback'.pc # "idle" => callback'.msg = callback.msg /\ seen' = seen
        /\ seen' # seen => callback'.pc = "idle" /\ seen' = seen \cup {callback.msg}
    BY <1>2 DEF RxCompare, TypeOK
  <2>2. \A m \in seen : m.call # c
    BY <2>1
  <2>3. QED
    BY <2>1, <2>2
<1>3. CASE RxComplete
  <2>1. /\ callback.pc = "copying" /\ UNCHANGED <<requests, answers>>
        /\ callback'.pc = "idle" /\ seen' = seen \cup {callback.msg}
    BY <1>3 DEF RxComplete
  <2>2. \A m \in seen : m.call # c
    BY <2>1
  <2>3. QED
    BY <2>1, <2>2
<1>4. ASSUME requests # << >>, requests' = Tail(requests)
      PROVE  /\ \A i \in 1..Len(requests') : requests'[i].call = c => i = Len(requests')
             /\ \A i \in 1..Len(answers) : answers[i].call # c
             /\ callback.pc # "idle" => callback.msg.call # c
             /\ \A m \in seen : m.call # c
             /\ Head(requests).call = c => requests' = << >>
  <2> DEFINE P == {i \in 1..Len(requests) : requests[i].call = c}
  <2>1. \A i \in 1..Len(requests) : i \in P => i = Len(requests)
    OBVIOUS
  <2>2. /\ Head(requests) = requests[1] /\ Len(Tail(requests)) = Len(requests) - 1
        /\ 1 \in P => Tail(requests) = << >>
        /\ \A i \in 1..Len(Tail(requests)) :
               /\ Tail(requests)[i] = requests[i + 1] /\ i + 1 \in 1..Len(requests)
               /\ i + 1 \in P => i = Len(Tail(requests))
    <3> HIDE DEF P
    <3>1. QED
      BY <1>0, <1>4, <2>1, LastOfTail
  <2>3. 1 \in 1..Len(requests)
    BY <1>0, <1>4
  <2>4. QED
    BY <1>4, <2>2, <2>3
<1>5. CASE DeviceSilent
  BY <1>4, <1>5 DEF DeviceSilent, matching
<1>6. ASSUME NEW ok \in BOOLEAN, DeviceAnswer(ok)
      PROVE  LastSent(c)'
  <2> DEFINE r == Head(requests)
             m == [cmd |-> r.cmd, call |-> r.call, ok |-> ok]
  <2>1. /\ requests # << >> /\ requests' = Tail(requests)
        /\ answers' = Append(answers, m) /\ UNCHANGED <<seen, callback>>
    BY <1>6 DEF DeviceAnswer, matching
  <2>2. r \in [cmd : Cmds, call : 0..MaxCalls]
    BY <1>0, <2>1, HeadAndTail
  <2>3. m \in Message /\ m.call = r.call
    BY <2>2 DEF Message
  <2> HIDE DEF m
  <2>4. /\ Len(answers') = Len(answers) + 1 /\ Len(answers) \in Nat
        /\ answers'[Len(answers) + 1] = m
        /\ \A i \in 1..Len(answers) : answers'[i] = answers[i]
    BY <1>0, <2>1, <2>3
  <2>5. ASSUME NEW i \in 1..Len(answers'), answers'[i].call = c
        PROVE  i = Len(answers') /\ requests' = << >>
    <3>1. i \notin 1..Len(answers)
      BY <1>4, <2>1, <2>4, <2>5
    <3>2. i = Len(answers')
      BY <2>4, <3>1
    <3>3. QED
      BY <1>4, <2>1, <2>3, <2>4, <2>5, <3>2
  <2>6. QED
    BY <1>4, <2>1, <2>5
<1>7. CASE UNCHANGED <<requests, answers, seen, callback>>
  BY <1>7
<1>8. QED
  BY <1>1, <1>2, <1>3, <1>5, <1>6, <1>7 DEF Channel, Callback

(* A new call has a number that no message has.                            *)
LEMMA NewIsUnsent ==
    ASSUME TypeOK, MessageInv, MissInv
    PROVE  Unsent(calls + 1)
<1>1. calls \in Nat /\ \A m \in Message : m.call \in Nat
  BY MaxCallsAssumption DEF TypeOK, Message
<1>2. \A i \in 1..Len(requests) : requests[i].call <= calls
  BY DEF MessageInv, Belongs
<1>3. \A i \in 1..Len(requests) : requests[i].call \in Nat
  <2> DEFINE R == [cmd : Cmds, call : 0..MaxCalls]
  <2>1. requests \in Seq(R)
    BY DEF TypeOK
  <2>2. \A r \in R : r.call \in Nat
    BY MaxCallsAssumption
  <2> HIDE DEF R
  <2>3. QED
    BY <2>1, <2>2
<1>4. \A i \in 1..Len(answers) : answers[i].call <= calls /\ answers[i].call \in Nat
  BY <1>1 DEF MessageInv, Belongs, TypeOK
<1>5. callback.msg.call <= calls /\ callback.msg.call \in Nat
  BY <1>1 DEF MessageInv, Belongs, TypeOK
<1>6. \A m \in seen : m.call <= calls /\ m.call \in Nat
  BY <1>1 DEF MissInv, TypeOK
<1>7. QED
  BY <1>1, <1>2, <1>3, <1>4, <1>5, <1>6 DEF Unsent

(* An answer that a command awaits is in the buffer when it is looked at,  *)
(* and is accepted.                                                        *)
LEMMA HeardStays ==
    ASSUME TypeOK, NumberInv, MessageInv, MissInv, [Next]_vars, OneCommandAtATime,
           NEW p \in Procs, proc[p].pc \in {"wait", "copy"},
           proc'[p].pc \in {"wait", "copy"}
    PROVE  Heard(p)'
<1>0. /\ LastSent(proc[p].call) /\ Heard(p) /\ rx_id = proc[p].cmd
      /\ done \in Nat /\ Active(p) /\ Holding(p)
      /\ proc \in [Procs -> [pc : PC, cmd : Cmds, call : 0..MaxCalls]]
  BY DEF MissInv, TypeOK, Active, Holding, PC
<1>1. \A q \in Procs : q # p => proc[q].pc \in {"idle", "down"}
  BY <1>0, AloneHolding
<1>2. ASSUME UNCHANGED <<buffer, done, seen, proc>>
      PROVE  Heard(p)'
  BY <1>0, <1>2 DEF Heard, Awaited
<1>3. ASSUME NEW q \in Procs, q # p, proc'[p] = proc[p],
             UNCHANGED <<buffer, done, seen>>
      PROVE  Heard(p)'
  BY <1>0, <1>3 DEF Heard, Awaited
<1>4. ASSUME NEW q \in Procs, NEW c \in Cmds, Begin(q, c)
      PROVE  Heard(p)'
  <2>1. q # p /\ proc'[p] = proc[p]
    BY <1>0, <1>4 DEF Begin
  <2>2. UNCHANGED <<buffer, done, seen>>
    BY <1>4 DEF Begin, matching, device
  <2>3. QED
    BY <1>3, <2>1, <2>2
<1>5. ASSUME NEW q \in Procs, Down(q) \/ DownInterrupted(q)
      PROVE  Heard(p)'
  <2>1. q # p
    BY <1>5 DEF Down, DownInterrupted
  <2>2. UNCHANGED <<buffer, done, seen>> /\ proc'[p] = proc[p]
    BY <1>0, <1>5, <2>1 DEF Down, DownInterrupted, Goto, Return, matching, device
  <2>3. QED
    BY <1>3, <2>1, <2>2
<1>6. ASSUME NEW q \in Procs,
             \/ SetId(q) \/ InitCompletion(q) \/ Send(q) \/ Fails(q) \/ WaitTimeout(q)
             \/ Accept(q) \/ DeadlinePassed(q)
      PROVE  FALSE
  <2>1. Holding(q)
    BY <1>6 DEF SetId, InitCompletion, Send, Fails, WaitTimeout, Accept,
                DeadlinePassed, Skips, Holding
  <2>2. q = p
    BY <1>1, <2>1 DEF Holding
  <2>3. proc'[p].pc \in {"init", "send", "idle"} \/ proc[p].pc = "send"
    BY <1>0, <1>6, <2>2 DEF SetId, InitCompletion, Send, Fails, WaitTimeout, Accept,
                DeadlinePassed, Goto, Return, Idle
  <2>4. QED
    BY <2>3
<1>7. ASSUME NEW q \in Procs, Wait(q)
      PROVE  Heard(p)'
  <2>1. q = p
    BY <1>1, <1>7 DEF Wait
  <2>2. /\ proc'[p].pc = "copy" /\ proc'[p].cmd = proc[p].cmd
        /\ proc'[p].call = proc[p].call /\ UNCHANGED <<buffer, seen>>
    BY <1>0, <1>7, <2>1 DEF Wait, Goto, device
  <2>3. QED
    BY <1>0, <2>2 DEF Heard, Awaited
<1>8. ASSUME NEW q \in Procs, Retry(q)
      PROVE  Heard(p)'
  <2>1. q = p
    BY <1>1, <1>8 DEF Retry, Skips
  <2>2. /\ proc'[p].pc = "wait" /\ proc'[p].cmd = proc[p].cmd
        /\ proc'[p].call = proc[p].call /\ UNCHANGED <<buffer, seen>>
    BY <1>0, <1>8, <2>1 DEF Retry, Goto, device, matching
  <2>3. \A m \in seen : ~(m.call = proc[p].call /\ Awaited(p, m))
    <3>1. SUFFICES ASSUME NEW m \in seen, m.call = proc[p].call, Awaited(p, m)
                   PROVE  FALSE
      OBVIOUS
    <3>2. callback.pc = "idle" /\ buffer = m
      BY <1>0, <3>1 DEF LastSent, NothingSent, Heard
    <3>3. Copied = {m}
      BY <3>2 DEF Copied
    <3>4. QED
      BY <1>8, <2>1, <3>1, <3>3 DEF Retry, Skips
  <2>4. QED
    BY <2>2, <2>3 DEF Heard, Awaited
<1>9. CASE RxCompare
  <2>1. UNCHANGED <<buffer, done, proc>> /\ callback.pc = "compare"
    BY <1>9 DEF RxCompare
  <2>2. CASE seen' = seen
    BY <1>2, <2>1, <2>2
  <2>3. CASE seen' # seen
    <3>1. seen' = seen \cup {callback.msg} /\ rx_id # callback.msg.cmd
      BY <1>9, <2>3 DEF RxCompare
    <3>2. callback.msg.call # proc[p].call
      BY <1>0, <3>1 DEF MessageInv, Belongs
    <3>3. \A m \in seen' : m.call # proc[p].call
      BY <1>0, <2>1, <3>1, <3>2 DEF LastSent, NothingSent
    <3>4. QED
      BY <2>1, <3>3 DEF Heard
  <2>4. QED
    BY <2>2, <2>3
<1>10. CASE RxComplete
  <2>1. /\ proc' = proc /\ callback.pc = "copying" /\ buffer' = callback.msg
        /\ done' = done + 1 /\ seen' = seen \cup {callback.msg}
    BY <1>10 DEF RxComplete
  <2>2. \A m \in seen : m.call # proc[p].call
    BY <1>0, <2>1 DEF LastSent, NothingSent
  <2>3. \A m \in seen' : m.call = proc'[p].call => buffer' = m /\ done' > 0
    BY <1>0, <2>1, <2>2
  <2>4. QED
    BY <2>3 DEF Heard
<1>11. ASSUME BeginElsewhere \/ RxMessage \/ DeviceSilent \/ UNCHANGED vars
                 \/ \E ok \in BOOLEAN : DeviceAnswer(ok)
      PROVE  Heard(p)'
  <2>1. UNCHANGED <<buffer, done, seen, proc>>
    BY <1>11 DEF BeginElsewhere, RxMessage, DeviceSilent, DeviceAnswer, vars, matching,
                 device
  <2>2. QED
    BY <1>2, <2>1
<1>12. QED
  BY <1>4, <1>5, <1>6, <1>7, <1>8, <1>9, <1>10, <1>11 DEF Next, Proceed, Callback

(* A command goes on by its own steps only; the id to wait for is set by   *)
(* the one that holds the semaphore.                                       *)
LEMMA OwnStep ==
    ASSUME TypeOK, [Next]_vars, NEW p \in Procs
    PROVE  \/ proc'[p] = proc[p] /\ (rx_id' = rx_id \/ \E q \in Procs : q # p /\ SetId(q))
           \/ \E c \in Cmds : Begin(p, c)
           \/ Proceed(p)
<1>0. proc \in [Procs -> [pc : PC, cmd : Cmds, call : 0..MaxCalls]]
  BY DEF TypeOK, PC
<1>1. ASSUME NEW q \in Procs, NEW c \in Cmds, Begin(q, c), q # p
      PROVE  proc'[p] = proc[p] /\ rx_id' = rx_id
  BY <1>0, <1>1 DEF Begin, matching
<1>2. ASSUME NEW q \in Procs, q # p,
             \/ Down(q) \/ DownInterrupted(q) \/ InitCompletion(q) \/ Send(q) \/ Fails(q)
             \/ Wait(q) \/ WaitTimeout(q) \/ Accept(q) \/ Retry(q) \/ DeadlinePassed(q)
      PROVE  proc'[p] = proc[p] /\ rx_id' = rx_id
  BY <1>0, <1>2 DEF Down, DownInterrupted, InitCompletion, Send, Fails, Wait, WaitTimeout,
                    Accept, Retry, DeadlinePassed, Goto, Return, matching
<1>3. ASSUME NEW q \in Procs, q # p, SetId(q)
      PROVE  proc'[p] = proc[p]
  BY <1>0, <1>3 DEF SetId, Goto
<1>4. ASSUME BeginElsewhere \/ Callback \/ DeviceSilent \/ UNCHANGED vars
                \/ \E ok \in BOOLEAN : DeviceAnswer(ok)
      PROVE  proc'[p] = proc[p] /\ rx_id' = rx_id
  BY <1>4 DEF BeginElsewhere, Callback, RxMessage, RxCompare, RxComplete, DeviceSilent,
              DeviceAnswer, vars, matching
<1>5. QED
  BY <1>1, <1>2, <1>3, <1>4 DEF Next, Proceed

LEMMA OwnMove ==
    ASSUME TypeOK, NEW p \in Procs, Proceed(p), proc'[p].pc # "idle"
    PROVE  /\ Active(p) /\ proc'[p].call = proc[p].call /\ proc'[p].cmd = proc[p].cmd
           /\ proc'[p].pc \in {"wait", "copy"} =>
                  proc[p].pc \in {"wait", "copy"} \/ Send(p)
           /\ proc'[p].pc \notin {"wait", "copy"} => proc[p].pc \notin {"wait", "copy"}
           /\ proc'[p].pc \in {"init", "send", "wait", "copy"} =>
                  \/ rx_id' = proc[p].cmd
                  \/ proc[p].pc \in {"init", "send", "wait", "copy"} /\ rx_id' = rx_id
<1>0. proc \in [Procs -> [pc : PC, cmd : Cmds, call : 0..MaxCalls]]
  BY DEF TypeOK, PC
<1>1. CASE Down(p) \/ SetId(p) \/ InitCompletion(p)
  BY <1>0, <1>1 DEF Down, SetId, InitCompletion, Goto, Active, matching
<1>2. CASE Send(p)
  BY <1>0, <1>2 DEF Send, Goto, Active, matching
<1>3. CASE Wait(p) \/ Retry(p)
  BY <1>0, <1>3 DEF Wait, Retry, Skips, Goto, Active, matching
<1>4. CASE DownInterrupted(p) \/ Fails(p) \/ WaitTimeout(p) \/ Accept(p)
              \/ DeadlinePassed(p)
  BY <1>0, <1>4 DEF DownInterrupted, Fails, WaitTimeout, Accept, DeadlinePassed, Return,
                    Idle
<1>5. QED
  BY <1>1, <1>2, <1>3, <1>4 DEF Proceed

LEMMA NextMiss ==
    TypeOK /\ OneCommandAtATime /\ NumberInv /\ MessageInv /\ MissInv /\ [Next]_vars
        => MissInv'
<1> SUFFICES ASSUME TypeOK, OneCommandAtATime, NumberInv, MessageInv, MissInv,
                    [Next]_vars
             PROVE  MissInv'
  OBVIOUS
<1>0. /\ calls \in Nat /\ calls' \in Nat /\ calls <= calls'
      /\ proc \in [Procs -> [pc : PC, cmd : Cmds, call : 0..MaxCalls]]
      /\ \A p \in Procs : proc[p].call \in Nat
  <2>1. calls \in Nat /\ proc \in [Procs -> [pc : PC, cmd : Cmds, call : 0..MaxCalls]]
    BY MaxCallsAssumption DEF TypeOK, PC
  <2>2. calls' \in {calls, calls + 1}
    BY StepKinds DEF Begin, Moves, Leaves, Outside
  <2>3. QED
    BY <2>1, <2>2, MaxCallsAssumption
<1>1. ASSUME NEW q \in Procs, Send(q)
      PROVE  MissInv'
  <2>1. /\ proc[q].pc = "send" /\ proc'[q].pc = "wait" /\ proc'[q].cmd = proc[q].cmd
        /\ proc'[q].call = proc[q].call
        /\ \A p \in Procs : p # q => proc'[p] = proc[p]
        /\ requests' = Append(requests, [cmd |-> proc[q].cmd, call |-> proc[q].call])
        /\ UNCHANGED <<answers, seen, rx_id, callback, calls>>
    BY <1>0, <1>1 DEF Send, Goto, matching
  <2>2. \A p \in Procs : p # q => proc[p].pc \in {"idle", "down"}
    BY <1>0, <2>1, AloneHolding DEF Holding, PC
  <2> DEFINE r == [cmd |-> proc[q].cmd, call |-> proc[q].call]
  <2>3. /\ Len(requests') = Len(requests) + 1 /\ requests'[Len(requests) + 1] = r
        /\ \A i \in 1..Len(requests) : requests'[i] = requests[i]
        /\ Len(requests) \in Nat
    <3>1. r \in [cmd : Cmds, call : 0..MaxCalls]
      BY <1>0
    <3>2. requests \in Seq([cmd : Cmds, call : 0..MaxCalls])
      BY DEF TypeOK
    <3> HIDE DEF r
    <3>3. QED
      BY <2>1, <3>1, <3>2 DEF r
  <2>4. Unsent(proc[q].call)
    BY <2>1 DEF MissInv, Active
  <2>5. LastSent(proc[q].call)'
    BY <2>1, <2>3, <2>4 DEF Unsent, LastSent
  <2>6. Heard(q)'
    BY <2>1, <2>4 DEF Heard, Unsent
  <2>7. ASSUME NEW p \in Procs, Active(p)', proc'[p].pc \notin {"wait", "copy"}
        PROVE  Unsent(proc[p].call)'
    <3>1. p # q /\ Active(p) /\ proc'[p] = proc[p] /\ proc[p].pc = "down"
      BY <2>1, <2>2, <2>7 DEF Active
    <3>2. proc[p].call # proc[q].call
      BY <2>1, <3>1 DEF NumberInv, Active
    <3>3. Unsent(proc[p].call)
      BY <3>1 DEF MissInv
    <3>4. \A i \in 1..Len(requests') : requests'[i].call # proc[p].call
      BY <2>3, <3>2, <3>3 DEF Unsent
    <3>5. QED
      BY <2>1, <3>1, <3>3, <3>4 DEF Unsent
  <2>8. QED
    BY <1>0, <2>1, <2>2, <2>5, <2>6, <2>7 DEF MissInv, Active
<1>2. ASSUME ~\E q \in Procs : Send(q)
      PROVE  MissInv'
  <2>1. Channel
    BY <1>2 DEF Next, Proceed, Begin, BeginElsewhere, Down, DownInterrupted, SetId,
                InitCompletion, Fails, Wait, WaitTimeout, Accept, Retry, DeadlinePassed,
                Channel, vars, matching, device
  <2>2. \A m \in seen' : m.call <= calls'
    <3>1. seen' \subseteq seen \cup {callback.msg}
      BY <2>1 DEF Channel, Callback, RxMessage, RxCompare, RxComplete, DeviceSilent,
                  DeviceAnswer
    <3>2. \A m \in seen \cup {callback.msg} : m.call <= calls /\ m.call \in Nat
      BY MaxCallsAssumption DEF MissInv, MessageInv, Belongs, TypeOK, Message
    <3>3. QED
      BY <1>0, <3>1, <3>2
  <2>3. ASSUME NEW p \in Procs, Active(p)', proc'[p].pc \notin {"wait", "copy"}
        PROVE  Unsent(proc[p].call)'
    <3>1. CASE \E c \in Cmds : Begin(p, c)
      <4>1. proc'[p].call = calls + 1
        BY <1>0, <3>1 DEF Begin
      <4>2. QED
        BY <1>0, <2>1, <4>1, NewIsUnsent, UnsentStays
    <3>2. CASE proc'[p] = proc[p] \/ Proceed(p)
      <4>1. /\ Active(p) /\ proc[p].pc \notin {"wait", "copy"}
            /\ proc'[p].call = proc[p].call
        BY <2>3, <3>2, OwnMove DEF Active
      <4>2. Unsent(proc[p].call)
        BY <4>1 DEF MissInv
      <4>3. QED
        BY <1>0, <2>1, <4>1, <4>2, UnsentStays
    <3>3. QED
      BY <3>1, <3>2, OwnStep
  <2>4. ASSUME NEW p \in Procs, proc'[p].pc \in {"init", "send", "wait", "copy"}
        PROVE  rx_id' = proc'[p].cmd
    <3>1. CASE \E c \in Cmds : Begin(p, c)
      BY <1>0, <2>4, <3>1 DEF Begin
    <3>2. CASE proc'[p] = proc[p] /\ rx_id' = rx_id
      BY <2>4, <3>2 DEF MissInv
    <3>3. ASSUME NEW q \in Procs, q # p, SetId(q), proc'[p] = proc[p]
          PROVE  FALSE
      BY <2>4, <3>3 DEF SetId, OneCommandAtATime, Holding
    <3>4. CASE Proceed(p)
      BY <2>4, <3>4, OwnMove DEF MissInv
    <3>5. QED
      BY <3>1, <3>2, <3>3, <3>4, OwnStep
  <2>5. ASSUME NEW p \in Procs, proc'[p].pc \in {"wait", "copy"}
        PROVE  LastSent(proc[p].call)' /\ Heard(p)'
    <3>1. CASE \E c \in Cmds : Begin(p, c)
      BY <1>0, <2>5, <3>1 DEF Begin
    <3>2. CASE proc'[p] = proc[p] \/ Proceed(p)
      <4>1. proc[p].pc \in {"wait", "copy"} /\ proc'[p].call = proc[p].call
        BY <1>2, <2>5, <3>2, OwnMove
      <4>2. LastSent(proc[p].call)
        BY <4>1 DEF MissInv
      <4>3. LastSent(proc[p].call)'
        BY <1>0, <2>1, <4>1, <4>2, LastSentStays
      <4>4. QED
        BY <2>5, <4>1, <4>3, HeardStays
    <3>3. QED
      BY <3>1, <3>2, OwnStep
  <2>6. QED
    BY <2>2, <2>3, <2>4, <2>5 DEF MissInv
<1>3. QED
  BY <1>1, <1>2

LEMMA InitMiss == Init => MissInv
<1> SUFFICES ASSUME Init
               PROVE  MissInv
  OBVIOUS
<1>2. \A p \in Procs : proc[p].pc = "idle"
  BY DEF Init, Idle
<1>3. seen = {}
  BY DEF Init, device
<1>4. QED
  BY <1>2, <1>3 DEF MissInv, Active

(* wait_for_completion_timeout does not run out while the answer that the  *)
(* command awaits has already been dispatched.                             *)
THEOREM AnswersAreNotMissed == Spec => NoAnswerMissed
<1>1. TypeOK /\ MissInv /\ [Next]_vars =>
          [\A p \in Procs : WaitTimeout(p) =>
              \A m \in seen : m.call = proc[p].call => ~Awaited(p, m)]_vars
  BY DEF MissInv, Heard, WaitTimeout, TypeOK
<1>2. Init => NumberInv /\ MessageInv
  BY InitAnswers, InitTime
<1>3. TypeOK /\ OneCommandAtATime /\ TypeOK' /\ NumberInv /\ MessageInv /\ MissInv
          /\ [Next]_vars
          => NumberInv' /\ MessageInv' /\ MissInv'
  BY NextNumber, NextMessage, NextMiss
<1>4. QED
  BY <1>1, <1>2, <1>3, InitMiss, ChannelTypes, SemaphoreIsExclusive, PTL
     DEF Spec, NoAnswerMissed
=============================================================================
