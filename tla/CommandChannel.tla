--------------------------- MODULE CommandChannel ---------------------------
(***************************************************************************)
(* The command channel of one device: apt_usbtrx_send_msg_sync and         *)
(* apt_usbtrx_wait_msg_timeout, which every command function of the driver *)
(* calls one after the other, the callback that matches answers to the     *)
(* command that waits (apt_usbtrx_dispatch_msg), and RESET_TS, which also  *)
(* leaves a time in a variable that all devices share.                     *)
(*                                                                         *)
(* send_msg_sem admits one command at a time, but not one answer: a        *)
(* command that gives up leaves a request behind that the device may still *)
(* answer, and the callback takes no lock.                                 *)
(*                                                                         *)
(* Calls are numbered in the order in which they begin; an answer carries  *)
(* the number of the call whose request it answers (the real message only  *)
(* carries the command).  The number of a RESET_TS call also stands for    *)
(* the time that the call reads from the clock.  The device has been       *)
(* initialised: rx_ongoing is true.                                        *)
(***************************************************************************)
EXTENDS Integers, Sequences

CONSTANTS
    Procs,              \* processes that issue commands
    AckCmds,            \* commands answered by ACK or NACK
    GetCmds,            \* commands answered by a Response message (or NACK)
    ResetTS,            \* the command of RESET_TS
    SharedReset,        \* RESET_TS calls overlap, here or on other devices
    MaxCalls            \* bound: commands issued

ASSUME CmdsAssumption == ResetTS \in AckCmds /\ AckCmds \cap GetCmds = {}
ASSUME SharedResetAssumption == SharedReset \in BOOLEAN
ASSUME MaxCallsAssumption == MaxCalls \in Nat

VARIABLES
    sem,                \* send_msg_sem
    rx_id,              \* rx_complete.id, the command of the last caller
    done,               \* rx_complete.complete: completions not yet consumed
    buffer,             \* rx_complete.buffer
    callback,           \* apt_usbtrx_dispatch_msg, for an ACK/NACK/Response
    resettime,          \* g_resettime, one for all devices
    basetime,           \* dev->basetime
    proc,               \* the command each process is in the middle of
    last,               \* history: how the last command ended, until another begins
    calls,              \* number of commands begun
    lost,               \* history: requests sent by calls that ended otherwise
                        \* than with their answer
    requests, answers,  \* what the device has yet to read, and the host
    seen                \* history: answers the callback has gone through

matching == <<rx_id, done, buffer, callback>>
times == <<resettime, basetime>>
device == <<requests, answers, seen>>
vars == <<sem, matching, times, proc, last, calls, lost, device>>

Cmds == AckCmds \cup GetCmds
None == [cmd |-> ResetTS, call |-> 0, ok |-> FALSE]
Idle == [pc |-> "idle", cmd |-> ResetTS, call |-> 0]
Never == [cmd |-> ResetTS, call |-> 0, result |-> "none", of |-> None, time |-> 0]

Message == [cmd : Cmds, call : 0..MaxCalls, ok : BOOLEAN]

(* apt_usbtrx_init_usbtrx_data; the clock has not been read yet.           *)
Init ==
    /\ sem = 1
    /\ rx_id = ResetTS
    /\ done = 0
    /\ buffer = None
    /\ callback = [pc |-> "idle", msg |-> None]
    /\ resettime = 0 /\ basetime = 0
    /\ proc = [p \in Procs |-> Idle]
    /\ last = Never
    /\ calls = 0
    /\ lost = {}
    /\ requests = << >> /\ answers = << >>
    /\ seen = {}

-----------------------------------------------------------------------------
(* A command function                                                      *)

(* Process p goes on to q.                                                 *)
Goto(p, q) == proc' = [proc EXCEPT ![p].pc = q]

(* The command of p ends: with the answer `of', or without one.            *)
Return(p, result, of) ==
    /\ proc' = [proc EXCEPT ![p] = Idle]
    /\ last' = [cmd |-> proc[p].cmd, call |-> proc[p].call,
                result |-> result, of |-> of, time |-> basetime]
    /\ lost' = IF proc[p].pc \in {"down", "send"} \/ of.call = proc[p].call
               THEN lost ELSE lost \cup {proc[p].call}

Resetting == \E p \in Procs : proc[p].pc # "idle" /\ proc[p].cmd = ResetTS

(* The message is packed.  RESET_TS first stores the time, and it holds no *)
(* semaphore yet.                                                          *)
Begin(p, c) ==
    /\ proc[p].pc = "idle"
    /\ calls < MaxCalls
    /\ c = ResetTS => SharedReset \/ ~Resetting
    /\ calls' = calls + 1
    /\ proc' = [proc EXCEPT ![p] = [pc |-> "down", cmd |-> c, call |-> calls + 1]]
    /\ resettime' = IF c = ResetTS THEN calls + 1 ELSE resettime
    /\ last' = Never
    /\ UNCHANGED <<sem, matching, basetime, lost, device>>

(* The same store by RESET_TS on another device.                           *)
BeginElsewhere ==
    /\ SharedReset \/ ~Resetting
    /\ calls < MaxCalls
    /\ calls' = calls + 1
    /\ resettime' = calls + 1
    /\ UNCHANGED <<sem, matching, basetime, proc, last, lost, device>>

(* apt_usbtrx_send_msg_sync: take the semaphore ...                        *)
Down(p) ==
    /\ proc[p].pc = "down"
    /\ sem > 0
    /\ sem' = sem - 1
    /\ Goto(p, "set")
    /\ UNCHANGED <<matching, times, last, calls, lost, device>>

(* (a signal arrives instead: RESULT_Failure, nothing was sent)            *)
DownInterrupted(p) ==
    /\ proc[p].pc = "down"
    /\ Return(p, "failure", None)
    /\ UNCHANGED <<sem, matching, times, calls, device>>

(* ... say what to wait for ...                                            *)
SetId(p) ==
    /\ proc[p].pc = "set"
    /\ rx_id' = proc[p].cmd
    /\ Goto(p, "init")
    /\ UNCHANGED <<sem, done, buffer, callback, times, last, calls, lost, device>>

(* ... forget earlier completions ...                                      *)
InitCompletion(p) ==
    /\ proc[p].pc = "init"
    /\ done' = 0
    /\ Goto(p, "send")
    /\ UNCHANGED <<sem, rx_id, buffer, callback, times, last, calls, lost, device>>

(* ... and send.                                                           *)
Send(p) ==
    /\ proc[p].pc = "send"
    /\ requests' = Append(requests, [cmd |-> proc[p].cmd, call |-> proc[p].call])
    /\ Goto(p, "wait")
    /\ UNCHANGED <<sem, matching, times, last, calls, lost, answers, seen>>

(* Fault: an error path forgets the up.                                    *)
FailsKeepsSemaphore(p) ==
    /\ proc[p].pc \in {"send", "wait"}
    /\ Return(p, "failure", None)
    /\ UNCHANGED <<sem, matching, times, calls, device>>

(* usb_bulk_msg fails (the request was not sent), or the wait finds no     *)
(* memory for its buffer (it was).                                         *)
Fails(p) ==
    /\ proc[p].pc \in {"send", "wait"}
    /\ sem' = sem + 1
    /\ Return(p, "failure", None)
    /\ UNCHANGED <<matching, times, calls, device>>

(* apt_usbtrx_wait_msg_timeout: wait_for_completion_timeout ...            *)
Wait(p) ==
    /\ proc[p].pc = "wait"
    /\ done > 0
    /\ done' = done - 1
    /\ Goto(p, "copy")
    /\ UNCHANGED <<sem, rx_id, buffer, callback, times, last, calls, lost, device>>

(* Fault: the timeout forgets the up.                                      *)
WaitTimeoutKeepsSemaphore(p) ==
    /\ proc[p].pc = "wait"
    /\ done = 0
    /\ Return(p, "timeout", None)
    /\ UNCHANGED <<sem, matching, times, calls, device>>

WaitTimeout(p) ==
    /\ proc[p].pc = "wait"
    /\ done = 0
    /\ sem' = sem + 1
    /\ Return(p, "timeout", None)
    /\ UNCHANGED <<matching, times, calls, device>>

(* ... and a copy of the buffer.  The callback may be writing to it: then  *)
(* the copy has the old message, or the new one, or parts of both, which   *)
(* the parser takes for one of them or for neither.                        *)
Copied == IF callback.pc = "copying" THEN {buffer, callback.msg} ELSE {buffer}

IsAck(m) == m.cmd \in AckCmds \/ ~m.ok

(* The wait looks for ACK and NACK, or for the Response; the command       *)
(* function then accepts an ACK or NACK that names its command.            *)
Awaited(p, m) == IF proc[p].cmd \in AckCmds THEN IsAck(m)
                 ELSE ~IsAck(m) /\ m.cmd = proc[p].cmd

(* Fault: the command that the ACK or NACK names is not compared.          *)
AcceptAny(p) ==
    /\ proc[p].pc = "copy"
    /\ \E m \in Copied :
           /\ Awaited(p, m)
           /\ Return(p, IF m.ok THEN "ok" ELSE "nack", m)
    /\ sem' = sem + 1
    /\ UNCHANGED <<matching, times, calls, device>>

Accept(p) ==
    /\ proc[p].pc = "copy"
    /\ \E m \in Copied :
           /\ Awaited(p, m)
           /\ Return(p, IF m.cmd # proc[p].cmd THEN "failure"
                        ELSE IF m.ok THEN "ok" ELSE "nack", m)
    /\ sem' = sem + 1
    /\ UNCHANGED <<matching, times, calls, device>>

(* Anything else is skipped, until the deadline.                           *)
Skips(p) ==
    /\ proc[p].pc = "copy"
    /\ \E m \in Copied : ~Awaited(p, m)

Retry(p) ==
    /\ Skips(p)
    /\ Goto(p, "wait")
    /\ UNCHANGED <<sem, matching, times, last, calls, lost, device>>

DeadlinePassed(p) ==
    /\ Skips(p)
    /\ sem' = sem + 1
    /\ Return(p, "failure", None)
    /\ UNCHANGED <<matching, times, calls, device>>

-----------------------------------------------------------------------------
(* apt_usbtrx_dispatch_msg for an answer (one callback at a time)          *)
RxMessage ==
    /\ callback.pc = "idle"
    /\ answers # << >>
    /\ LET m == Head(answers)
       IN  /\ callback' = [pc |-> "compare", msg |-> m]
           /\ basetime' = IF m.cmd = ResetTS /\ m.ok THEN resettime ELSE basetime
    /\ answers' = Tail(answers)
    /\ UNCHANGED <<sem, rx_id, done, buffer, resettime, proc, last, calls, lost,
                   requests, seen>>

(* Fault: a NACK does not complete the command that waits for it.          *)
RxCompareAckOnly ==
    /\ callback.pc = "compare"
    /\ LET matches == rx_id = callback.msg.cmd /\ callback.msg.ok
       IN  /\ callback' = IF matches THEN [callback EXCEPT !.pc = "copying"]
                          ELSE [pc |-> "idle", msg |-> None]
           /\ seen' = IF matches THEN seen ELSE seen \cup {callback.msg}
    /\ UNCHANGED <<sem, rx_id, done, buffer, times, proc, last, calls, lost,
                   requests, answers>>

RxCompare ==
    /\ callback.pc = "compare"
    /\ callback' = IF rx_id = callback.msg.cmd
                   THEN [callback EXCEPT !.pc = "copying"]
                   ELSE [pc |-> "idle", msg |-> None]
    /\ seen' = IF rx_id = callback.msg.cmd THEN seen
               ELSE seen \cup {callback.msg}
    /\ UNCHANGED <<sem, rx_id, done, buffer, times, proc, last, calls, lost,
                   requests, answers>>

RxComplete ==
    /\ callback.pc = "copying"
    /\ buffer' = callback.msg
    /\ done' = done + 1
    /\ callback' = [pc |-> "idle", msg |-> None]
    /\ seen' = seen \cup {callback.msg}
    /\ UNCHANGED <<sem, rx_id, times, proc, last, calls, lost, requests, answers>>

-----------------------------------------------------------------------------
(* The device handles requests in order; it answers, or it does not.       *)

DeviceAnswer(ok) ==
    /\ requests # << >>
    /\ answers' = Append(answers, [cmd |-> Head(requests).cmd,
                                   call |-> Head(requests).call, ok |-> ok])
    /\ requests' = Tail(requests)
    /\ UNCHANGED <<sem, matching, times, proc, last, calls, lost, seen>>

DeviceSilent ==
    /\ requests # << >>
    /\ requests' = Tail(requests)
    /\ UNCHANGED <<sem, matching, times, proc, last, calls, lost, answers, seen>>

-----------------------------------------------------------------------------
(* What p does on its own once it has begun a command.                     *)
Proceed(p) ==
    \/ Down(p)
    \/ DownInterrupted(p)
    \/ SetId(p)
    \/ InitCompletion(p)
    \/ Send(p)
    \/ Fails(p)
    \/ Wait(p)
    \/ WaitTimeout(p)
    \/ Accept(p)
    \/ Retry(p)
    \/ DeadlinePassed(p)

Callback == RxMessage \/ RxCompare \/ RxComplete

Next ==
    \/ \E p \in Procs, c \in Cmds : Begin(p, c)
    \/ BeginElsewhere
    \/ \E p \in Procs : Proceed(p)
    \/ Callback
    \/ \E ok \in BOOLEAN : DeviceAnswer(ok)
    \/ DeviceSilent

Spec == Init /\ [][Next]_vars

(* Nothing is assumed of the device, the callback or a signal: every wait  *)
(* is bounded, and a process that waits for the semaphore gets it when it  *)
(* is free again and again.                                                *)
Fairness ==
    \A p \in Procs :
        /\ SF_vars(Down(p))
        /\ WF_vars(Proceed(p) /\ proc[p].pc # "down")

FairSpec == Spec /\ Fairness

-----------------------------------------------------------------------------
(* Properties                                                              *)

TypeOK ==
    /\ sem \in {0, 1}
    /\ rx_id \in Cmds
    /\ done \in Nat
    /\ buffer \in Message
    /\ callback \in [pc : {"idle", "compare", "copying"}, msg : Message]
    /\ resettime \in 0..MaxCalls /\ basetime \in 0..MaxCalls
    /\ proc \in [Procs -> [pc : {"idle", "down", "set", "init", "send", "wait",
                                 "copy"},
                           cmd : Cmds, call : 0..MaxCalls]]
    /\ last \in [cmd : Cmds, call : 0..MaxCalls,
                 result : {"none", "ok", "nack", "failure", "timeout"},
                 of : Message, time : 0..MaxCalls]
    /\ calls \in 0..MaxCalls
    /\ lost \subseteq 0..MaxCalls
    /\ requests \in Seq([cmd : Cmds, call : 0..MaxCalls])
    /\ answers \in Seq(Message)
    /\ seen \subseteq Message

Holding(p) == proc[p].pc \in {"set", "init", "send", "wait", "copy"}

(* One command at a time is between the down of send_msg_sync and the up   *)
(* on one of the many ways out of wait_msg_timeout, and the semaphore is   *)
(* free exactly when there is none: no way out forgets the up, or does it  *)
(* twice.                                                                  *)
OneCommandAtATime ==
    /\ \A p, q \in Procs : Holding(p) /\ Holding(q) => p = q
    /\ sem = IF \E p \in Procs : Holding(p) THEN 0 ELSE 1

(* A command that succeeds reports an answer to that command, and as long  *)
(* as no request was given up after it was sent, the answer to itself.     *)
(* (Once one was, its late answer, or an answer that the previous caller   *)
(* copied while the callback was still writing it, may be taken for the    *)
(* answer to a later call of the same command: nothing in the message      *)
(* tells them apart.)                                                      *)
AnswerIsDue ==
    last.result \in {"ok", "nack"} =>
        /\ last.of.cmd = last.cmd
        /\ last.of.call = last.call \/ lost \ {last.call} # {}

(* A command does not give up for want of a completion when the callback   *)
(* has already gone through the answer it awaits: the id is set, and stale *)
(* completions are forgotten, before the request leaves, and no stale      *)
(* answer uses up the completion of the right one.                         *)
NoAnswerMissed ==
    [][\A p \in Procs : WaitTimeout(p) =>
           \A m \in seen : m.call = proc[p].call => ~Awaited(p, m)]_vars

(* RESET_TS reports the time that this very call took as the new time base *)
(* (docs/general.ja.md: "the time at which the timestamp was reset"), once *)
(* earlier RESET_TS calls that timed out are set aside.                    *)
ResetReturnsItsTime ==
    last.cmd = ResetTS /\ last.result = "ok" /\ last.of.call = last.call =>
        last.time = last.call

(* Every command returns, answered or not, and the next one gets its turn. *)
CommandsEnd == \A p \in Procs : proc[p].pc # "idle" ~> proc[p].pc = "idle"
=============================================================================
