--------------------------- MODULE ProductsProofs ---------------------------
(***************************************************************************)
(* Proofs about Products, for any number of processes and channels, any    *)
(* settings and any failing commands: the interface has a user, a stopped  *)
(* channel is silent, frames and samples belong to the run of their        *)
(* reader, the tx thread has the tokens of the bit rate, a network         *)
(* interface that is up runs with its own settings, what is shown is what  *)
(* the device holds, and an attribute write changes its attribute only.    *)
(***************************************************************************)
EXTENDS Products, FiniteSetTheorems, TLAPS

-----------------------------------------------------------------------------
(* The shape of the state, as far as the proofs look into it               *)

IsCall(r) == r = [pc |-> r.pc, for |-> r.for, rate |-> r.rate, silent |-> r.silent,
                  tries |-> r.tries, quiet |-> r.quiet]

CallShape ==
    /\ can_call = [c \in Callers |-> can_call[c]]
    /\ \A c \in Callers : IsCall(can_call[c])

IsCan(d) == d = [rate |-> d.rate, normal |-> d.normal, start |-> d.start,
                 stopping |-> d.stopping, timing |-> d.timing, trigger |-> d.trigger]

IsNet(n) == n = [pc |-> n.pc, rate |-> n.rate, silent |-> n.silent, timing |-> n.timing]

IsAsked(a) == a = [rate |-> a.rate, silent |-> a.silent, timing |-> a.timing,
                   trigger |-> a.trigger]

CanShape ==
    /\ CallShape /\ IsCan(can) /\ IsNet(net) /\ IsAsked(asked)
    /\ can_file = [p \in Procs |-> can_file[p]]
    /\ \A p \in Procs : can_file[p] \in {"closed", "checked", "open"}
    /\ can_if \in {"NONE", "FILE", "NET"}
    /\ net.pc \in {"down", "opening", "up", "stuck"}

-----------------------------------------------------------------------------
(* What a step does to the calls                                           *)

(* The other calls go on; one that still takes itself for undisturbed has  *)
(* seen no change of the device.                                           *)
Keeps(c) ==
    \A d \in Callers : d # c =>
        /\ can_call'[d].pc = can_call[d].pc
        /\ can_call[d].pc # "idle" =>
              /\ can_call'[d].for = can_call[d].for
              /\ can_call'[d].rate = can_call[d].rate
              /\ can_call'[d].silent = can_call[d].silent
              /\ can_call'[d].tries = can_call[d].tries
              /\ can_call'[d].quiet => can_call[d].quiet /\ can' = can

(* The records of the calls.                                               *)
LEMMA IdleRecord == IsCall(NotCallingCan) /\ NotCallingCan.pc = "idle"
  BY DEF NotCallingCan, IsCall

LEMMA StopRecord ==
    ASSUME NEW f, NEW b, b = [NotCallingCan EXCEPT !.pc = "stop", !.for = f]
    PROVE  IsCall(b) /\ b.pc = "stop" /\ b.for = f /\ b.tries = 0
  BY DEF NotCallingCan, IsCall

TriesAt(c, pc) == IF pc = "status" THEN can_call[c].tries + 1 ELSE can_call[c].tries

LEMMA AtRecord ==
    ASSUME CallShape, NEW c \in Callers, NEW pc, NEW a, a = At(c, pc)
    PROVE  /\ IsCall(a) /\ a.pc = pc /\ a.for = can_call[c].for
           /\ a.rate = can_call[c].rate /\ a.silent = can_call[c].silent
           /\ a.tries = TriesAt(c, pc)
<1>1. IsCall(can_call[c])
  BY DEF CallShape
<1>2. PICK t : t = TriesAt(c, pc)
  OBVIOUS
<1>3. a = [can_call[c] EXCEPT !.pc = pc, !.tries = t]
  BY <1>1, <1>2 DEF At, TriesAt
<1>4. QED
  BY <1>1, <1>2, <1>3 DEF IsCall

(* A command ends, and its caller goes on with mine.                       *)
LEMMA GoesOnEffect ==
    ASSUME CallShape, NEW c \in Callers, NEW new, NEW mine, IsCall(mine),
           GoesOn(c, new, mine)
    PROVE  can' = new /\ CallShape' /\ can_call'[c] = mine /\ Keeps(c)
<1> USE DEF CallShape, GoesOn
<1>1. can' = new /\ can_call'[c] = mine
  OBVIOUS
<1>2. ASSUME NEW d \in Callers, d # c
      PROVE  /\ IsCall(can_call'[d])
             /\ can_call'[d].pc = can_call[d].pc
             /\ can_call[d].pc # "idle" =>
                   /\ can_call'[d].for = can_call[d].for
                   /\ can_call'[d].rate = can_call[d].rate
                   /\ can_call'[d].silent = can_call[d].silent
                   /\ can_call'[d].tries = can_call[d].tries
                   /\ can_call'[d].quiet => can_call[d].quiet /\ can' = can
  <2>1. CASE can_call[d].pc = "idle"
    <3>1. can_call'[d] = NotCallingCan
      BY <1>2, <2>1
    <3>2. QED
      BY <2>1, <3>1, IdleRecord
  <2>2. CASE can_call[d].pc # "idle"
    <3>1. can_call'[d] = [can_call[d] EXCEPT !.quiet = can_call[d].quiet /\ new = can]
      BY <1>2, <2>2
    <3>2. IsCall(can_call[d])
      OBVIOUS
    <3>3. QED
      BY <1>1, <3>1, <3>2, <2>2 DEF IsCall
  <2>3. QED
    BY <2>1, <2>2
<1>3. \A d \in Callers : IsCall(can_call'[d])
  BY <1>1, <1>2
<1>4. can_call' = [d \in Callers |-> can_call'[d]]
  OBVIOUS
<1>5. Keeps(c)
  BY <1>2 DEF Keeps
<1>6. QED
  BY <1>1, <1>3, <1>4, <1>5

(* A call begins; the device stays as it is.                               *)
LEMMA BeginEffect ==
    ASSUME CallShape, NEW c \in Callers, NEW mine, IsCall(mine), can' = can,
           can_call' = [can_call EXCEPT ![c] = mine]
    PROVE  CallShape' /\ can_call'[c] = mine /\ Keeps(c)
  BY DEF CallShape, Keeps

-----------------------------------------------------------------------------
(* What a step does to the device and to the network interface             *)

(* The device keeps its shape under every configuration command.           *)
LEMMA ModeOfDevice ==
    ASSUME NEW d, IsCan(d), NEW r, NEW s, NEW e, e = PackSetMode(d, r, s)
    PROVE  IsCan(e) /\ e.start = FALSE /\ e.stopping = FALSE
  BY DEF PackSetMode, IsCan

LEMMA TimingOfDevice ==
    ASSUME NEW d, IsCan(d), NEW t, NEW e, e = [d EXCEPT !.timing = t]
    PROVE  IsCan(e) /\ e.start = d.start /\ e.stopping = d.stopping /\ e.rate = d.rate
  BY DEF IsCan

LEMMA TriggerOfDevice ==
    ASSUME NEW d, IsCan(d), NEW t, NEW e, e = [d EXCEPT !.trigger = t]
    PROVE  IsCan(e) /\ e.start = d.start /\ e.stopping = d.stopping /\ e.rate = d.rate
  BY DEF IsCan

LEMMA TimingOfAsked ==
    ASSUME NEW a, IsAsked(a), NEW t, NEW e, e = [a EXCEPT !.timing = t]
    PROVE  IsAsked(e) /\ e.rate = a.rate /\ e.silent = a.silent /\ e.timing = t
  BY DEF IsAsked

LEMMA TriggerOfAsked ==
    ASSUME NEW a, IsAsked(a), NEW t, NEW e, e = [a EXCEPT !.trigger = t]
    PROVE  IsAsked(e) /\ e.rate = a.rate /\ e.silent = a.silent /\ e.timing = a.timing
  BY DEF IsAsked

LEMMA PhaseOfNet ==
    ASSUME NEW n, IsNet(n), NEW p, NEW e, e = [n EXCEPT !.pc = p]
    PROVE  IsNet(e) /\ e.pc = p /\ e.rate = n.rate /\ e.silent = n.silent
           /\ e.timing = n.timing
  BY DEF IsNet

(* The network interface becomes pc and keeps its settings.                *)
NetGoes(pc) ==
    /\ IsNet(net') /\ net'.pc = pc
    /\ net'.rate = net.rate /\ net'.silent = net.silent /\ net'.timing = net.timing

(* A command fails, and so does its call.                                  *)
LEMMA CallFailsEffect ==
    ASSUME CanShape, NEW c \in Callers, NEW new, CallFails(c, new)
    PROVE  /\ can' = new /\ CallShape' /\ Keeps(c) /\ can_call'[c].pc = "idle"
           /\ can_call[c].for = "open" => NetGoes("down")
           /\ can_call[c].for = "close" => NetGoes("stuck")
           /\ can_call[c].for \notin {"open", "close"} => net' = net
<1>1. can' = new /\ CallShape' /\ Keeps(c) /\ can_call'[c].pc = "idle"
  BY IdleRecord, GoesOnEffect DEF CallFails, CanShape
<1>2. can_call[c].for = "open" => NetGoes("down")
  BY PhaseOfNet DEF CallFails, CanShape, NetGoes
<1>3. can_call[c].for = "close" => NetGoes("stuck")
  BY PhaseOfNet DEF CallFails, CanShape, NetGoes
<1>4. can_call[c].for \notin {"open", "close"} => net' = net
  BY DEF CallFails
<1>5. QED
  BY <1>1, <1>2, <1>3, <1>4

(* A command succeeds, and its call continues at pc.                       *)
LEMMA ContinuesEffect ==
    ASSUME CanShape, NEW c \in Callers, NEW new, NEW pc, Continues(c, new, pc)
    PROVE  /\ can' = new /\ net' = net /\ CallShape' /\ Keeps(c) /\ can_call'[c].pc = pc
           /\ pc # "idle" =>
                 /\ can_call'[c].for = can_call[c].for
                 /\ can_call'[c].rate = can_call[c].rate
                 /\ can_call'[c].silent = can_call[c].silent
                 /\ can_call'[c].tries = TriesAt(c, pc)
<1> DEFINE mine == IF pc = "idle" THEN NotCallingCan ELSE At(c, pc)
<1>1. IsCall(mine) /\ mine.pc = pc
  BY IdleRecord, AtRecord DEF CanShape
<1>2. pc # "idle" => /\ mine.for = can_call[c].for /\ mine.rate = can_call[c].rate
                     /\ mine.silent = can_call[c].silent
                     /\ mine.tries = TriesAt(c, pc)
  BY AtRecord DEF CanShape
<1>3. GoesOn(c, new, mine) /\ net' = net
  BY DEF Continues
<1> HIDE DEF mine
<1>4. QED
  BY <1>1, <1>2, <1>3, GoesOnEffect DEF CanShape

-----------------------------------------------------------------------------
(* The commands                                                            *)

(* What a set mode that ends leaves behind.                                *)
SetModeEnds(c, o) ==
    /\ CallShape' /\ Keeps(c) /\ IsCan(can') /\ IsNet(net') /\ IsAsked(asked')
    /\ can' # can => can'.start = FALSE /\ can'.stopping = FALSE /\ can_run' = 0
    /\ can' = can => can_run' = can_run
    /\ asked'.timing = asked.timing
    /\ o = "ack" =>
          /\ asked'.rate = can_call[c].rate /\ asked'.silent = can_call[c].silent
          /\ net' = net /\ can_call'[c].pc = AfterMode(c)
          /\ AfterMode(c) # "idle" => can_call'[c].for = can_call[c].for
    /\ o # "ack" =>
          /\ can_call'[c].pc = "idle"
          /\ can_call[c].for = "open" => NetGoes("down")
          /\ can_call[c].for = "close" => NetGoes("stuck")
          /\ can_call[c].for \notin {"open", "close"} => net' = net

(* What each action does to the device and to the calls.  SET_MODE, ...    *)
LEMMA SetModeEffect ==
    ASSUME CanShape, NEW c \in Callers, NEW o \in Outcomes, SetMode(c, o)
    PROVE  SetModeEnds(c, o)
<1> USE DEF SetModeEnds
<1> DEFINE rate == can_call[c].rate
           silent == can_call[c].silent
           known == rate \in DOMAIN BaudrateMode
           new == IF known THEN Held(o, PackSetMode(can, rate, silent), can) ELSE can
<1>1. /\ IF known THEN Ends(o) ELSE o = "lost"
      /\ IF o = "ack" THEN Continues(c, new, AfterMode(c)) ELSE CallFails(c, new)
      /\ asked' = IF known
                  THEN Held(o, [asked EXCEPT !.rate = rate, !.silent = silent], asked)
                  ELSE asked
      /\ can_run' = IF new = can THEN can_run ELSE 0
  BY DEF SetMode
<1>2. IsCan(new) /\ (new # can => new.start = FALSE /\ new.stopping = FALSE)
  <2>1. IsCan(can)
    BY DEF CanShape
  <2> HIDE DEF rate, silent, known
  <2>2. PICK packed : packed = PackSetMode(can, rate, silent)
    OBVIOUS
  <2>3. IsCan(packed) /\ packed.start = FALSE /\ packed.stopping = FALSE
    BY <2>1, <2>2, ModeOfDevice
  <2>4. new = can \/ new = packed
    BY <2>2 DEF Held
  <2> HIDE DEF new
  <2>5. QED
    BY <2>1, <2>3, <2>4
<1>3. /\ IsAsked(asked') /\ asked'.timing = asked.timing
      /\ o = "ack" => asked'.rate = rate /\ asked'.silent = silent
  <2>1. o = "ack" => known
    BY <1>1
  <2>2. asked' = asked \/ asked' = [asked EXCEPT !.rate = rate, !.silent = silent]
    BY <1>1 DEF Held
  <2>3. o = "ack" => asked' = [asked EXCEPT !.rate = rate, !.silent = silent]
    BY <1>1, <2>1 DEF Held
  <2>4. IsAsked(asked)
    BY DEF CanShape
  <2> HIDE DEF known, rate, silent
  <2>5. PICK new_asked : new_asked = [asked EXCEPT !.rate = rate, !.silent = silent]
    OBVIOUS
  <2>6. /\ IsAsked(new_asked) /\ new_asked.rate = rate /\ new_asked.silent = silent
        /\ new_asked.timing = asked.timing
    BY <2>4, <2>5 DEF IsAsked
  <2>7. QED
    BY <2>2, <2>3, <2>4, <2>5, <2>6
<1> HIDE DEF new, known
<1>4. can' = new
  BY <1>1, ContinuesEffect, CallFailsEffect
<1>5. CASE o = "ack"
  BY <1>1, <1>2, <1>3, <1>4, <1>5, ContinuesEffect DEF CanShape
<1>6. CASE o # "ack"
  <2>1. IsNet(net')
    BY <1>1, <1>6, CallFailsEffect DEF NetGoes, CanShape
  <2>2. QED
    BY <1>1, <1>2, <1>3, <1>4, <1>6, <2>1, CallFailsEffect
<1>7. QED
  BY <1>5, <1>6

(* What a bit timing leaves behind.                                        *)
SetBitTimingEnds(c, o) ==
    /\ CallShape' /\ Keeps(c) /\ IsCan(can') /\ IsNet(net') /\ IsAsked(asked')
    /\ can'.start = can.start /\ can'.stopping = can.stopping
    /\ can'.rate = can.rate
    /\ asked'.rate = asked.rate /\ asked'.silent = asked.silent
    /\ o = "ack" =>
          /\ asked'.timing = net.timing /\ net' = net
          /\ can_call'[c].pc = IF can_call[c].for = "open" THEN "start" ELSE "idle"
          /\ can_call[c].for = "open" => can_call'[c].for = "open"
    /\ o # "ack" =>
          /\ can_call'[c].pc = "idle"
          /\ can_call[c].for = "open" => NetGoes("down")
          /\ can_call[c].for = "close" => NetGoes("stuck")
          /\ can_call[c].for \notin {"open", "close"} => net' = net

(* ... SET_BIT_TIMING, ...                                                 *)
LEMMA SetBitTimingEffect ==
    ASSUME CanShape, NEW c \in Callers, NEW o \in Outcomes, SetBitTiming(c, o)
    PROVE  SetBitTimingEnds(c, o)
<1> USE DEF SetBitTimingEnds
<1> DEFINE new == Held(o, [can EXCEPT !.timing = PackSetBitTiming(net.timing)], can)
           next == IF can_call[c].for = "open" THEN "start" ELSE "idle"
<1>1. /\ IF o = "ack" THEN Continues(c, new, next) ELSE CallFails(c, new)
      /\ asked' = Held(o, [asked EXCEPT !.timing = net.timing], asked)
  BY DEF SetBitTiming
<1>2. /\ IsCan(new) /\ new.start = can.start /\ new.stopping = can.stopping
      /\ new.rate = can.rate
  BY TimingOfDevice DEF Held, CanShape
<1>3. /\ IsAsked(asked') /\ asked'.rate = asked.rate /\ asked'.silent = asked.silent
      /\ o = "ack" => asked'.timing = net.timing
  BY <1>1, TimingOfAsked DEF Held, CanShape
<1> HIDE DEF new
<1>4. can' = new
  BY <1>1, ContinuesEffect, CallFailsEffect
<1>5. CASE o = "ack"
  BY <1>1, <1>2, <1>3, <1>4, <1>5, ContinuesEffect DEF CanShape
<1>6. CASE o # "ack"
  <2>1. IsNet(net')
    BY <1>1, <1>6, CallFailsEffect DEF NetGoes, CanShape
  <2>2. QED
    BY <1>1, <1>2, <1>3, <1>4, <1>6, <2>1, CallFailsEffect
<1>7. QED
  BY <1>5, <1>6

(* What a start leaves behind.                                             *)
StartCanEnds(c, o) ==
    /\ CallShape' /\ Keeps(c) /\ IsCan(can') /\ IsNet(net')
    /\ can'.rate = can.rate /\ can_call'[c].pc = "idle"
    /\ IF o = "lost" THEN can' = can ELSE can'.start = TRUE /\ can'.stopping = FALSE
    /\ o = "ack" => IF can_call[c].for = "open" THEN NetGoes("up") ELSE net' = net
    /\ o # "ack" =>
          /\ can_call[c].for = "open" => NetGoes("down")
          /\ can_call[c].for = "close" => NetGoes("stuck")
          /\ can_call[c].for \notin {"open", "close"} => net' = net

(* ... START_CAN, ...                                                      *)
LEMMA StartCanEffect ==
    ASSUME CanShape, NEW c \in Callers, NEW o \in Outcomes, StartCan(c, o)
    PROVE  StartCanEnds(c, o)
<1> USE DEF StartCanEnds
<1> DEFINE new == Held(o, [can EXCEPT !.start = TRUE, !.stopping = FALSE], can)
<1>1. IF o = "ack"
      THEN /\ GoesOn(c, new, NotCallingCan)
           /\ net' = IF can_call[c].for = "open" THEN [net EXCEPT !.pc = "up"] ELSE net
      ELSE CallFails(c, new)
  BY DEF StartCan
<1>2. /\ IsCan(new) /\ new.rate = can.rate
      /\ IF o = "lost" THEN new = can ELSE new.start = TRUE /\ new.stopping = FALSE
  <2>1. IsCan(can)
    BY DEF CanShape
  <2>2. PICK started : started = [can EXCEPT !.start = TRUE, !.stopping = FALSE]
    OBVIOUS
  <2>3. /\ IsCan(started) /\ started.start = TRUE /\ started.stopping = FALSE
        /\ started.rate = can.rate
    BY <2>1, <2>2 DEF IsCan
  <2>4. new = IF o = "lost" THEN can ELSE started
    BY <2>2 DEF Held, Outcomes
  <2> HIDE DEF new
  <2>5. QED
    BY <2>1, <2>3, <2>4
<1> HIDE DEF new
<1>3. can' = new
  BY <1>1, IdleRecord, GoesOnEffect, CallFailsEffect DEF CanShape
<1>4. CASE o = "ack"
  <2>1. IF can_call[c].for = "open" THEN NetGoes("up") ELSE net' = net
    BY <1>1, <1>4, PhaseOfNet DEF CanShape, NetGoes
  <2>2. IsNet(net')
    BY <2>1 DEF NetGoes, CanShape
  <2>3. CallShape' /\ Keeps(c) /\ can_call'[c] = NotCallingCan
    BY <1>1, <1>4, IdleRecord, GoesOnEffect DEF CanShape
  <2>4. QED
    BY <1>2, <1>3, <1>4, <2>1, <2>2, <2>3, IdleRecord
<1>5. CASE o # "ack"
  <2>1. IsNet(net')
    BY <1>1, <1>5, CallFailsEffect DEF NetGoes, CanShape
  <2>2. QED
    BY <1>1, <1>2, <1>3, <1>5, <2>1, CallFailsEffect
<1>6. QED
  BY <1>4, <1>5

(* What a stop leaves behind.                                              *)
StopCanEnds(c, o) ==
    /\ CallShape' /\ Keeps(c) /\ IsCan(can') /\ IsNet(net')
    /\ can'.rate = can.rate
    /\ can'.start => can.start
    /\ can' # can \/ o = "ack" => (can'.start => can'.stopping)
    /\ o = "ack" => /\ net' = net /\ can_call'[c].pc = "status"
                    /\ can_call'[c].for = can_call[c].for
                    /\ can_call'[c].tries = can_call[c].tries + 1
    /\ o # "ack" =>
          /\ can_call'[c].pc = "idle"
          /\ can_call[c].for = "open" => NetGoes("down")
          /\ can_call[c].for = "close" => NetGoes("stuck")
          /\ can_call[c].for \notin {"open", "close"} => net' = net

(* ... STOP_CAN, ...                                                       *)
LEMMA StopCanEffect ==
    ASSUME CanShape, NEW c \in Callers, NEW o \in Outcomes, StopCan(c, o)
    PROVE  StopCanEnds(c, o)
<1> USE DEF StopCanEnds
<1>1. PICK at_once \in BOOLEAN :
          LET new == Held(o, [can EXCEPT !.start = @ /\ ~at_once,
                                         !.stopping = can.start /\ ~at_once], can)
          IN  IF o = "ack" THEN Continues(c, new, "status") ELSE CallFails(c, new)
  BY DEF StopCan
<1>2. PICK stopped : stopped = [can EXCEPT !.start = @ /\ ~at_once,
                                           !.stopping = can.start /\ ~at_once]
  OBVIOUS
<1>3. /\ IsCan(stopped) /\ stopped.rate = can.rate /\ (stopped.start => can.start)
      /\ stopped.start => stopped.stopping
  <2>1. IsCan(can)
    BY DEF CanShape
  <2>2. QED
    BY <1>2, <2>1 DEF IsCan
<1>4. PICK new : new = Held(o, stopped, can)
  OBVIOUS
<1>5. /\ IsCan(new) /\ new.rate = can.rate /\ (new.start => can.start)
      /\ new # can \/ o = "ack" => (new.start => new.stopping)
  BY <1>3, <1>4 DEF Held, CanShape
<1>6. IF o = "ack" THEN Continues(c, new, "status") ELSE CallFails(c, new)
  BY <1>1, <1>2, <1>4
<1>7. CASE o = "ack"
  BY <1>5, <1>6, <1>7, ContinuesEffect DEF CanShape, TriesAt
<1>8. CASE o # "ack"
  <2>1. IsNet(net')
    BY <1>6, <1>8, CallFailsEffect DEF NetGoes, CanShape
  <2>2. QED
    BY <1>5, <1>6, <1>8, <2>1, CallFailsEffect
<1>9. QED
  BY <1>7, <1>8

(* What the reading of the status leaves behind.                           *)
StopStatusEnds(c, o) ==
    /\ CallShape' /\ Keeps(c) /\ can' = can /\ IsNet(net')
    /\ \/ /\ net' = net /\ can_if' = can_if /\ ended' = ended
          /\ can_call'[c].pc = "stop" /\ can_call'[c].for = can_call[c].for
          /\ can_call[c].tries < 3 /\ can_call'[c].tries = can_call[c].tries
       \/ /\ can_call'[c].pc = "idle" /\ can_if' = can_if /\ ended' = ended
          /\ can_call[c].for = "open" => NetGoes("down")
          /\ can_call[c].for = "close" => NetGoes("stuck")
          /\ can_call[c].for \notin {"open", "close"} => net' = net
       \/ /\ can_call'[c].pc = "idle" /\ (can.start => ~(can_call[c].tries < 3))
          /\ ended' = [told |-> can_call[c].tries, alone |-> can_call[c].quiet]
          /\ IF can_call[c].for = "close" THEN NetGoes("down") /\ can_if' = "NONE"
             ELSE net' = net /\ can_if' = can_if

(* ... the wait until the channel is silent, ...                           *)
LEMMA StopStatusEffect ==
    ASSUME CanShape, NEW c \in Callers, NEW o \in Outcomes, StopStatus(c, o)
    PROVE  StopStatusEnds(c, o)
<1> USE DEF StopStatusEnds
<1>1. CASE o # "ack" /\ CallFails(c, can) /\ UNCHANGED <<can_if, ended>>
  <2>1. IsNet(net')
    BY <1>1, CallFailsEffect DEF NetGoes, CanShape
  <2>2. QED
    BY <1>1, <2>1, CallFailsEffect
<1>2. CASE /\ can_call[c].tries < 3
            /\ Continues(c, can, "stop") /\ UNCHANGED <<can_if, ended>>
  BY <1>2, ContinuesEffect DEF CanShape, TriesAt
<1>3. CASE ~(can.start /\ can_call[c].tries < 3) /\ StopReturns(c)
  <2>1. CallShape' /\ Keeps(c) /\ can' = can /\ can_call'[c].pc = "idle"
    BY <1>3, IdleRecord, GoesOnEffect DEF StopReturns, CanShape
  <2>2. /\ net' = IF can_call[c].for = "close" THEN [net EXCEPT !.pc = "down"] ELSE net
        /\ can_if' = IF can_call[c].for = "close" THEN "NONE" ELSE can_if
        /\ ended' = [told |-> can_call[c].tries, alone |-> can_call[c].quiet]
    BY <1>3 DEF StopReturns
  <2>3. can_call[c].for = "close" => NetGoes("down")
    BY <2>2, PhaseOfNet DEF CanShape, NetGoes
  <2>4. IsNet(net')
    BY <2>2, <2>3 DEF CanShape, NetGoes
  <2>5. QED
    BY <1>3, <2>1, <2>2, <2>3, <2>4
<1>4. QED
  BY <1>1, <1>2, <1>3 DEF StopStatus

(* The device stops late: no call is undisturbed.                          *)
DeviceStopsEnds ==
    /\ CallShape' /\ IsCan(can') /\ can'.start = FALSE /\ can'.rate = can.rate
    /\ \A c \in Callers :
           /\ can_call'[c].pc = can_call[c].pc
           /\ can_call[c].pc # "idle" =>
                 /\ can_call'[c].for = can_call[c].for
                 /\ can_call'[c].rate = can_call[c].rate
                 /\ can_call'[c].silent = can_call[c].silent
                 /\ can_call'[c].tries = can_call[c].tries
                 /\ can_call'[c].quiet = FALSE

(* ... the device that falls silent, ...                                   *)
LEMMA DeviceStopsEffect ==
    ASSUME CanShape, DeviceStops
    PROVE  DeviceStopsEnds
<1> USE DEF DeviceStopsEnds
<1>1. IsCan(can') /\ can'.start = FALSE /\ can'.rate = can.rate
  <2>1. IsCan(can)
    BY DEF CanShape
  <2>2. PICK new : new = [can EXCEPT !.start = FALSE, !.stopping = FALSE]
    OBVIOUS
  <2>3. IsCan(new) /\ new.start = FALSE /\ new.rate = can.rate
    BY <2>1, <2>2 DEF IsCan
  <2>4. QED
    BY <2>2, <2>3 DEF DeviceStops
<1>2. ASSUME NEW c \in Callers
      PROVE  /\ IsCall(can_call'[c]) /\ can_call'[c].pc = can_call[c].pc
             /\ can_call[c].pc # "idle" =>
                   /\ can_call'[c].for = can_call[c].for
                   /\ can_call'[c].rate = can_call[c].rate
                   /\ can_call'[c].silent = can_call[c].silent
                   /\ can_call'[c].tries = can_call[c].tries
                   /\ can_call'[c].quiet = FALSE
  <2>1. IsCall(can_call[c])
    BY DEF CanShape, CallShape
  <2>2. CASE can_call[c].pc = "idle"
    <3>1. can_call'[c] = NotCallingCan
      BY <2>2 DEF DeviceStops
    <3>2. QED
      BY <2>2, <3>1, IdleRecord
  <2>3. CASE can_call[c].pc # "idle"
    <3>1. can_call'[c] = [can_call[c] EXCEPT !.quiet = FALSE]
      BY <2>3 DEF DeviceStops
    <3>2. QED
      BY <2>1, <2>3, <3>1 DEF IsCall
  <2>4. QED
    BY <2>2, <2>3
<1>3. can_call' = [c \in Callers |-> can_call'[c]]
  BY DEF DeviceStops
<1>4. QED
  BY <1>1, <1>2, <1>3 DEF CallShape

(* SET_TRIGGER and SET_BIT_TIMING are one command.                         *)
IoctlSetTriggerEnds(c) ==
    /\ CallShape' /\ Keeps(c) /\ IsCan(can') /\ IsAsked(asked')
    /\ can'.start = can.start /\ can'.stopping = can.stopping
    /\ can'.rate = can.rate /\ can_call'[c].pc = "idle"
    /\ asked'.rate = asked.rate /\ asked'.silent = asked.silent
    /\ asked'.timing = asked.timing

(* ... and the settings that are one command.                              *)
LEMMA IoctlSetTriggerEffect ==
    ASSUME CanShape, NEW p \in Procs, NEW t, NEW o \in Outcomes, IoctlSetTrigger(p, t, o)
    PROVE  IoctlSetTriggerEnds(p)
<1> USE DEF IoctlSetTriggerEnds
<1>1. PICK new : new = Held(o, [can EXCEPT !.trigger = PackSetTrigger(t)], can)
  OBVIOUS
<1>2. /\ IsCan(new) /\ new.start = can.start /\ new.stopping = can.stopping
      /\ new.rate = can.rate
  BY <1>1, TriggerOfDevice DEF Held, CanShape
<1>3. /\ IsAsked(asked') /\ asked'.rate = asked.rate /\ asked'.silent = asked.silent
      /\ asked'.timing = asked.timing
  BY TriggerOfAsked DEF IoctlSetTrigger, Held, CanShape
<1>4. GoesOn(p, new, NotCallingCan) /\ p \in Callers
  BY <1>1 DEF IoctlSetTrigger, Callers
<1>5. can' = new /\ CallShape' /\ Keeps(p) /\ can_call'[p] = NotCallingCan
  BY <1>4, IdleRecord, GoesOnEffect DEF CanShape
<1>6. QED
  BY <1>2, <1>3, <1>5, IdleRecord

IoctlSetBitTimingEnds(c) ==
    /\ CallShape' /\ Keeps(c) /\ IsCan(can') /\ IsAsked(asked')
    /\ can'.start = can.start /\ can'.stopping = can.stopping
    /\ can'.rate = can.rate /\ can_call'[c].pc = "idle"
    /\ asked'.rate = asked.rate /\ asked'.silent = asked.silent

LEMMA IoctlSetBitTimingEffect ==
    ASSUME CanShape, NEW p \in Procs, NEW t, NEW o \in Outcomes,
           IoctlSetBitTiming(p, t, o)
    PROVE  IoctlSetBitTimingEnds(p)
<1> USE DEF IoctlSetBitTimingEnds
<1>1. PICK new : new = Held(o, [can EXCEPT !.timing = PackSetBitTiming(t)], can)
  OBVIOUS
<1>2. /\ IsCan(new) /\ new.start = can.start /\ new.stopping = can.stopping
      /\ new.rate = can.rate
  BY <1>1, TimingOfDevice DEF Held, CanShape
<1>3. /\ IsAsked(asked') /\ asked'.rate = asked.rate /\ asked'.silent = asked.silent
  BY TimingOfAsked DEF IoctlSetBitTiming, Held, CanShape
<1>4. GoesOn(p, new, NotCallingCan) /\ p \in Callers
  BY <1>1 DEF IoctlSetBitTiming, Callers
<1>5. can' = new /\ CallShape' /\ Keeps(p) /\ can_call'[p] = NotCallingCan
  BY <1>4, IdleRecord, GoesOnEffect DEF CanShape
<1>6. QED
  BY <1>2, <1>3, <1>5, IdleRecord

(* Calls begin.                                                            *)
ModeBegun(c, rate, silent, for) ==
    /\ CallShape' /\ Keeps(c) /\ can_call'[c].pc = "mode"
    /\ can_call'[c].for = for /\ can_call'[c].rate = rate
    /\ can_call'[c].silent = silent
    /\ max_token' = MaxToken(rate)
    /\ alone' = \A d \in Callers : can_call[d].pc # "mode"

(* The calls begin: to set the mode, ...                                   *)
LEMMA BeginModeEffect ==
    ASSUME CanShape, NEW c \in Callers, NEW rate, NEW silent, NEW for, can' = can,
           BeginSetMode(c, rate, silent, for)
    PROVE  ModeBegun(c, rate, silent, for)
<1> USE DEF ModeBegun
<1>1. PICK mine : mine = [NotCallingCan EXCEPT !.pc = "mode", !.for = for, !.rate = rate,
                                               !.silent = silent]
  OBVIOUS
<1>2. /\ IsCall(mine) /\ mine.pc = "mode" /\ mine.for = for /\ mine.rate = rate
      /\ mine.silent = silent
  BY <1>1 DEF NotCallingCan, IsCall
<1>3. can_call' = [can_call EXCEPT ![c] = mine]
  BY <1>1 DEF BeginSetMode
<1>4. CallShape' /\ can_call'[c] = mine /\ Keeps(c)
  BY <1>2, <1>3, BeginEffect DEF CanShape
<1>5. QED
  BY <1>2, <1>4 DEF BeginSetMode

StartBegun(c) ==
    /\ CallShape' /\ Keeps(c) /\ can_call'[c].pc = "start"
    /\ can_call'[c].for = "ioctl"
    /\ can_call'[c].quiet => wire.kind # "frame" /\ ~can.start
    /\ can_ring' = {}

(* ... to start, ...                                                       *)
LEMMA BeginStartEffect ==
    ASSUME CanShape, NEW c \in Callers, can' = can, BeginStart(c)
    PROVE  StartBegun(c)
<1> USE DEF StartBegun
<1>1. PICK mine : mine = [NotCallingCan EXCEPT !.pc = "start", !.for = "ioctl",
                                               !.quiet = wire.kind # "frame" /\ ~can.start]
  OBVIOUS
<1>2. /\ IsCall(mine) /\ mine.pc = "start" /\ mine.for = "ioctl"
      /\ mine.quiet => wire.kind # "frame" /\ ~can.start
  BY <1>1 DEF NotCallingCan, IsCall
<1>3. can_call' = [can_call EXCEPT ![c] = mine]
  BY <1>1 DEF BeginStart
<1>4. CallShape' /\ can_call'[c] = mine /\ Keeps(c)
  BY <1>2, <1>3, BeginEffect DEF CanShape
<1>5. QED
  BY <1>2, <1>4 DEF BeginStart

StopBegun(c, for) ==
    /\ CallShape' /\ Keeps(c) /\ can_call'[c].pc = "stop" /\ can_call'[c].for = for
    /\ can_call'[c].tries = 0

(* ... and to stop.                                                        *)
LEMMA BeginStopEffect ==
    ASSUME CanShape, NEW c \in Callers, NEW for, can' = can, BeginStop(c, for)
    PROVE  StopBegun(c, for)
<1> USE DEF StopBegun
<1>1. PICK mine : mine = [NotCallingCan EXCEPT !.pc = "stop", !.for = for]
  OBVIOUS
<1>2. IsCall(mine) /\ mine.pc = "stop" /\ mine.for = for /\ mine.tries = 0
  BY <1>1, StopRecord
<1>3. can_call' = [can_call EXCEPT ![c] = mine]
  BY <1>1 DEF BeginStop
<1>4. CallShape' /\ can_call'[c] = mine /\ Keeps(c)
  BY <1>2, <1>3, BeginEffect DEF CanShape
<1>5. QED
  BY <1>2, <1>4

(* The processes and the network stack are different callers.              *)
LEMMA CallersAre == Net \in Callers /\ Net \notin Procs /\ \A p \in Procs : p \in Callers
  BY NetAssumption DEF Callers

(* What the actions test, and what else they change.                       *)
SetModeRest(c, o) ==
    /\ can_call[c].pc = "mode"
    /\ alone' = (alone /\ o = "ack")
    /\ UNCHANGED <<variant, max_token, can_if, can_file, can_overlap, wire,
                   can_ring, ended>>

LEMMA SetModeFrame ==
    ASSUME CanShape, NEW c, NEW o, SetMode(c, o)
    PROVE  SetModeRest(c, o)
  BY DEF SetModeRest, SetMode, canUsers

SetBitTimingRest(c, o) ==
    /\ can_call[c].pc = "timing"
    /\ UNCHANGED <<variant, max_token, can_if, can_file, can_overlap, wire,
                   can_ring, alone, can_run, ended>>

LEMMA SetBitTimingFrame ==
    ASSUME CanShape, NEW c, NEW o, SetBitTiming(c, o)
    PROVE  SetBitTimingRest(c, o)
  BY DEF SetBitTimingRest, SetBitTiming, canUsers

StartCanRest(c, o) ==
    /\ can_call[c].pc = "start"
    /\ can_if' = IF o = "ack" /\ can_call[c].for = "open" THEN "NET" ELSE can_if
    /\ can_run' = IF o = "ack" /\ can_call[c].for = "ioctl" /\ can_call[c].quiet
                  THEN can.rate ELSE IF o \in {"ack", "late"} THEN 0 ELSE can_run
    /\ can_ring' = IF can_call[c].for = "open" THEN {} ELSE can_ring
    /\ o \in {"ack", "late"} => ended' = NotEnded
    /\ o \notin {"ack", "late"} => ended' = ended
    /\ UNCHANGED <<variant, max_token, can_file, can_overlap, wire, asked, alone>>

LEMMA StartCanFrame ==
    ASSUME CanShape, NEW c, NEW o, StartCan(c, o)
    PROVE  StartCanRest(c, o)
  BY DEF StartCanRest, StartCan, Held

StopCanRest(c, o) ==
    /\ can_call[c].pc = "stop"
    /\ UNCHANGED <<variant, max_token, can_if, can_file, can_overlap, wire,
                   can_ring, asked, alone, can_run, ended>>

LEMMA StopCanFrame ==
    ASSUME CanShape, NEW c, NEW o, StopCan(c, o)
    PROVE  StopCanRest(c, o)
  BY DEF StopCanRest, StopCan, canUsers

StopStatusRest(c, o) ==
    /\ can_call[c].pc = "status"
    /\ UNCHANGED <<variant, max_token, can_file, can_overlap, wire, can_ring,
                   asked, alone, can_run>>

LEMMA StopStatusFrame ==
    ASSUME CanShape, NEW c, NEW o, StopStatus(c, o)
    PROVE  StopStatusRest(c, o)
  BY DEF StopStatusRest, StopStatus

DeviceStopsRest ==
    can.stopping /\ UNCHANGED <<variant, max_token, can_if, can_file, can_overlap, net, wire,
                can_ring, asked, alone, can_run, ended>>

LEMMA DeviceStopsFrame ==
    ASSUME CanShape, DeviceStops
    PROVE  DeviceStopsRest
  BY DEF DeviceStopsRest, DeviceStops, canUsers

IoctlSetTriggerRest(c) ==
    /\ can_file[c] = "open" /\ can_call[c].pc = "idle"
    /\ UNCHANGED <<variant, max_token, can_if, can_file, can_overlap, net, wire,
                   can_ring, alone, can_run, ended>>

LEMMA IoctlSetTriggerFrame ==
    ASSUME CanShape, NEW c, NEW t, NEW o, IoctlSetTrigger(c, t, o)
    PROVE  IoctlSetTriggerRest(c)
  BY DEF IoctlSetTriggerRest, IoctlSetTrigger, CanIoctl, canUsers

IoctlSetBitTimingRest(c) ==
    /\ can_file[c] = "open" /\ can_call[c].pc = "idle"
    /\ UNCHANGED <<variant, max_token, can_if, can_file, can_overlap, net, wire,
                   can_ring, alone, can_run, ended>>

LEMMA IoctlSetBitTimingFrame ==
    ASSUME CanShape, NEW c, NEW t, NEW o, IoctlSetBitTiming(c, t, o)
    PROVE  IoctlSetBitTimingRest(c)
  BY DEF IoctlSetBitTimingRest, IoctlSetBitTiming, CanIoctl, canUsers

IoctlSetModeRest(c, rate, silent) ==
    /\ can_file[c] = "open" /\ can_call[c].pc = "idle"
    /\ ModeBegun(c, rate, silent, "ioctl")
    /\ UNCHANGED <<variant, can, can_if, can_file, can_overlap, net, wire,
                   can_ring, asked, can_run, ended>>

LEMMA IoctlSetModeFrame ==
    ASSUME CanShape, NEW c \in Procs, NEW rate, NEW silent, IoctlSetMode(c, rate, silent)
    PROVE  IoctlSetModeRest(c, rate, silent)
  BY BeginModeEffect DEF IoctlSetModeRest, IoctlSetMode, CanIoctl, canUsers, Callers

IoctlStartCanRest(c) ==
    /\ can_file[c] = "open" /\ can_call[c].pc = "idle"
    /\ StartBegun(c)
    /\ UNCHANGED <<variant, can, max_token, can_if, can_file, can_overlap, net,
                   wire, asked, alone, can_run, ended>>

LEMMA IoctlStartCanFrame ==
    ASSUME CanShape, NEW c \in Procs, IoctlStartCan(c)
    PROVE  IoctlStartCanRest(c)
  BY BeginStartEffect DEF IoctlStartCanRest, IoctlStartCan, CanIoctl, canUsers, Callers

IoctlStopCanRest(c) ==
    /\ can_file[c] = "open" /\ can_call[c].pc = "idle"
    /\ StopBegun(c, "ioctl")
    /\ UNCHANGED <<variant, can, max_token, can_if, can_file, can_overlap, net,
                   wire, can_ring, asked, alone, can_run, ended>>

LEMMA IoctlStopCanFrame ==
    ASSUME CanShape, NEW c \in Procs, IoctlStopCan(c)
    PROVE  IoctlStopCanRest(c)
  BY BeginStopEffect DEF IoctlStopCanRest, IoctlStopCan, CanIoctl, canUsers, Callers

NetChangeLinkRest(rate, silent, t) ==
    /\ can_call[Net].pc = "idle" /\ net.pc \in {"down", "stuck"}
    /\ IsNet(net') /\ net'.pc = net.pc
    /\ ModeBegun(Net, rate, silent, "link")
    /\ UNCHANGED <<variant, can, can_if, can_file, can_overlap, wire, can_ring,
                   asked, can_run, ended>>

LEMMA NetChangeLinkFrame ==
    ASSUME CanShape, NEW rate, NEW silent, NEW t, NetChangeLink(rate, silent, t)
    PROVE  NetChangeLinkRest(rate, silent, t)
  BY BeginModeEffect
     DEF NetChangeLinkRest, NetChangeLink, NetDown, Callers, IsNet, CanShape, canUsers

NetOpenRest ==
    /\ can_call[Net].pc = "idle" /\ net.pc \in {"down", "stuck"}
    /\ can_if = "NONE" /\ NetGoes("opening")
    /\ can_overlap' = (can_overlap \/ CanClaiming)
    /\ ModeBegun(Net, net.rate, net.silent, "open")
    /\ UNCHANGED <<variant, can, can_if, can_file, wire, can_ring, asked, can_run,
                   ended>>

LEMMA NetOpenFrame ==
    ASSUME CanShape, NetOpen
    PROVE  NetOpenRest
  BY BeginModeEffect, PhaseOfNet
     DEF NetOpenRest, NetOpen, NetDown, Callers, NetGoes, CanShape, canUsers

NetCloseRest ==
    /\ can_call[Net].pc = "idle" /\ net.pc = "up"
    /\ StopBegun(Net, "close")
    /\ UNCHANGED <<variant, can, max_token, can_if, can_file, can_overlap, net,
                   wire, can_ring, asked, alone, can_run, ended>>

LEMMA NetCloseFrame ==
    ASSUME CanShape, NetClose
    PROVE  NetCloseRest
  BY BeginStopEffect DEF NetCloseRest, NetClose, canUsers, Callers

-----------------------------------------------------------------------------
(* The CAN devices                                                         *)

(* A call is at one of its own commands; the interface goes up or down in  *)
(* a call of the network core, and a file is used while it is open.        *)
ForInv ==
    /\ \A c \in Callers : can_call[c].pc # "idle" =>
           /\ can_call[c].for = "open" =>
                  c = Net /\ net.pc = "opening" /\ can_call[c].pc \in {"mode", "timing", "start"}
           /\ can_call[c].for = "close" =>
                  c = Net /\ net.pc = "up" /\ can_call[c].pc \in {"stop", "status"}
           /\ can_call[c].for = "link" =>
                  c = Net /\ net.pc \in {"down", "stuck"} /\ can_call[c].pc \in {"mode", "timing"}
           /\ can_call[c].for \notin {"open", "close", "link"} =>
                  /\ c # Net /\ can_call[c].for = "ioctl"
                  /\ can_call[c].pc \in {"mode", "start", "stop", "status"}
    /\ net.pc = "opening" => can_call[Net].pc # "idle" /\ can_call[Net].for = "open"
    /\ \A p \in Procs : can_call[p].pc # "idle" => can_file[p] = "open"

(* if_type names a user; as long as no two of them check it together, it   *)
(* names the only one, and nobody is on the way in beside another.         *)
UserInv ==
    /\ can_if = "FILE" => \E p \in Procs : can_file[p] = "open"
    /\ can_if = "NET" => net.pc \in {"up", "stuck"}

AloneInv ==
    /\ \A p, q \in Procs : p # q /\ can_file[p] # "closed" => can_file[q] = "closed"
    /\ \A p \in Procs : /\ can_file[p] = "open" => can_if = "FILE"
                        /\ can_file[p] = "checked" => can_if = "NONE"
                        /\ net.pc = "opening" => can_file[p] = "closed"
    /\ net.pc = "opening" => can_if = "NONE"
    /\ net.pc \in {"up", "stuck"} => can_if = "NET"

(* The commands that bring the interface up leave its settings behind.     *)
ConfInv ==
    /\ can_call[Net].pc # "idle" /\ can_call[Net].for = "open" =>
           /\ can_call[Net].pc = "mode" =>
                  can_call[Net].rate = net.rate /\ can_call[Net].silent = net.silent
           /\ can_call[Net].pc \in {"timing", "start"} =>
                  asked.rate = net.rate /\ asked.silent = net.silent
           /\ can_call[Net].pc = "start" /\ SupportsBitTiming => asked.timing = net.timing
    /\ net.pc = "up" /\ can_call[Net].pc = "idle" =>
           /\ can.start = TRUE /\ can.stopping = FALSE
           /\ asked.rate = net.rate /\ asked.silent = net.silent
           /\ SupportsBitTiming => asked.timing = net.timing

(* Of set modes that do not overlap, the last one has left its tokens.     *)
TokenInv ==
    alone =>
        /\ \A c, d \in Callers : can_call[c].pc = "mode" /\ can_call[d].pc = "mode" => c = d
        /\ \A c \in Callers :
               can_call[c].pc = "mode" => max_token = MaxToken(can_call[c].rate)
        /\ (\A c \in Callers : can_call[c].pc # "mode") => max_token = MaxToken(asked.rate)

(* A stop is told so, at most three times, and the status is read after    *)
(* that: of a channel that is about to stop, unless another caller has     *)
(* changed the device.                                                     *)
StopInv ==
    /\ \A c \in Callers :
           /\ can_call[c].pc = "stop" => can_call[c].tries \in 0..2
           /\ can_call[c].pc = "status" =>
                  /\ can_call[c].tries \in 1..3
                  /\ can_call[c].quiet /\ can.start => can.stopping
    /\ StoppedOrToldThrice

(* A run has its bit rate, and before it begins nothing is on its way.     *)
RunInv ==
    /\ can_run # 0 => /\ can_ring \subseteq {can_run} /\ can.rate = can_run
                      /\ wire.kind = "frame" => wire.rate = can_run
    /\ \A c \in Callers :
           can_call[c].pc = "start" /\ can_call[c].for = "ioctl" /\ can_call[c].quiet =>
               wire.kind # "frame" /\ ~can.start /\ can_ring = {}

(* A step that leaves the CAN device alone.                                *)
CanRests ==
    UNCHANGED <<variant, can, max_token, canUsers, net, can_call, wire, can_ring, stats,
                asked, alone, can_run, ended>>

(* The shape of the state is kept.                                         *)
LEMMA NextCanShape ==
    ASSUME CanShape, CanNext \/ CanRests
    PROVE  CanShape'
<1> USE DEF CallShape, CanRests, canUsers, stats, NetGoes
<1>1. ASSUME NEW c \in Callers, NEW o \in Outcomes, SetMode(c, o)
      PROVE  CanShape'
  <2>1. SetModeEnds(c, o) /\ SetModeRest(c, o)
    BY <1>1, CallersAre, SetModeEffect, SetModeFrame
  <2>2. QED
    BY <2>1, CallersAre DEF SetModeEnds, SetModeRest, CanShape
<1>2. ASSUME NEW c \in Callers, NEW o \in Outcomes, SetBitTiming(c, o)
      PROVE  CanShape'
  <2>1. SetBitTimingEnds(c, o) /\ SetBitTimingRest(c, o)
    BY <1>2, CallersAre, SetBitTimingEffect, SetBitTimingFrame
  <2>2. QED
    BY <2>1, CallersAre DEF SetBitTimingEnds, SetBitTimingRest, CanShape
<1>3. ASSUME NEW c \in Callers, NEW o \in Outcomes, StartCan(c, o)
      PROVE  CanShape'
  <2>1. StartCanEnds(c, o) /\ StartCanRest(c, o)
    BY <1>3, CallersAre, StartCanEffect, StartCanFrame
  <2>2. QED
    BY <2>1, CallersAre DEF StartCanEnds, StartCanRest, CanShape
<1>4. ASSUME NEW c \in Callers, NEW o \in Outcomes, StopCan(c, o)
      PROVE  CanShape'
  <2>1. StopCanEnds(c, o) /\ StopCanRest(c, o)
    BY <1>4, CallersAre, StopCanEffect, StopCanFrame
  <2>2. QED
    BY <2>1, CallersAre DEF StopCanEnds, StopCanRest, CanShape
<1>5. ASSUME NEW c \in Callers, NEW o \in Outcomes, StopStatus(c, o)
      PROVE  CanShape'
  <2>1. StopStatusEnds(c, o) /\ StopStatusRest(c, o)
    BY <1>5, CallersAre, StopStatusEffect, StopStatusFrame
  <2>2. QED
    BY <2>1, CallersAre DEF StopStatusEnds, StopStatusRest, CanShape
<1>6. ASSUME DeviceStops
      PROVE  CanShape'
  <2>1. DeviceStopsEnds /\ DeviceStopsRest
    BY <1>6, CallersAre, DeviceStopsEffect, DeviceStopsFrame
  <2>2. QED
    BY <2>1, CallersAre DEF DeviceStopsEnds, DeviceStopsRest, CanShape
<1>7. ASSUME NEW c \in Procs, CanFileCheck(c)
      PROVE  CanShape'
  BY <1>7, CallersAre DEF CanFileCheck, CanShape
<1>8. ASSUME NEW c \in Procs, CanFileOpen(c)
      PROVE  CanShape'
  BY <1>8, CallersAre DEF CanFileOpen, CanShape
<1>9. ASSUME NEW c \in Procs, CanFileClose(c)
      PROVE  CanShape'
  BY <1>9, CallersAre DEF CanFileClose, CanShape
<1>10. ASSUME NEW c \in Procs, NEW rate, NEW silent, IoctlSetMode(c, rate, silent)
      PROVE  CanShape'
  <2>1. IoctlSetModeRest(c, rate, silent)
    BY <1>10, IoctlSetModeFrame
  <2>2. QED
    BY <2>1, CallersAre DEF IoctlSetModeRest, ModeBegun, CanShape
<1>11. ASSUME NEW c \in Procs, IoctlStartCan(c)
      PROVE  CanShape'
  <2>1. IoctlStartCanRest(c)
    BY <1>11, IoctlStartCanFrame
  <2>2. QED
    BY <2>1, CallersAre DEF IoctlStartCanRest, StartBegun, CanShape
<1>12. ASSUME NEW c \in Procs, IoctlStopCan(c)
      PROVE  CanShape'
  <2>1. IoctlStopCanRest(c)
    BY <1>12, IoctlStopCanFrame
  <2>2. QED
    BY <2>1, CallersAre DEF IoctlStopCanRest, StopBegun, CanShape
<1>13. ASSUME NEW c \in Procs, NEW t, NEW o \in Outcomes, IoctlSetTrigger(c, t, o)
      PROVE  CanShape'
  <2>1. IoctlSetTriggerEnds(c) /\ IoctlSetTriggerRest(c)
    BY <1>13, CallersAre, IoctlSetTriggerEffect, IoctlSetTriggerFrame
  <2>2. QED
    BY <2>1, CallersAre DEF IoctlSetTriggerEnds, IoctlSetTriggerRest, CanShape
<1>14. ASSUME NEW c \in Procs, NEW t, NEW o \in Outcomes, IoctlSetBitTiming(c, t, o)
      PROVE  CanShape'
  <2>1. IoctlSetBitTimingEnds(c) /\ IoctlSetBitTimingRest(c)
    BY <1>14, CallersAre, IoctlSetBitTimingEffect, IoctlSetBitTimingFrame
  <2>2. QED
    BY <2>1, CallersAre DEF IoctlSetBitTimingEnds, IoctlSetBitTimingRest, CanShape
<1>15. ASSUME NEW c \in Procs, NEW o, IoctlResetCanSummary(c, o)
      PROVE  CanShape'
  BY <1>15, CallersAre DEF IoctlResetCanSummary, CanShape
<1>16. ASSUME NEW rate, NEW silent, NEW t, NetChangeLink(rate, silent, t)
      PROVE  CanShape'
  <2>1. NetChangeLinkRest(rate, silent, t)
    BY <1>16, NetChangeLinkFrame
  <2>2. QED
    BY <2>1, CallersAre DEF NetChangeLinkRest, ModeBegun, CanShape
<1>17. ASSUME NetOpen
      PROVE  CanShape'
  <2>1. NetOpenRest
    BY <1>17, NetOpenFrame
  <2>2. QED
    BY <2>1, CallersAre DEF NetOpenRest, ModeBegun, CanShape
<1>18. ASSUME NetClose
      PROVE  CanShape'
  <2>1. NetCloseRest
    BY <1>18, NetCloseFrame
  <2>2. QED
    BY <2>1, CallersAre DEF NetCloseRest, StopBegun, CanShape
<1>19. ASSUME NEW f, DeviceFrame(f)
      PROVE  CanShape'
  BY <1>19, CallersAre DEF DeviceFrame, Silent, CanShape
<1>20. ASSUME NEW f, DeviceSummary(f)
      PROVE  CanShape'
  BY <1>20, CallersAre DEF DeviceSummary, Silent, CanShape
<1>21. ASSUME DispatchCan
      PROVE  CanShape'
  BY <1>21, CallersAre DEF DispatchCan, Silent, CanShape
<1>22. ASSUME CanRests
      PROVE  CanShape'
  BY <1>22, CallersAre DEF CanRests, CanShape
<1>23. QED
  BY <1>1, <1>2, <1>3, <1>4, <1>5, <1>6, <1>7, <1>8, <1>9, <1>10, <1>11, <1>12,
     <1>13, <1>14, <1>15, <1>16, <1>17, <1>18, <1>19, <1>20, <1>21, <1>22
     DEF CanNext, CanFile, CanCall, NetCalls, CanDevice

(* Every call stays at its own commands.                                   *)
LEMMA NextFor ==
    ASSUME CanShape, ForInv, CanNext \/ CanRests
    PROVE  ForInv'
<1> USE DEF ForInv, Outcomes, Keeps, NetGoes, AfterMode, CanRests, canUsers, stats
<1>1. ASSUME NEW c \in Callers, NEW o \in Outcomes, SetMode(c, o)
      PROVE  ForInv'
  <2>1. SetModeEnds(c, o) /\ SetModeRest(c, o)
    BY <1>1, CallersAre, SetModeEffect, SetModeFrame
  <2>2. QED
    BY <2>1, CallersAre DEF SetModeEnds, SetModeRest
<1>2. ASSUME NEW c \in Callers, NEW o \in Outcomes, SetBitTiming(c, o)
      PROVE  ForInv'
  <2>1. SetBitTimingEnds(c, o) /\ SetBitTimingRest(c, o)
    BY <1>2, CallersAre, SetBitTimingEffect, SetBitTimingFrame
  <2>2. QED
    BY <2>1, CallersAre DEF SetBitTimingEnds, SetBitTimingRest
<1>3. ASSUME NEW c \in Callers, NEW o \in Outcomes, StartCan(c, o)
      PROVE  ForInv'
  <2>1. StartCanEnds(c, o) /\ StartCanRest(c, o)
    BY <1>3, CallersAre, StartCanEffect, StartCanFrame
  <2>2. QED
    BY <2>1, CallersAre DEF StartCanEnds, StartCanRest
<1>4. ASSUME NEW c \in Callers, NEW o \in Outcomes, StopCan(c, o)
      PROVE  ForInv'
  <2>1. StopCanEnds(c, o) /\ StopCanRest(c, o)
    BY <1>4, CallersAre, StopCanEffect, StopCanFrame
  <2>2. QED
    BY <2>1, CallersAre DEF StopCanEnds, StopCanRest
<1>5. ASSUME NEW c \in Callers, NEW o \in Outcomes, StopStatus(c, o)
      PROVE  ForInv'
  <2>1. StopStatusEnds(c, o) /\ StopStatusRest(c, o)
    BY <1>5, CallersAre, StopStatusEffect, StopStatusFrame
  <2>2. QED
    BY <2>1, CallersAre DEF StopStatusEnds, StopStatusRest
<1>6. ASSUME DeviceStops
      PROVE  ForInv'
  <2>1. DeviceStopsEnds /\ DeviceStopsRest
    BY <1>6, CallersAre, DeviceStopsEffect, DeviceStopsFrame
  <2>2. QED
    BY <2>1, CallersAre DEF DeviceStopsEnds, DeviceStopsRest
<1>7. ASSUME NEW c \in Procs, CanFileCheck(c)
      PROVE  ForInv'
  BY <1>7, CallersAre DEF CanFileCheck, CanShape
<1>8. ASSUME NEW c \in Procs, CanFileOpen(c)
      PROVE  ForInv'
  BY <1>8, CallersAre DEF CanFileOpen, CanShape
<1>9. ASSUME NEW c \in Procs, CanFileClose(c)
      PROVE  ForInv'
  BY <1>9, CallersAre DEF CanFileClose, CanShape
<1>10. ASSUME NEW c \in Procs, NEW rate, NEW silent, IoctlSetMode(c, rate, silent)
      PROVE  ForInv'
  <2>1. IoctlSetModeRest(c, rate, silent)
    BY <1>10, IoctlSetModeFrame
  <2>2. QED
    BY <2>1, CallersAre DEF IoctlSetModeRest, ModeBegun
<1>11. ASSUME NEW c \in Procs, IoctlStartCan(c)
      PROVE  ForInv'
  <2>1. IoctlStartCanRest(c)
    BY <1>11, IoctlStartCanFrame
  <2>2. QED
    BY <2>1, CallersAre DEF IoctlStartCanRest, StartBegun
<1>12. ASSUME NEW c \in Procs, IoctlStopCan(c)
      PROVE  ForInv'
  <2>1. IoctlStopCanRest(c)
    BY <1>12, IoctlStopCanFrame
  <2>2. QED
    BY <2>1, CallersAre DEF IoctlStopCanRest, StopBegun
<1>13. ASSUME NEW c \in Procs, NEW t, NEW o \in Outcomes, IoctlSetTrigger(c, t, o)
      PROVE  ForInv'
  <2>1. IoctlSetTriggerEnds(c) /\ IoctlSetTriggerRest(c)
    BY <1>13, CallersAre, IoctlSetTriggerEffect, IoctlSetTriggerFrame
  <2>2. QED
    BY <2>1, CallersAre DEF IoctlSetTriggerEnds, IoctlSetTriggerRest
<1>14. ASSUME NEW c \in Procs, NEW t, NEW o \in Outcomes, IoctlSetBitTiming(c, t, o)
      PROVE  ForInv'
  <2>1. IoctlSetBitTimingEnds(c) /\ IoctlSetBitTimingRest(c)
    BY <1>14, CallersAre, IoctlSetBitTimingEffect, IoctlSetBitTimingFrame
  <2>2. QED
    BY <2>1, CallersAre DEF IoctlSetBitTimingEnds, IoctlSetBitTimingRest
<1>15. ASSUME NEW c \in Procs, NEW o, IoctlResetCanSummary(c, o)
      PROVE  ForInv'
  BY <1>15, CallersAre DEF IoctlResetCanSummary, CanShape
<1>16. ASSUME NEW rate, NEW silent, NEW t, NetChangeLink(rate, silent, t)
      PROVE  ForInv'
  <2>1. NetChangeLinkRest(rate, silent, t)
    BY <1>16, NetChangeLinkFrame
  <2>2. QED
    BY <2>1, CallersAre DEF NetChangeLinkRest, ModeBegun
<1>17. ASSUME NetOpen
      PROVE  ForInv'
  <2>1. NetOpenRest
    BY <1>17, NetOpenFrame
  <2>2. QED
    BY <2>1, CallersAre DEF NetOpenRest, ModeBegun
<1>18. ASSUME NetClose
      PROVE  ForInv'
  <2>1. NetCloseRest
    BY <1>18, NetCloseFrame
  <2>2. QED
    BY <2>1, CallersAre DEF NetCloseRest, StopBegun
<1>19. ASSUME NEW f, DeviceFrame(f)
      PROVE  ForInv'
  BY <1>19, CallersAre DEF DeviceFrame, Silent, CanShape
<1>20. ASSUME NEW f, DeviceSummary(f)
      PROVE  ForInv'
  BY <1>20, CallersAre DEF DeviceSummary, Silent, CanShape
<1>21. ASSUME DispatchCan
      PROVE  ForInv'
  BY <1>21, CallersAre DEF DispatchCan, Silent, CanShape
<1>22. ASSUME CanRests
      PROVE  ForInv'
  BY <1>22, CallersAre DEF CanRests, CanShape
<1>23. QED
  BY <1>1, <1>2, <1>3, <1>4, <1>5, <1>6, <1>7, <1>8, <1>9, <1>10, <1>11, <1>12,
     <1>13, <1>14, <1>15, <1>16, <1>17, <1>18, <1>19, <1>20, <1>21, <1>22
     DEF CanNext, CanFile, CanCall, NetCalls, CanDevice

(* The interface of the CAN device has the user that if_type names.        *)
LEMMA NextUser ==
    ASSUME CanShape, ForInv, UserInv, CanNext \/ CanRests
    PROVE  UserInv'
<1> USE DEF ForInv, UserInv, Outcomes, NetGoes, CanRests, canUsers, stats
<1>1. ASSUME NEW c \in Callers, NEW o \in Outcomes, SetMode(c, o)
      PROVE  UserInv'
  <2>1. SetModeEnds(c, o) /\ SetModeRest(c, o)
    BY <1>1, CallersAre, SetModeEffect, SetModeFrame
  <2>2. QED
    BY <2>1, CallersAre DEF SetModeEnds, SetModeRest
<1>2. ASSUME NEW c \in Callers, NEW o \in Outcomes, SetBitTiming(c, o)
      PROVE  UserInv'
  <2>1. SetBitTimingEnds(c, o) /\ SetBitTimingRest(c, o)
    BY <1>2, CallersAre, SetBitTimingEffect, SetBitTimingFrame
  <2>2. QED
    BY <2>1, CallersAre DEF SetBitTimingEnds, SetBitTimingRest
<1>3. ASSUME NEW c \in Callers, NEW o \in Outcomes, StartCan(c, o)
      PROVE  UserInv'
  <2>1. StartCanEnds(c, o) /\ StartCanRest(c, o)
    BY <1>3, CallersAre, StartCanEffect, StartCanFrame
  <2>2. QED
    BY <2>1, CallersAre DEF StartCanEnds, StartCanRest
<1>4. ASSUME NEW c \in Callers, NEW o \in Outcomes, StopCan(c, o)
      PROVE  UserInv'
  <2>1. StopCanEnds(c, o) /\ StopCanRest(c, o)
    BY <1>4, CallersAre, StopCanEffect, StopCanFrame
  <2>2. QED
    BY <2>1, CallersAre DEF StopCanEnds, StopCanRest
<1>5. ASSUME NEW c \in Callers, NEW o \in Outcomes, StopStatus(c, o)
      PROVE  UserInv'
  <2>1. StopStatusEnds(c, o) /\ StopStatusRest(c, o)
    BY <1>5, CallersAre, StopStatusEffect, StopStatusFrame
  <2>2. QED
    BY <2>1, CallersAre DEF StopStatusEnds, StopStatusRest
<1>6. ASSUME DeviceStops
      PROVE  UserInv'
  <2>1. DeviceStopsEnds /\ DeviceStopsRest
    BY <1>6, CallersAre, DeviceStopsEffect, DeviceStopsFrame
  <2>2. QED
    BY <2>1, CallersAre DEF DeviceStopsEnds, DeviceStopsRest
<1>7. ASSUME NEW c \in Procs, CanFileCheck(c)
      PROVE  UserInv'
  BY <1>7, CallersAre DEF CanFileCheck, CanShape
<1>8. ASSUME NEW c \in Procs, CanFileOpen(c)
      PROVE  UserInv'
  BY <1>8, CallersAre DEF CanFileOpen, CanShape
<1>9. ASSUME NEW c \in Procs, CanFileClose(c)
      PROVE  UserInv'
  BY <1>9, CallersAre DEF CanFileClose, CanShape
<1>10. ASSUME NEW c \in Procs, NEW rate, NEW silent, IoctlSetMode(c, rate, silent)
      PROVE  UserInv'
  <2>1. IoctlSetModeRest(c, rate, silent)
    BY <1>10, IoctlSetModeFrame
  <2>2. QED
    BY <2>1, CallersAre DEF IoctlSetModeRest, ModeBegun
<1>11. ASSUME NEW c \in Procs, IoctlStartCan(c)
      PROVE  UserInv'
  <2>1. IoctlStartCanRest(c)
    BY <1>11, IoctlStartCanFrame
  <2>2. QED
    BY <2>1, CallersAre DEF IoctlStartCanRest, StartBegun
<1>12. ASSUME NEW c \in Procs, IoctlStopCan(c)
      PROVE  UserInv'
  <2>1. IoctlStopCanRest(c)
    BY <1>12, IoctlStopCanFrame
  <2>2. QED
    BY <2>1, CallersAre DEF IoctlStopCanRest, StopBegun
<1>13. ASSUME NEW c \in Procs, NEW t, NEW o \in Outcomes, IoctlSetTrigger(c, t, o)
      PROVE  UserInv'
  <2>1. IoctlSetTriggerEnds(c) /\ IoctlSetTriggerRest(c)
    BY <1>13, CallersAre, IoctlSetTriggerEffect, IoctlSetTriggerFrame
  <2>2. QED
    BY <2>1, CallersAre DEF IoctlSetTriggerEnds, IoctlSetTriggerRest
<1>14. ASSUME NEW c \in Procs, NEW t, NEW o \in Outcomes, IoctlSetBitTiming(c, t, o)
      PROVE  UserInv'
  <2>1. IoctlSetBitTimingEnds(c) /\ IoctlSetBitTimingRest(c)
    BY <1>14, CallersAre, IoctlSetBitTimingEffect, IoctlSetBitTimingFrame
  <2>2. QED
    BY <2>1, CallersAre DEF IoctlSetBitTimingEnds, IoctlSetBitTimingRest
<1>15. ASSUME NEW c \in Procs, NEW o, IoctlResetCanSummary(c, o)
      PROVE  UserInv'
  BY <1>15, CallersAre DEF IoctlResetCanSummary, CanShape
<1>16. ASSUME NEW rate, NEW silent, NEW t, NetChangeLink(rate, silent, t)
      PROVE  UserInv'
  <2>1. NetChangeLinkRest(rate, silent, t)
    BY <1>16, NetChangeLinkFrame
  <2>2. QED
    BY <2>1, CallersAre DEF NetChangeLinkRest, ModeBegun
<1>17. ASSUME NetOpen
      PROVE  UserInv'
  <2>1. NetOpenRest
    BY <1>17, NetOpenFrame
  <2>2. QED
    BY <2>1, CallersAre DEF NetOpenRest, ModeBegun
<1>18. ASSUME NetClose
      PROVE  UserInv'
  <2>1. NetCloseRest
    BY <1>18, NetCloseFrame
  <2>2. QED
    BY <2>1, CallersAre DEF NetCloseRest, StopBegun
<1>19. ASSUME NEW f, DeviceFrame(f)
      PROVE  UserInv'
  BY <1>19, CallersAre DEF DeviceFrame, Silent, CanShape
<1>20. ASSUME NEW f, DeviceSummary(f)
      PROVE  UserInv'
  BY <1>20, CallersAre DEF DeviceSummary, Silent, CanShape
<1>21. ASSUME DispatchCan
      PROVE  UserInv'
  BY <1>21, CallersAre DEF DispatchCan, Silent, CanShape
<1>22. ASSUME CanRests
      PROVE  UserInv'
  BY <1>22, CallersAre DEF CanRests, CanShape
<1>23. QED
  BY <1>1, <1>2, <1>3, <1>4, <1>5, <1>6, <1>7, <1>8, <1>9, <1>10, <1>11, <1>12,
     <1>13, <1>14, <1>15, <1>16, <1>17, <1>18, <1>19, <1>20, <1>21, <1>22
     DEF CanNext, CanFile, CanCall, NetCalls, CanDevice

(* As long as no two checks overlap, whoever passed one is alone.          *)
LEMMA NextAlone ==
    ASSUME CanShape, ForInv, AloneInv, ~can_overlap', CanNext \/ CanRests
    PROVE  AloneInv'
<1> USE DEF ForInv, AloneInv, NetGoes, CanClaiming, CanRests, canUsers, stats
<1>1. ASSUME NEW c \in Callers, NEW o \in Outcomes, SetMode(c, o)
      PROVE  AloneInv'
  <2>1. SetModeEnds(c, o) /\ SetModeRest(c, o)
    BY <1>1, CallersAre, SetModeEffect, SetModeFrame
  <2>2. QED
    BY <2>1, CallersAre DEF SetModeEnds, SetModeRest
<1>2. ASSUME NEW c \in Callers, NEW o \in Outcomes, SetBitTiming(c, o)
      PROVE  AloneInv'
  <2>1. SetBitTimingEnds(c, o) /\ SetBitTimingRest(c, o)
    BY <1>2, CallersAre, SetBitTimingEffect, SetBitTimingFrame
  <2>2. QED
    BY <2>1, CallersAre DEF SetBitTimingEnds, SetBitTimingRest
<1>3. ASSUME NEW c \in Callers, NEW o \in Outcomes, StartCan(c, o)
      PROVE  AloneInv'
  <2>1. StartCanEnds(c, o) /\ StartCanRest(c, o)
    BY <1>3, CallersAre, StartCanEffect, StartCanFrame
  <2>2. QED
    BY <2>1, CallersAre DEF StartCanEnds, StartCanRest
<1>4. ASSUME NEW c \in Callers, NEW o \in Outcomes, StopCan(c, o)
      PROVE  AloneInv'
  <2>1. StopCanEnds(c, o) /\ StopCanRest(c, o)
    BY <1>4, CallersAre, StopCanEffect, StopCanFrame
  <2>2. QED
    BY <2>1, CallersAre DEF StopCanEnds, StopCanRest
<1>5. ASSUME NEW c \in Callers, NEW o \in Outcomes, StopStatus(c, o)
      PROVE  AloneInv'
  <2>1. StopStatusEnds(c, o) /\ StopStatusRest(c, o)
    BY <1>5, CallersAre, StopStatusEffect, StopStatusFrame
  <2>2. QED
    BY <2>1, CallersAre DEF StopStatusEnds, StopStatusRest
<1>6. ASSUME DeviceStops
      PROVE  AloneInv'
  <2>1. DeviceStopsEnds /\ DeviceStopsRest
    BY <1>6, CallersAre, DeviceStopsEffect, DeviceStopsFrame
  <2>2. QED
    BY <2>1, CallersAre DEF DeviceStopsEnds, DeviceStopsRest
<1>7. ASSUME NEW c \in Procs, CanFileCheck(c)
      PROVE  AloneInv'
  BY ZenonT(60), <1>7, CallersAre DEF CanFileCheck, CanShape
<1>8. ASSUME NEW c \in Procs, CanFileOpen(c)
      PROVE  AloneInv'
  BY <1>8, CallersAre DEF CanFileOpen, CanShape
<1>9. ASSUME NEW c \in Procs, CanFileClose(c)
      PROVE  AloneInv'
  BY <1>9, CallersAre DEF CanFileClose, CanShape
<1>10. ASSUME NEW c \in Procs, NEW rate, NEW silent, IoctlSetMode(c, rate, silent)
      PROVE  AloneInv'
  <2>1. IoctlSetModeRest(c, rate, silent)
    BY <1>10, IoctlSetModeFrame
  <2>2. QED
    BY <2>1, CallersAre DEF IoctlSetModeRest, ModeBegun
<1>11. ASSUME NEW c \in Procs, IoctlStartCan(c)
      PROVE  AloneInv'
  <2>1. IoctlStartCanRest(c)
    BY <1>11, IoctlStartCanFrame
  <2>2. QED
    BY <2>1, CallersAre DEF IoctlStartCanRest, StartBegun
<1>12. ASSUME NEW c \in Procs, IoctlStopCan(c)
      PROVE  AloneInv'
  <2>1. IoctlStopCanRest(c)
    BY <1>12, IoctlStopCanFrame
  <2>2. QED
    BY <2>1, CallersAre DEF IoctlStopCanRest, StopBegun
<1>13. ASSUME NEW c \in Procs, NEW t, NEW o \in Outcomes, IoctlSetTrigger(c, t, o)
      PROVE  AloneInv'
  <2>1. IoctlSetTriggerEnds(c) /\ IoctlSetTriggerRest(c)
    BY <1>13, CallersAre, IoctlSetTriggerEffect, IoctlSetTriggerFrame
  <2>2. QED
    BY <2>1, CallersAre DEF IoctlSetTriggerEnds, IoctlSetTriggerRest
<1>14. ASSUME NEW c \in Procs, NEW t, NEW o \in Outcomes, IoctlSetBitTiming(c, t, o)
      PROVE  AloneInv'
  <2>1. IoctlSetBitTimingEnds(c) /\ IoctlSetBitTimingRest(c)
    BY <1>14, CallersAre, IoctlSetBitTimingEffect, IoctlSetBitTimingFrame
  <2>2. QED
    BY <2>1, CallersAre DEF IoctlSetBitTimingEnds, IoctlSetBitTimingRest
<1>15. ASSUME NEW c \in Procs, NEW o, IoctlResetCanSummary(c, o)
      PROVE  AloneInv'
  BY <1>15, CallersAre DEF IoctlResetCanSummary, CanShape
<1>16. ASSUME NEW rate, NEW silent, NEW t, NetChangeLink(rate, silent, t)
      PROVE  AloneInv'
  <2>1. NetChangeLinkRest(rate, silent, t)
    BY <1>16, NetChangeLinkFrame
  <2>2. QED
    BY <2>1, CallersAre DEF NetChangeLinkRest, ModeBegun
<1>17. ASSUME NetOpen
      PROVE  AloneInv'
  <2>1. NetOpenRest
    BY <1>17, NetOpenFrame
  <2>2. QED
    BY ZenonT(30), <2>1, CallersAre DEF NetOpenRest, ModeBegun, CanShape
<1>18. ASSUME NetClose
      PROVE  AloneInv'
  <2>1. NetCloseRest
    BY <1>18, NetCloseFrame
  <2>2. QED
    BY <2>1, CallersAre DEF NetCloseRest, StopBegun
<1>19. ASSUME NEW f, DeviceFrame(f)
      PROVE  AloneInv'
  BY <1>19, CallersAre DEF DeviceFrame, Silent, CanShape
<1>20. ASSUME NEW f, DeviceSummary(f)
      PROVE  AloneInv'
  BY <1>20, CallersAre DEF DeviceSummary, Silent, CanShape
<1>21. ASSUME DispatchCan
      PROVE  AloneInv'
  BY <1>21, CallersAre DEF DispatchCan, Silent, CanShape
<1>22. ASSUME CanRests
      PROVE  AloneInv'
  BY <1>22, CallersAre DEF CanRests, CanShape
<1>23. QED
  BY <1>1, <1>2, <1>3, <1>4, <1>5, <1>6, <1>7, <1>8, <1>9, <1>10, <1>11, <1>12,
     <1>13, <1>14, <1>15, <1>16, <1>17, <1>18, <1>19, <1>20, <1>21, <1>22
     DEF CanNext, CanFile, CanCall, NetCalls, CanDevice

(* An open of the network interface sets its own settings one by one.      *)
LEMMA NextConf ==
    ASSUME CanShape, ForInv, AloneInv, ConfInv, ~can_overlap', CanNext \/ CanRests
    PROVE  ConfInv'
<1> USE DEF ForInv, AloneInv, ConfInv, Outcomes, SupportsBitTiming, AfterMode, Keeps,
       NetGoes, CanClaiming, CanRests, canUsers, stats
<1>1. ASSUME NEW c \in Callers, NEW o \in Outcomes, SetMode(c, o)
      PROVE  ConfInv'
  <2>1. SetModeEnds(c, o) /\ SetModeRest(c, o)
    BY <1>1, CallersAre, SetModeEffect, SetModeFrame
  <2>2. CASE c = Net /\ o = "ack"
    BY <2>1, <2>2, CallersAre DEF SetModeEnds, SetModeRest
  <2>3. CASE c = Net /\ o # "ack"
    BY <2>1, <2>3, CallersAre DEF SetModeEnds, SetModeRest
  <2>4. CASE c # Net
    <3>1. c \in Procs /\ can_file[c] = "open" /\ can_if = "FILE" /\ net.pc = "down"
      BY <2>1, <2>4, CallersAre DEF SetModeRest, Callers, CanShape
    <3>2. net' = net /\ can_call'[Net].pc = can_call[Net].pc
      BY <2>1, <2>4, <3>1, CallersAre DEF SetModeEnds, SetModeRest
    <3>3. net'.pc = "down" /\ ~(can_call'[Net].pc # "idle" /\ can_call'[Net].for = "open")
      BY <2>1, <2>4, <3>1, <3>2, CallersAre DEF SetModeEnds
    <3>4. QED
      BY <3>3
  <2>5. QED
    BY <2>2, <2>3, <2>4
<1>2. ASSUME NEW c \in Callers, NEW o \in Outcomes, SetBitTiming(c, o)
      PROVE  ConfInv'
  <2>1. SetBitTimingEnds(c, o) /\ SetBitTimingRest(c, o)
    BY <1>2, CallersAre, SetBitTimingEffect, SetBitTimingFrame
  <2>2. QED
    BY <2>1, CallersAre DEF SetBitTimingEnds, SetBitTimingRest
<1>3. ASSUME NEW c \in Callers, NEW o \in Outcomes, StartCan(c, o)
      PROVE  ConfInv'
  <2>1. StartCanEnds(c, o) /\ StartCanRest(c, o)
    BY <1>3, CallersAre, StartCanEffect, StartCanFrame
  <2>2. QED
    BY <2>1, CallersAre DEF StartCanEnds, StartCanRest
<1>4. ASSUME NEW c \in Callers, NEW o \in Outcomes, StopCan(c, o)
      PROVE  ConfInv'
  <2>1. StopCanEnds(c, o) /\ StopCanRest(c, o)
    BY <1>4, CallersAre, StopCanEffect, StopCanFrame
  <2>2. CASE c = Net /\ o = "ack"
    BY <2>1, <2>2, CallersAre DEF StopCanEnds, StopCanRest
  <2>3. CASE c = Net /\ o # "ack"
    BY <2>1, <2>3, CallersAre DEF StopCanEnds, StopCanRest
  <2>4. CASE c # Net
    <3>1. c \in Procs /\ can_file[c] = "open" /\ can_if = "FILE" /\ net.pc = "down"
      BY <2>1, <2>4, CallersAre DEF StopCanRest, Callers, CanShape
    <3>2. net' = net /\ can_call'[Net].pc = can_call[Net].pc
      BY <2>1, <2>4, <3>1, CallersAre DEF StopCanEnds, StopCanRest
    <3>3. net'.pc = "down" /\ ~(can_call'[Net].pc # "idle" /\ can_call'[Net].for = "open")
      BY <2>1, <2>4, <3>1, <3>2, CallersAre DEF StopCanEnds
    <3>4. QED
      BY <3>3
  <2>5. QED
    BY <2>2, <2>3, <2>4
<1>5. ASSUME NEW c \in Callers, NEW o \in Outcomes, StopStatus(c, o)
      PROVE  ConfInv'
  <2>1. StopStatusEnds(c, o) /\ StopStatusRest(c, o)
    BY <1>5, CallersAre, StopStatusEffect, StopStatusFrame
  <2>2. QED
    BY <2>1, CallersAre DEF StopStatusEnds, StopStatusRest
<1>6. ASSUME DeviceStops
      PROVE  ConfInv'
  <2>1. DeviceStopsEnds /\ DeviceStopsRest
    BY <1>6, CallersAre, DeviceStopsEffect, DeviceStopsFrame
  <2>2. QED
    BY <2>1, CallersAre DEF DeviceStopsEnds, DeviceStopsRest
<1>7. ASSUME NEW c \in Procs, CanFileCheck(c)
      PROVE  ConfInv'
  BY <1>7, CallersAre DEF CanFileCheck, CanShape
<1>8. ASSUME NEW c \in Procs, CanFileOpen(c)
      PROVE  ConfInv'
  BY <1>8, CallersAre DEF CanFileOpen, CanShape
<1>9. ASSUME NEW c \in Procs, CanFileClose(c)
      PROVE  ConfInv'
  BY <1>9, CallersAre DEF CanFileClose, CanShape
<1>10. ASSUME NEW c \in Procs, NEW rate, NEW silent, IoctlSetMode(c, rate, silent)
      PROVE  ConfInv'
  <2>1. IoctlSetModeRest(c, rate, silent)
    BY <1>10, IoctlSetModeFrame
  <2>2. QED
    BY <2>1, CallersAre DEF IoctlSetModeRest, ModeBegun
<1>11. ASSUME NEW c \in Procs, IoctlStartCan(c)
      PROVE  ConfInv'
  <2>1. IoctlStartCanRest(c)
    BY <1>11, IoctlStartCanFrame
  <2>2. QED
    BY <2>1, CallersAre DEF IoctlStartCanRest, StartBegun
<1>12. ASSUME NEW c \in Procs, IoctlStopCan(c)
      PROVE  ConfInv'
  <2>1. IoctlStopCanRest(c)
    BY <1>12, IoctlStopCanFrame
  <2>2. QED
    BY <2>1, CallersAre DEF IoctlStopCanRest, StopBegun
<1>13. ASSUME NEW c \in Procs, NEW t, NEW o \in Outcomes, IoctlSetTrigger(c, t, o)
      PROVE  ConfInv'
  <2>1. IoctlSetTriggerEnds(c) /\ IoctlSetTriggerRest(c)
    BY <1>13, CallersAre, IoctlSetTriggerEffect, IoctlSetTriggerFrame
  <2>2. QED
    BY <2>1, CallersAre DEF IoctlSetTriggerEnds, IoctlSetTriggerRest
<1>14. ASSUME NEW c \in Procs, NEW t, NEW o \in Outcomes, IoctlSetBitTiming(c, t, o)
      PROVE  ConfInv'
  <2>1. IoctlSetBitTimingEnds(c) /\ IoctlSetBitTimingRest(c)
    BY <1>14, CallersAre, IoctlSetBitTimingEffect, IoctlSetBitTimingFrame
  <2>2. QED
    BY <2>1, CallersAre DEF IoctlSetBitTimingEnds, IoctlSetBitTimingRest
<1>15. ASSUME NEW c \in Procs, NEW o, IoctlResetCanSummary(c, o)
      PROVE  ConfInv'
  BY <1>15, CallersAre DEF IoctlResetCanSummary, CanShape
<1>16. ASSUME NEW rate, NEW silent, NEW t, NetChangeLink(rate, silent, t)
      PROVE  ConfInv'
  <2>1. NetChangeLinkRest(rate, silent, t)
    BY <1>16, NetChangeLinkFrame
  <2>2. QED
    BY <2>1, CallersAre DEF NetChangeLinkRest, ModeBegun
<1>17. ASSUME NetOpen
      PROVE  ConfInv'
  <2>1. NetOpenRest
    BY <1>17, NetOpenFrame
  <2>2. QED
    BY <2>1, CallersAre DEF NetOpenRest, ModeBegun
<1>18. ASSUME NetClose
      PROVE  ConfInv'
  <2>1. NetCloseRest
    BY <1>18, NetCloseFrame
  <2>2. QED
    BY <2>1, CallersAre DEF NetCloseRest, StopBegun
<1>19. ASSUME NEW f, DeviceFrame(f)
      PROVE  ConfInv'
  BY <1>19, CallersAre DEF DeviceFrame, Silent, CanShape
<1>20. ASSUME NEW f, DeviceSummary(f)
      PROVE  ConfInv'
  BY <1>20, CallersAre DEF DeviceSummary, Silent, CanShape
<1>21. ASSUME DispatchCan
      PROVE  ConfInv'
  BY <1>21, CallersAre DEF DispatchCan, Silent, CanShape
<1>22. ASSUME CanRests
      PROVE  ConfInv'
  BY <1>22, CallersAre DEF CanRests, CanShape
<1>23. QED
  BY ZenonT(120), <1>1, <1>2, <1>3, <1>4, <1>5, <1>6, <1>7, <1>8, <1>9, <1>10, <1>11, <1>12,
     <1>13, <1>14, <1>15, <1>16, <1>17, <1>18, <1>19, <1>20, <1>21, <1>22
     DEF CanNext, CanFile, CanCall, NetCalls, CanDevice

(* max_token follows the bit rate that was set.                            *)
LEMMA NextToken ==
    ASSUME CanShape, TokenInv, CanNext \/ CanRests
    PROVE  TokenInv'
<1> USE DEF TokenInv, AfterMode, Keeps, CanRests, canUsers, stats
<1>1. ASSUME NEW c \in Callers, NEW o \in Outcomes, SetMode(c, o)
      PROVE  TokenInv'
  <2>1. SetModeEnds(c, o) /\ SetModeRest(c, o)
    BY <1>1, CallersAre, SetModeEffect, SetModeFrame
  <2>2. QED
    BY ZenonT(90), <2>1, CallersAre DEF SetModeEnds, SetModeRest
<1>2. ASSUME NEW c \in Callers, NEW o \in Outcomes, SetBitTiming(c, o)
      PROVE  TokenInv'
  <2>1. SetBitTimingEnds(c, o) /\ SetBitTimingRest(c, o)
    BY <1>2, CallersAre, SetBitTimingEffect, SetBitTimingFrame
  <2>2. QED
    BY <2>1, CallersAre DEF SetBitTimingEnds, SetBitTimingRest
<1>3. ASSUME NEW c \in Callers, NEW o \in Outcomes, StartCan(c, o)
      PROVE  TokenInv'
  <2>1. StartCanEnds(c, o) /\ StartCanRest(c, o)
    BY <1>3, CallersAre, StartCanEffect, StartCanFrame
  <2>2. QED
    BY <2>1, CallersAre DEF StartCanEnds, StartCanRest
<1>4. ASSUME NEW c \in Callers, NEW o \in Outcomes, StopCan(c, o)
      PROVE  TokenInv'
  <2>1. StopCanEnds(c, o) /\ StopCanRest(c, o)
    BY <1>4, CallersAre, StopCanEffect, StopCanFrame
  <2>2. QED
    BY <2>1, CallersAre DEF StopCanEnds, StopCanRest
<1>5. ASSUME NEW c \in Callers, NEW o \in Outcomes, StopStatus(c, o)
      PROVE  TokenInv'
  <2>1. StopStatusEnds(c, o) /\ StopStatusRest(c, o)
    BY <1>5, CallersAre, StopStatusEffect, StopStatusFrame
  <2>2. QED
    BY <2>1, CallersAre DEF StopStatusEnds, StopStatusRest
<1>6. ASSUME DeviceStops
      PROVE  TokenInv'
  <2>1. DeviceStopsEnds /\ DeviceStopsRest
    BY <1>6, CallersAre, DeviceStopsEffect, DeviceStopsFrame
  <2>2. QED
    BY <2>1, CallersAre DEF DeviceStopsEnds, DeviceStopsRest
<1>7. ASSUME NEW c \in Procs, CanFileCheck(c)
      PROVE  TokenInv'
  BY <1>7, CallersAre DEF CanFileCheck, CanShape
<1>8. ASSUME NEW c \in Procs, CanFileOpen(c)
      PROVE  TokenInv'
  BY <1>8, CallersAre DEF CanFileOpen, CanShape
<1>9. ASSUME NEW c \in Procs, CanFileClose(c)
      PROVE  TokenInv'
  BY <1>9, CallersAre DEF CanFileClose, CanShape
<1>10. ASSUME NEW c \in Procs, NEW rate, NEW silent, IoctlSetMode(c, rate, silent)
      PROVE  TokenInv'
  <2>1. IoctlSetModeRest(c, rate, silent)
    BY <1>10, IoctlSetModeFrame
  <2>2. QED
    BY ZenonT(30), <2>1, CallersAre DEF IoctlSetModeRest, ModeBegun
<1>11. ASSUME NEW c \in Procs, IoctlStartCan(c)
      PROVE  TokenInv'
  <2>1. IoctlStartCanRest(c)
    BY <1>11, IoctlStartCanFrame
  <2>2. QED
    BY <2>1, CallersAre DEF IoctlStartCanRest, StartBegun
<1>12. ASSUME NEW c \in Procs, IoctlStopCan(c)
      PROVE  TokenInv'
  <2>1. IoctlStopCanRest(c)
    BY <1>12, IoctlStopCanFrame
  <2>2. QED
    BY <2>1, CallersAre DEF IoctlStopCanRest, StopBegun
<1>13. ASSUME NEW c \in Procs, NEW t, NEW o \in Outcomes, IoctlSetTrigger(c, t, o)
      PROVE  TokenInv'
  <2>1. IoctlSetTriggerEnds(c) /\ IoctlSetTriggerRest(c)
    BY <1>13, CallersAre, IoctlSetTriggerEffect, IoctlSetTriggerFrame
  <2>2. QED
    BY <2>1, CallersAre DEF IoctlSetTriggerEnds, IoctlSetTriggerRest
<1>14. ASSUME NEW c \in Procs, NEW t, NEW o \in Outcomes, IoctlSetBitTiming(c, t, o)
      PROVE  TokenInv'
  <2>1. IoctlSetBitTimingEnds(c) /\ IoctlSetBitTimingRest(c)
    BY <1>14, CallersAre, IoctlSetBitTimingEffect, IoctlSetBitTimingFrame
  <2>2. QED
    BY <2>1, CallersAre DEF IoctlSetBitTimingEnds, IoctlSetBitTimingRest
<1>15. ASSUME NEW c \in Procs, NEW o, IoctlResetCanSummary(c, o)
      PROVE  TokenInv'
  BY <1>15, CallersAre DEF IoctlResetCanSummary, CanShape
<1>16. ASSUME NEW rate, NEW silent, NEW t, NetChangeLink(rate, silent, t)
      PROVE  TokenInv'
  <2>1. NetChangeLinkRest(rate, silent, t)
    BY <1>16, NetChangeLinkFrame
  <2>2. QED
    BY <2>1, CallersAre DEF NetChangeLinkRest, ModeBegun
<1>17. ASSUME NetOpen
      PROVE  TokenInv'
  <2>1. NetOpenRest
    BY <1>17, NetOpenFrame
  <2>2. QED
    BY <2>1, CallersAre DEF NetOpenRest, ModeBegun
<1>18. ASSUME NetClose
      PROVE  TokenInv'
  <2>1. NetCloseRest
    BY <1>18, NetCloseFrame
  <2>2. QED
    BY <2>1, CallersAre DEF NetCloseRest, StopBegun
<1>19. ASSUME NEW f, DeviceFrame(f)
      PROVE  TokenInv'
  BY <1>19, CallersAre DEF DeviceFrame, Silent, CanShape
<1>20. ASSUME NEW f, DeviceSummary(f)
      PROVE  TokenInv'
  BY <1>20, CallersAre DEF DeviceSummary, Silent, CanShape
<1>21. ASSUME DispatchCan
      PROVE  TokenInv'
  BY <1>21, CallersAre DEF DispatchCan, Silent, CanShape
<1>22. ASSUME CanRests
      PROVE  TokenInv'
  BY <1>22, CallersAre DEF CanRests, CanShape
<1>23. QED
  BY <1>1, <1>2, <1>3, <1>4, <1>5, <1>6, <1>7, <1>8, <1>9, <1>10, <1>11, <1>12,
     <1>13, <1>14, <1>15, <1>16, <1>17, <1>18, <1>19, <1>20, <1>21, <1>22
     DEF CanNext, CanFile, CanCall, NetCalls, CanDevice

(* A stop ends when the channel is seen stopped or was told three times.   *)
LEMMA NextStop ==
    ASSUME CanShape, StopInv, CanNext \/ CanRests
    PROVE  StopInv'
<1> USE DEF StopInv, StoppedOrToldThrice, NotEnded, Outcomes, AfterMode, Keeps, CanRests,
       canUsers, stats
<1>1. ASSUME NEW c \in Callers, NEW o \in Outcomes, SetMode(c, o)
      PROVE  StopInv'
  <2>1. SetModeEnds(c, o) /\ SetModeRest(c, o)
    BY <1>1, CallersAre, SetModeEffect, SetModeFrame
  <2>2. QED
    BY <2>1, CallersAre DEF SetModeEnds, SetModeRest
<1>2. ASSUME NEW c \in Callers, NEW o \in Outcomes, SetBitTiming(c, o)
      PROVE  StopInv'
  <2>1. SetBitTimingEnds(c, o) /\ SetBitTimingRest(c, o)
    BY <1>2, CallersAre, SetBitTimingEffect, SetBitTimingFrame
  <2>2. QED
    BY <2>1, CallersAre DEF SetBitTimingEnds, SetBitTimingRest
<1>3. ASSUME NEW c \in Callers, NEW o \in Outcomes, StartCan(c, o)
      PROVE  StopInv'
  <2>1. StartCanEnds(c, o) /\ StartCanRest(c, o)
    BY <1>3, CallersAre, StartCanEffect, StartCanFrame
  <2>2. QED
    BY <2>1, CallersAre DEF StartCanEnds, StartCanRest
<1>4. ASSUME NEW c \in Callers, NEW o \in Outcomes, StopCan(c, o)
      PROVE  StopInv'
  <2>1. StopCanEnds(c, o) /\ StopCanRest(c, o)
    BY <1>4, CallersAre, StopCanEffect, StopCanFrame
  <2>2. QED
    BY <2>1, CallersAre DEF StopCanEnds, StopCanRest
<1>5. ASSUME NEW c \in Callers, NEW o \in Outcomes, StopStatus(c, o)
      PROVE  StopInv'
  <2>1. StopStatusEnds(c, o) /\ StopStatusRest(c, o)
    BY <1>5, CallersAre, StopStatusEffect, StopStatusFrame
  <2>2. QED
    BY <2>1, CallersAre DEF StopStatusEnds, StopStatusRest
<1>6. ASSUME DeviceStops
      PROVE  StopInv'
  <2>1. DeviceStopsEnds /\ DeviceStopsRest
    BY <1>6, CallersAre, DeviceStopsEffect, DeviceStopsFrame
  <2>2. QED
    BY <2>1, CallersAre DEF DeviceStopsEnds, DeviceStopsRest
<1>7. ASSUME NEW c \in Procs, CanFileCheck(c)
      PROVE  StopInv'
  BY <1>7, CallersAre DEF CanFileCheck, CanShape
<1>8. ASSUME NEW c \in Procs, CanFileOpen(c)
      PROVE  StopInv'
  BY <1>8, CallersAre DEF CanFileOpen, CanShape
<1>9. ASSUME NEW c \in Procs, CanFileClose(c)
      PROVE  StopInv'
  BY <1>9, CallersAre DEF CanFileClose, CanShape
<1>10. ASSUME NEW c \in Procs, NEW rate, NEW silent, IoctlSetMode(c, rate, silent)
      PROVE  StopInv'
  <2>1. IoctlSetModeRest(c, rate, silent)
    BY <1>10, IoctlSetModeFrame
  <2>2. QED
    BY <2>1, CallersAre DEF IoctlSetModeRest, ModeBegun
<1>11. ASSUME NEW c \in Procs, IoctlStartCan(c)
      PROVE  StopInv'
  <2>1. IoctlStartCanRest(c)
    BY <1>11, IoctlStartCanFrame
  <2>2. QED
    BY <2>1, CallersAre DEF IoctlStartCanRest, StartBegun
<1>12. ASSUME NEW c \in Procs, IoctlStopCan(c)
      PROVE  StopInv'
  <2>1. IoctlStopCanRest(c)
    BY <1>12, IoctlStopCanFrame
  <2>2. QED
    BY <2>1, CallersAre DEF IoctlStopCanRest, StopBegun
<1>13. ASSUME NEW c \in Procs, NEW t, NEW o \in Outcomes, IoctlSetTrigger(c, t, o)
      PROVE  StopInv'
  <2>1. IoctlSetTriggerEnds(c) /\ IoctlSetTriggerRest(c)
    BY <1>13, CallersAre, IoctlSetTriggerEffect, IoctlSetTriggerFrame
  <2>2. QED
    BY <2>1, CallersAre DEF IoctlSetTriggerEnds, IoctlSetTriggerRest
<1>14. ASSUME NEW c \in Procs, NEW t, NEW o \in Outcomes, IoctlSetBitTiming(c, t, o)
      PROVE  StopInv'
  <2>1. IoctlSetBitTimingEnds(c) /\ IoctlSetBitTimingRest(c)
    BY <1>14, CallersAre, IoctlSetBitTimingEffect, IoctlSetBitTimingFrame
  <2>2. QED
    BY <2>1, CallersAre DEF IoctlSetBitTimingEnds, IoctlSetBitTimingRest
<1>15. ASSUME NEW c \in Procs, NEW o, IoctlResetCanSummary(c, o)
      PROVE  StopInv'
  BY <1>15, CallersAre DEF IoctlResetCanSummary, CanShape
<1>16. ASSUME NEW rate, NEW silent, NEW t, NetChangeLink(rate, silent, t)
      PROVE  StopInv'
  <2>1. NetChangeLinkRest(rate, silent, t)
    BY <1>16, NetChangeLinkFrame
  <2>2. QED
    BY <2>1, CallersAre DEF NetChangeLinkRest, ModeBegun
<1>17. ASSUME NetOpen
      PROVE  StopInv'
  <2>1. NetOpenRest
    BY <1>17, NetOpenFrame
  <2>2. QED
    BY <2>1, CallersAre DEF NetOpenRest, ModeBegun
<1>18. ASSUME NetClose
      PROVE  StopInv'
  <2>1. NetCloseRest
    BY <1>18, NetCloseFrame
  <2>2. QED
    BY <2>1, CallersAre DEF NetCloseRest, StopBegun
<1>19. ASSUME NEW f, DeviceFrame(f)
      PROVE  StopInv'
  BY <1>19, CallersAre DEF DeviceFrame, Silent, CanShape
<1>20. ASSUME NEW f, DeviceSummary(f)
      PROVE  StopInv'
  BY <1>20, CallersAre DEF DeviceSummary, Silent, CanShape
<1>21. ASSUME DispatchCan
      PROVE  StopInv'
  BY <1>21, CallersAre DEF DispatchCan, Silent, CanShape
<1>22. ASSUME CanRests
      PROVE  StopInv'
  BY <1>22, CallersAre DEF CanRests, CanShape
<1>23. QED
  BY <1>1, <1>2, <1>3, <1>4, <1>5, <1>6, <1>7, <1>8, <1>9, <1>10, <1>11, <1>12,
     <1>13, <1>14, <1>15, <1>16, <1>17, <1>18, <1>19, <1>20, <1>21, <1>22
     DEF CanNext, CanFile, CanCall, NetCalls, CanDevice

(* The frames in rx_data are of the run that they are read in.             *)
LEMMA NextRun ==
    ASSUME CanShape, RunInv, CanNext \/ CanRests
    PROVE  RunInv'
<1> USE DEF RunInv, Outcomes, AfterMode, Keeps, CanRests, canUsers, stats
<1>1. ASSUME NEW c \in Callers, NEW o \in Outcomes, SetMode(c, o)
      PROVE  RunInv'
  <2>1. SetModeEnds(c, o) /\ SetModeRest(c, o)
    BY <1>1, CallersAre, SetModeEffect, SetModeFrame
  <2>2. QED
    BY <2>1, CallersAre DEF SetModeEnds, SetModeRest
<1>2. ASSUME NEW c \in Callers, NEW o \in Outcomes, SetBitTiming(c, o)
      PROVE  RunInv'
  <2>1. SetBitTimingEnds(c, o) /\ SetBitTimingRest(c, o)
    BY <1>2, CallersAre, SetBitTimingEffect, SetBitTimingFrame
  <2>2. QED
    BY <2>1, CallersAre DEF SetBitTimingEnds, SetBitTimingRest
<1>3. ASSUME NEW c \in Callers, NEW o \in Outcomes, StartCan(c, o)
      PROVE  RunInv'
  <2>1. StartCanEnds(c, o) /\ StartCanRest(c, o)
    BY <1>3, CallersAre, StartCanEffect, StartCanFrame
  <2>2. QED
    BY <2>1, CallersAre DEF StartCanEnds, StartCanRest
<1>4. ASSUME NEW c \in Callers, NEW o \in Outcomes, StopCan(c, o)
      PROVE  RunInv'
  <2>1. StopCanEnds(c, o) /\ StopCanRest(c, o)
    BY <1>4, CallersAre, StopCanEffect, StopCanFrame
  <2>2. QED
    BY <2>1, CallersAre DEF StopCanEnds, StopCanRest
<1>5. ASSUME NEW c \in Callers, NEW o \in Outcomes, StopStatus(c, o)
      PROVE  RunInv'
  <2>1. StopStatusEnds(c, o) /\ StopStatusRest(c, o)
    BY <1>5, CallersAre, StopStatusEffect, StopStatusFrame
  <2>2. QED
    BY <2>1, CallersAre DEF StopStatusEnds, StopStatusRest
<1>6. ASSUME DeviceStops
      PROVE  RunInv'
  <2>1. DeviceStopsEnds /\ DeviceStopsRest
    BY <1>6, CallersAre, DeviceStopsEffect, DeviceStopsFrame
  <2>2. QED
    BY <2>1, CallersAre DEF DeviceStopsEnds, DeviceStopsRest
<1>7. ASSUME NEW c \in Procs, CanFileCheck(c)
      PROVE  RunInv'
  BY <1>7, CallersAre DEF CanFileCheck, CanShape
<1>8. ASSUME NEW c \in Procs, CanFileOpen(c)
      PROVE  RunInv'
  BY <1>8, CallersAre DEF CanFileOpen, CanShape
<1>9. ASSUME NEW c \in Procs, CanFileClose(c)
      PROVE  RunInv'
  BY <1>9, CallersAre DEF CanFileClose, CanShape
<1>10. ASSUME NEW c \in Procs, NEW rate, NEW silent, IoctlSetMode(c, rate, silent)
      PROVE  RunInv'
  <2>1. IoctlSetModeRest(c, rate, silent)
    BY <1>10, IoctlSetModeFrame
  <2>2. QED
    BY <2>1, CallersAre DEF IoctlSetModeRest, ModeBegun
<1>11. ASSUME NEW c \in Procs, IoctlStartCan(c)
      PROVE  RunInv'
  <2>1. IoctlStartCanRest(c)
    BY <1>11, IoctlStartCanFrame
  <2>2. QED
    BY <2>1, CallersAre DEF IoctlStartCanRest, StartBegun
<1>12. ASSUME NEW c \in Procs, IoctlStopCan(c)
      PROVE  RunInv'
  <2>1. IoctlStopCanRest(c)
    BY <1>12, IoctlStopCanFrame
  <2>2. QED
    BY <2>1, CallersAre DEF IoctlStopCanRest, StopBegun
<1>13. ASSUME NEW c \in Procs, NEW t, NEW o \in Outcomes, IoctlSetTrigger(c, t, o)
      PROVE  RunInv'
  <2>1. IoctlSetTriggerEnds(c) /\ IoctlSetTriggerRest(c)
    BY <1>13, CallersAre, IoctlSetTriggerEffect, IoctlSetTriggerFrame
  <2>2. QED
    BY <2>1, CallersAre DEF IoctlSetTriggerEnds, IoctlSetTriggerRest
<1>14. ASSUME NEW c \in Procs, NEW t, NEW o \in Outcomes, IoctlSetBitTiming(c, t, o)
      PROVE  RunInv'
  <2>1. IoctlSetBitTimingEnds(c) /\ IoctlSetBitTimingRest(c)
    BY <1>14, CallersAre, IoctlSetBitTimingEffect, IoctlSetBitTimingFrame
  <2>2. QED
    BY <2>1, CallersAre DEF IoctlSetBitTimingEnds, IoctlSetBitTimingRest
<1>15. ASSUME NEW c \in Procs, NEW o, IoctlResetCanSummary(c, o)
      PROVE  RunInv'
  BY <1>15, CallersAre DEF IoctlResetCanSummary, CanShape
<1>16. ASSUME NEW rate, NEW silent, NEW t, NetChangeLink(rate, silent, t)
      PROVE  RunInv'
  <2>1. NetChangeLinkRest(rate, silent, t)
    BY <1>16, NetChangeLinkFrame
  <2>2. QED
    BY <2>1, CallersAre DEF NetChangeLinkRest, ModeBegun
<1>17. ASSUME NetOpen
      PROVE  RunInv'
  <2>1. NetOpenRest
    BY <1>17, NetOpenFrame
  <2>2. QED
    BY <2>1, CallersAre DEF NetOpenRest, ModeBegun
<1>18. ASSUME NetClose
      PROVE  RunInv'
  <2>1. NetCloseRest
    BY <1>18, NetCloseFrame
  <2>2. QED
    BY <2>1, CallersAre DEF NetCloseRest, StopBegun
<1>19. ASSUME NEW f, DeviceFrame(f)
      PROVE  RunInv'
  BY <1>19, CallersAre DEF DeviceFrame, Silent, CanShape
<1>20. ASSUME NEW f, DeviceSummary(f)
      PROVE  RunInv'
  BY <1>20, CallersAre DEF DeviceSummary, Silent, CanShape
<1>21. ASSUME DispatchCan
      PROVE  RunInv'
  BY <1>21, CallersAre DEF DispatchCan, Silent, CanShape
<1>22. ASSUME CanRests
      PROVE  RunInv'
  BY <1>22, CallersAre DEF CanRests, CanShape
<1>23. QED
  BY <1>1, <1>2, <1>3, <1>4, <1>5, <1>6, <1>7, <1>8, <1>9, <1>10, <1>11, <1>12,
     <1>13, <1>14, <1>15, <1>16, <1>17, <1>18, <1>19, <1>20, <1>21, <1>22
     DEF CanNext, CanFile, CanCall, NetCalls, CanDevice

(* An overlap of two checks stays recorded.                                *)
LEMMA CanOverlapStays ==
    ASSUME CanShape, can_overlap, CanNext \/ CanRests
    PROVE  can_overlap'
<1> USE DEF CanRests, canUsers, stats
<1>1. ASSUME NEW c \in Callers, NEW o \in Outcomes, SetMode(c, o)
      PROVE  can_overlap'
  <2>1. SetModeEnds(c, o) /\ SetModeRest(c, o)
    BY <1>1, CallersAre, SetModeEffect, SetModeFrame
  <2>2. QED
    BY <2>1, CallersAre DEF SetModeEnds, SetModeRest
<1>2. ASSUME NEW c \in Callers, NEW o \in Outcomes, SetBitTiming(c, o)
      PROVE  can_overlap'
  <2>1. SetBitTimingEnds(c, o) /\ SetBitTimingRest(c, o)
    BY <1>2, CallersAre, SetBitTimingEffect, SetBitTimingFrame
  <2>2. QED
    BY <2>1, CallersAre DEF SetBitTimingEnds, SetBitTimingRest
<1>3. ASSUME NEW c \in Callers, NEW o \in Outcomes, StartCan(c, o)
      PROVE  can_overlap'
  <2>1. StartCanEnds(c, o) /\ StartCanRest(c, o)
    BY <1>3, CallersAre, StartCanEffect, StartCanFrame
  <2>2. QED
    BY <2>1, CallersAre DEF StartCanEnds, StartCanRest
<1>4. ASSUME NEW c \in Callers, NEW o \in Outcomes, StopCan(c, o)
      PROVE  can_overlap'
  <2>1. StopCanEnds(c, o) /\ StopCanRest(c, o)
    BY <1>4, CallersAre, StopCanEffect, StopCanFrame
  <2>2. QED
    BY <2>1, CallersAre DEF StopCanEnds, StopCanRest
<1>5. ASSUME NEW c \in Callers, NEW o \in Outcomes, StopStatus(c, o)
      PROVE  can_overlap'
  <2>1. StopStatusEnds(c, o) /\ StopStatusRest(c, o)
    BY <1>5, CallersAre, StopStatusEffect, StopStatusFrame
  <2>2. QED
    BY <2>1, CallersAre DEF StopStatusEnds, StopStatusRest
<1>6. ASSUME DeviceStops
      PROVE  can_overlap'
  <2>1. DeviceStopsEnds /\ DeviceStopsRest
    BY <1>6, CallersAre, DeviceStopsEffect, DeviceStopsFrame
  <2>2. QED
    BY <2>1, CallersAre DEF DeviceStopsEnds, DeviceStopsRest
<1>7. ASSUME NEW c \in Procs, CanFileCheck(c)
      PROVE  can_overlap'
  BY <1>7, CallersAre DEF CanFileCheck, CanShape
<1>8. ASSUME NEW c \in Procs, CanFileOpen(c)
      PROVE  can_overlap'
  BY <1>8, CallersAre DEF CanFileOpen, CanShape
<1>9. ASSUME NEW c \in Procs, CanFileClose(c)
      PROVE  can_overlap'
  BY <1>9, CallersAre DEF CanFileClose, CanShape
<1>10. ASSUME NEW c \in Procs, NEW rate, NEW silent, IoctlSetMode(c, rate, silent)
      PROVE  can_overlap'
  <2>1. IoctlSetModeRest(c, rate, silent)
    BY <1>10, IoctlSetModeFrame
  <2>2. QED
    BY <2>1, CallersAre DEF IoctlSetModeRest, ModeBegun
<1>11. ASSUME NEW c \in Procs, IoctlStartCan(c)
      PROVE  can_overlap'
  <2>1. IoctlStartCanRest(c)
    BY <1>11, IoctlStartCanFrame
  <2>2. QED
    BY <2>1, CallersAre DEF IoctlStartCanRest, StartBegun
<1>12. ASSUME NEW c \in Procs, IoctlStopCan(c)
      PROVE  can_overlap'
  <2>1. IoctlStopCanRest(c)
    BY <1>12, IoctlStopCanFrame
  <2>2. QED
    BY <2>1, CallersAre DEF IoctlStopCanRest, StopBegun
<1>13. ASSUME NEW c \in Procs, NEW t, NEW o \in Outcomes, IoctlSetTrigger(c, t, o)
      PROVE  can_overlap'
  <2>1. IoctlSetTriggerEnds(c) /\ IoctlSetTriggerRest(c)
    BY <1>13, CallersAre, IoctlSetTriggerEffect, IoctlSetTriggerFrame
  <2>2. QED
    BY <2>1, CallersAre DEF IoctlSetTriggerEnds, IoctlSetTriggerRest
<1>14. ASSUME NEW c \in Procs, NEW t, NEW o \in Outcomes, IoctlSetBitTiming(c, t, o)
      PROVE  can_overlap'
  <2>1. IoctlSetBitTimingEnds(c) /\ IoctlSetBitTimingRest(c)
    BY <1>14, CallersAre, IoctlSetBitTimingEffect, IoctlSetBitTimingFrame
  <2>2. QED
    BY <2>1, CallersAre DEF IoctlSetBitTimingEnds, IoctlSetBitTimingRest
<1>15. ASSUME NEW c \in Procs, NEW o, IoctlResetCanSummary(c, o)
      PROVE  can_overlap'
  BY <1>15, CallersAre DEF IoctlResetCanSummary, CanShape
<1>16. ASSUME NEW rate, NEW silent, NEW t, NetChangeLink(rate, silent, t)
      PROVE  can_overlap'
  <2>1. NetChangeLinkRest(rate, silent, t)
    BY <1>16, NetChangeLinkFrame
  <2>2. QED
    BY <2>1, CallersAre DEF NetChangeLinkRest, ModeBegun
<1>17. ASSUME NetOpen
      PROVE  can_overlap'
  <2>1. NetOpenRest
    BY <1>17, NetOpenFrame
  <2>2. QED
    BY <2>1, CallersAre DEF NetOpenRest, ModeBegun
<1>18. ASSUME NetClose
      PROVE  can_overlap'
  <2>1. NetCloseRest
    BY <1>18, NetCloseFrame
  <2>2. QED
    BY <2>1, CallersAre DEF NetCloseRest, StopBegun
<1>19. ASSUME NEW f, DeviceFrame(f)
      PROVE  can_overlap'
  BY <1>19, CallersAre DEF DeviceFrame, Silent, CanShape
<1>20. ASSUME NEW f, DeviceSummary(f)
      PROVE  can_overlap'
  BY <1>20, CallersAre DEF DeviceSummary, Silent, CanShape
<1>21. ASSUME DispatchCan
      PROVE  can_overlap'
  BY <1>21, CallersAre DEF DispatchCan, Silent, CanShape
<1>22. ASSUME CanRests
      PROVE  can_overlap'
  BY <1>22, CallersAre DEF CanRests, CanShape
<1>23. QED
  BY <1>1, <1>2, <1>3, <1>4, <1>5, <1>6, <1>7, <1>8, <1>9, <1>10, <1>11, <1>12,
     <1>13, <1>14, <1>15, <1>16, <1>17, <1>18, <1>19, <1>20, <1>21, <1>22
     DEF CanNext, CanFile, CanCall, NetCalls, CanDevice

CanInv ==
    /\ CanShape /\ ForInv /\ UserInv /\ TokenInv /\ StopInv /\ RunInv
    /\ ~can_overlap => AloneInv /\ ConfInv

(* Just probed.                                                            *)
LEMMA InitCan == CanInit => CanInv
<1> SUFFICES ASSUME CanInit
             PROVE  CanInv
  OBVIOUS
<1>1. \A c \in Callers : can_call[c] = NotCallingCan /\ can_call[c].pc = "idle"
  BY IdleRecord DEF CanInit
<1>2. CallShape
  BY <1>1, IdleRecord DEF CanInit, CallShape
<1>3. can.start = FALSE /\ IsCan(can)
  BY DEF CanInit, IsCan
<1>4. IsNet(net) /\ net.pc = "down"
  BY DEF CanInit, IsNet
<1>5. IsAsked(asked)
  BY DEF CanInit, IsAsked
<1>6. CanShape
  BY <1>2, <1>3, <1>4, <1>5 DEF CanShape, CanInit
<1>7. ForInv /\ UserInv /\ TokenInv /\ StopInv /\ RunInv
  BY <1>1, <1>4, CallersAre
     DEF CanInit, ForInv, UserInv, TokenInv, StopInv, StoppedOrToldThrice, NotEnded,
         RunInv
<1>8. AloneInv /\ ConfInv
  BY <1>1, <1>4, CallersAre DEF CanInit, AloneInv, ConfInv
<1>9. QED
  BY <1>6, <1>7, <1>8 DEF CanInv

(* The invariant is inductive.                                             *)
LEMMA NextCan ==
    ASSUME CanInv, CanNext \/ CanRests
    PROVE  CanInv'
<1> USE DEF CanInv
<1>1. CanShape' /\ ForInv' /\ UserInv'
  BY NextCanShape, NextFor, NextUser
<1>2. TokenInv' /\ StopInv' /\ RunInv'
  BY NextToken, NextStop, NextRun
<1>3. ASSUME ~can_overlap'
      PROVE  AloneInv' /\ ConfInv'
  <2>1. ~can_overlap
    BY <1>3, CanOverlapStays
  <2>2. QED
    BY <1>3, <2>1, NextAlone, NextConf
<1>4. QED
  BY <1>1, <1>2, <1>3

(* The CAN device of whatever product keeps its invariant: the steps of    *)
(* the analog device leave it alone.                                       *)
LEMMA CanInvariant == ProductsSpec => []CanInv
<1>1. ProductsInit => CanInv
  BY InitCan DEF ProductsInit
<1>2. ASSUME CanInv, [ProductsNext]_<<analogVars, canVars, product>>
      PROVE  CanInv'
  <2>1. CanNext \/ CanRests
    BY <1>2 DEF ProductsNext, CanRests, canVars, canUsers, stats
  <2>2. QED
    BY <1>2, <2>1, NextCan
<1>3. QED
  BY <1>1, <1>2, PTL DEF ProductsSpec

(* A set with no two elements has at most one.                             *)
LEMMA AtMostOne ==
    ASSUME NEW S, \A p, q \in S : p = q
    PROVE  Cardinality(S) <= 1
<1>1. CASE S = {}
  BY <1>1, FS_EmptySet
<1>2. CASE S # {}
  <2>1. PICK p : S = {p}
    BY <1>2
  <2>2. Cardinality({p}) = 1
    BY FS_Singleton
  <2>3. QED
    BY <2>1, <2>2
<1>3. QED
  BY <1>1, <1>2

(* if_type of a CAN device names a user that is there, and the only one as *)
(* long as no two of them check it together.                               *)
THEOREM CanInterfaceIsUsed == ProductsSpec => []CanInterfaceHasUser
<1>1. CanInv => CanInterfaceHasUser
  <2> SUFFICES ASSUME CanInv
               PROVE  CanInterfaceHasUser
    OBVIOUS
  <2>1. can_if = "FILE" => CanFilesInUse # {}
    BY DEF CanInv, UserInv, CanFilesInUse
  <2>2. can_if = "NET" => net.pc \in {"up", "stuck"}
    BY DEF CanInv, UserInv
  <2>3. ASSUME ~can_overlap
        PROVE  /\ CanFilesInUse # {} => can_if = "FILE"
               /\ net.pc \in {"up", "stuck"} => can_if = "NET"
               /\ \A p, q \in CanFilesInUse : p = q
    BY <2>3 DEF CanInv, AloneInv, CanFilesInUse
  <2>4. QED
    BY <2>1, <2>2, <2>3, AtMostOne DEF CanInterfaceHasUser
<1>2. QED
  BY <1>1, CanInvariant, PTL

(* After apt_usbtrx_unique_can_stop_can has succeeded, a channel that is   *)
(* still started, and that nobody has started since, was told three times  *)
(* to stop, and is about to unless another caller disturbed the call.      *)
THEOREM StopsAreObeyed == ProductsSpec => []StoppedOrToldThrice
<1>1. CanInv => StoppedOrToldThrice
  BY DEF CanInv, StopInv
<1>2. QED
  BY <1>1, CanInvariant, PTL

(* max_token belongs to the bit rate that apt_usbtrx_unique_can_set_mode   *)
(* has set, unless that failed or overlapped another one.                  *)
THEOREM TokensFitRate == ProductsSpec => []TokensOfRate
<1>1. CanInv => TokensOfRate
  BY DEF CanInv, TokenInv, TokensOfRate
<1>2. QED
  BY <1>1, CanInvariant, PTL

(* A network interface that apt_usbtrx_unique_can_netdev_open has brought  *)
(* up runs with its link settings.                                         *)
THEOREM NetIsConfigured == ProductsSpec => []NetConfigured
<1>1. CanInv => NetConfigured
  BY DEF CanInv, ConfInv, NetConfigured
<1>2. QED
  BY <1>1, CanInvariant, PTL

(* After START_CAN of a stopped channel that nobody else controls, the     *)
(* frames in rx_data are of its own run.                                   *)
THEOREM FramesAreOfRun == ProductsSpec => []FramesMatchRun
<1>1. CanInv => FramesMatchRun
  BY DEF CanInv, RunInv, FramesMatchRun
<1>2. QED
  BY <1>1, CanInvariant, PTL

-----------------------------------------------------------------------------
(* The analog device                                                       *)

AnalogUserInv ==
    /\ if_type = "FILE" => \E p \in Procs : file[p] = "open"
    /\ if_type = "IIO" => BufferInUse

AnalogAloneInv ==
    /\ \A p, q \in Procs : p # q /\ file[p] # "closed" => file[q] = "closed"
    /\ \A p \in Procs : /\ file[p] = "open" => if_type = "FILE"
                        /\ file[p] = "checked" => if_type = "NONE"
                        /\ buffer.pc # "off" => file[p] = "closed"
    /\ buffer.pc \in {"checked", "failed"} => if_type = "NONE"
    /\ BufferInUse => if_type = "IIO"

(* Samples on their way have the layout of the run; an undisturbed start   *)
(* finds the device stopped and nothing on its way.                        *)
SampleInv ==
    /\ run.by # "none" => analog.start = run.mask /\ sample \in {{}, run.mask}
    /\ run.by = "FILE" => ring \subseteq {run.mask}
    /\ run.by = "IIO" => pushed \subseteq {run.mask}
    /\ \A p \in Procs : call[p].pc = "control" /\ call[p].quiet =>
           sample = {} /\ analog.start = {} /\ (call[p].cfg.start # {} => ring = {})

IsAnalogCall(r) == r = [pc |-> r.pc, cfg |-> r.cfg, want |-> r.want, quiet |-> r.quiet]

IsAnalog(d) == d = [rate |-> d.rate, range |-> d.range, start |-> d.start, wave |-> d.wave,
                    volt |-> d.volt, freq |-> d.freq, out |-> d.out]

AnalogCalls ==
    /\ call = [p \in Procs |-> call[p]]
    /\ \A p \in Procs : IsAnalogCall(call[p])

AnalogShape ==
    /\ AnalogCalls /\ IsAnalog(analog)
    /\ file = [p \in Procs |-> file[p]]
    /\ \A p \in Procs : file[p] \in {"closed", "checked", "open"}
    /\ buffer = [pc |-> buffer.pc, mask |-> buffer.mask]
    /\ buffer.pc \in {"off", "checked", "claimed", "on", "stopping", "failed"}

-----------------------------------------------------------------------------
(* What a step does to the calls                                           *)

(* As Keeps: the calls of the others, when the device may have changed.    *)
AnalogKeeps(P) ==
    \A q \in P :
        /\ call'[q].pc = call[q].pc
        /\ call[q].pc # "idle" =>
              /\ call'[q].cfg = call[q].cfg
              /\ call'[q].quiet => call[q].quiet /\ analog' = analog

(* The record of no call, and ...                                          *)
LEMMA IdleAnalogCall == IsAnalogCall(NotCalling) /\ NotCalling.pc = "idle"
  BY DEF NotCalling, IsAnalogCall

(* ... that of a call when the device changes under it.                    *)
LEMMA DisturbedCall ==
    ASSUME AnalogCalls, NEW q \in Procs, NEW new, NEW r, r = Disturbed(q, new)
    PROVE  /\ IsAnalogCall(r) /\ r.pc = call[q].pc
           /\ call[q].pc # "idle" =>
                 /\ r.cfg = call[q].cfg
                 /\ r.quiet => call[q].quiet /\ new = analog
<1>1. CASE call[q].pc = "idle"
  BY <1>1, IdleAnalogCall DEF Disturbed
<1>2. CASE call[q].pc # "idle"
  <2>1. r = [call[q] EXCEPT !.quiet = call[q].quiet /\ new = analog]
    BY <1>2 DEF Disturbed
  <2>2. IsAnalogCall(call[q])
    BY DEF AnalogCalls
  <2>3. QED
    BY <1>2, <2>1, <2>2 DEF IsAnalogCall
<1>3. QED
  BY <1>1, <1>2

(* The device changes under all calls: the IIO buffer starts or stops it.  *)
LEMMA AllDisturbed ==
    ASSUME AnalogCalls, NEW new, analog' = new,
           call' = [q \in Procs |-> Disturbed(q, new)]
    PROVE  AnalogCalls' /\ AnalogKeeps(Procs)
<1>1. \A q \in Procs : call'[q] = Disturbed(q, new)
  OBVIOUS
<1>2. call' = [q \in Procs |-> call'[q]]
  OBVIOUS
<1>3. \A q \in Procs : IsAnalogCall(call'[q])
  BY <1>1, DisturbedCall
<1>4. AnalogKeeps(Procs)
  BY <1>1, DisturbedCall DEF AnalogKeeps
<1>5. QED
  BY <1>2, <1>3, <1>4 DEF AnalogCalls

(* A command of p changes the device, and its call returns.                *)
LEMMA UpdatesEffect ==
    ASSUME AnalogCalls, NEW p \in Procs, NEW new, Updates(p, new)
    PROVE  /\ analog' = new /\ AnalogCalls' /\ call'[p].pc = "idle"
           /\ AnalogKeeps(Procs \ {p})
<1>1. analog' = new /\ call'[p] = NotCalling /\ call' = [q \in Procs |-> call'[q]]
  BY DEF Updates
<1>2. \A q \in Procs \ {p} : call'[q] = Disturbed(q, new)
  BY DEF Updates
<1>3. \A q \in Procs : IsAnalogCall(call'[q])
  <2>1. ASSUME NEW q \in Procs
        PROVE  IsAnalogCall(call'[q])
    <3>1. CASE q = p
      BY <3>1, <1>1, IdleAnalogCall
    <3>2. CASE q # p
      BY <3>2, <1>2, DisturbedCall
    <3>3. QED
      BY <3>1, <3>2
  <2>2. QED
    BY <2>1
<1>4. AnalogKeeps(Procs \ {p})
  BY <1>1, <1>2, DisturbedCall DEF AnalogKeeps
<1>5. QED
  BY <1>1, <1>3, <1>4, IdleAnalogCall DEF AnalogCalls

(* The call of p goes on or returns, and the device stays as it is.        *)
LEMMA CallGoesOn ==
    ASSUME AnalogCalls, NEW p \in Procs, NEW r, IsAnalogCall(r), analog' = analog,
           call' = [call EXCEPT ![p] = r]
    PROVE  AnalogCalls' /\ call'[p] = r /\ AnalogKeeps(Procs \ {p})
  BY DEF AnalogCalls, AnalogKeeps

-----------------------------------------------------------------------------
(* The configuration                                                       *)

users_samples == <<if_type, file, buffer, overlap, sample, ring, pushed, run>>

(* An attribute or an ioctl that sets the configuration or the output, at  *)
(* any of its commands: what is started stays started.                     *)
ConfigStep ==
    /\ AnalogCalls' /\ IsAnalog(analog') /\ analog'.start = analog.start
    /\ \E p \in Procs : call'[p].pc # "control" /\ AnalogKeeps(Procs \ {p})
    /\ UNCHANGED users_samples

(* The call returns, ...                                                   *)
LEMMA ReturnsEffect ==
    ASSUME AnalogShape, NEW p \in Procs, CallReturns(p), analog' = analog,
           UNCHANGED users_samples
    PROVE  ConfigStep
<1>1. AnalogCalls' /\ call'[p] = NotCalling /\ AnalogKeeps(Procs \ {p})
  BY IdleAnalogCall, CallGoesOn DEF CallReturns, AnalogShape
<1>2. QED
  BY <1>1, IdleAnalogCall DEF ConfigStep, AnalogShape

(* ... it begins, ...                                                      *)
LEMMA WriteBegins ==
    ASSUME AnalogShape, NEW p \in Procs, NEW want, NEW cfg,
           WriteInput(p, want, cfg) \/ WriteOutput(p, want, cfg)
    PROVE  ConfigStep
<1>1. PICK pc \in {"checkin", "checkout"} : Calls(p, pc, cfg, want, TRUE)
  BY DEF WriteInput, WriteOutput
<1>2. PICK r : r = [pc |-> pc, cfg |-> cfg, want |-> want, quiet |-> TRUE]
  OBVIOUS
<1>3. IsAnalogCall(r) /\ r.pc = pc
  BY <1>2 DEF IsAnalogCall
<1>4. call' = [call EXCEPT ![p] = r]
  BY <1>1, <1>2 DEF Calls
<1>5. analog' = analog /\ UNCHANGED users_samples
  BY DEF WriteInput, WriteOutput, users, samples, users_samples
<1>6. AnalogCalls' /\ call'[p] = r /\ AnalogKeeps(Procs \ {p})
  BY <1>3, <1>4, <1>5, CallGoesOn DEF AnalogShape
<1>7. QED
  BY <1>3, <1>5, <1>6 DEF ConfigStep, AnalogShape

(* ... it has found the device stopped, ...                                *)
LEMMA WriteGoesOn ==
    ASSUME AnalogShape, NEW p \in Procs, NEW pc \in {"setin", "setout"},
           call' = [call EXCEPT ![p].pc = pc], analog' = analog, UNCHANGED users_samples
    PROVE  ConfigStep
<1>1. PICK r : r = [call[p] EXCEPT !.pc = pc]
  OBVIOUS
<1>2. IsAnalogCall(call[p])
  BY DEF AnalogShape, AnalogCalls
<1>3. IsAnalogCall(r) /\ r.pc = pc
  BY <1>1, <1>2 DEF IsAnalogCall
<1>4. call' = [call EXCEPT ![p] = r]
  BY <1>1
<1>5. AnalogCalls' /\ call'[p] = r /\ AnalogKeeps(Procs \ {p})
  BY <1>3, <1>4, CallGoesOn DEF AnalogShape
<1>6. QED
  BY <1>3, <1>5 DEF ConfigStep, AnalogShape

(* ... and it sets the configuration.                                      *)
LEMMA ConfigUpdates ==
    ASSUME AnalogShape, NEW p \in Procs, NEW new, IsAnalog(new), new.start = analog.start,
           Updates(p, new), UNCHANGED users_samples
    PROVE  ConfigStep
  BY UpdatesEffect DEF ConfigStep, AnalogShape

(* The commands that set the configuration keep what is started.           *)
LEMMA ConfigOfDevice ==
    ASSUME IsAnalog(analog), NEW o, NEW cfg, NEW on
    PROVE  /\ IsAnalog(SetAnalogInput(o, cfg)) /\ SetAnalogInput(o, cfg).start = analog.start
           /\ IsAnalog(SetAnalogOutput(o, cfg))
           /\ SetAnalogOutput(o, cfg).start = analog.start
           /\ IsAnalog(ControlAnalogOutput(o, on))
           /\ ControlAnalogOutput(o, on).start = analog.start
<1>1. PICK i : i = PackSetAnalogInput(cfg)
  OBVIOUS
<1>2. IsAnalog(i) /\ i.start = analog.start
  BY <1>1 DEF PackSetAnalogInput, IsAnalog
<1>3. PICK u : u = PackSetAnalogOutput(cfg)
  OBVIOUS
<1>4. IsAnalog(u) /\ u.start = analog.start
  BY ZenonT(30), <1>3 DEF PackSetAnalogOutput, IsAnalog
<1>5. PICK w : w = [analog EXCEPT !.out = on]
  OBVIOUS
<1>6. IsAnalog(w) /\ w.start = analog.start
  BY <1>5 DEF IsAnalog
<1>7. QED
  BY <1>1, <1>2, <1>3, <1>4, <1>5, <1>6
     DEF SetAnalogInput, SetAnalogOutput, ControlAnalogOutput, Held

(* The actions of the configuration are such steps.                        *)
LEMMA ConfigSteps ==
    ASSUME AnalogShape, NEW p \in Procs,
           \/ Attributes(p) \/ IoctlSet(p) \/ IsDeviceInputStart(p)
           \/ IsDeviceOutputStart(p) \/ StatusFails(p)
           \/ \E on \in BOOLEAN, o \in Outcomes : IoctlControlOutput(p, on, o)
           \/ \E o \in Outcomes : SetDeviceInput(p, o) \/ SetDeviceOutput(p, o)
    PROVE  ConfigStep
<1> USE DEF users, samples, users_samples
<1>1. ASSUME NEW on \in BOOLEAN, NEW o \in Outcomes, ControlDeviceOutput(p, on, o)
      PROVE  ConfigStep
  <2>1. Updates(p, ControlAnalogOutput(o, on)) /\ UNCHANGED users_samples
    BY <1>1 DEF ControlDeviceOutput
  <2>2. QED
    BY <2>1, ConfigOfDevice, ConfigUpdates DEF AnalogShape
<1>2. CASE Attributes(p)
  <2>1. CASE \E on \in BOOLEAN, o \in Outcomes : ControlDeviceOutput(p, on, o)
    BY <2>1, <1>1
  <2>2. CASE WriteRaw(p)
    BY <2>2, WriteBegins DEF WriteRaw
  <2>3. CASE \E c \in Ch, v \in RangeModes : SetInVoltRange(p, c, v)
    BY <2>3, WriteBegins DEF SetInVoltRange
  <2>4. CASE \E r \in RateModes : SetInVoltSampFreq(p, r)
    BY <2>4, WriteBegins DEF SetInVoltSampFreq
  <2>5. CASE \E w \in WaveModes : SetOutVoltWaveform(p, w)
    BY <2>5, WriteBegins DEF SetOutVoltWaveform
  <2>6. QED
    BY <1>2, <2>1, <2>2, <2>3, <2>4, <2>5 DEF Attributes
<1>3. CASE IoctlSet(p)
  BY <1>3, WriteBegins DEF IoctlSet
<1>4. CASE IsDeviceInputStart(p)
  <2>1. analog' = analog /\ UNCHANGED users_samples
    BY <1>4 DEF IsDeviceInputStart
  <2>2. CallReturns(p) \/ call' = [call EXCEPT ![p].pc = "setin"]
    BY <1>4 DEF IsDeviceInputStart
  <2>3. QED
    BY <2>1, <2>2, ReturnsEffect, WriteGoesOn
<1>5. CASE IsDeviceOutputStart(p)
  <2>1. analog' = analog /\ UNCHANGED users_samples
    BY <1>5 DEF IsDeviceOutputStart
  <2>2. CallReturns(p) \/ call' = [call EXCEPT ![p].pc = "setout"]
    BY <1>5 DEF IsDeviceOutputStart
  <2>3. QED
    BY <2>1, <2>2, ReturnsEffect, WriteGoesOn
<1>6. CASE StatusFails(p)
  <2>1. analog' = analog /\ UNCHANGED users_samples /\ CallReturns(p)
    BY <1>6 DEF StatusFails
  <2>2. QED
    BY <2>1, ReturnsEffect
<1>7. ASSUME NEW o \in Outcomes, SetDeviceInput(p, o)
      PROVE  ConfigStep
  <2>1. UNCHANGED users_samples
    BY <1>7 DEF SetDeviceInput
  <2>2. CASE Updates(p, SetAnalogInput(o, call[p].cfg))
    BY <2>1, <2>2, ConfigOfDevice, ConfigUpdates DEF AnalogShape
  <2>3. CASE CallReturns(p) /\ analog' = analog
    BY <2>1, <2>3, ReturnsEffect
  <2>4. QED
    BY <1>7, <2>2, <2>3 DEF SetDeviceInput
<1>8. ASSUME NEW o \in Outcomes, SetDeviceOutput(p, o)
      PROVE  ConfigStep
  <2>1. UNCHANGED users_samples /\ Updates(p, SetAnalogOutput(o, call[p].cfg))
    BY <1>8 DEF SetDeviceOutput
  <2>2. QED
    BY <2>1, ConfigOfDevice, ConfigUpdates DEF AnalogShape
<1>9. QED
  BY <1>1, <1>2, <1>3, <1>4, <1>5, <1>6, <1>7, <1>8 DEF IoctlControlOutput

-----------------------------------------------------------------------------
(* The steps of the analog device                                          *)

(* Nothing of the analog device changes but hw_timestamp and the bounds.   *)
AnalogRests == UNCHANGED <<analog, call, users_samples>>

(* CONTROL_ANALOG_INPUT of p begins ...                                    *)
ControlBegins(p, s) ==
    /\ AnalogCalls' /\ AnalogKeeps(Procs \ {p})
    /\ call'[p].cfg.start = s
    /\ call'[p].quiet => sample = {} /\ analog.start = {}
    /\ ring' = IF s = {} THEN ring ELSE {}
    /\ UNCHANGED <<analog, if_type, file, buffer, overlap, sample, pushed, run>>

(* ... and ends.                                                           *)
ControlEnds(p, o) ==
    /\ call[p].pc = "control"
    /\ AnalogCalls' /\ call'[p].pc = "idle" /\ AnalogKeeps(Procs \ {p})
    /\ IsAnalog(analog')
    /\ analog'.start = IF o = "lost" THEN analog.start ELSE call[p].cfg.start
    /\ Runs(o, "FILE", call[p].cfg.start, call[p].quiet)
    /\ UNCHANGED <<if_type, file, buffer, overlap, sample, ring, pushed>>

(* The IIO buffer starts sampling ...                                      *)
BufferStarts(o) ==
    /\ buffer.pc = "claimed"
    /\ AnalogCalls' /\ AnalogKeeps(Procs) /\ IsAnalog(analog')
    /\ analog'.start = IF o = "lost" THEN analog.start ELSE buffer.mask
    /\ Runs(o, "IIO", buffer.mask, sample = {} /\ analog.start = {})
    /\ buffer' = [buffer EXCEPT !.pc = IF o = "ack" THEN "on" ELSE "failed"]
    /\ if_type' = IF o = "ack" THEN if_type ELSE "NONE"
    /\ pushed' = {}
    /\ UNCHANGED <<file, overlap, sample, ring>>

(* ... and stops it.                                                       *)
BufferStops(o) ==
    /\ buffer.pc = "on"
    /\ AnalogCalls' /\ AnalogKeeps(Procs) /\ IsAnalog(analog')
    /\ analog'.start = IF o = "lost" THEN analog.start ELSE {}
    /\ Runs(o, "IIO", {}, FALSE)
    /\ buffer' = [buffer EXCEPT !.pc = "stopping"]
    /\ UNCHANGED <<if_type, file, overlap, sample, ring, pushed>>

AnalogStep ==
    \/ ConfigStep
    \/ AnalogRests
    \/ \E p \in Procs : FileOpenCheck(p) \/ FileOpen(p) \/ FileClose(p)
    \/ \E p \in Procs, s \in SUBSET Ch : ControlBegins(p, s)
    \/ \E p \in Procs, o \in Outcomes : ControlEnds(p, o)
    \/ \E mask \in SUBSET Ch : BufferCheck(mask)
    \/ BufferPreenable
    \/ \E o \in Outcomes : BufferStarts(o)
    \/ \E o \in Outcomes : BufferStops(o)
    \/ BufferPostdisable
    \/ DeviceSample
    \/ DispatchAnalog

(* A command that starts or stops the input, as the device executes it.    *)
LEMMA ControlOfDevice ==
    ASSUME IsAnalog(analog), NEW o \in Outcomes, NEW s
    PROVE  /\ IsAnalog(ControlAnalogInput(o, s))
           /\ ControlAnalogInput(o, s).start = IF o = "lost" THEN analog.start ELSE s
<1>1. PICK new : new = [analog EXCEPT !.start = s]
  OBVIOUS
<1>2. IsAnalog(new) /\ new.start = s
  BY <1>1 DEF IsAnalog
<1>3. QED
  BY <1>1, <1>2 DEF ControlAnalogInput, Held, Outcomes

(* CONTROL_ANALOG_INPUT begins ...                                         *)
LEMMA ControlInputBegins ==
    ASSUME AnalogShape, NEW p \in Procs, NEW s \in SUBSET Ch, IoctlControlInput(p, s)
    PROVE  ControlBegins(p, s)
<1>1. PICK r : r = [pc |-> "control", cfg |-> [start |-> s], want |-> << >>,
                    quiet |-> sample = {} /\ analog.start = {}]
  OBVIOUS
<1>2. IsAnalogCall(r) /\ r.cfg.start = s /\ (r.quiet => sample = {} /\ analog.start = {})
  BY <1>1 DEF IsAnalogCall
<1>3. call' = [call EXCEPT ![p] = r] /\ analog' = analog
  BY <1>1 DEF IoctlControlInput, Calls
<1>4. AnalogCalls' /\ call'[p] = r /\ AnalogKeeps(Procs \ {p})
  BY <1>2, <1>3, CallGoesOn DEF AnalogShape
<1>5. /\ ring' = IF s = {} THEN ring ELSE {}
      /\ UNCHANGED <<analog, if_type, file, buffer, overlap, sample, pushed, run>>
  BY DEF IoctlControlInput, users
<1>6. QED
  BY <1>2, <1>4, <1>5 DEF ControlBegins

(* ... and ends as it should.                                              *)
LEMMA ControlInputEnds ==
    ASSUME AnalogShape, NEW p \in Procs, NEW o \in Outcomes, ControlDeviceInput(p, o)
    PROVE  ControlEnds(p, o)
<1>1. PICK s : s = call[p].cfg.start
  OBVIOUS
<1>2. PICK new : new = ControlAnalogInput(o, s)
  OBVIOUS
<1>3. call[p].pc = "control" /\ Updates(p, new) /\ Runs(o, "FILE", s, call[p].quiet)
  BY <1>1, <1>2 DEF ControlDeviceInput
<1>4. analog' = new /\ AnalogCalls' /\ call'[p].pc = "idle" /\ AnalogKeeps(Procs \ {p})
  BY <1>3, UpdatesEffect DEF AnalogShape
<1>5. IsAnalog(new) /\ new.start = IF o = "lost" THEN analog.start ELSE s
  BY <1>2, ControlOfDevice DEF AnalogShape
<1>6. UNCHANGED <<if_type, file, buffer, overlap, sample, ring, pushed>>
  BY DEF ControlDeviceInput, users, samples
<1>7. QED
  BY <1>1, <1>3, <1>4, <1>5, <1>6 DEF ControlEnds

(* So do the postenable and the predisable of the IIO buffer.              *)
LEMMA BufferControls ==
    ASSUME AnalogShape, NEW o \in Outcomes, BufferPostenable(o) \/ BufferPredisable(o)
    PROVE  BufferStarts(o) \/ BufferStops(o)
<1>1. CASE BufferPostenable(o)
  <2>1. PICK new : new = ControlAnalogInput(o, buffer.mask)
    OBVIOUS
  <2>2. analog' = new /\ call' = [q \in Procs |-> Disturbed(q, new)]
    BY <1>1, <2>1 DEF BufferPostenable
  <2>3. AnalogCalls' /\ AnalogKeeps(Procs)
    BY <2>2, AllDisturbed DEF AnalogShape
  <2>4. IsAnalog(new) /\ new.start = IF o = "lost" THEN analog.start ELSE buffer.mask
    BY <2>1, ControlOfDevice DEF AnalogShape
  <2>5. BufferStarts(o)
    BY <1>1, <2>2, <2>3, <2>4 DEF BufferPostenable, BufferStarts
  <2>6. QED
    BY <2>5
<1>2. CASE BufferPredisable(o)
  <2>1. PICK new : new = ControlAnalogInput(o, {})
    OBVIOUS
  <2>2. analog' = new /\ call' = [q \in Procs |-> Disturbed(q, new)]
    BY <1>2, <2>1 DEF BufferPredisable
  <2>3. AnalogCalls' /\ AnalogKeeps(Procs)
    BY <2>2, AllDisturbed DEF AnalogShape
  <2>4. IsAnalog(new) /\ new.start = IF o = "lost" THEN analog.start ELSE {}
    BY <2>1, ControlOfDevice DEF AnalogShape
  <2>5. BufferStops(o)
    BY <1>2, <2>2, <2>3, <2>4 DEF BufferPredisable, BufferStops, samples
  <2>6. QED
    BY <2>5
<1>3. QED
  BY <1>1, <1>2

(* Every action of the analog device is one of these steps.                *)
LEMMA AnalogSteps ==
    ASSUME AnalogShape, AnalogNext
    PROVE  AnalogStep
<1>1. ASSUME NEW p \in Procs, Attributes(p) \/ IoctlSet(p) \/ IsDeviceInputStart(p)
             \/ IsDeviceOutputStart(p) \/ StatusFails(p)
             \/ (\E on \in BOOLEAN, o \in Outcomes : IoctlControlOutput(p, on, o))
             \/ (\E o \in Outcomes : SetDeviceInput(p, o) \/ SetDeviceOutput(p, o))
      PROVE  AnalogStep
  BY <1>1, ConfigSteps DEF AnalogStep
<1>2. ASSUME NEW p \in Procs, FileOpenCheck(p) \/ FileOpen(p) \/ FileClose(p)
      PROVE  AnalogStep
  BY <1>2 DEF AnalogStep
<1>3. ASSUME NEW p \in Procs, NEW s \in SUBSET Ch, IoctlControlInput(p, s)
      PROVE  AnalogStep
  BY <1>3, ControlInputBegins DEF AnalogStep
<1>4. ASSUME NEW p \in Procs, NEW o \in Outcomes, ControlDeviceInput(p, o)
      PROVE  AnalogStep
  BY <1>4, ControlInputEnds DEF AnalogStep
<1>5. CASE Buffer
  <2>1. ASSUME NEW o \in Outcomes, BufferPostenable(o) \/ BufferPredisable(o)
        PROVE  AnalogStep
    BY <2>1, BufferControls DEF AnalogStep
  <2>2. ASSUME NEW mask \in SUBSET Ch, BufferCheck(mask)
        PROVE  AnalogStep
    BY <2>2 DEF AnalogStep
  <2>3. CASE BufferPreenable \/ BufferPostdisable
    BY <2>3 DEF AnalogStep
  <2>4. QED
    BY <1>5, <2>1, <2>2, <2>3 DEF Buffer
<1>6. ASSUME NEW b \in BOOLEAN, SetHwTimestamp(b)
      PROVE  AnalogStep
  <2>1. AnalogRests
    BY <1>6 DEF SetHwTimestamp, AnalogRests, users, samples, users_samples
  <2>2. QED
    BY <2>1 DEF AnalogStep
<1>7. CASE DeviceSample \/ DispatchAnalog
  BY <1>7 DEF AnalogStep
<1>8. QED
  BY <1>1, <1>2, <1>3, <1>4, <1>5, <1>6, <1>7 DEF AnalogNext, AnalogFile, Continue

(* The shape of the state of the analog device is kept.                    *)
LEMMA NextAnalogShape ==
    ASSUME AnalogShape, AnalogStep
    PROVE  AnalogShape'
<1> USE DEF AnalogShape, AnalogCalls, users, samples, users_samples
<1>1. CASE ConfigStep
  BY <1>1 DEF ConfigStep
<1>2. CASE AnalogRests
  BY <1>2 DEF AnalogRests
<1>3. ASSUME NEW p \in Procs, FileOpenCheck(p)
      PROVE  AnalogShape'
  BY <1>3 DEF FileOpenCheck
<1>4. ASSUME NEW p \in Procs, FileOpen(p)
      PROVE  AnalogShape'
  BY <1>4 DEF FileOpen
<1>5. ASSUME NEW p \in Procs, FileClose(p)
      PROVE  AnalogShape'
  BY <1>5 DEF FileClose
<1>6. ASSUME NEW p \in Procs, NEW s \in SUBSET Ch, ControlBegins(p, s)
      PROVE  AnalogShape'
  BY <1>6 DEF ControlBegins
<1>7. ASSUME NEW p \in Procs, NEW o \in Outcomes, ControlEnds(p, o)
      PROVE  AnalogShape'
  BY <1>7 DEF ControlEnds
<1>8. ASSUME NEW mask \in SUBSET Ch, BufferCheck(mask)
      PROVE  AnalogShape'
  BY <1>8 DEF BufferCheck
<1>9. CASE BufferPreenable
  BY <1>9 DEF BufferPreenable
<1>10. ASSUME NEW o \in Outcomes, BufferStarts(o)
      PROVE  AnalogShape'
  BY <1>10 DEF BufferStarts
<1>11. ASSUME NEW o \in Outcomes, BufferStops(o)
      PROVE  AnalogShape'
  BY <1>11 DEF BufferStops
<1>12. CASE BufferPostdisable
  BY <1>12 DEF BufferPostdisable, NoBuffer
<1>13. CASE DeviceSample
  BY <1>13 DEF DeviceSample
<1>14. CASE DispatchAnalog
  BY <1>14 DEF DispatchAnalog
<1>15. QED
  BY <1>1, <1>2, <1>3, <1>4, <1>5, <1>6, <1>7, <1>8, <1>9, <1>10, <1>11, <1>12, <1>13, <1>14
     DEF AnalogStep

(* if_type keeps a user: the last one to claim it gives it back.           *)
LEMMA NextAnalogUser ==
    ASSUME AnalogShape, AnalogUserInv, AnalogStep
    PROVE  AnalogUserInv'
<1> USE DEF AnalogUserInv, BufferInUse, users, samples, users_samples
<1>1. CASE ConfigStep
  BY <1>1 DEF ConfigStep
<1>2. CASE AnalogRests
  BY <1>2 DEF AnalogRests
<1>3. ASSUME NEW p \in Procs, FileOpenCheck(p)
      PROVE  AnalogUserInv'
  BY <1>3 DEF FileOpenCheck, AnalogShape
<1>4. ASSUME NEW p \in Procs, FileOpen(p)
      PROVE  AnalogUserInv'
  BY <1>4 DEF FileOpen, AnalogShape
<1>5. ASSUME NEW p \in Procs, FileClose(p)
      PROVE  AnalogUserInv'
  BY <1>5 DEF FileClose, AnalogShape
<1>6. ASSUME NEW p \in Procs, NEW s \in SUBSET Ch, ControlBegins(p, s)
      PROVE  AnalogUserInv'
  BY <1>6 DEF ControlBegins
<1>7. ASSUME NEW p \in Procs, NEW o \in Outcomes, ControlEnds(p, o)
      PROVE  AnalogUserInv'
  BY <1>7 DEF ControlEnds
<1>8. ASSUME NEW mask \in SUBSET Ch, BufferCheck(mask)
      PROVE  AnalogUserInv'
  BY <1>8 DEF BufferCheck, AnalogShape
<1>9. CASE BufferPreenable
  BY <1>9 DEF BufferPreenable, AnalogShape
<1>10. ASSUME NEW o \in Outcomes, BufferStarts(o)
      PROVE  AnalogUserInv'
  BY <1>10 DEF BufferStarts, AnalogShape
<1>11. ASSUME NEW o \in Outcomes, BufferStops(o)
      PROVE  AnalogUserInv'
  BY <1>11 DEF BufferStops, AnalogShape
<1>12. CASE BufferPostdisable
  BY <1>12 DEF BufferPostdisable, AnalogShape, NoBuffer
<1>13. CASE DeviceSample
  BY <1>13 DEF DeviceSample
<1>14. CASE DispatchAnalog
  BY <1>14 DEF DispatchAnalog
<1>15. QED
  BY <1>1, <1>2, <1>3, <1>4, <1>5, <1>6, <1>7, <1>8, <1>9, <1>10, <1>11, <1>12, <1>13, <1>14
     DEF AnalogStep

(* As long as no two checks overlap, whoever passed one is alone.          *)
LEMMA NextAnalogAlone ==
    ASSUME AnalogShape, AnalogAloneInv, ~overlap', AnalogStep
    PROVE  AnalogAloneInv'
<1> USE DEF AnalogAloneInv, BufferInUse, Claiming, users, samples, users_samples
<1>1. CASE ConfigStep
  BY <1>1 DEF ConfigStep
<1>2. CASE AnalogRests
  BY <1>2 DEF AnalogRests
<1>3. ASSUME NEW p \in Procs, FileOpenCheck(p)
      PROVE  AnalogAloneInv'
  BY <1>3 DEF FileOpenCheck, AnalogShape
<1>4. ASSUME NEW p \in Procs, FileOpen(p)
      PROVE  AnalogAloneInv'
  BY <1>4 DEF FileOpen, AnalogShape
<1>5. ASSUME NEW p \in Procs, FileClose(p)
      PROVE  AnalogAloneInv'
  BY <1>5 DEF FileClose, AnalogShape
<1>6. ASSUME NEW p \in Procs, NEW s \in SUBSET Ch, ControlBegins(p, s)
      PROVE  AnalogAloneInv'
  BY <1>6 DEF ControlBegins
<1>7. ASSUME NEW p \in Procs, NEW o \in Outcomes, ControlEnds(p, o)
      PROVE  AnalogAloneInv'
  BY <1>7 DEF ControlEnds
<1>8. ASSUME NEW mask \in SUBSET Ch, BufferCheck(mask)
      PROVE  AnalogAloneInv'
  BY <1>8 DEF BufferCheck, AnalogShape
<1>9. CASE BufferPreenable
  BY <1>9 DEF BufferPreenable, AnalogShape
<1>10. ASSUME NEW o \in Outcomes, BufferStarts(o)
      PROVE  AnalogAloneInv'
  BY <1>10 DEF BufferStarts, AnalogShape
<1>11. ASSUME NEW o \in Outcomes, BufferStops(o)
      PROVE  AnalogAloneInv'
  BY <1>11 DEF BufferStops, AnalogShape
<1>12. CASE BufferPostdisable
  BY <1>12 DEF BufferPostdisable, AnalogShape, NoBuffer
<1>13. CASE DeviceSample
  BY <1>13 DEF DeviceSample
<1>14. CASE DispatchAnalog
  BY <1>14 DEF DispatchAnalog
<1>15. QED
  BY <1>1, <1>2, <1>3, <1>4, <1>5, <1>6, <1>7, <1>8, <1>9, <1>10, <1>11, <1>12, <1>13, <1>14
     DEF AnalogStep

(* Samples on their way keep the layout of the run.                        *)
LEMMA NextSample ==
    ASSUME AnalogShape, SampleInv, AnalogStep
    PROVE  SampleInv'
<1> USE DEF SampleInv, Runs, NoRun, Outcomes, AnalogKeeps, users, samples, users_samples
<1>1. CASE ConfigStep
  BY <1>1 DEF ConfigStep
<1>2. CASE AnalogRests
  BY <1>2 DEF AnalogRests
<1>3. ASSUME NEW p \in Procs, FileOpenCheck(p)
      PROVE  SampleInv'
  BY <1>3 DEF FileOpenCheck, AnalogShape
<1>4. ASSUME NEW p \in Procs, FileOpen(p)
      PROVE  SampleInv'
  BY <1>4 DEF FileOpen, AnalogShape
<1>5. ASSUME NEW p \in Procs, FileClose(p)
      PROVE  SampleInv'
  BY <1>5 DEF FileClose, AnalogShape
<1>6. ASSUME NEW p \in Procs, NEW s \in SUBSET Ch, ControlBegins(p, s)
      PROVE  SampleInv'
  BY <1>6 DEF ControlBegins
<1>7. ASSUME NEW p \in Procs, NEW o \in Outcomes, ControlEnds(p, o)
      PROVE  SampleInv'
  BY <1>7 DEF ControlEnds
<1>8. ASSUME NEW mask \in SUBSET Ch, BufferCheck(mask)
      PROVE  SampleInv'
  BY <1>8 DEF BufferCheck, AnalogShape
<1>9. CASE BufferPreenable
  BY <1>9 DEF BufferPreenable, AnalogShape
<1>10. ASSUME NEW o \in Outcomes, BufferStarts(o)
      PROVE  SampleInv'
  BY <1>10 DEF BufferStarts, AnalogShape
<1>11. ASSUME NEW o \in Outcomes, BufferStops(o)
      PROVE  SampleInv'
  BY <1>11 DEF BufferStops, AnalogShape
<1>12. CASE BufferPostdisable
  BY <1>12 DEF BufferPostdisable, AnalogShape, NoBuffer
<1>13. CASE DeviceSample
  BY <1>13 DEF DeviceSample
<1>14. CASE DispatchAnalog
  BY <1>14 DEF DispatchAnalog
<1>15. QED
  BY <1>1, <1>2, <1>3, <1>4, <1>5, <1>6, <1>7, <1>8, <1>9, <1>10, <1>11, <1>12, <1>13, <1>14
     DEF AnalogStep

(* An overlap of two checks stays recorded.                                *)
LEMMA OverlapStays ==
    ASSUME AnalogShape, overlap, AnalogStep
    PROVE  overlap'
<1> USE DEF users, samples, users_samples
<1>1. CASE ConfigStep
  BY <1>1 DEF ConfigStep
<1>2. CASE AnalogRests
  BY <1>2 DEF AnalogRests
<1>3. ASSUME NEW p \in Procs, FileOpenCheck(p)
      PROVE  overlap'
  BY <1>3 DEF FileOpenCheck, AnalogShape
<1>4. ASSUME NEW p \in Procs, FileOpen(p)
      PROVE  overlap'
  BY <1>4 DEF FileOpen, AnalogShape
<1>5. ASSUME NEW p \in Procs, FileClose(p)
      PROVE  overlap'
  BY <1>5 DEF FileClose, AnalogShape
<1>6. ASSUME NEW p \in Procs, NEW s \in SUBSET Ch, ControlBegins(p, s)
      PROVE  overlap'
  BY <1>6 DEF ControlBegins
<1>7. ASSUME NEW p \in Procs, NEW o \in Outcomes, ControlEnds(p, o)
      PROVE  overlap'
  BY <1>7 DEF ControlEnds
<1>8. ASSUME NEW mask \in SUBSET Ch, BufferCheck(mask)
      PROVE  overlap'
  BY <1>8 DEF BufferCheck, AnalogShape
<1>9. CASE BufferPreenable
  BY <1>9 DEF BufferPreenable, AnalogShape
<1>10. ASSUME NEW o \in Outcomes, BufferStarts(o)
      PROVE  overlap'
  BY <1>10 DEF BufferStarts, AnalogShape
<1>11. ASSUME NEW o \in Outcomes, BufferStops(o)
      PROVE  overlap'
  BY <1>11 DEF BufferStops, AnalogShape
<1>12. CASE BufferPostdisable
  BY <1>12 DEF BufferPostdisable, AnalogShape, NoBuffer
<1>13. CASE DeviceSample
  BY <1>13 DEF DeviceSample
<1>14. CASE DispatchAnalog
  BY <1>14 DEF DispatchAnalog
<1>15. QED
  BY <1>1, <1>2, <1>3, <1>4, <1>5, <1>6, <1>7, <1>8, <1>9, <1>10, <1>11, <1>12, <1>13, <1>14
     DEF AnalogStep

(* The inductive invariant of the analog device.                           *)
AnalogInv ==
    /\ AnalogShape /\ AnalogUserInv /\ SampleInv
    /\ ~overlap => AnalogAloneInv

(* Just probed.                                                            *)
LEMMA InitAnalog == AnalogInit => AnalogInv
<1> SUFFICES ASSUME AnalogInit
             PROVE  AnalogInv
  OBVIOUS
<1>1. \A p \in Procs : call[p] = NotCalling /\ call[p].pc = "idle"
  BY IdleAnalogCall DEF AnalogInit
<1>2. AnalogCalls
  BY <1>1, IdleAnalogCall DEF AnalogInit, AnalogCalls
<1>3. IsAnalog(analog)
  BY DEF AnalogInit, IsAnalog
<1>4. buffer = [pc |-> buffer.pc, mask |-> buffer.mask] /\ buffer.pc = "off"
  BY DEF AnalogInit, NoBuffer
<1>5. AnalogShape
  BY <1>2, <1>3, <1>4 DEF AnalogInit, AnalogShape
<1>6. AnalogUserInv /\ AnalogAloneInv
  BY <1>4 DEF AnalogInit, AnalogUserInv, AnalogAloneInv, BufferInUse
<1>7. SampleInv
  BY <1>1 DEF AnalogInit, SampleInv, NoRun
<1>8. QED
  BY <1>5, <1>6, <1>7 DEF AnalogInv

(* The invariant is inductive.                                             *)
LEMMA NextAnalog ==
    ASSUME AnalogInv, AnalogStep
    PROVE  AnalogInv'
<1> USE DEF AnalogInv
<1>1. AnalogShape' /\ AnalogUserInv' /\ SampleInv'
  BY NextAnalogShape, NextAnalogUser, NextSample
<1>2. ASSUME ~overlap'
      PROVE  AnalogAloneInv'
  BY <1>2, OverlapStays, NextAnalogAlone
<1>3. QED
  BY <1>1, <1>2

(* The analog device keeps its invariant, whatever its users do; a CAN     *)
(* device has none of its state.                                           *)
LEMMA AnalogInvariant == ProductsSpec => []AnalogInv
<1>1. ProductsInit => AnalogInv
  BY InitAnalog DEF ProductsInit
<1>2. ASSUME AnalogInv, [ProductsNext]_<<analogVars, canVars, product>>
      PROVE  AnalogInv'
  <2>1. CASE AnalogNext
    BY <1>2, <2>1, AnalogSteps, NextAnalog DEF AnalogInv
  <2>2. CASE AnalogRests
    BY <1>2, <2>2, NextAnalog DEF AnalogStep
  <2>3. AnalogNext \/ AnalogRests
    BY <1>2 DEF ProductsNext, AnalogRests, analogVars, users, samples, users_samples
  <2>4. QED
    BY <2>1, <2>2, <2>3
<1>3. QED
  BY <1>1, <1>2, PTL DEF ProductsSpec

(* if_type of the analog device names a user that is there, and the only   *)
(* one as long as ep1_ag08a_open and ep1_ag08a_buffer_preenable do not     *)
(* overlap.                                                                *)
THEOREM InterfaceIsUsed == ProductsSpec => []InterfaceHasUser
<1>1. AnalogInv => InterfaceHasUser
  <2> SUFFICES ASSUME AnalogInv
               PROVE  InterfaceHasUser
    OBVIOUS
  <2>1. if_type = "FILE" => FilesInUse # {}
    BY DEF AnalogInv, AnalogUserInv, FilesInUse
  <2>2. if_type = "IIO" => BufferInUse
    BY DEF AnalogInv, AnalogUserInv
  <2>3. ASSUME ~overlap
        PROVE  /\ FilesInUse # {} => if_type = "FILE"
               /\ BufferInUse => if_type = "IIO"
               /\ \A p, q \in FilesInUse : p = q
    BY <2>3 DEF AnalogInv, AnalogAloneInv, FilesInUse
  <2>4. QED
    BY <2>1, <2>2, <2>3, AtMostOne DEF InterfaceHasUser
<1>2. QED
  BY <1>1, AnalogInvariant, PTL

(* After CONTROL_ANALOG_INPUT, or ep1_ag08a_buffer_postenable, of a stopped *)
(* device that nobody else controls, a reader gets samples of its own run  *)
(* only.                                                                   *)
THEOREM SamplesAreOfRun == ProductsSpec => []SamplesMatchRun
<1>1. AnalogInv => SamplesMatchRun
  BY DEF AnalogInv, SampleInv, SamplesMatchRun
<1>2. QED
  BY <1>1, AnalogInvariant, PTL

(* The same for both products: if_type names a user that is there.         *)
THEOREM IfTypeIsUsed == ProductsSpec => []IfTypeNamesUser
<1>1. InterfaceHasUser /\ CanInterfaceHasUser => IfTypeNamesUser
  BY DEF IfTypeNamesUser
<1>2. QED
  BY <1>1, InterfaceIsUsed, CanInterfaceIsUsed, PTL

(* The reader of a file, of the IIO buffer or of a CAN channel gets the    *)
(* data of the run that it started.                                        *)
THEOREM DataIsOfRun == ProductsSpec => []DataOfRun
<1>1. SamplesMatchRun /\ FramesMatchRun => DataOfRun
  BY DEF DataOfRun
<1>2. QED
  BY <1>1, SamplesAreOfRun, FramesAreOfRun, PTL

(* The tx thread and a network interface that is up work with the settings *)
(* that were sent to the device.                                           *)
THEOREM SettingsAreInForce == ProductsSpec => []SettingsInForce
<1>1. TokensOfRate /\ NetConfigured => SettingsInForce
  BY DEF SettingsInForce
<1>2. QED
  BY <1>1, TokensFitRate, NetIsConfigured, PTL

-----------------------------------------------------------------------------
(* The device holds what its callers have set                              *)

(* The device holds what its callers have set, as the packing functions    *)
(* pack it.                                                                *)
Holds(d, a) ==
    /\ BaudrateValue[d.rate] = a.rate
    /\ a.silent \in BOOLEAN /\ d.normal = ~a.silent
    /\ d.timing = PackSetBitTiming(a.timing)
    /\ a.trigger.logic \in {0, 1} /\ d.trigger = PackSetTrigger(a.trigger)

(* It does so at every moment, and so will it after the next set mode.     *)
HoldsInv ==
    /\ Holds(can, asked)
    /\ net.silent \in BOOLEAN
    /\ \A c \in Callers : can_call[c].pc = "mode" => can_call[c].silent \in BOOLEAN

(* The counters of the device and the numbers of the driver are positive   *)
(* only for frames that the bus carried.                                   *)
SummaryInv ==
    /\ counts = [f \in Frames |-> counts[f]]
    /\ total_num = [k \in Classes |-> total_num[k]]
    /\ \A f \in Frames : counts[f] = 0 \/ f \in received
    /\ wire.kind = "summary" => wire.count = 0 \/ wire.frame \in received
    /\ \A k \in Classes : total_num[k] = 0 \/ \E f \in received : SummaryClass(f) = k

(* The tables of the bit rates are inverse on the modes that are sent.     *)
LEMMA RatesAreModes ==
    \A r \in DOMAIN BaudrateMode : BaudrateValue[BaudrateMode[r]] = r
<1>1. DOMAIN BaudrateMode = {33, 50, 83, 100, 125, 250, 500, 1000}
  BY DEF BaudrateMode
<1>2. /\ BaudrateMode[33] = 16 /\ BaudrateMode[50] = 17
      /\ BaudrateMode[83] = 18 /\ BaudrateMode[100] = 19
  BY DEF BaudrateMode
<1>3. /\ BaudrateMode[125] = 20 /\ BaudrateMode[250] = 21
      /\ BaudrateMode[500] = 22 /\ BaudrateMode[1000] = 23
  BY DEF BaudrateMode
<1>4. /\ BaudrateValue[16] = 33 /\ BaudrateValue[17] = 50
      /\ BaudrateValue[18] = 83 /\ BaudrateValue[19] = 100
  BY DEF BaudrateValue
<1>5. /\ BaudrateValue[20] = 125 /\ BaudrateValue[21] = 250
      /\ BaudrateValue[22] = 500 /\ BaudrateValue[23] = 1000
  BY DEF BaudrateValue
<1>6. QED
  BY <1>1, <1>2, <1>3, <1>4, <1>5

LEMMA SameRates == Ch02aBaudrateValue = BaudrateValue
  BY DEF Ch02aBaudrateValue, BaudrateValue

(* The commands that set something set it in the device and in what its    *)
(* callers expect.                                                         *)
LEMMA ModeIsHeld ==
    ASSUME NEW d, IsCan(d), NEW a, IsAsked(a), Holds(d, a),
           NEW r \in DOMAIN BaudrateMode, NEW s \in BOOLEAN,
           NEW e, e = PackSetMode(d, r, s),
           NEW b, b = [a EXCEPT !.rate = r, !.silent = s]
    PROVE  Holds(e, b)
<1> PICK m : m = BaudrateMode[r]
  OBVIOUS
<1>1. e.rate = m /\ e.normal = ~s /\ e.timing = d.timing /\ e.trigger = d.trigger
  BY DEF PackSetMode, IsCan
<1>2. b.rate = r /\ b.silent = s /\ b.timing = a.timing /\ b.trigger = a.trigger
  BY DEF IsAsked
<1>3. BaudrateValue[m] = r
  BY RatesAreModes
<1>4. QED
  BY <1>1, <1>2, <1>3 DEF Holds

LEMMA TimingIsHeld ==
    ASSUME NEW d, IsCan(d), NEW a, IsAsked(a), Holds(d, a), NEW t,
           NEW e, e = [d EXCEPT !.timing = PackSetBitTiming(t)],
           NEW b, b = [a EXCEPT !.timing = t]
    PROVE  Holds(e, b)
<1>1. /\ e.rate = d.rate /\ e.normal = d.normal /\ e.trigger = d.trigger
      /\ e.timing = PackSetBitTiming(t)
  BY DEF IsCan
<1>2. /\ b.rate = a.rate /\ b.silent = a.silent /\ b.trigger = a.trigger
      /\ b.timing = t
  BY DEF IsAsked
<1>3. QED
  BY <1>1, <1>2 DEF Holds

LEMMA TriggerIsHeld ==
    ASSUME NEW d, IsCan(d), NEW a, IsAsked(a), Holds(d, a), NEW t \in Triggers,
           NEW e, e = [d EXCEPT !.trigger = PackSetTrigger(t)],
           NEW b, b = [a EXCEPT !.trigger = t]
    PROVE  Holds(e, b)
<1>1. /\ e.rate = d.rate /\ e.normal = d.normal /\ e.timing = d.timing
      /\ e.trigger = PackSetTrigger(t)
  BY DEF IsCan
<1>2. /\ b.rate = a.rate /\ b.silent = a.silent /\ b.timing = a.timing
      /\ b.trigger = t
  BY DEF IsAsked
<1>3. t.logic \in {0, 1}
  BY CanAssumption
<1>4. QED
  BY <1>1, <1>2, <1>3 DEF Holds

(* A start or a stop leaves the settings alone.                            *)
LEMMA RunIsNoSetting ==
    ASSUME NEW d, IsCan(d), NEW a, Holds(d, a), NEW u, NEW v,
           NEW e, e = [d EXCEPT !.start = u, !.stopping = v]
    PROVE  Holds(e, a)
<1>1. /\ e.rate = d.rate /\ e.normal = d.normal /\ e.timing = d.timing
      /\ e.trigger = d.trigger
  BY DEF IsCan
<1>2. QED
  BY <1>1 DEF Holds

(* So each command, however it ends, leaves a device that holds what was   *)
(* set: a command that is late is executed, and one that is lost is not.   *)
LEMMA SetModeHolds ==
    ASSUME CanShape, HoldsInv, NEW c \in Callers, NEW o \in Outcomes, SetMode(c, o)
    PROVE  Holds(can', asked')
<1> DEFINE rate == can_call[c].rate
           silent == can_call[c].silent
           known == rate \in DOMAIN BaudrateMode
           new == IF known THEN Held(o, PackSetMode(can, rate, silent), can) ELSE can
<1>1. /\ IF o = "ack" THEN Continues(c, new, AfterMode(c)) ELSE CallFails(c, new)
      /\ asked' = IF known
                  THEN Held(o, [asked EXCEPT !.rate = rate, !.silent = silent], asked)
                  ELSE asked
      /\ can_call[c].pc = "mode"
  BY DEF SetMode
<1>2. silent \in BOOLEAN
  BY <1>1 DEF HoldsInv
<1>3. IsCan(can) /\ IsAsked(asked) /\ Holds(can, asked)
  BY DEF CanShape, HoldsInv
<1>4. PICK packed : packed = PackSetMode(can, rate, silent)
  OBVIOUS
<1>5. PICK wanted : wanted = [asked EXCEPT !.rate = rate, !.silent = silent]
  OBVIOUS
<1> HIDE DEF rate, silent
<1>6. known => Holds(packed, wanted)
  BY <1>2, <1>3, <1>4, <1>5, ModeIsHeld
<1>7. \/ new = can /\ asked' = asked
      \/ known /\ new = packed /\ asked' = wanted
  BY <1>1, <1>4, <1>5 DEF Held
<1> HIDE DEF new, known
<1>8. can' = new
  BY <1>1, ContinuesEffect, CallFailsEffect
<1>9. QED
  BY <1>3, <1>6, <1>7, <1>8

LEMMA SetBitTimingHolds ==
    ASSUME CanShape, HoldsInv, NEW c \in Callers, NEW o \in Outcomes, SetBitTiming(c, o)
    PROVE  Holds(can', asked')
<1> DEFINE next == IF can_call[c].for = "open" THEN "start" ELSE "idle"
<1>1. PICK packed : packed = [can EXCEPT !.timing = PackSetBitTiming(net.timing)]
  OBVIOUS
<1>2. PICK wanted : wanted = [asked EXCEPT !.timing = net.timing]
  OBVIOUS
<1>3. PICK new : new = Held(o, packed, can)
  OBVIOUS
<1>4. /\ IF o = "ack" THEN Continues(c, new, next) ELSE CallFails(c, new)
      /\ asked' = Held(o, wanted, asked)
  BY <1>1, <1>2, <1>3 DEF SetBitTiming
<1>5. IsCan(can) /\ IsAsked(asked) /\ Holds(can, asked)
  BY DEF CanShape, HoldsInv
<1>6. Holds(packed, wanted)
  BY <1>1, <1>2, <1>5, TimingIsHeld
<1>7. can' = new
  BY <1>4, ContinuesEffect, CallFailsEffect
<1>8. QED
  BY <1>3, <1>4, <1>5, <1>6, <1>7 DEF Held

LEMMA StartCanHolds ==
    ASSUME CanShape, HoldsInv, NEW c \in Callers, NEW o \in Outcomes, StartCan(c, o)
    PROVE  Holds(can', asked')
<1>1. PICK started : started = [can EXCEPT !.start = TRUE, !.stopping = FALSE]
  OBVIOUS
<1>2. PICK new : new = Held(o, started, can)
  OBVIOUS
<1>3. /\ GoesOn(c, new, NotCallingCan) \/ CallFails(c, new)
      /\ asked' = asked
  BY <1>1, <1>2 DEF StartCan
<1>4. can' = new
  BY <1>3, IdleRecord, GoesOnEffect, CallFailsEffect DEF CanShape
<1>5. IsCan(can) /\ Holds(can, asked)
  BY DEF CanShape, HoldsInv
<1>6. Holds(started, asked)
  BY <1>1, <1>5, RunIsNoSetting
<1>7. QED
  BY <1>2, <1>3, <1>4, <1>5, <1>6 DEF Held

LEMMA StopCanHolds ==
    ASSUME CanShape, HoldsInv, NEW c \in Callers, NEW o \in Outcomes, StopCan(c, o)
    PROVE  Holds(can', asked')
<1>1. PICK u, v, stopped, new :
          /\ stopped = [can EXCEPT !.start = u, !.stopping = v]
          /\ new = Held(o, stopped, can)
          /\ Continues(c, new, "status") \/ CallFails(c, new)
  BY DEF StopCan
<1>2. can' = new /\ asked' = asked
  BY <1>1, ContinuesEffect, CallFailsEffect DEF StopCan
<1>3. IsCan(can) /\ Holds(can, asked)
  BY DEF CanShape, HoldsInv
<1>4. Holds(stopped, asked)
  BY <1>1, <1>3, RunIsNoSetting
<1>5. QED
  BY <1>1, <1>2, <1>3, <1>4 DEF Held

LEMMA DeviceStopsHolds ==
    ASSUME CanShape, HoldsInv, DeviceStops
    PROVE  Holds(can', asked')
<1>1. IsCan(can) /\ Holds(can, asked)
  BY DEF CanShape, HoldsInv
<1>2. PICK new : new = [can EXCEPT !.start = FALSE, !.stopping = FALSE]
  OBVIOUS
<1>3. can' = new /\ asked' = asked
  BY <1>2 DEF DeviceStops
<1>4. Holds(new, asked)
  BY <1>1, <1>2, RunIsNoSetting
<1>5. QED
  BY <1>3, <1>4

LEMMA IoctlSetTriggerHolds ==
    ASSUME CanShape, HoldsInv, NEW p \in Procs, NEW t \in Triggers, NEW o \in Outcomes,
           IoctlSetTrigger(p, t, o)
    PROVE  Holds(can', asked')
<1>1. IsCan(can) /\ IsAsked(asked) /\ Holds(can, asked)
  BY DEF CanShape, HoldsInv
<1>2. PICK packed : packed = [can EXCEPT !.trigger = PackSetTrigger(t)]
  OBVIOUS
<1>3. PICK wanted : wanted = [asked EXCEPT !.trigger = t]
  OBVIOUS
<1>4. can' = Held(o, packed, can) /\ asked' = Held(o, wanted, asked)
  BY <1>2, <1>3 DEF IoctlSetTrigger, GoesOn
<1>5. Holds(packed, wanted)
  BY <1>1, <1>2, <1>3, TriggerIsHeld
<1>6. QED
  BY <1>1, <1>4, <1>5 DEF Held

LEMMA IoctlSetBitTimingHolds ==
    ASSUME CanShape, HoldsInv, NEW p \in Procs, NEW t \in Timings, NEW o \in Outcomes,
           IoctlSetBitTiming(p, t, o)
    PROVE  Holds(can', asked')
<1>1. IsCan(can) /\ IsAsked(asked) /\ Holds(can, asked)
  BY DEF CanShape, HoldsInv
<1>2. PICK packed : packed = [can EXCEPT !.timing = PackSetBitTiming(t)]
  OBVIOUS
<1>3. PICK wanted : wanted = [asked EXCEPT !.timing = t]
  OBVIOUS
<1>4. can' = Held(o, packed, can) /\ asked' = Held(o, wanted, asked)
  BY <1>2, <1>3 DEF IoctlSetBitTiming, GoesOn
<1>5. Holds(packed, wanted)
  BY <1>1, <1>2, <1>3, TimingIsHeld
<1>6. QED
  BY <1>1, <1>4, <1>5 DEF Held

(* Whatever is sent by whom, and however it ends.                          *)
LEMMA NextHolds ==
    ASSUME CanShape, HoldsInv, CanNext \/ CanRests
    PROVE  HoldsInv'
<1> USE DEF HoldsInv, AfterMode, Keeps, NetGoes, CanRests, canUsers, stats
<1>1. ASSUME NEW c \in Callers, NEW o \in Outcomes, SetMode(c, o)
      PROVE  HoldsInv'
  <2>1. SetModeEnds(c, o) /\ SetModeRest(c, o)
    BY <1>1, CallersAre, SetModeEffect, SetModeFrame
  <2>2. Holds(can', asked')
    BY <1>1, SetModeHolds
  <2>3. QED
    BY <2>1, <2>2, CallersAre DEF SetModeEnds, SetModeRest
<1>2. ASSUME NEW c \in Callers, NEW o \in Outcomes, SetBitTiming(c, o)
      PROVE  HoldsInv'
  <2>1. SetBitTimingEnds(c, o) /\ SetBitTimingRest(c, o)
    BY <1>2, CallersAre, SetBitTimingEffect, SetBitTimingFrame
  <2>2. Holds(can', asked')
    BY <1>2, SetBitTimingHolds
  <2>3. QED
    BY <2>1, <2>2, CallersAre DEF SetBitTimingEnds, SetBitTimingRest
<1>3. ASSUME NEW c \in Callers, NEW o \in Outcomes, StartCan(c, o)
      PROVE  HoldsInv'
  <2>1. StartCanEnds(c, o) /\ StartCanRest(c, o)
    BY <1>3, CallersAre, StartCanEffect, StartCanFrame
  <2>2. Holds(can', asked')
    BY <1>3, StartCanHolds
  <2>3. QED
    BY <2>1, <2>2, CallersAre DEF StartCanEnds, StartCanRest
<1>4. ASSUME NEW c \in Callers, NEW o \in Outcomes, StopCan(c, o)
      PROVE  HoldsInv'
  <2>1. StopCanEnds(c, o) /\ StopCanRest(c, o)
    BY <1>4, CallersAre, StopCanEffect, StopCanFrame
  <2>2. Holds(can', asked')
    BY <1>4, StopCanHolds
  <2>3. QED
    BY <2>1, <2>2, CallersAre DEF StopCanEnds, StopCanRest
<1>5. ASSUME NEW c \in Callers, NEW o \in Outcomes, StopStatus(c, o)
      PROVE  HoldsInv'
  <2>1. StopStatusEnds(c, o) /\ StopStatusRest(c, o)
    BY <1>5, CallersAre, StopStatusEffect, StopStatusFrame
  <2>2. QED
    BY <2>1, CallersAre DEF StopStatusEnds, StopStatusRest
<1>6. ASSUME DeviceStops
      PROVE  HoldsInv'
  <2>1. DeviceStopsEnds /\ DeviceStopsRest
    BY <1>6, CallersAre, DeviceStopsEffect, DeviceStopsFrame
  <2>2. Holds(can', asked')
    BY <1>6, DeviceStopsHolds
  <2>3. QED
    BY <2>1, <2>2, CallersAre DEF DeviceStopsEnds, DeviceStopsRest
<1>7. ASSUME NEW c \in Procs, CanFileCheck(c)
      PROVE  HoldsInv'
  BY <1>7, CallersAre DEF CanFileCheck, CanShape
<1>8. ASSUME NEW c \in Procs, CanFileOpen(c)
      PROVE  HoldsInv'
  BY <1>8, CallersAre DEF CanFileOpen, CanShape
<1>9. ASSUME NEW c \in Procs, CanFileClose(c)
      PROVE  HoldsInv'
  BY <1>9, CallersAre DEF CanFileClose, CanShape
<1>10. ASSUME NEW c \in Procs, NEW rate, NEW silent \in BOOLEAN, IoctlSetMode(c, rate, silent)
      PROVE  HoldsInv'
  <2>1. IoctlSetModeRest(c, rate, silent)
    BY <1>10, CallersAre, IoctlSetModeFrame
  <2>2. QED
    BY <2>1, CallersAre DEF IoctlSetModeRest, ModeBegun
<1>11. ASSUME NEW c \in Procs, IoctlStartCan(c)
      PROVE  HoldsInv'
  <2>1. IoctlStartCanRest(c)
    BY <1>11, CallersAre, IoctlStartCanFrame
  <2>2. QED
    BY <2>1, CallersAre DEF IoctlStartCanRest, StartBegun
<1>12. ASSUME NEW c \in Procs, IoctlStopCan(c)
      PROVE  HoldsInv'
  <2>1. IoctlStopCanRest(c)
    BY <1>12, CallersAre, IoctlStopCanFrame
  <2>2. QED
    BY <2>1, CallersAre DEF IoctlStopCanRest, StopBegun
<1>13. ASSUME NEW c \in Procs, NEW t \in Triggers, NEW o \in Outcomes, IoctlSetTrigger(c, t, o)
      PROVE  HoldsInv'
  <2>1. IoctlSetTriggerEnds(c) /\ IoctlSetTriggerRest(c)
    BY <1>13, CallersAre, IoctlSetTriggerEffect, IoctlSetTriggerFrame
  <2>2. Holds(can', asked')
    BY <1>13, IoctlSetTriggerHolds
  <2>3. QED
    BY <2>1, <2>2, CallersAre DEF IoctlSetTriggerEnds, IoctlSetTriggerRest
<1>14. ASSUME NEW c \in Procs, NEW t \in Timings, NEW o \in Outcomes, IoctlSetBitTiming(c, t, o)
      PROVE  HoldsInv'
  <2>1. IoctlSetBitTimingEnds(c) /\ IoctlSetBitTimingRest(c)
    BY <1>14, CallersAre, IoctlSetBitTimingEffect, IoctlSetBitTimingFrame
  <2>2. Holds(can', asked')
    BY <1>14, IoctlSetBitTimingHolds
  <2>3. QED
    BY <2>1, <2>2, CallersAre DEF IoctlSetBitTimingEnds, IoctlSetBitTimingRest
<1>15. ASSUME NEW c \in Procs, NEW o, IoctlResetCanSummary(c, o)
      PROVE  HoldsInv'
  BY <1>15, CallersAre DEF IoctlResetCanSummary, CanShape
<1>16. ASSUME NEW rate, NEW silent \in BOOLEAN, NEW t \in Timings, NetChangeLink(rate, silent, t)
      PROVE  HoldsInv'
  <2>1. NetChangeLinkRest(rate, silent, t) /\ net'.silent = silent
    BY <1>16, NetChangeLinkFrame DEF NetChangeLink, CanShape, IsNet
  <2>2. QED
    BY <2>1, CallersAre DEF NetChangeLinkRest, ModeBegun
<1>17. ASSUME NetOpen
      PROVE  HoldsInv'
  <2>1. NetOpenRest
    BY <1>17, CallersAre, NetOpenFrame
  <2>2. QED
    BY <2>1, CallersAre DEF NetOpenRest, ModeBegun
<1>18. ASSUME NetClose
      PROVE  HoldsInv'
  <2>1. NetCloseRest
    BY <1>18, CallersAre, NetCloseFrame
  <2>2. QED
    BY <2>1, CallersAre DEF NetCloseRest, StopBegun
<1>19. ASSUME NEW f \in Frames, DeviceFrame(f)
      PROVE  HoldsInv'
  BY <1>19, CallersAre DEF DeviceFrame, Silent, CanShape
<1>20. ASSUME NEW f \in Frames, DeviceSummary(f)
      PROVE  HoldsInv'
  BY <1>20, CallersAre DEF DeviceSummary, Silent, CanShape
<1>21. ASSUME DispatchCan
      PROVE  HoldsInv'
  BY <1>21, CallersAre DEF DispatchCan, Silent, CanShape
<1>22. ASSUME CanRests
      PROVE  HoldsInv'
  BY <1>22, CallersAre DEF CanRests, CanShape
<1>23. QED
  BY <1>1, <1>2, <1>3, <1>4, <1>5, <1>6, <1>7, <1>8, <1>9, <1>10, <1>11, <1>12,
     <1>13, <1>14, <1>15, <1>16, <1>17, <1>18, <1>19, <1>20, <1>21, <1>22
     DEF CanNext, CanFile, CanCall, NetCalls, CanDevice
(* The logic of a trigger is sent as a bit and read back the other way     *)
(* round.                                                                  *)
LEMMA LogicZero ==
    ASSUME NEW t, t.logic = 0, NEW e, e = PackSetTrigger(t)
    PROVE  e.bit = TRUE
<1>1. (t.logic = 0) = TRUE
  OBVIOUS
<1>2. e.bit = (t.logic = 0)
  BY DEF PackSetTrigger
<1>3. QED
  BY Zenon, <1>1, <1>2

LEMMA LogicOne ==
    ASSUME NEW t, t.logic = 1, NEW e, e = PackSetTrigger(t)
    PROVE  e.bit = FALSE
<1>1. (t.logic = 0) = FALSE
  OBVIOUS
<1>2. e.bit = (t.logic = 0)
  BY DEF PackSetTrigger
<1>3. QED
  BY Zenon, <1>1, <1>2

LEMMA LogicOfTrigger ==
    ASSUME NEW t, t.logic \in {0, 1}, NEW e, e = PackSetTrigger(t)
    PROVE  (IF e.bit THEN 1 ELSE 0) = 1 - t.logic
<1>1. CASE t.logic = 0
  <2>1. e.bit = TRUE
    BY <1>1, LogicZero
  <2>2. QED
    BY <1>1, <2>1
<1>2. CASE t.logic = 1
  <2>1. e.bit = FALSE
    BY <1>2, LogicOne
  <2>2. QED
    BY <1>2, <2>1
<1>3. QED
  BY <1>1, <1>2

(* The trigger that a device has from the start.                           *)
LEMMA NoTrigger ==
    ASSUME NEW t, t = [enable |-> FALSE, logic |-> 0, id |-> 0]
    PROVE  PackSetTrigger(t) = [enable |-> FALSE, bit |-> TRUE, id |-> 0]
<1>1. t.logic = 0
  OBVIOUS
<1>2. t.enable = FALSE /\ t.id % 2048 = 0
  OBVIOUS
<1>3. PICK e : e = PackSetTrigger(t)
  OBVIOUS
<1>4. e.bit = TRUE
  BY <1>1, <1>3, LogicZero
<1>5. e.enable = FALSE /\ e.id = 0
  BY <1>2, <1>3 DEF PackSetTrigger
<1>6. e = [enable |-> e.enable, bit |-> e.bit, id |-> e.id]
  BY <1>3 DEF PackSetTrigger
<1>7. QED
  BY <1>3, <1>4, <1>5, <1>6

(* Status and bit timing as the callers get them.                          *)
LEMMA HeldIsShown ==
    ASSUME Holds(can, asked)
    PROVE  StatusShowsSettings
<1> USE DEF Holds, StatusShowsSettings
<1>1. CanGetStatus.rate = asked.rate /\ CanGetStatus.silent = asked.silent
  BY DEF CanGetStatus, ParseCanStatus
<1>2. CanGetStatus.trigger = [enable |-> asked.trigger.enable,
                              logic |-> 1 - asked.trigger.logic,
                              id |-> asked.trigger.id % 2048]
  <2>1. CanGetStatus.trigger = [enable |-> can.trigger.enable, id |-> can.trigger.id,
                                logic |-> IF can.trigger.bit THEN 1 ELSE 0]
    BY DEF CanGetStatus, ParseCanStatus
  <2>2. /\ can.trigger.enable = asked.trigger.enable
        /\ can.trigger.id = asked.trigger.id % 2048
    BY DEF PackSetTrigger
  <2>3. (IF can.trigger.bit THEN 1 ELSE 0) = 1 - asked.trigger.logic
    BY LogicOfTrigger
  <2>4. QED
    BY <2>1, <2>2, <2>3
<1>3. Ch02aGetStatus.rate = asked.rate /\ Ch02aGetStatus.silent = asked.silent
  BY SameRates DEF Ch02aGetStatus, Ch02aParseStatus
<1>4. Ch02aGetBitTiming = [seg |-> asked.timing.seg % 256,
                           brp |-> asked.timing.brp % 65536]
  BY DEF Ch02aGetBitTiming, ParseBitTiming, PackSetBitTiming
<1>5. QED
  BY <1>1, <1>2, <1>3, <1>4

(* Just probed.                                                            *)
LEMMA InitHolds == CanInit => HoldsInv
<1> SUFFICES ASSUME CanInit
             PROVE  HoldsInv
  OBVIOUS
<1>1. PICK mode, t : /\ can = [rate |-> mode, normal |-> TRUE, start |-> FALSE,
                               stopping |-> FALSE, timing |-> PackSetBitTiming(t),
                               trigger |-> [enable |-> FALSE, bit |-> TRUE, id |-> 0]]
                     /\ asked = [rate |-> BaudrateValue[can.rate], silent |-> FALSE,
                                 timing |-> t,
                                 trigger |-> [enable |-> FALSE, logic |-> 0, id |-> 0]]
  BY DEF CanInit
<1>2. /\ BaudrateValue[can.rate] = asked.rate /\ asked.silent = FALSE
      /\ can.normal = TRUE /\ can.timing = PackSetBitTiming(asked.timing)
      /\ asked.trigger.logic = 0
  BY <1>1
<1>3. can.trigger = PackSetTrigger(asked.trigger)
  <2>1. /\ can.trigger = [enable |-> FALSE, bit |-> TRUE, id |-> 0]
        /\ asked.trigger = [enable |-> FALSE, logic |-> 0, id |-> 0]
    BY <1>1
  <2>2. QED
    BY <2>1, NoTrigger
<1>4. Holds(can, asked)
  BY <1>2, <1>3 DEF Holds
<1>5. net.silent = FALSE
  BY DEF CanInit
<1>6. \A c \in Callers : can_call[c].pc = "idle"
  BY IdleRecord DEF CanInit
<1>7. QED
  BY <1>4, <1>5, <1>6 DEF HoldsInv

-----------------------------------------------------------------------------
(* The summaries                                                           *)

LEMMA ClassIsFound == \A f : OfClass(f, SummaryClass(f))
  BY DEF OfClass, SummaryClass

LEMMA DispatchSummary ==
    ASSUME SummaryInv, DispatchCan
    PROVE  SummaryInv'
<1> USE DEF SummaryInv
<1>1. wire'.kind = "none" /\ counts' = counts /\ received' = received
  BY DEF DispatchCan
<1>2. CASE wire.kind = "summary"
  <2>1. PICK k : k = SummaryClass(wire.frame)
    OBVIOUS
  <2>2. total_num' = [total_num EXCEPT ![k] = IF wire.count = 0 THEN @ ELSE wire.count]
    BY <1>2, <2>1 DEF DispatchCan, UpdateStats
  <2>3. total_num' = [j \in Classes |-> total_num'[j]]
    BY <2>2
  <2>4. ASSUME NEW j \in Classes
        PROVE  total_num'[j] = 0 \/ \E f \in received : SummaryClass(f) = j
    <3>1. total_num'[j] = total_num[j] \/ (j = k /\ wire.count # 0)
      BY <2>2
    <3>2. wire.count # 0 => wire.frame \in received
      BY <1>2
    <3>3. QED
      BY <2>1, <3>1, <3>2
  <2>5. QED
    BY <1>1, <2>3, <2>4
<1>3. CASE wire.kind # "summary"
  BY <1>1, <1>3 DEF DispatchCan
<1>4. QED
  BY <1>2, <1>3

LEMMA ResetSummary ==
    ASSUME SummaryInv, NEW p \in Procs, NEW o \in Outcomes, IoctlResetCanSummary(p, o)
    PROVE  SummaryInv'
<1>1. /\ counts' = counts \/ counts' = [f \in Frames |-> 0]
      /\ UNCHANGED <<total_num, received, wire>>
  BY DEF IoctlResetCanSummary, Held
<1>2. counts' = [f \in Frames |-> counts'[f]]
  BY <1>1 DEF SummaryInv
<1>3. \A f \in Frames : counts'[f] = 0 \/ f \in received
  BY <1>1 DEF SummaryInv
<1>4. QED
  BY <1>1, <1>2, <1>3 DEF SummaryInv

LEMMA FrameSummary ==
    ASSUME SummaryInv, NEW f \in Frames, DeviceFrame(f)
    PROVE  SummaryInv'
<1> USE DEF SummaryInv
<1>1. /\ counts' = [counts EXCEPT ![f] = @ + 1] /\ received' = received \cup {f}
      /\ total_num' = total_num /\ wire'.kind = "frame"
  BY DEF DeviceFrame
<1>2. counts' = [g \in Frames |-> counts'[g]]
  BY <1>1
<1>3. \A g \in Frames : counts'[g] = 0 \/ g \in received'
  BY <1>1
<1>4. QED
  BY <1>1, <1>2, <1>3

LEMMA DeviceSummarySummary ==
    ASSUME SummaryInv, NEW f \in Frames, DeviceSummary(f)
    PROVE  SummaryInv'
<1>1. UNCHANGED <<counts, total_num, received>> /\ wire'.count = counts[f] /\ wire'.frame = f
  BY DEF DeviceSummary, stats
<1>2. QED
  BY <1>1 DEF SummaryInv

(* No other step counts or passes on anything.                             *)
LEMMA NextSummary ==
    ASSUME SummaryInv, CanNext \/ CanRests
    PROVE  SummaryInv'
<1>1. CASE UNCHANGED <<counts, total_num, received, wire>>
  BY <1>1 DEF SummaryInv
<1>2. ASSUME NEW p \in Procs, CanFile(p)
      PROVE  SummaryInv'
  <2>1. CASE \E o \in Outcomes : IoctlResetCanSummary(p, o)
    BY <2>1, ResetSummary
  <2>2. \/ \E o \in Outcomes : IoctlResetCanSummary(p, o)
        \/ UNCHANGED <<counts, total_num, received, wire>>
    BY <1>2 DEF CanFile, CanFileCheck, CanFileOpen, CanFileClose, IoctlSetMode,
       IoctlStartCan, IoctlStopCan, IoctlSetTrigger, IoctlSetBitTiming, stats
  <2>3. QED
    BY <1>1, <2>1, <2>2
<1>3. ASSUME NEW c \in Callers, NEW o \in Outcomes, CanCall(c, o)
      PROVE  SummaryInv'
  <2>1. UNCHANGED <<counts, total_num, received, wire>>
    BY <1>3 DEF CanCall, SetMode, SetBitTiming, StartCan, StopCan, StopStatus, stats
  <2>2. QED
    BY <1>1, <2>1
<1>4. CASE NetCalls
  <2>1. UNCHANGED <<counts, total_num, received, wire>>
    BY <1>4 DEF NetCalls, NetChangeLink, NetOpen, NetClose, stats
  <2>2. QED
    BY <1>1, <2>1
<1>5. CASE CanDevice
  <2>1. CASE DeviceStops
    BY <1>1, <2>1 DEF DeviceStops, stats
  <2>2. QED
    BY <1>5, <2>1, FrameSummary, DeviceSummarySummary, DispatchSummary DEF CanDevice
<1>6. CASE CanRests
  BY <1>1, <1>6 DEF CanRests, stats
<1>7. QED
  BY <1>2, <1>3, <1>4, <1>5, <1>6 DEF CanNext

(* Just probed.                                                            *)
LEMMA InitSummary == CanInit => SummaryInv
<1> SUFFICES ASSUME CanInit
             PROVE  SummaryInv
  OBVIOUS
<1>1. /\ counts = [f \in Frames |-> 0] /\ total_num = [k \in Classes |-> 0]
      /\ wire.kind = "none"
  BY DEF CanInit
<1>2. QED
  BY <1>1 DEF SummaryInv

(* What the driver knows of a class was counted for a frame of the class.  *)
LEMMA SummariesOfClass ==
    ASSUME SummaryInv
    PROVE  SummaryOfItsClass
  BY ClassIsFound DEF SummaryInv, SummaryOfItsClass

(* The analog device has bytes that the driver can parse.                  *)
Parses(d) ==
    /\ d.rate \in DOMAIN SendRateFromValue
    /\ d.range = [c \in Ch |-> d.range[c]]
    /\ \A c \in Ch : d.range[c] \in DOMAIN InputVoltageFromValue
    /\ d.volt \in 0..255 /\ d.freq \in 0..255

(* The configuration that an attribute write is about to send: what the    *)
(* device has, but for the attribute written.                              *)
InputWanted(r, d) ==
    \/ \E c \in Ch, v \in RangeModes :
           /\ r.want = <<"range", c, v>>
           /\ r.cfg = [ParseStatus(d) EXCEPT !.range[c] = v]
    \/ \E v \in RateModes :
           r.want = <<"rate", 0, v>> /\ r.cfg = [ParseStatus(d) EXCEPT !.rate = v]

OutputWanted(r, d) ==
    \/ \E v \in WaveModes :
           r.want = <<"wave", 0, v>> /\ r.cfg = [ParseStatus(d) EXCEPT !.wave = v]
    \/ \E v \in Volts :
           r.want = <<"volt", 0, v>> /\ r.cfg = [ParseStatus(d) EXCEPT !.volt = v]
    \/ \E v \in Freqs :
           r.want = <<"freq", 0, v>> /\ r.cfg = [ParseStatus(d) EXCEPT !.freq = v]

(* A call that takes itself for undisturbed: it has found the device       *)
(* stopped, and what it has read is still what the device has.             *)
Undisturbed(r, d) ==
    /\ r.pc = "setin" => d.start = {}
    /\ r.pc = "setout" => ~d.out
    /\ r.want # << >> =>
           /\ r.pc \in {"checkin", "setin"} => InputWanted(r, d)
           /\ r.pc \in {"checkout", "setout"} => OutputWanted(r, d)

CallOf(r, d) ==
    /\ r.pc \in {"checkout", "setout"} => r.cfg.volt \in Int /\ r.cfg.freq \in Int
    /\ r.quiet => Undisturbed(r, d)

WriteInv ==
    /\ Parses(analog)
    /\ \A p \in Procs : CallOf(call[p], analog)

-----------------------------------------------------------------------------
(* The tables of the conversions                                           *)

LEMMA SendRates ==
    /\ DOMAIN SendRateToValue = {10000000, 5000000, 2500000, 1250000, 625000, 312500,
                                 156250, 10000, 1000, 100, 10}
    /\ SendRateToValue[10000000] = 1 /\ SendRateToValue[5000000] = 2
    /\ SendRateToValue[2500000] = 3 /\ SendRateToValue[1250000] = 4
    /\ SendRateToValue[625000] = 5 /\ SendRateToValue[312500] = 6
    /\ SendRateToValue[156250] = 7 /\ SendRateToValue[10000] = 17
    /\ SendRateToValue[1000] = 18 /\ SendRateToValue[100] = 19
    /\ SendRateToValue[10] = 20
  BY SMTT(30) DEF SendRateToValue

LEMMA SendRateBytes ==
    /\ DOMAIN SendRateFromValue = 1..7 \cup 17..20
    /\ SendRateFromValue[1] = 10000000 /\ SendRateFromValue[2] = 5000000
    /\ SendRateFromValue[3] = 2500000 /\ SendRateFromValue[4] = 1250000
    /\ SendRateFromValue[5] = 625000 /\ SendRateFromValue[6] = 312500
    /\ SendRateFromValue[7] = 156250 /\ SendRateFromValue[17] = 10000
    /\ SendRateFromValue[18] = 1000 /\ SendRateFromValue[19] = 100
    /\ SendRateFromValue[20] = 10
  BY SMTT(30) DEF SendRateFromValue

(* What ep1_ag08a_msg_convert_send_rate_to_value makes of a rate, ..._from_ *)
(* value reads back, and the other way round.                              *)
LEMMA RateIsReadBack ==
    \A r \in DOMAIN SendRateToValue :
        /\ SendRateToValue[r] \in DOMAIN SendRateFromValue
        /\ SendRateFromValue[SendRateToValue[r]] = r
  BY SMTT(30), SendRates, SendRateBytes

LEMMA RateIsSentBack ==
    \A b \in DOMAIN SendRateFromValue : SendRateFromValue[b] \in DOMAIN SendRateToValue
  BY SMTT(30), SendRates, SendRateBytes

LEMMA Ranges ==
    /\ DOMAIN InputVoltageToValue =
           {<<-10000, 10000>>, <<-5000, 5000>>, <<-2500, 2500>>, <<-1250, 1250>>,
            <<-800, 800>>, <<-400, 400>>, <<-200, 200>>, <<-100, 100>>, <<0, 5000>>}
    /\ InputVoltageToValue[<<-10000, 10000>>] = 0 /\ InputVoltageToValue[<<-5000, 5000>>] = 1
    /\ InputVoltageToValue[<<-2500, 2500>>] = 2 /\ InputVoltageToValue[<<-1250, 1250>>] = 3
    /\ InputVoltageToValue[<<-800, 800>>] = 4 /\ InputVoltageToValue[<<-400, 400>>] = 5
    /\ InputVoltageToValue[<<-200, 200>>] = 6 /\ InputVoltageToValue[<<-100, 100>>] = 7
    /\ InputVoltageToValue[<<0, 5000>>] = 9
  BY SMTT(30) DEF InputVoltageToValue

LEMMA RangeBytes ==
    /\ DOMAIN InputVoltageFromValue = 0..7 \cup {9}
    /\ InputVoltageFromValue[0] = <<-10000, 10000>> /\ InputVoltageFromValue[1] = <<-5000, 5000>>
    /\ InputVoltageFromValue[2] = <<-2500, 2500>> /\ InputVoltageFromValue[3] = <<-1250, 1250>>
    /\ InputVoltageFromValue[4] = <<-800, 800>> /\ InputVoltageFromValue[5] = <<-400, 400>>
    /\ InputVoltageFromValue[6] = <<-200, 200>> /\ InputVoltageFromValue[7] = <<-100, 100>>
    /\ InputVoltageFromValue[9] = <<0, 5000>>
  BY SMTT(30) DEF InputVoltageFromValue

(* The same for the ranges.                                                *)
LEMMA RangeIsReadBack ==
    \A v \in DOMAIN InputVoltageToValue :
        /\ InputVoltageToValue[v] \in DOMAIN InputVoltageFromValue
        /\ InputVoltageFromValue[InputVoltageToValue[v]] = v
  BY SMTT(30), Ranges, RangeBytes

LEMMA RangeIsSentBack ==
    \A b \in DOMAIN InputVoltageFromValue :
        InputVoltageFromValue[b] \in DOMAIN InputVoltageToValue
  BY SMTT(30), Ranges, RangeBytes

(* ep1_ag08a_msg_convert_input_voltage_to_nano_scale has the scale of each *)
(* range.                                                                  *)
LEMMA ScaleOfRange ==
    \A b \in DOMAIN InputVoltageFromValue :
        NanoScale[b] \div 10 = ((InputVoltageFromValue[b][2] - InputVoltageFromValue[b][1])
                                    * 100000) \div 65534
  BY SMTT(60) DEF InputVoltageFromValue, NanoScale

(* A byte is a byte.                                                       *)
LEMMA ByteRange ==
    /\ \A n \in Int : Byte(n, 20) \in 0..255 /\ Byte(n, 1000) \in 0..255
    /\ Byte(20, 20) = 1 /\ Byte(1000, 1000) = 1
<1>1. ASSUME NEW n \in Int
      PROVE  Byte(n, 20) \in 0..255 /\ Byte(n, 1000) \in 0..255
  <2>1. CASE n >= 0
    BY <2>1 DEF Byte
  <2>2. CASE ~(n >= 0)
    <3>1. -n \in Int /\ (-n) \div 20 \in Int /\ (-n) \div 1000 \in Int
      OBVIOUS
    <3>2. QED
      BY <2>2, <3>1 DEF Byte
  <2>3. QED
    BY <2>1, <2>2
<1>2. QED
  BY <1>1 DEF Byte

-----------------------------------------------------------------------------
(* What a configuration leaves in the device                               *)

(* Only what is started changes.                                           *)
Controlled(d, e) ==
    /\ e.rate = d.rate /\ e.range = d.range
    /\ e.wave = d.wave /\ e.volt = d.volt /\ e.freq = d.freq

(* ep1_ag08a_set_analog_input: the device has the configuration, and the   *)
(* output and what is started are as they were.                            *)
InputSet(d, e, cfg) ==
    /\ Parses(e)
    /\ SendRateFromValue[e.rate] = cfg.rate
    /\ \A c \in Ch : InputVoltageFromValue[e.range[c]] = cfg.range[c]
    /\ e.wave = d.wave /\ e.volt = d.volt /\ e.freq = d.freq
    /\ e.start = d.start /\ e.out = d.out

LEMMA InputIsSet ==
    ASSUME IsAnalog(analog), Parses(analog), NEW cfg, InputIsValid(cfg),
           NEW e, e = PackSetAnalogInput(cfg)
    PROVE  InputSet(analog, e, cfg)
<1>1. PICK rate, range : /\ rate = SendRateToValue[cfg.rate]
                         /\ range = [c \in Ch |-> InputVoltageToValue[cfg.range[c]]]
  OBVIOUS
<1>2. e = [analog EXCEPT !.rate = rate, !.range = range]
  BY <1>1 DEF PackSetAnalogInput
<1>3. /\ e.rate = rate /\ e.range = range /\ e.wave = analog.wave /\ e.volt = analog.volt
      /\ e.freq = analog.freq /\ e.start = analog.start /\ e.out = analog.out
  BY <1>2 DEF IsAnalog
<1>4. rate \in DOMAIN SendRateFromValue /\ SendRateFromValue[rate] = cfg.rate
  BY <1>1, RateIsReadBack DEF InputIsValid
<1>5. \A c \in Ch : /\ range[c] \in DOMAIN InputVoltageFromValue
                    /\ InputVoltageFromValue[range[c]] = cfg.range[c]
  BY <1>1, RangeIsReadBack DEF InputIsValid
<1>6. range = [c \in Ch |-> range[c]]
  BY <1>1
<1>7. QED
  BY <1>3, <1>4, <1>5, <1>6 DEF InputSet, Parses

(* ep1_ag08a_set_analog_output: the same for the output, in bytes.         *)
OutputSet(d, e, cfg) ==
    /\ Parses(e)
    /\ e.wave = cfg.wave
    /\ e.volt = Byte(IF cfg.volt = 0 THEN 20 ELSE cfg.volt, 20)
    /\ e.freq = Byte(IF cfg.freq = 0 THEN 1000 ELSE cfg.freq, 1000)
    /\ e.rate = d.rate /\ e.range = d.range
    /\ e.start = d.start /\ e.out = d.out

LEMMA OutputIsSet ==
    ASSUME IsAnalog(analog), Parses(analog), NEW cfg, cfg.volt \in Int, cfg.freq \in Int,
           NEW e, e = PackSetAnalogOutput(cfg)
    PROVE  OutputSet(analog, e, cfg)
<1>1. /\ e.rate = analog.rate /\ e.range = analog.range /\ e.wave = cfg.wave
      /\ e.volt = Byte(IF cfg.volt = 0 THEN 20 ELSE cfg.volt, 20)
      /\ e.freq = Byte(IF cfg.freq = 0 THEN 1000 ELSE cfg.freq, 1000)
      /\ e.start = analog.start /\ e.out = analog.out
  BY DEF PackSetAnalogOutput, IsAnalog
<1>2. e.volt \in 0..255 /\ e.freq \in 0..255
  <2>1. PICK v, f : /\ v = IF cfg.volt = 0 THEN 20 ELSE cfg.volt
                    /\ f = IF cfg.freq = 0 THEN 1000 ELSE cfg.freq
    OBVIOUS
  <2>2. v \in Int /\ f \in Int
    BY <2>1
  <2>3. e.volt = Byte(v, 20) /\ e.freq = Byte(f, 1000)
    BY <1>1, <2>1
  <2>4. QED
    BY <2>2, <2>3, ByteRange
<1>3. QED
  BY ZenonT(60), <1>1, <1>2 DEF OutputSet, Parses

(* A configuration that was read from the device, and in which only the    *)
(* attribute written was changed, is valid and does not change the others. *)
LEMMA ParsedIsShown ==
    ASSUME NEW d
    PROVE  /\ ParseStatus(d).rate = Shown(d).rate /\ ParseStatus(d).range = Shown(d).range
           /\ ParseStatus(d).wave = Shown(d).wave /\ ParseStatus(d).volt = Shown(d).volt
           /\ ParseStatus(d).freq = Shown(d).freq
           /\ ParseStatus(d).volt = d.volt * 20 /\ ParseStatus(d).freq = d.freq * 1000
           /\ ParseStatus(d).wave = d.wave
           /\ ParseStatus(d).rate = SendRateFromValue[d.rate]
           /\ ParseStatus(d).range = [c \in Ch |-> InputVoltageFromValue[d.range[c]]]
  BY DEF ParseStatus, Shown, GetInVoltRange, GetInVoltSampFreq, GetOutVoltWaveform, ReadRaw

LEMMA InputWrite ==
    ASSUME Parses(analog), NEW r, InputWanted(r, analog), NEW e,
           InputSet(analog, e, r.cfg)
    PROVE  Shown(e) = Written(Shown(analog), r.want)
<1> DEFINE shown == Shown(analog)
           range == [c \in Ch |-> InputVoltageFromValue[analog.range[c]]]
<1>1. /\ shown = [range |-> range, rate |-> SendRateFromValue[analog.rate],
                  wave |-> analog.wave, volt |-> analog.volt * 20, freq |-> analog.freq * 1000]
      /\ Shown(e) = [range |-> [c \in Ch |-> InputVoltageFromValue[e.range[c]]],
                     rate |-> SendRateFromValue[e.rate],
                     wave |-> e.wave, volt |-> e.volt * 20, freq |-> e.freq * 1000]
  BY DEF Shown, GetInVoltRange, GetInVoltSampFreq, GetOutVoltWaveform, ReadRaw
<1>2. Shown(e) = [range |-> [c \in Ch |-> r.cfg.range[c]], rate |-> r.cfg.rate,
                  wave |-> shown.wave, volt |-> shown.volt, freq |-> shown.freq]
  BY <1>1 DEF InputSet
<1>3. PICK parsed : parsed = ParseStatus(analog)
  OBVIOUS
<1>4. /\ parsed = [range |-> range, rate |-> shown.rate, start |-> parsed.start,
                   wave |-> parsed.wave, volt |-> parsed.volt, freq |-> parsed.freq,
                   out |-> parsed.out]
      /\ shown.range = range
  BY <1>1, <1>3 DEF ParseStatus
<1> HIDE DEF shown
<1>5. ASSUME NEW c \in Ch, NEW v \in RangeModes, r.want = <<"range", c, v>>,
             r.cfg = [parsed EXCEPT !.range[c] = v]
      PROVE  Shown(e) = Written(shown, r.want)
  <2>1. r.want[1] = "range" /\ r.want[2] = c /\ r.want[3] = v
    BY <1>5
  <2>2. Written(shown, r.want) = [shown EXCEPT !.range[c] = v]
    BY SMTT(30), <2>1 DEF Written
  <2>3. r.cfg.rate = shown.rate /\ r.cfg.range = [range EXCEPT ![c] = v]
    BY <1>4, <1>5
  <2>4. [d \in Ch |-> r.cfg.range[d]] = [range EXCEPT ![c] = v]
    BY <2>3
  <2>5. [shown EXCEPT !.range[c] = v] =
            [range |-> [range EXCEPT ![c] = v], rate |-> shown.rate, wave |-> shown.wave,
             volt |-> shown.volt, freq |-> shown.freq]
    BY <1>1, <1>4 DEF shown
  <2>6. QED
    BY <1>2, <2>2, <2>3, <2>4, <2>5
<1>6. ASSUME NEW v \in RateModes, r.want = <<"rate", 0, v>>,
             r.cfg = [parsed EXCEPT !.rate = v]
      PROVE  Shown(e) = Written(shown, r.want)
  <2>1. r.want[1] = "rate" /\ r.want[3] = v
    BY <1>6
  <2>2. Written(shown, r.want) = [shown EXCEPT !.rate = v]
    BY SMTT(30), <2>1 DEF Written
  <2>3. r.cfg.rate = v /\ r.cfg.range = range
    BY <1>4, <1>6
  <2>4. [d \in Ch |-> r.cfg.range[d]] = range
    BY <2>3
  <2>5. [shown EXCEPT !.rate = v] =
            [range |-> range, rate |-> v, wave |-> shown.wave,
             volt |-> shown.volt, freq |-> shown.freq]
    BY <1>1, <1>4 DEF shown
  <2>6. QED
    BY <1>2, <2>2, <2>3, <2>4, <2>5
<1>7. QED
  BY <1>3, <1>5, <1>6 DEF InputWanted, shown

LEMMA UnitOfZero ==
    \A n \in Int : /\ Rounded(n, 20) = Byte(IF n = 0 THEN 20 ELSE n, 20) * 20
                   /\ Rounded(n, 1000) = Byte(IF n = 0 THEN 1000 ELSE n, 1000) * 1000
<1>1. ASSUME NEW n \in Int
      PROVE  /\ Rounded(n, 20) = Byte(IF n = 0 THEN 20 ELSE n, 20) * 20
             /\ Rounded(n, 1000) = Byte(IF n = 0 THEN 1000 ELSE n, 1000) * 1000
  <2>1. CASE n = 0
    BY <2>1, ByteRange DEF Rounded
  <2>2. CASE n # 0
    BY <2>2 DEF Rounded
  <2>3. QED
    BY <2>1, <2>2
<1>2. QED
  BY <1>1

LEMMA OutputShown ==
    ASSUME NEW s, NEW t, s = [range |-> s.range, rate |-> s.rate, wave |-> s.wave,
                              volt |-> s.volt, freq |-> s.freq],
           NEW w, NEW x, NEW y, t = [s EXCEPT !.wave = w, !.volt = x, !.freq = y]
    PROVE  t = [range |-> s.range, rate |-> s.rate, wave |-> w, volt |-> x, freq |-> y]
  OBVIOUS

LEMMA OutputWrite ==
    ASSUME Parses(analog), NEW r, OutputWanted(r, analog), NEW e,
           r.cfg.volt \in Int, r.cfg.freq \in Int, OutputSet(analog, e, r.cfg)
    PROVE  Shown(e) = Written(Shown(analog), r.want)
<1>1. PICK shown : shown = Shown(analog)
  OBVIOUS
<1>2. shown = [range |-> shown.range, rate |-> shown.rate, wave |-> shown.wave,
               volt |-> shown.volt, freq |-> shown.freq]
  BY <1>1 DEF Shown
<1>3. /\ shown = [range |-> shown.range, rate |-> shown.rate, wave |-> shown.wave,
                  volt |-> shown.volt, freq |-> shown.freq]
      /\ Shown(e) = [range |-> [c \in Ch |-> InputVoltageFromValue[e.range[c]]],
                     rate |-> SendRateFromValue[e.rate],
                     wave |-> e.wave, volt |-> e.volt * 20, freq |-> e.freq * 1000]
      /\ shown.range = [c \in Ch |-> InputVoltageFromValue[analog.range[c]]]
      /\ shown.rate = SendRateFromValue[analog.rate]
  BY <1>1 DEF Shown, GetInVoltRange, GetInVoltSampFreq, GetOutVoltWaveform, ReadRaw
<1>4. e.volt * 20 = Rounded(r.cfg.volt, 20) /\ e.freq * 1000 = Rounded(r.cfg.freq, 1000)
  BY UnitOfZero DEF OutputSet
<1>5. Shown(e) = [range |-> shown.range, rate |-> shown.rate, wave |-> r.cfg.wave,
                  volt |-> Rounded(r.cfg.volt, 20), freq |-> Rounded(r.cfg.freq, 1000)]
  BY <1>3, <1>4 DEF OutputSet
<1>6. PICK parsed : parsed = ParseStatus(analog)
  OBVIOUS
<1>7. /\ parsed = [rate |-> parsed.rate, range |-> parsed.range, start |-> parsed.start,
                   wave |-> parsed.wave, volt |-> parsed.volt, freq |-> parsed.freq,
                   out |-> parsed.out]
      /\ parsed.wave = shown.wave /\ parsed.volt = shown.volt /\ parsed.freq = shown.freq
  BY <1>1, <1>6, ParsedIsShown DEF ParseStatus
<1>8. ASSUME NEW v, r.want = <<"wave", 0, v>>, r.cfg = [parsed EXCEPT !.wave = v]
      PROVE  Shown(e) = Written(shown, r.want)
  <2>1. r.want[1] = "wave" /\ r.want[3] = v
    BY <1>8
  <2>2. Written(shown, r.want) =
            [shown EXCEPT !.wave = v, !.volt = Rounded(shown.volt, 20),
                          !.freq = Rounded(shown.freq, 1000)]
    BY SMTT(30), <2>1 DEF Written
  <2>3. r.cfg.wave = v /\ r.cfg.volt = shown.volt /\ r.cfg.freq = shown.freq
    BY <1>7, <1>8
  <2>4. PICK x, y : x = Rounded(shown.volt, 20) /\ y = Rounded(shown.freq, 1000)
    OBVIOUS
  <2>5. Written(shown, r.want) = [shown EXCEPT !.wave = v, !.volt = x, !.freq = y]
    BY <2>2, <2>4
  <2>6. Written(shown, r.want) = [range |-> shown.range, rate |-> shown.rate,
                                  wave |-> v, volt |-> x, freq |-> y]
    BY <1>2, <2>5, OutputShown
  <2>7. QED
    BY <1>5, <2>3, <2>4, <2>6
<1>9. ASSUME NEW v, r.want = <<"volt", 0, v>>, r.cfg = [parsed EXCEPT !.volt = v]
      PROVE  Shown(e) = Written(shown, r.want)
  <2>1. r.want[1] = "volt" /\ r.want[3] = v
    BY <1>9
  <2>2. Written(shown, r.want) =
            [shown EXCEPT !.wave = shown.wave, !.volt = Rounded(v, 20),
                          !.freq = Rounded(shown.freq, 1000)]
    BY SMTT(30), <2>1 DEF Written
  <2>3. r.cfg.wave = shown.wave /\ r.cfg.volt = v /\ r.cfg.freq = shown.freq
    BY <1>7, <1>9
  <2>4. PICK x, y : x = Rounded(v, 20) /\ y = Rounded(shown.freq, 1000)
    OBVIOUS
  <2>5. Written(shown, r.want) = [shown EXCEPT !.wave = shown.wave, !.volt = x, !.freq = y]
    BY <2>2, <2>4
  <2>6. Written(shown, r.want) = [range |-> shown.range, rate |-> shown.rate,
                                  wave |-> shown.wave, volt |-> x, freq |-> y]
    BY <1>2, <2>5, OutputShown
  <2>7. QED
    BY <1>5, <2>3, <2>4, <2>6
<1>10. ASSUME NEW v, r.want = <<"freq", 0, v>>, r.cfg = [parsed EXCEPT !.freq = v]
      PROVE  Shown(e) = Written(shown, r.want)
  <2>1. r.want[1] = "freq" /\ r.want[3] = v
    BY <1>10
  <2>2. Written(shown, r.want) =
            [shown EXCEPT !.wave = shown.wave, !.volt = Rounded(shown.volt, 20),
                          !.freq = Rounded(v, 1000)]
    BY SMTT(30), <2>1 DEF Written
  <2>3. r.cfg.wave = shown.wave /\ r.cfg.volt = shown.volt /\ r.cfg.freq = v
    BY <1>7, <1>10
  <2>4. PICK x, y : x = Rounded(shown.volt, 20) /\ y = Rounded(v, 1000)
    OBVIOUS
  <2>5. Written(shown, r.want) = [shown EXCEPT !.wave = shown.wave, !.volt = x, !.freq = y]
    BY <2>2, <2>4
  <2>6. Written(shown, r.want) = [range |-> shown.range, rate |-> shown.rate,
                                  wave |-> shown.wave, volt |-> x, freq |-> y]
    BY <1>2, <2>5, OutputShown
  <2>7. QED
    BY <1>5, <2>3, <2>4, <2>6
<1>11. QED
  BY <1>1, <1>6, <1>8, <1>9, <1>10 DEF OutputWanted

(* The configurations that writes begin with are valid, and those of the   *)
(* output are numbers.                                                     *)
LEMMA InputWantedIsValid ==
    ASSUME Parses(analog), NEW r, InputWanted(r, analog)
    PROVE  InputIsValid(r.cfg)
<1>1. PICK parsed : parsed = ParseStatus(analog)
  OBVIOUS
<1>2. /\ parsed.rate \in DOMAIN SendRateToValue
      /\ parsed.range = [c \in Ch |-> InputVoltageFromValue[analog.range[c]]]
      /\ \A c \in Ch : parsed.range[c] \in DOMAIN InputVoltageToValue
  BY <1>1, ParsedIsShown, RateIsSentBack, RangeIsSentBack DEF Parses
<1>3. parsed = [rate |-> parsed.rate, range |-> parsed.range, start |-> parsed.start,
                wave |-> parsed.wave, volt |-> parsed.volt, freq |-> parsed.freq,
                out |-> parsed.out]
  BY <1>1 DEF ParseStatus
<1>4. ASSUME NEW c \in Ch, NEW v \in RangeModes, r.cfg = [parsed EXCEPT !.range[c] = v]
      PROVE  InputIsValid(r.cfg)
  <2>1. r.cfg.rate = parsed.rate /\ r.cfg.range = [parsed.range EXCEPT ![c] = v]
    BY <1>3, <1>4
  <2>2. v \in DOMAIN InputVoltageToValue
    BY ModesAssumption
  <2>3. \A d \in Ch : r.cfg.range[d] \in DOMAIN InputVoltageToValue
    BY <1>2, <2>1, <2>2
  <2>4. QED
    BY <1>2, <2>1, <2>3 DEF InputIsValid
<1>5. ASSUME NEW v \in RateModes, r.cfg = [parsed EXCEPT !.rate = v]
      PROVE  InputIsValid(r.cfg)
  <2>1. r.cfg.rate = v /\ r.cfg.range = parsed.range
    BY <1>3, <1>5
  <2>2. v \in DOMAIN SendRateToValue
    BY ModesAssumption
  <2>3. QED
    BY <1>2, <2>1, <2>2 DEF InputIsValid
<1>6. QED
  BY <1>1, <1>4, <1>5 DEF InputWanted

-----------------------------------------------------------------------------
(* What a step does to the writes under way                                *)

(* An idle call is no write, and a write that is disturbed counts for      *)
(* nothing any more.                                                       *)
LEMMA IdleIsNoWrite == \A d : CallOf(NotCalling, d)
  BY DEF NotCalling, CallOf, Undisturbed

LEMMA SameWanted ==
    ASSUME NEW r, NEW s, r.cfg = s.cfg, r.want = s.want, NEW d
    PROVE  /\ InputWanted(s, d) => InputWanted(r, d)
           /\ OutputWanted(s, d) => OutputWanted(r, d)
<1>1. InputWanted(s, d) => InputWanted(r, d)
  BY Zenon DEF InputWanted
<1>2. OutputWanted(s, d) => OutputWanted(r, d)
  BY Zenon DEF OutputWanted
<1>3. QED
  BY <1>1, <1>2

LEMMA SameWrite ==
    ASSUME NEW r, NEW s, r.pc = s.pc, r.cfg = s.cfg, r.want = s.want, NEW d,
           Undisturbed(s, d)
    PROVE  Undisturbed(r, d)
  BY SameWanted DEF Undisturbed

LEMMA DisturbedWrite ==
    ASSUME AnalogCalls, NEW q \in Procs, CallOf(call[q], analog), NEW new,
           NEW r, r = Disturbed(q, new)
    PROVE  CallOf(r, new)
<1>1. CASE call[q].pc = "idle"
  BY <1>1, IdleIsNoWrite DEF Disturbed
<1>2. CASE call[q].pc # "idle"
  <2>1. r = [call[q] EXCEPT !.quiet = call[q].quiet /\ new = analog]
    BY <1>2 DEF Disturbed
  <2>2. IsAnalogCall(call[q])
    BY DEF AnalogCalls
  <2>3. r.pc = call[q].pc /\ r.cfg = call[q].cfg /\ r.want = call[q].want
    BY <2>1, <2>2 DEF IsAnalogCall
  <2>4. r.quiet => call[q].quiet /\ new = analog
    BY <1>2, DisturbedCall
  <2>5. ASSUME r.quiet
        PROVE  Undisturbed(r, new)
    <3>1. new = analog /\ Undisturbed(call[q], analog)
      BY <2>4, <2>5 DEF CallOf
    <3>2. QED
      BY <2>3, <3>1, SameWrite
  <2>6. QED
    BY <2>3, <2>5 DEF CallOf
<1>3. QED
  BY <1>1, <1>2

(* A step of the analog device, as the writes see it: nothing happens, ... *)
WriteRests == analog' = analog /\ call' = call

(* ... p goes on with r, which is a write as it should be or none, ...     *)
WriteMoves(p, r) ==
    /\ analog' = analog /\ call' = [call EXCEPT ![p] = r]
    /\ CallOf(r, analog) /\ call[p].pc \notin {"setin", "setout"}

(* ... the call of p returns without any change of the device, ...         *)
WriteFails(p) ==
    /\ analog' = analog /\ call' = [call EXCEPT ![p] = NotCalling]
    /\ ~(call[p].pc = "setin" /\ InputIsValid(call[p].cfg))
    /\ call[p].pc # "setout"

(* ... p sends the configuration of the input ...                          *)
InputSent(p, o) ==
    /\ call[p].pc = "setin" /\ InputIsValid(call[p].cfg) /\ Ends(o)
    /\ Updates(p, SetAnalogInput(o, call[p].cfg))

(* ... or of the output, ...                                               *)
OutputSent(p, o) ==
    /\ call[p].pc = "setout" /\ Ends(o)
    /\ Updates(p, SetAnalogOutput(o, call[p].cfg))

(* ... or something is started or stopped, by p or by the IIO buffer.      *)
WriteControls(p, new) ==
    /\ call[p].pc \notin {"setin", "setout"}
    /\ Controlled(analog, new) /\ Updates(p, new)

BufferMoves(new) ==
    /\ Controlled(analog, new) /\ analog' = new
    /\ call' = [q \in Procs |-> Disturbed(q, new)]

WriteStep ==
    \/ WriteRests
    \/ \E p \in Procs : \E r : WriteMoves(p, r)
    \/ \E p \in Procs : WriteFails(p)
    \/ \E p \in Procs, o \in Outcomes : InputSent(p, o) \/ OutputSent(p, o)
    \/ \E p \in Procs : \E new : WriteControls(p, new)
    \/ \E new : BufferMoves(new)

(* A write begins with what it has read, ...                               *)
LEMMA InputBegins ==
    ASSUME NEW p \in Procs, NEW want, NEW cfg, WriteInput(p, want, cfg),
           NEW r, r = [pc |-> "checkin", cfg |-> cfg, want |-> want, quiet |-> TRUE],
           want = << >> \/ InputWanted(r, analog)
    PROVE  WriteMoves(p, r)
<1>1. r.pc = "checkin" /\ r.want = want
  OBVIOUS
<1>2. CallOf(r, analog)
  BY <1>1 DEF CallOf, Undisturbed
<1>3. /\ analog' = analog /\ call' = [call EXCEPT ![p] = r] /\ call[p].pc = "idle"
  BY DEF WriteInput, Calls
<1>4. QED
  BY <1>2, <1>3 DEF WriteMoves

LEMMA OutputBegins ==
    ASSUME NEW p \in Procs, NEW want, NEW cfg, WriteOutput(p, want, cfg),
           cfg.volt \in Int, cfg.freq \in Int,
           NEW r, r = [pc |-> "checkout", cfg |-> cfg, want |-> want, quiet |-> TRUE],
           want = << >> \/ OutputWanted(r, analog)
    PROVE  WriteMoves(p, r)
<1>1. r.pc = "checkout" /\ r.want = want /\ r.cfg = cfg
  OBVIOUS
<1>2. CallOf(r, analog)
  BY <1>1 DEF CallOf, Undisturbed
<1>3. /\ analog' = analog /\ call' = [call EXCEPT ![p] = r] /\ call[p].pc = "idle"
  BY DEF WriteOutput, Calls
<1>4. QED
  BY <1>2, <1>3 DEF WriteMoves

LEMMA ParsedOutput ==
    ASSUME Parses(analog), NEW parsed, parsed = ParseStatus(analog)
    PROVE  /\ parsed.volt \in Int /\ parsed.freq \in Int
           /\ parsed = [rate |-> parsed.rate, range |-> parsed.range, start |-> parsed.start,
                        wave |-> parsed.wave, volt |-> parsed.volt, freq |-> parsed.freq,
                        out |-> parsed.out]
<1>1. parsed.volt = analog.volt * 20 /\ parsed.freq = analog.freq * 1000
  BY DEF ParseStatus
<1>2. analog.volt \in Int /\ analog.freq \in Int
  BY DEF Parses
<1>3. QED
  BY <1>1, <1>2 DEF ParseStatus

(* ... through an attribute ...                                            *)
LEMMA AttributeBegins ==
    ASSUME Parses(analog), NEW p \in Procs,
           \/ \E c \in Ch, v \in RangeModes : SetInVoltRange(p, c, v)
           \/ \E v \in RateModes : SetInVoltSampFreq(p, v)
           \/ \E w \in WaveModes : SetOutVoltWaveform(p, w)
           \/ WriteRaw(p)
    PROVE  \E r : WriteMoves(p, r)
<1>1. PICK parsed : parsed = ParseStatus(analog)
  OBVIOUS
<1>2. /\ parsed.volt \in Int /\ parsed.freq \in Int
      /\ parsed = [rate |-> parsed.rate, range |-> parsed.range, start |-> parsed.start,
                   wave |-> parsed.wave, volt |-> parsed.volt, freq |-> parsed.freq,
                   out |-> parsed.out]
  BY <1>1, ParsedOutput
<1>3. ASSUME NEW c \in Ch, NEW v \in RangeModes, SetInVoltRange(p, c, v)
      PROVE  \E r : WriteMoves(p, r)
  <2>1. PICK cfg, want, r : /\ cfg = [parsed EXCEPT !.range[c] = v]
                            /\ want = <<"range", c, v>>
                            /\ r = [pc |-> "checkin", cfg |-> cfg, want |-> want,
                                    quiet |-> TRUE]
    OBVIOUS
  <2>2. WriteInput(p, want, cfg)
    BY <1>1, <1>3, <2>1 DEF SetInVoltRange, GetStatus
  <2>3. InputWanted(r, analog)
    BY <1>1, <2>1 DEF InputWanted
  <2>4. QED
    BY <2>1, <2>2, <2>3, InputBegins
<1>4. ASSUME NEW v \in RateModes, SetInVoltSampFreq(p, v)
      PROVE  \E r : WriteMoves(p, r)
  <2>1. PICK cfg, want, r : /\ cfg = [parsed EXCEPT !.rate = v]
                            /\ want = <<"rate", 0, v>>
                            /\ r = [pc |-> "checkin", cfg |-> cfg, want |-> want,
                                    quiet |-> TRUE]
    OBVIOUS
  <2>2. WriteInput(p, want, cfg)
    BY <1>1, <1>4, <2>1 DEF SetInVoltSampFreq, GetStatus
  <2>3. InputWanted(r, analog)
    BY <1>1, <2>1 DEF InputWanted
  <2>4. QED
    BY <2>1, <2>2, <2>3, InputBegins
<1>5. ASSUME NEW v \in WaveModes, SetOutVoltWaveform(p, v)
      PROVE  \E r : WriteMoves(p, r)
  <2>1. PICK cfg, want, r : /\ cfg = [parsed EXCEPT !.wave = v]
                            /\ want = <<"wave", 0, v>>
                            /\ r = [pc |-> "checkout", cfg |-> cfg, want |-> want,
                                    quiet |-> TRUE]
    OBVIOUS
  <2>2. WriteOutput(p, want, cfg)
    BY <1>1, <1>5, <2>1 DEF SetOutVoltWaveform, GetStatus
  <2>3. OutputWanted(r, analog)
    BY <1>1, <2>1 DEF OutputWanted
  <2>4. cfg.volt \in Int /\ cfg.freq \in Int
    BY <1>2, <2>1
  <2>5. QED
    BY <2>1, <2>2, <2>3, <2>4, OutputBegins
<1>6. ASSUME NEW v \in Volts, WriteOutput(p, <<"volt", 0, v>>, [GetStatus EXCEPT !.volt = v])
      PROVE  \E r : WriteMoves(p, r)
  <2>1. PICK cfg, want, r : /\ cfg = [parsed EXCEPT !.volt = v]
                            /\ want = <<"volt", 0, v>>
                            /\ r = [pc |-> "checkout", cfg |-> cfg, want |-> want,
                                    quiet |-> TRUE]
    OBVIOUS
  <2>2. WriteOutput(p, want, cfg)
    BY <1>1, <1>6, <2>1 DEF GetStatus
  <2>3. OutputWanted(r, analog)
    BY <1>1, <2>1 DEF OutputWanted
  <2>4. cfg.volt = v /\ cfg.freq \in Int
    BY <1>2, <2>1
  <2>5. v \in Int
    BY AnalogAssumption
  <2>6. QED
    BY <2>1, <2>2, <2>3, <2>4, <2>5, OutputBegins
<1>7. ASSUME NEW v \in Freqs, WriteOutput(p, <<"freq", 0, v>>, [GetStatus EXCEPT !.freq = v])
      PROVE  \E r : WriteMoves(p, r)
  <2>1. PICK cfg, want, r : /\ cfg = [parsed EXCEPT !.freq = v]
                            /\ want = <<"freq", 0, v>>
                            /\ r = [pc |-> "checkout", cfg |-> cfg, want |-> want,
                                    quiet |-> TRUE]
    OBVIOUS
  <2>2. WriteOutput(p, want, cfg)
    BY <1>1, <1>7, <2>1 DEF GetStatus
  <2>3. OutputWanted(r, analog)
    BY <1>1, <2>1 DEF OutputWanted
  <2>4. cfg.freq = v /\ cfg.volt \in Int
    BY <1>2, <2>1
  <2>5. v \in Int
    BY AnalogAssumption
  <2>6. QED
    BY <2>1, <2>2, <2>3, <2>4, <2>5, OutputBegins
<1>8. QED
  BY <1>3, <1>4, <1>5, <1>6, <1>7 DEF WriteRaw

(* ... or an ioctl.                                                        *)
LEMMA IoctlBegins ==
    ASSUME Parses(analog), NEW p \in Procs, IoctlSet(p)
    PROVE  \E r : WriteMoves(p, r)
<1>1. PICK parsed : parsed = ParseStatus(analog)
  OBVIOUS
<1>2. parsed = [rate |-> parsed.rate, range |-> parsed.range, start |-> parsed.start,
                wave |-> parsed.wave, volt |-> parsed.volt, freq |-> parsed.freq,
                out |-> parsed.out]
  BY <1>1, ParsedOutput
<1>3. ASSUME NEW i \in Inputs,
             WriteInput(p, << >>, [GetStatus EXCEPT !.rate = i.rate, !.range = i.range])
      PROVE  \E r : WriteMoves(p, r)
  BY <1>3, InputBegins
<1>4. ASSUME NEW i \in Outputs,
             WriteOutput(p, << >>, [GetStatus EXCEPT !.wave = i.wave, !.volt = i.volt,
                                                     !.freq = i.freq])
      PROVE  \E r : WriteMoves(p, r)
  <2>1. PICK cfg : cfg = [parsed EXCEPT !.wave = i.wave, !.volt = i.volt, !.freq = i.freq]
    OBVIOUS
  <2>2. cfg.volt = i.volt /\ cfg.freq = i.freq
    BY <1>2, <2>1
  <2>3. i.volt \in Int /\ i.freq \in Int
    BY AnalogAssumption
  <2>4. WriteOutput(p, << >>, cfg)
    BY <1>1, <1>4, <2>1 DEF GetStatus
  <2>5. QED
    BY <2>2, <2>3, <2>4, OutputBegins
<1>5. QED
  BY <1>3, <1>4 DEF IoctlSet

(* It goes on if it finds the device stopped, ...                          *)
LEMMA CheckedWrite ==
    ASSUME AnalogShape, WriteInv, NEW p \in Procs, NEW pc,
           \/ call[p].pc = "checkin" /\ pc = "setin" /\ analog.start = {}
           \/ call[p].pc = "checkout" /\ pc = "setout" /\ ~analog.out,
           NEW r, r = [call[p] EXCEPT !.pc = pc],
           analog' = analog, call' = [call EXCEPT ![p] = r]
    PROVE  WriteMoves(p, r)
<1>1. IsAnalogCall(call[p])
  BY DEF AnalogShape, AnalogCalls
<1>2. /\ r.pc = pc /\ r.cfg = call[p].cfg /\ r.want = call[p].want
      /\ r.quiet = call[p].quiet
  BY <1>1 DEF IsAnalogCall
<1>3. CallOf(call[p], analog)
  BY DEF WriteInv
<1>4. /\ InputWanted(call[p], analog) => InputWanted(r, analog)
      /\ OutputWanted(call[p], analog) => OutputWanted(r, analog)
  BY <1>2, SameWanted
<1>5. CallOf(r, analog)
  BY <1>2, <1>3, <1>4 DEF CallOf, Undisturbed
<1>6. QED
  BY <1>5 DEF WriteMoves

(* ... and it fails otherwise.                                             *)
LEMMA CheckSteps ==
    ASSUME AnalogShape, WriteInv, NEW p \in Procs,
           IsDeviceInputStart(p) \/ IsDeviceOutputStart(p) \/ StatusFails(p)
    PROVE  WriteStep
<1>1. CASE IsDeviceInputStart(p)
  <2>1. analog' = analog /\ call[p].pc = "checkin"
    BY <1>1 DEF IsDeviceInputStart
  <2>2. CASE analog.start = {} /\ call' = [call EXCEPT ![p].pc = "setin"]
    <3>1. PICK r : r = [call[p] EXCEPT !.pc = "setin"]
      OBVIOUS
    <3>2. call' = [call EXCEPT ![p] = r]
      BY <2>2, <3>1
    <3>3. WriteMoves(p, r)
      BY <2>1, <2>2, <3>1, <3>2, CheckedWrite
    <3>4. QED
      BY <3>3 DEF WriteStep
  <2>3. CASE CallReturns(p)
    BY <2>1, <2>3 DEF CallReturns, WriteFails, WriteStep
  <2>4. QED
    BY <1>1, <2>2, <2>3 DEF IsDeviceInputStart
<1>2. CASE IsDeviceOutputStart(p)
  <2>1. analog' = analog /\ call[p].pc = "checkout"
    BY <1>2 DEF IsDeviceOutputStart
  <2>2. CASE ~analog.out /\ call' = [call EXCEPT ![p].pc = "setout"]
    <3>1. PICK r : r = [call[p] EXCEPT !.pc = "setout"]
      OBVIOUS
    <3>2. call' = [call EXCEPT ![p] = r]
      BY <2>2, <3>1
    <3>3. WriteMoves(p, r)
      BY <2>1, <2>2, <3>1, <3>2, CheckedWrite
    <3>4. QED
      BY <3>3 DEF WriteStep
  <2>3. CASE CallReturns(p)
    BY <2>1, <2>3 DEF CallReturns, WriteFails, WriteStep
  <2>4. QED
    BY <1>2, <2>2, <2>3 DEF IsDeviceOutputStart
<1>3. CASE StatusFails(p)
  BY <1>3 DEF StatusFails, CallReturns, WriteFails, WriteStep
<1>4. QED
  BY <1>1, <1>2, <1>3

(* What starts or stops sampling or the output leaves the configuration.   *)
LEMMA ControlsOnly ==
    ASSUME IsAnalog(analog), NEW o, NEW s, NEW on
    PROVE  /\ Controlled(analog, ControlAnalogInput(o, s))
           /\ Controlled(analog, ControlAnalogOutput(o, on))
<1>1. PICK i, u : i = [analog EXCEPT !.start = s] /\ u = [analog EXCEPT !.out = on]
  OBVIOUS
<1>2. Controlled(analog, i) /\ Controlled(analog, u) /\ Controlled(analog, analog)
  BY <1>1 DEF Controlled, IsAnalog
<1>3. ControlAnalogInput(o, s) \in {i, analog} /\ ControlAnalogOutput(o, on) \in {u, analog}
  BY <1>1 DEF ControlAnalogInput, ControlAnalogOutput, Held
<1>4. QED
  BY <1>2, <1>3

LEMMA ControlSteps ==
    ASSUME AnalogShape, NEW p \in Procs, NEW o \in Outcomes,
           \/ \E on \in BOOLEAN : ControlDeviceOutput(p, on, o)
           \/ ControlDeviceInput(p, o)
    PROVE  WriteStep
<1>1. ASSUME NEW on \in BOOLEAN, ControlDeviceOutput(p, on, o)
      PROVE  WriteStep
  <2>1. call[p].pc = "idle" /\ Updates(p, ControlAnalogOutput(o, on))
    BY <1>1 DEF ControlDeviceOutput
  <2>2. PICK new : new = ControlAnalogOutput(o, on)
    OBVIOUS
  <2>3. Controlled(analog, new)
    BY <2>2, ControlsOnly DEF AnalogShape
  <2>4. WriteControls(p, new)
    BY <2>1, <2>2, <2>3 DEF WriteControls
  <2>5. QED
    BY <2>4 DEF WriteStep
<1>2. CASE ControlDeviceInput(p, o)
  <2>1. call[p].pc = "control" /\ Updates(p, ControlAnalogInput(o, call[p].cfg.start))
    BY <1>2 DEF ControlDeviceInput
  <2>2. PICK new : new = ControlAnalogInput(o, call[p].cfg.start)
    OBVIOUS
  <2>3. Controlled(analog, new)
    BY <2>2, ControlsOnly DEF AnalogShape
  <2>4. WriteControls(p, new)
    BY <2>1, <2>2, <2>3 DEF WriteControls
  <2>5. QED
    BY <2>4 DEF WriteStep
<1>3. QED
  BY <1>1, <1>2

LEMMA BufferSteps ==
    ASSUME AnalogShape, Buffer
    PROVE  WriteStep
<1>1. ASSUME NEW o \in Outcomes, BufferPostenable(o)
      PROVE  WriteStep
  <2>1. PICK new : new = ControlAnalogInput(o, buffer.mask)
    OBVIOUS
  <2>2. BufferMoves(new)
    BY <1>1, <2>1, ControlsOnly DEF BufferPostenable, BufferMoves, AnalogShape
  <2>3. QED
    BY <2>2 DEF WriteStep
<1>2. ASSUME NEW o \in Outcomes, BufferPredisable(o)
      PROVE  WriteStep
  <2>1. PICK new : new = ControlAnalogInput(o, {})
    OBVIOUS
  <2>2. BufferMoves(new)
    BY <1>2, <2>1, ControlsOnly DEF BufferPredisable, BufferMoves, AnalogShape
  <2>3. QED
    BY <2>2 DEF WriteStep
<1>3. CASE (\E mask \in SUBSET Ch : BufferCheck(mask)) \/ BufferPreenable \/ BufferPostdisable
  <2>1. WriteRests
    BY <1>3 DEF BufferCheck, BufferPreenable, BufferPostdisable, WriteRests
  <2>2. QED
    BY <2>1 DEF WriteStep
<1>4. QED
  BY <1>1, <1>2, <1>3 DEF Buffer

(* CONTROL_ANALOG_INPUT begins: no write.                                  *)
LEMMA ControlBegun ==
    ASSUME NEW p \in Procs, NEW s, IoctlControlInput(p, s)
    PROVE  WriteStep
<1>1. PICK r : r = [pc |-> "control", cfg |-> [start |-> s], want |-> << >>,
                    quiet |-> sample = {} /\ analog.start = {}]
  OBVIOUS
<1>2. r.pc = "control" /\ r.want = << >>
  BY <1>1
<1>3. CallOf(r, analog)
  BY <1>2 DEF CallOf, Undisturbed
<1>4. /\ call' = [call EXCEPT ![p] = r] /\ analog' = analog /\ call[p].pc = "idle"
  BY <1>1 DEF IoctlControlInput, Calls
<1>5. WriteMoves(p, r)
  BY <1>3, <1>4 DEF WriteMoves
<1>6. QED
  BY <1>5 DEF WriteStep

(* The configuration is sent.                                              *)
LEMMA SetSteps ==
    ASSUME AnalogShape, NEW p \in Procs, NEW o \in Outcomes,
           SetDeviceInput(p, o) \/ SetDeviceOutput(p, o)
    PROVE  WriteStep
<1>1. CASE SetDeviceInput(p, o)
  <2>1. CASE InputIsValid(call[p].cfg)
    <3>1. InputSent(p, o)
      BY <1>1, <2>1 DEF SetDeviceInput, InputSent
    <3>2. QED
      BY <3>1 DEF WriteStep
  <2>2. CASE ~InputIsValid(call[p].cfg)
    <3>1. WriteFails(p)
      BY <1>1, <2>2 DEF SetDeviceInput, WriteFails, CallReturns
    <3>2. QED
      BY <3>1 DEF WriteStep
  <2>3. QED
    BY <2>1, <2>2
<1>2. CASE SetDeviceOutput(p, o)
  <2>1. OutputSent(p, o)
    BY <1>2 DEF SetDeviceOutput, OutputSent
  <2>2. QED
    BY <2>1 DEF WriteStep
<1>3. QED
  BY <1>1, <1>2

(* Every step of the analog device is one of these.                        *)
LEMMA WriteSteps ==
    ASSUME AnalogShape, WriteInv, AnalogNext
    PROVE  WriteStep
<1>1. Parses(analog)
  BY DEF WriteInv
<1>2. ASSUME NEW p \in Procs, Attributes(p)
      PROVE  WriteStep
  <2>1. CASE \E on \in BOOLEAN, o \in Outcomes : ControlDeviceOutput(p, on, o)
    BY <2>1, ControlSteps
  <2>2. CASE ~\E on \in BOOLEAN, o \in Outcomes : ControlDeviceOutput(p, on, o)
    <3>1. PICK r : WriteMoves(p, r)
      BY <1>1, <1>2, <2>2, AttributeBegins DEF Attributes
    <3>2. QED
      BY <3>1 DEF WriteStep
  <2>3. QED
    BY <2>1, <2>2
<1>3. ASSUME NEW p \in Procs, AnalogFile(p)
      PROVE  WriteStep
  <2>1. CASE FileOpenCheck(p) \/ FileOpen(p) \/ FileClose(p)
    <3>1. WriteRests
      BY <2>1 DEF FileOpenCheck, FileOpen, FileClose, WriteRests
    <3>2. QED
      BY <3>1 DEF WriteStep
  <2>2. CASE IoctlSet(p)
    <3>1. PICK r : WriteMoves(p, r)
      BY <1>1, <2>2, IoctlBegins
    <3>2. QED
      BY <3>1 DEF WriteStep
  <2>3. CASE \E s \in SUBSET Ch : IoctlControlInput(p, s)
    BY <2>3, ControlBegun
  <2>4. CASE \E on \in BOOLEAN, o \in Outcomes : IoctlControlOutput(p, on, o)
    BY <2>4, ControlSteps DEF IoctlControlOutput
  <2>5. QED
    BY <1>3, <2>1, <2>2, <2>3, <2>4 DEF AnalogFile
<1>4. ASSUME NEW p \in Procs, Continue(p)
      PROVE  WriteStep
  BY <1>1, <1>4, CheckSteps, SetSteps, ControlSteps DEF Continue
<1>5. CASE (\E b \in BOOLEAN : SetHwTimestamp(b)) \/ DeviceSample \/ DispatchAnalog
  <2>1. WriteRests
    BY <1>5 DEF SetHwTimestamp, DeviceSample, DispatchAnalog, WriteRests
  <2>2. QED
    BY <2>1 DEF WriteStep
<1>6. CASE Buffer
  BY <1>6, BufferSteps
<1>7. QED
  BY <1>2, <1>3, <1>4, <1>5, <1>6 DEF AnalogNext

-----------------------------------------------------------------------------
(* The invariant of the writes                                             *)

(* The device changes under the calls.                                     *)
LEMMA WritesDisturbed ==
    ASSUME AnalogCalls, WriteInv, NEW new, Parses(new), analog' = new,
           \A q \in Procs : call'[q] = NotCalling \/ call'[q] = Disturbed(q, new)
    PROVE  WriteInv'
<1>1. ASSUME NEW q \in Procs
      PROVE  CallOf(call'[q], new)
  <2>1. CallOf(call[q], analog)
    BY DEF WriteInv
  <2>2. QED
    BY <2>1, IdleIsNoWrite, DisturbedWrite
<1>2. Parses(analog') /\ \A q \in Procs : CallOf(call'[q], analog')
  BY <1>1
<1>3. QED
  BY <1>2 DEF WriteInv

(* p goes on, or returns, under a device that stays as it is.              *)
LEMMA WriteGoesThere ==
    ASSUME WriteInv, NEW p \in Procs, NEW r, CallOf(r, analog), analog' = analog,
           call' = [call EXCEPT ![p] = r], AnalogCalls
    PROVE  WriteInv'
<1>1. \A q \in Procs : call'[q] = r \/ call'[q] = call[q]
  BY DEF AnalogCalls
<1>2. \A q \in Procs : CallOf(call'[q], analog)
  BY <1>1 DEF WriteInv
<1>3. Parses(analog') /\ \A q \in Procs : CallOf(call'[q], analog')
  BY <1>2 DEF WriteInv
<1>4. QED
  BY <1>3 DEF WriteInv

(* What the two commands make of the device: nothing, when they are lost.  *)
LEMMA InputSentEffect ==
    ASSUME AnalogShape, WriteInv, NEW p \in Procs, NEW o \in Outcomes, InputSent(p, o)
    PROVE  /\ analog' = analog \/ InputSet(analog, analog', call[p].cfg)
           /\ o = "ack" => InputSet(analog, analog', call[p].cfg)
           /\ \A q \in Procs : call'[q] = NotCalling \/ call'[q] = Disturbed(q, analog')
           /\ call'[p] = NotCalling /\ \A q \in Procs \ {p} : call'[q].pc = call[q].pc
<1>1. PICK e : e = PackSetAnalogInput(call[p].cfg)
  OBVIOUS
<1>2. InputSet(analog, e, call[p].cfg)
  BY <1>1, InputIsSet DEF InputSent, AnalogShape, WriteInv
<1>3. analog' = IF o \in {"ack", "late"} THEN e ELSE analog
  BY <1>1 DEF InputSent, Updates, SetAnalogInput, Held
<1>4. /\ \A q \in Procs : call'[q] = IF q = p THEN NotCalling ELSE Disturbed(q, analog')
      /\ call'[p] = NotCalling
  BY DEF InputSent, Updates
<1>5. \A q \in Procs \ {p} : call'[q].pc = call[q].pc
  BY <1>4, DisturbedCall DEF AnalogShape
<1>6. QED
  BY <1>2, <1>3, <1>4, <1>5

LEMMA OutputSentEffect ==
    ASSUME AnalogShape, WriteInv, NEW p \in Procs, NEW o \in Outcomes, OutputSent(p, o)
    PROVE  /\ analog' = analog \/ OutputSet(analog, analog', call[p].cfg)
           /\ o = "ack" => OutputSet(analog, analog', call[p].cfg)
           /\ \A q \in Procs : call'[q] = NotCalling \/ call'[q] = Disturbed(q, analog')
           /\ call'[p] = NotCalling /\ \A q \in Procs \ {p} : call'[q].pc = call[q].pc
<1>1. PICK e : e = PackSetAnalogOutput(call[p].cfg)
  OBVIOUS
<1>2. call[p].cfg.volt \in Int /\ call[p].cfg.freq \in Int
  BY DEF OutputSent, WriteInv, CallOf
<1>3. OutputSet(analog, e, call[p].cfg)
  BY <1>1, <1>2, OutputIsSet DEF AnalogShape, WriteInv
<1>4. analog' = IF o \in {"ack", "late"} THEN e ELSE analog
  BY <1>1 DEF OutputSent, Updates, SetAnalogOutput, Held
<1>5. /\ \A q \in Procs : call'[q] = IF q = p THEN NotCalling ELSE Disturbed(q, analog')
      /\ call'[p] = NotCalling
  BY DEF OutputSent, Updates
<1>6. \A q \in Procs \ {p} : call'[q].pc = call[q].pc
  BY <1>5, DisturbedCall DEF AnalogShape
<1>7. QED
  BY <1>3, <1>4, <1>5, <1>6

(* The invariant is inductive.                                             *)
LEMMA NextWrite ==
    ASSUME AnalogShape, WriteInv, WriteStep
    PROVE  WriteInv'
<1>1. AnalogCalls /\ Parses(analog)
  BY DEF AnalogShape, WriteInv
<1>2. CASE WriteRests
  <2>1. Parses(analog') /\ \A q \in Procs : CallOf(call'[q], analog')
    BY <1>2 DEF WriteInv, WriteRests
  <2>2. QED
    BY <2>1 DEF WriteInv
<1>3. ASSUME NEW p \in Procs, NEW r, WriteMoves(p, r)
      PROVE  WriteInv'
  BY <1>1, <1>3, WriteGoesThere DEF WriteMoves
<1>4. ASSUME NEW p \in Procs, WriteFails(p)
      PROVE  WriteInv'
  BY <1>1, <1>4, IdleIsNoWrite, WriteGoesThere DEF WriteFails
<1>5. ASSUME NEW p \in Procs, NEW o \in Outcomes, InputSent(p, o)
      PROVE  WriteInv'
  <2>1. PICK new : new = analog'
    OBVIOUS
  <2>2. Parses(new)
    BY <1>1, <1>5, <2>1, InputSentEffect DEF InputSet
  <2>3. \A q \in Procs : call'[q] = NotCalling \/ call'[q] = Disturbed(q, new)
    BY <1>5, <2>1, InputSentEffect
  <2>4. QED
    BY <1>1, <2>1, <2>2, <2>3, WritesDisturbed
<1>6. ASSUME NEW p \in Procs, NEW o \in Outcomes, OutputSent(p, o)
      PROVE  WriteInv'
  <2>1. PICK new : new = analog'
    OBVIOUS
  <2>2. Parses(new)
    BY <1>1, <1>6, <2>1, OutputSentEffect DEF OutputSet
  <2>3. \A q \in Procs : call'[q] = NotCalling \/ call'[q] = Disturbed(q, new)
    BY <1>6, <2>1, OutputSentEffect
  <2>4. QED
    BY <1>1, <2>1, <2>2, <2>3, WritesDisturbed
<1>7. ASSUME NEW p \in Procs, NEW new, WriteControls(p, new)
      PROVE  WriteInv'
  <2>1. Parses(new)
    BY <1>1, <1>7 DEF WriteControls, Controlled, Parses
  <2>2. analog' = new /\ \A q \in Procs : call'[q] = NotCalling \/ call'[q] = Disturbed(q, new)
    BY <1>7 DEF WriteControls, Updates
  <2>3. QED
    BY <1>1, <2>1, <2>2, WritesDisturbed
<1>8. ASSUME NEW new, BufferMoves(new)
      PROVE  WriteInv'
  <2>1. Parses(new)
    BY <1>1, <1>8 DEF BufferMoves, Controlled, Parses
  <2>2. analog' = new /\ \A q \in Procs : call'[q] = NotCalling \/ call'[q] = Disturbed(q, new)
    BY <1>8 DEF BufferMoves
  <2>3. QED
    BY <1>1, <2>1, <2>2, WritesDisturbed
<1>9. QED
  BY <1>2, <1>3, <1>4, <1>5, <1>6, <1>7, <1>8 DEF WriteStep

(* Just probed, with the factory settings.                                 *)
LEMMA InitWrite == AnalogInit => WriteInv
<1> SUFFICES ASSUME AnalogInit
             PROVE  WriteInv
  OBVIOUS
<1>1. /\ analog.rate = 1 /\ analog.range = [c \in Ch |-> 0]
      /\ analog.volt = 0 /\ analog.freq = 0
  BY DEF AnalogInit
<1>2. 1 \in DOMAIN SendRateFromValue /\ 0 \in DOMAIN InputVoltageFromValue
  BY SendRateBytes, RangeBytes
<1>3. Parses(analog)
  BY <1>1, <1>2 DEF Parses
<1>4. \A p \in Procs : CallOf(call[p], analog)
  BY IdleIsNoWrite DEF AnalogInit
<1>5. QED
  BY <1>3, <1>4 DEF WriteInv

(* Commands that fail are counted.                                         *)
FaultsCounted == product \in Product /\ (product = "EP1_AG08A" => faults \in Nat)

LEMMA NextFaults ==
    ASSUME FaultsCounted, [ProductsNext]_<<analogVars, canVars, product>>
    PROVE  FaultsCounted'
<1>1. CASE product = "EP1_AG08A" /\ AnalogNext /\ product' = product
  <2>1. faults' = faults \/ faults' = faults + 1
    BY ZenonT(30), <1>1 DEF AnalogNext, Attributes, AnalogFile, Continue, Buffer, SetInVoltRange,
       SetInVoltSampFreq, SetOutVoltWaveform, WriteRaw, WriteInput, WriteOutput,
       ControlDeviceOutput, FileOpenCheck, FileOpen, FileClose, IoctlSet,
       IoctlControlInput, IoctlControlOutput, IsDeviceInputStart, IsDeviceOutputStart,
       StatusFails, SetDeviceInput, SetDeviceOutput, ControlDeviceInput, BufferCheck,
       BufferPreenable, BufferPostenable, BufferPredisable, BufferPostdisable,
       SetHwTimestamp, DeviceSample, DispatchAnalog, Ends
  <2>2. QED
    BY <1>1, <2>1 DEF FaultsCounted
<1>2. CASE product = "CAN" /\ product' = product
  BY <1>2 DEF FaultsCounted
<1>3. CASE UNCHANGED <<product, faults>>
  BY <1>3 DEF FaultsCounted
<1>4. QED
  BY <1>1, <1>2, <1>3 DEF ProductsNext, analogVars

(* The writes of the analog device keep their invariant; a CAN device has  *)
(* none of its state.                                                      *)
LEMMA WriteInvariant == ProductsSpec => [](AnalogShape /\ WriteInv /\ FaultsCounted)
<1>1. ProductsInit => WriteInv /\ FaultsCounted
  BY InitWrite DEF ProductsInit, FaultsCounted, AnalogInit, ExchangeInit
<1>2. AnalogInv => AnalogShape
  BY DEF AnalogInv
<1>3. ASSUME AnalogShape, WriteInv, [ProductsNext]_<<analogVars, canVars, product>>
      PROVE  WriteInv'
  <2>1. CASE AnalogNext
    BY <1>3, <2>1, WriteSteps, NextWrite
  <2>2. CASE UNCHANGED <<analog, call>>
    BY <1>3, <2>2, NextWrite DEF WriteStep, WriteRests
  <2>3. QED
    BY <1>3, <2>1, <2>2 DEF ProductsNext, analogVars
<1>4. QED
  BY <1>1, <1>2, <1>3, AnalogInvariant, NextFaults, PTL DEF ProductsSpec

-----------------------------------------------------------------------------
(* What a step may do to the configuration                                 *)

(* A call that sends a configuration and returns has sent it, or has been  *)
(* refused it before.                                                      *)
LEMMA OnlyOneReturns ==
    ASSUME AnalogShape, WriteInv, WriteStep, NEW p \in Procs, Returns(p),
           call[p].pc \in {"setin", "setout"}
    PROVE  \/ WriteFails(p) /\ call[p].pc = "setin"
           \/ \E o \in Outcomes : InputSent(p, o) \/ OutputSent(p, o)
<1> USE DEF Returns
<1>1. CASE WriteRests
  BY <1>1 DEF WriteRests
<1>2. ASSUME NEW q \in Procs, NEW r, WriteMoves(q, r)
      PROVE  FALSE
  <2>1. q # p
    BY <1>2 DEF WriteMoves
  <2>2. call'[p] = call[p]
    BY <1>2, <2>1 DEF WriteMoves, AnalogShape, AnalogCalls
  <2>3. QED
    BY <2>2
<1>3. ASSUME NEW q \in Procs, WriteFails(q)
      PROVE  WriteFails(p) /\ call[p].pc = "setin"
  <2>1. CASE q # p
    <3>1. call'[p] = call[p]
      BY <1>3, <2>1 DEF WriteFails, AnalogShape, AnalogCalls
    <3>2. QED
      BY <3>1
  <2>2. CASE q = p
    BY <1>3, <2>2 DEF WriteFails
  <2>3. QED
    BY <2>1, <2>2
<1>4. ASSUME NEW q \in Procs, NEW o \in Outcomes, InputSent(q, o) \/ OutputSent(q, o)
      PROVE  InputSent(p, o) \/ OutputSent(p, o)
  <2>1. q # p => call'[p].pc = call[p].pc
    BY <1>4, InputSentEffect, OutputSentEffect
  <2>2. QED
    BY <1>4, <2>1
<1>5. ASSUME NEW q \in Procs, NEW new, WriteControls(q, new)
      PROVE  FALSE
  <2>1. q # p
    BY <1>5 DEF WriteControls
  <2>2. call'[p].pc = call[p].pc
    BY <1>5, <2>1, UpdatesEffect DEF WriteControls, AnalogShape, AnalogKeeps
  <2>3. QED
    BY <2>2
<1>6. ASSUME NEW new, BufferMoves(new)
      PROVE  FALSE
  <2>1. call'[p].pc = call[p].pc
    BY <1>6, AllDisturbed DEF BufferMoves, AnalogShape, AnalogKeeps
  <2>2. QED
    BY <2>1
<1>7. QED
  BY <1>1, <1>2, <1>3, <1>4, <1>5, <1>6 DEF WriteStep

(* An attribute write that nobody disturbs.                                *)
LEMMA WriteEnds ==
    ASSUME AnalogShape, WriteInv, WriteStep, faults \in Nat, NEW p \in Procs, Returns(p),
           call[p].pc \in {"setin", "setout"}, call[p].want # << >>, call[p].quiet,
           analog' # analog \/ faults' = faults
    PROVE  /\ Shown(analog') = Written(Shown(analog), call[p].want)
           /\ analog'.start = analog.start /\ analog'.out = analog.out
<1>1. Parses(analog) /\ CallOf(call[p], analog)
  BY DEF WriteInv
<1>2. /\ call[p].pc = "setin" => InputWanted(call[p], analog)
      /\ call[p].pc = "setout" => OutputWanted(call[p], analog)
  BY <1>1 DEF CallOf, Undisturbed
<1>3. ~(WriteFails(p) /\ call[p].pc = "setin")
  BY <1>1, <1>2, InputWantedIsValid DEF WriteFails
<1>4. ASSUME NEW o \in Outcomes, Ends(o)
      PROVE  analog' # analog \/ o = "ack"
  BY <1>4 DEF Ends
<1>5. PICK e : e = analog'
  OBVIOUS
<1>6. ASSUME NEW o \in Outcomes, InputSent(p, o)
      PROVE  /\ Shown(e) = Written(Shown(analog), call[p].want)
             /\ e.start = analog.start /\ e.out = analog.out
  <2>1. InputSet(analog, e, call[p].cfg)
    BY <1>4, <1>5, <1>6, InputSentEffect DEF InputSent
  <2>2. call[p].pc = "setin"
    BY <1>6 DEF InputSent
  <2>3. QED
    BY <1>1, <1>2, <2>1, <2>2, InputWrite DEF InputSet
<1>7. ASSUME NEW o \in Outcomes, OutputSent(p, o)
      PROVE  /\ Shown(e) = Written(Shown(analog), call[p].want)
             /\ e.start = analog.start /\ e.out = analog.out
  <2>1. OutputSet(analog, e, call[p].cfg)
    BY <1>4, <1>5, <1>7, OutputSentEffect DEF OutputSent
  <2>2. call[p].pc = "setout"
    BY <1>7 DEF OutputSent
  <2>3. call[p].cfg.volt \in Int /\ call[p].cfg.freq \in Int
    BY <1>1, <2>2 DEF CallOf
  <2>4. QED
    BY <1>1, <1>2, <2>1, <2>2, <2>3, OutputWrite DEF OutputSet
<1>8. QED
  BY <1>3, <1>5, <1>6, <1>7, OnlyOneReturns

(* No step but these two changes a configuration.                          *)
LEMMA InputChanges ==
    ASSUME AnalogShape, WriteInv, WriteStep,
           <<analog.rate, analog.range>>' # <<analog.rate, analog.range>>
    PROVE  \E p \in Procs : call[p].pc = "setin" /\ Returns(p)
<1>1. ~WriteRests /\ (~\E p \in Procs : \E r : WriteMoves(p, r)) /\ ~\E p \in Procs : WriteFails(p)
  BY DEF WriteRests, WriteMoves, WriteFails
<1>2. ASSUME NEW p \in Procs, NEW o \in Outcomes, InputSent(p, o)
      PROVE  call[p].pc = "setin" /\ Returns(p)
  BY <1>2, InputSentEffect DEF InputSent, Returns, NotCalling
<1>3. ASSUME NEW p \in Procs, NEW o \in Outcomes, OutputSent(p, o)
      PROVE  FALSE
  BY <1>3, OutputSentEffect DEF OutputSet
<1>4. ASSUME NEW p \in Procs, NEW new, WriteControls(p, new)
      PROVE  FALSE
  BY <1>4 DEF WriteControls, Controlled, Updates
<1>5. ASSUME NEW new, BufferMoves(new)
      PROVE  FALSE
  BY <1>5 DEF BufferMoves, Controlled
<1>6. QED
  BY <1>1, <1>2, <1>3, <1>4, <1>5 DEF WriteStep

LEMMA OutputChanges ==
    ASSUME AnalogShape, WriteInv, WriteStep,
           <<analog.wave, analog.volt, analog.freq>>'
                # <<analog.wave, analog.volt, analog.freq>>
    PROVE  \E p \in Procs : call[p].pc = "setout" /\ Returns(p)
<1>1. ~WriteRests /\ (~\E p \in Procs : \E r : WriteMoves(p, r)) /\ ~\E p \in Procs : WriteFails(p)
  BY DEF WriteRests, WriteMoves, WriteFails
<1>2. ASSUME NEW p \in Procs, NEW o \in Outcomes, OutputSent(p, o)
      PROVE  call[p].pc = "setout" /\ Returns(p)
  BY <1>2, OutputSentEffect DEF OutputSent, Returns, NotCalling
<1>3. ASSUME NEW p \in Procs, NEW o \in Outcomes, InputSent(p, o)
      PROVE  FALSE
  BY <1>3, InputSentEffect DEF InputSet
<1>4. ASSUME NEW p \in Procs, NEW new, WriteControls(p, new)
      PROVE  FALSE
  BY <1>4 DEF WriteControls, Controlled, Updates
<1>5. ASSUME NEW new, BufferMoves(new)
      PROVE  FALSE
  BY <1>5 DEF BufferMoves, Controlled
<1>6. QED
  BY <1>1, <1>2, <1>3, <1>4, <1>5 DEF WriteStep

(* Zero is not sent for a field that is or was zero.                       *)
LEMMA ZeroIsRounded ==
    ASSUME AnalogShape, WriteInv, WriteStep, NEW p \in Procs, Returns(p),
           call[p].pc = "setout", analog' # analog
    PROVE  /\ analog'.volt = 0 => RoundsToZero(call[p].cfg.volt, 20)
           /\ analog'.freq = 0 => RoundsToZero(call[p].cfg.freq, 1000)
<1>1. PICK o \in Outcomes : OutputSent(p, o)
  BY OnlyOneReturns DEF InputSent
<1>2. OutputSet(analog, analog', call[p].cfg)
  BY <1>1, OutputSentEffect
<1>3. QED
  BY <1>2, ByteRange DEF OutputSet, RoundsToZero

(* A step of any product, as the writes see it.                            *)
LEMMA WriteStepOrNone ==
    ASSUME AnalogShape, WriteInv, FaultsCounted,
           [ProductsNext]_<<analogVars, canVars, product>>
    PROVE  WriteRests \/ (WriteStep /\ faults \in Nat)
<1>1. CASE product = "EP1_AG08A" /\ AnalogNext
  BY <1>1, WriteSteps DEF FaultsCounted
<1>2. CASE UNCHANGED <<analog, call>>
  BY <1>2 DEF WriteRests
<1>3. QED
  BY <1>1, <1>2 DEF ProductsNext, analogVars

(* An attribute write that nobody disturbs between its three commands      *)
(* changes what it should and nothing else, and the workaround of          *)
(* ep1_ag08a_msg_pack_set_analog_output is complete.                       *)
THEOREM WritesAreInEffect == ProductsSpec => WritesTakeEffect
<1>1. ASSUME AnalogShape, WriteInv, FaultsCounted,
             [ProductsNext]_<<analogVars, canVars, product>>
      PROVE  \A p \in Procs :
                /\ Returns(p) /\ call[p].pc \in {"setin", "setout"}
                /\ call[p].want # << >> /\ call[p].quiet
                /\ analog' # analog \/ faults' = faults
                => /\ Shown(analog') = Written(Shown(analog), call[p].want)
                   /\ analog'.start = analog.start /\ analog'.out = analog.out
  <2>1. CASE WriteRests
    BY <2>1 DEF WriteRests, Returns
  <2>2. CASE WriteStep /\ faults \in Nat
    BY <1>1, <2>2, WriteEnds
  <2>3. QED
    BY <1>1, <2>1, <2>2, WriteStepOrNone
<1>2. ASSUME AnalogShape, WriteInv, FaultsCounted,
             [ProductsNext]_<<analogVars, canVars, product>>
      PROVE  \A p \in Procs :
                Returns(p) /\ call[p].pc = "setout" /\ analog' # analog =>
                    /\ analog'.volt = 0 => RoundsToZero(call[p].cfg.volt, 20)
                    /\ analog'.freq = 0 => RoundsToZero(call[p].cfg.freq, 1000)
  <2>1. CASE WriteRests
    BY <2>1 DEF WriteRests, Returns
  <2>2. CASE WriteStep
    BY <1>2, <2>2, ZeroIsRounded
  <2>3. QED
    BY <1>2, <2>1, <2>2, WriteStepOrNone
<1>3. QED
  BY <1>1, <1>2, WriteInvariant, PTL
     DEF ProductsSpec, WritesTakeEffect, AttributeWriteTakesEffect, NoZeroOutput

(* The configuration of a running input or output is not changed, unless   *)
(* it was started between the check of ep1_ag08a_set_device_input, or of   *)
(* ep1_ag08a_set_device_output, and its command.                           *)
THEOREM NoChangeWhileRunning == ProductsSpec => ChangedWhileStopped
<1>1. ASSUME AnalogShape, WriteInv, FaultsCounted,
             [ProductsNext]_<<analogVars, canVars, product>>
      PROVE  /\ <<analog.rate, analog.range>>' # <<analog.rate, analog.range>> =>
                   \/ analog.start = {}
                   \/ \E p \in Procs : call[p].pc = "setin" /\ Returns(p) /\ ~call[p].quiet
             /\ <<analog.wave, analog.volt, analog.freq>>'
                      # <<analog.wave, analog.volt, analog.freq>> =>
                   \/ ~analog.out
                   \/ \E p \in Procs : call[p].pc = "setout" /\ Returns(p) /\ ~call[p].quiet
  <2>1. CASE WriteRests
    BY <2>1 DEF WriteRests
  <2>2. CASE WriteStep
    <3>1. \A p \in Procs : /\ call[p].quiet /\ call[p].pc = "setin" => analog.start = {}
                           /\ call[p].quiet /\ call[p].pc = "setout" => ~analog.out
      BY <1>1 DEF WriteInv, CallOf, Undisturbed
    <3>2. ASSUME <<analog.rate, analog.range>>' # <<analog.rate, analog.range>>
          PROVE  \/ analog.start = {}
                 \/ \E p \in Procs : call[p].pc = "setin" /\ Returns(p) /\ ~call[p].quiet
      BY <1>1, <2>2, <3>1, <3>2, InputChanges
    <3>3. ASSUME <<analog.wave, analog.volt, analog.freq>>'
                     # <<analog.wave, analog.volt, analog.freq>>
          PROVE  \/ ~analog.out
                 \/ \E p \in Procs : call[p].pc = "setout" /\ Returns(p) /\ ~call[p].quiet
      BY <1>1, <2>2, <3>1, <3>3, OutputChanges
    <3>4. QED
      BY <3>2, <3>3
  <2>3. QED
    BY <1>1, <2>1, <2>2, WriteStepOrNone
<1>2. QED
  BY <1>1, WriteInvariant, PTL DEF ProductsSpec, ChangedWhileStopped

-----------------------------------------------------------------------------
(* What is shown                                                           *)

LEMMA HoldsInvariant == ProductsSpec => [](HoldsInv /\ SummaryInv)
<1>1. ProductsInit => HoldsInv /\ SummaryInv
  BY InitHolds, InitSummary DEF ProductsInit
<1>2. CanInv => CanShape
  BY DEF CanInv
<1>3. ASSUME CanShape, HoldsInv, SummaryInv,
             [ProductsNext]_<<analogVars, canVars, product>>
      PROVE  HoldsInv' /\ SummaryInv'
  <2>1. CanNext \/ CanRests
    BY <1>3 DEF ProductsNext, CanRests, canVars, canUsers, stats
  <2>2. QED
    BY <1>3, <2>1, NextHolds, NextSummary
<1>4. QED
  BY <1>1, <1>2, <1>3, CanInvariant, PTL DEF ProductsSpec

(* Settings, scales and summaries are shown as the device holds them:      *)
(* packing and parsing functions, and the tables of ranges and scales,     *)
(* agree for every value, whatever was sent by whom.                       *)
THEOREM HeldIsWhatIsShown == ProductsSpec => []ShownIsHeld
<1>1. HoldsInv => StatusShowsSettings
  BY HeldIsShown DEF HoldsInv
<1>2. WriteInv => ScaleMatchesRange
  BY ScaleOfRange
     DEF WriteInv, Parses, ScaleMatchesRange, GetInVoltRange, ReadScale
<1>3. SummaryInv => SummaryOfItsClass
  BY SummariesOfClass
<1>4. HoldsInv /\ SummaryInv /\ WriteInv => ShownIsHeld
  BY <1>1, <1>2, <1>3 DEF ShownIsHeld
<1>5. QED
  BY <1>4, HoldsInvariant, WriteInvariant, PTL
=============================================================================
