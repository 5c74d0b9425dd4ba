----------------------------- MODULE JogControl ------------------------------
(***************************************************************************)
(* The motion half of LinuxCncPendantSupervisor: limits.rs and jog.rs of    *)
(* dmc2-core/src/supervisor/controller, as operators on the motion record   *)
(* that one servo cycle passes from handler to handler.  The record holds   *)
(* the fields these handlers assign; `fault' and `command' are in it        *)
(* because every handler may latch the one and issue the other.             *)
(*                                                                         *)
(* Positions are kept relative: the cycle's input `togo' is the signed      *)
(* distance from the feedback position to the active target, the only       *)
(* question the code asks of counts, targets and tolerance.  Time is in     *)
(* servo cycles; every timer saturates at TimerCap, above all thresholds,   *)
(* and runs only in the phases that read it.                                *)
(***************************************************************************)
EXTENDS PendantInterpreter, FiniteSets

CONSTANTS
    GateSettle, LimitReset, LimitResetValidate, LimitResetTimeout,
    MotionAcceptTimeout, MotionStopTimeout, JogTimeout, BounceTimeout,
    TimerCap,        \* bound of every timer
    BouncePulses     \* length of the automatic backoff

Thresholds ==
    {GateSettle, LimitReset, LimitResetValidate, LimitResetTimeout,
     MotionAcceptTimeout, MotionStopTimeout, JogTimeout, BounceTimeout}

ASSUME TimerAssumption ==
    /\ TimerCap \in Nat /\ BouncePulses \in Nat \ {0}
    /\ \A t \in Thresholds : t \in Nat /\ t > 0 /\ t < TimerCap

Timer == 0..TimerCap
Elapse(t) == IF t < TimerCap THEN t + 1 ELSE t

Paths == {"AxisTeleop", "JointFree"}

StartupPowerPhases ==
    {"StartupReadyGateSettle", "StartupReadyWaitReset", "StartupReadyWaitOn"}
StartupBouncePhases ==
    {"StartupGateSettle", "StartupWaitReset", "StartupWaitOn"}
ReleasePhases ==
    {"BounceReleaseWait", "BounceReleaseJog", "BounceReleaseStopping"}
BouncePhases ==
    {"StoppingBounce", "Bouncing", "BounceResetAssert", "BounceResetValidate"}
        \cup ReleasePhases \cup StartupBouncePhases
TimedBouncePhases == BouncePhases \ ReleasePhases
StoppingPhases ==
    {"StoppingBounce", "StoppingReplace", "StoppingCancel",
     "BounceReleaseStopping"}
Phases ==
    {"Idle", "StoppingCancel", "StoppingReplace"}
        \cup BouncePhases \cup StartupPowerPhases

(* The phases in which phase_elapsed_ns is compared with a threshold.       *)
ClockedPhases ==
    StoppingPhases \cup {"BounceResetAssert", "BounceResetValidate",
                         "StartupReadyGateSettle", "StartupGateSettle"}

ActiveJog ==
    [motor : Motors, delta : Int, path : Paths, elapsed : Timer, seen : BOOLEAN]
Increment == [kind : {"JogIncrement"}, motor : Motors, path : Paths, delta : Int]
JogStop == [kind |-> "JogStop"]
JogStopImmediate == [kind |-> "JogStopImmediate"]
Commands == Increment \cup {JogStop, JogStopImmediate}

Faults ==
    {"LinkFailure", "PacketTimeout", "QuadratureFailure", "MesaStartupFailure",
     "ControllerWatchdogFailure", "MotionCommandEncodingFailure",
     "InvalidPendantPacket", "LimitDuringRecovery", "LimitLatchResetTimedOut",
     "LimitDuringStartupReset", "HomingDuringStartupReset",
     "StartupLimitMismatch", "StartupLimitDuringHoming",
     "BounceLostLimitAttribution", "UnexpectedLimit", "MotionPathUnavailable",
     "FeedbackUnusable", "BounceTimedOut", "BounceCountMismatch",
     "MotionStopTimedOut", "JogCommandNotAccepted", "JogTimedOut",
     "JogCountMismatch"}

ASSUME NoneAssumption ==
    /\ None \notin ActiveJog \cup Commands \cup Paths \cup Faults \cup Sample

Motion ==
    [phase         : Phases,
     phaseElapsed  : Timer,
     phaseTotal    : Timer,
     active        : ActiveJog \cup {None},
     pending       : Intent \cup {None},
     collision     : Motors \cup {None},
     bounceStarted : BOOLEAN,            \* bounce_start_count is Some
     limitReset    : SUBSET Motors,
     homingWas     : BOOLEAN,
     homingElapsed : Timer,
     mode          : BOOLEAN,            \* pendant_mode_enabled
     interp        : Interpreter,
     command       : Commands \cup {None},
     fault         : Faults \cup {None}]

InitMotion ==
    [phase |-> "Idle", phaseElapsed |-> 0, phaseTotal |-> 0, active |-> None,
     pending |-> None, collision |-> None, bounceStarted |-> FALSE,
     limitReset |-> {}, homingWas |-> FALSE, homingElapsed |-> 0,
     mode |-> FALSE, interp |-> NewInterpreter, command |-> None,
     fault |-> None]

(* What one cycle reads from HAL.  `consumer' is LinuxCNC motion's state    *)
(* for the active jog: its wheel-jog bit is set, it is clear but the axis   *)
(* has not settled, it has settled while another jog still runs, or all     *)
(* motion is stopped.  `path' is the jog path LinuxCNC task and realtime    *)
(* motion agree on, `feedback' that the position is finite and coherent.    *)
Input ==
    [pressed : BOOLEAN, linkLost : BOOLEAN, quadratureFault : BOOLEAN,
     packet : Sample \cup {None},
     estopped : BOOLEAN, machineOn : BOOLEAN, homing : BOOLEAN,
     path : Paths \cup {None},
     raw : SUBSET Motors, safety : SUBSET Motors,
     mode : BOOLEAN, commandReady : BOOLEAN, resetRising : BOOLEAN,
     consumer : {"active", "settling", "settled", "stopped"},
     togo : Int, feedback : BOOLEAN]

WheelActive(i) == i.consumer = "active"
PathSettled(i) == i.consumer \in {"settled", "stopped"}
AllStopped(i) == i.consumer = "stopped"
TargetReached(i) == i.togo = 0

IsSingle(S) == \E m \in S : S = {m}
SingleOf(S) == IF IsSingle(S) THEN CHOOSE m \in S : S = {m} ELSE None
OneHot(m) == IF m = None THEN {} ELSE {m}

(* transition()                                                             *)
To(m, phase) ==
    [m EXCEPT !.phase = phase, !.phaseElapsed = 0, !.phaseTotal = 0]

(* Mutant of Fail: a fault during a latch reset leaves the reset asserted.  *)
FailKeepingReset(m, code) ==
    IF m.fault # None THEN m
    ELSE [To(m, "Idle") EXCEPT
            !.fault = code, !.command = JogStopImmediate, !.active = None,
            !.pending = None, !.collision = None, !.bounceStarted = FALSE]

(* fail() and latch_fault(): the first fault wins.                          *)
Fail(m, code) ==
    IF m.fault # None THEN m
    ELSE [To(m, "Idle") EXCEPT
            !.fault = code, !.command = JogStopImmediate, !.active = None,
            !.pending = None, !.collision = None, !.bounceStarted = FALSE,
            !.limitReset = {}]

(* Mutant of CancelPendantMotion: stops although nothing is active.         *)
CancelBlindly(m) ==
    LET c == [m EXCEPT !.pending = None]
        Stop(phase) == To([c EXCEPT !.command = JogStop], phase)
    IN  IF m.phase = "BounceReleaseJog" THEN Stop("BounceReleaseStopping")
        ELSE IF m.phase \in BouncePhases \cup {"StoppingCancel"} THEN c
        ELSE Stop("StoppingCancel")

CancelPendantMotion(m) ==
    LET c == [m EXCEPT !.pending = None]
        Stop(phase) == To([c EXCEPT !.command = JogStop], phase)
    IN  IF m.active = None \/ m.phase = "StoppingCancel" THEN c
        ELSE IF m.phase = "BounceReleaseJog" THEN Stop("BounceReleaseStopping")
        ELSE IF m.phase \in BouncePhases THEN c
        ELSE Stop("StoppingCancel")

SetPendantMode(m, enabled) ==
    LET c == [m EXCEPT !.mode = enabled, !.interp = NewInterpreter,
                       !.pending = None]
    IN  IF m.mode = enabled THEN m
        ELSE IF enabled THEN c ELSE CancelPendantMotion(c)
-----------------------------------------------------------------------------
(* jog.rs                                                                   *)

NewActive(motor, delta, path) ==
    [motor |-> motor, delta |-> delta, path |-> path, elapsed |-> 0,
     seen |-> FALSE]
JogIncrement(motor, path, delta) ==
    [kind |-> "JogIncrement", motor |-> motor, path |-> path, delta |-> delta]

CanEmitBlindly(m, i) == m.command = None     \* mutant of CanEmit
(* emit_jog() succeeds: the channel is free and this cycle has no command.  *)
CanEmit(m, i) == i.commandReady /\ m.command = None

Issue(m, motor, path, delta, phase) ==
    [To(m, phase) EXCEPT
        !.command = JogIncrement(motor, path, delta),
        !.active = NewActive(motor, delta, path)]

StartJog(m, t, i) ==
    IF i.raw # {} \/ i.safety # {} \/ i.path = None THEN m
    ELSE IF ~i.feedback THEN Fail(m, "FeedbackUnusable")
    ELSE IF ~CanEmit(m, i) THEN [m EXCEPT !.pending = t]
    ELSE [Issue(m, t.motor, i.path, t.delta, "Idle") EXCEPT !.pending = None]

SameSign(a, b) == (a > 0) <=> (b > 0)

(* Mutant of SameMotion: a reversal passes for a continuation.              *)
SameMotionEitherWay(m, t, i) ==
    m.phase = "Idle" /\ m.active.motor = t.motor /\ i.path = m.active.path

(* The intent continues the running jog: same motor, path and direction.    *)
SameMotion(m, t, i) ==
    /\ m.phase = "Idle" /\ m.active.motor = t.motor
    /\ i.path = m.active.path
    /\ SameSign(m.active.delta, t.delta)

(* The new target is delta away from the feedback, the active one togo.     *)
Extension(t, i) == t.delta - i.togo

Extend(m, t, i) ==
    [m EXCEPT !.command = JogIncrement(t.motor, m.active.path, Extension(t, i)),
              !.active = [@ EXCEPT !.delta = t.delta, !.elapsed = 0],
              !.pending = None]

RequestJog(m, t, i) ==
    IF m.phase \in BouncePhases THEN m
    ELSE IF m.active = None THEN StartJog(m, t, i)
    ELSE LET same == SameMotion(m, t, i)
         IN  IF same /\ i.commandReady /\ Extension(t, i) = 0
             THEN [m EXCEPT !.active = [@ EXCEPT !.delta = t.delta],
                            !.pending = None]
             ELSE IF /\ same /\ i.commandReady /\ m.command = None
                     /\ SameSign(Extension(t, i), t.delta)
             THEN Extend(m, t, i)
             ELSE IF same \/ m.phase = "StoppingReplace"
             THEN [m EXCEPT !.pending = t]
             ELSE To([m EXCEPT !.pending = t, !.command = JogStop],
                     "StoppingReplace")

BeginBounce(m, motor) ==
    IF m.active = None THEN Fail(m, "UnexpectedLimit")
    ELSE To([m EXCEPT !.command = JogStopImmediate, !.pending = None,
                      !.collision = motor, !.bounceStarted = FALSE],
            "StoppingBounce")

StartBounceMove(m, path, i) ==
    IF m.collision = None \/ i.safety # OneHot(m.collision)
    THEN Fail(m, "BounceLostLimitAttribution")
    ELSE IF i.path # path THEN Fail(m, "MotionPathUnavailable")
    ELSE IF ~i.feedback THEN Fail(m, "FeedbackUnusable")
    ELSE IF ~CanEmit(m, i) THEN m
    ELSE [Issue(m, m.collision, path, -BouncePulses, "Bouncing") EXCEPT
            !.bounceStarted = TRUE]

BeginLimitReset(m, motor) ==
    To([m EXCEPT !.active = None, !.pending = None,
                 !.limitReset = @ \cup {motor}], "BounceResetAssert")

(* Mutant of StartLimitReleaseJog: towards the limit as well.               *)
StartLimitReleaseEitherWay(m, t, i) ==
    IF m.collision = None THEN Fail(m, "BounceLostLimitAttribution")
    ELSE IF m.phase # "BounceReleaseWait" \/ t.motor # m.collision THEN m
    ELSE IF m.collision \notin i.raw THEN BeginLimitReset(m, m.collision)
    ELSE IF i.safety # OneHot(m.collision)
         THEN Fail(m, "BounceLostLimitAttribution")
    ELSE IF i.path = None \/ ~CanEmit(m, i) THEN m
    ELSE [Issue(m, t.motor, i.path, t.delta, "BounceReleaseJog") EXCEPT
            !.pending = None]

(* Away from the attributed limit only: the limits are at positive travel.  *)
StartLimitReleaseJog(m, t, i) ==
    IF m.collision = None THEN Fail(m, "BounceLostLimitAttribution")
    ELSE IF m.phase # "BounceReleaseWait" \/ t.motor # m.collision \/ t.delta >= 0
         THEN m
    ELSE IF m.collision \notin i.raw THEN BeginLimitReset(m, m.collision)
    ELSE IF i.safety # OneHot(m.collision)
         THEN Fail(m, "BounceLostLimitAttribution")
    ELSE IF i.path = None THEN m
    ELSE IF ~i.feedback THEN Fail(m, "FeedbackUnusable")
    ELSE IF ~CanEmit(m, i) THEN m
    ELSE [Issue(m, t.motor, i.path, t.delta, "BounceReleaseJog") EXCEPT
            !.pending = None]

FinishUnacceptedJog(m) ==
    To([m EXCEPT !.active = None, !.pending = None, !.interp = NewInterpreter],
       IF m.phase = "BounceReleaseJog" THEN "BounceReleaseWait" ELSE "Idle")

FinishBounce(m, i) ==
    IF \/ m.phase = "Bouncing" /\ ~m.bounceStarted
       \/ m.collision = None \/ m.active = None
    THEN Fail(m, "BounceLostLimitAttribution")
    ELSE IF ~i.feedback THEN Fail(m, "FeedbackUnusable")
    ELSE IF ~TargetReached(i) THEN m
    ELSE IF m.collision \in i.raw
    THEN To([m EXCEPT !.active = None, !.pending = None,
                      !.interp = NewInterpreter], "BounceReleaseWait")
    ELSE BeginLimitReset(m, m.collision)

(* observe_manual_probe_stop()                                              *)
RetireProbedJog(m) ==
    IF m.fault # None \/ m.phase \notin {"Idle", "StoppingCancel", "StoppingReplace"}
    THEN m
    ELSE IF m.active = None THEN [m EXCEPT !.pending = None]
    ELSE To([m EXCEPT !.active = None, !.pending = None,
                      !.interp = NewInterpreter], "Idle")
-----------------------------------------------------------------------------
(* advance_motion(), by phase                                               *)

(* Mutant of AdvanceLatchReset: the latch is not read back.                 *)
AdvanceLatchResetUnread(m, i) ==
    IF m.phase = "BounceResetAssert"
    THEN IF m.phaseElapsed < LimitReset THEN m
         ELSE To([m EXCEPT !.limitReset = {}], "BounceResetValidate")
    ELSE IF m.phaseElapsed < LimitResetValidate THEN m
    ELSE To([m EXCEPT !.active = None, !.pending = None, !.collision = None,
                      !.bounceStarted = FALSE, !.interp = NewInterpreter], "Idle")

AdvanceLatchReset(m, i) ==
    IF m.phase = "BounceResetAssert"
    THEN IF m.phaseElapsed < LimitReset THEN m
         ELSE To([m EXCEPT !.limitReset = {}], "BounceResetValidate")
    ELSE IF m.phaseTotal > LimitResetTimeout
    THEN Fail(m, "LimitLatchResetTimedOut")
    ELSE IF m.phaseElapsed < LimitResetValidate \/ i.safety # {} THEN m
    ELSE To([m EXCEPT !.active = None, !.pending = None, !.collision = None,
                      !.bounceStarted = FALSE, !.interp = NewInterpreter], "Idle")

AdvanceReleaseWait(m, i) ==
    IF m.collision = None THEN Fail(m, "BounceLostLimitAttribution")
    ELSE IF m.collision \notin i.raw THEN BeginLimitReset(m, m.collision)
    ELSE m

StartPending(m, i) ==
    IF m.pending = None THEN m
    ELSE StartJog([m EXCEPT !.pending = None], m.pending, i)

AdvanceStopping(m, i) ==
    IF m.phaseElapsed >= MotionStopTimeout THEN Fail(m, "MotionStopTimedOut")
    ELSE IF ~AllStopped(i) THEN m
    ELSE IF m.phase = "StoppingBounce" THEN StartBounceMove(m, m.active.path, i)
    ELSE IF m.phase = "StoppingReplace"
    THEN StartPending(To([m EXCEPT !.active = None], "Idle"), i)
    ELSE IF m.phase = "StoppingCancel"
    THEN To([m EXCEPT !.active = None, !.pending = None], "Idle")
    ELSE To([m EXCEPT !.active = None, !.pending = None,
                      !.interp = NewInterpreter], "BounceReleaseWait")

AdvanceBounce(m, i) ==
    LET timedOut == m.active.elapsed >= BounceTimeout
        finished == FinishBounce(m, i)
    IN  IF i.path # m.active.path
        THEN IF m.phase = "BounceReleaseJog" THEN CancelPendantMotion(m)
             ELSE Fail(m, "MotionPathUnavailable")
        ELSE IF ~m.active.seen
        THEN IF m.active.elapsed < MotionAcceptTimeout THEN m
             ELSE IF m.phase = "BounceReleaseJog" THEN FinishUnacceptedJog(m)
             ELSE Fail(m, "JogCommandNotAccepted")
        ELSE IF ~PathSettled(i)
        THEN IF timedOut THEN Fail(m, "BounceTimedOut") ELSE m
        ELSE IF finished.phase \in {"Bouncing", "BounceReleaseJog"} /\ timedOut
             THEN Fail(finished, "BounceCountMismatch")
             ELSE finished

AdvanceJog(m, i) ==
    LET timedOut == m.active.elapsed >= JogTimeout
    IN  IF i.path # m.active.path THEN CancelPendantMotion(m)
        ELSE IF ~i.feedback THEN Fail(m, "FeedbackUnusable")
        ELSE IF ~m.active.seen
        THEN IF m.active.elapsed < MotionAcceptTimeout THEN m
             ELSE FinishUnacceptedJog(m)
        ELSE IF ~PathSettled(i)
        THEN IF timedOut THEN Fail(m, "JogTimedOut") ELSE m
        ELSE IF ~TargetReached(i)
        THEN IF timedOut THEN Fail(m, "JogCountMismatch") ELSE m
        ELSE StartPending(To([m EXCEPT !.active = None], "Idle"), i)

(* observe_motion()                                                         *)
ObserveMotion(a, i) ==
    [a EXCEPT !.elapsed = Elapse(a.elapsed), !.seen = a.seen \/ WheelActive(i)]
Observe(m, i) == [m EXCEPT !.active = ObserveMotion(m.active, i)]

CountTotal(m) ==
    IF m.phase \in TimedBouncePhases
    THEN [m EXCEPT !.phaseTotal = Elapse(@)] ELSE m

AdvanceActive(m, i) ==
    LET o == Observe(m, i)
    IN  IF m.phase \in StoppingPhases THEN AdvanceStopping(o, i)
        ELSE IF m.phase \in {"Bouncing", "BounceReleaseJog"}
        THEN AdvanceBounce(o, i)
        ELSE IF m.phase = "Idle" THEN AdvanceJog(o, i)
        ELSE o

AdvanceMotion(m0, i) ==
    LET m == CountTotal(m0)
    IN  IF m.phase \in TimedBouncePhases /\ m.phaseTotal > BounceTimeout
        THEN Fail(m, "BounceTimedOut")
        ELSE IF m.phase \in {"BounceResetAssert", "BounceResetValidate"}
        THEN AdvanceLatchReset(m, i)
        ELSE IF m.phase = "BounceReleaseWait" THEN AdvanceReleaseWait(m, i)
        ELSE IF m.active # None THEN AdvanceActive(m, i)
        ELSE IF m.phase = "Idle" /\ i.commandReady THEN StartPending(m, i)
        ELSE m

DrainPending(m, i) ==
    IF m.phase # "Idle" \/ ~i.commandReady \/ m.pending = None THEN m
    ELSE LET taken == [m EXCEPT !.pending = None]
         IN  IF m.active # None THEN RequestJog(taken, m.pending, i)
             ELSE StartJog(taken, m.pending, i)
-----------------------------------------------------------------------------
(* limits.rs                                                                *)

CheckLimits(m, i) ==
    IF i.safety = {} \/ i.homing \/ m.homingWas THEN m
    ELSE IF m.phase \in BouncePhases
    THEN IF SingleOf(i.safety) = m.collision THEN m
         ELSE Fail(m, "BounceLostLimitAttribution")
    ELSE IF m.active # None /\ m.active.delta > 0 /\ i.safety = {m.active.motor}
    THEN BeginBounce(m, m.active.motor)
    ELSE Fail(m, "UnexpectedLimit")

ManageHomingLatches(m, i) ==
    LET waited == Elapse(m.homingElapsed)
    IN  IF i.homing
        THEN CancelPendantMotion([m EXCEPT !.homingWas = TRUE,
                                           !.homingElapsed = 0])
        ELSE IF ~m.homingWas \/ i.raw # {} THEN m
        ELSE IF m.limitReset = {} /\ i.safety # {}
        THEN [m EXCEPT !.limitReset = i.safety, !.homingElapsed = 0]
        ELSE IF m.limitReset # {}
        THEN IF waited < LimitReset THEN [m EXCEPT !.homingElapsed = waited]
             ELSE [m EXCEPT !.limitReset = {}, !.homingElapsed = 0]
        ELSE [m EXCEPT !.homingWas = FALSE, !.homingElapsed = 0]
-----------------------------------------------------------------------------
(* The packet of the cycle, in the last part of update()                    *)

OnLimitReleasePacket(m, i) ==
    LET d == Decision(m.interp, i.packet)
        n == [m EXCEPT !.interp = Interpreted(@, i.packet)]
    IN  IF d = "Stop" THEN CancelPendantMotion(n)
        ELSE IF d = "Fault" THEN Fail(n, "InvalidPendantPacket")
        ELSE IF d = "Jog" /\ m.phase = "BounceReleaseWait"
        THEN StartLimitReleaseJog(n, IntentOf(i.packet), i)
        ELSE n

OnJogPacket(m, i) ==
    LET d == Decision(m.interp, i.packet)
        n == [m EXCEPT !.interp = Interpreted(@, i.packet)]
    IN  IF d = "Stop" THEN CancelPendantMotion(n)
        ELSE IF d = "Fault" THEN Fail(n, "InvalidPendantPacket")
        ELSE IF d = "Jog" THEN RequestJog(n, IntentOf(i.packet), i)
        ELSE n

(* Mutant of OnPacket: detents move the machine outside Pendant Mode.       *)
OnPacketInAnyMode(m, i) ==
    IF i.packet = None THEN m
    ELSE IF m.phase \in {"BounceReleaseWait", "BounceReleaseJog"}
    THEN OnLimitReleasePacket(m, i)
    ELSE IF m.phase \in BouncePhases THEN m
    ELSE OnJogPacket(m, i)

OnPacket(m, i) ==
    IF i.packet = None \/ ~m.mode THEN m
    ELSE IF m.phase \in {"BounceReleaseWait", "BounceReleaseJog"}
    THEN OnLimitReleasePacket(m, i)
    ELSE IF m.phase \in BouncePhases THEN m
    ELSE OnJogPacket(m, i)

(* The jog branch of update(): homing latches, limits, motion, packet.      *)
RunMotion(m, i) ==
    LET checked == CheckLimits(ManageHomingLatches(m, i), i)
        moved == IF checked.fault # None THEN checked
                 ELSE DrainPending(AdvanceMotion(checked, i), i)
    IN  IF moved.fault # None THEN moved ELSE OnPacket(moved, i)

(* The start of every update(): the command of the last cycle is gone, the  *)
(* phase clock runs, and the mode switch is followed.                       *)
BeginCycle(m, i) ==
    LET ticked == IF m.phase \in ClockedPhases
                  THEN [m EXCEPT !.phaseElapsed = Elapse(@)] ELSE m
    IN  SetPendantMode([ticked EXCEPT !.command = None], i.mode)
=============================================================================
