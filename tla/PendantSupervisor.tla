-------------------------- MODULE PendantSupervisor --------------------------
(***************************************************************************)
(* LinuxCncPendantSupervisor (dmc2-core/src/supervisor/controller): the     *)
(* owner of the external E-stop gate, of the requests it makes to LinuxCNC, *)
(* of the recovery gesture and of pendant motion.  One action per public    *)
(* operation the realtime runtime calls; Update has one disjunct per branch *)
(* of update().  A handler that update() calls after another has changed    *)
(* the state takes the changed values as parameters.                        *)
(***************************************************************************)
EXTENDS JogControl

CONSTANT Inputs   \* what HAL may show in a cycle
ASSUME InputsAssumption == Inputs \subseteq Input

VARIABLES
    link,       \* link_established
    startup,    \* startup_progress is Pending
    recovery,   \* EstopRecoverySequence
    power,      \* recovery_power_phase, the gate and the two requests
    ready,      \* control_ready
    motion      \* the fields jog.rs and limits.rs work on
vars == <<link, startup, recovery, power, ready, motion>>

PowerSteps ==
    {"None", "AwaitUiReset", "LimitResetAssert", "LimitResetValidate",
     "GateSettle", "WaitReset", "WaitOn"}

Power ==
    [step       : PowerSteps,
     mask       : SUBSET Motors,   \* of the two limit-reset steps
     elapsed    : Timer,           \* recovery_elapsed_ns
     restore    : BOOLEAN,         \* recovery_restore_machine_on
     gate       : BOOLEAN,         \* external_enable
     estopReset : BOOLEAN,         \* estop_reset_request
     machineOn  : BOOLEAN]         \* machine_on_request

InitPower ==
    [step |-> "None", mask |-> {}, elapsed |-> 0, restore |-> FALSE,
     gate |-> FALSE, estopReset |-> FALSE, machineOn |-> FALSE]

TypeOK ==
    /\ link \in BOOLEAN
    /\ startup \in BOOLEAN
    /\ recovery \in Recovery
    /\ power \in Power
    /\ ready \in BOOLEAN
    /\ motion \in Motion

Init ==
    /\ link = FALSE
    /\ startup = TRUE
    /\ recovery = InactiveRecovery
    /\ power = InitPower
    /\ ready = FALSE
    /\ motion = InitMotion
-----------------------------------------------------------------------------
NoResetRequest(p) == [p EXCEPT !.estopReset = FALSE]   \* mutant of NoRequests
(* clear_state_requests()                                                   *)
NoRequests(p) == [p EXCEPT !.estopReset = FALSE, !.machineOn = FALSE]
Closed(p) == [p EXCEPT !.gate = FALSE]
Opened(p) == [p EXCEPT !.gate = TRUE]
AtStep(p, step) == [p EXCEPT !.step = step, !.mask = {}, !.elapsed = 0]
Unpowered(p) == [p EXCEPT !.step = "None", !.mask = {}]

DroppedGate(p) == Closed(p)   \* mutant of Dropped: only the gate falls

(* The half of latch_fault() and of engage_estop() that is about power.     *)
Dropped(p) == [Unpowered(Closed(NoRequests(p))) EXCEPT !.restore = FALSE]

(* m is the motion record after the handlers of this cycle; if one of them  *)
(* latched a fault, latch_fault() has dropped the power state too.          *)
Settle(r, p, m) ==
    /\ recovery' = r
    /\ motion' = m
    /\ power' = IF m.fault # None THEN Dropped(p) ELSE p

SettleFault(r, p, m, code) == Settle(r, p, Fail(m, code))
-----------------------------------------------------------------------------
(* recovery.rs                                                              *)

(* Mutant of EngagedMotion: the jog is not stopped.                         *)
EngagedWithoutStop(m) ==
    [To(m, "Idle") EXCEPT
        !.active = None, !.pending = None, !.collision = None,
        !.bounceStarted = FALSE, !.limitReset = {}, !.interp = NewInterpreter]

EngagedMotion(m) ==
    [To(m, "Idle") EXCEPT
        !.command = JogStopImmediate, !.active = None, !.pending = None,
        !.collision = None, !.bounceStarted = FALSE, !.limitReset = {},
        !.interp = NewInterpreter]

(* begin_linuxcnc_estop_reset(): stale latches may be released, asserted    *)
(* switches never; a single asserted switch keeps its attribution.          *)
Stale(i) == i.safety \ i.raw
ResetMotion(m, i) ==
    LET c == [m EXCEPT !.interp = NewInterpreter, !.collision = SingleOf(i.raw)]
        t == To(c, IF c.collision # None THEN "BounceReleaseWait" ELSE "Idle")
    IN  IF i.raw # {} /\ c.collision = None THEN Fail(c, "LimitDuringRecovery")
        ELSE IF Stale(i) # {} THEN [t EXCEPT !.limitReset = Stale(i)]
        ELSE t
ResetPowerShut(p, i) ==   \* mutant of ResetPower: the gate stays closed
    AtStep([Closed(NoRequests(p)) EXCEPT !.restore = FALSE], "GateSettle")
ResetPower(p, i) ==
    LET c == [Closed(NoRequests(p)) EXCEPT !.restore = FALSE]
    IN  IF Stale(i) # {}
        THEN [AtStep(c, "LimitResetAssert") EXCEPT !.mask = Stale(i)]
        ELSE Opened(AtStep(c, "GateSettle"))

BeginLinuxcncEstopReset(p, m, i) ==
    /\ startup' = FALSE
    /\ Settle(InactiveRecovery, ResetPower(p, i), ResetMotion(m, i))

(* advance_recovery(): a limit that is neither the attributed switch nor a  *)
(* latch being reset ends the recovery.                                     *)
Resetting(p) ==
    IF p.step \in {"LimitResetAssert", "LimitResetValidate"} THEN p.mask ELSE {}
UnexplainedLimit(p, m, i) ==
    \/ ~(i.raw \subseteq OneHot(m.collision))
    \/ ~(i.safety \subseteq OneHot(m.collision) \cup Resetting(p))

TickedPower(p) ==
    IF p.step \in {"LimitResetAssert", "LimitResetValidate", "GateSettle"}
    THEN [p EXCEPT !.elapsed = Elapse(@)] ELSE p

(* Mutant of Recovered: the last request is not withdrawn.                  *)
RecoveredStillAsking(p, m) ==
    Settle(InactiveRecovery, Unpowered(p), [m EXCEPT !.interp = NewInterpreter])

(* The recovery has ended: accept_unlock() and a fresh interpreter.         *)
Recovered(p, m) ==
    Settle(InactiveRecovery, Unpowered(NoRequests(p)),
           [m EXCEPT !.interp = NewInterpreter])

AdvanceLimitReset(r, p, m, i) ==
    \/ /\ p.step = "LimitResetAssert" /\ p.elapsed >= LimitReset
       /\ Settle(r, [AtStep(p, "LimitResetValidate") EXCEPT !.mask = p.mask],
                 [m EXCEPT !.limitReset = {}])
    \/ /\ p.step = "LimitResetAssert" /\ p.elapsed < LimitReset
       /\ Settle(r, p, m)
    \/ /\ p.step = "LimitResetValidate" /\ p.elapsed >= LimitResetTimeout
       /\ SettleFault(r, p, m, "LimitLatchResetTimedOut")
    \/ /\ p.step = "LimitResetValidate" /\ p.elapsed < LimitResetTimeout
       /\ IF p.elapsed >= LimitResetValidate /\ p.mask \cap i.safety = {}
          THEN Settle(r, Opened(AtStep(p, "GateSettle")), m)
          ELSE Settle(r, p, m)

AdvanceRequests(r, p, m, i) ==
    \/ /\ p.step = "GateSettle" /\ p.elapsed >= GateSettle
       /\ Settle(r, [AtStep(p, "WaitReset") EXCEPT !.estopReset = TRUE,
                                                   !.machineOn = FALSE], m)
    \/ /\ p.step = "WaitReset" /\ ~i.estopped /\ p.restore
       /\ Settle(r, [AtStep(p, "WaitOn") EXCEPT !.estopReset = FALSE,
                                                !.machineOn = TRUE], m)
    \/ /\ p.step = "WaitReset" /\ ~i.estopped /\ ~p.restore
       /\ Recovered(p, m)
    \/ /\ p.step = "WaitOn" /\ i.machineOn
       /\ Recovered([p EXCEPT !.restore = FALSE], m)
    \/ /\ \/ p.step = "GateSettle" /\ p.elapsed < GateSettle
          \/ p.step = "WaitReset" /\ i.estopped
          \/ p.step = "WaitOn" /\ ~i.machineOn
       /\ Settle(r, p, m)

AdvanceRecovery(r, p, m, i) ==
    \/ /\ UnexplainedLimit(p, m, i)
       /\ SettleFault(r, p, m, "LimitDuringRecovery")
    \/ /\ ~UnexplainedLimit(p, m, i)
       /\ \/ AdvanceLimitReset(r, TickedPower(p), m, i)
          \/ AdvanceRequests(r, TickedPower(p), m, i)

(* begin_recovery_unlock(): refused while a limit or homing is active.      *)
UnlockBlocked(i) == i.raw # {} \/ i.safety # {} \/ i.homing
UnlockedPowerShut(p) ==   \* mutant of UnlockedPower: the gate stays closed
    [AtStep(NoRequests(p), "GateSettle") EXCEPT !.restore = TRUE]
UnlockedPower(p) ==
    [Opened(AtStep(NoRequests(p), "GateSettle")) EXCEPT !.restore = TRUE]
-----------------------------------------------------------------------------
(* startup.rs                                                               *)

(* check_startup_limits(): the motion record after the one look at the      *)
(* limits a cold start takes.                                               *)
StartupMotion(m, i) ==
    IF ~startup THEN m
    ELSE IF i.raw = {} /\ i.safety = {}
    THEN IF i.estopped \/ ~i.machineOn THEN To(m, "StartupReadyGateSettle") ELSE m
    ELSE IF ~IsSingle(i.raw) \/ (IsSingle(i.safety) /\ i.safety # i.raw)
    THEN Fail(m, "StartupLimitMismatch")
    ELSE IF i.homing THEN Fail(m, "StartupLimitDuringHoming")
    ELSE To([m EXCEPT !.active = None, !.pending = None, !.bounceStarted = FALSE,
                      !.collision = SingleOf(i.raw)], "StartupGateSettle")

StartupPower == IF startup THEN NoRequests(power) ELSE power

SettleStartup(p, m) == Settle(recovery, p, m)

FinishStartupPower(p, m) ==
    SettleStartup(NoRequests(p), [To(m, "Idle") EXCEPT !.interp = NewInterpreter])

AskReset(p, m, phase) == SettleStartup([p EXCEPT !.estopReset = TRUE], To(m, phase))
AskNothing(p, m, phase) ==   \* mutant of AskMachineOn
    SettleStartup([p EXCEPT !.estopReset = FALSE], To(m, phase))
AskMachineOn(p, m, phase) ==
    SettleStartup([p EXCEPT !.estopReset = FALSE, !.machineOn = TRUE], To(m, phase))

AdvanceStartupPower(p, m, i) ==
    LET settled ==
            m.phase = "StartupReadyGateSettle" /\ m.phaseElapsed >= GateSettle
        reset ==
            /\ settled \/ m.phase = "StartupReadyWaitReset"
            /\ ~i.estopped
        powered ==
            /\ reset \/ m.phase = "StartupReadyWaitOn"
            /\ i.machineOn
    IN  IF i.raw # {} \/ i.safety # {}
        THEN SettleStartup(p, Fail(m, "LimitDuringStartupReset"))
        ELSE IF i.homing
        THEN SettleStartup(p, Fail(m, "HomingDuringStartupReset"))
        ELSE IF settled /\ i.estopped THEN AskReset(p, m, "StartupReadyWaitReset")
        ELSE IF powered THEN FinishStartupPower(p, m)
        ELSE IF reset THEN AskMachineOn(p, m, "StartupReadyWaitOn")
        ELSE SettleStartup(p, m)

(* advance_startup_bounce().  Before the gate has settled the match falls   *)
(* through to the jog path, as in the code.                                 *)
AdvanceStartupBounce(p, m, i) ==
    LET expected == OneHot(m.collision)
        settled == m.phase = "StartupGateSettle" /\ m.phaseElapsed >= GateSettle
        asksReset == settled /\ i.estopped
        reset == m.phase = "StartupWaitReset" /\ ~i.estopped
        asksOn == (settled \/ reset) /\ ~i.estopped /\ ~i.machineOn
        waits == \/ m.phase = "StartupWaitReset" /\ i.estopped
                 \/ m.phase = "StartupWaitOn" /\ ~i.machineOn
        answered == [p EXCEPT
            !.estopReset = @ /\ m.phase # "StartupWaitReset",
            !.machineOn = @ /\ m.phase # "StartupWaitOn"]
    IN  IF m.collision = None \/ i.safety \notin {{}, expected}
        THEN SettleStartup(p, Fail(m, "BounceLostLimitAttribution"))
        ELSE IF i.safety = {} \/ waits THEN SettleStartup(p, m)
        ELSE IF asksReset THEN AskReset(p, m, "StartupWaitReset")
        ELSE IF asksOn THEN AskMachineOn(p, m, "StartupWaitOn")
        ELSE IF i.path = None THEN SettleStartup(answered, m)
        ELSE SettleStartup(NoRequests(p), StartBounceMove(m, i.path, i))
-----------------------------------------------------------------------------
(* update(), branch by branch; m is the motion record after BeginCycle.     *)

HeldByFault(m) ==
    /\ m.fault # None
    /\ power' = Closed(power) /\ motion' = m
    /\ UNCHANGED <<startup, recovery>>

AwaitLink(m) ==
    /\ m.fault = None /\ ~link'
    /\ power' = Closed(power) /\ motion' = m
    /\ UNCHANGED <<startup, recovery>>

Operable(m) == m.fault = None /\ link'

(* The pressed button owns this transition: engage once, hold the gate.     *)
HoldEstop(m, i) ==
    /\ Operable(m) /\ i.pressed
    /\ IF i.packet # None /\ ~RecoveryActive(recovery)
       THEN /\ recovery' = Engaged(i.packet)
            /\ power' = Dropped(power)
            /\ motion' = EngagedMotion(m)
       ELSE /\ power' = Closed(power)
            /\ motion' = m
            /\ UNCHANGED recovery
    /\ UNCHANGED startup

AxisReset(i) ==
    i.resetRising /\ RecoveryActive(recovery) /\ power.step = "None"

(* A reset edge during the gesture ends it, and the power sequence that     *)
(* begins takes its first step in the same cycle.                           *)
AcceptAxisReset(m, i) ==
    /\ Operable(m) /\ ~i.pressed /\ AxisReset(i)
    /\ IF ResetMotion(m, i).fault # None
       THEN BeginLinuxcncEstopReset(power, m, i)
       ELSE /\ startup' = FALSE
            /\ AdvanceRecovery(InactiveRecovery, ResetPower(power, i),
                               ResetMotion(m, i), i)

PowerStep(m, i) ==
    /\ Operable(m) /\ ~i.pressed /\ power.step # "None"
    /\ \/ /\ power.step = "AwaitUiReset" /\ i.resetRising
          /\ BeginLinuxcncEstopReset(power, m, i)
       \/ /\ power.step = "AwaitUiReset" /\ ~i.resetRising
          /\ Settle(recovery, Closed(power), m)
          /\ UNCHANGED startup
       \/ /\ power.step # "AwaitUiReset"
          /\ AdvanceRecovery(recovery, power, m, i)
          /\ UNCHANGED startup

FollowGesture(m, i) ==
    /\ Operable(m) /\ ~i.pressed /\ power.step = "None"
    /\ RecoveryActive(recovery) /\ ~i.resetRising
    /\ UNCHANGED startup
    /\ \/ /\ i.packet = None
          /\ Settle(recovery, Closed(power), m)
       \/ /\ i.packet # None /\ ~UnlockRequested(recovery, i.packet)
          /\ Settle(Processed(recovery, i.packet), Closed(power), m)
       \/ /\ i.packet # None /\ UnlockRequested(recovery, i.packet)
          /\ IF UnlockBlocked(i)
             THEN Settle(Restarted(i.packet), Closed(power), m)
             ELSE Settle(Processed(recovery, i.packet), UnlockedPower(power), m)

Running(m, i) ==
    /\ Operable(m) /\ ~i.pressed /\ power.step = "None"
    /\ ~RecoveryActive(recovery)

LinkFault(m, i) ==
    /\ Running(m, i) /\ (i.linkLost \/ i.quadratureFault)
    /\ SettleFault(recovery, power, m,
                   IF i.linkLost THEN "LinkFailure" ELSE "QuadratureFailure")
    /\ UNCHANGED startup

(* Startup, then jogging; the first such cycle takes the startup decision.  *)
Operate(m, i) ==
    LET s == StartupMotion(m, i)
        p == Opened(StartupPower)
    IN  /\ Running(m, i) /\ ~i.linkLost /\ ~i.quadratureFault
        /\ startup' = FALSE
        /\ \/ /\ s.fault # None
              /\ Settle(recovery, power, s)
           \/ /\ s.fault = None /\ s.phase \in StartupPowerPhases
              /\ AdvanceStartupPower(p, s, i)
           \/ /\ s.fault = None /\ s.phase \in StartupBouncePhases
              /\ LET c == CheckLimits(s, i)
                 IN  IF c.fault # None THEN Settle(recovery, p, c)
                     ELSE AdvanceStartupBounce(p, c, i)
           \/ /\ s.fault = None
              /\ s.phase \notin StartupPowerPhases \cup StartupBouncePhases
              /\ Settle(recovery, p, RunMotion(s, i))

(* control_ready is set by a cycle that reaches the end of the jog branch.  *)
ControlReady(m, i) ==
    /\ Running(m, i) /\ ~i.linkLost /\ ~i.quadratureFault
    /\ StartupMotion(m, i).phase \notin StartupPowerPhases \cup StartupBouncePhases
    /\ motion'.fault = None /\ motion'.phase \notin BouncePhases
    /\ i.path # None /\ i.mode /\ i.raw = {} /\ i.safety = {}

Update(i) ==
    LET m == BeginCycle(motion, i)
    IN  /\ link' = (link \/ i.packet # None)
        /\ \/ HeldByFault(m)
           \/ AwaitLink(m)
           \/ HoldEstop(m, i)
           \/ AcceptAxisReset(m, i)
           \/ PowerStep(m, i)
           \/ FollowGesture(m, i)
           \/ LinkFault(m, i)
           \/ Operate(m, i)
        /\ ready' = ControlReady(m, i)
-----------------------------------------------------------------------------
(* The other operations of the supervisor, called by runtime.rs             *)

(* fail(): a runtime guard or the motion channel reports a fault.           *)
RuntimeFault(code) ==
    /\ motion.fault = None
    /\ SettleFault(recovery, power, motion, code)
    /\ ready' = FALSE
    /\ UNCHANGED <<link, startup>>

(* clear_latched_fault(): also taken when no fault is latched.              *)
ClearedMotion ==
    [To(motion, "Idle") EXCEPT
        !.active = None, !.pending = None, !.collision = None,
        !.bounceStarted = FALSE, !.limitReset = {}, !.homingWas = FALSE,
        !.homingElapsed = 0, !.interp = NewInterpreter, !.fault = None,
        !.command = JogStopImmediate]
ClearedPowerOpen ==   \* mutant of ClearedPower: Clear Fault leaves the gate
    [AtStep(NoRequests(power), "AwaitUiReset") EXCEPT !.restore = FALSE]
ClearedPower ==
    [AtStep(Closed(NoRequests(power)), "AwaitUiReset") EXCEPT !.restore = FALSE]

(* Mutant of ClearLatchedFault: clearing is another cold start.             *)
ClearLatchedFaultCold ==
    /\ recovery' = InactiveRecovery
    /\ motion' = ClearedMotion
    /\ power' = ClearedPower
    /\ startup' = TRUE /\ ready' = FALSE
    /\ UNCHANGED link

ClearLatchedFault ==
    /\ recovery' = InactiveRecovery
    /\ motion' = ClearedMotion
    /\ power' = ClearedPower
    /\ startup' = FALSE /\ ready' = FALSE
    /\ UNCHANGED link

(* runtime.rs clears and, with the button released, begins the reset in the *)
(* same cycle: on a reset edge while a fault is latched, or when the bridge *)
(* acknowledges the decoder reset a clear has asked for, whatever the       *)
(* supervisor has done since.                                               *)
ClearAndReset(i) ==
    /\ BeginLinuxcncEstopReset(ClearedPower, ClearedMotion, i)
    /\ ready' = FALSE
    /\ UNCHANGED link

ObserveManualProbeStop ==
    /\ motion' = RetireProbedJog(motion)
    /\ UNCHANGED <<link, startup, recovery, power, ready>>

RuntimeFaults ==
    {"LinkFailure", "PacketTimeout", "QuadratureFailure", "MesaStartupFailure",
     "ControllerWatchdogFailure", "MotionCommandEncodingFailure"}

Next ==
    \/ \E i \in Inputs : Update(i) \/ (~i.pressed /\ ClearAndReset(i))
    \/ \E code \in RuntimeFaults : RuntimeFault(code)
    \/ ClearLatchedFault
    \/ ObserveManualProbeStop

Spec == Init /\ [][Next]_vars
=============================================================================
