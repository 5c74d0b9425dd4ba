-------------------------- MODULE SupervisorSafety ---------------------------
(***************************************************************************)
(* What LinuxCncPendantSupervisor must never do, whatever HAL shows it and  *)
(* whenever the runtime calls it.                                           *)
(***************************************************************************)
EXTENDS PendantSupervisor

(* fault/latch_fault(): a latched fault leaves nothing behind it.  The gate *)
(* is closed, no request stands, no jog, pending detent, backoff or limit   *)
(* reset survives, and no later cycle, packet, mode switch or probe stop    *)
(* brings any of it back while the fault is held.                           *)
FaultedIsInert ==
    motion.fault # None =>
        /\ ~power.gate /\ ~power.estopReset /\ ~power.machineOn
        /\ power.step = "None" /\ ~power.restore
        /\ motion.phase = "Idle" /\ motion.limitReset = {}
        /\ motion.active = None /\ motion.pending = None
        /\ motion.collision = None

(* update.rs/recovery.rs: the external gate is open only if no part of a    *)
(* recovery is outstanding: not while the gesture is being made, not while  *)
(* Clear Fault waits for the visible reset, not while latches are reset.    *)
GateMeansRecovered ==
    power.gate =>
        /\ motion.fault = None
        /\ power.step \in {"None", "GateSettle", "WaitReset", "WaitOn"}
        /\ RecoveryActive(recovery) =>
              recovery.stage = "CompletePending" /\ power.step # "None"

(* recovery.rs/startup.rs: each HALUI request has one owner, the step that  *)
(* awaits its acknowledgement, so the two are never up together and none is *)
(* up when the supervisor believes nothing is being asked.                  *)
RequestsHaveAnOwner ==
    /\ power.estopReset =>
        /\ ~power.machineOn
        /\ \/ power.step = "WaitReset"
           \/ motion.phase \in {"StartupReadyWaitReset", "StartupWaitReset"}
    /\ power.machineOn =>
        \/ power.step = "WaitOn"
        \/ motion.phase \in {"StartupReadyWaitOn", "StartupWaitOn"}

(* recovery.rs "a base AXIS reset does not also request Machine On": after  *)
(* the one cold start, Machine On is asked for only on behalf of a gesture  *)
(* that was completed and has not been engaged, cleared or reset since.     *)
MachineOnNeedsTheGesture ==
    power.machineOn =>
        \/ power.restore /\ recovery.stage = "CompletePending"
        \/ motion.phase \in {"StartupReadyWaitOn", "StartupWaitOn"}

(* controller/mod.rs "Fault clearing is not another cold start and cannot   *)
(* inherit its automatic Machine On or startup-backoff sequence": once the  *)
(* startup decision is taken, by whatever call, it is never taken again and *)
(* no startup phase is entered from outside the startup.                    *)
StartupHappensOnce ==
    [][~startup =>
        /\ ~startup'
        /\ motion'.phase \in StartupPowerPhases \cup StartupBouncePhases =>
              motion.phase \in StartupPowerPhases \cup StartupBouncePhases]_vars

(* controller/mod.rs outputs(), limits.rs, recovery.rs: a realtime limit    *)
(* latch is held in reset only by the step that owns the reset: the backoff *)
(* just finished, an explicit reset of stale latches, or homing.            *)
LatchResetHasAnOwner ==
    motion.limitReset # {} =>
        \/ motion.phase = "BounceResetAssert"
        \/ power.step = "LimitResetAssert" /\ motion.limitReset = power.mask
        \/ motion.homingWas

(* jog.rs: a phase that waits for motion keeps the jog it waits for, and a  *)
(* phase of the limit release keeps the switch it is attributed to;         *)
(* otherwise it would wait forever with the gate open and no timeout.       *)
PhasesKeepTheirSubject ==
    /\ motion.phase \in {"Bouncing", "BounceReleaseJog"} \cup StoppingPhases =>
           motion.active # None
    /\ motion.phase \in BouncePhases => motion.collision # None
    /\ motion.active # None =>
           motion.phase \in {"Idle", "Bouncing", "BounceReleaseJog"}
                                \cup StoppingPhases

(* README.md "Other axes and the toward direction remain blocked": while a  *)
(* limit is attributed, the only increment ever issued moves the attributed *)
(* axis away from it.                                                       *)
OnlyAwayFromTheLimit ==
    (motion.collision # None /\ motion.command \in Increment) =>
        /\ motion.command.motor = motion.collision
        /\ motion.command.delta < 0

(* Jogs only come out of an armed supervisor: gate open, no recovery, and,  *)
(* unless it is the attributed backoff, Pendant Mode on.                    *)
IncrementsNeedArming ==
    motion.command \in Increment =>
        /\ power.gate /\ power.step = "None" /\ ~RecoveryActive(recovery)
        /\ motion.mode \/ motion.phase = "Bouncing"

(* README.md "Axis changes and direction reversals stop first": the active  *)
(* jog changes its motor or its direction only in a cycle in which LinuxCNC *)
(* reports all motion stopped, or this jog settled on its target.           *)
Reverses ==
    /\ motion.active # None /\ motion'.active # None
    /\ \/ motion'.active.motor # motion.active.motor
       \/ ~SameSign(motion'.active.delta, motion.active.delta)
ReversalsStopFirst ==
    [][Reverses =>
        \A i \in Inputs :
            ~AllStopped(i) /\ ~(PathSettled(i) /\ TargetReached(i)) => ~Update(i)]_vars

(* latch_fault(), engage_estop(), clear_latched_fault(): a jog that a       *)
(* fault, a press, a clear or a reset takes from the supervisor is stopped  *)
(* at once, by the command of the same cycle; it is never merely forgotten. *)
Interrupts ==
    \/ motion'.fault # None
    \/ RecoveryActive(recovery') /\ ~RecoveryActive(recovery)
    \/ power'.step # power.step
AbandonedJogsAreStopped ==
    [][(motion.active # None /\ motion'.active = None /\ Interrupts)
       => motion'.command = JogStopImmediate]_vars

(* limits.rs/jog.rs: the switch a release is attributed to is forgotten     *)
(* only after its latch was reset and read back clear, or together with     *)
(* everything else in a cycle that stops all motion immediately.            *)
AttributionIsKept ==
    [][(motion.collision # None /\ motion'.collision # motion.collision)
       => \/ motion'.command = JogStopImmediate
          \/ /\ motion.phase = "BounceResetValidate"
             /\ \A i \in Inputs : i.safety # {} => ~Update(i)]_vars
=============================================================================
