---------------------------- MODULE StartupGuards ----------------------------
(***************************************************************************)
(* dmc2-core/src/startup.rs: what must hold before the supervisor runs.     *)
(* MesaStartupGuard clears a stale bite of the Mesa watchdog, waits until   *)
(* it stays away and resets the limit latches; ControllerWatchdogGuard arms *)
(* the HAL watchdog that supervises the heartbeat and, once the startup is  *)
(* committed, never arms it again by itself.  Operators on two records; a   *)
(* guard's `faulted' is its Fault phase, which only fail() enters.          *)
(***************************************************************************)
EXTENDS Naturals

CONSTANTS
    MesaStable, LatchReset, LatchSettle,   \* of the Mesa guard, in cycles
    ArmLow, OkWait, OkStable,              \* of the watchdog guard
    GuardCap                               \* bound of both timers

ASSUME GuardAssumption ==
    /\ GuardCap \in Nat
    /\ {MesaStable, LatchReset, LatchSettle, ArmLow, OkWait, OkStable}
           \subseteq 1..GuardCap

GuardTimer == 0..GuardCap
Tick(t) == IF t < GuardCap THEN t + 1 ELSE t

MesaPhases ==
    {"WaitServo", "WatchdogStable", "LimitReset", "LimitSettle", "Ready", "Fault"}
Mesa ==
    [phase   : MesaPhases,
     elapsed : GuardTimer,
     clear   : BOOLEAN,     \* watchdog_clear_requested
     reset   : BOOLEAN]     \* limit_reset, all motors alike

NewMesa == [phase |-> "WaitServo", elapsed |-> 0, clear |-> FALSE, reset |-> FALSE]

MesaTo(g, phase, reset) ==
    [g EXCEPT !.phase = phase, !.elapsed = 0, !.reset = reset]

(* update().  A bite before Ready starts the wait again, after it faults.   *)
MesaUpdated(before, servoReady, hasBit, ioError) ==
    LET g == [before EXCEPT !.clear = FALSE]
        started == IF g.phase = "WaitServo" THEN MesaTo(g, "WatchdogStable", g.reset) ELSE g
        ticked == [started EXCEPT !.elapsed = Tick(@)]
        Due(phase, t) == ticked.phase = phase /\ ticked.elapsed >= t
    IN  IF g.phase = "Fault" THEN g
        ELSE IF ioError \/ (g.phase = "Ready" /\ hasBit) THEN MesaTo(g, "Fault", FALSE)
        ELSE IF g.phase = "Ready" \/ (g.phase = "WaitServo" /\ ~servoReady) THEN g
        ELSE IF hasBit THEN [MesaTo(g, "WatchdogStable", FALSE) EXCEPT !.clear = TRUE]
        ELSE IF Due("WatchdogStable", MesaStable) THEN MesaTo(ticked, "LimitReset", TRUE)
        ELSE IF Due("LimitReset", LatchReset) THEN MesaTo(ticked, "LimitSettle", FALSE)
        ELSE IF Due("LimitSettle", LatchSettle) THEN MesaTo(ticked, "Ready", ticked.reset)
        ELSE ticked
-----------------------------------------------------------------------------
WatchdogPhases ==
    {"WaitPrerequisites", "ArmLow", "WaitOk", "Stable", "Ready", "Fault"}
Watchdog ==
    [phase     : WatchdogPhases,
     elapsed   : GuardTimer,
     enable    : BOOLEAN,
     committed : BOOLEAN]   \* runtime_committed

NewWatchdog ==
    [phase |-> "WaitPrerequisites", elapsed |-> 0, enable |-> FALSE,
     committed |-> FALSE]

WatchdogTo(w, phase, enable) ==
    [w EXCEPT !.phase = phase, !.elapsed = 0, !.enable = enable]

(* The cycle of a guard that is ready.  After the commit the prerequisites  *)
(* no longer matter and a lost acknowledgement is a fault.                  *)
ReadyWatchdogRearming(w, ok, prerequisites) ==   \* mutant of ReadyWatchdog
    IF ~w.committed /\ ~prerequisites THEN WatchdogTo(w, "WaitPrerequisites", FALSE)
    ELSE IF ok THEN w ELSE WatchdogTo(w, "ArmLow", FALSE)
ReadyWatchdogStuck(w, ok, prerequisites) ==      \* mutant of ReadyWatchdog
    IF ~w.committed /\ ~prerequisites THEN WatchdogTo(w, "WaitPrerequisites", FALSE)
    ELSE IF ok \/ ~w.committed THEN w ELSE WatchdogTo(w, "Fault", FALSE)
ReadyWatchdog(w, ok, prerequisites) ==
    IF ~w.committed /\ ~prerequisites THEN WatchdogTo(w, "WaitPrerequisites", FALSE)
    ELSE IF ok THEN w
    ELSE WatchdogTo(w, IF w.committed THEN "Fault" ELSE "ArmLow", FALSE)

ArmingWatchdog(w, ok) ==
    LET ticked == [w EXCEPT !.elapsed = Tick(@)]
        Due(t) == ticked.elapsed >= t
        low == WatchdogTo(w, "ArmLow", FALSE)
    IN  CASE w.phase = "WaitPrerequisites" -> low
          [] w.phase = "ArmLow" ->
                IF Due(ArmLow) THEN WatchdogTo(w, "WaitOk", TRUE) ELSE ticked
          [] w.phase = "WaitOk" ->
                IF ok THEN WatchdogTo(w, "Stable", w.enable)
                ELSE IF Due(OkWait) THEN low ELSE ticked
          [] w.phase = "Stable" ->
                IF ~ok THEN low
                ELSE IF Due(OkStable) THEN WatchdogTo(w, "Ready", w.enable)
                ELSE ticked

(* update()                                                                 *)
WatchdogUpdated(w, ok, prerequisites) ==
    IF w.phase = "Fault" THEN w
    ELSE IF w.phase = "Ready" THEN ReadyWatchdog(w, ok, prerequisites)
    ELSE IF ~prerequisites THEN WatchdogTo(w, "WaitPrerequisites", FALSE)
    ELSE ArmingWatchdog(w, ok)
=============================================================================
