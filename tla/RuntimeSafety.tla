---------------------------- MODULE RuntimeSafety ----------------------------
(***************************************************************************)
(* What RuntimeController must never do.  The first four hold; the last     *)
(* two are what README.md says and the code does not keep.                  *)
(***************************************************************************)
EXTENDS PendantRuntime

(* runtime.rs clear_fault_state(): guards and supervisor are cleared as     *)
(* one, so a guard that has faulted always shows as a held fault, and       *)
(* nothing that clears the fault leaves a faulted guard behind it.          *)
GuardFaultsAreHeld ==
    mesa.phase = "Fault" \/ guard.phase = "Fault" => motion.fault # None

(* runtime.rs outputs(), cycle.rs: the command is part of the supervisor's  *)
(* state and is published in every cycle, also when the supervisor does not *)
(* run; an increment that stayed there would be accepted again and again.   *)
CommandsAreOfThisCycle ==
    motion.command \in Increment => mesa.phase = "Ready" /\ guard.phase = "Ready"

(* runtime.rs "If that snapshot becomes stale, atomically disarm Pendant    *)
(* Mode so no new jog can be accepted": apart from the automatic backoff no *)
(* increment is issued in a cycle without a live task heartbeat.            *)
StaleTaskStartsNoJog ==
    motion.command \in Increment /\ motion.phase # "Bouncing" => IsFresh(task)

(* runtime.rs, update.rs: once a cycle of a running supervisor has read the *)
(* button pressed, the gate is closed, and no clear, no reset and no        *)
(* acknowledgement opens it before a release has been read.                 *)
PressIsObeyed ==
    cache.pressed /\ mesa.phase = "Ready" /\ guard.phase = "Ready" => ~power.gate

(* README.md "Pressing its physical E-stop drops the gate feeding           *)
(* LinuxCNC's canonical estop_latch": once a cycle has read the button      *)
(* pressed, the gate is closed or the watchdog behind it has not yet said   *)
(* that it is well, so that the latch is not fed.                           *)
PressDropsTheGate ==
    cache.pressed => ~power.gate \/ guard.phase \notin {"Stable", "Ready"}

(* README.md "a subsequent timeout faults and is never automatically        *)
(* cleared": the fault of a committed watchdog goes away only in a cycle in *)
(* which the operator uses Clear Fault or AXIS Reset.                       *)
WatchdogFaultIsRetained ==
    [][guard.phase = "Fault" /\ guard'.phase # "Fault" =>
         \E f \in Frames : (f.clear \/ Rising(f)) /\ RuntimeUpdate(f)]_<<vars, runtime>>
=============================================================================
