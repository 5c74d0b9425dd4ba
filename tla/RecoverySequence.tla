-------------------------- MODULE RecoverySequence ---------------------------
(***************************************************************************)
(* The E-stop recovery gesture automaton of dmc2-core/src/recovery.rs as    *)
(* operators on its state [stage, clicks, quadrature].  PendantSupervisor   *)
(* runs it; EstopGesture checks it on its own.                              *)
(***************************************************************************)
EXTENDS PendantSample

Stages ==
    {"Inactive", "WaitEstopRelease", "WaitX10", "WaitX1", "WaitOff",
     "WaitClockwise", "WaitCounterclockwise", "WaitButtonPress",
     "WaitButtonRelease", "CompletePending"}

Recovery ==
    [stage : Stages, clicks : 0..3, quadrature : Quadratures \cup {None}]

InactiveRecovery == [stage |-> "Inactive", clicks |-> 0, quadrature |-> None]
Engaged(s) ==
    [stage |-> "WaitEstopRelease", clicks |-> 0, quadrature |-> s.quadrature]
Restarted(s) ==
    [stage |-> "WaitX10", clicks |-> 0, quadrature |-> s.quadrature]

RecoveryActive(g) == g.stage # "Inactive"

ReleasedX10(s) ==
    s.axis = XMotor /\ s.multiplier = "X10" /\ s.valid /\ ~s.held
ReleasedX1(s) ==
    s.axis = XMotor /\ s.multiplier = "X1" /\ s.valid /\ ~s.held
ReleasedOff(s) ==
    s.axis = "Off" /\ s.multiplier = "Off" /\ ~s.valid /\ ~s.held
OffX1ButtonHeld(s) ==
    s.axis = "Off" /\ s.multiplier = "X1" /\ ~s.valid /\ s.held

Still(s) == s.detent = 0

(* The sample is the one the current stage waits for.                       *)
Awaited(g, s) ==
    \/ g.stage \in {"WaitEstopRelease", "WaitX10"} /\ ReleasedX10(s) /\ Still(s)
    \/ g.stage = "WaitX1" /\ ReleasedX1(s) /\ Still(s)
    \/ g.stage = "WaitOff" /\ ReleasedOff(s) /\ Still(s)
    \/ g.stage = "WaitClockwise" /\ ReleasedOff(s) /\ s.detent = 1
    \/ g.stage = "WaitCounterclockwise" /\ ReleasedOff(s) /\ s.detent = -1
    \/ g.stage = "WaitButtonPress" /\ OffX1ButtonHeld(s) /\ Still(s)
    \/ g.stage = "WaitButtonRelease" /\ ReleasedOff(s) /\ Still(s)

(* The sample repeats the position the stage was entered with.              *)
Tolerated(g, s) ==
    \/ g.stage \in {"WaitX10", "CompletePending"}
    \/ g.stage = "WaitX1" /\ ReleasedX10(s) /\ Still(s)
    \/ g.stage = "WaitOff" /\ ReleasedX1(s) /\ Still(s)
    \/ g.stage = "WaitClockwise" /\ ReleasedOff(s) /\ Still(s)
    \/ g.stage = "WaitCounterclockwise" /\ ReleasedOff(s) /\ s.detent \in {0, 1}
    \/ /\ g.stage = "WaitButtonPress" /\ ReleasedOff(s)
       /\ Still(s) \/ (s.detent = -1 /\ g.clicks = 0)
    \/ g.stage = "WaitButtonRelease" /\ OffX1ButtonHeld(s) /\ Still(s)

StageAfter ==
    [WaitEstopRelease |-> "WaitX1", WaitX10 |-> "WaitX1", WaitX1 |-> "WaitOff",
     WaitOff |-> "WaitClockwise", WaitClockwise |-> "WaitCounterclockwise",
     WaitCounterclockwise |-> "WaitButtonPress",
     WaitButtonPress |-> "WaitButtonRelease"]

(* Mutant of Advanced: one click too few.                                   *)
AdvancedEarly(g) ==
    IF g.stage = "WaitButtonRelease"
    THEN [g EXCEPT !.clicks = g.clicks + 1,
                   !.stage = IF g.clicks + 1 = 2 THEN "CompletePending"
                                                 ELSE "WaitButtonPress"]
    ELSE [g EXCEPT !.stage = StageAfter[g.stage]]

Advanced(g) ==
    IF g.stage = "WaitButtonRelease"
    THEN [g EXCEPT !.clicks = g.clicks + 1,
                   !.stage = IF g.clicks + 1 = 3 THEN "CompletePending"
                                                 ELSE "WaitButtonPress"]
    ELSE [g EXCEPT !.stage = StageAfter[g.stage]]

(* Mutant of Processed: a changed error counter does not restart.           *)
ProcessedIgnoringCounter(g, s) ==
    IF ~RecoveryActive(g) THEN g
    ELSE IF s.pressed THEN Engaged(s)
    ELSE IF s.detent \notin -1..1 THEN Restarted(s)
    ELSE LET h == [g EXCEPT !.quadrature = s.quadrature]
         IN  IF Awaited(h, s) THEN Advanced(h)
             ELSE IF Tolerated(h, s) THEN h
             ELSE Restarted(s)

(* process(): a pressed button re-engages, changed or impossible evidence   *)
(* restarts, and a sample that is neither awaited nor tolerated restarts.   *)
Processed(g, s) ==
    IF ~RecoveryActive(g) THEN g
    ELSE IF s.pressed THEN Engaged(s)
    ELSE IF g.quadrature \notin {None, s.quadrature} \/ s.detent \notin -1..1
         THEN Restarted(s)
    ELSE LET h == [g EXCEPT !.quadrature = s.quadrature]
         IN  IF Awaited(h, s) THEN Advanced(h)
             ELSE IF Tolerated(h, s) THEN h
             ELSE Restarted(s)

(* unlock_requested is raised by the one call that completes the gesture.   *)
UnlockRequested(g, s) ==
    /\ g.stage # "CompletePending"
    /\ Processed(g, s).stage = "CompletePending"
=============================================================================
