------------------------------ MODULE MCServo --------------------------------
(***************************************************************************)
(* The frames of MCRuntime, and jogs that keep the channel for up to three  *)
(* cycles: they go on, are turned back, let go, run into a switch and are   *)
(* met by everything that withdraws them.  A start meets a press, a fault,  *)
(* a clear, AXIS Reset and a switch.                                        *)
(***************************************************************************)
EXTENDS ServoCycle, MCRuntime

MCServoPulses == [m \in Multipliers |-> IF m = "X1" THEN 1 ELSE 5]

Turn(trigger, d) == Packet(XMotor, "X10", trigger, d)

Turning ==
    {[Well EXCEPT !.hal = [On EXCEPT !.consumer = c[1], !.togo = c[2]], !.sample = s] :
        c \in {<<"active", 1>>, <<"stopped", 0>>, <<"stopped", 1>>},
        s \in {Turn(TRUE, 0), Turn(TRUE, 1), Turn(TRUE, -1), Turn(FALSE, 0)}}

OnTheWay ==
    [Well EXCEPT !.hal = [On EXCEPT !.consumer = "active", !.togo = 1],
                 !.sample = Turn(TRUE, 0)]

Troubled ==
    {[OnTheWay EXCEPT !.hal.mode = FALSE], [OnTheWay EXCEPT !.clear = TRUE],
     [OnTheWay EXCEPT !.sample.pressed = TRUE], [OnTheWay EXCEPT !.watchdogOk = FALSE],
     [OnTheWay EXCEPT !.quadratureFault = TRUE], [OnTheWay EXCEPT !.hal.path = None],
     [OnTheWay EXCEPT !.connected = FALSE, !.serialFault = TRUE]}
        \cup {[OnTheWay EXCEPT !.beat = FALSE, !.sample = Turn(TRUE, d)] : d \in {0, 1}}
        \cup {[OnTheWay EXCEPT !.hal.raw = {XMotor}, !.hal.safety = {XMotor},
                             !.hal.consumer = c] : c \in {"active", "stopped"}}

Powered == [Well EXCEPT !.hal = [Quiet EXCEPT !.estopped = FALSE, !.machineOn = TRUE]]

\* A switch is down before LinuxCNC is on.
Switched ==
    {[Well EXCEPT !.hal = [h EXCEPT !.raw = {XMotor}, !.safety = {XMotor}]] :
        h \in {Quiet, [Quiet EXCEPT !.estopped = FALSE]}}

MCServoFrames ==
    Halted \cup Unwell(Well) \cup Unwell(Powered) \cup Switched \cup Turning \cup Troubled
=============================================================================
