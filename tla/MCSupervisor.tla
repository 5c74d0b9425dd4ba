---------------------------- MODULE MCSupervisor -----------------------------
(***************************************************************************)
(* Inputs for the supervisor on its own.  The product of everything HAL can *)
(* show is far too large, so each run offers the combinations its question  *)
(* is about: every machine state with every gesture packet and every pair   *)
(* of limits for the power sequences, the pendant and the wheel-jog         *)
(* consumer for motion.                                                     *)
(***************************************************************************)
EXTENDS SupervisorSafety

CONSTANT YMotor

MCPulses == [m \in Multipliers |-> IF m = "X1" THEN 1 ELSE 2]
MCClockwise == [m \in Motors |-> IF m = XMotor THEN -1 ELSE 1]

Packet(axis, multiplier, held, detent) ==
    [axis |-> axis, multiplier |-> multiplier,
     valid |-> axis \in Motors /\ multiplier \in Multipliers,
     held |-> held, pressed |-> FALSE, detent |-> detent,
     quadrature |-> 0, advances |-> TRUE]

Quiet ==
    [pressed |-> FALSE, linkLost |-> FALSE, quadratureFault |-> FALSE,
     packet |-> None, estopped |-> TRUE, machineOn |-> FALSE,
     homing |-> FALSE, path |-> None, raw |-> {}, safety |-> {},
     mode |-> FALSE, commandReady |-> TRUE, resetRising |-> FALSE,
     consumer |-> "stopped", togo |-> 0, feedback |-> TRUE]

(* The packets of the gesture and one that belongs to no stage of it.       *)
GesturePackets ==
    {Packet(XMotor, "X10", FALSE, 0), Packet(XMotor, "X1", FALSE, 0),
     Packet("Off", "Off", FALSE, 0), Packet("Off", "Off", FALSE, 1),
     Packet("Off", "Off", FALSE, -1), Packet("Off", "X1", TRUE, 0),
     Packet(YMotor, "X1", TRUE, 0)}

PowerStates ==
    {[Quiet EXCEPT !.estopped = s[1], !.machineOn = s[2], !.path = s[3]] :
        s \in {<<TRUE, FALSE, None>>, <<FALSE, FALSE, None>>,
               <<FALSE, TRUE, None>>, <<FALSE, TRUE, "JointFree">>}}

(* With a packet or without, a reset edge or not, the button up or down.    *)
ButtonInputs ==
    {[q EXCEPT !.resetRising = r, !.pressed = e,
               !.packet = IF s = None THEN None ELSE [s EXCEPT !.pressed = e]] :
        q \in PowerStates, r \in BOOLEAN, e \in BOOLEAN,
        s \in GesturePackets \cup {None}}

LimitInputs ==
    {[q EXCEPT !.raw = w, !.safety = s, !.resetRising = r, !.homing = h] :
        q \in {p \in PowerStates : p.path = None},
        w \in SUBSET Motors, s \in SUBSET Motors,
        r \in BOOLEAN, h \in BOOLEAN}

(* A limit or homing at the instant the gesture completes.                  *)
BlockedInputs ==
    {[q EXCEPT !.packet = Packet("Off", "Off", FALSE, 0),
               !.raw = w, !.safety = w, !.homing = h,
               !.path = IF h THEN None ELSE @] :
        q \in PowerStates, w \in {{}, {XMotor}}, h \in BOOLEAN}

(* A startup backoff finds its path once LinuxCNC is on.                    *)
BounceInputs ==
    {[q EXCEPT !.path = "JointFree", !.estopped = FALSE, !.machineOn = TRUE,
               !.raw = w, !.safety = s, !.consumer = c] :
        q \in {Quiet}, w \in {{}, {XMotor}}, s \in {{}, {XMotor}},
        c \in {"active", "stopped"}}

LinkInputs ==
    {[q EXCEPT !.linkLost = TRUE] : q \in PowerStates}
        \cup {[q EXCEPT !.quadratureFault = TRUE] : q \in PowerStates}

MCPowerInputs ==
    ButtonInputs \cup LimitInputs \cup BlockedInputs \cup BounceInputs
        \cup LinkInputs
-----------------------------------------------------------------------------
On == [Quiet EXCEPT !.estopped = FALSE, !.machineOn = TRUE, !.mode = TRUE,
                    !.path = "JointFree"]

JogPackets ==
    {Packet(a, "X1", TRUE, d) : a \in Motors, d \in {-1, 0, 1}}
        \cup {Packet(XMotor, "X10", TRUE, 1), Packet(XMotor, "X1", FALSE, 0)}

Consumers == {"active", "settling", "settled", "stopped"}

(* LinuxCNC runs, finishes, loses or changes the path of the active jog.    *)
MotionInputs ==
    {[On EXCEPT !.consumer = c, !.togo = t, !.path = p] :
        c \in Consumers, t \in {0, 1}, p \in Paths \cup {None}}
        \cup {[On EXCEPT !.commandReady = FALSE], [On EXCEPT !.feedback = FALSE],
              [On EXCEPT !.mode = FALSE], [On EXCEPT !.homing = TRUE, !.path = None]}

(* A detent meets a jog that is still moving, has not begun, or has gone    *)
(* some, all or too much of its way, with the channel free and busy.        *)
PacketInputs ==
    {[On EXCEPT !.packet = s, !.togo = t, !.consumer = c] :
        s \in JogPackets, t \in {-1, 0, 1, 2}, c \in {"active", "stopped"}}
        \cup {[On EXCEPT !.packet = s, !.togo = 1, !.commandReady = FALSE] :
                s \in JogPackets}
        \cup {[On EXCEPT !.packet = [Packet(XMotor, "X1", TRUE, 1)
                                        EXCEPT !.advances = FALSE]],
              [On EXCEPT !.packet = Packet(XMotor, "X1", TRUE, 2)]}

(* A switch closes on a running jog, stays closed, opens, latches late, or  *)
(* two close at once, with and without a detent.                            *)
LimitMotionInputs ==
    {[On EXCEPT !.raw = w, !.safety = s, !.consumer = c, !.packet = k] :
        w \in {{}, {XMotor}}, s \in {{}, {XMotor}}, c \in {"active", "stopped"},
        k \in {None} \cup {Packet(XMotor, "X1", TRUE, d) : d \in {-1, 0, 1}}
                \cup {Packet(YMotor, "X1", TRUE, 1)}}
        \cup {[On EXCEPT !.raw = Motors, !.safety = Motors],
              [On EXCEPT !.safety = {YMotor}],
              [On EXCEPT !.homing = TRUE, !.path = None, !.raw = {XMotor},
                         !.safety = {XMotor}]}

(* The button, with and without the packet that shows it.                   *)
PressInputs ==
    {[On EXCEPT !.pressed = TRUE, !.packet = k] :
        k \in {[Packet(XMotor, "X1", TRUE, 0) EXCEPT !.pressed = TRUE], None}}

(* Pendant Mode is switched off under a running jog, or detents arrive.     *)
ModeOffInputs ==
    {[On EXCEPT !.mode = FALSE, !.consumer = "active"]}
        \cup {[On EXCEPT !.mode = FALSE, !.packet = Packet(XMotor, "X1", TRUE, d)] :
                d \in {0, 1}}

MCJogInputs ==
    MotionInputs \cup PacketInputs \cup LimitMotionInputs \cup PressInputs
        \cup ModeOffInputs
=============================================================================
