------------------------------ MODULE MCRuntime ------------------------------
(***************************************************************************)
(* Frames for the runtime on its own: a machine that is well, in one of a   *)
(* few states, and from it one thing or two at a time that are not.         *)
(***************************************************************************)
EXTENDS RuntimeSafety, MCSupervisor

Calm == Packet(XMotor, "X1", FALSE, 0)

Well ==
    [clear |-> FALSE, servoReady |-> TRUE, hasBit |-> FALSE, ioError |-> FALSE,
     watchdogOk |-> TRUE, uiReady |-> TRUE, monitor |-> TRUE, beat |-> TRUE,
     coherent |-> TRUE, connected |-> TRUE, serialFault |-> FALSE,
     quadratureFault |-> FALSE, ack |-> 0, sample |-> Calm, news |-> TRUE,
     resetLine |-> FALSE, hal |-> Quiet]

Halted == {[Well EXCEPT !.hal = Quiet],
           [Well EXCEPT !.hal = [Quiet EXCEPT !.estopped = FALSE]],
           [Well EXCEPT !.hal = [Quiet EXCEPT !.estopped = FALSE, !.machineOn = TRUE]]}

Unwell(f) ==
    {[f EXCEPT !.servoReady = FALSE], [f EXCEPT !.hasBit = TRUE],
     [f EXCEPT !.ioError = TRUE], [f EXCEPT !.watchdogOk = FALSE],
     [f EXCEPT !.uiReady = FALSE], [f EXCEPT !.monitor = FALSE],
     [f EXCEPT !.beat = FALSE, !.news = FALSE], [f EXCEPT !.coherent = FALSE],
     [f EXCEPT !.connected = FALSE, !.serialFault = TRUE],
     [f EXCEPT !.quadratureFault = TRUE],
     [f EXCEPT !.quadratureFault = TRUE, !.resetLine = TRUE],
     [f EXCEPT !.quadratureFault = TRUE, !.clear = TRUE],
     [f EXCEPT !.sample.pressed = TRUE], [f EXCEPT !.resetLine = TRUE],
     [f EXCEPT !.sample.pressed = TRUE, !.resetLine = TRUE],
     [f EXCEPT !.clear = TRUE], [f EXCEPT !.sample.held = TRUE]}
        \cup {[f EXCEPT !.ack = n] : n \in 1..Requests}

(* Pendant Mode: a detent, its release and a switch on the way.             *)
Jogging ==
    {[Well EXCEPT !.hal = [On EXCEPT !.consumer = c], !.sample = s, !.beat = b] :
        c \in {"active", "stopped"}, b \in BOOLEAN,
        s \in {Packet(XMotor, "X1", TRUE, d) : d \in {0, 1}}}
        \cup {[Well EXCEPT !.hal = [On EXCEPT !.raw = {XMotor}, !.safety = {XMotor},
                                              !.consumer = c]] :
                c \in {"active", "stopped"}}

MCFrames == Halted \cup UNION {Unwell(f) : f \in Halted} \cup Jogging
=============================================================================
