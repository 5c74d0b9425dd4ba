---------------------------- MODULE GestureScript ----------------------------
(***************************************************************************)
(* What the recovery gesture promises the operator, independent of how the  *)
(* automaton counts it: the E-stop is only ever unlocked by the scripted    *)
(* moves, each seen in order in a packet of its own, with the button        *)
(* released and the decoder's error counter unchanged from the first move   *)
(* to the last.  EstopGesture implements it.                                *)
(***************************************************************************)
EXTENDS PendantSample, Sequences

VARIABLES
    matched,   \* how many moves of Script have been seen, in order
    packet,    \* the packet of this step, None in a step without one
    counter    \* the error counter the gesture is being followed under
vars == <<matched, packet, counter>>

At(s, axis, multiplier, detent) ==
    s.axis = axis /\ s.multiplier = multiplier /\ s.detent = detent

(* X+x10 -> X+x1 -> OFF -> clockwise -> counterclockwise -> three complete  *)
(* clicks of the side button.                                               *)
Moves ==
    {"X10", "X1", "Off", "Clockwise", "Counterclockwise", "Press", "Release"}
Script == <<"X10", "X1", "Off", "Clockwise", "Counterclockwise",
            "Press", "Release", "Press", "Release", "Press", "Release">>

Shows(s, move) ==
    /\ ~s.pressed
    /\ \/ move = "X10" /\ At(s, XMotor, "X10", 0) /\ ~s.held
       \/ move = "X1" /\ At(s, XMotor, "X1", 0) /\ ~s.held
       \/ move \in {"Off", "Release"} /\ At(s, "Off", "Off", 0) /\ ~s.held
       \/ move = "Clockwise" /\ At(s, "Off", "Off", 1) /\ ~s.held
       \/ move = "Counterclockwise" /\ At(s, "Off", "Off", -1) /\ ~s.held
       \/ move = "Press" /\ At(s, "Off", "X1", 0) /\ s.held

Init == matched = 0 /\ packet = None /\ counter = None

Match ==
    /\ packet' # None
    /\ matched < Len(Script) /\ matched' = matched + 1
    /\ Shows(packet', Script[matched'])
    /\ counter' = packet'.quadrature
    /\ matched > 0 => counter' = counter

Hold ==
    /\ matched' = matched
    /\ matched > 0 => counter' = counter
    /\ (matched > 0 /\ packet' # None) =>
           ~packet'.pressed /\ packet'.quadrature = counter

Drop == matched' = 0

Next == Match \/ Hold \/ Drop
Spec == Init /\ [][Next]_vars
=============================================================================
