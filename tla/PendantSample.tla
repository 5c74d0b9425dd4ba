---------------------------- MODULE PendantSample ----------------------------
(***************************************************************************)
(* The decoded pendant packet as the realtime policy sees it               *)
(* (dmc2-core/src/pendant.rs).  An axis and the motor that drives it are    *)
(* in bijection (MOTOR_BY_AXIS), so a motor stands for both.  The u32       *)
(* sequence number is kept only as "does it advance on the previous packet  *)
(* by 1 .. i32::MAX", the one question the code asks of it; the error       *)
(* counter as a member of a small set, since it is only compared for        *)
(* equality.                                                                *)
(***************************************************************************)
EXTENDS Integers

CONSTANTS
    Motors,        \* the motors, hence the axes, the machine drives
    XMotor,        \* the motor of the X axis, on which the gesture starts
    Quadratures,   \* values of the decoder's quadrature error counter
    None           \* the absent value of every Option of the code

ASSUME SampleAssumption ==
    /\ XMotor \in Motors
    /\ None \notin Motors \cup Quadratures
    /\ "Off" \notin Motors /\ "Other" \notin Motors

Multipliers == {"X1", "X10", "X100"}

(* "Other" is a selector position that names no configured motion: the      *)
(* fourth and fifth axis, or a position the decoder called invalid.         *)
AxisSelector == Motors \cup {"Off", "Other"}
MultiplierSelector == Multipliers \cup {"Off", "Other"}

(* 2 stands for every detent outside -1 .. 1, which both consumers refuse.  *)
Detents == {-1, 0, 1, 2}

Sample ==
    [axis       : AxisSelector,
     multiplier : MultiplierSelector,
     valid      : BOOLEAN,
     held       : BOOLEAN,
     pressed    : BOOLEAN,
     detent     : Detents,
     quadrature : Quadratures,
     advances   : BOOLEAN]
=============================================================================
