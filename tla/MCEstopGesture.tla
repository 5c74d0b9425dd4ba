--------------------------- MODULE MCEstopGesture ----------------------------
(***************************************************************************)
(* The gesture with one axis and two values of the error counter.  Every    *)
(* selector position of the script is offered with every detent, the bad    *)
(* one included, and one position that belongs to no stage of it.           *)
(***************************************************************************)
EXTENDS EstopGesture

Position(axis, multiplier, valid, held) ==
    [axis |-> axis, multiplier |-> multiplier, valid |-> valid, held |-> held]

MCPositions ==
    {Position(XMotor, "X10", TRUE, FALSE), Position(XMotor, "X1", TRUE, FALSE),
     Position(XMotor, "X1", TRUE, TRUE), Position("Off", "Off", FALSE, FALSE),
     Position("Off", "X1", FALSE, TRUE)}

MCSamples ==
    {[axis |-> p.axis, multiplier |-> p.multiplier, valid |-> p.valid,
      held |-> p.held, pressed |-> e, detent |-> d, quadrature |-> q,
      advances |-> TRUE] :
        p \in MCPositions, e \in BOOLEAN, d \in Detents, q \in Quadratures}
=============================================================================
