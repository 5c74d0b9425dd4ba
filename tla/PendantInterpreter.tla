------------------------- MODULE PendantInterpreter --------------------------
(***************************************************************************)
(* dmc2-core/src/pendant.rs: from consecutive packets to one decision.  The *)
(* interpreter remembers the previous packet and the selection it is armed  *)
(* for; a detent is honoured only when the packet before it, with the same  *)
(* axis, multiplier and held deadman, has armed that selection.             *)
(***************************************************************************)
EXTENDS RecoverySequence

CONSTANTS
    Pulses,          \* pulses of one detent, by multiplier
    ClockwiseSign    \* machine direction of a clockwise detent, by motor

ASSUME InterpreterAssumption ==
    /\ Pulses \in [Multipliers -> Nat \ {0}]
    /\ ClockwiseSign \in [Motors -> {-1, 1}]

Selection == [motor : Motors, multiplier : Multipliers]
Intent == [motor : Motors, delta : Int]

ASSUME NoSelectionAssumption == None \notin Selection \cup Intent

Interpreter ==
    [seen       : BOOLEAN,                       \* previous_sequence is Some
     quadrature : Quadratures \cup {None},
     armed      : Selection \cup {None}]

NewInterpreter == [seen |-> FALSE, quadrature |-> None, armed |-> None]

(* Without a usable previous packet this one is only a baseline.            *)
IsBaseline(n, s) == ~n.seen \/ ~s.advances
BadEvidence(n, s) == s.quadrature # n.quadrature \/ s.detent \notin -1..1
Selects(s) ==
    /\ ~s.pressed /\ s.valid /\ s.held
    /\ s.axis \in Motors /\ s.multiplier \in Multipliers
SelectionOf(s) == [motor |-> s.axis, multiplier |-> s.multiplier]

Interpreted(n, s) ==
    [seen       |-> TRUE,
     quadrature |-> s.quadrature,
     armed      |-> IF ~IsBaseline(n, s) /\ ~BadEvidence(n, s) /\ Selects(s)
                    THEN SelectionOf(s) ELSE None]

Decision(n, s) ==
    IF IsBaseline(n, s) THEN "Stop"
    ELSE IF BadEvidence(n, s) THEN "Fault"
    ELSE IF ~Selects(s) \/ n.armed # SelectionOf(s) THEN "Stop"
    ELSE IF Still(s) THEN "NoDetent"
    ELSE "Jog"

(* JogIntent::from_detent                                                   *)
IntentOf(s) ==
    [motor |-> s.axis,
     delta |-> s.detent * ClockwiseSign[s.axis] * Pulses[s.multiplier]]
=============================================================================
