----------------------------- MODULE MCPowerLoop -----------------------------
(***************************************************************************)
(* The power loop with no limits and Pendant Mode off: every machine state  *)
(* the monitor can publish, with every packet of the gesture.               *)
(***************************************************************************)
EXTENDS PowerLoop, MCSupervisor

MCLoopInputs == {i \in ButtonInputs : i.path = None}

(* ... and with limit switches that close and open at any time.             *)
MCLimitLoopInputs ==
    MCLoopInputs \cup {i \in LimitInputs : ~i.homing /\ i.raw = i.safety}
=============================================================================
