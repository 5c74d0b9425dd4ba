------------------------------ MODULE MCStartup ------------------------------
(* Every frame a cold start can see with the button up and no switch down.  *)
EXTENDS StartupLoop, MCRuntime

MCStartupFrames ==
    {[Well EXCEPT !.uiReady = (p # "ui"), !.monitor = (p # "task"),
                  !.connected = (p # "nano"), !.serialFault = (p = "nano"),
                  !.watchdogOk = w, !.resetLine = r,
                  !.hal.estopped = e, !.hal.machineOn = ~e /\ m] :
        p \in Prerequisites \cup {None}, w \in BOOLEAN, r \in BOOLEAN,
        e \in BOOLEAN, m \in BOOLEAN}
=============================================================================
