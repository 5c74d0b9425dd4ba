------------------------------ MODULE EstopChain ------------------------------
(***************************************************************************)
(* LinuxCNC's half of the power loop: the gate and the watchdog feed the    *)
(* estop_latch component, the controller's requests go to HALUI, HALUI and  *)
(* AXIS go through LinuxCNC task to iocontrol, whose user-request-enable    *)
(* pulse resets the latch and comes back to the controller as               *)
(* base-estop-reset.  External, modelled from the nets of                   *)
(* live/machine.hal 256-267 and live/pendant.hal 203-210.                   *)
(***************************************************************************)
EXTENDS PendantSample

VARIABLES
    latch,     \* estop-latch.0.ok-out
    on,        \* LinuxCNC is in machine-on
    status,    \* what the task monitor last published of the two
    pulse,     \* who raised user-request-enable, None while it is low
    lineWas,   \* the level of that line the last servo period saw
    halui,     \* the request levels HALUI has seen
    asked      \* HALUI's commands on their way to LinuxCNC task
chain == <<latch, on, status, pulse, lineWas, halui, asked>>

Askers == {"operator", "halui"}

ChainTypeOK ==
    /\ latch \in BOOLEAN /\ on \in BOOLEAN /\ lineWas \in BOOLEAN
    /\ status \in [estopped : BOOLEAN, machineOn : BOOLEAN]
    /\ pulse \in Askers \cup {None}
    /\ halui \in [reset : BOOLEAN, on : BOOLEAN]
    /\ asked \subseteq {"reset", "on"}

ChainInit ==
    /\ latch = FALSE /\ on = FALSE /\ lineWas = FALSE
    /\ status = [estopped |-> TRUE, machineOn |-> FALSE]
    /\ pulse = None
    /\ halui = [reset |-> FALSE, on |-> FALSE] /\ asked = {}

High == pulse # None
EdgeOfReset == High /\ ~lineWas

(* estop_latch in the servo thread: a reset edge closes it while it is fed. *)
LatchFollows(fed) ==
    /\ latch' = (fed /\ (latch \/ EdgeOfReset))
    /\ lineWas' = High
    /\ UNCHANGED <<on, status, pulse, halui, asked>>

(* HALUI acts on rising edges of the request levels only.                   *)
HaluiTakes(reset, machineOn) ==
    /\ halui' = [reset |-> reset, on |-> machineOn]
    /\ asked' = asked \cup {r \in {"reset"} : reset /\ ~halui.reset}
                      \cup {r \in {"on"} : machineOn /\ ~halui.on}
    /\ UNCHANGED <<latch, on, status, pulse, lineWas>>

(* iocontrol's cycle is many servo periods: the servo thread sees the line  *)
(* high before it is lowered, and low before it is raised again.            *)
Raise(who) == IF High THEN UNCHANGED pulse ELSE ~lineWas /\ pulse' = who

TaskResets ==
    /\ "reset" \in asked /\ asked' = asked \ {"reset"}
    /\ Raise("halui")
    /\ UNCHANGED <<latch, on, status, lineWas, halui>>

TaskTurnsOn ==
    /\ "on" \in asked /\ asked' = asked \ {"on"}
    /\ on' = (on \/ latch)
    /\ UNCHANGED <<latch, status, pulse, lineWas, halui>>

(* LinuxCNC task follows the latch; the monitor publishes what it sees.     *)
TaskPublishes ==
    /\ on' = (on /\ latch)
    /\ status' = [estopped |-> ~latch, machineOn |-> on']
    /\ UNCHANGED <<latch, pulse, lineWas, halui, asked>>

PulseFalls ==
    /\ High /\ lineWas /\ pulse' = None
    /\ UNCHANGED <<latch, on, status, lineWas, halui, asked>>

(* AXIS Reset, offered while AXIS shows the E-stop.                         *)
OperatorAsks ==
    /\ status.estopped /\ ~High /\ Raise("operator")
    /\ UNCHANGED <<latch, on, status, lineWas, halui, asked>>
=============================================================================
