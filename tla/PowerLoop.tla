------------------------------ MODULE PowerLoop ------------------------------
(***************************************************************************)
(* The supervisor in the loop its requests travel: supervisor, button and   *)
(* runtime's reset edge composed with LinuxCNC's half, EstopChain.  The     *)
(* startup guards are ready and the watchdog holds; StartupLoop has them.   *)
(***************************************************************************)
EXTENDS SupervisorSafety, EstopChain

CONSTANT PressMidway   \* the button may go down while a power sequence runs
ASSUME LoopAssumption == PressMidway \in BOOLEAN

VARIABLES
    button,    \* the pendant's E-stop is pressed
    cleared    \* whose pulse cleared a latched fault in the last step
loop == <<vars, chain, button, cleared>>

LoopTypeOK ==
    /\ TypeOK /\ ChainTypeOK
    /\ button \in BOOLEAN /\ cleared \in Askers \cup {None}

LoopInit == Init /\ ChainInit /\ button = FALSE /\ cleared = None
-----------------------------------------------------------------------------
(* What the controller can read in this cycle.                              *)
Visible(i) ==
    /\ i.pressed = button
    /\ i.packet # None => i.packet.pressed = button
    /\ i.estopped = status.estopped /\ i.machineOn = status.machineOn
    /\ i.resetRising = EdgeOfReset

(* The hand is slower than LinuxCNC: a packet of the gesture finds HALUI,   *)
(* task and the monitor done with what came before it.                      *)
CaughtUp ==
    /\ status.estopped = ~latch /\ asked = {}
    /\ halui = [reset |-> power.estopReset, on |-> power.machineOn]
HandIsSlow(i) == RecoveryActive(recovery) /\ i.packet # None => CaughtUp

(* One servo period: runtime update(), then the latch, in thread order.  A  *)
(* reset edge on a latched fault clears it (retained_fault_reset).          *)
RetainedFaultReset == EdgeOfReset /\ motion.fault # None

Cycle(i) ==
    /\ Visible(i) /\ HandIsSlow(i)
    /\ IF RetainedFaultReset
       THEN IF button THEN ClearLatchedFault ELSE ClearAndReset(i)
       ELSE Update(i)
    /\ cleared' = IF RetainedFaultReset THEN pulse ELSE None
    /\ LatchFollows(power'.gate)
    /\ UNCHANGED button

Servo == \E i \in Inputs : Cycle(i)
ServoFollowsPendant ==
    \E i \in Inputs : (CaughtUp => i.packet # None) /\ Cycle(i)

Outside == <<vars, button, cleared>>
Halui == HaluiTakes(power.estopReset, power.machineOn) /\ UNCHANGED Outside
TaskReset == TaskResets /\ UNCHANGED Outside
TaskOn == TaskTurnsOn /\ UNCHANGED Outside
TaskStatus == TaskPublishes /\ UNCHANGED Outside
PulseEnds == PulseFalls /\ UNCHANGED Outside
OperatorReset == OperatorAsks /\ UNCHANGED Outside

Press ==
    /\ ~button /\ button' = TRUE
    /\ PressMidway \/ power.step = "None"
    /\ UNCHANGED <<vars, chain, cleared>>

Release ==
    /\ button /\ button' = FALSE
    /\ UNCHANGED <<vars, chain, cleared>>

LoopNext ==
    \/ Servo \/ Halui \/ TaskReset \/ TaskOn \/ TaskStatus \/ PulseEnds
    \/ OperatorReset \/ Press \/ Release

(* The servo thread, LinuxCNC and the Nano's packets never stop; the        *)
(* operator, seeing an E-stop, will press AXIS Reset.                       *)
Fairness ==
    /\ WF_loop(ServoFollowsPendant) /\ WF_loop(Halui) /\ WF_loop(PulseEnds)
    /\ WF_loop(TaskReset) /\ WF_loop(TaskOn) /\ WF_loop(TaskStatus)
    /\ WF_loop(OperatorReset)

LoopSpec == LoopInit /\ [][LoopNext]_loop /\ Fairness
-----------------------------------------------------------------------------
(* README.md "After physical release, either AXIS Reset or the completed    *)
(* pendant gesture re-arms that same latch": once the button stays up, an   *)
(* operator who keeps pressing AXIS Reset keeps getting LinuxCNC back.      *)
RearmedAfterRelease == <>[]~button => []<>latch

(* README.md "The pendant gesture also requests Machine On": a completed    *)
(* gesture ends with LinuxCNC on, whatever the operator does in AXIS,       *)
(* unless the button goes down again.                                       *)
GestureTurnsMachineOn == power.restore ~> (on \/ button)

(* README.md "Startup is automatic": with the button never pressed a cold   *)
(* start ends with LinuxCNC on and the startup behind it.                   *)
ColdStartTurnsMachineOn ==
    []~button => <>(on /\ ~startup /\ motion.phase = "Idle")

(* runtime.rs "Internal cold-start reset echoes are not new operator clear  *)
(* commands": only an operator's pulse clears a latched fault.              *)
OnlyOperatorClears == cleared # "halui"
=============================================================================
