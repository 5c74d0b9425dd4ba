----------------------------- MODULE StartupLoop -----------------------------
(***************************************************************************)
(* A cold start from nothing: the runtime with its guards, the HAL watchdog *)
(* component it arms and LinuxCNC's half of the loop.  AXIS, LinuxCNC's     *)
(* status or the Nano may be lost and come back, and the watchdog may miss  *)
(* the heartbeat, a bounded number of times; the button is not pressed and  *)
(* no switch is.  The watchdog component is external.                       *)
(***************************************************************************)
EXTENDS RuntimeSafety, EstopChain

CONSTANTS
    Lapses,        \* how often something is lost
    LapseMidway    \* ... also while a request to HALUI is up
ASSUME StartupLoopAssumption == Lapses \in Nat /\ LapseMidway \in BOOLEAN

VARIABLES
    ok,      \* watchdog.ok-out
    lost,    \* the prerequisite that is missing
    left     \* lapses still to come
startloop == <<vars, runtime, chain, ok, lost, left>>

Prerequisites == {"ui", "task", "nano"}

StartTypeOK ==
    /\ RuntimeTypeOK /\ ChainTypeOK
    /\ ok \in BOOLEAN /\ lost \in Prerequisites \cup {None} /\ left \in 0..Lapses

StartInit ==
    /\ RuntimeInit /\ ChainInit
    /\ ok = FALSE /\ lost = "ui" /\ left = Lapses
-----------------------------------------------------------------------------
(* What HAL shows the runtime in this cycle.                                *)
Shown(f) ==
    /\ f.uiReady = (lost # "ui")
    /\ f.monitor = (lost # "task")
    /\ f.connected = (lost # "nano")
    /\ f.watchdogOk = ok
    /\ f.resetLine = High
    /\ f.hal.estopped = status.estopped /\ f.hal.machineOn = status.machineOn

(* One servo period in thread order: the runtime, the watchdog, the latch.  *)
(* The watchdog is well from the edge of its enable until it bites.         *)
Period ==
    /\ \E f \in Frames : Shown(f) /\ RuntimeUpdate(f)
    /\ ok' = (guard'.enable /\ (ok \/ ~guard.enable))
    /\ LatchFollows(power'.gate /\ ok')
    /\ UNCHANGED <<lost, left>>

Inside == <<vars, runtime, ok, lost, left>>
ServeRequests == HaluiTakes(power.estopReset, power.machineOn) /\ UNCHANGED Inside
ServeReset == TaskResets /\ UNCHANGED Inside
ServeOn == TaskTurnsOn /\ UNCHANGED Inside
Publish == TaskPublishes /\ UNCHANGED Inside
EndPulse == PulseFalls /\ UNCHANGED Inside

MayLapse ==
    /\ left > 0 /\ left' = left - 1
    /\ LapseMidway \/ (~power.estopReset /\ ~power.machineOn)
    /\ UNCHANGED <<vars, runtime, chain>>

Lose(p) == MayLapse /\ lost = None /\ lost' = p /\ UNCHANGED ok
Bite == MayLapse /\ ok /\ ok' = FALSE /\ UNCHANGED lost
ComeBack ==
    /\ lost # None /\ lost' = None
    /\ UNCHANGED <<vars, runtime, chain, ok, left>>

StartNext ==
    \/ Period \/ ServeRequests \/ ServeReset \/ ServeOn \/ Publish \/ EndPulse
    \/ (\E p \in Prerequisites : Lose(p)) \/ Bite \/ ComeBack

(* The servo thread and LinuxCNC never stop; what is lost comes back.       *)
StartFairness ==
    /\ WF_startloop(Period) /\ WF_startloop(ServeRequests)
    /\ WF_startloop(ServeReset) /\ WF_startloop(ServeOn)
    /\ WF_startloop(Publish) /\ WF_startloop(EndPulse)
    /\ WF_startloop(ComeBack)

StartSpec == StartInit /\ [][StartNext]_startloop /\ StartFairness
-----------------------------------------------------------------------------
(* README.md "If the controller watchdog drops before reset and machine-on  *)
(* have explicitly completed, startup closes the gate, cleanly re-arms the  *)
(* watchdog, and retries the automatic reset": a cold start ends with       *)
(* LinuxCNC on and the watchdog committed, whatever is lost while none of   *)
(* its requests to HALUI is up.  With LapseMidway it does not: HALUI takes  *)
(* the edge of a request, so one that LinuxCNC had been sent before the     *)
(* retry is never sent again (MCStartupMidway).                             *)
ColdStartCompletes == <>(on /\ guard.committed)
=============================================================================
