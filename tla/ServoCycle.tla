----------------------------- MODULE ServoCycle ------------------------------
(***************************************************************************)
(* update_component (dmc2-rt/src/component/cycle.rs): the runtime and the   *)
(* motion channel in one servo cycle.  The channel advances first, tells    *)
(* the supervisor whether it can take an increment, and takes the command   *)
(* the supervisor then issues.  LinuxCNC motion runs later in the same      *)
(* thread and keeps the counts of each cycle as the base of the next, so a  *)
(* step of this module offers it the difference of the counts.              *)
(***************************************************************************)
EXTENDS RuntimeSafety, MotionChannel

(* An increment is a backoff, or a detent and what is left of the jog it    *)
(* continues.  The counts can carry both, and the second is offered whole   *)
(* before the supervisor gives up a jog that LinuxCNC has not taken up: by  *)
(* machine-pulses.conf it lasts a few milliseconds, the code waits 100.     *)
ASSUME LengthAssumption ==
    /\ BouncePulses <= Budget * CountMax
    /\ \A x \in Multipliers, f \in Frames :
          /\ Pulses[x] + Size(f.hal.togo) <= Budget * CountMax
          /\ Pulses[x] + Size(f.hal.togo) <= Budget * (MotionAcceptTimeout + 1)

VARIABLES
    channel,   \* motion_commands
    refused,   \* advance() or accept() has returned an error
    probed     \* a contact is reported in this cycle, update() is to come
servo == <<vars, runtime, channel, refused, probed>>

ServoTypeOK ==
    RuntimeTypeOK /\ channel \in Channel /\ refused \in BOOLEAN /\ probed \in BOOLEAN

ServoInit == RuntimeInit /\ channel = NewChannel /\ refused = FALSE /\ probed = FALSE
-----------------------------------------------------------------------------
(* Clear Fault stops the channel before it can offer or refuse anything, an *)
(* error of advance() stops it as well.                                     *)
Stepped(f) ==
    IF f.clear THEN ForceStopImmediate(channel)
    ELSE IF Overruns(channel) THEN ForceStopImmediate(ClearTransient(channel))
    ELSE AdvancedChannel(channel)

WithReadiness(f) == [f EXCEPT !.hal.commandReady = ChannelReady(Stepped(f))]

(* LinuxCNC cannot have reached a target part of which it was not offered.  *)
Honest(f) == channel.active # None => f.hal.togo # 0

(* With an error the code also latches MotionCommandEncodingFailure or      *)
(* another code of the channel (ReportChannelError).  NothingIsRefused says *)
(* that it never comes to that, and the model ends there.                   *)
Cycle(f) ==
    /\ ~refused /\ Honest(f)
    /\ RuntimeUpdate(WithReadiness(f))
    /\ channel' = Accepted(Stepped(f), motion'.command)
    /\ refused' = \/ ~f.clear /\ Overruns(channel)
                  \/ Refuses(Stepped(f), motion'.command)
    /\ probed' = FALSE

(* Reported between advance() and update(), in a cycle with a contact edge; *)
(* it touches nothing that advance() reads.                                 *)
ProbeStop ==
    /\ ~refused /\ ~probed
    /\ ReportProbeStop
    /\ probed' = TRUE
    /\ UNCHANGED <<channel, refused>>

ServoNext == (\E f \in Frames : Cycle(f)) \/ ProbeStop

ServoSpec == ServoInit /\ [][ServoNext]_servo
-----------------------------------------------------------------------------
(* jog.rs emit_jog(), cycle.rs: the supervisor issues an increment only in  *)
(* a cycle whose channel can take it, through clears, stops, replacements   *)
(* and rebases, and the cumulative counts are back at zero before the next, *)
(* so that checked_add never fails.                                         *)
NothingIsRefused == ~refused

(* What an increment still owes LinuxCNC, by wheel.                         *)
Owed(a, w) ==
    IF a # None /\ a.wheel = w THEN a.direction * a.remaining ELSE 0
Commanded(command, w) ==
    IF command \in Increment /\ <<command.motor, command.path>> = w
    THEN command.delta ELSE 0
Offered(w) ==
    IF channel'.enabled = w
    THEN (channel'.counts[w] - channel.counts[w]) * channel'.chunk ELSE 0

OfferIsExact ==
    \A w \in Wheels :
        IF channel'.phase \in {"Stop", "StopImmediate"} THEN Offered(w) = 0
        ELSE Offered(w) = Owed(channel.active, w) + Commanded(motion'.command, w)
                            - Owed(channel'.active, w)

(* motion.rs "Every count delta carries that servo cycle's exact distance": *)
(* unless a stop withdraws the rest, what LinuxCNC is offered in a cycle is *)
(* exactly what the increment of that cycle owes it less; a stop, a rebase  *)
(* and a wheel that is not addressed offer nothing.                         *)
OffersAreExact == [][OfferIsExact]_channel

(* A jog the supervisor no longer tracks, offered to LinuxCNC all the same. *)
Orphan == motion.active = None /\ motion.fault = None /\ channel.active # None

(* jog.rs cancel_pendant_motion(), limits.rs, clear_latched_fault(): every  *)
(* way update() has of retiring a jog also stops the channel, so that with  *)
(* no fault held only a probe contact leaves an increment without its jog.  *)
(* A jog that LinuxCNC never took up is dropped without a stop: it has been *)
(* offered whole by then (LengthAssumption).                                *)
OnlyContactsOrphan == [][Orphan' /\ ~Orphan => probed']_servo

(* jog.rs observe_manual_probe_stop() "Retire its interrupted target,       *)
(* without issuing motion": once the cycle of the contact is over, nothing  *)
(* of the retired jog is still being offered to LinuxCNC.                   *)
RetiredJogsOfferNothing == ~probed => ~Orphan

Commits == ~guard.committed /\ guard'.committed

(* README.md "Only after that completion event is the watchdog committed".  *)
(* A start can also be left by a press, a held fault, a switch that starts  *)
(* a bounce, Clear Fault and AXIS Reset, in any order: however it was left, *)
(* the watchdog is committed with the gate open only in a cycle in which    *)
(* HAL reports Machine On, unless an AXIS Reset sequence is under way       *)
(* (update.rs startup_complete, power.rs, watchdog.rs commit).              *)
OpenCommitsNeedMachineOn ==
    [][Commits /\ power'.gate /\ power'.step = "None"
         => \A f \in Frames : Cycle(f) => f.hal.machineOn]_servo

(* The rule as README.md has it, which the code does not keep: the start is *)
(* over for the watchdog at a press or a held fault with the gate closed,   *)
(* and when AXIS Reset takes over.                                          *)
EveryCommitNeedsMachineOn ==
    [][Commits => \A f \in Frames : Cycle(f) => f.hal.machineOn]_servo
=============================================================================
