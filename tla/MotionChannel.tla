---------------------------- MODULE MotionChannel ----------------------------
(***************************************************************************)
(* NativeMotionCommandChannel (dmc2-core/src/motion.rs): one finite jog     *)
(* increment at a time is offered to LinuxCNC's wheel-jog input as chunks,  *)
(* one count per servo cycle with the chunk as its scale; a cycle without   *)
(* enable then takes the counts back to zero.  Operators on a record.       *)
(* Distances are whole pulses, one Budget stands for every target rate.     *)
(***************************************************************************)
EXTENDS JogControl

CONSTANTS
    Budget,     \* pulses a cycle may offer
    CountMax    \* i32::MAX

Wheels == Motors \X Paths   \* an axis or a joint wheel input
AtZero == [w \in Wheels |-> 0]
Counts == -CountMax .. CountMax

Scheduled == [wheel : Wheels, direction : {-1, 1}, remaining : Nat \ {0}]
ASSUME ChannelAssumption ==
    /\ Budget \in Nat \ {0} /\ CountMax \in Nat \ {0}
    /\ None \notin Wheels \cup Scheduled

Channel ==
    [counts  : [Wheels -> Counts],
     enabled : Wheels \cup {None},     \* the one jog-enable that is high
     chunk   : Nat,                    \* its jog-scale, in pulses
     phase   : {"Idle", "JogCount", "Rebase", "Stop", "StopImmediate"},
     active  : Scheduled \cup {None},
     rebase  : BOOLEAN]                \* rebase_pending

NewChannel ==
    [counts |-> AtZero, enabled |-> None, chunk |-> 0, phase |-> "Idle",
     active |-> None, rebase |-> FALSE]
-----------------------------------------------------------------------------
ReadyWhileRebasing(c) ==                     \* mutant of ChannelReady
    c.active = None /\ c.phase # "JogCount"
ChannelReady(c) == c.active = None /\ ~c.rebase /\ c.phase = "Idle"

Withheld(c) == [c EXCEPT !.enabled = None, !.chunk = 0]   \* no enable, no scale
ClearTransient(c) == [Withheld(c) EXCEPT !.phase = "Idle"]

(* publish_next_chunk()                                                     *)
ChunkWhole(a) == Budget                      \* mutant of ChunkOf
ChunkOf(a) == IF a.remaining < Budget THEN a.remaining ELSE Budget
Overruns(c) ==
    c.active # None /\ c.counts[c.active.wheel] + c.active.direction \notin Counts
PublishNextChunk(c) ==
    LET a == c.active
        last == ChunkOf(a) >= a.remaining
    IN  [c EXCEPT !.counts[a.wheel] = @ + a.direction,
                  !.enabled = a.wheel, !.chunk = ChunkOf(a), !.phase = "JogCount",
                  !.active = IF last THEN None
                             ELSE [a EXCEPT !.remaining = a.remaining - ChunkOf(a)],
                  !.rebase = @ \/ last]

(* advance()                                                                *)
AdvancedChannel(c) ==
    LET t == ClearTransient(c)
    IN  IF t.active # None THEN PublishNextChunk(t)
        ELSE IF t.rebase
        THEN [t EXCEPT !.counts = AtZero, !.phase = "Rebase", !.rebase = FALSE]
        ELSE t

(* cancel_increment()                                                       *)
CancelForgetting(c) ==                       \* mutant of CancelIncrement
    [Withheld(c) EXCEPT !.active = None]
CancelIncrement(c) ==
    [Withheld(c) EXCEPT !.active = None, !.rebase = @ \/ c.counts # AtZero]
ForceStopImmediate(c) == [CancelIncrement(c) EXCEPT !.phase = "StopImmediate"]

(* accept(), and when it returns an error; the realtime component answers   *)
(* one with an immediate stop.                                              *)
Size(delta) == IF delta > 0 THEN delta ELSE -delta
WithIncrement(c, command) ==
    [c EXCEPT !.active =
        [wheel |-> <<command.motor, command.path>>,
         direction |-> IF command.delta > 0 THEN 1 ELSE -1,
         remaining |-> Size(command.delta)]]

Refuses(c, command) ==
    /\ command \notin {None, JogStop, JogStopImmediate}
    /\ \/ ~ChannelReady(c) \/ command.delta = 0
       \/ Size(command.delta) > Budget * CountMax
       \/ Overruns(WithIncrement(c, command))

Accepted(c, command) ==
    IF command = None THEN c
    ELSE IF command = JogStop
    THEN [CancelIncrement(c) EXCEPT !.phase = "Stop"]
    ELSE IF command = JogStopImmediate \/ Refuses(c, command)
    THEN ForceStopImmediate(c)
    ELSE PublishNextChunk(WithIncrement(c, command))
=============================================================================
