---------------------------- MODULE EstopGesture -----------------------------
(***************************************************************************)
(* EstopRecoverySequence (dmc2-core/src/recovery.rs) as a state machine of  *)
(* its own: every public operation, called in any order the supervisor      *)
(* could call them, on any packet the decoder can send.                     *)
(***************************************************************************)
EXTENDS RecoverySequence, Sequences

CONSTANT Samples   \* the packets offered in this model
ASSUME SamplesAssumption == Samples \subseteq Sample /\ None \notin Samples

VARIABLES
    recovery,   \* stage, clicks and last error counter
    unlock,     \* RecoveryUpdate.unlock_requested of the last call
    packet      \* the packet of the last call, None if it took none
vars == <<recovery, unlock, packet>>

TypeOK ==
    /\ recovery \in Recovery
    /\ unlock \in BOOLEAN
    /\ packet \in Samples \cup {None}

Init == recovery = InactiveRecovery /\ unlock = FALSE /\ packet = None

(* engage(), called only while no recovery is active.                       *)
Engage(s) ==
    /\ ~RecoveryActive(recovery) /\ s.pressed
    /\ recovery' = Engaged(s) /\ unlock' = FALSE /\ packet' = s

Process(s) ==
    /\ recovery' = Processed(recovery, s)
    /\ unlock' = UnlockRequested(recovery, s)
    /\ packet' = s

(* restart(), the supervisor's refusal of a completed gesture.              *)
Restart(s) ==
    /\ recovery.stage = "CompletePending"
    /\ recovery' = Restarted(s) /\ unlock' = FALSE /\ packet' = s

AcceptUnlock ==
    /\ RecoveryActive(recovery)
    /\ recovery' = InactiveRecovery /\ unlock' = FALSE /\ packet' = None

Next ==
    \/ \E s \in Samples : Engage(s) \/ Process(s) \/ Restart(s)
    \/ AcceptUnlock

Spec == Init /\ [][Next]_vars
-----------------------------------------------------------------------------
(* How much of the script each stage has seen.                              *)
MatchedBy(g) ==
    CASE g.stage \in {"Inactive", "WaitEstopRelease", "WaitX10"} -> 0
      [] g.stage = "WaitX1" -> 1
      [] g.stage = "WaitOff" -> 2
      [] g.stage = "WaitClockwise" -> 3
      [] g.stage = "WaitCounterclockwise" -> 4
      [] g.stage \in {"WaitButtonPress", "CompletePending"} -> 5 + 2 * g.clicks
      [] g.stage = "WaitButtonRelease" -> 6 + 2 * g.clicks
Matched == MatchedBy(recovery)

Promise == INSTANCE GestureScript
    WITH matched <- Matched, counter <- recovery.quadrature

(* README.md "recovery requires exactly X+x10 -> ... -> 3 complete          *)
(* side-button clicks": no stage of the automaton is reached without the    *)
(* scripted moves before it, all of them under one error counter.           *)
ScriptIsFollowed == Promise!Spec

(* An unlock is requested at most once for one run of the gesture, and only *)
(* by the packet that shows the third release: a decoder error, a press or  *)
(* a wrong move since the first move always costs the whole gesture.        *)
UnlockNeedsTheWholeScript ==
    [][unlock' => /\ Matched = Len(Promise!Script) - 1
                  /\ Matched' = Len(Promise!Script)
                  /\ packet'.quadrature = recovery.quadrature]_vars
=============================================================================
